------------------------------ MODULE TaskPool ------------------------------
(***************************************************************************)
(* What the manager's worker scheduling promises, without processes,       *)
(* signals, flags or a message queue: a pool of slots that runs at most    *)
(* Limit tasks at a time and a backlog served first come, first served.    *)
(* The detailed scheduler (Dispatcher) is shown to implement it, and the   *)
(* registry of directory pairs (Registry) relies on nothing more.          *)
(*                                                                         *)
(* The promise lies in what is NOT an action.  While the pool is open no   *)
(* task overtakes another, a slot freed while tasks wait is given to the   *)
(* oldest of them in the same step, and an accepted task leaves the        *)
(* backlog only to be started.  Only a stopping pool may discard.          *)
(***************************************************************************)
EXTENDS Integers, Sequences, FiniteSets

CONSTANTS Tasks,     \* the sync tasks that can be asked for
          Slots,     \* where tasks run
          Idle,      \* the value of a slot that runs nothing
          Limit,     \* how many tasks may run at a time
          Capacity   \* how many tasks may wait

VARIABLES backlog,   \* accepted tasks that wait for a slot, oldest first
          slot,      \* what every slot runs
          phase      \* "open", then "closing" (a shutdown), then "stopped"

poolVars == <<backlog, slot, phase>>

Busy == {s \in Slots : slot[s] # Idle}

PoolTypeOK == /\ backlog \in Seq(Tasks)
              /\ slot \in [Slots -> Tasks \union {Idle}]
              /\ phase \in {"open", "closing", "stopped"}

Init == /\ backlog = << >>
        /\ slot = [s \in Slots |-> Idle]
        /\ phase = "open"

\* A task may go straight to a slot only if nothing waits: no overtaking.
SubmitStart(t, s) == /\ phase = "open"
                     /\ Cardinality(Busy) < Limit
                     /\ backlog = << >>
                     /\ slot[s] = Idle
                     /\ slot' = [slot EXCEPT ![s] = t]
                     /\ UNCHANGED <<backlog, phase>>

\* A task may be made to wait only if every permitted slot is taken.
SubmitWait(t) == /\ phase = "open"
                 /\ Cardinality(Busy) >= Limit
                 /\ Len(backlog) < Capacity
                 /\ backlog' = Append(backlog, t)
                 /\ UNCHANGED <<slot, phase>>

\* A task ends and nothing waits.
Finish(s) == /\ phase = "open"
             /\ slot[s] # Idle
             /\ backlog = << >>
             /\ slot' = [slot EXCEPT ![s] = Idle]
             /\ UNCHANGED <<backlog, phase>>

\* A task ends and the oldest waiting task takes its place at once.
FinishAndStart(s, r) ==
    /\ phase = "open"
    /\ slot[s] # Idle
    /\ backlog # << >>
    /\ r = s \/ slot[r] = Idle
    /\ slot' = [slot EXCEPT ![s] = Idle, ![r] = Head(backlog)]
    /\ backlog' = Tail(backlog)
    /\ UNCHANGED phase

Close == /\ phase = "open"
         /\ phase' = "closing"
         /\ UNCHANGED <<backlog, slot>>

\* While closing, a finished task is first only accounted for ...
Release(s) == /\ phase = "closing"
              /\ slot[s] # Idle
              /\ slot' = [slot EXCEPT ![s] = Idle]
              /\ UNCHANGED <<backlog, phase>>

\* ... and waiting tasks are started afterwards, still in order.
Resume(s) == /\ phase = "closing"
             /\ backlog # << >>
             /\ Cardinality(Busy) < Limit
             /\ slot[s] = Idle
             /\ slot' = [slot EXCEPT ![s] = Head(backlog)]
             /\ backlog' = Tail(backlog)
             /\ UNCHANGED phase

\* The end, orderly (everything is released) or not (everything is left).
Stop == /\ phase # "stopped"
        /\ phase' = "stopped"
        /\ \/ /\ backlog' = << >>
              /\ slot' = [s \in Slots |-> Idle]
           \/ UNCHANGED <<backlog, slot>>

Next == \/ \E t \in Tasks : SubmitWait(t) \/ \E s \in Slots : SubmitStart(t, s)
        \/ \E s \in Slots : \/ Finish(s)
                            \/ \E r \in Slots : FinishAndStart(s, r)
                            \/ Release(s)
                            \/ Resume(s)
        \/ Close
        \/ Stop

PoolSpec == Init /\ [][Next]_poolVars

=============================================================================
