------------------------------- MODULE Worker -------------------------------
(***************************************************************************)
(* The worker processes and what their reports say.  Every worker runs one *)
(* operation, puts an error message into a System V queue whenever a file  *)
(* gives it trouble, builds its report from its counters and from that     *)
(* queue, and removes the queue.  The queue's key is the same for all of   *)
(* them, so workers that run together share it, take each other's messages *)
(* and remove it under each other.                                         *)
(*                                                                         *)
(* What the file system answers is nondeterministic.  A message stands for *)
(* the worker that made it.                                                *)
(*                                                                         *)
(* A definition marked as a slip is no part of the specification: it is    *)
(* the definition after it with one plausible mistake.                     *)
(***************************************************************************)
EXTENDS Integers, Sequences, FiniteSets

CONSTANTS Workers,        \* worker processes; each runs once
          MaxActive,      \* workers at a time: the manager's limit
          ErrorCapacity,  \* messages that fit into the error queue
          MaxFiles,       \* bound: entries of a directory
          MaxKills        \* bound: workers that die of a signal

ASSUME WorkerAssumption == /\ MaxActive \in Nat
                           /\ ErrorCapacity \in Nat
                           /\ MaxFiles \in Nat
                           /\ MaxKills \in Nat

VARIABLES mem,      \* the memory of every worker
          gen,      \* the error queue that now exists under the key; 0: none
          lastGen,  \* how many have been created
          errq,     \* its messages
          kills

vars == <<mem, gen, lastGen, errq, kills>>

Operations == {"FULL", "ADDED", "MODIFIED", "DELETED", "unknown"}

\* The variables of worker.c, its place, what is left of the directory it
\* works on, and its report.  made counts the messages it tried to send.
Fresh == [pc |-> "idle", operation |-> "unknown", error_qid |-> 0, left |-> 0,
          files_copied |-> 0, files_skipped |-> 0, error_count |-> 0, made |-> 0,
          status |-> "none", errors |-> << >>]

Active(w) == mem[w].pc \notin {"idle", "reported", "mute"}

Init == /\ mem = [w \in Workers |-> Fresh]
        /\ gen = 0
        /\ lastGen = 0
        /\ errq = << >>
        /\ kills = 0

-----------------------------------------------------------------------------
(***************************************************************************)
(* Steps of a worker's memory, with and without an error message.          *)
(***************************************************************************)
Becomes(w, m) == mem' = [mem EXCEPT ![w] = m]

Quietly(w, m) == Becomes(w, m) /\ UNCHANGED <<gen, lastGen, errq, kills>>

\* enqueue: it sleeps while the queue is full and fails, unnoticed, when the
\* queue has been removed.
Raise(w, m) ==
    /\ IF mem[w].error_qid = gen
       THEN /\ Len(errq) < ErrorCapacity
            /\ errq' = Append(errq, w)
       ELSE UNCHANGED errq
    /\ Becomes(w, [m EXCEPT !.made = @ + 1])
    /\ UNCHANGED <<gen, lastGen, kills>>

RaiseAndCount(w, m) == Raise(w, [m EXCEPT !.error_count = @ + 1])

-----------------------------------------------------------------------------
\* main up to the operation: init_queue finds the queue or creates it.
Start(w, operation) ==
    /\ mem[w].pc = "idle"
    /\ Cardinality({v \in Workers : Active(v)}) < MaxActive
    /\ gen' = IF gen = 0 THEN lastGen + 1 ELSE gen
    /\ lastGen' = IF gen = 0 THEN lastGen + 1 ELSE lastGen
    /\ Becomes(w, [Fresh EXCEPT !.operation = operation, !.error_qid = gen',
                                !.pc = CASE operation = "FULL"    -> "target"
                                         [] operation = "unknown" -> "free"
                                         [] OTHER                 -> "file"])
    /\ UNCHANGED <<errq, kills>>

\* sync_directories: open the target, ...
OpenTarget(w) ==
    /\ mem[w].pc = "target"
    /\ \/ \E n \in 0..MaxFiles : Quietly(w, [mem[w] EXCEPT !.pc = "delete", !.left = n])
       \/ RaiseAndCount(w, [mem[w] EXCEPT !.pc = "report"])

\* ... delete what it holds, open the source, ...
DeleteOne(w) ==
    /\ mem[w].pc = "delete"
    /\ LET next == [mem[w] EXCEPT !.left = @ - 1]
       IN  \/ mem[w].left > 0 /\ (Quietly(w, next) \/ RaiseAndCount(w, next))
           \/ /\ mem[w].left = 0
              /\ \/ \E n \in 0..MaxFiles :
                       Quietly(w, [mem[w] EXCEPT !.pc = "copy", !.left = n])
                 \/ RaiseAndCount(w, [mem[w] EXCEPT !.pc = "report"])

\* The outcomes of copy_file: copied; open, read or chmod failed; or a write
\* fell short, which is put into the queue but not counted.
CopyFile(w, next) ==
    LET skipped == [next EXCEPT !.files_skipped = @ + 1]
    IN  \/ Quietly(w, [next EXCEPT !.files_copied = @ + 1])
        \/ RaiseAndCount(w, skipped)
        \/ Raise(w, skipped)

\* A slip: one round too many.
CopyOneTooFar(w) ==
    /\ mem[w].pc = "copy"
    /\ IF mem[w].left >= 0
       THEN CopyFile(w, [mem[w] EXCEPT !.left = @ - 1])
       ELSE Quietly(w, [mem[w] EXCEPT !.pc = "report"])

\* ... and copy what the source holds.
CopyOne(w) ==
    /\ mem[w].pc = "copy"
    /\ IF mem[w].left > 0
       THEN CopyFile(w, [mem[w] EXCEPT !.left = @ - 1])
       ELSE Quietly(w, [mem[w] EXCEPT !.pc = "report"])

\* ADDED, MODIFIED and DELETED.
OneFile(w) ==
    /\ mem[w].pc = "file"
    /\ LET next == [mem[w] EXCEPT !.pc = "report"]
       IN  IF mem[w].operation = "DELETED"
           THEN \/ Quietly(w, [next EXCEPT !.files_copied = @ + 1])
                \/ RaiseAndCount(w, [next EXCEPT !.files_skipped = @ + 1])
           ELSE CopyFile(w, next)

Status(m) == IF m.error_count = 0 THEN "SUCCESS"
             ELSE IF m.operation = "FULL" /\ m.files_copied > 0 THEN "PARTIAL"
             ELSE "ERROR"

\* make_exec_report: the status, and with errors the queue's messages, one
\* by one until there is none or the queue is gone.
MakeReport(w) ==
    /\ mem[w].pc = "report"
    /\ Quietly(w, [mem[w] EXCEPT !.status = Status(mem[w]),
                                 !.pc = IF mem[w].error_count > 0 THEN "drain" ELSE "free"])

\* A slip: msgrcv without IPC_NOWAIT.
DrainWaits(w) ==
    /\ mem[w].pc = "drain"
    /\ IF mem[w].error_qid = gen
       THEN /\ errq # << >>
            /\ Becomes(w, [mem[w] EXCEPT !.errors = Append(@, Head(errq))])
            /\ errq' = Tail(errq)
            /\ UNCHANGED <<gen, lastGen, kills>>
       ELSE Quietly(w, [mem[w] EXCEPT !.pc = "free"])

\* A slip: "if" in place of "while".
DrainFirstOnly(w) ==
    /\ mem[w].pc = "drain"
    /\ IF mem[w].error_qid = gen /\ errq # << >>
       THEN /\ Becomes(w, [mem[w] EXCEPT !.errors = << Head(errq) >>, !.pc = "free"])
            /\ errq' = Tail(errq)
            /\ UNCHANGED <<gen, lastGen, kills>>
       ELSE Quietly(w, [mem[w] EXCEPT !.pc = "free"])

DrainOne(w) ==
    /\ mem[w].pc = "drain"
    /\ IF mem[w].error_qid = gen /\ errq # << >>
       THEN /\ Becomes(w, [mem[w] EXCEPT !.errors = Append(@, Head(errq))])
            /\ errq' = Tail(errq)
            /\ UNCHANGED <<gen, lastGen, kills>>
       ELSE Quietly(w, [mem[w] EXCEPT !.pc = "free"])

\* A slip: the queue is not removed.
FreeKeepsQueue(w) ==
    /\ mem[w].pc = "free"
    /\ Quietly(w, [mem[w] EXCEPT !.pc = IF mem[w].status = "none" THEN "mute"
                                        ELSE "reported"])

\* free_memory removes the queue for everybody; exit flushes the report, if
\* there is one, into the pipe.
Free(w) ==
    /\ mem[w].pc = "free"
    /\ Becomes(w, [mem[w] EXCEPT !.pc = IF mem[w].status = "none" THEN "mute"
                                        ELSE "reported"])
    /\ IF mem[w].error_qid = gen THEN gen' = 0 /\ errq' = << >>
                                 ELSE UNCHANGED <<gen, errq>>
    /\ UNCHANGED <<lastGen, kills>>

\* A signal kills the worker; nobody removes the queue for it.
Kill(w) ==
    /\ Active(w)
    /\ kills < MaxKills
    /\ kills' = kills + 1
    /\ Becomes(w, [mem[w] EXCEPT !.pc = "mute"])
    /\ UNCHANGED <<gen, lastGen, errq>>

Work(w) == \/ OpenTarget(w)
           \/ DeleteOne(w)
           \/ CopyOne(w)
           \/ OneFile(w)
           \/ MakeReport(w)
           \/ DrainOne(w)
           \/ Free(w)

Next == \E w \in Workers : \/ \E operation \in Operations : Start(w, operation)
                           \/ Work(w)
                           \/ Kill(w)

Spec == Init /\ [][Next]_vars

\* Nothing but its own system calls stops a worker that was started.
FairSpec == Spec /\ \A w \in Workers : WF_vars(Work(w))

-----------------------------------------------------------------------------
(***************************************************************************)
(* Types; the counters of a worker and what is left of its directory never *)
(* go below zero.                                                          *)
(***************************************************************************)
Memory == [pc : {"idle", "target", "delete", "copy", "file", "report", "drain",
                 "free", "reported", "mute"},
           operation : Operations, error_qid : Nat, left : 0..MaxFiles,
           files_copied : Nat, files_skipped : Nat, error_count : Nat, made : Nat,
           status : {"none", "SUCCESS", "PARTIAL", "ERROR"}, errors : Seq(Workers)]

TypeOK == /\ mem \in [Workers -> Memory]
          /\ lastGen \in Nat
          /\ gen \in {0, lastGen}
          /\ errq \in Seq(Workers)
          /\ Len(errq) <= ErrorCapacity
          /\ kills \in 0..MaxKills

\* w has the queue that now exists.
Holds(w) == Active(w) /\ mem[w].error_qid = gen

(***************************************************************************)
(* No queue outlives its workers: while one exists, some running worker    *)
(* will remove it (free_memory), so the next sync starts with an empty     *)
(* one.  Only a signal that kills a worker can leave a queue behind.       *)
(***************************************************************************)
NoQueueLeft == gen # 0 /\ kills = 0 => \E w \in Workers : Holds(w)

(***************************************************************************)
(* No message in the queue is older than its worker: without such a signal *)
(* no report can name a file that gave trouble to an operation that had    *)
(* already ended.                                                          *)
(***************************************************************************)
MessagesOfTheLiving == kills = 0 => \A i \in DOMAIN errq : Holds(errq[i])

\* No other worker has ever opened the queue that w used.
OwnQueue(w) == \A v \in Workers \ {w} : mem[v].error_qid # mem[w].error_qid

(***************************************************************************)
(* What a report lists is what happened: a worker that had the queue to    *)
(* itself and reports anything but success lists every message it made,    *)
(* whatever other workers did before and after it (make_exec_report).      *)
(***************************************************************************)
OwnErrors ==
    \A w \in Workers :
        mem[w].pc = "reported" /\ mem[w].status # "SUCCESS" /\ OwnQueue(w)
        => /\ Len(mem[w].errors) = mem[w].made
           /\ \A i \in DOMAIN mem[w].errors : mem[w].errors[i] = w

(***************************************************************************)
(* A worker that was started ends, whatever its neighbours do to the queue *)
(* it drains: the loop over dequeue comes to an end.                       *)
(***************************************************************************)
WorkersEnd == \A w \in Workers : Active(w) ~> ~Active(w)

(***************************************************************************)
(* "if the worker return with errors and operation was not full, we report *)
(* the file that had the error" (fss_manager.c:94-95): the first message   *)
(* of such a report, the one the manager logs, is the worker's own.        *)
(***************************************************************************)
NamesItsFile ==
    \A w \in Workers :
        /\ mem[w].pc = "reported"
        /\ mem[w].status = "ERROR"
        /\ mem[w].operation # "FULL"
        => mem[w].errors # << >> /\ Head(mem[w].errors) = w
=============================================================================
