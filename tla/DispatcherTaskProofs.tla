------------------------ MODULE DispatcherTaskProofs ------------------------
(***************************************************************************)
(* Where every task of Dispatcher is: in one place at most, and never lost *)
(* by the main loop but from a full queue.                                 *)
(***************************************************************************)
EXTENDS DispatcherProofs, CommonLemmas

(***************************************************************************)
(* The inductive invariant.  A handler leaves nothing in todo, so that an  *)
(* input meets an empty one; and a manager that sleeps in a handler sleeps *)
(* on a full queue, from which nobody takes while it sleeps.               *)
(***************************************************************************)
TodoHandled == ~Gone /\ todo # << >> => pc \in {"config", "handle"}

AsleepFull == blocked /\ pc \in {"config", "handle"} => Len(queue) >= QueueCapacity

\* The tasks in the manager's hands, and those its workers run.
Held   == Range(todo) \union Range(queue)
InWork == {workers[p] : p \in Listed}

\* TaskOnce, place by place.
OncePlaced == /\ IsInjective(todo) /\ IsInjective(queue)
              /\ Range(todo) \intersect Range(queue) = {}
              /\ \A p, q \in Listed : workers[p] = workers[q] => p = q
              /\ Held \intersect InWork = {}
              /\ (Held \union InWork) \intersect (fresh \union logged) = {}
              /\ fresh \intersect logged = {}

\* Every task that is in any place; all others are lost.
Placed == (fresh \union logged) \union (Held \union InWork)

TaskIInv == /\ TodoHandled
            /\ AsleepFull
            /\ ~Gone => OncePlaced

-----------------------------------------------------------------------------
\* TaskOnce says the same of the concatenation.
LEMMA OnceIsPlaced == TypeOK => (TaskOnce <=> (~Gone => OncePlaced))
<1> SUFFICES ASSUME TypeOK PROVE TaskOnce <=> (~Gone => OncePlaced)
  OBVIOUS
<1>1. /\ Range(todo \o queue) = Held
      /\ IsInjective(todo \o queue) <=>
            /\ IsInjective(todo) /\ IsInjective(queue)
            /\ Range(todo) \intersect Range(queue) = {}
  BY Joined DEF TypeOK, Held
<1> QED
  BY <1>1 DEF TaskOnce, OncePlaced, InWork

\* A task begins: it moves from the manager's hands to a worker.
LEMMA BeginMoves ==
  ASSUME TypeOK, NEW p \in FreePids, NEW t \in Tasks, Begin(p, t)
  PROVE  /\ InWork' = InWork \union {t}
         /\ t \notin InWork /\ (\A q, r \in Listed : workers[q] = workers[r] => q = r)
            => \A q, r \in Listed' : workers'[q] = workers'[r] => q = r
<1>1. p \in Pids /\ p \notin Listed /\ Listed' = Listed \union {p}
  BY BeginAdds DEF FreePids
<1>2. /\ workers'[p] = t
      /\ \A q \in Listed : workers'[q] = workers[q]
  BY <1>1 DEF Begin, TypeOK, Listed
<1>3. InWork' = InWork \union {t}
  BY <1>1, <1>2 DEF InWork
<1>4. ASSUME t \notin InWork, \A q, r \in Listed : workers[q] = workers[r] => q = r
      PROVE  \A q, r \in Listed' : workers'[q] = workers'[r] => q = r
  BY <1>1, <1>2, <1>4 DEF InWork
<1> QED
  BY <1>3, <1>4

\* The initial states: the tasks of the config file are in hand, in order.
LEMMA InitTaskIInv == Init => TaskIInv
<1> SUFFICES ASSUME Init PROVE TaskIInv
  OBVIOUS
<1>1. PICK n \in 0..MaxBatch : todo \in Injection(1..n, Tasks)
  BY DEF Init
<1>2. IsInjective(todo)
  BY <1>1 DEF Injection
<1>3. Range(queue) = {} /\ IsInjective(queue)
  BY DEF Init, Range, IsInjective
<1>4. Listed = {} /\ InWork = {}
  BY DEF Init, Listed, InWork
<1>5. OncePlaced
  BY <1>2, <1>3, <1>4 DEF OncePlaced, Held, Init
<1> QED
  BY <1>5 DEF TaskIInv, TodoHandled, AsleepFull, Init

-----------------------------------------------------------------------------
\* Every step keeps the invariant, and every step but a worker's end and the
\* manager's own keeps every task in some place.

\* Nothing that holds tasks changes.
LEMMA UntouchedKeeps ==
  ASSUME IInv, TaskIInv, UNCHANGED <<todo, queue, workers, fresh, logged>>,
         Gone => Gone',
         todo # << >> => pc' = pc \/ Gone',
         pc' \in {"config", "handle"} /\ blocked' => AsleepFull'
  PROVE  TaskIInv' /\ Placed' = Placed
<1>1. Listed' = Listed /\ Held' = Held /\ InWork' = InWork
  <2>1. Listed' = Listed
    BY DEF Listed
  <2> QED
    BY <2>1 DEF Held, InWork
<1>2. ~Gone' => OncePlaced'
  BY <1>1 DEF OncePlaced, TaskIInv
<1>3. TodoHandled'
  BY DEF TodoHandled, TaskIInv
<1>4. AsleepFull'
  BY DEF AsleepFull
<1> QED
  BY <1>1, <1>2, <1>3, <1>4 DEF TaskIInv, Placed

LEMMA QuietKeepsTasks ==
  ASSUME IInv, TaskIInv, HandDone \/ Sleep \/ Check \/ IgnoreChildren \/ ShutdownCommand
  PROVE  TaskIInv' /\ Placed' = Placed
<1>1. UNCHANGED <<todo, queue, workers, fresh, logged>>
  BY DEF HandDone, Sleep, Check, IgnoreChildren, ShutdownCommand
<1>2. /\ ~Gone /\ pc' \notin {"config", "handle"}
      /\ todo = << >>
  BY DEF HandDone, Sleep, Check, IgnoreChildren, ShutdownCommand, LoopHead, Gone,
         TaskIInv, TodoHandled
<1> QED
  BY <1>1, <1>2, UntouchedKeeps

\* enqueue_worker: the first task of the handler goes to a worker, to the end
\* of the queue, or nowhere.
LEMMA HandKeepsTasks ==
  ASSUME IInv, TaskIInv, Hand
  PROVE  TaskIInv' /\ Placed' = Placed
<1>1. /\ pc \in {"config", "handle"} /\ ~blocked /\ todo # << >> /\ ~Gone /\ ~Gone'
      /\ UNCHANGED <<pc, fresh, logged>>
      /\ TypeOK /\ OncePlaced
  BY DEF Hand, Gone, IInv, TaskIInv
<1>2. /\ Head(todo) \in Tasks /\ Tail(todo) \in Seq(Tasks)
      /\ Range(todo) = {Head(todo)} \union Range(Tail(todo))
      /\ IsInjective(Tail(todo)) /\ Head(todo) \notin Range(Tail(todo))
  BY <1>1, TakeFirst DEF TypeOK, OncePlaced
<1>3. CASE /\ \E p \in FreePids : Begin(p, Head(todo))
           /\ todo' = Tail(todo)
           /\ UNCHANGED <<queue, blocked>>
  <2>1. PICK p \in FreePids : Begin(p, Head(todo))
    BY <1>3
  <2>2. Head(todo) \notin InWork
    BY <1>1, <1>2 DEF OncePlaced, Held
  <2>3. /\ InWork' = InWork \union {Head(todo)}
        /\ \A q, r \in Listed' : workers'[q] = workers'[r] => q = r
    BY <1>1, <1>2, <2>1, <2>2, BeginMoves DEF OncePlaced
  <2>4. OncePlaced' /\ Placed' = Placed
    BY <1>1, <1>2, <1>3, <2>3 DEF OncePlaced, Held, Placed
  <2> QED
    BY <1>1, <1>3, <2>4 DEF TaskIInv, TodoHandled, AsleepFull
<1>4. CASE /\ queue' = Append(queue, Head(todo))
           /\ todo' = Tail(todo)
           /\ UNCHANGED <<workers, blocked>>
  <2>1. Head(todo) \notin Range(queue)
    BY <1>1, <1>2 DEF OncePlaced
  <2>2. Range(queue') = Range(queue) \union {Head(todo)} /\ IsInjective(queue')
    BY <1>1, <1>2, <1>4, <2>1, PutLast DEF TypeOK, OncePlaced
  <2>3. Listed' = Listed /\ InWork' = InWork
    BY <1>4 DEF Listed, InWork
  <2>4. OncePlaced' /\ Placed' = Placed
    BY <1>1, <1>2, <1>4, <2>2, <2>3 DEF OncePlaced, Held, Placed
  <2> QED
    BY <1>1, <1>4, <2>4 DEF TaskIInv, TodoHandled, AsleepFull
<1>5. CASE /\ Len(queue) >= QueueCapacity
           /\ UNCHANGED <<queue, workers, todo>>
  <2>1. AsleepFull'
    BY <1>5 DEF AsleepFull
  <2> QED
    BY <1>1, <1>5, <2>1, UntouchedKeeps
<1> QED
  BY <1>3, <1>4, <1>5 DEF Hand

\* An input brings tasks nobody has asked for, to a handler with empty hands.
LEMMA InputKeepsTasks ==
  ASSUME IInv, TaskIInv, NEW ts \in Batches, Input(ts)
  PROVE  TaskIInv' /\ Placed' = Placed
<1>1. /\ pc = "select" /\ pc' = "handle" /\ ~blocked' /\ ~Gone
      /\ todo' = ts /\ fresh' = fresh \ Range(ts)
      /\ UNCHANGED <<queue, workers, logged>>
      /\ OncePlaced /\ todo = << >>
  BY DEF Input, Gone, TaskIInv, TodoHandled
<1>2. PICK n \in 0..MaxBatch : ts \in Injection(1..n, fresh)
  BY DEF Batches
<1>3. IsInjective(ts) /\ Range(ts) \subseteq fresh
  BY <1>2 DEF Injection, Range
<1>4. Range(todo) = {}
  BY <1>1 DEF Range
<1>5. Listed' = Listed /\ InWork' = InWork
  BY <1>1 DEF Listed, InWork
<1>6. OncePlaced' /\ Placed' = Placed
  BY <1>1, <1>3, <1>4, <1>5 DEF OncePlaced, Held, Placed
<1> QED
  BY <1>1, <1>6 DEF TaskIInv, TodoHandled, AsleepFull

\* A finished task moves from its worker to the log, and with refill the
\* oldest waiting one from the queue to a worker.
LEMMA CollectKeepsTasks ==
  ASSUME IInv, TaskIInv, NEW p \in Zombies, NEW refill \in BOOLEAN, NEW STATE next,
         Collect(p, refill, next), UNCHANGED <<blocked, todo, fresh>>,
         pc \in {"reap", "wait", "drain"}
  PROVE  TaskIInv' /\ Placed' = Placed
<1>1. /\ ~Gone /\ TypeOK /\ OncePlaced /\ p \in Listed /\ p \in Pids
      /\ todo = << >> /\ todo' = << >>
  BY DEF Gone, IInv, TaskIInv, TodoHandled, BooksTied, Children, Zombies
<1>2. CASE child[p] = "mute"
  <2>1. UNCHANGED <<workers, queue, logged>> /\ pc' = "crashed"
    BY <1>1, <1>2, CollectNothing
  <2> QED
    BY <1>1, <2>1, UntouchedKeeps DEF Gone
<1>3. CASE child[p] # "mute" /\ ~Refills(refill)
  <2>1. /\ workers' = [workers EXCEPT ![p] = NoTask]
        /\ logged' = logged \union {workers[p]}
        /\ queue' = queue /\ pc' = pc
    BY <1>1, <1>3 DEF Collect
  <2>2. Listed' = Listed \ {p}
    BY <1>1, <2>1 DEF Listed, TypeOK
  <2>3. \A q \in Listed' : workers'[q] = workers[q]
    BY <2>1, <2>2 DEF Listed, TypeOK
  <2>4. InWork' = InWork \ {workers[p]} /\ workers[p] \in InWork
    BY <1>1, <2>2, <2>3 DEF InWork, OncePlaced
  <2>5. Held' = Held
    BY <1>1, <2>1 DEF Held
  <2>6. \A q, r \in Listed' : workers'[q] = workers'[r] => q = r
    BY <1>1, <2>2, <2>3 DEF OncePlaced
  <2>7. OncePlaced' /\ Placed' = Placed
    BY <1>1, <2>1, <2>4, <2>5, <2>6 DEF OncePlaced, Placed
  <2> QED
    BY <1>1, <2>1, <2>7 DEF TaskIInv, TodoHandled, AsleepFull
<1>4. CASE child[p] # "mute" /\ Refills(refill)
  <2>1. PICK r \in FreePids \union {p} : Replaced(p, r)
    BY <1>1, <1>4, CollectReplaces DEF Refills
  <2>2. /\ Listed' = (Listed \ {p}) \union {r}
        /\ workers' = [workers EXCEPT ![p] = NoTask, ![r] = Head(queue)]
        /\ logged' = logged \union {workers[p]}
        /\ queue' = Tail(queue) /\ queue # << >> /\ pc' = pc
    BY <1>1, <1>4, <2>1 DEF Replaced, Collect, Refills
  <2>3. /\ Range(queue) = {Head(queue)} \union Range(queue')
        /\ IsInjective(queue') /\ Head(queue) \notin Range(queue')
    BY <1>1, <2>2, TakeFirst DEF TypeOK, OncePlaced
  <2>4. r \in Pids /\ (r = p \/ r \notin Listed)
    BY <1>1 DEF FreePids
  <2>5. /\ workers'[r] = Head(queue)
        /\ \A q \in Listed \ {p} : workers'[q] = workers[q] /\ q # r
    BY <1>1, <2>2, <2>4 DEF TypeOK, Listed
  <2>6. /\ InWork' = (InWork \ {workers[p]}) \union {Head(queue)}
        /\ workers[p] \in InWork
    <3>1. {workers[q] : q \in Listed \ {p}} = InWork \ {workers[p]}
      BY <1>1 DEF InWork, OncePlaced
    <3>2. InWork' = {workers[q] : q \in Listed \ {p}} \union {Head(queue)}
      BY <2>2, <2>5 DEF InWork
    <3> QED
      BY <1>1, <3>1, <3>2 DEF InWork
  <2>7. Head(queue) \notin InWork
    BY <1>1, <2>3 DEF OncePlaced, Held
  <2>8. \A q, s \in Listed' : workers'[q] = workers'[s] => q = s
    BY <1>1, <2>2, <2>5, <2>7 DEF OncePlaced, InWork
  <2>9. Held = Held' \union {Head(queue)} /\ Head(queue) \notin Held'
    BY <1>1, <2>3 DEF Held, OncePlaced
  <2>10. Placed' = Placed
    BY <2>2, <2>6, <2>9 DEF Placed
  <2>11. IsInjective(todo') /\ Range(todo') \intersect Range(queue') = {}
    BY <1>1, <2>3 DEF OncePlaced
  <2>12. /\ Held' \intersect InWork' = {}
         /\ (Held' \union InWork') \intersect (fresh' \union logged') = {}
         /\ fresh' \intersect logged' = {}
    BY <1>1, <2>2, <2>6, <2>9 DEF OncePlaced
  <2>13. OncePlaced'
    BY <2>3, <2>8, <2>11, <2>12 DEF OncePlaced
  <2> QED
    BY <1>1, <2>2, <2>10, <2>13 DEF TaskIInv, TodoHandled, AsleepFull
<1> QED
  BY <1>2, <1>3, <1>4

\* complete_enqueued_workers: the oldest waiting task goes to a worker.
LEMMA FillKeepsTasks ==
  ASSUME IInv, TaskIInv, Fill
  PROVE  TaskIInv' /\ Placed' = Placed
<1>1. /\ pc = "fill" /\ pc' \in {"fill", "drain"} /\ ~Gone /\ todo = << >>
      /\ UNCHANGED <<blocked, todo, fresh, logged>>
      /\ TypeOK /\ OncePlaced
  BY DEF Fill, Gone, IInv, TaskIInv, TodoHandled
<1>2. CASE HasRoom /\ queue # << >>
  <2>1. PICK p \in FreePids : Begin(p, Head(queue))
    BY <1>2 DEF Fill
  <2>2. queue' = Tail(queue)
    BY <1>2 DEF Fill
  <2>3. /\ Head(queue) \in Tasks
        /\ Range(queue) = {Head(queue)} \union Range(queue')
        /\ IsInjective(queue') /\ Head(queue) \notin Range(queue')
    BY <1>1, <1>2, <2>2, TakeFirst DEF TypeOK, OncePlaced
  <2>4. Head(queue) \notin InWork
    BY <1>1, <2>3 DEF OncePlaced, Held
  <2>5. /\ InWork' = InWork \union {Head(queue)}
        /\ \A q, r \in Listed' : workers'[q] = workers'[r] => q = r
    BY <1>1, <2>1, <2>3, <2>4, BeginMoves DEF OncePlaced
  <2>6. OncePlaced' /\ Placed' = Placed
    BY <1>1, <2>3, <2>5 DEF OncePlaced, Held, Placed
  <2> QED
    BY <1>1, <2>6 DEF TaskIInv, TodoHandled, AsleepFull
<1>3. CASE ~(HasRoom /\ queue # << >>)
  <2>1. UNCHANGED <<queue, workers>>
    BY <1>3 DEF Fill
  <2> QED
    BY <1>1, <2>1, UntouchedKeeps
<1> QED
  BY <1>2, <1>3

\* After the end of the manager nothing is claimed.
LEMMA CleanupKeepsTasks ==
  ASSUME IInv, TaskIInv, NEW end \in {"exited", "killed"}, Cleanup(end)
  PROVE  TaskIInv' /\ Gone'
BY DEF Cleanup, TaskIInv, TodoHandled, AsleepFull, Gone

\* A worker's end, when it interrupts msgsnd on a full queue, is the one step
\* that loses a task, and it loses one.
LEMMA ChildExitKeepsTasks ==
  ASSUME IInv, TaskIInv, NEW p \in Pids, NEW how \in {"done", "mute"}, ChildExit(p, how)
  PROVE  /\ TaskIInv'
         /\ \/ Placed' = Placed
            \/ /\ blocked /\ Len(queue) >= QueueCapacity
               /\ Head(todo) \in Placed /\ Head(todo) \in Tasks
               /\ Placed' = Placed \ {Head(todo)}
<1>1. UNCHANGED <<queue, workers, fresh, logged>> /\ TypeOK
  BY DEF ChildExit, IInv
<1>2. CASE DrainPhase \/ Gone \/ ~blocked \/ pc = "select"
  <2>1. /\ UNCHANGED todo /\ (pc' = pc \/ pc' = "check")
        /\ pc' = "check" => pc \in {"check", "select"}
        /\ blocked' => blocked
    BY <1>2 DEF ChildExit, TypeOK
  <2>2. Gone => Gone'
    BY <2>1 DEF Gone
  <2>3. todo # << >> => pc' = pc \/ Gone'
    BY <2>1, <2>2 DEF TaskIInv, TodoHandled
  <2>4. pc' \in {"config", "handle"} /\ blocked' => AsleepFull'
    <3> SUFFICES ASSUME pc' \in {"config", "handle"}, blocked'
                 PROVE  Len(queue) >= QueueCapacity
      BY <1>1 DEF AsleepFull
    <3>1. pc \in {"config", "handle"} /\ blocked
      BY <2>1
    <3> QED
      BY <3>1 DEF TaskIInv, AsleepFull
  <2> QED
    BY <1>1, <2>1, <2>2, <2>3, <2>4, UntouchedKeeps
<1>3. CASE ~DrainPhase /\ ~Gone /\ blocked /\ pc # "select"
  <2>1. /\ todo' = Tail(todo) /\ UNCHANGED pc /\ blocked' = FALSE
    BY <1>3 DEF ChildExit
  <2>2. /\ pc \in {"config", "handle"} /\ todo # << >>
        /\ Len(queue) >= QueueCapacity /\ OncePlaced
    BY <1>3 DEF IInv, AsleepWhere, TaskIInv, AsleepFull
  <2>3. /\ Head(todo) \in Tasks
        /\ Range(todo) = {Head(todo)} \union Range(todo')
        /\ IsInjective(todo') /\ Head(todo) \notin Range(todo')
    BY <1>1, <2>1, <2>2, TakeFirst DEF TypeOK, OncePlaced
  <2>4. Listed' = Listed /\ InWork' = InWork
    BY <1>1 DEF Listed, InWork
  <2>5. Held' = Held \ {Head(todo)} /\ Head(todo) \in Held
    BY <1>1, <2>2, <2>3 DEF Held, OncePlaced
  <2>6. Head(todo) \notin InWork \union (fresh \union logged)
    BY <2>2, <2>5 DEF OncePlaced
  <2>7. Placed' = Placed \ {Head(todo)} /\ Head(todo) \in Placed
    BY <1>1, <2>4, <2>5, <2>6 DEF Placed
  <2>8. OncePlaced'
    BY <1>1, <2>2, <2>3, <2>4, <2>5 DEF OncePlaced
  <2>9. TaskIInv'
    BY <2>1, <2>2, <2>8 DEF TaskIInv, TodoHandled, AsleepFull
  <2> QED
    BY <1>3, <2>2, <2>3, <2>7, <2>9
<1> QED
  BY <1>2, <1>3

\* What a step does to the places of the tasks.
MovesOrLosesOne ==
    \/ Placed' = Placed
    \/ Gone'
    \/ \E t \in Tasks \intersect Placed :
          Placed' = Placed \ {t} /\ blocked /\ Len(queue) >= QueueCapacity

LEMMA NextKeepsTasks ==
  ASSUME IInv, TaskIInv, [Next]_vars
  PROVE  TaskIInv' /\ MovesOrLosesOne
<1> USE DEF MovesOrLosesOne
<1>1. CASE Hand
  BY <1>1, HandKeepsTasks
<1>2. CASE HandDone \/ Sleep \/ Check \/ IgnoreChildren \/ ShutdownCommand
  BY <1>2, QuietKeepsTasks
<1>3. CASE \E ts \in Batches : Input(ts)
  BY <1>3, InputKeepsTasks
<1>4. CASE Reap \/ WaitRunning
  <2>1. /\ UNCHANGED <<blocked, todo, fresh>> /\ ~Gone
        /\ pc \in {"reap", "wait"}
    BY <1>4 DEF Reap, WaitRunning, Gone
  <2>2. CASE \E p \in Zombies : Collect(p, TRUE, LoopHead)
    BY <2>1, <2>2, CollectKeepsTasks
  <2>3. CASE \E p \in Zombies : Collect(p, FALSE, pc)
    BY <2>1, <2>3, CollectKeepsTasks
  <2>4. CASE UNCHANGED <<queue, workers, logged>> /\ pc' \in {"select", "shutdown", "fill"}
    <3>1. todo = << >>
      BY <2>1 DEF TaskIInv, TodoHandled
    <3> QED
      BY <2>1, <2>4, <3>1, UntouchedKeeps
  <2> QED
    BY <1>4, <2>2, <2>3, <2>4 DEF Reap, WaitRunning, LoopHead
<1>5. CASE Fill
  BY <1>5, FillKeepsTasks
<1>6. CASE Drain
  <2>1. Zombies = {}
    BY <1>6 DEF Drain, IInv, NothingLeftToReap
  <2> QED
    BY <1>6, <2>1, CleanupKeepsTasks DEF Drain
<1>7. CASE Terminate
  BY <1>7, CleanupKeepsTasks DEF Terminate
<1>8. CASE \E p \in Pids : Worker(p)
  BY <1>8, ChildExitKeepsTasks DEF Worker
<1>9. CASE UNCHANGED vars
  <2>1. UNCHANGED <<todo, queue, workers, fresh, logged, pc, blocked>>
    BY <1>9 DEF vars
  <2>2. Gone => Gone'
    BY <2>1 DEF Gone
  <2>3. AsleepFull'
    BY <2>1 DEF AsleepFull, TaskIInv
  <2> QED
    BY <2>1, <2>2, <2>3, UntouchedKeeps
<1> QED
  BY <1>1, <1>2, <1>3, <1>4, <1>5, <1>6, <1>7, <1>8, <1>9
  DEF Next, Manager, Environment

(***************************************************************************)
(* The inductive invariant of the tasks holds in every reachable state.    *)
(***************************************************************************)
THEOREM TasksInductive == Spec => [](IInv /\ TaskIInv)
<1>1. Init => TaskIInv
  BY InitTaskIInv
<1>2. IInv /\ TaskIInv /\ [Next]_vars => TaskIInv'
  BY NextKeepsTasks
<1> QED
  BY <1>1, <1>2, Inductive, PTL DEF Spec

-----------------------------------------------------------------------------
(***************************************************************************)
(* No task is run or logged twice, however inputs, interrupted sends,      *)
(* reaping and the shutdown interleave.                                    *)
(***************************************************************************)
THEOREM Once == Spec => []TaskOnce
<1>1. IInv /\ TaskIInv => TaskOnce
  BY OnceIsPlaced DEF IInv, TaskIInv
<1> QED
  BY <1>1, TasksInductive, PTL

(***************************************************************************)
(* The main loop loses a task only where a worker's end interrupts msgsnd  *)
(* on a full queue, and then it loses one.                                 *)
(***************************************************************************)
THEOREM LossOnlyAtFullQueue == Spec => LostOnlyAtFullQueue
<1>1. ASSUME IInv, TaskIInv, [Next]_vars, IInv'
      PROVE  MainPhase /\ Lost' # Lost =>
               \/ Gone'
               \/ /\ blocked /\ Len(queue) >= QueueCapacity
                  /\ Cardinality(Lost' \ Lost) = 1
  <2>1. Lost = Tasks \ Placed
    <3>1. Range(todo \o queue) = Held
      BY <1>1, Joined DEF IInv, TypeOK, Held
    <3> QED
      BY <3>1 DEF Lost, Placed, InWork
  <2>2. Lost' = Tasks \ Placed'
    <3>1. Range(todo' \o queue') = Held'
      BY <1>1, Joined DEF IInv, TypeOK, Held
    <3> QED
      BY <3>1 DEF Lost, Placed, InWork
  <2>3. MovesOrLosesOne
    BY <1>1, NextKeepsTasks
  <2>4. ASSUME NEW t \in Tasks \intersect Placed, Placed' = Placed \ {t}
        PROVE  Cardinality(Lost' \ Lost) = 1
    <3>1. Lost' \ Lost = {t}
      BY <2>1, <2>2, <2>4
    <3> QED
      BY <3>1, FS_Singleton
  <2> QED
    BY <2>1, <2>2, <2>3, <2>4 DEF MovesOrLosesOne
<1> QED
  BY <1>1, TasksInductive, PTL DEF Spec, LostOnlyAtFullQueue
=============================================================================
