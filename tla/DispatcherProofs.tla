-------------------------- MODULE DispatcherProofs --------------------------
(***************************************************************************)
(* The safety of Dispatcher for every worker limit, queue capacity, set of *)
(* tasks and finite set of pids.                                           *)
(***************************************************************************)
EXTENDS Dispatcher, FiniteSetTheorems, TLAPS

(***************************************************************************)
(* The inductive invariant.  BookkeepingExact alone is not inductive: the  *)
(* count must be tied to the list in the shutdown phases too, where        *)
(* children vanish and the list keeps their entries.                       *)
(***************************************************************************)
BooksTied == ~Gone => /\ Children \subseteq Listed
                      /\ active_worker_count = Cardinality(Listed)

MainListed == MainPhase => Listed = Children

CountBounded == ~Gone => active_worker_count <= WorkerLimit \/ active_worker_count = 0

AsleepWhere == blocked => \/ pc = "select"
                          \/ pc \in {"config", "handle"} /\ todo # << >>

IInv == /\ TypeOK
        /\ BooksTied
        /\ MainListed
        /\ CountBounded
        /\ AsleepWhere
        /\ WorkConserving
        /\ ZombieFlagged
        /\ NothingLeftToReap

-----------------------------------------------------------------------------
\* Lemmas on the worker list and its count.

LEMMA ListedFinite == IsFiniteSet(Listed) /\ Cardinality(Listed) \in Nat
<1>1. Listed \subseteq Pids
  BY DEF Listed
<1>2. IsFiniteSet(Listed)
  BY <1>1, ConstantsAssumption, FS_Subset
<1> QED
  BY <1>2, FS_CardinalityType

\* There is room or the limit is reached.
LEMMA RoomOrLimit ==
  TypeOK => /\ HasRoom <=> active_worker_count < WorkerLimit
            /\ ~HasRoom <=> active_worker_count >= WorkerLimit
BY ConstantsAssumption DEF TypeOK, HasRoom

\* begin_worker adds one child and one entry for it, and counts it.
LEMMA BeginAdds ==
  ASSUME TypeOK, NEW p \in FreePids, NEW t \in Tasks, Begin(p, t)
  PROVE  /\ Listed' = Listed \union {p}
         /\ Children' = Children \union {p}
         /\ Zombies' = Zombies
         /\ Cardinality(Listed') = Cardinality(Listed) + 1
         /\ active_worker_count' = active_worker_count + 1
         /\ workers' \in [Pids -> Tasks \union {NoTask}]
         /\ child' \in [Pids -> {"none", "running", "done", "mute"}]
<1>1. p \in Pids /\ p \notin Listed /\ p \notin Children
  BY DEF FreePids
<1>2. Listed' = Listed \union {p}
  BY <1>1, ConstantsAssumption DEF Listed, Begin, TypeOK
<1>3. Zombies' = Zombies /\ Children' = Children \union {p}
  BY <1>1 DEF Zombies, Running, Children, Begin, TypeOK
<1>4. Cardinality(Listed') = Cardinality(Listed) + 1
  BY <1>1, <1>2, ListedFinite, FS_AddElement
<1> QED
  BY <1>1, <1>2, <1>3, <1>4 DEF Begin, TypeOK

\* Deleting a listed entry takes one from the list's length.
LEMMA DeleteOne ==
  ASSUME NEW p \in Listed
  PROVE  /\ Cardinality(Listed \ {p}) = Cardinality(Listed) - 1
         /\ Cardinality(Listed) > 0
<1>1. /\ IsFiniteSet(Listed \ {p})
      /\ Cardinality(Listed \ {p}) = Cardinality(Listed) - 1
  BY ListedFinite, FS_RemoveElement
<1>2. Cardinality(Listed \ {p}) \in Nat
  BY <1>1, FS_CardinalityType
<1> QED
  BY <1>1, <1>2, ListedFinite

\* Replacing a listed entry by another one keeps the list's length.
LEMMA ReplaceOne ==
  ASSUME NEW p \in Listed, NEW r \in Pids, r = p \/ r \notin Listed
  PROVE  Cardinality((Listed \ {p}) \union {r}) = Cardinality(Listed)
<1>1. IsFiniteSet(Listed \ {p})
  BY ListedFinite, FS_RemoveElement
<1>2. r \notin Listed \ {p}
  OBVIOUS
<1>3. Cardinality((Listed \ {p}) \union {r}) = Cardinality(Listed \ {p}) + 1
  BY <1>1, <1>2, FS_AddElement
<1> QED
  BY <1>3, DeleteOne, ListedFinite

\* A child that is passed over, or that leaves no report, loses its zombie
\* and nothing else changes.
LEMMA CollectNothing ==
  ASSUME TypeOK, NEW p \in Zombies, NEW refill \in BOOLEAN, NEW STATE next,
         Collect(p, refill, next), p \notin Listed \/ child[p] = "mute"
  PROVE  /\ Children' = Children \ {p} /\ Zombies' = Zombies \ {p}
         /\ child' \in [Pids -> {"none", "running", "done", "mute"}]
         /\ UNCHANGED <<workers, active_worker_count, queue, logged>>
         /\ pc' = IF p \notin Listed THEN next ELSE "crashed"
<1>1. p \in Pids
  BY DEF Zombies
<1> QED
  BY <1>1 DEF Collect, TypeOK, Children, Running, Zombies

\* A reported child that is not replaced: one entry and one child fewer.
LEMMA CollectDrops ==
  ASSUME TypeOK, NEW p \in Zombies, NEW refill \in BOOLEAN, NEW STATE next,
         Collect(p, refill, next), p \in Listed, child[p] # "mute",
         ~(refill /\ active_worker_count - 1 < WorkerLimit /\ queue # << >>)
  PROVE  /\ Listed' = Listed \ {p}
         /\ Children' = Children \ {p} /\ Zombies' = Zombies \ {p}
         /\ Cardinality(Listed') = Cardinality(Listed) - 1
         /\ active_worker_count' = active_worker_count - 1
         /\ workers' \in [Pids -> Tasks \union {NoTask}]
         /\ child' \in [Pids -> {"none", "running", "done", "mute"}]
         /\ logged' \subseteq Tasks
         /\ queue' = queue /\ pc' = pc
<1>1. p \in Pids /\ workers[p] \in Tasks
  BY DEF Zombies, Listed, TypeOK
<1>2. /\ workers' = [workers EXCEPT ![p] = NoTask]
      /\ child' = [child EXCEPT ![p] = "none"]
      /\ active_worker_count' = active_worker_count - 1
      /\ logged' = logged \union {workers[p]}
      /\ queue' = queue /\ pc' = pc
  BY DEF Collect, Refills
<1>3. Listed' = Listed \ {p}
  BY <1>1, <1>2 DEF Listed, TypeOK
<1>4. Children' = Children \ {p} /\ Zombies' = Zombies \ {p}
  BY <1>1, <1>2 DEF Children, Running, Zombies, TypeOK
<1> QED
  BY <1>1, <1>2, <1>3, <1>4, DeleteOne DEF TypeOK

\* The outcome of collecting p and starting the head of the queue as r.
Replaced(p, r) ==
    /\ Listed' = (Listed \ {p}) \union {r}
    /\ Children' = (Children \ {p}) \union {r}
    /\ Zombies' = Zombies \ {p}
    /\ Cardinality(Listed') = Cardinality(Listed)
    /\ active_worker_count' = active_worker_count
    /\ workers' \in [Pids -> Tasks \union {NoTask}]
    /\ child' \in [Pids -> {"none", "running", "done", "mute"}]
    /\ logged' \subseteq Tasks
    /\ workers' = [workers EXCEPT ![p] = NoTask, ![r] = Head(queue)]
    /\ queue' = Tail(queue) /\ queue' \in Seq(Tasks) /\ pc' = pc

\* A reported child that is replaced from the queue: the count stays.
LEMMA CollectReplaces ==
  ASSUME TypeOK, NEW p \in Zombies, NEW refill \in BOOLEAN, NEW STATE next,
         Collect(p, refill, next), p \in Listed, child[p] # "mute",
         refill /\ active_worker_count - 1 < WorkerLimit /\ queue # << >>
  PROVE  \E r \in FreePids \union {p} : Replaced(p, r)
<1>1. p \in Pids /\ workers[p] \in Tasks
  BY DEF Zombies, Listed, TypeOK
<1>2. PICK r \in FreePids \union {p} :
        /\ workers' = [workers EXCEPT ![p] = NoTask, ![r] = Head(queue)]
        /\ child' = [child EXCEPT ![p] = "none", ![r] = "running"]
        /\ queue' = Tail(queue)
        /\ active_worker_count' = active_worker_count
  BY DEF Collect, Refills
<1>3. logged' = logged \union {workers[p]} /\ pc' = pc
  BY DEF Collect
<1>4. Head(queue) \in Tasks /\ Tail(queue) \in Seq(Tasks)
  BY DEF TypeOK
<1>5. /\ r \in Pids
      /\ r = p \/ r \notin Listed
      /\ r = p \/ r \notin Children
  BY <1>1 DEF FreePids
<1>6. Listed' = (Listed \ {p}) \union {r}
  BY <1>1, <1>2, <1>4, <1>5, ConstantsAssumption DEF Listed, TypeOK
<1>7. Children' = (Children \ {p}) \union {r} /\ Zombies' = Zombies \ {p}
  BY <1>1, <1>2, <1>5 DEF Children, Running, Zombies, TypeOK
<1>8. Cardinality(Listed') = Cardinality(Listed)
  BY <1>5, <1>6, ReplaceOne
<1>9. /\ workers' \in [Pids -> Tasks \union {NoTask}]
      /\ child' \in [Pids -> {"none", "running", "done", "mute"}]
      /\ logged' \subseteq Tasks
  BY <1>1, <1>2, <1>3, <1>4, <1>5 DEF TypeOK
<1> QED
  BY <1>2, <1>3, <1>4, <1>6, <1>7, <1>8, <1>9 DEF Replaced

-----------------------------------------------------------------------------
\* The initial states.

LEMMA InitIInv == Init => IInv
<1> SUFFICES ASSUME Init PROVE IInv
  OBVIOUS
<1>1. PICK n \in 0..MaxBatch : todo \in Injection(1..n, Tasks)
  BY DEF Init
<1>2. todo \in Seq(Tasks)
  <2>1. n \in Nat /\ todo \in [1..n -> Tasks]
    BY <1>1, ConstantsAssumption DEF Injection
  <2> QED
    BY <2>1
<1>3. TypeOK
  <2>1. queue \in Seq(Tasks)
    BY DEF Init
  <2>2. workers \in [Pids -> Tasks \union {NoTask}]
    BY DEF Init
  <2>3. child \in [Pids -> {"none", "running", "done", "mute"}]
    BY DEF Init
  <2>4. fresh \subseteq Tasks /\ logged \subseteq Tasks
    BY DEF Init
  <2>5. /\ blocked \in BOOLEAN
        /\ check_children_flag \in BOOLEAN
        /\ shutdown_flag \in BOOLEAN
    BY DEF Init
  <2>6. pc = "config" /\ active_worker_count \in Nat
    BY DEF Init
  <2> QED
    BY <1>2, <2>1, <2>2, <2>3, <2>4, <2>5, <2>6 DEF TypeOK
<1>4. Listed = {} /\ Children = {} /\ Zombies = {}
  BY DEF Init, Listed, Children, Running, Zombies
<1>5. BooksTied /\ MainListed /\ CountBounded
  BY <1>4, FS_EmptySet DEF Init, BooksTied, MainListed, CountBounded
<1>6. AsleepWhere /\ WorkConserving /\ ZombieFlagged /\ NothingLeftToReap
  BY <1>4 DEF Init, AsleepWhere, WorkConserving, ZombieFlagged, NothingLeftToReap
<1> QED
  BY <1>3, <1>5, <1>6 DEF IInv

-----------------------------------------------------------------------------
\* Every step keeps the invariant, one lemma per group of actions.

LEMMA HandKeeps == IInv /\ Hand => IInv'
<1> SUFFICES ASSUME IInv, Hand PROVE IInv'
  OBVIOUS
<1> USE DEF IInv
<1>1. /\ pc \in {"config", "handle"} /\ ~blocked /\ todo # << >>
      /\ Head(todo) \in Tasks /\ Tail(todo) \in Seq(Tasks)
      /\ UNCHANGED <<pc, check_children_flag, shutdown_flag, fresh, logged>>
      /\ MainPhase /\ MainPhase' /\ ~Gone /\ ~Gone'
  BY DEF Hand, TypeOK, MainPhase, Gone
<1>2. CASE /\ active_worker_count < WorkerLimit
           /\ \E p \in FreePids : Begin(p, Head(todo))
           /\ todo' = Tail(todo)
           /\ UNCHANGED <<queue, blocked>>
  <2>1. PICK p \in FreePids : Begin(p, Head(todo))
    BY <1>2
  <2>2. /\ Listed' = Listed \union {p}
        /\ Children' = Children \union {p}
        /\ Zombies' = Zombies
        /\ Cardinality(Listed') = Cardinality(Listed) + 1
        /\ active_worker_count' = active_worker_count + 1
        /\ workers' \in [Pids -> Tasks \union {NoTask}]
        /\ child' \in [Pids -> {"none", "running", "done", "mute"}]
    BY <1>1, <2>1, BeginAdds
  <2>3. TypeOK'
    BY <1>1, <1>2, <2>2 DEF TypeOK
  <2>4. BooksTied' /\ MainListed' /\ CountBounded'
    BY <1>1, <1>2, <2>2, ConstantsAssumption
    DEF BooksTied, MainListed, CountBounded, TypeOK, MainPhase, Gone
  <2>5. AsleepWhere' /\ NothingLeftToReap'
    BY <1>1, <1>2 DEF AsleepWhere, NothingLeftToReap
  <2>6. WorkConserving' /\ ZombieFlagged'
    BY <1>1, <1>2, <2>2, ConstantsAssumption
    DEF WorkConserving, ZombieFlagged, TypeOK
  <2> QED
    BY <2>3, <2>4, <2>5, <2>6
<1>3. CASE /\ active_worker_count >= WorkerLimit
           /\ Len(queue) < QueueCapacity
           /\ queue' = Append(queue, Head(todo))
           /\ todo' = Tail(todo)
           /\ UNCHANGED <<workers, child, active_worker_count, blocked>>
  <2>1. TypeOK'
    BY <1>1, <1>3 DEF TypeOK
  <2>2. Listed' = Listed /\ Children' = Children /\ Zombies' = Zombies
    BY <1>3 DEF Listed, Children, Running, Zombies
  <2>3. BooksTied' /\ MainListed' /\ CountBounded'
    BY <1>1, <1>3, <2>2 DEF BooksTied, MainListed, CountBounded, MainPhase, Gone
  <2>4. AsleepWhere' /\ NothingLeftToReap' /\ WorkConserving' /\ ZombieFlagged'
    BY <1>1, <1>3, <2>2
    DEF AsleepWhere, NothingLeftToReap, WorkConserving, ZombieFlagged
  <2> QED
    BY <2>1, <2>3, <2>4
<1>4. CASE /\ active_worker_count >= WorkerLimit
           /\ Len(queue) >= QueueCapacity
           /\ blocked' = TRUE
           /\ UNCHANGED <<queue, workers, child, active_worker_count, todo>>
  <2>1. TypeOK'
    BY <1>1, <1>4 DEF TypeOK
  <2>2. Listed' = Listed /\ Children' = Children /\ Zombies' = Zombies
    BY <1>4 DEF Listed, Children, Running, Zombies
  <2>3. BooksTied' /\ MainListed' /\ CountBounded'
    BY <1>1, <1>4, <2>2 DEF BooksTied, MainListed, CountBounded, MainPhase, Gone
  <2>4. AsleepWhere' /\ NothingLeftToReap' /\ WorkConserving' /\ ZombieFlagged'
    BY <1>1, <1>4, <2>2
    DEF AsleepWhere, NothingLeftToReap, WorkConserving, ZombieFlagged
  <2> QED
    BY <2>1, <2>3, <2>4
<1>5. TypeOK
  BY DEF IInv
<1> QED
  BY <1>2, <1>3, <1>4, <1>5, RoomOrLimit DEF Hand

\* The steps that touch neither the list, the children nor the queue.
LEMMA QuietKeeps ==
  IInv /\ (\/ HandDone \/ Sleep \/ Check \/ IgnoreChildren \/ ShutdownCommand
           \/ \E ts \in Batches : Input(ts)) => IInv'
<1> SUFFICES ASSUME IInv,
                    \/ HandDone \/ Sleep \/ Check \/ IgnoreChildren \/ ShutdownCommand
                    \/ \E ts \in Batches : Input(ts)
             PROVE  IInv'
  OBVIOUS
<1> USE DEF IInv
<1>1. /\ UNCHANGED <<queue, workers, active_worker_count, child, logged>>
      /\ UNCHANGED check_children_flag
  BY DEF HandDone, Sleep, Check, IgnoreChildren, ShutdownCommand, Input
<1>2. Listed' = Listed /\ Children' = Children /\ Zombies' = Zombies
  BY <1>1 DEF Listed, Children, Running, Zombies
<1>3. /\ MainPhase /\ ~Gone /\ ~Gone'
      /\ pc' \in {"select", "handle", "check", "reap", "shutdown", "wait"}
  BY DEF HandDone, Sleep, Check, IgnoreChildren, ShutdownCommand, Input,
         LoopHead, MainPhase, Gone
<1>4. todo' \in Seq(Tasks) /\ fresh' \subseteq Tasks
  <2>1. CASE UNCHANGED <<todo, fresh>>
    BY <2>1 DEF TypeOK
  <2>2. CASE \E ts \in Batches : Input(ts)
    <3>1. PICK ts \in Batches : Input(ts)
      BY <2>2
    <3>2. PICK n \in 0..MaxBatch : ts \in Injection(1..n, fresh)
      BY DEF Batches
    <3>3. n \in Nat /\ ts \in [1..n -> Tasks]
      BY <3>2, ConstantsAssumption DEF Injection, TypeOK
    <3>4. ts \in Seq(Tasks)
      BY <3>3
    <3> QED
      BY <3>1, <3>4 DEF Input, TypeOK
  <2> QED
    BY <2>1, <2>2 DEF HandDone, Sleep, Check, IgnoreChildren, ShutdownCommand
<1>5. /\ blocked' \in BOOLEAN /\ shutdown_flag' \in BOOLEAN
      /\ check_children_flag' \in BOOLEAN
  <2>1. CASE UNCHANGED blocked /\ UNCHANGED shutdown_flag
    BY <1>1, <2>1 DEF TypeOK
  <2>2. CASE Sleep
    BY <1>1, <2>2 DEF Sleep, TypeOK
  <2>3. CASE ShutdownCommand
    BY <1>1, <2>3 DEF ShutdownCommand, TypeOK
  <2>4. CASE \E ts \in Batches : Input(ts)
    BY <1>1, <2>4 DEF Input, TypeOK
  <2> QED
    BY <2>1, <2>2, <2>3, <2>4 DEF HandDone, Check, IgnoreChildren
<1>6. TypeOK'
  BY <1>1, <1>3, <1>4, <1>5 DEF TypeOK
<1>7. BooksTied' /\ MainListed' /\ CountBounded'
  BY <1>1, <1>2, <1>3 DEF BooksTied, MainListed, CountBounded, Gone
<1>8. WorkConserving' /\ ZombieFlagged' /\ NothingLeftToReap'
  BY <1>1, <1>2, <1>3 DEF WorkConserving, ZombieFlagged, NothingLeftToReap, MainPhase
<1>9. AsleepWhere'
  BY DEF AsleepWhere, HandDone, Sleep, Check, IgnoreChildren, ShutdownCommand, Input
<1> QED
  BY <1>6, <1>7, <1>8, <1>9

\* One round of a waiting loop, in any of the three places that have one.
LEMMA CollectKeeps ==
  ASSUME IInv, NEW p \in Zombies, NEW refill \in BOOLEAN, NEW STATE next,
         Collect(p, refill, next),
         UNCHANGED <<blocked, todo, check_children_flag, shutdown_flag, fresh>>,
         pc \in {"reap", "wait", "drain"},
         pc = "reap" => refill /\ next \in {"select", "shutdown"},
         pc # "reap" => next = pc
  PROVE  IInv'
<1> USE DEF IInv
<1>1. ~Gone /\ p \in Listed /\ p \in Children
  BY DEF Gone, BooksTied, Children
<1>2. CASE child[p] = "mute"
  <2>1. /\ Children' = Children \ {p} /\ Zombies' = Zombies \ {p}
        /\ child' \in [Pids -> {"none", "running", "done", "mute"}]
        /\ UNCHANGED <<workers, active_worker_count, queue, logged>>
        /\ pc' = "crashed"
    BY <1>1, <1>2, CollectNothing
  <2>2. TypeOK'
    BY <2>1 DEF TypeOK
  <2>3. AsleepWhere'
    BY <2>1 DEF AsleepWhere
  <2> QED
    BY <2>1, <2>2, <2>3 DEF BooksTied, MainListed, CountBounded, WorkConserving,
         ZombieFlagged, NothingLeftToReap, MainPhase, Gone
<1>3. CASE /\ child[p] # "mute"
           /\ ~(refill /\ active_worker_count - 1 < WorkerLimit /\ queue # << >>)
  <2>1. /\ Listed' = Listed \ {p}
        /\ Children' = Children \ {p} /\ Zombies' = Zombies \ {p}
        /\ Cardinality(Listed') = Cardinality(Listed) - 1
        /\ active_worker_count' = active_worker_count - 1
        /\ workers' \in [Pids -> Tasks \union {NoTask}]
        /\ child' \in [Pids -> {"none", "running", "done", "mute"}]
        /\ logged' \subseteq Tasks
        /\ queue' = queue /\ pc' = pc
    BY <1>1, <1>3, CollectDrops
  <2>2. TypeOK'
    <3>1. active_worker_count - 1 \in Nat
      <4>1. active_worker_count = Cardinality(Listed) /\ Cardinality(Listed) > 0
        BY <1>1, DeleteOne DEF BooksTied
      <4> QED
        BY <4>1 DEF TypeOK
    <3> QED
      BY <2>1, <3>1 DEF TypeOK
  <2>3. BooksTied' /\ MainListed'
    BY <1>1, <2>1 DEF BooksTied, MainListed, MainPhase, Gone
  <2>4. CountBounded'
    BY <1>1, <2>1, DeleteOne, ConstantsAssumption DEF CountBounded, BooksTied, TypeOK
  <2>5. WorkConserving'
    <3> SUFFICES ASSUME MainPhase', queue # << >>
                 PROVE  active_worker_count - 1 >= WorkerLimit
      BY <2>1 DEF WorkConserving
    <3>1. refill
      BY <2>1 DEF MainPhase
    <3>2. ~(active_worker_count - 1 < WorkerLimit)
      BY <1>3, <3>1
    <3> QED
      BY <3>2, ConstantsAssumption DEF TypeOK
  <2>6. ZombieFlagged' /\ NothingLeftToReap' /\ AsleepWhere'
    BY <2>1 DEF ZombieFlagged, NothingLeftToReap, AsleepWhere, MainPhase
  <2> QED
    BY <2>2, <2>3, <2>4, <2>5, <2>6
<1>4. CASE /\ child[p] # "mute"
           /\ refill /\ active_worker_count - 1 < WorkerLimit /\ queue # << >>
  <2>1. PICK r \in FreePids \union {p} : Replaced(p, r)
    BY <1>1, <1>4, CollectReplaces
  <2> USE DEF Replaced
  <2>2. TypeOK'
    BY <2>1 DEF TypeOK
  <2>3. BooksTied' /\ MainListed' /\ CountBounded'
    BY <1>1, <2>1 DEF BooksTied, MainListed, CountBounded, MainPhase, Gone
  <2>4. WorkConserving'
    BY <1>4, <2>1 DEF WorkConserving, MainPhase
  <2>5. ZombieFlagged' /\ NothingLeftToReap' /\ AsleepWhere'
    BY <2>1 DEF ZombieFlagged, NothingLeftToReap, AsleepWhere, MainPhase
  <2> QED
    BY <2>2, <2>3, <2>4, <2>5
<1> QED
  BY <1>2, <1>3, <1>4

\* The loop of check_children_and_make_report.
LEMMA ReapKeeps == IInv /\ Reap => IInv'
<1> SUFFICES ASSUME IInv, Reap PROVE IInv'
  OBVIOUS
<1>1. CASE Zombies # {}
  <2>1. PICK p \in Zombies : Collect(p, TRUE, LoopHead)
    BY <1>1 DEF Reap
  <2>2. /\ UNCHANGED <<blocked, todo, check_children_flag, shutdown_flag, fresh>>
        /\ pc = "reap" /\ LoopHead \in {"select", "shutdown"}
    BY <1>1 DEF Reap, LoopHead
  <2> QED
    BY <2>1, <2>2, CollectKeeps
<1>2. CASE Zombies = {}
  <2> USE DEF IInv
  <2>1. /\ pc = "reap" /\ pc' \in {"select", "shutdown"}
        /\ UNCHANGED <<blocked, todo, shutdown_flag, fresh>>
        /\ UNCHANGED <<queue, workers, active_worker_count, child, logged>>
        /\ check_children_flag' = (Children # {} /\ check_children_flag)
    BY <1>2 DEF Reap, LoopHead
  <2>2. Listed' = Listed /\ Children' = Children /\ Zombies' = Zombies
    BY <2>1 DEF Listed, Children, Running, Zombies
  <2>3. check_children_flag' \in BOOLEAN
    BY <2>1
  <2>4. TypeOK'
    BY <2>1, <2>3 DEF TypeOK
  <2>5. BooksTied' /\ MainListed' /\ CountBounded'
    BY <2>1, <2>2 DEF BooksTied, MainListed, CountBounded, MainPhase, Gone
  <2>6. WorkConserving' /\ ZombieFlagged' /\ NothingLeftToReap' /\ AsleepWhere'
    BY <1>2, <2>1, <2>2
    DEF WorkConserving, ZombieFlagged, NothingLeftToReap, AsleepWhere, MainPhase
  <2> QED
    BY <2>4, <2>5, <2>6
<1> QED
  BY <1>1, <1>2

\* The end of the manager, orderly or not, keeps what is claimed of it.
LEMMA CleanupKeeps ==
  ASSUME IInv, NEW end \in {"exited", "killed"}, Cleanup(end), UNCHANGED child
  PROVE  IInv'
<1> USE DEF IInv
<1>1. /\ pc' = end /\ blocked' = FALSE /\ queue' = << >>
      /\ workers' = [p \in Pids |-> NoTask]
      /\ UNCHANGED <<todo, active_worker_count, check_children_flag,
                     shutdown_flag, fresh, logged, child>>
  BY DEF Cleanup
<1>2. queue' \in Seq(Tasks) /\ workers' \in [Pids -> Tasks \union {NoTask}]
  BY <1>1
<1>3. blocked' \in BOOLEAN
  BY <1>1
<1>4. TypeOK'
  BY <1>1, <1>2, <1>3 DEF TypeOK
<1>5. Gone' /\ ~MainPhase' /\ pc' \notin {"fill", "drain"} /\ ~blocked'
  BY <1>1 DEF Gone, MainPhase
<1> QED
  BY <1>4, <1>5 DEF BooksTied, MainListed, CountBounded, AsleepWhere,
       WorkConserving, ZombieFlagged, NothingLeftToReap

\* wait_for_running_workers and complete_enqueued_workers.
LEMMA ShutdownKeeps == IInv /\ (WaitRunning \/ Fill \/ Drain) => IInv'
<1> SUFFICES ASSUME IInv, WaitRunning \/ Fill \/ Drain PROVE IInv'
  OBVIOUS
<1> USE DEF IInv
<1>1. CASE /\ WaitRunning
           /\ \E p \in Zombies : Collect(p, FALSE, pc)
  <2>1. PICK p \in Zombies : Collect(p, FALSE, pc)
    BY <1>1
  <2>2. /\ UNCHANGED <<blocked, todo, check_children_flag, shutdown_flag, fresh>>
        /\ pc = "wait"
    BY <1>1 DEF WaitRunning
  <2> QED
    BY <2>1, <2>2, CollectKeeps
<1>2. CASE /\ WaitRunning
           /\ active_worker_count <= 0 \/ Children = {}
           /\ pc' = "fill"
           /\ UNCHANGED <<queue, workers, active_worker_count, child, logged>>
  <2>1. /\ pc = "wait"
        /\ UNCHANGED <<blocked, todo, check_children_flag, shutdown_flag, fresh>>
    BY <1>2 DEF WaitRunning
  <2>2. TypeOK'
    BY <1>2, <2>1 DEF TypeOK
  <2>3. Listed' = Listed /\ Children' = Children /\ Zombies' = Zombies
    BY <1>2 DEF Listed, Children, Running, Zombies
  <2>4. Children = {}
    <3>1. active_worker_count = Cardinality(Listed) /\ Children \subseteq Listed
      BY <2>1 DEF BooksTied, Gone
    <3>2. CASE active_worker_count <= 0
      <4>1. Cardinality(Listed) = 0
        BY <3>1, <3>2, ListedFinite
      <4> QED
        BY <3>1, <4>1, ListedFinite, FS_EmptySet
    <3> QED
      BY <1>2, <3>2
  <2>5. BooksTied' /\ CountBounded' /\ NothingLeftToReap'
    BY <1>2, <2>1, <2>3, <2>4
    DEF BooksTied, CountBounded, NothingLeftToReap, Gone, Children
  <2>6. MainListed' /\ WorkConserving' /\ ZombieFlagged' /\ AsleepWhere'
    BY <1>2, <2>1 DEF MainListed, WorkConserving, ZombieFlagged, AsleepWhere, MainPhase
  <2> QED
    BY <2>2, <2>5, <2>6
<1>3. CASE Fill /\ active_worker_count < WorkerLimit /\ queue # << >>
  <2>1. /\ pc = "fill" /\ pc' = "fill" /\ queue' = Tail(queue)
        /\ UNCHANGED <<blocked, todo, check_children_flag, shutdown_flag, fresh, logged>>
        /\ Head(queue) \in Tasks /\ Tail(queue) \in Seq(Tasks)
    BY <1>3 DEF Fill, HasRoom, TypeOK
  <2>2. PICK p \in FreePids : Begin(p, Head(queue))
    BY <1>3 DEF Fill, HasRoom
  <2>3. /\ Listed' = Listed \union {p}
        /\ Children' = Children \union {p}
        /\ Zombies' = Zombies
        /\ Cardinality(Listed') = Cardinality(Listed) + 1
        /\ active_worker_count' = active_worker_count + 1
        /\ workers' \in [Pids -> Tasks \union {NoTask}]
        /\ child' \in [Pids -> {"none", "running", "done", "mute"}]
    BY <2>1, <2>2, BeginAdds
  <2>4. TypeOK'
    BY <2>1, <2>3 DEF TypeOK
  <2>5. BooksTied' /\ CountBounded'
    BY <1>3, <2>1, <2>3, ConstantsAssumption DEF BooksTied, CountBounded, TypeOK, Gone
  <2>6. /\ MainListed' /\ WorkConserving' /\ ZombieFlagged' /\ AsleepWhere'
        /\ NothingLeftToReap'
    BY <2>1, <2>3 DEF MainListed, WorkConserving, ZombieFlagged, AsleepWhere,
       NothingLeftToReap, MainPhase
  <2> QED
    BY <2>4, <2>5, <2>6
<1>4. CASE Fill /\ ~(active_worker_count < WorkerLimit /\ queue # << >>)
  <2>1. /\ pc = "fill" /\ pc' = "drain"
        /\ UNCHANGED <<queue, workers, active_worker_count, child>>
        /\ UNCHANGED <<blocked, todo, check_children_flag, shutdown_flag, fresh, logged>>
    BY <1>4 DEF Fill, HasRoom
  <2>2. TypeOK'
    BY <2>1 DEF TypeOK
  <2>3. Listed' = Listed /\ Children' = Children /\ Zombies' = Zombies
    BY <2>1 DEF Listed, Children, Running, Zombies
  <2> QED
    BY <2>1, <2>2, <2>3 DEF BooksTied, MainListed, CountBounded, WorkConserving,
       ZombieFlagged, AsleepWhere, NothingLeftToReap, MainPhase, Gone
<1>5. CASE Drain
  <2>1. Zombies = {}
    BY <1>5 DEF Drain, NothingLeftToReap
  <2> QED
    BY <1>5, <2>1, CleanupKeeps DEF Drain
<1> QED
  BY <1>1, <1>2, <1>3, <1>4, <1>5 DEF WaitRunning

\* A worker's end, whatever it interrupts.
LEMMA ChildExitKeeps ==
  ASSUME IInv, NEW p \in Pids, NEW how \in {"done", "mute"}, ChildExit(p, how)
  PROVE  IInv'
<1> USE DEF IInv
<1>1. /\ UNCHANGED <<queue, workers, active_worker_count, shutdown_flag, fresh, logged>>
      /\ child[p] = "running"
  BY DEF ChildExit
<1>2. Listed' = Listed
  BY <1>1 DEF Listed
<1>3. CASE DrainPhase \/ Gone
  <2>1. /\ child' = [child EXCEPT ![p] = "none"]
        /\ UNCHANGED <<pc, blocked, todo, check_children_flag>>
    BY <1>3 DEF ChildExit
  <2>2. Children' \subseteq Children /\ Zombies' = Zombies
    BY <1>1, <2>1 DEF Children, Running, Zombies, TypeOK
  <2>3. TypeOK'
    BY <1>1, <2>1 DEF TypeOK
  <2> QED
    BY <1>1, <1>2, <1>3, <2>1, <2>2, <2>3
    DEF BooksTied, MainListed, CountBounded, AsleepWhere, WorkConserving,
        ZombieFlagged, NothingLeftToReap, MainPhase, DrainPhase, Gone
<1>4. CASE ~(DrainPhase \/ Gone)
  <2>1. /\ child' = [child EXCEPT ![p] = how]
        /\ check_children_flag' = TRUE
        /\ blocked' = FALSE
        /\ pc' = IF blocked /\ pc = "select" THEN "check" ELSE pc
        /\ todo' = IF blocked /\ pc # "select" THEN Tail(todo) ELSE todo
    BY <1>4 DEF ChildExit
  <2>2. Children' = Children
    BY <1>1, <2>1 DEF Children, Running, Zombies, TypeOK
  <2>3. MainPhase /\ MainPhase' /\ ~Gone /\ ~Gone' /\ pc' \notin {"fill", "drain"}
    BY <1>4, <2>1 DEF MainPhase, DrainPhase, Gone, TypeOK
  <2>4. todo' \in Seq(Tasks)
    <3>1. CASE blocked /\ pc # "select"
      <4>1. todo # << >>
        BY <3>1 DEF AsleepWhere
      <4> QED
        BY <2>1, <3>1, <4>1 DEF TypeOK
    <3>2. CASE ~(blocked /\ pc # "select")
      BY <2>1, <3>2 DEF TypeOK
    <3> QED
      BY <3>1, <3>2
  <2>5. blocked' \in BOOLEAN /\ check_children_flag' \in BOOLEAN
    BY <2>1
  <2>6. /\ child' \in [Pids -> {"none", "running", "done", "mute"}]
        /\ pc' \in {"config", "select", "handle", "check", "reap", "shutdown"}
    BY <2>1, <2>3 DEF TypeOK, MainPhase
  <2>7. TypeOK'
    BY <1>1, <2>4, <2>5, <2>6 DEF TypeOK
  <2> QED
    BY <1>1, <1>2, <2>1, <2>2, <2>3, <2>7
    DEF BooksTied, MainListed, CountBounded, AsleepWhere, WorkConserving,
        ZombieFlagged, NothingLeftToReap
<1> QED
  BY <1>3, <1>4

\* A stuttering step keeps the invariant.
LEMMA StutterKeeps == IInv /\ UNCHANGED vars => IInv'
  BY DEF vars, IInv, TypeOK, BooksTied, MainListed, CountBounded, AsleepWhere,
     WorkConserving, ZombieFlagged, NothingLeftToReap, MainPhase, Gone, Listed,
     Children, Running, Zombies

\* Every step of the specification keeps the invariant.
LEMMA NextKeeps == IInv /\ [Next]_vars => IInv'
<1> SUFFICES ASSUME IInv, [Next]_vars PROVE IInv'
  OBVIOUS
<1>1. CASE Hand
  BY <1>1, HandKeeps
<1>2. CASE \/ HandDone \/ Sleep \/ Check \/ IgnoreChildren \/ ShutdownCommand
           \/ \E ts \in Batches : Input(ts)
  BY <1>2, QuietKeeps
<1>3. CASE Reap
  BY <1>3, ReapKeeps
<1>4. CASE WaitRunning \/ Fill \/ Drain
  BY <1>4, ShutdownKeeps
<1>5. CASE Terminate
  BY <1>5, CleanupKeeps DEF Terminate
<1>6. CASE \E p \in Pids : Worker(p)
  BY <1>6, ChildExitKeeps DEF Worker
<1>7. CASE UNCHANGED vars
  BY <1>7, StutterKeeps
<1> QED
  BY <1>1, <1>2, <1>3, <1>4, <1>5, <1>6, <1>7 DEF Next, Manager, Environment

(***************************************************************************)
(* The inductive invariant holds in every reachable state.                 *)
(***************************************************************************)
THEOREM Inductive == Spec => []IInv
<1> QED
  BY InitIInv, NextKeeps, PTL DEF Spec

-----------------------------------------------------------------------------
(***************************************************************************)
(* The variables keep their types; in particular a task taken from the     *)
(* queue or interrupted in msgsnd was there to be taken.                   *)
(***************************************************************************)
THEOREM TypeCorrect == Spec => []TypeOK
<1>1. IInv => TypeOK
  BY DEF IInv
<1> QED
  BY <1>1, Inductive, PTL

(***************************************************************************)
(* The worker list, the count and the kernel's children agree throughout   *)
(* the main loop, for every limit and any number of processes.             *)
(***************************************************************************)
THEOREM Bookkeeping == Spec => []BookkeepingExact
<1>1. IInv => BookkeepingExact
  BY DEF IInv, BookkeepingExact, MainListed, BooksTied, MainPhase, Gone
<1> QED
  BY <1>1, Inductive, PTL

(***************************************************************************)
(* No command waits in the queue while a worker slot is free.              *)
(***************************************************************************)
THEOREM NoIdleSlot == Spec => []WorkConserving
<1>1. IInv => WorkConserving
  BY DEF IInv
<1> QED
  BY <1>1, Inductive, PTL

(***************************************************************************)
(* The flag is set whenever a finished child waits to be reaped.           *)
(***************************************************************************)
THEOREM FlagKept == Spec => []ZombieFlagged
<1>1. IInv => ZombieFlagged
  BY DEF IInv
<1> QED
  BY <1>1, Inductive, PTL

(***************************************************************************)
(* The body of the shutdown's second loop is never reached.                *)
(***************************************************************************)
THEOREM SecondLoopIdle == Spec => []NothingLeftToReap
<1>1. IInv => NothingLeftToReap
  BY DEF IInv
<1> QED
  BY <1>1, Inductive, PTL

(***************************************************************************)
(* There are never more worker processes than the limit allows.            *)
(***************************************************************************)
THEOREM Limit == Spec => []LimitRespected
<1>1. IInv => LimitRespected
  <2> SUFFICES ASSUME IInv, ~Gone, Children # {}
               PROVE  Cardinality(Children) <= WorkerLimit
    BY DEF LimitRespected
  <2>1. /\ Children \subseteq Listed /\ active_worker_count = Cardinality(Listed)
        /\ active_worker_count <= WorkerLimit \/ active_worker_count = 0
    BY DEF IInv, BooksTied, CountBounded
  <2>2. /\ Cardinality(Children) <= Cardinality(Listed)
        /\ Cardinality(Children) \in Nat
    BY <2>1, ListedFinite, FS_Subset, FS_CardinalityType
  <2>3. Cardinality(Listed) # 0
    BY <2>1, ListedFinite, FS_EmptySet
  <2> QED
    BY <2>1, <2>2, <2>3, ListedFinite, ConstantsAssumption
<1> QED
  BY <1>1, Inductive, PTL

-----------------------------------------------------------------------------
(***************************************************************************)
(* Refinement.  Every step of the manager, of a worker or of the           *)
(* environment is a step of the pool or leaves the pool alone.             *)
(***************************************************************************)

\* The pool's view of a state.
LEMMA PoolView == Pool!Busy = Listed /\ Pool!Cardinality(Listed) = Cardinality(Listed)
<1>1. Pool!Busy = Listed
  BY DEF Pool!Busy, Listed
<1>2. Pool!Cardinality(Listed) = Cardinality(Listed)
  BY DEF Pool!Cardinality, Cardinality, Pool!IsFiniteSet, IsFiniteSet
<1> QED
  BY <1>1, <1>2

\* enqueue_worker starts a task only when none waits.
LEMMA HandIsSubmit == IInv /\ Hand => [Pool!Next]_(Pool!poolVars)
<1> SUFFICES ASSUME IInv, Hand PROVE [Pool!Next]_(Pool!poolVars)
  OBVIOUS
<1>1. /\ TypeOK /\ WorkConserving /\ ~Gone /\ MainPhase
      /\ phase = "open" /\ phase' = "open"
      /\ todo # << >> /\ Head(todo) \in Tasks
      /\ active_worker_count = Cardinality(Listed)
  BY DEF IInv, Hand, TypeOK, MainPhase, Gone, phase, BooksTied
<1>2. CASE /\ active_worker_count < WorkerLimit
           /\ \E p \in FreePids : Begin(p, Head(todo))
           /\ todo' = Tail(todo)
           /\ UNCHANGED <<queue, blocked>>
  <2>1. PICK p \in FreePids : Begin(p, Head(todo))
    BY <1>2
  <2>2. p \in Pids /\ workers[p] = NoTask /\ queue = << >>
    BY <1>1, <1>2, ConstantsAssumption DEF FreePids, Listed, WorkConserving, TypeOK
  <2>3. Pool!SubmitStart(Head(todo), p)
    BY <1>1, <1>2, <2>1, <2>2, PoolView DEF Pool!SubmitStart, Begin
  <2> QED
    BY <1>1, <2>2, <2>3 DEF Pool!Next
<1>3. CASE /\ active_worker_count >= WorkerLimit
           /\ Len(queue) < QueueCapacity
           /\ queue' = Append(queue, Head(todo))
           /\ UNCHANGED <<workers, child, active_worker_count, blocked>>
  <2>1. Pool!SubmitWait(Head(todo))
    BY <1>1, <1>3, PoolView DEF Pool!SubmitWait
  <2> QED
    BY <1>1, <2>1 DEF Pool!Next
<1>4. CASE UNCHANGED <<queue, workers>>
  BY <1>1, <1>4 DEF Pool!poolVars
<1>5. TypeOK
  BY DEF IInv
<1> QED
  BY <1>2, <1>3, <1>4, <1>5, RoomOrLimit DEF Hand

\* Reaping hands the slot to the oldest waiting task, or frees it when none
\* waits; the shutdown's waiting only frees it.
LEMMA CollectIsFinish ==
  ASSUME IInv, NEW p \in Zombies, NEW refill \in BOOLEAN, NEW STATE next,
         Collect(p, refill, next),
         \/ pc = "reap" /\ refill
         \/ pc = "wait" /\ ~refill
  PROVE  [Pool!Next]_(Pool!poolVars)
<1>1. /\ TypeOK /\ ~Gone /\ p \in Listed /\ p \in Pids
      /\ active_worker_count = Cardinality(Listed)
  BY DEF IInv, BooksTied, Children, Gone, Zombies
<1>2. workers[p] # NoTask
  BY <1>1 DEF Listed
<1>3. active_worker_count - 1 < WorkerLimit
  <2>1. active_worker_count <= WorkerLimit \/ active_worker_count = 0
    BY <1>1 DEF IInv, CountBounded
  <2>2. active_worker_count \in Nat
    BY <1>1 DEF TypeOK
  <2>3. active_worker_count > 0
    BY <1>1, DeleteOne
  <2> QED
    BY <2>1, <2>2, <2>3, ConstantsAssumption
<1>4. CASE child[p] = "mute"
  <2>1. UNCHANGED <<workers, queue>> /\ pc' = "crashed"
    BY <1>1, <1>4, CollectNothing
  <2>2. phase # "stopped" /\ phase' = "stopped"
    BY <2>1 DEF phase, MainPhase, DrainPhase
  <2>3. Pool!Stop
    BY <2>1, <2>2 DEF Pool!Stop
  <2> QED
    BY <2>3 DEF Pool!Next
<1>5. CASE child[p] # "mute" /\ ~(refill /\ queue # << >>)
  <2>1. /\ workers' = [workers EXCEPT ![p] = NoTask]
        /\ queue' = queue /\ pc' = pc
    BY <1>1, <1>5 DEF Collect, Refills
  <2>2. CASE pc = "reap" /\ refill
    <3>1. phase = "open" /\ phase' = "open" /\ queue = << >>
      BY <1>5, <2>1, <2>2 DEF phase, MainPhase
    <3>2. Pool!Finish(p)
      BY <1>2, <2>1, <3>1 DEF Pool!Finish
    <3> QED
      BY <1>1, <3>2 DEF Pool!Next
  <2>3. CASE pc = "wait"
    <3>1. phase = "closing" /\ phase' = "closing"
      BY <2>1, <2>3 DEF phase, MainPhase, DrainPhase
    <3>2. Pool!Release(p)
      BY <1>2, <2>1, <3>1 DEF Pool!Release
    <3> QED
      BY <1>1, <3>2 DEF Pool!Next
  <2> QED
    BY <2>2, <2>3
<1>6. CASE child[p] # "mute" /\ refill /\ queue # << >>
  <2>1. PICK r \in FreePids \union {p} : Replaced(p, r)
    BY <1>1, <1>3, <1>6, CollectReplaces
  <2>2. /\ workers' = [workers EXCEPT ![p] = NoTask, ![r] = Head(queue)]
        /\ queue' = Tail(queue) /\ pc' = pc
    BY <2>1 DEF Replaced
  <2>3. phase = "open" /\ phase' = "open"
    BY <1>6, <2>2 DEF phase, MainPhase
  <2>4. r \in Pids /\ (r = p \/ workers[r] = NoTask)
    BY <1>1 DEF FreePids, Listed
  <2>5. Pool!FinishAndStart(p, r)
    BY <1>2, <1>6, <2>2, <2>3, <2>4 DEF Pool!FinishAndStart
  <2> QED
    BY <1>1, <2>4, <2>5 DEF Pool!Next
<1> QED
  BY <1>4, <1>5, <1>6

\* The shutdown's first loop resumes the oldest waiting task.
LEMMA FillIsResume == IInv /\ Fill => [Pool!Next]_(Pool!poolVars)
<1> SUFFICES ASSUME IInv, Fill PROVE [Pool!Next]_(Pool!poolVars)
  OBVIOUS
<1>1. CASE active_worker_count < WorkerLimit /\ queue # << >>
  <2>1. /\ pc = "fill" /\ UNCHANGED pc /\ queue' = Tail(queue)
        /\ phase = "closing" /\ phase' = "closing"
    BY <1>1 DEF Fill, HasRoom, phase, MainPhase, DrainPhase
  <2>2. PICK p \in FreePids : Begin(p, Head(queue))
    BY <1>1 DEF Fill, HasRoom
  <2>3. p \in Pids /\ workers[p] = NoTask
    BY DEF FreePids, Listed
  <2>4. active_worker_count = Cardinality(Listed)
    BY <2>1 DEF IInv, BooksTied, Gone
  <2>5. Pool!Resume(p)
    BY <1>1, <2>1, <2>2, <2>3, <2>4, PoolView DEF Pool!Resume, Begin
  <2> QED
    BY <2>3, <2>5 DEF Pool!Next
<1>2. CASE ~(active_worker_count < WorkerLimit /\ queue # << >>)
  <2>1. UNCHANGED <<queue, workers>> /\ phase' = phase
    BY <1>2 DEF Fill, HasRoom, phase, MainPhase, DrainPhase
  <2> QED
    BY <2>1 DEF Pool!poolVars
<1> QED
  BY <1>1, <1>2

\* The end of the manager stops the pool.
LEMMA CleanupIsStop ==
  ASSUME ~Gone, TypeOK, NEW end \in {"exited", "killed"}, Cleanup(end)
  PROVE  [Pool!Next]_(Pool!poolVars)
<1>1. phase # "stopped" /\ phase' = "stopped"
  BY DEF phase, MainPhase, DrainPhase, Gone, Cleanup, TypeOK
<1>2. queue' = << >> /\ workers' = [p \in Pids |-> NoTask]
  BY DEF Cleanup
<1>3. Pool!Stop
  BY <1>1, <1>2 DEF Pool!Stop
<1> QED
  BY <1>3 DEF Pool!Next

\* Every step maps to a step of the pool or to a stutter.
LEMMA StepRefines == IInv /\ [Next]_vars => [Pool!Next]_(Pool!poolVars)
<1> SUFFICES ASSUME IInv, [Next]_vars PROVE [Pool!Next]_(Pool!poolVars)
  OBVIOUS
<1>1. CASE Hand
  BY <1>1, HandIsSubmit
<1>2. CASE HandDone \/ Sleep \/ Check \/ ShutdownCommand \/ \E ts \in Batches : Input(ts)
  <2>1. UNCHANGED <<queue, workers>>
    BY <1>2 DEF HandDone, Sleep, Check, ShutdownCommand, Input
  <2>2. phase = "open" /\ phase' = "open"
    BY <1>2 DEF HandDone, Sleep, Check, ShutdownCommand, Input, LoopHead, phase, MainPhase
  <2> QED
    BY <2>1, <2>2 DEF Pool!poolVars
<1>3. CASE IgnoreChildren
  <2>1. UNCHANGED <<queue, workers>> /\ phase = "open" /\ phase' = "closing"
    BY <1>3 DEF IgnoreChildren, phase, MainPhase, DrainPhase
  <2>2. Pool!Close
    BY <2>1 DEF Pool!Close
  <2> QED
    BY <2>2 DEF Pool!Next
<1>4. CASE Reap
  <2>1. CASE Zombies # {}
    <3>1. PICK p \in Zombies : Collect(p, TRUE, LoopHead)
      BY <1>4, <2>1 DEF Reap
    <3> QED
      BY <1>4, <3>1, CollectIsFinish DEF Reap
  <2>2. CASE Zombies = {}
    <3>1. UNCHANGED <<queue, workers>> /\ phase = "open" /\ phase' = "open"
      BY <1>4, <2>2 DEF Reap, LoopHead, phase, MainPhase
    <3> QED
      BY <3>1 DEF Pool!poolVars
  <2> QED
    BY <2>1, <2>2
<1>5. CASE WaitRunning
  <2>1. CASE \E p \in Zombies : Collect(p, FALSE, pc)
    <3>1. PICK p \in Zombies : Collect(p, FALSE, pc)
      BY <2>1
    <3> QED
      BY <1>5, <3>1, CollectIsFinish DEF WaitRunning
  <2>2. CASE pc' = "fill" /\ UNCHANGED <<queue, workers>>
    <3>1. phase = "closing" /\ phase' = "closing"
      BY <1>5, <2>2 DEF WaitRunning, phase, MainPhase, DrainPhase
    <3> QED
      BY <2>2, <3>1 DEF Pool!poolVars
  <2> QED
    BY <1>5, <2>1, <2>2 DEF WaitRunning
<1>6. CASE Fill
  BY <1>6, FillIsResume
<1>7. CASE Drain
  <2>1. Zombies = {} /\ ~Gone /\ TypeOK
    BY <1>7 DEF Drain, IInv, NothingLeftToReap, Gone
  <2> QED
    BY <1>7, <2>1, CleanupIsStop DEF Drain
<1>8. CASE Terminate
  BY <1>8, CleanupIsStop DEF Terminate, IInv
<1>9. CASE \E p \in Pids : Worker(p)
  <2>1. UNCHANGED <<queue, workers>>
    BY <1>9 DEF Worker, ChildExit
  <2>2. phase' = phase
    BY <1>9 DEF Worker, ChildExit, phase, MainPhase, DrainPhase
  <2> QED
    BY <2>1, <2>2 DEF Pool!poolVars
<1>10. CASE UNCHANGED vars
  BY <1>10 DEF vars, Pool!poolVars, phase, MainPhase, DrainPhase
<1> QED
  BY <1>1, <1>2, <1>3, <1>4, <1>5, <1>6, <1>7, <1>8, <1>9, <1>10
  DEF Next, Manager, Environment

(***************************************************************************)
(* The manager's scheduling implements the pool: first come first served,  *)
(* no slot idle while a task waits, nothing accepted is dropped before the *)
(* shutdown.                                                               *)
(***************************************************************************)
THEOREM Refinement == Spec => PoolSpec
<1>1. Init => Pool!Init
  BY DEF Init, Pool!Init, phase, MainPhase
<1> QED
  BY <1>1, StepRefines, Inductive, PTL DEF Spec, PoolSpec, Pool!PoolSpec
=============================================================================
