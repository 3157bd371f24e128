----------------------------- MODULE Dispatcher -----------------------------
(***************************************************************************)
(* The scheduling of worker processes by fss_manager: the main loop and    *)
(* its select, the SIGCHLD handler and its flag, enqueue_worker and the    *)
(* System V queue of waiting tasks, the reaping of finished workers, and   *)
(* the shutdown sequence.  The children and the environment (directory     *)
(* events, console commands, SIGINT) take steps between any two steps of   *)
(* the manager.                                                            *)
(*                                                                         *)
(* A task stands for the command string of one sync; it is asked for once. *)
(* One call of enqueue_worker and one round of a waiting loop are atomic:  *)
(* inside them the manager touches only memory of its own and a signal     *)
(* touches only check_children_flag.                                       *)
(*                                                                         *)
(* A definition marked as a slip is no part of the specification: it is    *)
(* the definition after it with one plausible mistake, which the run named *)
(* in PROJECT.json must notice.                                            *)
(***************************************************************************)
EXTENDS Integers, Sequences, FiniteSets, Functions

CONSTANTS Tasks,          \* the tasks that will be asked for
          NoTask,         \* what a pid without an entry in the worker list has
          Pids,           \* process ids of workers
          WorkerLimit,    \* worker_limit: atoi of flag -n, any integer
          QueueCapacity,  \* how many commands the kernel's queue holds
          MaxBatch        \* bound: tasks asked for by one input

ASSUME ConstantsAssumption == /\ NoTask \notin Tasks
                              /\ IsFiniteSet(Pids)
                              /\ WorkerLimit \in Int
                              /\ QueueCapacity \in Nat
                              /\ MaxBatch \in Nat

VARIABLES
  pc,                   \* where the manager is
  blocked,              \* asleep in the system call of that place
  todo,                 \* tasks the running handler has yet to hand over
  queue,                \* worker_qid: the waiting commands
  workers,              \* the worker list: the task of every listed pid
  active_worker_count,
  check_children_flag,
  shutdown_flag,
  child,                \* the kernel's view of every child process
  fresh,                \* tasks nobody has asked for yet
  logged                \* tasks whose report was written to the log file

vars == <<pc, blocked, todo, queue, workers, active_worker_count,
          check_children_flag, shutdown_flag, child, fresh, logged>>

MainPhase  == pc \in {"config", "select", "handle", "check", "reap", "shutdown"}
DrainPhase == pc \in {"wait", "fill", "drain"}   \* SIGCHLD is ignored here
Gone       == pc \in {"exited", "killed", "crashed"}

Listed   == {p \in Pids : workers[p] # NoTask}
Running  == {p \in Pids : child[p] = "running"}
Zombies  == {p \in Pids : child[p] \in {"done", "mute"}}
Children == Running \union Zombies
FreePids == Pids \ (Listed \union Children)

Batches == UNION {Injection(1..n, fresh) : n \in 0..MaxBatch}

Init == /\ pc = "config"
        /\ blocked = FALSE
        /\ queue = << >>
        /\ workers = [p \in Pids |-> NoTask]
        /\ active_worker_count = 0
        /\ check_children_flag = FALSE
        /\ shutdown_flag = FALSE
        /\ child = [p \in Pids |-> "none"]
        /\ \E n \in 0..MaxBatch : todo \in Injection(1..n, Tasks)
        /\ fresh = Tasks \ Range(todo)
        /\ logged = {}

-----------------------------------------------------------------------------
(***************************************************************************)
(* Starting and queueing tasks.                                            *)
(***************************************************************************)

\* A slip: the new worker is not counted.
BeginUncounted(p, t) ==
    /\ workers' = [workers EXCEPT ![p] = t]
    /\ child' = [child EXCEPT ![p] = "running"]
    /\ UNCHANGED active_worker_count

\* begin_worker: fork, push_to_worker_list, count.  A failing fork or pipe
\* ends the manager: that outcome is Terminate.
Begin(p, t) ==
    /\ workers' = [workers EXCEPT ![p] = t]
    /\ child' = [child EXCEPT ![p] = "running"]
    /\ active_worker_count' = active_worker_count + 1

\* A slip: one worker too many.
HasRoomOffByOne == active_worker_count <= WorkerLimit

HasRoom == active_worker_count < WorkerLimit

\* enqueue_worker for the next task of the handler.  msgsnd on a full queue
\* puts the manager to sleep.
Hand ==
    /\ pc \in {"config", "handle"}
    /\ ~blocked
    /\ todo # << >>
    /\ \/ /\ HasRoom
          /\ \E p \in FreePids : Begin(p, Head(todo))
          /\ todo' = Tail(todo)
          /\ UNCHANGED <<queue, blocked>>
       \/ /\ ~HasRoom
          /\ Len(queue) < QueueCapacity
          /\ queue' = Append(queue, Head(todo))
          /\ todo' = Tail(todo)
          /\ UNCHANGED <<workers, child, active_worker_count, blocked>>
       \/ /\ ~HasRoom
          /\ Len(queue) >= QueueCapacity
          /\ blocked' = TRUE
          /\ UNCHANGED <<queue, workers, child, active_worker_count, todo>>
    /\ UNCHANGED <<pc, check_children_flag, shutdown_flag, fresh, logged>>

\* A slip: the flag is looked at after EINTR only.
CheckOnlyOnInterrupt ==
    /\ pc \in {"config", "handle"}
    /\ todo = << >>
    /\ pc' = "select"
    /\ UNCHANGED <<blocked, todo, queue, workers, active_worker_count,
                   check_children_flag, shutdown_flag, child, fresh, logged>>

\* A slip: return instead of continue in a handler's loop.
HandlerReturnsEarly ==
    /\ pc \in {"config", "handle"}
    /\ ~blocked
    /\ todo' = << >>
    /\ pc' = IF pc = "config" THEN "select" ELSE "check"
    /\ UNCHANGED <<blocked, queue, workers, active_worker_count,
                   check_children_flag, shutdown_flag, child, fresh, logged>>

\* The config file has been read, or the handler of an input returns.
HandDone ==
    /\ pc \in {"config", "handle"}
    /\ todo = << >>
    /\ pc' = IF pc = "config" THEN "select" ELSE "check"
    /\ UNCHANGED <<blocked, todo, queue, workers, active_worker_count,
                   check_children_flag, shutdown_flag, child, fresh, logged>>

-----------------------------------------------------------------------------
(***************************************************************************)
(* The main loop.                                                          *)
(***************************************************************************)

\* select finds nothing to read.
Sleep ==
    /\ pc = "select"
    /\ ~blocked
    /\ blocked' = TRUE
    /\ UNCHANGED <<pc, todo, queue, workers, active_worker_count,
                   check_children_flag, shutdown_flag, child, fresh, logged>>

\* select returns: directory events or a console command that ask for the
\* tasks ts, none when nothing is to be synced (status, cancel, ...).
Input(ts) ==
    /\ pc = "select"
    /\ pc' = "handle"
    /\ blocked' = FALSE
    /\ todo' = ts
    /\ fresh' = fresh \ Range(ts)
    /\ UNCHANGED <<queue, workers, active_worker_count, check_children_flag,
                   shutdown_flag, child, logged>>

\* select returns with the console's shutdown command.
ShutdownCommand ==
    /\ pc = "select"
    /\ pc' = "check"
    /\ blocked' = FALSE
    /\ shutdown_flag' = TRUE
    /\ UNCHANGED <<todo, queue, workers, active_worker_count,
                   check_children_flag, child, fresh, logged>>

\* The head of the loop: while (!shutdown_flag).
LoopHead == IF shutdown_flag THEN "shutdown" ELSE "select"

\* if (check_children_flag), after a handler and after EINTR.
Check ==
    /\ pc = "check"
    /\ pc' = IF check_children_flag THEN "reap" ELSE LoopHead
    /\ UNCHANGED <<blocked, todo, queue, workers, active_worker_count,
                   check_children_flag, shutdown_flag, child, fresh, logged>>

\* A slip: the finished worker still counts.
RefillsTooStrict(refill) ==
    refill /\ active_worker_count < WorkerLimit /\ queue # << >>

\* Once a worker was deleted from the list: is there room, and work?
Refills(refill) ==
    refill /\ active_worker_count - 1 < WorkerLimit /\ queue # << >>

\* A finished child p that waitpid or wait returned.  A child that is not in
\* the worker list is passed over; one that died without writing a report
\* makes write_exec_report dereference NULL; of any other the report is
\* logged and, with refill, the oldest waiting task is started in its place.
Collect(p, refill, passedOver) ==
    IF p \notin Listed \/ child[p] = "mute"
    THEN /\ pc' = IF p \notin Listed THEN passedOver ELSE "crashed"
         /\ child' = [child EXCEPT ![p] = "none"]
         /\ UNCHANGED <<workers, active_worker_count, queue, logged>>
    ELSE /\ pc' = pc
         /\ logged' = logged \union {workers[p]}
         /\ IF Refills(refill)
            THEN \E r \in FreePids \union {p} :
                    /\ workers' = [workers EXCEPT ![p] = NoTask, ![r] = Head(queue)]
                    /\ child' = [child EXCEPT ![p] = "none", ![r] = "running"]
                    /\ queue' = Tail(queue)
                    /\ UNCHANGED active_worker_count
            ELSE /\ workers' = [workers EXCEPT ![p] = NoTask]
                 /\ child' = [child EXCEPT ![p] = "none"]
                 /\ active_worker_count' = active_worker_count - 1
                 /\ UNCHANGED queue

\* A slip: "if" in place of "while", though several children may have ended.
ReapOnce ==
    /\ pc = "reap"
    /\ IF check_children_flag /\ Zombies # {}
       THEN /\ \E p \in Zombies : Collect(p, TRUE, LoopHead)
            /\ check_children_flag' = FALSE
       ELSE /\ pc' = LoopHead
            /\ UNCHANGED <<queue, workers, active_worker_count, child, logged,
                           check_children_flag>>
    /\ UNCHANGED <<blocked, todo, shutdown_flag, fresh>>

\* check_children_and_make_report, one round of its loop.  waitpid returns 0
\* when children remain and none of them has finished: the flag stays set.
Reap ==
    /\ pc = "reap"
    /\ \/ /\ \E p \in Zombies : Collect(p, TRUE, LoopHead)
          /\ UNCHANGED check_children_flag
       \/ /\ Zombies = {}
          /\ pc' = LoopHead
          /\ check_children_flag' = (Children # {} /\ check_children_flag)
          /\ UNCHANGED <<queue, workers, active_worker_count, child, logged>>
    /\ UNCHANGED <<blocked, todo, shutdown_flag, fresh>>

-----------------------------------------------------------------------------
(***************************************************************************)
(* Shutdown.  Once SIGCHLD is ignored the kernel reaps a child the moment  *)
(* it ends; children that were zombies before are still returned by wait.  *)
(***************************************************************************)

\* A slip: complete_enqueued_workers without wait_for_running_workers.
SkipWait ==
    /\ pc = "shutdown"
    /\ pc' = "fill"
    /\ UNCHANGED <<blocked, todo, queue, workers, active_worker_count,
                   check_children_flag, shutdown_flag, child, fresh, logged>>

IgnoreChildren ==
    /\ pc = "shutdown"
    /\ pc' = "wait"
    /\ UNCHANGED <<blocked, todo, queue, workers, active_worker_count,
                   check_children_flag, shutdown_flag, child, fresh, logged>>

\* A slip: no way out of the loop when wait finds no more children.
WaitForCount ==
    /\ pc = "wait"
    /\ \/ /\ active_worker_count > 0
          /\ \E p \in Zombies : Collect(p, FALSE, pc)
       \/ /\ active_worker_count <= 0
          /\ pc' = "fill"
          /\ UNCHANGED <<queue, workers, active_worker_count, child, logged>>
    /\ UNCHANGED <<blocked, todo, check_children_flag, shutdown_flag, fresh>>

\* wait_for_running_workers, one round of its loop.
WaitRunning ==
    /\ pc = "wait"
    /\ \/ /\ active_worker_count > 0
          /\ \E p \in Zombies : Collect(p, FALSE, pc)
       \/ /\ active_worker_count <= 0 \/ Children = {}
          /\ pc' = "fill"
          /\ UNCHANGED <<queue, workers, active_worker_count, child, logged>>
    /\ UNCHANGED <<blocked, todo, check_children_flag, shutdown_flag, fresh>>

\* A slip: the command that is started stays in the queue.
FillPeeks ==
    /\ pc = "fill"
    /\ IF HasRoom /\ queue # << >>
       THEN /\ \E p \in FreePids : Begin(p, Head(queue))
            /\ UNCHANGED <<pc, queue>>
       ELSE /\ pc' = "drain"
            /\ UNCHANGED <<queue, workers, active_worker_count, child>>
    /\ UNCHANGED <<blocked, todo, check_children_flag, shutdown_flag, fresh, logged>>

\* complete_enqueued_workers, one round of its first loop.
Fill ==
    /\ pc = "fill"
    /\ IF HasRoom /\ queue # << >>
       THEN /\ \E p \in FreePids : Begin(p, Head(queue))
            /\ queue' = Tail(queue)
            /\ UNCHANGED pc
       ELSE /\ pc' = "drain"
            /\ UNCHANGED <<queue, workers, active_worker_count, child>>
    /\ UNCHANGED <<blocked, todo, check_children_flag, shutdown_flag, fresh, logged>>

\* terminate_manager: the queue and the list are destroyed; children that
\* still run are not waited for.
Cleanup(end) ==
    /\ pc' = end
    /\ blocked' = FALSE
    /\ queue' = << >>
    /\ workers' = [p \in Pids |-> NoTask]
    /\ UNCHANGED <<todo, active_worker_count, check_children_flag,
                   shutdown_flag, fresh, logged>>

\* complete_enqueued_workers, one round of its second loop, and the end of
\* main once wait finds no child.
Drain ==
    /\ pc = "drain"
    /\ IF Zombies # {}
       THEN /\ \E p \in Zombies : Collect(p, TRUE, pc)
            /\ UNCHANGED <<blocked, todo, check_children_flag, shutdown_flag, fresh>>
       ELSE /\ Running = {}
            /\ Cleanup("exited")
            /\ UNCHANGED child

\* SIGINT, or a failing fork, pipe or read: terminate_manager and exit(1).
Terminate ==
    /\ ~Gone
    /\ Cleanup("killed")
    /\ UNCHANGED child

-----------------------------------------------------------------------------
(***************************************************************************)
(* The workers.                                                            *)
(***************************************************************************)

\* Worker p ends: with its report in the pipe ("done"), or without one when
\* execlp failed or a signal killed it ("mute").  child_finished sets the
\* flag; select and msgsnd are interrupted (sa_flags is 0), and enqueue_worker
\* does not look at enqueue's result, so the interrupted task is forgotten.
ChildExit(p, how) ==
    /\ child[p] = "running"
    /\ IF DrainPhase \/ Gone
       THEN /\ child' = [child EXCEPT ![p] = "none"]
            /\ UNCHANGED <<pc, blocked, todo, check_children_flag>>
       ELSE /\ child' = [child EXCEPT ![p] = how]
            /\ check_children_flag' = TRUE
            /\ blocked' = FALSE
            /\ pc' = IF blocked /\ pc = "select" THEN "check" ELSE pc
            /\ todo' = IF blocked /\ pc # "select" THEN Tail(todo) ELSE todo
    /\ UNCHANGED <<queue, workers, active_worker_count, shutdown_flag, fresh, logged>>

Manager == \/ Hand
           \/ HandDone
           \/ Sleep
           \/ Check
           \/ Reap
           \/ IgnoreChildren
           \/ WaitRunning
           \/ Fill
           \/ Drain

Worker(p) == \E how \in {"done", "mute"} : ChildExit(p, how)

Environment == \/ \E ts \in Batches : Input(ts)
               \/ ShutdownCommand
               \/ Terminate

Next == Manager \/ (\E p \in Pids : Worker(p)) \/ Environment

Spec == Init /\ [][Next]_vars

\* The manager runs when it can and every worker ends some day.
Fairness == WF_vars(Manager) /\ \A p \in Pids : WF_vars(Worker(p))

FairSpec == Spec /\ Fairness

\* As well, something always arrives again: an event or a console command.
BusySpec == FairSpec /\ WF_vars(Input(<< >>))

-----------------------------------------------------------------------------
(***************************************************************************)
(* The state's types.  The count of workers, which is taken down wherever  *)
(* one is reaped, never falls below zero.                                  *)
(***************************************************************************)
TypeOK == /\ pc \in {"config", "select", "handle", "check", "reap", "shutdown",
                     "wait", "fill", "drain", "exited", "killed", "crashed"}
          /\ blocked \in BOOLEAN
          /\ todo \in Seq(Tasks)
          /\ queue \in Seq(Tasks)
          /\ workers \in [Pids -> Tasks \union {NoTask}]
          /\ active_worker_count \in Nat
          /\ check_children_flag \in BOOLEAN
          /\ shutdown_flag \in BOOLEAN
          /\ child \in [Pids -> {"none", "running", "done", "mute"}]
          /\ fresh \subseteq Tasks
          /\ logged \subseteq Tasks

(***************************************************************************)
(* The manager's books agree with the kernel: until shutdown starts, the   *)
(* worker list holds exactly the children that run or wait to be reaped,   *)
(* and active_worker_count is its length, at every point a signal can      *)
(* arrive (begin_worker, check_children_and_make_report).                  *)
(***************************************************************************)
BookkeepingExact == MainPhase => /\ Listed = Children
                                 /\ active_worker_count = Cardinality(Listed)

(***************************************************************************)
(* No worker slot is idle while a command waits: enqueue_worker queues at  *)
(* the limit only, and every reaped worker is replaced from the queue,     *)
(* which is the only place where the main loop takes from it.              *)
(***************************************************************************)
WorkConserving == MainPhase /\ queue # << >> => active_worker_count >= WorkerLimit

(***************************************************************************)
(* Never more processes than flag -n allows, counting finished ones that   *)
(* were not reaped, in the main loop and throughout the shutdown.          *)
(***************************************************************************)
LimitRespected == ~Gone /\ Children # {} => Cardinality(Children) <= WorkerLimit

(***************************************************************************)
(* child_finished's flag is not cleared under a finished child: as long as *)
(* one waits to be reaped, the main loop's next look at the flag sees it   *)
(* (check_children_and_make_report returns early without clearing it).     *)
(***************************************************************************)
ZombieFlagged == MainPhase /\ Zombies # {} => check_children_flag

(***************************************************************************)
(* No task is run or logged twice: a task is in at most one of the input,  *)
(* the running handler, the queue, the worker list and the log.            *)
(***************************************************************************)
TaskOnce ==
    ~Gone => /\ IsInjective(todo \o queue)
             /\ \A p, q \in Listed : workers[p] = workers[q] => p = q
             /\ LET held == Range(todo \o queue)
                    run  == {workers[p] : p \in Listed}
                IN  /\ held \intersect run = {}
                    /\ (held \union run) \intersect (fresh \union logged) = {}
                    /\ fresh \intersect logged = {}

\* Tasks that were asked for and are neither held, running nor logged.
Lost == Tasks \ ((fresh \union logged) \union
                 (Range(todo \o queue) \union {workers[p] : p \in Listed}))

(***************************************************************************)
(* While the main loop runs a task can get lost in one way only: the       *)
(* manager was asleep in msgsnd on a full queue when a worker finished     *)
(* (enqueue in queue.c, its result ignored by enqueue_worker).             *)
(***************************************************************************)
LostOnlyAtFullQueue ==
    [][MainPhase /\ Lost' # Lost =>
         \/ Gone'
         \/ blocked /\ Len(queue) >= QueueCapacity /\ Cardinality(Lost' \ Lost) = 1
      ]_vars

(***************************************************************************)
(* When the shutdown starts waiting for its last workers no zombie is left *)
(* and none can appear, so the loop that is meant to start the rest of the *)
(* queue (fss_manager.c:655-707) never reaches its body.                   *)
(***************************************************************************)
NothingLeftToReap == pc \in {"fill", "drain"} => Zombies = {}

(***************************************************************************)
(* The scheduling implements the pool of TaskPool: the worker list plays   *)
(* the slots and the message queue the backlog.                            *)
(***************************************************************************)
phase == IF MainPhase THEN "open" ELSE IF DrainPhase THEN "closing" ELSE "stopped"

Pool == INSTANCE TaskPool WITH Slots <- Pids, Idle <- NoTask, Limit <- WorkerLimit,
                               Capacity <- QueueCapacity, backlog <- queue,
                               slot <- workers

PoolSpec == Pool!PoolSpec

(***************************************************************************)
(* A finished worker is reaped and reported: the main loop checks the flag *)
(* that the SIGCHLD handler sets (README, assumptions about the main       *)
(* loop).                                                                  *)
(***************************************************************************)
FinishedIsReaped ==
    \A p \in Pids : (p \in Zombies /\ ~Gone) ~> (p \notin Zombies \/ Gone)

(***************************************************************************)
(* Every task that was asked for is reported in the log, unless the        *)
(* manager is told to shut down, is killed or crashes first.               *)
(***************************************************************************)
AskedIsLogged ==
    \A t \in Tasks : t \notin fresh ~> (t \in logged \/ shutdown_flag \/ Gone)

(***************************************************************************)
(* Once the console has asked for it the manager's shutdown comes to an    *)
(* end, whatever its books say about workers the kernel reaped unseen.     *)
(***************************************************************************)
ShutdownCompletes == shutdown_flag ~> Gone

(***************************************************************************)
(* "Begin rest of enqueued workers before shutdown" (fss_manager.c:628):   *)
(* an orderly exit leaves no command in the queue.                         *)
(***************************************************************************)
QueueCompleted == [][pc = "drain" /\ pc' = "exited" => queue = << >>]_vars

(***************************************************************************)
(* "Waits for already running workers before shutdown" and adds their      *)
(* reports to the log (fss_manager.c:581, 617): at an orderly exit every   *)
(* started worker has been accounted for.                                  *)
(***************************************************************************)
RunningAreReported == [][pc = "drain" /\ pc' = "exited" => Listed = {}]_vars
=============================================================================
