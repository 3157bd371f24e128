------------------------------ MODULE Registry ------------------------------
(***************************************************************************)
(* The pairs of directories that fss_manager keeps in sync: the list that  *)
(* the config file and the console's add, cancel and sync work on, the     *)
(* kernel's watches and event queue behind it, and the tasks that both     *)
(* kinds of input hand to the workers.                                     *)
(*                                                                         *)
(* select and the handler it leads to are two steps: directories change    *)
(* between them.  A handler's work on one command or one event is one      *)
(* step, for only the manager touches its list.  Scheduling is what        *)
(* TaskPool promises; Dispatcher shows how the code keeps that promise.    *)
(*                                                                         *)
(* A definition marked as a slip is no part of the specification: it is    *)
(* the definition after it with one plausible mistake.                     *)
(***************************************************************************)
EXTENDS Integers, Sequences, FiniteSets, SequencesExt

CONSTANTS Dirs,       \* directory names
          Config,     \* the config file: a sequence of <<source, target>>
          AddArgs,    \* bound: the pairs that the console may ask to add
          Removable,  \* the directories that come and go
          EventOps,   \* kinds of directory events: "ADDED", "MODIFIED", "DELETED"
          Slots, NoTask, WorkerLimit, QueueCapacity,  \* as in Dispatcher
          MaxEvents,  \* bound: changes the kernel has queued at a time
          MaxWatch,   \* bound: the highest watch descriptor handed out
          MaxCrashes  \* bound: how often the manager crashes and is restarted

Pairs == [src : Dirs, trgt : Dirs, active : BOOLEAN, wd : -1..MaxWatch]

\* The command of a worker, without the file name and the report flag.
TaskSet == [src : Dirs, trgt : Dirs, op : EventOps \union {"FULL"}]

Commands == {[name |-> "add", src |-> a[1], trgt |-> a[2]] : a \in AddArgs}
            \union [name : {"cancel", "sync"}, src : {a[1] : a \in AddArgs}]

\* What the kernel says of a watched directory.
EventSet == [wd : 1..MaxWatch, dir : Dirs, op : EventOps \union {"IGNORED"}]

ASSUME RegistryAssumption ==
    /\ Config \in Seq(Dirs \X Dirs) /\ AddArgs \subseteq Dirs \X Dirs
    /\ Removable \subseteq Dirs
    /\ EventOps \subseteq {"ADDED", "MODIFIED", "DELETED"}
    /\ IsFiniteSet(Slots) /\ NoTask \notin TaskSet
    /\ WorkerLimit \in Int /\ QueueCapacity \in Nat
    /\ MaxEvents \in Nat /\ MaxWatch \in Nat /\ MaxCrashes \in Nat
    /\ Len(Config) <= MaxWatch   \* the bound leaves room for the config file

VARIABLES
  pc,       \* "config", "select", "console", "events" or "crashed"
  lines,    \* what is left to read of the config file
  command,  \* the console command being handled
  store,    \* sync_info_mem_store, newest pair first
  batch,    \* the events read and not yet looked at
  exists,   \* the directories that exist
  watch,    \* the kernel's watches: the descriptor of a directory, or -1
  nextWd,   \* the next descriptor the kernel gives out
  events,   \* the kernel's queue of events
  running,  \* the task of every worker
  waiting,  \* worker_qid
  crashes

kernel == <<exists, watch, nextWd, events>>
tasks  == <<running, waiting>>
vars   == <<pc, lines, command, store, batch, kernel, tasks, crashes>>

None == [name |-> "none"]

Init == /\ pc = "config"
        /\ lines = Config
        /\ command = None
        /\ store = << >>
        /\ batch = << >>
        /\ exists = Dirs
        /\ watch = [d \in Dirs |-> -1]
        /\ nextWd = 1
        /\ events = << >>
        /\ running = [s \in Slots |-> NoTask]
        /\ waiting = << >>
        /\ crashes = 0

-----------------------------------------------------------------------------
(***************************************************************************)
(* The list: positions of the first match, 0 for NULL.                     *)
(***************************************************************************)
list_search(d)      == SelectInSeq(store, LAMBDA pr : pr.src = d)
list_search_trgt(d) == SelectInSeq(store, LAMBDA pr : pr.trgt = d)

\* A slip: only the head of the list is looked at.
ListSearchHead(wd) == IF store # << >> /\ store[1].wd = wd THEN 1 ELSE 0

list_search_wd(wd) == SelectInSeq(store, LAMBDA pr : pr.wd = wd)

\* A slip: the same role only.
TakenInSameRole(src, trgt) == list_search(src) # 0 \/ list_search_trgt(trgt) # 0

\* One of the two directories already plays a part in some pair.
Taken(src, trgt) == \/ list_search(src) # 0
                    \/ list_search(trgt) # 0
                    \/ list_search_trgt(trgt) # 0
                    \/ list_search_trgt(src) # 0

(***************************************************************************)
(* inotify.  A watch belongs to a directory that exists; asking again for  *)
(* a watched directory gives the same descriptor, removing a watch leaves  *)
(* the queued events and adds IN_IGNORED, and no descriptor is reused.     *)
(* Asking may fail at any time (-1): the directory is missing or may not   *)
(* be read, the user's watches are used up.                                *)
(***************************************************************************)
Descriptors(d) == {-1} \union (IF d \notin exists THEN {}
                               ELSE IF watch[d] # -1 THEN {watch[d]} ELSE {nextWd})

\* inotify_add_watch(d) answers wd.
AddWatch(d, wd) ==
    /\ wd \in Descriptors(d)
    /\ IF wd = nextWd
       THEN nextWd' = nextWd + 1 /\ watch' = [watch EXCEPT ![d] = wd]
       ELSE UNCHANGED <<nextWd, watch>>

DropWatch(wd) ==
    IF wd \in Range(watch) \ {-1}
    THEN LET d == CHOOSE x \in Dirs : watch[x] = wd
         IN  /\ watch' = [watch EXCEPT ![d] = -1]
             /\ events' = Append(events, [wd |-> wd, dir |-> d, op |-> "IGNORED"])
    ELSE UNCHANGED <<watch, events>>

(***************************************************************************)
(* enqueue_worker and the reaping of a worker, as TaskPool promises them.  *)
(* On a full queue msgsnd sleeps until a worker's end interrupts it: then  *)
(* the task is dropped and the handler goes on.                            *)
(***************************************************************************)
Busy == {s \in Slots : running[s] # NoTask}

\* A slip: two arguments change places.
ArgumentsSwapped(src, trgt, op) == [src |-> trgt, trgt |-> op, op |-> src]

Task(src, trgt, op) == [src |-> src, trgt |-> trgt, op |-> op]

enqueue_worker(src, trgt, op) ==
    LET t == Task(src, trgt, op)
    IN  \/ /\ Cardinality(Busy) < WorkerLimit
           /\ \E s \in Slots \ Busy : running' = [running EXCEPT ![s] = t]
           /\ UNCHANGED waiting
        \/ /\ Cardinality(Busy) >= WorkerLimit
           /\ Len(waiting) < QueueCapacity
           /\ waiting' = Append(waiting, t)
           /\ UNCHANGED running
        \/ /\ Cardinality(Busy) >= WorkerLimit
           /\ Len(waiting) >= QueueCapacity
           /\ Busy # {}
           /\ UNCHANGED tasks

\* A slip: the newest command first.
NewestTask == IF waiting = << >> THEN NoTask ELSE Last(waiting)

\* dequeue: the oldest command, if there is one.
NextTask == IF waiting = << >> THEN NoTask ELSE Head(waiting)

\* check_children_and_make_report for the worker in slot s: it looks up the
\* pair of the finished task and dereferences what it finds.
Reap(s) ==
    /\ pc = "select"
    /\ running[s] # NoTask
    /\ IF list_search(running[s].src) = 0
       THEN /\ pc' = "crashed"
            /\ UNCHANGED tasks
       ELSE /\ pc' = pc
            /\ running' = [running EXCEPT ![s] = NextTask]
            /\ waiting' = IF waiting = << >> THEN waiting ELSE Tail(waiting)
    /\ UNCHANGED <<lines, command, store, batch, kernel, crashes>>

-----------------------------------------------------------------------------
(***************************************************************************)
(* Start-up.                                                               *)
(***************************************************************************)

\* A slip: the pair is made before its directory is watched.
PairBeforeWatch(src, trgt, wd) ==
    [src |-> src, trgt |-> trgt, active |-> TRUE, wd |-> watch[src]]

\* A slip: the failure of inotify_add_watch is not kept.
PairWithNextWatch(src, trgt, wd) ==
    [src |-> src, trgt |-> trgt, active |-> TRUE, wd |-> nextWd]

NewPair(src, trgt, wd) == [src |-> src, trgt |-> trgt, active |-> TRUE, wd |-> wd]

\* initialize_sync_info, one line: directories that are taken or cannot be
\* watched are left out.
ConfigLine ==
    /\ pc = "config"
    /\ lines # << >>
    /\ LET src == Head(lines)[1]  trgt == Head(lines)[2]
       IN  \/ /\ Taken(src, trgt)
              /\ UNCHANGED <<store, nextWd, watch, tasks>>
           \/ /\ ~Taken(src, trgt)
              /\ \E wd \in Descriptors(src) :
                    /\ AddWatch(src, wd)
                    /\ IF wd = -1
                       THEN UNCHANGED <<store, tasks>>
                       ELSE /\ store' = Cons(NewPair(src, trgt, wd), store)
                            /\ enqueue_worker(src, trgt, "FULL")
    /\ lines' = Tail(lines)
    /\ UNCHANGED <<pc, command, batch, exists, events, crashes>>

ConfigDone ==
    /\ pc = "config"
    /\ lines = << >>
    /\ pc' = "select"
    /\ UNCHANGED <<lines, command, store, batch, kernel, tasks, crashes>>

-----------------------------------------------------------------------------
(***************************************************************************)
(* The main loop: events have precedence over the console.                 *)
(***************************************************************************)

SelectEvents ==
    /\ pc = "select"
    /\ events # << >>
    /\ pc' = "events"
    /\ batch' = events
    /\ events' = << >>
    /\ UNCHANGED <<lines, command, store, exists, watch, nextWd, tasks, crashes>>

SelectConsole(c) ==
    /\ pc = "select"
    /\ events = << >>
    /\ pc' = "console"
    /\ command' = c
    /\ UNCHANGED <<lines, store, batch, kernel, tasks, crashes>>

\* sync_notified_dir, one event: one that belongs to no pair of the list or
\* carries no name is skipped.  The pair's active field is not looked at.
Event ==
    /\ pc = "events"
    /\ batch # << >>
    /\ LET e == Head(batch)  i == list_search_wd(e.wd)
       IN  IF i = 0 \/ e.op = "IGNORED"
           THEN UNCHANGED tasks
           ELSE enqueue_worker(store[i].src, store[i].trgt, e.op)
    /\ batch' = Tail(batch)
    /\ UNCHANGED <<pc, lines, command, store, kernel, crashes>>

EventsDone ==
    /\ pc = "events"
    /\ batch = << >>
    /\ pc' = "select"
    /\ UNCHANGED <<lines, command, store, batch, kernel, tasks, crashes>>

\* A console command has been handled.
Handled == /\ pc' = "select"
           /\ command' = None
           /\ UNCHANGED <<lines, batch, exists, crashes>>

\* A slip: the pair keeps the descriptor it was cancelled with.
ReactivatedOnly(pr, wd) == [pr EXCEPT !.active = TRUE]

Reactivated(pr, wd) == [pr EXCEPT !.active = TRUE, !.wd = wd]

\* add: refused for a taken directory, unless it is the very pair that was
\* cancelled.  A directory that cannot be watched is added all the same.
Add ==
    /\ pc = "console"
    /\ command.name = "add"
    /\ LET src == command.src  trgt == command.trgt  i == list_search(src)
           cancelled == i # 0 /\ ~store[i].active /\ store[i].trgt = trgt
       IN  \/ /\ Taken(src, trgt) /\ ~cancelled
              /\ UNCHANGED <<store, nextWd, watch, tasks>>
           \/ /\ Taken(src, trgt) => cancelled
              /\ nextWd <= MaxWatch
              /\ \E wd \in Descriptors(src) :
                    /\ AddWatch(src, wd)
                    /\ store' = IF cancelled
                                THEN [store EXCEPT ![i] = Reactivated(store[i], wd)]
                                ELSE Cons(NewPair(src, trgt, wd), store)
              /\ enqueue_worker(src, trgt, "FULL")
    /\ UNCHANGED events
    /\ Handled

\* A slip: the pair is deleted from the list.
CancelDeletes ==
    /\ pc = "console"
    /\ command.name = "cancel"
    /\ LET i == list_search(command.src)
       IN  IF i = 0 THEN UNCHANGED <<store, watch, events>>
           ELSE store' = RemoveAt(store, i) /\ DropWatch(store[i].wd)
    /\ UNCHANGED <<nextWd, tasks>>
    /\ Handled

\* cancel: only an active pair is touched.
Cancel ==
    /\ pc = "console"
    /\ command.name = "cancel"
    /\ LET i == list_search(command.src)
       IN  IF i = 0 \/ ~store[i].active
           THEN UNCHANGED <<store, watch, events>>
           ELSE /\ store' = [store EXCEPT ![i].active = FALSE]
                /\ DropWatch(store[i].wd)
    /\ UNCHANGED <<nextWd, tasks>>
    /\ Handled

\* sync: a worker on the same source is reported to the console, and the
\* sync is enqueued all the same.
Sync ==
    /\ pc = "console"
    /\ command.name = "sync"
    /\ LET i == list_search(command.src)
       IN  IF i = 0 THEN UNCHANGED tasks
           ELSE enqueue_worker(store[i].src, store[i].trgt, "FULL")
    /\ UNCHANGED <<store, nextWd, watch, events>>
    /\ Handled

-----------------------------------------------------------------------------
(***************************************************************************)
(* The directories, and the end of the manager.                            *)
(***************************************************************************)

\* Something happens to a file in d; the kernel queues it for the watch.
Change(d, op) ==
    /\ watch[d] # -1
    /\ Len(events) < MaxEvents
    /\ events' = Append(events, [wd |-> watch[d], dir |-> d, op |-> op])
    /\ UNCHANGED <<pc, lines, command, store, batch, exists, watch, nextWd, tasks, crashes>>

\* d is removed and its watch with it, or made again without a watch.
RemoveDir(d) ==
    /\ d \in exists
    /\ exists' = exists \ {d}
    /\ DropWatch(watch[d])
    /\ UNCHANGED <<pc, lines, command, store, batch, nextWd, tasks, crashes>>

MakeDir(d) ==
    /\ d \notin exists
    /\ exists' = exists \union {d}
    /\ UNCHANGED <<pc, lines, command, store, batch, watch, nextWd, events, tasks, crashes>>

\* The manager dies without terminate_manager and is started again: its list
\* and its watches are gone, the System V queue is still there.
Restart ==
    /\ crashes < MaxCrashes
    /\ crashes' = crashes + 1
    /\ pc' = "config"
    /\ lines' = Config
    /\ command' = None
    /\ store' = << >>
    /\ batch' = << >>
    /\ watch' = [d \in Dirs |-> -1]
    /\ nextWd' = 1
    /\ events' = << >>
    /\ running' = [s \in Slots |-> NoTask]
    /\ UNCHANGED <<exists, waiting>>

Next == \/ ConfigLine
        \/ ConfigDone
        \/ SelectEvents
        \/ \E c \in Commands : SelectConsole(c)
        \/ Event
        \/ EventsDone
        \/ Add
        \/ Cancel
        \/ Sync
        \/ \E s \in Slots : Reap(s)
        \/ \E d \in Dirs, op \in EventOps : Change(d, op)
        \/ \E d \in Removable : RemoveDir(d) \/ MakeDir(d)
        \/ Restart

Spec == Init /\ [][Next]_vars

-----------------------------------------------------------------------------
(***************************************************************************)
(* Types: what is kept in the list, in events and as tasks is well-formed. *)
(* Which pair, if any, it belongs to is the matter of the properties below.*)
(***************************************************************************)
TypeOK == /\ pc \in {"config", "select", "console", "events", "crashed"}
          /\ lines \in Seq(Dirs \X Dirs)
          /\ command \in Commands \union {None}
          /\ store \in Seq(Pairs)
          /\ exists \subseteq Dirs
          /\ watch \in [Dirs -> -1..MaxWatch]
          /\ nextWd \in 1..(MaxWatch + 1)
          /\ batch \in Seq(EventSet) /\ events \in Seq(EventSet)
          /\ running \in [Slots -> TaskSet \union {NoTask}]
          /\ waiting \in Seq(TaskSet)
          /\ crashes \in 0..MaxCrashes

(***************************************************************************)
(* A directory plays a part in at most one pair, whatever is added,        *)
(* cancelled and added again (README, assumptions about the manager).      *)
(***************************************************************************)
NoDirTwice == \A i, j \in DOMAIN store :
                 i # j => {store[i].src, store[i].trgt} \intersect
                          {store[j].src, store[j].trgt} = {}

(***************************************************************************)
(* The kernel and the list agree: every watch leads, by its descriptor, to *)
(* an active pair whose source is the watched directory.  No watch is      *)
(* leaked by cancel, by adding again or by a directory that came back.     *)
(***************************************************************************)
WatchLeadsToPair ==
    \A d \in Dirs : watch[d] # -1 =>
        LET i == list_search_wd(watch[d])
        IN  i # 0 /\ store[i].src = d /\ store[i].active

(***************************************************************************)
(* An event that is still on its way is never charged to another pair, not *)
(* even one cancelled and watched anew since: looking up its descriptor    *)
(* finds the directory it happened in, or nothing.                         *)
(***************************************************************************)
EventFindsItsPair ==
    \A e \in Range(batch \o events) :
        LET i == list_search_wd(e.wd) IN i # 0 => store[i].src = e.dir

(***************************************************************************)
(* And the other way round: an active pair that got a descriptor, and      *)
(* whose directory never vanishes, is watched under that very descriptor,  *)
(* after any number of cancels, adds and restarts (README, assumptions     *)
(* about the manager).  An active pair without one (-1) is not watched     *)
(* and stays so: add does not stop at the failure (fss_manager.c:400).     *)
(***************************************************************************)
ActiveIsWatched ==
    \A i \in DOMAIN store :
        store[i].active /\ store[i].wd # -1 /\ store[i].src \notin Removable
        => watch[store[i].src] = store[i].wd

(***************************************************************************)
(* "wk->source_dir is surely on the list" (fss_manager.c:533): the pair of *)
(* every task that runs or waits is in the list, so that reaping it does   *)
(* not dereference NULL.  A crash ends that: the queue of commands then    *)
(* outlives the list.                                                      *)
(***************************************************************************)
SourceOnList ==
    crashes = 0 =>
    \A t \in Range(waiting) \union {running[s] : s \in Busy} :
        \E i \in DOMAIN store : store[i].src = t.src /\ store[i].trgt = t.trgt

(***************************************************************************)
(* All the handlers together use the workers as TaskPool promises, until   *)
(* the first crash, which stops the pool.                                  *)
(***************************************************************************)
alive == crashes = 0

Pool == INSTANCE TaskPool WITH
            Tasks <- TaskSet, Idle <- NoTask, Limit <- WorkerLimit,
            Capacity <- QueueCapacity,
            backlog <- IF alive THEN waiting ELSE << >>,
            slot    <- [s \in Slots |-> IF alive THEN running[s] ELSE NoTask],
            phase   <- IF alive THEN "open" ELSE "stopped"

PoolSpec == Pool!PoolSpec

\* How often t has been asked for and is not finished.
Asked(t) == Cardinality({s \in Slots : running[s] = t}) +
            Cardinality({i \in DOMAIN waiting : waiting[i] = t})

(***************************************************************************)
(* No event of a directory that is watched is thrown away: when the        *)
(* handler is done with one whose watch is still in place, there is one    *)
(* more task for just that directory and that kind of change, unless the   *)
(* queue of commands was full.                                             *)
(***************************************************************************)
LiveEventBecomesTask ==
    [][\A e \in Range(batch) :
          /\ e = Head(batch)
          /\ batch' = Tail(batch)
          /\ UNCHANGED crashes
          /\ watch[e.dir] = e.wd
          /\ Len(waiting) < QueueCapacity
          => \E t \in TaskSet : t.src = e.dir /\ t.op = e.op /\ Asked(t)' = Asked(t) + 1]_vars

(***************************************************************************)
(* "If a worker is already syncing the filepair, dont do anything"         *)
(* (fss_manager.c:490): a sync command for a source that a worker is       *)
(* working on asks for no task.                                            *)
(***************************************************************************)
SyncInProgressIgnored ==
    [][pc = "console" /\ command.name = "sync"
         /\ (\E s \in Busy : running[s].src = command.src) => UNCHANGED tasks]_vars
=============================================================================
