# A verification project for the file sync system

The repository holds a file synchronisation system in C (`src/sample_src`): a
manager process watches source directories with inotify and keeps target
directories in sync by starting worker processes; a console talks to it over
two FIFOs; a shell script queries its log. This directory models the parts of
it that are hard to test, checks them with TLC and proves every safety
property that the checks pass, for all values of the constants, with TLAPS.

Paths below are relative to `src/sample_src` unless they say otherwise.

## Inventory

| component | state | operations |
|---|---|---|
| manager, scheduling (`fss_manager.c`) | `active_worker_count`, the worker list, the command queue `worker_qid`, `check_children_flag`, `shutdown_flag` | `enqueue_worker`, `begin_worker`, the `select` loop, `child_finished`, `check_children_and_make_report`, `wait_for_running_workers`, `complete_enqueued_workers`, `terminate_manager` |
| manager, pairs (`fss_manager.c`) | `sync_info_mem_store`, the inotify watches | `initialize_sync_info`, `sync_notified_dir`, the commands add, cancel, sync, status |
| worker (`worker.c`) | `files_copied`, `files_skipped`, `error_count`, the error queue | FULL, ADDED, MODIFIED, DELETED, `make_exec_report`, `free_memory` |
| message queue (`queue.c`) | two System V queues, one per key, for all processes | `init_queue`, `enqueue` (blocks), `dequeue` (does not), `empty_out_queue` |
| lists (`list.c`) | two linked lists, newest entry first | push, searches, delete, destroy |
| utilities (`utils.c`) | none | pairs and worker entries, strings, time, FIFOs |
| console (`fss_console.c`) | `times_to_read`, `shutdown_flag` | validate, log, send a command, read a fixed number of answers |
| script (`fss_script.sh`) | none | listAll, listMonitored, listStopped, purge over a log |

How they interact. The manager is one thread: `select` waits for inotify events
and console commands, and the handler of either asks for tasks. A task becomes
a worker process below the worker limit, and a string in the command queue at
it. A worker writes its report into a pipe when it exits. SIGCHLD only sets a
flag, and interrupts `select` and `msgsnd`; the main loop reaps when it sees
the flag, logs the report and starts the oldest queued command in the freed
slot. Workers share nothing with the manager, but all of them share one error
queue. Shutdown sets SIGCHLD to ignored, waits for the running workers, starts
what is queued, waits again, and removes both FIFOs and the queue.

What is hard: signals against the main loop's check of the flag; system calls
that block or are interrupted; workers that end at any time, in any order,
possibly without a report; children that the kernel reaps unseen; events that
are already queued when their pair is cancelled; kernel queues that outlive a
process; processes that share a queue and remove it under each other.
`PROJECT.json` lists these hazards line by line with the properties aimed at
them, and says so where none is.

What makes each component correct:

- scheduling: the books agree with the kernel; never more workers than the
  limit; no idle slot while a command waits; first come, first served; every
  task runs at most once and is logged; every finished worker is reaped; a
  shutdown ends, with everything done and reported;
- pairs: a directory plays one part in one pair; watches and active pairs
  correspond; an event is charged to its own pair and becomes a task; the pair
  of every task is in the list when its worker is reaped;
- worker: the report says what happened and ends; nothing is left behind for
  the next worker; the target ends up equal to the source;
- console: answers belong to the command they are read for; nobody waits for
  an answer that does not come;
- script: the queries list the newest full sync of every directory, and sort
  the directories as the manager does.

## Modules

| module | models | extends / uses |
|---|---|---|
| `TaskPool` | the abstract promise of the scheduling: slots, a backlog, FIFO, no idle slot | |
| `Dispatcher` | the scheduling of the manager, with the kernel's children | implements `TaskPool` |
| `Registry` | pairs, watches, events, console commands, restart | implements `TaskPool` |
| `Worker` | concurrent workers, their counters, reports and shared error queue | |
| `FileSync` | the files of one pair under its users and concurrent workers | |
| `ConsoleLink` | console, FIFOs, the manager's answers and log, restarts | extends `ScriptQueries` |
| `ScriptQueries` | the script's queries, as operators on a log | |
| `DispatcherProofs`, `DispatcherTaskProofs` | theorems on `Dispatcher` | the second extends the first |
| `RegistryProofs`, `WorkerProofs`, `FileSyncProofs` | theorems on these modules | extend them |
| `ConsoleLinkProofs`, `ConsoleLogProofs` | theorems on `ConsoleLink` and on the queries | the second extends the first |
| `CommonLemmas` | least numbers, and heads and ends of sequences | |
| `MCDispatcher`, `MCRegistry`, `MCWorker`, `MCFileSync`, `MCConsoleLink` | instances for TLC | extend the module they are named after |

The manager is split at `enqueue_worker`. `Registry` decides which tasks are
asked for and treats the workers as `TaskPool` does; `Dispatcher` takes any
tasks from its environment and shows what becomes of them. Both have `TaskPool`
as a PROPERTY, so what `Registry` assumes of the workers is what `Dispatcher`
provides while the main loop runs.

Definitions marked "a slip" are not part of a specification. Each is the
definition after it with one plausible mistake; the run and the property that
notice it are listed under "mutants" in `PROJECT.json`.

### Dispatcher

`pc` is the place in `main`: reading the config file, in `select`, in a
handler, at the test of the flag, in the reaping loop, at the end of the loop,
and in the loops of the shutdown. `blocked` says that the system call of that
place has put the process to sleep, so that "about to call `select`" and
"asleep in `select`" differ: the difference is the window of the lost wakeup.
`todo` is what the running handler has yet to hand to `enqueue_worker`.
`workers` maps a pid to the task of its list entry; `child` is what the kernel
knows of it: running, ended with a report (`done`) or without one (`mute`).

| action | code |
|---|---|
| `Hand`, `Begin`, `HasRoom` | `enqueue_worker`, `begin_worker` |
| `Sleep`, `Input`, `ShutdownCommand`, `HandDone`, `Check` | the main loop |
| `Reap`, `Collect`, `Refills` | `check_children_and_make_report` |
| `IgnoreChildren`, `WaitRunning` | `wait_for_running_workers` |
| `Fill`, `Drain` | the two loops of `complete_enqueued_workers` |
| `Cleanup`, `Terminate` | `terminate_manager`, also as the SIGINT handler |
| `ChildExit` | the end of a worker: SIGCHLD, `child_finished`, EINTR |

One call of `enqueue_worker` and one round of a waiting loop are single steps:
in between, the manager touches its own memory only, and a signal touches only
the flag. A worker can end between any two steps, right after `fork` included.

Details that matter and are in the model: `waitpid` returning 0 leaves the flag
set, -1 clears it; `msgsnd` on a full queue sleeps and, when interrupted, drops
the task, since `enqueue_worker` does not look at the result; a worker without
a report crashes the manager (`strcmp` of NULL); with SIGCHLD ignored the
kernel reaps a child the moment it ends, the list keeps its entry and the count
is not taken down. The command queue is empty at the start; `Registry` has the
start with an old queue.

### Registry

`store` is the list, newest pair first, searched for its first match as the
code does. `watch`, `nextWd`, `events` are inotify as the code uses it: a
directory that is watched again keeps its descriptor, a removed watch leaves
its events and adds IN_IGNORED, descriptors are not reused, and a directory
that vanishes takes its watch with it. Every call of `inotify_add_watch` may
fail (`AddWatch` answers -1), for a missing directory or for any other reason
(permissions, the limit on watches): a line of the config file is then left
out, and `Add` goes on with -1. `batch` holds the events that were read
and not yet handled. Events have precedence over the console. `Add` goes on
with the pair when the watch fails, `Sync` when a worker is already at it, and `Event` does not
look at the pair's `active` field: that is what the code does. `Restart` is a
crash and a new start, which loses everything but the command queue.

### Worker

`mem[w]` holds the variables of `worker.c` for worker `w`, its place and the
report. The error queue is `errq`; `gen` numbers the queues that have existed
under the key, so that a worker whose queue was removed is told from one that
has it. The file system's answers are free: each file is copied, fails with a
counted error, or fails with the short write that is put into the queue but not
counted. `made` is not in the code: it counts the messages a worker made.

### FileSync

`Worker` leaves the files open and looks at the reports; `FileSync` does the
reverse. `source` and `target` hold the contents of every name, as blocks; a
block is what one `read` of `copy_file` returns and bears the number of the
change that wrote it, so that old and new contents differ. `events` is what
inotify has and the manager has not read, `queue` the manager's queue (without
its limit: `Dispatcher` has that), `mem[w]` a worker's place and variables.

| action | code |
|---|---|
| `Create`, `Remove`, `Write` | the users; each makes an event, which may merge with an equal one before it |
| `MoveIn`, `MoveOut` | renamings into the directory (also over another file) and out of it; one within it is both. They make no event: the watches at `fss_manager.c:270` and 400 do not ask for `IN_MOVED_*` |
| `Event`, `Sync`, `enqueue_worker`, `Reap` | the manager |
| `ScanTarget`, `ReadTarget`, `Unlink`, `Unlinked` | `opendir` and `readdir` of the target, `delete_file`: the first half of `sync_directories` |
| `PassGone`, `ReadFresh` | `readdir` of the source, in the second half |
| `AddOrModify`, `OpenSource`, `OpenTarget`, `Read`, `WriteBlock`, `Return` | `add_or_modify_file` and `copy_file`, one system call each |
| `Finish` | the report |

`left` has the entries that `readdir` will return as long as they stay. The
code reads a directory while it unlinks or copies what it read, and others
change it meanwhile: an entry that goes is passed over (`ReadTarget`,
`PassGone`), one that comes after `opendir` may be returned, at any time or
never (`ReadTarget`, and `ReadFresh` for those in `fresh`).

A file that is unlinked while a process has it open lives on for that process
(`kept`, `linked`). `stale`, `moved` and `tainted` are history. `stale` says
which files changed under whom. `Converged` and `ReportIsTrue` claim nothing of
two kinds of files:

- `moved`: files that were renamed. Without an event nothing is done about
  them, and the target is wrong until a full sync begins that finds no other
  worker at work and has nothing older about the file to come after it. (An
  event or command that is older can undo what the sync did: a pending
  DELETED unlinks a file that has been moved in since.)
- `tainted`: files that became shorter and are MODIFIED, that changed while
  two workers were at them or between the beginnings of the two, or that were
  deleted beside a copy. A full sync that begins with no other worker at work
  mends them.

These are the ways of going wrong among the changes that the module has. It is
no complete list for a real directory: see "Not modelled".

### ConsoleLink and ScriptQueries

`cpc`, `cmd` and `reads` are the console, `mpc`, `handling` and `todo` the
manager: `todo` holds the answers to the command that are not written yet, for
each is a `write` of its own. `fss_in` and `fss_out` hold commands and the first
words of answers, which is all that `read_response` looks at.

| action | code |
|---|---|
| `Connect`, `Send`, `Read`, `EndOfFile`, `Interrupt` | `fss_console.c` |
| `Receive`, `Answer` | `receive_and_handle_console_cmd`, `write_log_message` |
| `Reap` | `check_children_and_make_report` |
| `Waiting`, `WaitReaps`, `Processing`, `Complete`, `Terminate` | the shutdown |
| `Kill`, `Start` | SIGINT or SIGKILL, and another manager |
| `Purge` | the script's purge |

One read takes all that is in a FIFO, in both directions. A worker that was
forked after the FIFOs were opened holds them open, so that a console whose
manager is gone sees the end of the file only when these workers are gone
(`OtherEnd`). After SIGKILL the FIFOs keep their names (`named`), and a console
can still connect as long as such a worker has them open. Another manager may
start while a console is there and workers of the last one run: it unlinks the
FIFOs and makes new ones (`fss_manager.c:213-220`), and the console keeps the
old ones (`cut`), with the workers in `orphans` at their other end.

`log` is the set of those of the log's lines that the script's queries select,
which is enough because every pipeline sorts them; `clock` counts the seconds
of their stamps. The manager opens its log with O_TRUNC (`fss_manager.c:191`):
a start leaves of it only what the new manager writes. (The console's own log
is the one that is appended to, `fss_console.c:26`.) A purge removes the file,
and the manager goes on writing to it without its name (`linked`). `inStep` is
history: this console found the FIFOs empty and has not sent a sync.

`WaitReaps` sets the last sync of the worker's directory, as
`fss_manager.c:615` does for every operation; all workers of this module are
full syncs, and after it nothing shows the value any more.

`listAll`, `listMonitored` and `listStopped` are the pipelines of the script.
What is peculiar to them and in the model: lines are compared as text, so that
of two lines of one second "stopped" comes first whatever came last.

## Runs

| run | question | answer |
|---|---|---|
| `MCDispatcher` | is the scheduling safe, with signals, crashes, a full queue and shutdown at any point, and does it implement `TaskPool`? | yes |
| `MCDispatcherLive` | is everything that was asked for reaped and logged, and does a shutdown end? | yes, given room in the queue and further input |
| `MCDispatcherLostWakeup` | and without further input? | no: a SIGCHLD between the test of the flag and `select` waits for the next input |
| `MCDispatcherQueueLeft` | does a shutdown do what is queued (comment at `fss_manager.c:628`)? | no |
| `MCDispatcherUnreported` | does it report the workers it waits for (`fss_manager.c:581`, 617)? | no |
| `MCRegistry` | do list, watches, events and tasks agree, whatever watch fails? | yes |
| `MCRegistrySync` | is a sync in progress left alone (`fss_manager.c:490`)? | no, a `return` is missing |
| `MCWorker` | is the shared error queue cleaned up, are reports right when it is not shared, do workers end? | yes |
| `MCFileSync` | is the target the source when all is quiet, and are reports of success true? | yes, but for files that were renamed, became shorter or had overlapping changes |
| `MCConsoleLink` | does the console stay in step, do cancel and shutdown come back once they are heard, do script, status and manager agree, restarts included? | yes, within the bounds that the properties state |
| `MCConsoleBlocks` | does every command come back (`fss_manager.c:415`, 473, `README:44-46`)? | no, two answers in one read block the console |
| `MCWorkerNames` | does a failed worker's report name its file (`fss_manager.c:94`)? | no, when another runs beside it |

Bounds.

- `MCDispatcher`: five tasks, a limit of 2, a queue of 2 and three pids, so
  that all slots are taken, the queue is full and one more task waits in the
  handler; the third pid lets a refill take a pid other than the one just
  freed; batches of three let one handler start, queue and block. Tasks and
  pids are symmetric.
- `MCDispatcherLive`, `...LostWakeup`, `...QueueLeft`, `...Unreported`: three
  tasks, limit 1, two pids, a queue of three, which never fills. No symmetry
  where liveness is checked.
- `MCRegistry`: four directories, a config file whose second line is refused as
  long as the first was accepted, four pairs the console may add (two that fit,
  two that cross the first pair), one directory that comes and goes, one slot
  and a queue of two, one event on its way and one batch being handled, two
  descriptors (a guard stops `Add` beyond them), one crash. Two descriptors
  let a pair be cancelled and watched anew, or a second pair be watched while a
  failed one keeps -1; 1.6 million states.
- `MCWorker`: two workers at a time, directories of up to one entry, room for
  four messages (all that two workers can make), one killed worker.

- `MCFileSync`: one file of up to two blocks (longer, shorter, with a hole),
  two changes, one sync besides the initial one, two workers: enough for two
  full syncs beside each other, for a full sync beside every other operation,
  for a renaming between an event and its worker, and for a change of a file
  that is being copied twice; one million states. What a worker does to one
  file does not depend on another, so one is enough; workers are symmetric.
- `MCConsoleLink`: a configured directory and one that can be added, two
  commands out of seven, two consoles, two managers, three seconds. Two commands
  are enough to be out of step with the second, three seconds to stop and start
  again with distinct stamps. A restart beside a console and leftover workers is
  among the behaviours; 1.1 million states.
- `MCConsoleBlocks`: one console, one manager, one command that is not a sync.

Two larger instances were checked once and take too long to be runs: `FileSync`
with three changes (10.4 million states), and `Registry` with three descriptors
(3.8 million). With two files `FileSync` is out of reach; the proofs cover any
number.

CHECK_DEADLOCK is FALSE in the runs of Dispatcher, Worker, FileSync and
ConsoleLink, where the manager exits, every worker runs once, or all that is
bounded is used up; `MCRegistry` is checked for deadlock.

Fairness. `FairSpec` of Dispatcher: the manager takes a step when it can (it is
a running process; when it sleeps it cannot) and every worker ends some day
(its loops are over finite directories). `BusySpec` adds that, again and again,
`select` has something to read: that is an assumption on the users, not on the
code, and the run without it shows that the code depends on it. `FairSpec` of
Worker: a process that is not asleep in `msgsnd` goes on. `FairSpec` of
ConsoleLink: a console that has something to read reads it, the manager goes on
with answers and its shutdown, and workers end; it need not reap them in time,
and users need not do anything. There is no fairness of `Receive` in it, for the
code has none: an event is always handled before a command (`if` / `else if` at
`fss_manager.c:776-779`), so that a busy directory starves the console, and the
manager may sleep for ever in `msgsnd` (`queue.c:34`). `HeardSpec` adds weak
fairness of `Receive`: that is an assumption on the users of the directories
and on the room in the queue, not on the code, and `ShortAnswersReturn` and the
refuted `ConsoleReturns` are checked under it. `FileSync` has no liveness: that
events become workers and workers are reaped is the matter of `Dispatcher`.

Not claimed by `ConsoleLink`: anything of answers after a sync, whose "Sync
completed" comes when it may; that add, status or sync come back, or a sync of
an unknown directory, which has no answer; that a command is ever heard (see
fairness), which `ShortAnswersReturn` assumes. `InStep` and `ShortAnswersReturn`
say what is left.

Not claimed by `Dispatcher`: that the manager is never asleep for ever in `msgsnd`. With a
queue of one command `FinishedIsReaped` and `AskedIsLogged` fail, since the only
process that takes from the queue sleeps because it is full.
`LostOnlyAtFullQueue` says what can be said: nothing is lost in another way.
Equally, `WorkersEnd` needs an error queue with room, and `SourceOnList` and the
pool of `Registry` end with the first crash, after which commands of another
life may be queued. `add d d` is accepted although `README:21-23` rules a
directory out that is already in the list: the code compares new directories
with listed ones only, and `NoDirTwice` says just that. A pair that is added, or
added again, while `inotify_add_watch` fails becomes active and is not watched
(`README:36-38` says monitoring starts again). `ActiveIsWatched` leaves out the
pairs with descriptor -1 and the directories that vanish: it says that an active
pair that got a descriptor is watched under it.

## Proofs

Every invariant and every action property of a passing run is a theorem of its
specification; `PROJECT.json` lists them under "theorems". Each component has
one inductive invariant (two for the modules with two proof modules), lemmas
that say what the module's operators do, one lemma per action or group of
actions that keeps the invariant, and theorems that read the properties off.

| proof module | theorems | of |
|---|---|---|
| `DispatcherProofs` | `TypeCorrect`, `Bookkeeping`, `NoIdleSlot`, `FlagKept`, `SecondLoopIdle`, `Limit`, `Refinement` | `TypeOK`, `BookkeepingExact`, `WorkConserving`, `ZombieFlagged`, `NothingLeftToReap`, `LimitRespected`, `PoolSpec` |
| `DispatcherTaskProofs` | `Once`, `LossOnlyAtFullQueue` | `TaskOnce`, `LostOnlyAtFullQueue` |
| `RegistryProofs` | `TypeCorrect`, `DirsOnce`, `NoWatchLeaked`, `ActiveWatched`, `EventsFindTheirPair`, `ReapFindsPair`, `Refinement`, `EventBecomesTask` | `TypeOK`, `NoDirTwice`, `WatchLeadsToPair`, `ActiveIsWatched`, `EventFindsItsPair`, `SourceOnList`, `PoolSpec`, `LiveEventBecomesTask` |
| `WorkerProofs` | `TypeCorrect`, `QueueRemoved`, `NoOldMessages`, `OwnErrorsReported` | `TypeOK`, `NoQueueLeft`, `MessagesOfTheLiving`, `OwnErrors` |
| `FileSyncProofs` | `TypeCorrect`, `Convergence`, `ReportsTrue`, `EndsInSync` | `TypeOK`, `Converged`, `ReportIsTrue`, and a stronger form of it |
| `ConsoleLinkProofs` | `TypeCorrect`, `NoAnswerLeft` | `TypeOK`, `InStep` |
| `ConsoleLogProofs` | `ListsTrue`, `ListsComplete`, `StatusAgrees` | `ListsAreTrue`, `ListsPartition`, `StatusAgreesWithListAll` |

### What is assumed

The theorems hold for all constants that satisfy the ASSUMEs of the modules,
and TLC evaluates these on every run. They say that markers (`NoTask`, `Absent`,
"ALL", `NoCommand`) are none of the values they mark the absence of; that
processes (`Pids`, `Slots`, the workers of `FileSync`) and the configured
directories are finite in number; and that bounds are numbers. Three of them
are about bounds that are the models' and not the code's: `Len(Config) <=
MaxWatch` (the bound on descriptors must leave room for the config file, for
`Add` is stopped by it and reading the config file is not), `MaxStarts > 0` and
`MaxBlocks > 0`. The bounds on changes, syncs, events, sessions, crashes and
seconds are any number, so the theorems are about runs of any length.
`WorkerLimit` may be any integer: at zero and below nothing is ever started
and everything waits.

### Dispatcher

`BookkeepingExact` by itself is not inductive: it speaks of the main loop only,
and the shutdown starts from its state, then lets children vanish while their
entries stay. `BooksTied` says what remains true throughout: children are
listed, and the count is the list's length. `CountBounded` keeps the count
within the limit (or zero, for a limit below zero), which the refill after a
reaped worker needs. `AsleepWhere` says in which system calls the manager can
be asleep. `BeginAdds`, `CollectDrops`, `CollectReplaces` and `CollectNothing`
say what starting and collecting do to list, children and cardinalities. The
refinement uses all of it: a slot of the pool is an entry of the worker list,
so `Cardinality(Busy)` is the count, and a finished worker whose slot is freed
leaves an empty backlog behind because the count was within the limit.

`DispatcherTaskProofs` adds where each task is. `TaskOnce` counts a
concatenation and a set; `OncePlaced` says the same place by place, so that
every action moves one task from one place to another (`OnceIsPlaced` shows the
two equivalent). `TodoHandled` and `AsleepFull` are what `LostOnlyAtFullQueue`
rests on: an input finds no task of an earlier handler left, and a manager that
sleeps in a handler sleeps on a queue that stays full while it does.

### Registry

That a descriptor leads to one pair rests on the kernel never giving one out
again. So all descriptors that are kept anywhere, in the list (the stale ones
of cancelled pairs too), at a watch or in an event, are older than the next one
(`KeptIsOld`, `EventIsOfPair`), and those in the list differ
(`OneDescriptorEach`). `IgnoredIsGone` says that IN_IGNORED comes after its
watch is gone, so that no event of a pair that is still watched is skipped,
which `LiveEventBecomesTask` needs. `TypeCorrect` says that pairs, descriptors,
events and tasks are well-formed and no more: after a restart with an old queue
a task need not be a listed pair's. `WaitingIsFull` is the pool's invariant, and
`Refinement` uses it to show that a freed slot is refilled by the oldest command
or that none waits. Before the first crash each step is one of the pool's or
invisible to it; the crash closes the pool.

### Worker

`OwnErrors` speaks of a worker that has the queue under its key to itself. To
see that nobody else drains or removes that queue, every queue that exists must
have been opened by somebody (`QueueWasOpened`) and every running worker must
have opened one that was made (`QueueOfTheRunning`). `OnlyOwn` then counts: what
the worker has read and what is still in the queue are all its messages, and
nobody else's. `NoQueueLeft` and `MessagesOfTheLiving` hold together as long as
nobody is killed, each in need of the other.

### FileSync

`Converged` says nothing until all is quiet, so its invariant says at every
moment how the files will come to agree.

- `PendingAgrees`: queue and events, in this order, end for each file that was
  not renamed (`Agrees`) with what the users did last to it: a pending deletion of a file that is there is
  followed by its creation, and a pending creation or modification of a file
  that is not there by its deletion.
- `Minds`: what a worker knows about a file that did not change since it began,
  or since `readdir` returned it late.
- `Company`, for a file that is neither renamed nor tainted: two workers at it never conflict,
  one for which it is stale is alone with it and a task about it is ahead.
- `Mends`: if nothing that is ahead recreates or deletes the file, then either
  a worker will renew the target or the target is there and not too long (a
  MODIFIED copies over it and does not truncate it); and if nothing at all is
  ahead, every block is either right or a worker is yet to write it.

With a weaker rule for `tainted`, which lets a file be
shortened, exactly the step for `Fits` in `RepairsChange` fails. `moved` is
given up only for files that nothing pending is about (`MovedAt`,
`NoneAwaited`): a full sync that begins alone makes `Agrees` true of no other.
A renaming keeps everything that the invariant says of the other files
(`RepairsRenamed`), for the workers that copy them do not look at it.
`EndsInSync` came out of the proof of
`ReportIsTrue`, which did not use that the worker reports no error or that its
files did not change: a call that fails here fails because of a change, and
then something about that file is still to come, unless it was renamed. What fails for other reasons (no space,
no permission) is in `Worker`, where every copy may fail.

### ConsoleLink and the queries

`InStep` says that at the prompt nothing is on its way. `Following` tells where
a command can be in between: sent (`CommandSent`), in the manager's hands and
in the FIFO with no more answers left than the console has reads, the one that
ends the reading last (`CommandAnswered`), or a shutdown (`CommandEnding`).
`SameFifos` adds that a console in step has the FIFOs of the manager that runs.
`TypeOK` bounds the workers' numbers by the commands, which needs `NumbersFit`:
each command makes one numbered worker at most.

`ConsoleLogProofs` relates the log to the manager. A pair changes when
the command is received, and its line in the log comes with an answer, later, so
that for a while they disagree; `Midway` says for which directory. `LatestIsSo` says that of the
latest lines of any other directory one says what is so, which `ListsAreTrue`
turns into the answer of the queries where seconds do not collide.
`WorkersKnown` is why every row of `listAll` is in one of the two other lists,
and `SyncsKnown` why `status` agrees with it: every directory that the log
reports is known to the manager that runs, for its log began with it, and the
last sync of each is that of its latest report. `LatestLine`, `FirstLine` and
`OneLastWord` say what the pipelines select of any log.

### Only model-checked

The liveness properties `FinishedIsReaped`, `AskedIsLogged`, `ShutdownCompletes`,
`WorkersEnd` and `ShortAnswersReturn`: they depend on fairness and so on ENABLED,
which is out of the prover's reach. The invariants that they use (an unset flag
means nothing to reap, no command waits beside a free slot, answers never
exceed the reads) are among the theorems. The runs that expect a violation show
behaviours and have nothing to prove. Each inductive invariant was checked with
TLC on the instance of the component's main run.

## Not modelled

- Lengths: reports beyond 1024 bytes or a pipe's capacity, commands beyond 511
  bytes, answers beyond 1024 bytes in one read, file names with spaces (they
  shift the fields of a queued command).
- Modes of files, and file descriptors: `creat` at `worker.c:139` leaks one for
  every file of a full sync. Directories inside a source directory, links, and
  users that write to a target.
- Overflow of inotify's queue; two names of one directory; changes of a source
  file that inotify does not tell of in this directory (memory mappings, writes
  through a hard link elsewhere). For them nothing is claimed.
- Error counts of pairs, which only `status` shows.
- The console at the end of its input, where it sends the last command again
  (the commands of `ConsoleLink` are free, so the same one again is among them);
  what it prints and writes to its own log.
- The argument checks of the script, and names that are regular expressions.
- `make_pair` and `make_worker_info` (`utils.c:19-30`, `60-69`) have no
  `return`; the build that was observed happens to return the new struct, and
  the models take that outcome.
- The build files, container, workflows and sample logs.

## Plan

Done: all modules, and theorems for every safety property of the passing runs.
What could be added:

1. Theorems on `TaskPool` itself (the backlog is served in order, no idle slot),
   which `Dispatcher` and `Registry` then have through their refinements.
2. Step lemmas behind the liveness properties: that a worker's remaining work
   and the answers to come decrease with each step, as far as that is safety.
3. Shorter proofs where one lemma per action repeats the same case analysis
   (`FileSyncProofs`, `ConsoleLogProofs`).
