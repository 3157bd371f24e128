------------------------------ MODULE FileSync ------------------------------
(***************************************************************************)
(* The files of one pair: a source directory that its users change, the    *)
(* target directory that the workers of this pair write, and what lies     *)
(* between them: inotify's events, the manager's queue of commands, and    *)
(* workers that run beside each other.  One step of a worker is one system *)
(* call on the files, so users and other workers act in between.           *)
(*                                                                         *)
(* A file is a sequence of blocks, a block being what one read of          *)
(* copy_file returns.  Files are made, removed, written and renamed, with  *)
(* one directory entry each: no writes through another link or a memory    *)
(* mapping, of which inotify says nothing here.  The directories exist,    *)
(* nothing but the workers writes the target, reads and writes do not      *)
(* fail (module Worker has the failures and what is reported of them), and *)
(* inotify's queue does not overflow.                                      *)
(*                                                                         *)
(* A definition marked as a slip is no part of the specification: it is    *)
(* the definition after it with one plausible mistake.                     *)
(***************************************************************************)
EXTENDS Integers, Sequences, FiniteSets

CONSTANTS Files,        \* names in the two directories
          Absent,       \* what a directory has under a name it does not hold
          Workers,      \* as many as may run at a time: worker_limit
          MaxBlocks,    \* bound: blocks of a file
          MaxChanges,   \* bound: changes of the source
          MaxSyncs      \* bound: sync commands

\* Block 0 is a hole, block 1 is from before the start, block n+1 was written
\* by the nth change.
Blocks   == 0..(MaxChanges + 1)
Contents == UNION {[1..n -> Blocks] : n \in 0..MaxBlocks}

ASSUME FileSyncAssumption == /\ "ALL" \notin Files
                             /\ Absent \notin Contents
                             /\ Workers # {} /\ IsFiniteSet(Workers)
                             /\ MaxBlocks \in Nat \ {0}
                             /\ MaxChanges \in Nat
                             /\ MaxSyncs \in Nat

VARIABLES source, target,  \* the directories: the contents of every name
          events,          \* inotify's events, not read yet
          queue,           \* the manager's queue of commands
          mem,             \* the memory of every worker
          changes, syncs,  \* how many there have been
          moved, tainted   \* history: see Converged

vars == <<source, target, events, queue, mem, changes, syncs, moved, tainted>>

Operations == {"FULL", "ADDED", "MODIFIED", "DELETED"}

Task(op, name) == [op |-> op, name |-> name]
FullSync       == Task("FULL", "ALL")

Present(dir) == {f \in Files : dir[f] # Absent}

-----------------------------------------------------------------------------
(***************************************************************************)
(* The memory of a worker: its operation, the entries it has yet to work   *)
(* on, the file it copies, its offset there and the block in its buffer.   *)
(* fresh has the entries made in the source since a full sync opened it,   *)
(* which readdir may still return; kept holds what a source file contains  *)
(* that lost its name to no file or another one once the worker had it     *)
(* open; and linked says that the target file it has open is still the one *)
(* of that name.  ok: nothing failed.  stale is history: the files that    *)
(* changed since it began, or since readdir returned them late.            *)
(***************************************************************************)
Idle == [pc |-> "idle", op |-> "none", name |-> "ALL", left |-> {}, file |-> "ALL",
         pos |-> 0, block |-> 0, fresh |-> {}, kept |-> Absent, linked |-> FALSE,
         ok |-> TRUE, stale |-> {}]

\* main of worker.c: FULL begins with the target's entries, DELETED unlinks
\* one file, ADDED and MODIFIED copy one.
Begun(task) ==
    [Idle EXCEPT !.op = task.op, !.name = task.name,
                 !.pc = CASE task.op = "FULL"    -> "scan"
                          [] task.op = "DELETED" -> "unlink"
                          [] OTHER               -> "next",
                 !.left = IF task.op = "FULL" THEN {} ELSE {task.name}]

Active == {w \in Workers : mem[w].pc # "idle"}

\* The files that a worker may still touch, or has its report to make of.
Reach(m) == {f \in Files : /\ m.pc \notin {"idle", "done"}
                           /\ IF m.op = "FULL"
                              THEN m.pc \in {"scan", "unlink"} \/ f \in m.left \union {m.file}
                              ELSE f = m.name}

\* Two operations on one file whose order matters though the file rests.
Conflict(op1, op2) == /\ "DELETED" \in {op1, op2}
                      /\ {op1, op2} \intersect {"ADDED", "MODIFIED"} # {}

\* The files that an event or a command is about.
Awaited == {events[i].name : i \in DOMAIN events} \union {queue[i].name : i \in DOMAIN queue}

\* What history has to say when a worker begins a task: a full sync that
\* begins alone will mend everything, but of the renamed files only those
\* about which nothing older is still to come; a worker that joins others at
\* a file may spoil it when the file has changed under them.
BeginsAlone(task) == task.op = "FULL" /\ \A v \in Workers : Reach(mem[v]) = {}

MovedAt(task) == IF BeginsAlone(task) THEN moved \intersect Awaited ELSE moved

TaintAt(task) ==
    IF BeginsAlone(task) THEN {}
    ELSE tainted \union
         {f \in Reach(Begun(task)) :
            \E v \in Workers : /\ f \in Reach(mem[v])
                               /\ f \in mem[v].stale \/ Conflict(task.op, mem[v].op)}

\* The manager has just enqueued the initial full sync of the pair.
Init == /\ source \in [Files -> {Absent, <<1>>}]
        /\ target \in [Files -> {Absent, [i \in 1..MaxBlocks |-> 0]}]
        /\ events = << >>
        /\ queue = << >>
        /\ \E w \in Workers : mem = [v \in Workers |-> IF v = w THEN Begun(FullSync) ELSE Idle]
        /\ changes = 0
        /\ syncs = 0
        /\ moved = {}
        /\ tainted = {}

-----------------------------------------------------------------------------
(***************************************************************************)
(* The users of the source directory.                                      *)
(***************************************************************************)

\* The kernel queues an event; one like the last unread one may be merged
\* with it.
Notify(op, f) ==
    \/ events' = Append(events, Task(op, f))
    \/ /\ events # << >>
       /\ events[Len(events)] = Task(op, f)
       /\ UNCHANGED events

\* Something else stands under the name f, or the file of that name has other
\* contents.  Workers go on with the file that they have open.
Change(f, contents, op) ==
    /\ changes < MaxChanges
    /\ changes' = changes + 1
    /\ source' = [source EXCEPT ![f] = contents]
    /\ mem' = [w \in Workers |->
                 LET m == mem[w]
                     open == m.file = f /\ m.pc \in {"target", "read", "write"}
                     listing == m.op = "FULL" /\ m.pc \notin {"scan", "unlink", "done"}
                 IN  [m EXCEPT
                        !.kept = IF open /\ op # "MODIFIED" /\ @ = Absent THEN source[f] ELSE @,
                        !.fresh = IF listing /\ op = "ADDED" THEN @ \union {f} ELSE @,
                        !.stale = IF m.pc \in {"idle", "done"} THEN @ ELSE @ \union {f}]]
    /\ UNCHANGED <<target, queue, syncs>>

\* A change that makes an event.
Noticed(f, contents, op) ==
    /\ Change(f, contents, op)
    /\ Notify(op, f)
    /\ tainted' = IF \/ Cardinality({w \in Workers : f \in Reach(mem[w])}) > 1
                     \/ op = "MODIFIED" /\ Len(contents) < Len(source[f])
                  THEN tainted \union {f} ELSE tainted
    /\ UNCHANGED moved

Create(f) == source[f] = Absent /\ Noticed(f, << >>, "ADDED")
Remove(f) == source[f] # Absent /\ Noticed(f, Absent, "DELETED")

\* A prefix stays and new blocks follow: an append, a truncation, both.
Write(f) ==
    /\ source[f] # Absent
    /\ \E keep \in 0..Len(source[f]) : \E more \in 0..(MaxBlocks - keep) :
          Noticed(f, SubSeq(source[f], 1, keep) \o [i \in 1..more |-> changes + 2], "MODIFIED")

\* Files are renamed, into the directory (over another file, perhaps) and out
\* of it; within it, one name goes and one comes.  The manager asks for no
\* event of that.
Renamed(f, contents, op) == /\ Change(f, contents, op)
                            /\ moved' = moved \union {f}
                            /\ UNCHANGED <<events, tainted>>

MoveIn(f)  == \E n \in 0..MaxBlocks : Renamed(f, [i \in 1..n |-> changes + 2], "ADDED")
MoveOut(f) == source[f] # Absent /\ Renamed(f, Absent, "DELETED")

-----------------------------------------------------------------------------
(***************************************************************************)
(* The manager.                                                            *)
(***************************************************************************)

\* enqueue_worker: start a worker, or queue the command when all run.
enqueue_worker(task) ==
    IF Active # Workers
    THEN /\ \E w \in Workers \ Active : mem' = [mem EXCEPT ![w] = Begun(task)]
         /\ moved' = MovedAt(task)
         /\ tainted' = TaintAt(task)
         /\ UNCHANGED queue
    ELSE /\ queue' = Append(queue, task)
         /\ UNCHANGED <<mem, moved, tainted>>

\* sync_notified_dir, one event.
Event ==
    /\ events # << >>
    /\ enqueue_worker(Head(events))
    /\ events' = Tail(events)
    /\ UNCHANGED <<source, target, changes, syncs>>

\* The console's sync command.
Sync ==
    /\ syncs < MaxSyncs
    /\ syncs' = syncs + 1
    /\ enqueue_worker(FullSync)
    /\ UNCHANGED <<source, target, events, changes>>

\* A finished worker is reaped and the oldest command takes its place.
Reap(w) ==
    /\ mem[w].pc = "done"
    /\ IF queue = << >>
       THEN /\ mem' = [mem EXCEPT ![w] = Idle]
            /\ UNCHANGED <<queue, moved, tainted>>
       ELSE /\ mem' = [mem EXCEPT ![w] = Begun(Head(queue))]
            /\ queue' = Tail(queue)
            /\ moved' = MovedAt(Head(queue))
            /\ tainted' = TaintAt(Head(queue))
    /\ UNCHANGED <<source, target, events, changes, syncs>>

-----------------------------------------------------------------------------
(***************************************************************************)
(* The workers.                                                            *)
(***************************************************************************)
Becomes(w, m) == /\ mem' = [mem EXCEPT ![w] = m]
                 /\ UNCHANGED <<source, events, queue, changes, syncs, moved, tainted>>

\* sync_directories opens the target: what is there will be read, ...
ScanTarget(w) ==
    /\ mem[w].pc = "scan"
    /\ Becomes(w, [mem[w] EXCEPT !.pc = "unlink", !.left = Present(target)])
    /\ UNCHANGED target

\* ... unless it goes before it is read; and readdir may return entries that
\* were made since.
ReadTarget(w) ==
    /\ mem[w].pc = "unlink" /\ mem[w].op = "FULL"
    /\ \E f \in Files :
          \/ /\ target[f] # Absent /\ f \notin mem[w].left
             /\ Becomes(w, [mem[w] EXCEPT !.left = @ \union {f}])
          \/ /\ target[f] = Absent /\ f \in mem[w].left
             /\ Becomes(w, [mem[w] EXCEPT !.left = @ \ {f}])
    /\ UNCHANGED target

\* delete_file: unlink fails when the file is gone.  Workers that have the
\* file open go on with a file that has no name.
Unlink(w) ==
    /\ mem[w].pc = "unlink"
    /\ mem[w].left # {}
    /\ \E f \in mem[w].left :
          /\ target' = [target EXCEPT ![f] = Absent]
          /\ mem' = [v \in Workers |->
                IF v = w THEN [mem[w] EXCEPT !.left = @ \ {f},
                                             !.ok = @ /\ target[f] # Absent]
                ELSE IF mem[v].file = f THEN [mem[v] EXCEPT !.linked = FALSE]
                ELSE mem[v]]
    /\ UNCHANGED <<source, events, queue, changes, syncs, moved, tainted>>

\* Everything is unlinked: DELETED is done, FULL opens the source.
Unlinked(w) ==
    /\ mem[w].pc = "unlink"
    /\ mem[w].left = {}
    /\ Becomes(w, IF mem[w].op = "DELETED" THEN [mem[w] EXCEPT !.pc = "done"]
                  ELSE [mem[w] EXCEPT !.pc = "next", !.left = Present(source)])
    /\ UNCHANGED target

\* An entry of the source goes before it is read, ...
PassGone(w) ==
    /\ mem[w].pc = "next" /\ mem[w].op = "FULL"
    /\ \E f \in mem[w].left :
          /\ source[f] = Absent
          /\ Becomes(w, [mem[w] EXCEPT !.left = @ \ {f}])
    /\ UNCHANGED target

\* ... or readdir returns one that was made since the source was opened.  Like
\* a worker that begins, it may spoil a file that has changed under another.
ReadFresh(w) ==
    /\ mem[w].pc = "next" /\ mem[w].op = "FULL"
    /\ \E f \in mem[w].fresh :
          /\ source[f] # Absent
          /\ mem' = [mem EXCEPT ![w].left = @ \union {f}, ![w].fresh = @ \ {f},
                               ![w].stale = @ \ {f}]
          /\ tainted' = IF \E v \in Workers \ {w} : f \in Reach(mem[v]) /\ f \in mem[v].stale
                        THEN tainted \union {f} ELSE tainted
    /\ UNCHANGED <<source, target, events, queue, changes, syncs, moved>>

\* A slip: the file is created for FULL only.
CreateForFullOnly(w) ==
    /\ mem[w].pc = "next"
    /\ \E f \in mem[w].left :
          /\ Becomes(w, [mem[w] EXCEPT !.pc = "source", !.file = f, !.left = @ \ {f}])
          /\ target' = IF mem[w].op # "FULL" THEN target
                       ELSE [target EXCEPT ![f] = << >>]

\* add_or_modify_file: creat empties the target file or makes it.
AddOrModify(w) ==
    /\ mem[w].pc = "next"
    /\ \E f \in mem[w].left :
          /\ Becomes(w, [mem[w] EXCEPT !.pc = "source", !.file = f, !.left = @ \ {f}])
          /\ target' = IF mem[w].op = "MODIFIED" THEN target
                       ELSE [target EXCEPT ![f] = << >>]

\* copy_file returns to the loop over the entries.
Return(w, ok) ==
    /\ Becomes(w, [mem[w] EXCEPT !.pc = "next", !.file = "ALL", !.pos = 0, !.block = 0,
                                 !.kept = Absent, !.linked = FALSE, !.ok = @ /\ ok])
    /\ UNCHANGED target

\* copy_file: open the source, ...
OpenSource(w) ==
    /\ mem[w].pc = "source"
    /\ IF source[mem[w].file] = Absent
       THEN Return(w, FALSE)
       ELSE Becomes(w, [mem[w] EXCEPT !.pc = "target"]) /\ UNCHANGED target

\* ... the target, neither made nor emptied by that, ...
OpenTarget(w) ==
    /\ mem[w].pc = "target"
    /\ IF target[mem[w].file] = Absent
       THEN Return(w, FALSE)
       ELSE /\ Becomes(w, [mem[w] EXCEPT !.pc = "read", !.linked = TRUE])
            /\ UNCHANGED target

\* A slip: only the first block is copied.
ReadOnce(w) ==
    /\ mem[w].pc = "read"
    /\ LET input == IF mem[w].kept = Absent THEN source[mem[w].file] ELSE mem[w].kept
       IN  IF mem[w].pos = 0 /\ input # << >>
           THEN /\ Becomes(w, [mem[w] EXCEPT !.pc = "write", !.block = input[1]])
                /\ UNCHANGED target
           ELSE Return(w, target[mem[w].file] # Absent)

\* ... read until there is nothing more; then chmod needs the name again, ...
Read(w) ==
    /\ mem[w].pc = "read"
    /\ LET input == IF mem[w].kept = Absent THEN source[mem[w].file] ELSE mem[w].kept
       IN  IF mem[w].pos < Len(input)
           THEN /\ Becomes(w, [mem[w] EXCEPT !.pc = "write", !.block = input[mem[w].pos + 1]])
                /\ UNCHANGED target
           ELSE Return(w, target[mem[w].file] # Absent)

\* A slip: the target is opened with O_APPEND.
AppendBlock(contents, pos, block) == Append(contents, block)

\* contents with a block written at an offset, behind a hole if need be.
Overwrite(contents, pos, block) ==
    [i \in 1..(IF pos < Len(contents) THEN Len(contents) ELSE pos + 1) |->
        IF i = pos + 1 THEN block ELSE IF i <= Len(contents) THEN contents[i] ELSE 0]

\* ... and write, into the file of that name or into one without a name.
WriteBlock(w) ==
    /\ mem[w].pc = "write"
    /\ target' = IF mem[w].linked
                 THEN [target EXCEPT ![mem[w].file] = Overwrite(@, mem[w].pos, mem[w].block)]
                 ELSE target
    /\ Becomes(w, [mem[w] EXCEPT !.pc = "read", !.pos = @ + 1, !.block = 0])

\* All entries are copied: the report is written and the worker ends.
Finish(w) ==
    /\ mem[w].pc = "next"
    /\ mem[w].left = {}
    /\ Becomes(w, [mem[w] EXCEPT !.pc = "done", !.fresh = {}])
    /\ UNCHANGED target

Work(w) == \/ ScanTarget(w)
           \/ ReadTarget(w)
           \/ Unlink(w)
           \/ Unlinked(w)
           \/ PassGone(w)
           \/ ReadFresh(w)
           \/ AddOrModify(w)
           \/ OpenSource(w)
           \/ OpenTarget(w)
           \/ Read(w)
           \/ WriteBlock(w)
           \/ Finish(w)

Users   == \E f \in Files : Create(f) \/ Remove(f) \/ Write(f) \/ MoveIn(f) \/ MoveOut(f)
Manager == Event \/ \E w \in Workers : Reap(w)

Next == \/ Users
        \/ Sync
        \/ Manager
        \/ \E w \in Workers : Work(w)

Spec == Init /\ [][Next]_vars

-----------------------------------------------------------------------------
(***************************************************************************)
(* Types: no file grows beyond what a source file can be, and offsets stay *)
(* within it.                                                              *)
(***************************************************************************)
Memory == [pc : {"idle", "scan", "unlink", "next", "source", "target", "read", "write", "done"},
           op : Operations \union {"none"}, name : Files \union {"ALL"},
           left : SUBSET Files, file : Files \union {"ALL"}, pos : 0..MaxBlocks,
           block : Blocks, fresh : SUBSET Files, kept : Contents \union {Absent}, linked : BOOLEAN,
           ok : BOOLEAN, stale : SUBSET Files]

TypeOK == /\ source \in [Files -> Contents \union {Absent}]
          /\ target \in [Files -> Contents \union {Absent}]
          /\ events \in Seq([op : Operations \ {"FULL"}, name : Files])
          /\ queue \in Seq([op : Operations, name : Files \union {"ALL"}])
          /\ mem \in [Workers -> Memory]
          /\ changes \in 0..MaxChanges
          /\ syncs \in 0..MaxSyncs
          /\ moved \subseteq Files
          /\ tainted \subseteq Files

Quiet == events = << >> /\ queue = << >> /\ Active = {}

(***************************************************************************)
(* Once everything is quiet the target holds what the source holds, file   *)
(* by file, whatever was in it before, whatever changed while it was being *)
(* copied, and whichever workers ran beside each other; but for two kinds  *)
(* of files.                                                               *)
(*   moved: files renamed into the directory, out of it or within it.  The *)
(* watches ask for IN_CREATE, IN_MODIFY and IN_DELETE only                 *)
(* (fss_manager.c:270 and 400), so no worker hears of them, and the target *)
(* stays as it is until a full sync that begins alone, with nothing older  *)
(* about the file to come after it.                                        *)
(*   tainted: files that became shorter (MODIFIED does not truncate the    *)
(* target, worker.c:79), that changed while two workers were at them or    *)
(* between the beginnings of two, or that one worker deletes while another *)
(* copies them (fss_manager.c:163 starts workers without a look at what    *)
(* the others do); until a full sync that begins alone.                    *)
(* Not every such file ends up wrong.  Of files that change in ways this   *)
(* module does not have (see its head) nothing is said.                    *)
(***************************************************************************)
Converged == Quiet => \A f \in Files \ (moved \union tainted) : target[f] = source[f]

(***************************************************************************)
(* A worker's report tells the truth at the moment it is made: what it was *)
(* to do and says it did is so, for every file that its users have left    *)
(* alone since it began, no other worker is at, no event or command is     *)
(* about, and which is neither renamed nor tainted; and for these files a  *)
(* full sync has done its work even where it reports errors.               *)
(***************************************************************************)
ReportIsTrue ==
    [][\A w \in Workers :
          LET m == mem[w]
              resting == {f \in Files \ (m.stale \union moved \union tainted \union Awaited) :
                            \A v \in Workers \ {w} : f \notin Reach(mem[v])}
          IN  mem'[w].pc = "done" /\ m.pc # "done" =>
              /\ m.ok /\ m.op = "DELETED" /\ m.name \in resting => target[m.name] = Absent
              /\ m.ok /\ m.op \in {"ADDED", "MODIFIED"} /\ m.name \in resting
                 => target[m.name] = source[m.name]
              /\ m.op = "FULL" => \A f \in resting : target[f] = source[f]]_vars
=============================================================================
