----------------------------- MODULE ConsoleLink -----------------------------
(***************************************************************************)
(* The console and the manager, and the two FIFOs between them.  A command *)
(* goes through fss_in, its answers come back through fss_out, one write   *)
(* each; the console counts its reads and not the answers, and one read    *)
(* takes all that is there.  With them, as far as it can be told from the  *)
(* console: the pairs, the workers of full syncs, the manager's log, and   *)
(* the ends of both processes.                                             *)
(*                                                                         *)
(* A directory always comes with the same target (module Registry has the  *)
(* other cases), and worker_limit is not reached (module Dispatcher has    *)
(* the queue).  No message is cut: the FIFO never holds more than the 1024 *)
(* bytes of a read.                                                        *)
(*                                                                         *)
(* A definition marked as a slip is no part of the specification: it is    *)
(* the definition after it with one plausible mistake.                     *)
(***************************************************************************)
EXTENDS Integers, Sequences, FiniteSets, ScriptQueries

CONSTANTS Dirs,          \* source directories
          Config,        \* those of the config file
          Commands,      \* what the user may type, of Command below
          NoCommand,
          MaxCommands,   \* bound: commands
          MaxSessions,   \* bound: consoles, one after the other
          MaxStarts,     \* bound: managers, one after the other
          MaxClock       \* bound: seconds

ASSUME ConsoleLinkAssumption ==
    /\ Config \subseteq Dirs /\ IsFiniteSet(Config)
    /\ Commands \subseteq [op : {"add", "cancel", "status", "sync", "shutdown"}, dir : Dirs]
    /\ NoCommand \notin Commands
    /\ {MaxCommands, MaxSessions, MaxStarts, MaxClock} \subseteq Nat /\ MaxStarts > 0

VARIABLES cpc, cmd, reads,   \* console: where it is, its command, its reads left
          fss_in, fss_out,   \* the FIFOs: commands, and the first words of answers
          named,             \* the FIFOs made last have their names
          cut,               \* fss_in and fss_out are those of an earlier manager, ...
          orphans,           \* ... which these of its workers have open
          mpc, handling,     \* manager: where it is, the command it handles
          todo,              \* ... and the answers it has yet to write
          pairs, lastSync,   \* what the manager knows of each directory
          workers,           \* its list of workers
          log,               \* the lines of the file that has the log's name
          linked,            \* the manager's log file has that name
          clock,
          commands, sessions, starts,  \* how many there have been
          inStep             \* history: see InStep

console == <<cpc, cmd, reads>>
links   == <<named, cut, orphans>>
fifos   == <<fss_in, fss_out, links>>
memory  == <<pairs, lastSync>>
manager == <<mpc, handling, todo, memory>>
counts  == <<commands, sessions, starts>>
file    == <<log, linked>>
vars == <<console, fifos, manager, workers, file, clock, counts, inStep>>

\* The directory of a shutdown is of no account.
Command(op, dir) == [op |-> op, dir |-> dir]

Words == {"Already", "Added", "Monitoring", "Directory", "Status", "details", "Sync",
          "Syncing", "Shutting", "Waiting", "Processing", "Manager"}

\* A worker bears the first number that no other has.
FreeNumber == CHOOSE n \in 1..(Cardinality(workers) + 1) :
                 /\ \A w \in workers : w.n # n
                 /\ \A k \in 1..(n - 1) : \E w \in workers : w.n = k

-----------------------------------------------------------------------------
(***************************************************************************)
(* The manager's start: of the pairs in the config file the log says       *)
(* monitoring started, and a full sync of each begins.  These workers are  *)
(* forked before the FIFOs are opened and have number 0; later ones        *)
(* inherit both FIFOs.                                                     *)
(***************************************************************************)
Worker(n, dir, asked) == [n |-> n, dir |-> dir, report_to_log |-> asked, done |-> FALSE]

Started(d) == Line(clock, "started", d)

\* A line is written: it can be read if the file still has its name.
Logged(line) == /\ log' = IF linked THEN log \union {line} ELSE log
                /\ UNCHANGED linked

Init == /\ cpc = "off" /\ cmd = NoCommand /\ reads = 0
        /\ fss_in = << >> /\ fss_out = << >>
        /\ named = TRUE /\ cut = FALSE /\ orphans = {}
        /\ mpc = "select" /\ handling = NoCommand /\ todo = << >>
        /\ pairs = [d \in Dirs |-> IF d \in Config THEN "active" ELSE "unknown"]
        /\ clock = 0
        /\ lastSync = [d \in Dirs |-> clock]
        /\ workers = {Worker(0, d, FALSE) : d \in Config}
        /\ log = {Started(d) : d \in Config} /\ linked = TRUE
        /\ commands = 0 /\ sessions = 0 /\ starts = 1
        /\ inStep = FALSE

\* A slip: the log is opened for appending, as the console's own is.
OldAndNewLog == log \union {Started(d) : d \in Config}

\* The log is emptied, or made anew.
NewLog == {Started(d) : d \in Config}

\* Another manager, whatever is left of the last one.  It removes the FIFOs
\* and makes them anew: a console that has the old ones keeps them, and so
\* do the workers of their manager; no command reaches the new one before a
\* console connects to it.
Start ==
    /\ mpc = "gone"
    /\ starts < MaxStarts
    /\ starts' = starts + 1
    /\ mpc' = "select" /\ handling' = NoCommand /\ todo' = << >>
    /\ named' = TRUE /\ cut' = (cpc # "off")
    /\ IF cut'
       THEN /\ orphans' = IF cut THEN orphans ELSE {w.n : w \in workers} \ {0}
            /\ UNCHANGED <<fss_in, fss_out>>
       ELSE fss_in' = << >> /\ fss_out' = << >> /\ orphans' = {}
    /\ pairs' = [d \in Dirs |-> IF d \in Config THEN "active" ELSE "unknown"]
    /\ lastSync' = [d \in Dirs |-> clock]
    /\ workers' = {Worker(0, d, FALSE) : d \in Config}
    /\ log' = NewLog /\ linked' = TRUE
    /\ inStep' = FALSE
    /\ UNCHANGED <<console, clock, commands, sessions>>

\* Seconds in which nothing is logged are not counted.
Tick == /\ clock < MaxClock
        /\ \E l \in log : l.at = clock
        /\ clock' = clock + 1
        /\ UNCHANGED <<console, fifos, manager, workers, file, counts, inStep>>

\* The script's purge removes the file; the manager goes on writing to it.
Purge == /\ linked
         /\ log' = {} /\ linked' = FALSE
         /\ UNCHANGED <<console, fifos, manager, workers, clock, counts, inStep>>

-----------------------------------------------------------------------------
(***************************************************************************)
(* The console.                                                            *)
(***************************************************************************)

\* Someone has the FIFOs made last open: the manager, or workers it left.
Held == mpc # "gone" \/ \E w \in workers : w.n > 0

\* Someone else has the console's FIFOs open.
OtherEnd == IF cut THEN orphans # {} ELSE Held

\* The FIFOs have their names, after a SIGKILL too, and someone can read and
\* write them.  They are empty if nobody has had them open as a console.  A
\* console that finds nothing of its predecessors in them is in step.
Connect ==
    /\ cpc = "off" /\ named /\ Held
    /\ sessions < MaxSessions
    /\ sessions' = sessions + 1
    /\ cpc' = "prompt"
    /\ IF cut THEN fss_in' = << >> /\ fss_out' = << >> ELSE UNCHANGED <<fss_in, fss_out>>
    /\ cut' = FALSE /\ orphans' = {}
    /\ inStep' = /\ fss_in' = << >> /\ fss_out' = << >> /\ mpc = "select"
                 /\ \A w \in workers : ~w.report_to_log
    /\ UNCHANGED <<cmd, reads, named, manager, workers, file, clock, commands, starts>>

\* A slip: one read for add.
OneReadForAdd(op) ==
    CASE op \in {"add", "cancel"}  -> 1
      [] op \in {"status", "sync"} -> 2
      [] op = "shutdown"           -> 4

\* is_valid_command: how often to read.
times_to_read(op) ==
    CASE op = "cancel"                    -> 1
      [] op \in {"add", "status", "sync"} -> 2
      [] op = "shutdown"                  -> 4

Ends == cpc' = "off" /\ cmd' = NoCommand /\ reads' = 0 /\ inStep' = FALSE

\* One read is done.  After the last one the console asks for the next
\* command, or ends with its shutdown.
ReadDone(last) ==
    \/ last /\ cmd.op = "shutdown" /\ Ends
    \/ last /\ cmd.op # "shutdown" /\ cpc' = "prompt" /\ cmd' = NoCommand /\ reads' = 0
       /\ UNCHANGED inStep
    \/ ~last /\ reads' = reads - 1 /\ UNCHANGED <<cpc, cmd, inStep>>

\* send_command: a write that nobody can read ends the console (SIGPIPE).
Send(c) ==
    /\ cpc = "prompt"
    /\ commands < MaxCommands
    /\ commands' = commands + 1
    /\ IF OtherEnd
       THEN /\ cpc' = "read" /\ cmd' = c /\ reads' = times_to_read(c.op)
            /\ fss_in' = Append(fss_in, c)
            /\ inStep' = (inStep /\ c.op # "sync")
       ELSE Ends /\ UNCHANGED fss_in
    /\ UNCHANGED <<fss_out, links, manager, workers, file, clock, sessions, starts>>

\* strtok looks at the first answer only: at its first word after the stamp,
\* or, the details of a status having no stamp, at nothing.
Last(word) == word \in {"Directory", "Already", "Monitoring", "details"}

\* read_response, one read: all that is there.
Read ==
    /\ cpc = "read"
    /\ fss_out # << >>
    /\ fss_out' = << >>
    /\ ReadDone(reads = 1 \/ Last(Head(fss_out)))
    /\ UNCHANGED <<fss_in, links, manager, workers, file, clock, counts>>

\* A slip: the end of file does not count as a read.
ReadAgain ==
    /\ cpc = "read"
    /\ fss_out = << >> /\ ~OtherEnd
    /\ UNCHANGED vars

\* A read when nobody can write any more.
EndOfFile ==
    /\ cpc = "read"
    /\ fss_out = << >> /\ ~OtherEnd
    /\ ReadDone(reads = 1)
    /\ UNCHANGED <<fifos, manager, workers, file, clock, counts>>

\* SIGINT, wherever it is.
Interrupt ==
    /\ cpc # "off"
    /\ Ends
    /\ UNCHANGED <<fifos, manager, workers, file, clock, counts>>

-----------------------------------------------------------------------------
(***************************************************************************)
(* The manager: one command.                                               *)
(***************************************************************************)
InProgress(d) == \E w \in workers : w.dir = d

\* The answers to a command, in the order they are written.
Answers(c) ==
    CASE c.op = "add"    -> IF pairs[c.dir] = "active" THEN <<"Already">>
                            ELSE <<"Added", "Monitoring">>
      [] c.op = "cancel" -> IF pairs[c.dir] # "active" THEN <<"Directory">>
                            ELSE <<"Monitoring">>
      [] c.op = "status" -> IF pairs[c.dir] = "unknown" THEN <<"Directory">>
                            ELSE <<"Status", "details">>
      [] c.op = "sync"   -> IF pairs[c.dir] = "unknown" THEN << >>
                            ELSE IF InProgress(c.dir) THEN <<"Sync", "Syncing">>
                            ELSE <<"Syncing">>
      [] c.op = "shutdown" -> <<"Shutting">>

\* What becomes of its directory.
Becomes(c) == CASE c.op = "add" -> "active"
                [] c.op = "cancel" /\ pairs[c.dir] = "active" -> "cancelled"
                [] OTHER -> pairs[c.dir]

\* A slip: a command without an answer waits for one to be written.
ReceiveAndWait ==
    /\ mpc = "select"
    /\ ~cut /\ fss_in # << >>
    /\ LET c == Head(fss_in)
       IN  /\ pairs' = [pairs EXCEPT ![c.dir] = Becomes(c)]
           /\ todo' = Answers(c)
           /\ mpc' = "answer" /\ handling' = c
           /\ lastSync' = IF c.op = "add" /\ pairs[c.dir] = "unknown"
                          THEN [lastSync EXCEPT ![c.dir] = clock] ELSE lastSync
    /\ fss_in' = << >>
    /\ UNCHANGED <<console, fss_out, links, workers, file, clock, counts, inStep>>

\* receive_and_handle_console_cmd: its read takes all that is there, and
\* only the first command is handled.  A new pair has the time as its last
\* sync.
Receive ==
    /\ mpc = "select"
    /\ ~cut /\ fss_in # << >>
    /\ LET c == Head(fss_in)
       IN  /\ pairs' = [pairs EXCEPT ![c.dir] = Becomes(c)]
           /\ todo' = Answers(c)
           /\ IF Answers(c) = << >> THEN UNCHANGED <<mpc, handling>>
              ELSE mpc' = "answer" /\ handling' = c
           /\ lastSync' = IF c.op = "add" /\ pairs[c.dir] = "unknown"
                          THEN [lastSync EXCEPT ![c.dir] = clock] ELSE lastSync
    /\ fss_in' = << >>
    /\ UNCHANGED <<console, fss_out, links, workers, file, clock, counts, inStep>>

\* The next answer.  The one about monitoring goes to the log as well, and
\* with the last answer to add and sync a full sync begins.
Answer ==
    /\ mpc = "answer"
    /\ LET word == Head(todo)
           d == handling.dir
           last == Len(todo) = 1
       IN  /\ fss_out' = Append(fss_out, word)
           /\ IF word = "Monitoring"
              THEN Logged(Line(clock, IF handling.op = "add" THEN "started" ELSE "stopped", d))
              ELSE UNCHANGED file
           /\ workers' = IF \/ word = "Syncing"
                            \/ word = "Monitoring" /\ handling.op = "add"
                         THEN workers \union {Worker(FreeNumber, d, handling.op = "sync")}
                         ELSE workers
           /\ mpc' = CASE ~last              -> "answer"
                       [] word = "Shutting"  -> "stopping"
                       [] OTHER              -> "select"
           /\ handling' = IF last THEN NoCommand ELSE handling
    /\ todo' = Tail(todo)
    /\ UNCHANGED <<console, fss_in, links, memory, clock, counts, inStep>>

-----------------------------------------------------------------------------
(***************************************************************************)
(* The manager: workers and its end.                                       *)
(***************************************************************************)

\* A worker ends.  While the manager ignores SIGCHLD, and when it is gone,
\* nothing is left of it.
WorkerEnds(w) ==
    /\ ~w.done
    /\ workers' = (workers \ {w}) \union
                  (IF mpc \in {"waiting", "gone"} THEN {} ELSE {[w EXCEPT !.done = TRUE]})
    /\ UNCHANGED <<console, fifos, manager, file, clock, counts, inStep>>

Reported(w) == /\ workers' = workers \ {w}
               /\ Logged(Line(clock, "FULL", w.dir))

\* check_children_and_make_report, between two commands.
Reap(w) ==
    /\ mpc \in {"select", "stopping"}
    /\ w.done
    /\ Reported(w)
    /\ lastSync' = [lastSync EXCEPT ![w.dir] = clock]
    /\ fss_out' = IF w.report_to_log THEN Append(fss_out, "Sync") ELSE fss_out
    /\ UNCHANGED <<console, fss_in, links, mpc, handling, todo, pairs, clock, counts, inStep>>

\* wait_for_running_workers ignores SIGCHLD from here on, ...
Waiting ==
    /\ mpc = "stopping"
    /\ mpc' = "waiting"
    /\ fss_out' = Append(fss_out, "Waiting")
    /\ UNCHANGED <<console, fss_in, links, handling, todo, memory, workers, file, clock, counts,
                   inStep>>

\* ... reports the workers that ended before (of whatever operation, in the
\* code; here all are full syncs), ...
WaitReaps(w) ==
    /\ mpc = "waiting"
    /\ w.done
    /\ Reported(w)
    /\ lastSync' = [lastSync EXCEPT ![w.dir] = clock]
    /\ UNCHANGED <<console, fifos, mpc, handling, todo, pairs, clock, counts, inStep>>

\* ... and goes on when it has no children.
Processing ==
    /\ mpc = "waiting" /\ workers = {}
    /\ mpc' = "processing"
    /\ fss_out' = Append(fss_out, "Processing")
    /\ UNCHANGED <<console, fss_in, links, handling, todo, memory, workers, file, clock, counts,
                   inStep>>

\* complete_enqueued_workers has nothing in its queue and no children.
Complete ==
    /\ mpc = "processing"
    /\ mpc' = "complete"
    /\ fss_out' = Append(fss_out, "Manager")
    /\ UNCHANGED <<console, fss_in, links, handling, todo, memory, workers, file, clock, counts,
                   inStep>>

\* What the manager knew is lost; the workers that still run are not.
Gone == /\ mpc' = "gone" /\ handling' = NoCommand /\ todo' = << >>
        /\ pairs' = [d \in Dirs |-> "unknown"]
        /\ lastSync' = [d \in Dirs |-> 0]
        /\ workers' = {w \in workers : ~w.done}
        /\ UNCHANGED <<console, fss_in, fss_out, cut, orphans, file, clock, counts, inStep>>

\* terminate_manager closes and unlinks the FIFOs.
Terminate == mpc = "complete" /\ Gone /\ named' = FALSE

\* Wherever it is: SIGINT, which calls terminate_manager, or SIGKILL.
Kill == mpc # "gone" /\ Gone /\ named' \in {FALSE, named}

\* A worker of an earlier manager ends.
OrphanEnds == /\ \E n \in orphans : orphans' = orphans \ {n}
              /\ UNCHANGED <<console, fss_in, fss_out, named, cut, manager, workers, file, clock,
                             counts, inStep>>

ConsoleSteps == Read \/ EndOfFile
ManagerSteps == Answer \/ Waiting \/ Processing \/ Complete \/ Terminate
                \/ \E w \in workers : WaitReaps(w)
WorkerSteps  == OrphanEnds \/ \E w \in workers : WorkerEnds(w)

Next == \/ Connect
        \/ \E c \in Commands : Send(c)
        \/ ConsoleSteps
        \/ Interrupt
        \/ Receive
        \/ ManagerSteps
        \/ WorkerSteps
        \/ \E w \in workers : Reap(w)
        \/ Kill
        \/ Start
        \/ Purge
        \/ Tick

Spec == Init /\ [][Next]_vars

\* Both processes go on with what they are at and workers end; the manager
\* may miss that they did (module Dispatcher), so Reap is not fair.  Nor is
\* Receive: events come before commands, for as long as there are any, and
\* the manager may sleep for ever in a msgsnd to a queue that is full.
FairSpec == /\ Spec
            /\ WF_vars(ConsoleSteps)
            /\ WF_vars(ManagerSteps)
            /\ WF_vars(WorkerSteps)

\* An assumption on those who use the system and no promise of its code: the
\* directories are quiet for long enough, and the queue has room, so that a
\* command that waits is read some day.
HeardSpec == FairSpec /\ WF_vars(Receive)

-----------------------------------------------------------------------------
(***************************************************************************)
(* Types: the console has reads left exactly while it reads, and the       *)
(* manager has answers to write exactly while it answers.                  *)
(***************************************************************************)
TypeOK == /\ cpc \in {"off", "prompt", "read"}
          /\ cmd \in Commands \union {NoCommand}
          /\ reads \in 0..4 /\ (reads > 0 <=> cpc = "read")
          /\ fss_in \in Seq(Commands)
          /\ fss_out \in Seq(Words)
          /\ named \in BOOLEAN /\ cut \in BOOLEAN
          /\ orphans \subseteq 1..MaxCommands
          /\ mpc \in {"select", "answer", "stopping", "waiting", "processing", "complete", "gone"}
          /\ handling \in Commands \union {NoCommand}
          /\ todo \in Seq(Words) /\ (todo # << >> <=> mpc = "answer")
          /\ pairs \in [Dirs -> {"unknown", "active", "cancelled"}]
          /\ lastSync \in [Dirs -> 0..MaxClock]
          /\ workers \subseteq [n : 0..MaxCommands, dir : Dirs, report_to_log : BOOLEAN,
                                done : BOOLEAN]
          /\ log \subseteq [at : 0..MaxClock, what : {"FULL", "started", "stopped"}, dir : Dirs]
          /\ linked \in BOOLEAN
          /\ clock \in 0..MaxClock
          /\ commands \in 0..MaxCommands
          /\ sessions \in 0..MaxSessions
          /\ starts \in 0..MaxStarts
          /\ inStep \in BOOLEAN

(***************************************************************************)
(* The console's counting of reads is right as long as no sync is asked    *)
(* for: however answers and reads interleave, and however answers merge in *)
(* a read, the console never asks for the next command while an answer to  *)
(* the last one is still to come.                                          *)
(***************************************************************************)
InStep == inStep /\ cpc = "prompt" /\ mpc # "gone" =>
              fss_in = << >> /\ fss_out = << >> /\ todo = << >>

(***************************************************************************)
(* In the first session a cancel and a shutdown that are heard (HeardSpec) *)
(* or whose manager is gone always bring the console back, out of step or  *)
(* not: one answer is enough for cancel, and the reads that a shutdown's   *)
(* merged answers leave over find the end of the file.  add, status and    *)
(* sync may block even then: see ConsoleReturns.                           *)
(***************************************************************************)
ShortAnswersReturn ==
    (sessions = 1 /\ cpc = "read" /\ cmd.op \in {"cancel", "shutdown"}) ~> cpc # "read"

(***************************************************************************)
(* A command always brings the console back.                               *)
(***************************************************************************)
ConsoleReturns == cpc = "read" ~> cpc # "read"

(***************************************************************************)
(* What listMonitored and listStopped make of the log is what the manager  *)
(* holds, and no manager before it: of the directories of which it         *)
(* reported a full sync (and the log was not purged since), those that are *)
(* active, and those that are not.  Except that two lines about monitoring *)
(* of one second count as a stop.                                          *)
(***************************************************************************)
ListsAreTrue ==
    mpc = "select" =>
      \A d \in Dirs :
        LET said == {l \in MonitoringLines(log) : l.dir = d}
        IN  (\A l, k \in said : l.at = k.at => l = k) =>
              /\ d \in DirsOf(listMonitored(log)) <=>
                   pairs[d] = "active" /\ d \in DirsOf(FullLines(log))
              /\ d \in DirsOf(listStopped(log)) <=>
                   pairs[d] = "cancelled" /\ d \in DirsOf(FullLines(log))

(***************************************************************************)
(* Whatever the stamps, crashes, restarts and purges, every directory of   *)
(* which the log reports a full sync is in one of the two lists and in one *)
(* only.                                                                   *)
(***************************************************************************)
ListsPartition == /\ listAll(log) = listMonitored(log) \union listStopped(log)
                  /\ DirsOf(listMonitored(log)) \intersect DirsOf(listStopped(log)) = {}

(***************************************************************************)
(* The last sync that listAll shows of a directory is the one that the     *)
(* console's status shows of it: every row is of a directory that the      *)
(* manager which runs knows, through restarts, purges and merged seconds.  *)
(***************************************************************************)
StatusAgreesWithListAll ==
    mpc # "gone" => \A l \in listAll(log) : /\ pairs[l.dir] # "unknown"
                                           /\ l.at = lastSync[l.dir]
=============================================================================
