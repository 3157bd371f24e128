--------------------------- MODULE ConsoleLogProofs ---------------------------
(***************************************************************************)
(* What the script's queries make of the manager's log is what the manager *)
(* holds, for any directories, commands and numbers of sessions, starts    *)
(* and seconds.                                                            *)
(***************************************************************************)
EXTENDS ConsoleLinkProofs

Said(d)     == {l \in MonitoringLines(log) : l.dir = d}
ReportsOf(d) == {l \in FullLines(log) : l.dir = d}

(***************************************************************************)
(* What can be left of the answers to a command, by its operation.         *)
(***************************************************************************)
TailsOf(op) ==
    CASE op = "add"    -> {<<"Already">>, <<"Added", "Monitoring">>, <<"Monitoring">>}
      [] op = "cancel" -> {<<"Directory">>, <<"Monitoring">>}
      [] op = "sync"   -> {<<"Sync", "Syncing">>, <<"Syncing">>}
      [] OTHER         -> {<<"Directory">>, <<"Status", "details">>, <<"details">>, <<"Shutting">>}

\* A directory whose monitoring has begun or ended, and the log does not say so yet.
Midway(d) == /\ mpc = "answer" /\ handling.dir = d
             /\ handling.op \in {"add", "cancel"}
             /\ todo \notin {<<"Already">>, <<"Directory">>}

HandlesKnown ==
    mpc = "answer" =>
      /\ todo \in TailsOf(handling.op)
      /\ handling.op = "sync" => pairs[handling.dir] # "unknown"
      /\ Midway(handling.dir) =>
           pairs[handling.dir] = IF handling.op = "add" THEN "active" ELSE "cancelled"

LinesFit == /\ linked \/ log = {}
            /\ \A l \in log : l.at <= clock

\* Whoever can be reported is known, and the log says of it that it was
\* monitored: that is why a row of the lists is in one of them.
WorkersKnown ==
    mpc # "gone" => \A w \in workers : /\ pairs[w.dir] # "unknown"
                                       /\ linked => Said(w.dir) # {}

ReportsSaid == \A l \in FullLines(log) : Said(l.dir) # {}

\* One of the latest lines about a directory says what is so.
Holds(d) == IF pairs[d] = "active" THEN "started" ELSE "stopped"

LatestIsSo ==
    linked => \A d \in Dirs :
       pairs[d] # "unknown" /\ ~Midway(d) =>
         \E l \in Said(d) : l.what = Holds(d) /\ \A k \in Said(d) : k.at <= l.at

\* Every directory that the log reports is one the manager knows: the log
\* began with it.  Its last sync is that of the latest report.
SyncsKnown ==
    mpc # "gone" =>
      \A d \in Dirs : ReportsOf(d) # {} =>
          /\ pairs[d] # "unknown"
          /\ \E l \in ReportsOf(d) : l.at = lastSync[d] /\ \A k \in ReportsOf(d) : k.at <= l.at

LogInv == /\ HandlesKnown
          /\ LinesFit
          /\ WorkersKnown
          /\ ReportsSaid
          /\ LatestIsSo
          /\ SyncsKnown

-----------------------------------------------------------------------------
\* The queries, of any log.

\* Of some lines one is a latest one.
LEMMA LatestLine ==
  ASSUME NEW S \in SUBSET LineSet, S # {}
  PROVE  \E l \in S : \A k \in S : k.at <= l.at
<1> DEFINE Left == {MaxClock - l.at : l \in S}
<1>1. MaxClock \in Nat /\ \A l \in S : l.at \in Nat /\ l.at <= MaxClock
  BY Constants DEF LineSet
<1>2. Left \in SUBSET Nat /\ Left # {}
  BY <1>1
<1>3. PICK x \in Left : \A y \in Left : x <= y
  <2> HIDE DEF Left
  <2> QED
    BY <1>2, Least
<1>4. PICK l \in S : x = MaxClock - l.at
  OBVIOUS
<1>5. ASSUME NEW k \in S PROVE k.at <= l.at
  <2>1. MaxClock - l.at <= MaxClock - k.at
    BY <1>3, <1>4
  <2> QED
    BY <1>1, <2>1
<1> QED
  BY <1>5

\* ... and one comes before all the others.
LEMMA FirstLine ==
  ASSUME NEW S \in SUBSET LineSet, S # {}
  PROVE  \E l \in S : \A k \in S : ~Before(k, l)
<1>1. \A l \in S : l.at \in Nat
  BY Constants DEF LineSet
<1>2. PICK l \in S : \A k \in S : k.at <= l.at
  BY LatestLine
<1>3. CASE \E k \in S : k.at = l.at /\ k.what = "stopped"
  <2>1. PICK k \in S : k.at = l.at /\ k.what = "stopped"
    BY <1>3
  <2>2. \A j \in S : ~Before(j, k)
    BY <1>1, <1>2, <2>1 DEF Before
  <2> QED
    BY <2>2
<1>4. CASE ~(\E k \in S : k.at = l.at /\ k.what = "stopped")
  <2>1. \A j \in S : ~Before(j, l)
    BY <1>1, <1>2, <1>4 DEF Before
  <2> QED
    BY <2>1
<1> QED
  BY <1>3, <1>4

\* A directory of which there is a line has a first one.
LEMMA FirstOfDir ==
  ASSUME NEW L \in SUBSET LineSet, NEW d
  PROVE  (\E l \in L : l.dir = d) <=> (\E l \in FirstOfEach(L) : l.dir = d)
<1>1. ASSUME NEW m \in L, m.dir = d PROVE \E l \in FirstOfEach(L) : l.dir = d
  <2> DEFINE S == {l \in L : l.dir = d}
  <2>1. S \in SUBSET LineSet /\ S # {}
    BY <1>1
  <2>2. PICK l \in S : \A k \in S : ~Before(k, l)
    <3> HIDE DEF S
    <3> QED
      BY <2>1, FirstLine
  <2>3. l \in FirstOfEach(L)
    BY <2>2 DEF FirstOfEach
  <2> QED
    BY <2>2, <2>3
<1> QED
  BY <1>1 DEF FirstOfEach

\* No directory is said to be both.
LEMMA OneLastWord ==
  ASSUME log \subseteq LineSet,
         NEW l \in FirstOfEach(MonitoringLines(log)), NEW k \in FirstOfEach(MonitoringLines(log)),
         l.dir = k.dir
  PROVE  l.what = k.what /\ l.at = k.at
<1>1. /\ l \in LineSet /\ k \in LineSet /\ ~Before(l, k) /\ ~Before(k, l)
      /\ l.what \in {"started", "stopped"} /\ k.what \in {"started", "stopped"}
  BY DEF FirstOfEach, MonitoringLines
<1>2. l.at \in Nat /\ k.at \in Nat
  BY <1>1, Constants DEF LineSet
<1>3. l.at = k.at
  BY <1>1, <1>2 DEF Before
<1> QED
  BY <1>1, <1>3 DEF Before

LEMMA LogTypes ==
  ASSUME TypeOK
  PROVE  /\ log \subseteq LineSet
         /\ FullLines(log) \in SUBSET LineSet /\ MonitoringLines(log) \in SUBSET LineSet
         /\ \A l \in log : l.at \in Nat /\ l.dir \in Dirs
         /\ clock \in Nat
         /\ \A w \in workers : w.dir \in Dirs
         /\ \A d \in Dirs : /\ pairs[d] \in {"unknown", "active", "cancelled"}
                           /\ lastSync[d] \in Nat
<1>1. log \subseteq LineSet /\ workers \subseteq WorkerSet
  BY TypesUnfold
<1>2. clock \in Nat /\ \A d \in Dirs : pairs[d] \in {"unknown", "active", "cancelled"}
                                      /\ lastSync[d] \in Nat
  BY Constants DEF TypeOK
<1>3. \A l \in log : l.at \in Nat /\ l.dir \in Dirs
  BY <1>1, Constants DEF LineSet
<1>4. \A w \in workers : w.dir \in Dirs
  BY <1>1 DEF WorkerSet
<1> QED
  BY <1>1, <1>2, <1>3, <1>4 DEF FullLines, MonitoringLines

-----------------------------------------------------------------------------
\* What the invariant says of the lists.

LEMMA PartitionHolds == TypeOK /\ ReportsSaid => ListsPartition
<1> SUFFICES ASSUME TypeOK, ReportsSaid PROVE ListsPartition
  OBVIOUS
<1>1. ASSUME NEW l \in listAll(log)
      PROVE  l.dir \in LastSaid(log, "started") \/ l.dir \in LastSaid(log, "stopped")
  <2>1. l \in FullLines(log)
    BY DEF listAll, FirstOfEach
  <2>2. \E k \in MonitoringLines(log) : k.dir = l.dir
    BY <2>1 DEF ReportsSaid, Said
  <2>3. PICK k \in FirstOfEach(MonitoringLines(log)) : k.dir = l.dir
    BY <2>2, LogTypes, FirstOfDir
  <2>4. k.what \in {"started", "stopped"}
    BY DEF FirstOfEach, MonitoringLines
  <2> QED
    BY <2>3, <2>4 DEF LastSaid
<1>2. ASSUME NEW d \in LastSaid(log, "started"), d \in LastSaid(log, "stopped") PROVE FALSE
  <2>1. PICK l \in FirstOfEach(MonitoringLines(log)) : l.what = "started" /\ l.dir = d
    BY DEF LastSaid
  <2>2. PICK k \in FirstOfEach(MonitoringLines(log)) : k.what = "stopped" /\ k.dir = d
    BY <1>2 DEF LastSaid
  <2> QED
    BY <2>1, <2>2, LogTypes, OneLastWord
<1> QED
  BY <1>1, <1>2 DEF ListsPartition, listMonitored, listStopped, DirsOf

\* Without ties, what was said last is one line, and it is what is so.
LEMMA TrueOfDir ==
  ASSUME TypeOK, LinesFit, LatestIsSo, mpc = "select", NEW d \in Dirs, pairs[d] # "unknown",
         \A l, k \in Said(d) : l.at = k.at => l = k, linked
  PROVE  /\ d \in LastSaid(log, "started") <=> pairs[d] = "active"
         /\ d \in LastSaid(log, "stopped") <=> pairs[d] = "cancelled"
<1>1. PICK l \in Said(d) : l.what = Holds(d) /\ \A k \in Said(d) : k.at <= l.at
  BY DEF LatestIsSo, Midway
<1>2. \A k \in Said(d) : k.at \in Nat /\ k.what \in {"started", "stopped"} /\ k.dir = d
  BY LogTypes DEF Said, MonitoringLines
<1>3. l \in FirstOfEach(MonitoringLines(log))
  <2> SUFFICES ASSUME NEW k \in MonitoringLines(log), k.dir = l.dir PROVE ~Before(k, l)
    BY DEF FirstOfEach, Said
  <2>1. k \in Said(d)
    BY <1>2 DEF Said
  <2>2. CASE k.at = l.at
    BY <1>1, <1>2, <2>1, <2>2 DEF Before
  <2>3. CASE k.at # l.at
    BY <1>1, <1>2, <2>1, <2>3 DEF Before
  <2> QED
    BY <2>2, <2>3
<1>4. \A what : d \in LastSaid(log, what) <=> what = Holds(d)
  <2>1. d \in LastSaid(log, Holds(d))
    BY <1>1, <1>2, <1>3 DEF LastSaid
  <2>2. ASSUME NEW what, d \in LastSaid(log, what) PROVE what = Holds(d)
    <3>1. PICK k \in FirstOfEach(MonitoringLines(log)) : k.what = what /\ k.dir = d
      BY <2>2 DEF LastSaid
    <3> QED
      BY <1>1, <1>2, <1>3, <3>1, LogTypes, OneLastWord
  <2> QED
    BY <2>1, <2>2
<1>5. pairs[d] \in {"active", "cancelled"}
  BY LogTypes
<1> QED
  BY <1>4, <1>5 DEF Holds

LEMMA TrueHolds == TypeOK /\ LinesFit /\ LatestIsSo /\ SyncsKnown => ListsAreTrue
<1> SUFFICES ASSUME TypeOK, LinesFit, LatestIsSo, SyncsKnown, mpc = "select", NEW d \in Dirs,
                    \A l, k \in Said(d) : l.at = k.at => l = k
             PROVE  /\ d \in DirsOf(listMonitored(log)) <=>
                          pairs[d] = "active" /\ d \in DirsOf(FullLines(log))
                    /\ d \in DirsOf(listStopped(log)) <=>
                          pairs[d] = "cancelled" /\ d \in DirsOf(FullLines(log))
  BY DEF ListsAreTrue, Said
<1>1. d \in DirsOf(FullLines(log)) <=> \E l \in listAll(log) : l.dir = d
  <2>1. (\E l \in FullLines(log) : l.dir = d) <=> \E l \in listAll(log) : l.dir = d
    BY LogTypes, FirstOfDir DEF listAll
  <2> QED
    BY <2>1 DEF DirsOf
<1>2. /\ d \in DirsOf(listMonitored(log)) <=>
            d \in LastSaid(log, "started") /\ \E l \in listAll(log) : l.dir = d
      /\ d \in DirsOf(listStopped(log)) <=>
            d \in LastSaid(log, "stopped") /\ \E l \in listAll(log) : l.dir = d
  BY DEF DirsOf, listMonitored, listStopped
<1>3. CASE linked /\ pairs[d] # "unknown"
  BY <1>1, <1>2, <1>3, TrueOfDir
<1>4. CASE ~linked \/ pairs[d] = "unknown"
  <2>1. d \notin DirsOf(FullLines(log))
    BY <1>4 DEF LinesFit, FullLines, SyncsKnown, ReportsOf, DirsOf
  <2> QED
    BY <1>1, <1>2, <2>1
<1> QED
  BY <1>3, <1>4

LEMMA StatusHolds == TypeOK /\ SyncsKnown => StatusAgreesWithListAll
<1> SUFFICES ASSUME TypeOK, SyncsKnown, mpc # "gone", NEW l \in listAll(log)
             PROVE  pairs[l.dir] # "unknown" /\ l.at = lastSync[l.dir]
  BY DEF StatusAgreesWithListAll
<1>1. /\ l \in ReportsOf(l.dir) /\ l.dir \in Dirs /\ l.at \in Nat
      /\ \A k \in FullLines(log) : k.dir = l.dir => ~Before(k, l)
  BY LogTypes DEF listAll, FirstOfEach, FullLines, ReportsOf
<1>2. pairs[l.dir] # "unknown"
  BY <1>1 DEF SyncsKnown
<1>3. PICK k \in ReportsOf(l.dir) : k.at = lastSync[l.dir] /\ l.at <= k.at
  BY <1>1 DEF SyncsKnown
<1>4. ~(k.at > l.at) /\ k.at \in Nat
  BY <1>1, LogTypes DEF ReportsOf, Before, FullLines
<1> QED
  BY <1>1, <1>2, <1>3, <1>4

-----------------------------------------------------------------------------
\* Steps that leave alone what the invariant is about, or nearly so.

LEMMA InitLog == Init => LogInv
<1> SUFFICES ASSUME Init PROVE LogInv
  OBVIOUS
<1>1. /\ mpc = "select" /\ clock = 0 /\ linked = TRUE
      /\ log = {Started(d) : d \in Config}
      /\ workers = {Worker(0, d, FALSE) : d \in Config}
      /\ pairs = [d \in Dirs |-> IF d \in Config THEN "active" ELSE "unknown"]
  BY DEF Init
<1>2. \A d : /\ Started(d).at = 0 /\ Started(d).what = "started" /\ Started(d).dir = d
             /\ Worker(0, d, FALSE).dir = d
  BY <1>1 DEF Started, Line, Worker
<1>3. \A d \in Config : Started(d) \in Said(d) /\ d \in Dirs
  BY <1>1, <1>2, Constants DEF Said, MonitoringLines
<1>4. FullLines(log) = {} /\ \A l \in log : l.at = 0
  BY <1>1, <1>2 DEF FullLines
<1>5. HandlesKnown /\ LinesFit /\ ReportsSaid
  BY <1>1, <1>4 DEF HandlesKnown, LinesFit, ReportsSaid
<1>6. WorkersKnown
  <2>1. \A w \in workers : w.dir \in Config
    BY <1>1, <1>2
  <2>2. \A d \in Config : pairs[d] = "active" /\ Said(d) # {}
    BY <1>1, <1>3
  <2> QED
    BY <2>1, <2>2 DEF WorkersKnown
<1>7. LatestIsSo
  <2> SUFFICES ASSUME NEW d \in Dirs, pairs[d] # "unknown"
               PROVE  \E l \in Said(d) : l.what = Holds(d) /\ \A k \in Said(d) : k.at <= l.at
    BY DEF LatestIsSo
  <2>1. d \in Config /\ Holds(d) = "started"
    BY <1>1 DEF Holds
  <2>2. \A k \in Said(d) : k.at = 0
    BY <1>4 DEF Said, MonitoringLines
  <2> QED
    BY <1>2, <1>3, <2>1, <2>2
<1>8. SyncsKnown
  BY <1>1, <1>4 DEF SyncsKnown, ReportsOf
<1> QED
  BY <1>5, <1>6, <1>7, <1>8 DEF LogInv

\* The steps of the console, of what is outside, and of nobody.
LEMMA ConsoleLog ==
  ASSUME LogInv, UNCHANGED <<manager, workers, file, clock>>
  PROVE  LogInv'
BY DEF LogInv, HandlesKnown, Midway, LinesFit, WorkersKnown, ReportsSaid, LatestIsSo, Holds,
       SyncsKnown, Said, ReportsOf, manager, memory, file

LEMMA EndLog ==
  ASSUME LogInv, Waiting \/ Processing \/ Complete
  PROVE  LogInv'
<1>1. /\ mpc \notin {"answer", "gone"} /\ mpc' \notin {"answer", "gone"}
      /\ UNCHANGED <<workers, log, linked, pairs, lastSync, clock>>
  BY DEF Waiting, Processing, Complete, memory, file, counts
<1> QED
  BY <1>1 DEF LogInv, HandlesKnown, Midway, LinesFit, WorkersKnown, ReportsSaid, LatestIsSo,
              Holds, SyncsKnown, Said, ReportsOf

LEMMA WorkerEndsLog ==
  ASSUME Types, LogInv, NEW w \in workers, WorkerEnds(w)
  PROVE  LogInv'
<1>1. UNCHANGED <<manager, log, linked, clock>>
  BY DEF WorkerEnds, file, counts
<1>2. \A v \in workers' : v \in workers \/ v = [w EXCEPT !.done = TRUE]
  BY DEF WorkerEnds
<1>3. [w EXCEPT !.done = TRUE].dir = w.dir
  BY TypesUnfold DEF Types, WorkerSet
<1>4. \A v \in workers' : \E u \in workers : v.dir = u.dir
  BY <1>2, <1>3, Zenon
<1>5. WorkersKnown'
  BY <1>1, <1>4 DEF LogInv, WorkersKnown, Said, manager, memory
<1>6. /\ HandlesKnown' /\ LinesFit' /\ ReportsSaid' /\ LatestIsSo' /\ SyncsKnown'
  BY <1>1 DEF LogInv, HandlesKnown, Midway, LinesFit, ReportsSaid, LatestIsSo, Holds,
              SyncsKnown, Said, ReportsOf, manager, memory
<1> QED
  BY <1>5, <1>6 DEF LogInv

LEMMA TickLog == Types /\ LogInv /\ Tick => LogInv'
<1> SUFFICES ASSUME Types, LogInv, Tick PROVE LogInv'
  OBVIOUS
<1>1. clock' = clock + 1 /\ UNCHANGED <<manager, workers, log, linked>>
  BY DEF Tick, file, counts
<1>2. LinesFit'
  BY <1>1, LogTypes DEF LogInv, LinesFit, Types
<1>3. HandlesKnown' /\ WorkersKnown' /\ ReportsSaid' /\ LatestIsSo' /\ SyncsKnown'
  BY <1>1 DEF LogInv, HandlesKnown, Midway, WorkersKnown, ReportsSaid, LatestIsSo, Holds,
              SyncsKnown, Said, ReportsOf, manager, memory
<1> QED
  BY <1>2, <1>3 DEF LogInv

LEMMA PurgeLog == LogInv /\ Purge => LogInv'
<1> SUFFICES ASSUME LogInv, Purge PROVE LogInv'
  OBVIOUS
<1>1. log' = {} /\ linked' = FALSE /\ UNCHANGED <<manager, workers>>
  BY DEF Purge, counts
<1>2. FullLines(log)' = {} /\ \A d : ReportsOf(d)' = {}
  BY <1>1 DEF FullLines, ReportsOf
<1>3. HandlesKnown'
  BY <1>1 DEF LogInv, HandlesKnown, Midway, manager, memory
<1>4. LinesFit' /\ LatestIsSo' /\ ReportsSaid'
  BY <1>1, <1>2 DEF LinesFit, LatestIsSo, ReportsSaid
<1>5. WorkersKnown'
  BY <1>1 DEF LogInv, WorkersKnown, manager, memory
<1>6. SyncsKnown'
  BY <1>1, <1>2 DEF LogInv, SyncsKnown, manager, memory
<1> QED
  BY <1>3, <1>4, <1>5, <1>6 DEF LogInv

LEMMA GoneLog == Types /\ LogInv /\ Gone => LogInv'
<1> SUFFICES ASSUME Types, LogInv, Gone PROVE LogInv'
  OBVIOUS
<1>1. /\ mpc' = "gone" /\ pairs' = [d \in Dirs |-> "unknown"]
      /\ UNCHANGED <<log, linked, clock>>
  BY DEF Gone, file, counts
<1>2. HandlesKnown' /\ WorkersKnown'
  BY <1>1 DEF HandlesKnown, WorkersKnown
<1>3. LinesFit' /\ ReportsSaid'
  BY <1>1 DEF LogInv, LinesFit, ReportsSaid, Said
<1>4. LatestIsSo'
  BY <1>1 DEF LatestIsSo
<1>5. SyncsKnown'
  BY <1>1 DEF SyncsKnown
<1> QED
  BY <1>2, <1>3, <1>4, <1>5 DEF LogInv

LEMMA StartLog == Types /\ LogInv /\ Start => LogInv'
<1> SUFFICES ASSUME Types, LogInv, Start PROVE LogInv'
  OBVIOUS
<1>1. /\ mpc' = "select" /\ clock' = clock /\ linked' = TRUE
      /\ log' = {Started(d) : d \in Config}
      /\ workers' = {Worker(0, d, FALSE) : d \in Config}
      /\ pairs' = [d \in Dirs |-> IF d \in Config THEN "active" ELSE "unknown"]
  BY DEF Start, NewLog
<1>2. \A d : /\ Started(d).at = clock /\ Started(d).what = "started" /\ Started(d).dir = d
             /\ Worker(0, d, FALSE).dir = d
  BY DEF Started, Line, Worker
<1>3. \A d \in Config : Started(d) \in Said(d)' /\ d \in Dirs
  BY <1>1, <1>2, Constants DEF Said, MonitoringLines
<1>4. FullLines(log)' = {} /\ \A l \in log' : l.at = clock
  BY <1>1, <1>2 DEF FullLines
<1>5. clock <= clock
  BY LogTypes DEF Types
<1>6. HandlesKnown' /\ LinesFit' /\ ReportsSaid' /\ SyncsKnown'
  BY <1>1, <1>4, <1>5 DEF HandlesKnown, LinesFit, ReportsSaid, SyncsKnown, ReportsOf
<1>7. WorkersKnown'
  <2>1. \A w \in workers' : w.dir \in Config
    BY <1>1, <1>2
  <2>2. \A d \in Config : pairs'[d] = "active" /\ Said(d)' # {}
    BY <1>1, <1>3
  <2> QED
    BY <2>1, <2>2 DEF WorkersKnown
<1>8. LatestIsSo'
  <2> SUFFICES ASSUME NEW d \in Dirs, pairs'[d] # "unknown"
               PROVE  \E l \in Said(d)' : l.what = Holds(d)' /\ \A k \in Said(d)' : k.at <= l.at
    BY DEF LatestIsSo
  <2>1. d \in Config /\ Holds(d)' = "started"
    BY <1>1 DEF Holds
  <2>2. \A k \in Said(d)' : k.at = clock
    BY <1>4 DEF Said, MonitoringLines
  <2> QED
    BY <1>2, <1>3, <1>5, <2>1, <2>2
<1> QED
  BY <1>6, <1>7, <1>8 DEF LogInv

-----------------------------------------------------------------------------
\* The manager logs, reports and handles commands.

LEMMA ReportLog ==
  ASSUME Types, LogInv, NEW w \in workers, Reap(w) \/ WaitReaps(w)
  PROVE  LogInv'
<1> DEFINE line == Line(clock, "FULL", w.dir)
<1>1. /\ mpc \notin {"answer", "gone"} /\ workers' = workers \ {w} /\ Logged(line)
      /\ lastSync' = [lastSync EXCEPT ![w.dir] = clock]
      /\ UNCHANGED <<mpc, handling, todo, pairs, clock>>
  BY DEF Reap, WaitReaps, Reported, counts
<1>2. /\ line.at = clock /\ line.what = "FULL" /\ line.dir = w.dir
      /\ w.dir \in Dirs /\ clock \in Nat /\ clock <= clock
      /\ \A l \in log : l.at <= clock /\ l.dir \in Dirs
  BY LogTypes DEF Line, Types, LogInv, LinesFit
<1> HIDE DEF line
<1>3. /\ pairs[w.dir] # "unknown" /\ (linked => Said(w.dir) # {})
  BY <1>1 DEF LogInv, WorkersKnown
<1>4. linked' = linked /\ log' = (IF linked THEN log \union {line} ELSE log)
  BY <1>1 DEF Logged
<1>5. \A d : Said(d)' = Said(d)
  BY <1>2, <1>4 DEF Said, MonitoringLines
<1>6. \A l \in log' : l \in log \/ (l = line /\ linked)
  BY <1>4
<1>7. \A l \in FullLines(log)' : l \in FullLines(log) \/ (l = line /\ linked)
  BY <1>6 DEF FullLines
<1>8. /\ lastSync'[w.dir] = clock
      /\ \A d \in Dirs : d # w.dir => lastSync'[d] = lastSync[d]
  BY <1>1, <1>2 DEF Types, TypeOK
<1>9. HandlesKnown' /\ LinesFit'
  BY <1>1, <1>2, <1>4, <1>6 DEF LogInv, HandlesKnown, LinesFit
<1>10. WorkersKnown' /\ LatestIsSo' /\ ReportsSaid'
  <2>1. WorkersKnown'
    BY <1>1, <1>4, <1>5 DEF LogInv, WorkersKnown
  <2>2. LatestIsSo'
    BY <1>1, <1>4, <1>5 DEF LogInv, LatestIsSo, Holds, Midway
  <2>3. ReportsSaid'
    BY <1>2, <1>3, <1>5, <1>7 DEF LogInv, ReportsSaid
  <2> QED
    BY <2>1, <2>2, <2>3
<1>11. SyncsKnown'
  <2> SUFFICES ASSUME NEW d \in Dirs, ReportsOf(d)' # {}
               PROVE  /\ pairs[d] # "unknown"
                      /\ \E l \in ReportsOf(d)' : /\ l.at = lastSync'[d]
                                                  /\ \A k \in ReportsOf(d)' : k.at <= l.at
    BY <1>1 DEF SyncsKnown
  <2>1. CASE d = w.dir /\ linked
    <3>1. line \in ReportsOf(d)'
      BY <1>2, <1>4, <2>1 DEF ReportsOf, FullLines
    <3>2. \A k \in ReportsOf(d)' : k.at <= clock
      BY <1>2, <1>6 DEF ReportsOf, FullLines
    <3> QED
      BY <1>2, <1>3, <1>8, <2>1, <3>1, <3>2
  <2>2. CASE d # w.dir
    <3>1. ReportsOf(d)' = ReportsOf(d)
      BY <1>2, <1>4, <2>2 DEF ReportsOf, FullLines
    <3> QED
      BY <1>1, <1>8, <2>2, <3>1 DEF LogInv, SyncsKnown
  <2>3. CASE ~linked
    BY <1>4, <2>3 DEF LogInv, LinesFit, ReportsOf, FullLines
  <2> QED
    BY <2>1, <2>2, <2>3
<1> QED
  BY <1>9, <1>10, <1>11 DEF LogInv

LEMMA ReceiveLog == Types /\ LogInv /\ Receive => LogInv'
<1> SUFFICES ASSUME Types, LogInv, Receive PROVE LogInv'
  OBVIOUS
<1> DEFINE c == Head(fss_in)
<1>1. /\ mpc = "select" /\ c \in Commands /\ todo' = Answers(c)
      /\ IF Answers(c) = << >> THEN UNCHANGED <<mpc, handling>>
         ELSE mpc' = "answer" /\ handling' = c
      /\ pairs' = [pairs EXCEPT ![c.dir] = Becomes(c)]
      /\ lastSync' = IF c.op = "add" /\ pairs[c.dir] = "unknown"
                     THEN [lastSync EXCEPT ![c.dir] = clock] ELSE lastSync
      /\ UNCHANGED <<workers, log, linked, clock>>
  BY DEF Receive, Types, TypeOK, file, counts
<1> HIDE DEF c
<1>2. /\ c.dir \in Dirs /\ c.op \in {"add", "cancel", "status", "sync", "shutdown"}
      /\ pairs[c.dir] \in {"unknown", "active", "cancelled"}
      /\ clock \in Nat /\ \A l \in log : l.at <= clock /\ l.dir \in Dirs
  BY <1>1, Constants, LogTypes DEF Types, LogInv, LinesFit
<1>3. /\ pairs'[c.dir] = Becomes(c)
      /\ \A d \in Dirs : d # c.dir => pairs'[d] = pairs[d] /\ lastSync'[d] = lastSync[d]
      /\ IF c.op = "add" /\ pairs[c.dir] = "unknown"
         THEN lastSync'[c.dir] = clock ELSE lastSync'[c.dir] = lastSync[c.dir]
  BY <1>1, <1>2 DEF Types, TypeOK
\* What a directory was, what it is, and what the answers are.
<1>4. \/ c.op = "add" /\ pairs[c.dir] = "active" /\ Becomes(c) = "active"
            /\ Answers(c) = <<"Already">>
      \/ c.op = "add" /\ pairs[c.dir] # "active" /\ Becomes(c) = "active"
            /\ Answers(c) = <<"Added", "Monitoring">>
      \/ c.op = "cancel" /\ pairs[c.dir] # "active" /\ Becomes(c) = pairs[c.dir]
            /\ Answers(c) = <<"Directory">>
      \/ c.op = "cancel" /\ pairs[c.dir] = "active" /\ Becomes(c) = "cancelled"
            /\ Answers(c) = <<"Monitoring">>
      \/ c.op = "sync" /\ pairs[c.dir] = "unknown" /\ Becomes(c) = pairs[c.dir]
            /\ Answers(c) = << >>
      \/ c.op = "sync" /\ pairs[c.dir] # "unknown" /\ Becomes(c) = pairs[c.dir]
            /\ Answers(c) \in TailsOf("sync")
      \/ c.op \in {"status", "shutdown"} /\ Becomes(c) = pairs[c.dir]
            /\ Answers(c) \in TailsOf(c.op)
  <2>1. CASE c.op = "add"
    BY <2>1 DEF Becomes, Answers
  <2>2. CASE c.op = "cancel"
    BY <2>2 DEF Becomes, Answers
  <2>3. CASE c.op = "status"
    BY <2>3 DEF Becomes, Answers, TailsOf
  <2>4. CASE c.op = "sync"
    BY <2>4 DEF Becomes, Answers, TailsOf
  <2>5. CASE c.op = "shutdown"
    BY <2>5 DEF Becomes, Answers, TailsOf
  <2> QED
    BY <1>2, <2>1, <2>2, <2>3, <2>4, <2>5
<1>5. Answers(c) \in TailsOf(c.op) \/ Answers(c) = << >>
  <2>1. /\ <<"Already">> \in TailsOf("add") /\ <<"Added", "Monitoring">> \in TailsOf("add")
        /\ <<"Directory">> \in TailsOf("cancel") /\ <<"Monitoring">> \in TailsOf("cancel")
    BY DEF TailsOf
  <2> QED
    BY <1>4, <2>1, Zenon
<1>6. HandlesKnown'
  <2> SUFFICES ASSUME mpc' = "answer" PROVE HandlesKnown'
    BY DEF HandlesKnown
  <2>1. handling' = c /\ Answers(c) # << >>
    BY <1>1
  <2>2. c.op = "sync" => pairs'[c.dir] # "unknown"
    BY <1>3, <1>4, <2>1
  <2>3. (todo \in TailsOf(handling.op))'
    BY <1>1, <1>5, <2>1 DEF TailsOf
  <2>4. (Midway(handling.dir) =>
           pairs[handling.dir] = IF handling.op = "add" THEN "active" ELSE "cancelled")'
    BY <1>1, <1>3, <1>4, <2>1 DEF Midway
  <2> QED
    BY <2>1, <2>2, <2>3, <2>4 DEF HandlesKnown
<1>7. ASSUME NEW d \in Dirs
      PROVE  /\ pairs[d] # "unknown" => pairs'[d] # "unknown" /\ lastSync'[d] = lastSync[d]
             /\ pairs'[d] = pairs[d] \/ Midway(d)'
  <2>1. CASE d # c.dir
    BY <1>3, <2>1
  <2>2. CASE d = c.dir
    <3>1. pairs[d] # "unknown" => pairs'[d] # "unknown" /\ lastSync'[d] = lastSync[d]
      BY <1>3, <1>4, <2>2
    <3>2. ASSUME pairs'[d] # pairs[d] PROVE Midway(d)'
      <4>1. /\ Answers(c) \in {<<"Added", "Monitoring">>, <<"Monitoring">>}
            /\ c.op \in {"add", "cancel"}
        BY <1>3, <1>4, <2>2, <3>2
      <4> QED
        BY <1>1, <2>2, <4>1 DEF Midway
    <3> QED
      BY <3>1, <3>2
  <2> QED
    BY <2>1, <2>2
<1>8. WorkersKnown'
  BY <1>1, <1>7, LogTypes DEF LogInv, WorkersKnown, Said, Types
<1>9. LatestIsSo'
  BY <1>1, <1>7 DEF LogInv, LatestIsSo, Said, Holds, Midway
<1>10. LinesFit' /\ ReportsSaid'
  BY <1>1 DEF LogInv, LinesFit, ReportsSaid, Said
<1>11. SyncsKnown'
  BY <1>1, <1>7 DEF LogInv, SyncsKnown, ReportsOf, FullLines
<1> QED
  BY <1>6, <1>8, <1>9, <1>10, <1>11 DEF LogInv

\* The next answer is a word, and after it is what is left.
LEMMA NextWord ==
  ASSUME NEW op, NEW s \in TailsOf(op),
         op \in {"add", "cancel", "status", "sync", "shutdown"}
  PROVE  /\ Head(s) = "Monitoring" <=> s = <<"Monitoring">>
         /\ s = <<"Monitoring">> => op \in {"add", "cancel"}
         /\ Head(s) = "Syncing" => op = "sync"
         /\ Len(s) = 1 <=> Tail(s) = << >>
         /\ Len(s) # 1 => Tail(s) \in TailsOf(op)
         /\ s = <<"Added", "Monitoring">> <=>
              Tail(s) = <<"Monitoring">> /\ Len(s) # 1 /\ op = "add"
         /\ op \in {"add", "cancel"} =>
              s \in {<<"Already">>, <<"Directory">>, <<"Added", "Monitoring">>, <<"Monitoring">>}
<1>1. ASSUME NEW a, s = <<a>>
      PROVE  /\ Head(s) = a /\ Len(s) = 1 /\ Tail(s) = << >>
             /\ s = <<"Monitoring">> <=> a = "Monitoring"
             /\ s # <<"Added", "Monitoring">>
  BY <1>1
<1>2. ASSUME NEW a, NEW b, s = <<a, b>>
      PROVE  /\ Head(s) = a /\ Len(s) = 2 /\ Len(s) # 1 /\ Tail(s) = <<b>> /\ Tail(s) # << >>
             /\ s # <<"Monitoring">>
             /\ s = <<"Added", "Monitoring">> <=> a = "Added" /\ b = "Monitoring"
             /\ Tail(s) = <<"Monitoring">> <=> b = "Monitoring"
  BY <1>2
<1> DEFINE Goal == /\ Head(s) = "Monitoring" <=> s = <<"Monitoring">>
                   /\ s = <<"Monitoring">> => op \in {"add", "cancel"}
                   /\ Head(s) = "Syncing" => op = "sync"
                   /\ Len(s) = 1 <=> Tail(s) = << >>
                   /\ Len(s) # 1 => Tail(s) \in TailsOf(op)
                   /\ s = <<"Added", "Monitoring">> <=>
                        Tail(s) = <<"Monitoring">> /\ Len(s) # 1 /\ op = "add"
                   /\ op \in {"add", "cancel"} =>
                        s \in {<<"Already">>, <<"Directory">>, <<"Added", "Monitoring">>,
                               <<"Monitoring">>}
<1>4. ASSUME NEW a, NEW b, s = <<a, b>>, a \notin {"Monitoring", "Syncing"},
             <<b>> \in TailsOf(op),
             op \in {"add", "cancel"} => a = "Added" /\ b = "Monitoring" /\ op = "add",
             op \notin {"add", "cancel"} => a # "Added" /\ b # "Monitoring"
      PROVE  Goal
  BY <1>2, <1>4
<1>5. ASSUME NEW a, s = <<a>>, a = "Monitoring" => op \in {"add", "cancel"},
             a = "Syncing" => op = "sync",
             op \in {"add", "cancel"} => a \in {"Already", "Directory", "Monitoring"}
      PROVE  Goal
  BY <1>1, <1>5
<1> HIDE DEF Goal
<1>6. CASE op = "add"
  <2>0. s = <<"Already">> \/ s = <<"Added", "Monitoring">> \/ s = <<"Monitoring">>
    BY <1>6 DEF TailsOf
  <2>1. CASE s = <<"Already">>
    BY <1>5, <1>6, <2>1
  <2>2. CASE s = <<"Added", "Monitoring">>
    <3>1. <<"Monitoring">> \in TailsOf(op)
      BY <1>6 DEF TailsOf
    <3> QED
      BY <1>6, <1>4, <2>2, <3>1
  <2>3. CASE s = <<"Monitoring">>
    BY <1>5, <1>6, <2>3
  <2> QED
    BY <2>0, <2>1, <2>2, <2>3
<1>7. CASE op = "cancel"
  <2>0. s = <<"Directory">> \/ s = <<"Monitoring">>
    BY <1>7 DEF TailsOf
  <2>1. CASE s = <<"Directory">>
    BY <1>5, <1>7, <2>1
  <2>2. CASE s = <<"Monitoring">>
    BY <1>5, <1>7, <2>2
  <2> QED
    BY <2>0, <2>1, <2>2
<1>8. CASE op = "sync"
  <2>0. s = <<"Sync", "Syncing">> \/ s = <<"Syncing">>
    BY <1>8 DEF TailsOf
  <2>1. CASE s = <<"Sync", "Syncing">>
    <3>1. <<"Syncing">> \in TailsOf(op)
      BY <1>8 DEF TailsOf
    <3> QED
      BY <1>8, <1>4, <2>1, <3>1
  <2>2. CASE s = <<"Syncing">>
    BY <1>5, <1>8, <2>2
  <2> QED
    BY <2>0, <2>1, <2>2
<1>9. CASE op \in {"status", "shutdown"}
  <2>0. s = <<"Directory">> \/ s = <<"Status", "details">> \/ s = <<"details">> \/ s = <<"Shutting">>
    BY <1>9 DEF TailsOf
  <2>1. CASE s = <<"Directory">>
    BY <1>5, <1>9, <2>1
  <2>2. CASE s = <<"Status", "details">>
    <3>1. <<"details">> \in TailsOf(op)
      BY <1>9 DEF TailsOf
    <3> QED
      BY <1>9, <1>4, <2>2, <3>1
  <2>3. CASE s = <<"details">>
    BY <1>5, <1>9, <2>3
  <2>4. CASE s = <<"Shutting">>
    BY <1>5, <1>9, <2>4
  <2> QED
    BY <2>0, <2>1, <2>2, <2>3, <2>4
<1>10. \/ op = "add" \/ op = "cancel" \/ op = "sync"
       \/ op \in {"status", "shutdown"}
  OBVIOUS
<1> QED
  BY <1>6, <1>7, <1>8, <1>9, <1>10, Zenon DEF Goal

LEMMA AnswerLog == Types /\ LogInv /\ Answer => LogInv'
<1> SUFFICES ASSUME Types, LogInv, Answer PROVE LogInv'
  OBVIOUS
<1> DEFINE word == Head(todo)
<1>1. /\ mpc = "answer" /\ todo' = Tail(todo)
      /\ IF word = "Monitoring"
         THEN Logged(Line(clock, IF handling.op = "add" THEN "started" ELSE "stopped",
                          handling.dir))
         ELSE UNCHANGED <<log, linked>>
      /\ workers' = IF \/ word = "Syncing"
                       \/ word = "Monitoring" /\ handling.op = "add"
                    THEN workers \union {Worker(FreeNumber, handling.dir, handling.op = "sync")}
                    ELSE workers
      /\ mpc' = CASE ~(Len(todo) = 1)  -> "answer"
                  [] word = "Shutting"  -> "stopping"
                  [] OTHER              -> "select"
      /\ handling' = IF Len(todo) = 1 THEN NoCommand ELSE handling
      /\ UNCHANGED <<pairs, lastSync, clock>>
  BY DEF Answer, file, memory, counts
<1>2. /\ handling.op \in {"add", "cancel", "status", "sync", "shutdown"}
      /\ handling.dir \in Dirs
      /\ todo \in TailsOf(handling.op)
      /\ handling.op = "sync" => pairs[handling.dir] # "unknown"
      /\ Midway(handling.dir) =>
           pairs[handling.dir] = IF handling.op = "add" THEN "active" ELSE "cancelled"
  BY <1>1, Constants DEF Types, TodoShape, LogInv, HandlesKnown
<1>3. /\ word = "Monitoring" <=> todo = <<"Monitoring">>
      /\ todo = <<"Monitoring">> => handling.op \in {"add", "cancel"}
      /\ word = "Syncing" => handling.op = "sync"
      /\ Len(todo) # 1 => todo' \in TailsOf(handling.op)
      /\ todo = <<"Added", "Monitoring">> <=>
           todo' = <<"Monitoring">> /\ Len(todo) # 1 /\ handling.op = "add"
      /\ handling.op \in {"add", "cancel"} =>
           todo \in {<<"Already">>, <<"Directory">>, <<"Added", "Monitoring">>, <<"Monitoring">>}
  BY <1>1, <1>2, NextWord
<1>4. /\ \/ Len(todo) = 1 /\ mpc' \in {"select", "stopping"}
         \/ Len(todo) # 1 /\ mpc' = "answer" /\ handling' = handling
      /\ \A v \in workers' : \/ v \in workers
                             \/ /\ v.dir = handling.dir
                                /\ \/ word = "Syncing"
                                   \/ word = "Monitoring" /\ handling.op = "add"
  <2>1. \A n, d, a : Worker(n, d, a).dir = d
    BY DEF Worker
  <2>2. \/ Len(todo) = 1 /\ mpc' \in {"select", "stopping"}
        \/ Len(todo) # 1 /\ mpc' = "answer" /\ handling' = handling
    <3>1. /\ handling' = IF Len(todo) = 1 THEN NoCommand ELSE handling
          /\ mpc' = CASE ~(Len(todo) = 1)  -> "answer"
                      [] word = "Shutting"  -> "stopping"
                      [] OTHER              -> "select"
      BY <1>1
    <3>2. word = "Shutting" => Len(todo) = 1
      BY <1>1, TailShape DEF Types, TodoShape
    <3> HIDE DEF word
    <3> QED
      BY <3>1, <3>2
  <2>3. CASE \/ word = "Syncing"
             \/ word = "Monitoring" /\ handling.op = "add"
    <3>1. workers' = workers \union {Worker(FreeNumber, handling.dir, handling.op = "sync")}
      BY <1>1, <2>3
    <3> DEFINE new == Worker(FreeNumber, handling.dir, handling.op = "sync")
    <3>2. new.dir = handling.dir
      BY <2>1
    <3>3. workers' = workers \union {new}
      BY <3>1
    <3> HIDE DEF word, new
    <3>4. \A v \in workers' : v \in workers \/ v.dir = handling.dir
      BY <3>2, <3>3
    <3> QED
      BY <2>2, <2>3, <3>4
  <2>4. CASE ~(\/ word = "Syncing"
               \/ word = "Monitoring" /\ handling.op = "add")
    <3>1. workers' = workers
      BY <1>1, <2>4
    <3> QED
      BY <2>2, <3>1
  <2> QED
    BY <2>3, <2>4
<1>5. HandlesKnown'
  <2> SUFFICES ASSUME mpc' = "answer" PROVE HandlesKnown'
    BY DEF HandlesKnown
  <2>1. Len(todo) # 1 /\ handling' = handling /\ todo' \in TailsOf(handling.op)
    BY <1>3, <1>4
  <2>2. (todo \in TailsOf(handling.op))'
    BY <2>1 DEF TailsOf
  <2>3. Midway(handling.dir)' => Midway(handling.dir)
    <3> SUFFICES ASSUME handling.op \in {"add", "cancel"} PROVE Midway(handling.dir)
      BY <2>1 DEF Midway
    <3>1. todo = <<"Added", "Monitoring">>
      BY <1>3, <2>1
    <3> QED
      BY <1>1, <3>1 DEF Midway
  <2>4. (Midway(handling.dir) =>
           pairs[handling.dir] = IF handling.op = "add" THEN "active" ELSE "cancelled")'
    BY <1>1, <1>2, <2>1, <2>3
  <2> QED
    BY <1>1, <1>2, <2>1, <2>2, <2>4 DEF HandlesKnown
<1>6. CASE word # "Monitoring"
  <2>1. log' = log /\ linked' = linked
    BY <1>1, <1>6
  <2>2. ASSUME NEW d \in Dirs PROVE Midway(d) => Midway(d)'
    <3> SUFFICES ASSUME Midway(d) PROVE Midway(d)'
      OBVIOUS
    <3>1. todo = <<"Added", "Monitoring">>
      BY <1>3, <1>6 DEF Midway
    <3>2. todo' = <<"Monitoring">> /\ mpc' = "answer" /\ handling' = handling
      BY <1>3, <1>4, <3>1
    <3> QED
      BY <3>2 DEF Midway
  <2>3. LatestIsSo'
    BY <1>1, <2>1, <2>2 DEF LogInv, LatestIsSo, Said, Holds
  <2>4. LinesFit' /\ ReportsSaid'
    BY <1>1, <2>1 DEF LogInv, LinesFit, ReportsSaid, Said
  <2>5. WorkersKnown'
    <3>1. handling.op = "sync" => /\ pairs[handling.dir] # "unknown"
                                  /\ linked => Said(handling.dir) # {}
      BY <1>2 DEF LogInv, LatestIsSo, Midway
    <3>2. \A v \in workers : pairs[v.dir] # "unknown" /\ (linked => Said(v.dir) # {})
      BY <1>1 DEF LogInv, WorkersKnown
    <3>3. \A v \in workers' : v \in workers \/ (v.dir = handling.dir /\ handling.op = "sync")
      BY <1>3, <1>4, <1>6
    <3>4. \A v \in workers' : pairs[v.dir] # "unknown" /\ (linked => Said(v.dir) # {})
      BY <3>1, <3>2, <3>3
    <3> QED
      BY <1>1, <2>1, <3>4 DEF WorkersKnown, Said
  <2>6. SyncsKnown'
    BY <1>1, <1>4, <2>1 DEF LogInv, SyncsKnown, ReportsOf
  <2> QED
    BY <1>5, <2>3, <2>4, <2>5, <2>6 DEF LogInv
<1>7. CASE word = "Monitoring"
  <2>0. PICK e \in Dirs : e = handling.dir
    BY <1>2
  <2> DEFINE what == IF handling.op = "add" THEN "started" ELSE "stopped"
             line == Line(clock, what, e)
  <2>1. /\ linked' = linked /\ log' = (IF linked THEN log \union {line} ELSE log)
        /\ handling.op \in {"add", "cancel"} /\ todo = <<"Monitoring">> /\ Len(todo) = 1
        /\ mpc' \in {"select", "stopping"}
    BY <1>1, <1>3, <1>4, <1>7, <2>0 DEF Logged
  <2>2. /\ line.at = clock /\ line.what = what /\ line.dir = e
        /\ what \in {"started", "stopped"}
        /\ clock <= clock /\ \A l \in log : l.at <= clock
    BY LogTypes DEF Line, Types, LogInv, LinesFit
  <2>3. /\ pairs[e] = (IF handling.op = "add" THEN "active" ELSE "cancelled")
        /\ Holds(e) = what
    <3>1. Midway(e)
      BY <1>1, <2>0, <2>1 DEF Midway
    <3> QED
      BY <1>2, <2>0, <2>1, <3>1 DEF Holds
  <2> HIDE DEF line, what
  <2>4. FullLines(log)' = FullLines(log)
    BY <2>1, <2>2 DEF FullLines
  <2>5. /\ \A d : Said(d) \subseteq Said(d)'
        /\ \A d : d # e => Said(d)' = Said(d)
        /\ linked => line \in Said(e)'
    BY <2>1, <2>2 DEF Said, MonitoringLines
  <2>6. \A l \in log' : l.at <= clock
    BY <2>1, <2>2
  <2>7. LatestIsSo'
    <3> SUFFICES ASSUME linked, NEW d \in Dirs, pairs[d] # "unknown"
                 PROVE  \E l \in Said(d)' : l.what = Holds(d) /\ \A k \in Said(d)' : k.at <= l.at
      BY <1>1, <2>1 DEF LatestIsSo, Holds
    <3>1. CASE d = e
      <4>1. \A k \in Said(d)' : k.at <= line.at
        BY <2>2, <2>6 DEF Said, MonitoringLines
      <4> QED
        BY <2>2, <2>3, <2>5, <3>1, <4>1
    <3>2. CASE d # e
      <4>1. ~Midway(d) /\ Said(d)' = Said(d)
        BY <2>0, <2>5, <3>2 DEF Midway
      <4> QED
        BY <4>1 DEF LogInv, LatestIsSo
    <3> QED
      BY <3>1, <3>2
  <2>8. LinesFit'
    BY <1>1, <2>1, <2>6 DEF LogInv, LinesFit
  <2>9. ReportsSaid'
    BY <2>4, <2>5 DEF LogInv, ReportsSaid
  <2>10. WorkersKnown'
    <3>1. \A v \in workers : pairs[v.dir] # "unknown" /\ (linked => Said(v.dir) # {})
      BY <1>1 DEF LogInv, WorkersKnown
    <3>2. pairs[e] # "unknown" /\ (linked => Said(e)' # {})
      BY <2>3, <2>5
    <3>3. \A v \in workers' : pairs[v.dir] # "unknown" /\ (linked => Said(v.dir)' # {})
      BY <1>4, <2>0, <2>5, <3>1, <3>2
    <3> QED
      BY <1>1, <2>1, <3>3 DEF WorkersKnown
  <2>11. SyncsKnown'
    BY <1>1, <2>1, <2>4 DEF LogInv, SyncsKnown, ReportsOf
  <2> QED
    BY <1>5, <2>7, <2>8, <2>9, <2>10, <2>11 DEF LogInv
<1> QED
  BY <1>6, <1>7

-----------------------------------------------------------------------------
LEMMA NextLog == Types /\ LogInv /\ [Next]_vars => LogInv'
<1> SUFFICES ASSUME Types, LogInv, [Next]_vars PROVE LogInv'
  OBVIOUS
<1>1. CASE \/ Connect \/ ConsoleSteps \/ Interrupt \/ OrphanEnds \/ UNCHANGED vars
           \/ \E c \in Commands : Send(c)
  <2>1. UNCHANGED <<manager, workers, file, clock>>
    BY <1>1 DEF Connect, ConsoleSteps, Read, EndOfFile, Interrupt, OrphanEnds, Send, vars
  <2> QED
    BY <2>1, ConsoleLog
<1>2. CASE Receive \/ Answer
  BY <1>2, ReceiveLog, AnswerLog
<1>3. CASE Waiting \/ Processing \/ Complete
  BY <1>3, EndLog
<1>4. CASE Terminate \/ Kill
  BY <1>4, GoneLog DEF Terminate, Kill
<1>5. CASE \E w \in workers : WaitReaps(w) \/ Reap(w)
  BY <1>5, ReportLog
<1>6. CASE \E w \in workers : WorkerEnds(w)
  BY <1>6, WorkerEndsLog
<1>7. CASE Start
  BY <1>7, StartLog
<1>8. CASE Tick \/ Purge
  BY <1>8, TickLog, PurgeLog
<1> QED
  BY <1>1, <1>2, <1>3, <1>4, <1>5, <1>6, <1>7, <1>8 DEF Next, ManagerSteps, WorkerSteps

(***************************************************************************)
(* The invariant of the log holds whatever is purged, interrupted, killed  *)
(* or started again.                                                       *)
(***************************************************************************)
THEOREM LogInductive == Spec => [](Types /\ LogInv)
<1>1. Types /\ LogInv /\ [Next]_vars => (Types /\ LogInv)'
  <2>1. Types /\ [Next]_vars => Types'
    BY NextTypes
  <2> QED
    BY <2>1, NextLog
<1> QED
  BY <1>1, InitTypes, InitLog, PTL DEF Spec

(***************************************************************************)
(* listMonitored and listStopped say of the directories that the log       *)
(* reports what the manager holds of them, where no two lines of one       *)
(* second dispute it.                                                      *)
(***************************************************************************)
THEOREM ListsTrue == Spec => []ListsAreTrue
<1>1. Types /\ LogInv => ListsAreTrue
  BY TrueHolds DEF Types, LogInv
<1> QED
  BY <1>1, LogInductive, PTL

(***************************************************************************)
(* Every row of listAll is in listMonitored or in listStopped, and no      *)
(* directory is in both.                                                   *)
(***************************************************************************)
THEOREM ListsComplete == Spec => []ListsPartition
<1>1. Types /\ LogInv => ListsPartition
  BY PartitionHolds DEF Types, LogInv
<1> QED
  BY <1>1, LogInductive, PTL

(***************************************************************************)
(* The console's status and listAll show the same last sync, of            *)
(* directories that the manager knows.                                     *)
(***************************************************************************)
THEOREM StatusAgrees == Spec => []StatusAgreesWithListAll
<1>1. Types /\ LogInv => StatusAgreesWithListAll
  BY StatusHolds DEF Types, LogInv
<1> QED
  BY <1>1, LogInductive, PTL
=============================================================================
