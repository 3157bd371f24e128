------------------------- MODULE ConsoleLinkProofs -------------------------
(***************************************************************************)
(* The types of ConsoleLink, and its InStep, for any directories, commands *)
(* and numbers of sessions, starts and seconds.                            *)
(***************************************************************************)
EXTENDS ConsoleLink, CommonLemmas, FiniteSetTheorems, TLAPS

(***************************************************************************)
(* What the types rest on: what can be left of the answers to a command,   *)
(* and that every command makes one numbered worker at most, so that the   *)
(* numbers given out stay below the number of commands.                    *)
(***************************************************************************)
AnswerTails == {<<"Already">>, <<"Added", "Monitoring">>, <<"Monitoring">>, <<"Directory">>,
                <<"Status", "details">>, <<"details">>, <<"Sync", "Syncing">>, <<"Syncing">>,
                <<"Shutting">>}

TodoShape == mpc = "answer" => todo \in AnswerTails /\ handling \in Commands

Numbered == {w \in workers : w.n > 0}

Handled == IF mpc = "answer" THEN 1 ELSE 0

NumbersFit == /\ IsFiniteSet(workers)
              /\ Cardinality(Numbered) + Len(fss_in) + Handled <= commands

Types == TypeOK /\ TodoShape /\ NumbersFit

(***************************************************************************)
(* The inductive invariant of InStep: where a command that is not a sync   *)
(* is between the prompt and the last of its answers.  No worker reports   *)
(* to the console, so nothing but these answers is in the FIFO; there are  *)
(* never more of them than the console has reads left; and the word that   *)
(* ends the reading is the last of them.                                   *)
(***************************************************************************)
CommandSent == /\ fss_in = <<cmd>> /\ fss_out = << >>
               /\ mpc = "select"
               /\ reads = times_to_read(cmd.op)

CommandEnding == /\ fss_in = << >> /\ cmd.op = "shutdown"
                 /\ mpc # "select"
                 /\ mpc = "answer" => todo = <<"Shutting">> /\ handling = cmd

CommandAnswered == /\ fss_in = << >> /\ cmd.op # "shutdown"
                   /\ mpc \in {"select", "answer"}
                   /\ mpc = "answer" => todo # <<"Shutting">> /\ handling = cmd
                   /\ Len(fss_out) + Len(todo) <= reads
                   /\ fss_out # << >> /\ Last(Head(fss_out)) =>
                         Len(fss_out) = 1 /\ todo = << >>

NoneReports == \A w \in workers : ~w.report_to_log

Following == /\ NoneReports
             /\ cpc = "prompt" => fss_in = << >> /\ fss_out = << >> /\ mpc = "select"
             /\ cpc = "read" => /\ cmd.op # "sync"
                                /\ CommandSent \/ CommandEnding \/ CommandAnswered

StepInv == inStep => cpc # "off" /\ (mpc # "gone" => Following)

\* ... and the FIFOs are those of the manager that runs.
SameFifos == inStep => ~cut

IInv == Types /\ SameFifos /\ StepInv

-----------------------------------------------------------------------------
\* Commands, answers and numbers.

WorkerSet == [n : 0..MaxCommands, dir : Dirs, report_to_log : BOOLEAN, done : BOOLEAN]
LineSet   == [at : 0..MaxClock, what : {"FULL", "started", "stopped"}, dir : Dirs]

LEMMA Constants ==
  /\ MaxCommands \in Nat /\ MaxSessions \in Nat /\ MaxStarts \in Nat /\ MaxClock \in Nat
  /\ MaxStarts > 0
  /\ Config \subseteq Dirs /\ IsFiniteSet(Config) /\ NoCommand \notin Commands
  /\ \A c \in Commands :
        c.op \in {"add", "cancel", "status", "sync", "shutdown"} /\ c.dir \in Dirs
BY ConsoleLinkAssumption

LEMMA ReadsOfCommand ==
  ASSUME NEW c \in Commands
  PROVE  times_to_read(c.op) \in 1..4
BY Constants DEF times_to_read

LEMMA AnswersShape ==
  ASSUME NEW c \in Commands
  PROVE  /\ Answers(c) = << >> \/ Answers(c) \in AnswerTails
         /\ c.op # "sync" => /\ Answers(c) \in AnswerTails
                             /\ Len(Answers(c)) <= times_to_read(c.op)
                             /\ Answers(c) = <<"Shutting">> <=> c.op = "shutdown"
<1>1. CASE c.op = "add"
  BY <1>1 DEF Answers, AnswerTails, times_to_read
<1>2. CASE c.op = "cancel"
  BY <1>2 DEF Answers, AnswerTails, times_to_read
<1>3. CASE c.op = "status"
  BY <1>3 DEF Answers, AnswerTails, times_to_read
<1>4. CASE c.op = "sync"
  BY <1>4 DEF Answers, AnswerTails
<1>5. CASE c.op = "shutdown"
  BY <1>5 DEF Answers, AnswerTails, times_to_read
<1> QED
  BY <1>1, <1>2, <1>3, <1>4, <1>5, Constants

\* What is left is a word, and what is left after it.
LEMMA TailShape ==
  ASSUME NEW s \in AnswerTails
  PROVE  /\ s \in Seq(Words) /\ s # << >> /\ Len(s) \in Nat
         /\ Head(s) \in Words /\ Tail(s) \in Seq(Words)
         /\ Len(s) = 1 => Tail(s) = << >>
         /\ Len(s) # 1 => Tail(s) \in AnswerTails /\ Tail(s) # <<"Shutting">>
         /\ Head(s) \in {"Syncing", "Monitoring", "Shutting"} \/ Last(Head(s)) => Len(s) = 1
         /\ Head(s) = "Shutting" <=> s = <<"Shutting">>
         /\ Len(Tail(s)) = Len(s) - 1
<1>1. ASSUME NEW a \in Words, s = <<a>>
      PROVE  /\ s \in Seq(Words) /\ s # << >> /\ Len(s) = 1
             /\ Head(s) = a /\ Tail(s) = << >>
  BY <1>1
<1>2. ASSUME NEW a \in Words, NEW b \in Words, s = <<a, b>>
      PROVE  /\ s \in Seq(Words) /\ s # << >> /\ Len(s) = 2
             /\ Head(s) = a /\ Tail(s) = <<b>> /\ Len(Tail(s)) = 1
             /\ s # <<"Shutting">>
  BY <1>2
<1>3. CASE \E a \in Words : s = <<a>>
  BY <1>1, <1>3
<1>4. ASSUME NEW a \in Words, NEW b \in Words, s = <<a, b>>
      PROVE  /\ ~Last(a) /\ a \notin {"Syncing", "Monitoring", "Shutting"}
             /\ <<b>> \in AnswerTails /\ b # "Shutting"
  BY <1>4 DEF AnswerTails, Last
<1>5. CASE \E a, b \in Words : s = <<a, b>>
  BY <1>2, <1>4, <1>5
<1>6. \/ \E a \in Words : s = <<a>>
      \/ \E a, b \in Words : s = <<a, b>>
  BY DEF AnswerTails, Words
<1> QED
  BY <1>3, <1>5, <1>6

LEMMA NumbersTaken ==
  ASSUME NEW W, IsFiniteSet(W)
  PROVE  /\ IsFiniteSet({w.n : w \in W})
         /\ Cardinality({w.n : w \in W}) <= Cardinality(W)
<1> DEFINE T == {w.n : w \in W}
           f == [w \in W |-> w.n]
<1>1. f \in Surjection(W, T)
  BY DEF Surjection
<1> HIDE DEF T, f
<1>2. IsFiniteSet(T) /\ Cardinality(T) <= Cardinality(W)
  BY <1>1, FS_Surjection
<1> QED
  BY <1>2 DEF T

\* There is a free number, and it is one of the first.
LEMMA FreeNumberFits ==
  ASSUME workers \subseteq WorkerSet, IsFiniteSet(workers)
  PROVE  /\ FreeNumber \in Nat \ {0}
         /\ FreeNumber <= Cardinality(Numbered) + 1
<1> DEFINE Nums == {w.n : w \in Numbered}
           k    == Cardinality(workers)
<1>1. /\ IsFiniteSet(Numbered) /\ k \in Nat
      /\ Cardinality(Numbered) \in Nat /\ Cardinality(Numbered) <= k
  BY FS_Subset, FS_CardinalityType DEF Numbered
<1>2. /\ IsFiniteSet(Nums) /\ Cardinality(Nums) \in Nat
      /\ Cardinality(Nums) <= Cardinality(Numbered)
  BY <1>1, NumbersTaken, FS_CardinalityType
<1>3. \A w \in workers : w.n \in Nat /\ (w.n # 0 => w \in Numbered /\ w.n \in Nums)
  BY Constants DEF WorkerSet, Numbered
<1> DEFINE IsFree(n) == /\ \A w \in workers : w.n # n
                        /\ \A j \in 1..(n - 1) : \E w \in workers : w.n = j
<1>4. \A n \in Nat : 1..n \subseteq Nums => n <= Cardinality(Numbered)
  <2> SUFFICES ASSUME NEW n \in Nat, 1..n \subseteq Nums
               PROVE  n <= Cardinality(Numbered)
    OBVIOUS
  <2> HIDE DEF Nums
  <2>1. Cardinality(1..n) = n
    BY FS_Interval
  <2>2. Cardinality(1..n) <= Cardinality(Nums)
    BY <1>2, FS_Subset
  <2> QED
    BY <1>1, <1>2, <2>1, <2>2
<1>5. \E n \in 1..(k + 1) : IsFree(n)
  <2> DEFINE Free == (1..(k + 1)) \ Nums
  <2>1. Free # {} /\ Free \subseteq Nat
    <3> HIDE DEF k, Nums
    <3>1. k + 1 \in Nat /\ ~(k + 1 <= Cardinality(Numbered))
      BY <1>1
    <3>2. ~(1..(k + 1) \subseteq Nums)
      BY <1>4, <3>1
    <3> QED
      BY <3>2
  <2>2. PICK n \in Free : \A m \in Free : n <= m
    <3> HIDE DEF Free
    <3> QED
      BY <2>1, Least
  <2>3. n \in 1..(k + 1) /\ n \notin Nums
    OBVIOUS
  <2>4. \A w \in workers : w.n # n
    BY <1>1, <1>3, <2>3
  <2>5. \A j \in 1..(n - 1) : j \in Nums
    BY <1>1, <2>2, <2>3
  <2>6. \A j \in 1..(n - 1) : \E w \in workers : w.n = j
    BY <2>5 DEF Numbered
  <2> QED
    BY <2>3, <2>4, <2>6
<1>6. FreeNumber \in 1..(k + 1) /\ IsFree(FreeNumber)
  <2>1. FreeNumber = CHOOSE n \in 1..(k + 1) : IsFree(n)
    BY DEF FreeNumber
  <2> HIDE DEF IsFree
  <2> QED
    BY <1>5, <2>1
<1>7. FreeNumber - 1 \in Nat /\ 1..(FreeNumber - 1) \subseteq Nums
  <2>1. FreeNumber - 1 \in Nat
    BY <1>1, <1>6
  <2>2. \A j \in 1..(FreeNumber - 1) : j \in Nums
    BY <1>3, <1>6, <2>1
  <2> QED
    BY <2>1, <2>2
<1>8. FreeNumber - 1 <= Cardinality(Numbered)
  BY <1>4, <1>7
<1> QED
  BY <1>1, <1>6, <1>8

-----------------------------------------------------------------------------
\* Types.

LEMMA TypesUnfold ==
  /\ TypeOK => workers \subseteq WorkerSet /\ log \subseteq LineSet
  /\ workers' \subseteq WorkerSet <=>
        workers' \subseteq [n : 0..MaxCommands, dir : Dirs, report_to_log : BOOLEAN,
                            done : BOOLEAN]
  /\ log' \subseteq LineSet <=>
        log' \subseteq [at : 0..MaxClock, what : {"FULL", "started", "stopped"}, dir : Dirs]
BY DEF TypeOK, WorkerSet, LineSet

\* The workers of a start, which have number 0.
LEMMA FirstWorkers ==
  LET W == {Worker(0, d, FALSE) : d \in Config}
  IN  /\ W \subseteq WorkerSet /\ IsFiniteSet(W)
      /\ {w \in W : w.n > 0} = {} /\ \A w \in W : ~w.report_to_log
<1> DEFINE W == {Worker(0, d, FALSE) : d \in Config}
           f == [d \in Config |-> Worker(0, d, FALSE)]
<1>1. \A d \in Config : /\ Worker(0, d, FALSE) \in WorkerSet
                        /\ Worker(0, d, FALSE).n = 0
                        /\ ~Worker(0, d, FALSE).report_to_log
  BY Constants DEF Worker, WorkerSet
<1>2. f \in Surjection(Config, W)
  BY DEF Surjection
<1>3. IsFiniteSet(W)
  <2> HIDE DEF W, f
  <2> QED
    BY <1>2, Constants, FS_Surjection
<1>4. \A w \in W : w \in WorkerSet /\ w.n = 0 /\ ~w.report_to_log
  BY <1>1
<1>5. \A w \in W : ~(w.n > 0)
  <2> HIDE DEF W
  <2>1. \A n : n = 0 => ~(n > 0)
    OBVIOUS
  <2> QED
    BY <1>4, <2>1
<1> HIDE DEF W
<1>6. W \subseteq WorkerSet /\ {w \in W : w.n > 0} = {}
  BY <1>4, <1>5
<1> USE DEF W
<1> QED
  BY <1>3, <1>4, <1>6

LEMMA StartedLine ==
  ASSUME clock \in 0..MaxClock
  PROVE  {Started(d) : d \in Config} \subseteq LineSet
BY Constants DEF Started, Line, LineSet

LEMMA InitTypes == Init => Types
<1> SUFFICES ASSUME Init PROVE Types
  OBVIOUS
<1>1. /\ workers \subseteq WorkerSet /\ IsFiniteSet(workers) /\ Numbered = {}
  BY FirstWorkers DEF Init, Numbered
<1>2. log \subseteq LineSet
  BY StartedLine, Constants DEF Init
<1>3. /\ fss_in \in Seq(Commands) /\ fss_out \in Seq(Words) /\ todo \in Seq(Words)
      /\ mpc = "select" /\ todo = << >> /\ Len(fss_in) = 0 /\ commands = 0
  BY DEF Init
<1>4. TypeOK
  <2>0. named \in BOOLEAN /\ cut \in BOOLEAN /\ orphans \subseteq 1..MaxCommands
    BY DEF Init
  <2>1. /\ pairs \in [Dirs -> {"unknown", "active", "cancelled"}]
        /\ lastSync \in [Dirs -> 0..MaxClock] /\ clock \in 0..MaxClock
        /\ linked \in BOOLEAN /\ inStep \in BOOLEAN
    <3>1. /\ pairs = [d \in Dirs |-> IF d \in Config THEN "active" ELSE "unknown"]
          /\ lastSync = [d \in Dirs |-> clock]
          /\ clock = 0 /\ linked = TRUE /\ inStep = FALSE
      BY DEF Init
    <3>2. 0 \in 0..MaxClock
      BY Constants
    <3> QED
      BY <3>1, <3>2
  <2>2. /\ commands \in 0..MaxCommands /\ sessions \in 0..MaxSessions
        /\ starts \in 0..MaxStarts
        /\ reads \in 0..4 /\ (reads > 0 <=> cpc = "read") /\ cpc = "off"
        /\ cmd = NoCommand /\ handling = NoCommand
    <3>1. /\ commands = 0 /\ sessions = 0 /\ starts = 1 /\ reads = 0 /\ cpc = "off"
          /\ cmd = NoCommand /\ handling = NoCommand
      BY DEF Init
    <3>2. 0 \in 0..MaxCommands /\ 0 \in 0..MaxSessions /\ 1 \in 0..MaxStarts /\ 0 \in 0..4
      BY Constants
    <3> QED
      BY <3>1, <3>2
  <2> QED
    BY <1>1, <1>2, <1>3, <2>0, <2>1, <2>2 DEF TypeOK, WorkerSet, LineSet
<1>5. TodoShape /\ NumbersFit
  BY <1>1, <1>3, FS_EmptySet DEF TodoShape, NumbersFit, Handled
<1> QED
  BY <1>4, <1>5 DEF Types

\* The workers lose some of theirs, or one is done.
LEMMA FewerNumbers ==
  ASSUME Types, workers' \subseteq workers
  PROVE  /\ workers' \subseteq WorkerSet /\ IsFiniteSet(workers')
         /\ Cardinality(Numbered') <= Cardinality(Numbered)
         /\ Cardinality(Numbered) \in Nat /\ Cardinality(Numbered') \in Nat
<1>1. IsFiniteSet(workers) /\ IsFiniteSet(workers') /\ workers' \subseteq WorkerSet
  BY FS_Subset, TypesUnfold DEF Types, NumbersFit
<1>2. IsFiniteSet(Numbered) /\ IsFiniteSet(Numbered') /\ Numbered' \subseteq Numbered
  BY <1>1, FS_Subset DEF Numbered
<1> QED
  BY <1>1, <1>2, FS_Subset, FS_CardinalityType

LEMMA DoneNumbers ==
  ASSUME Types, NEW w \in workers, workers' = (workers \ {w}) \union {[w EXCEPT !.done = TRUE]}
  PROVE  /\ workers' \subseteq WorkerSet /\ IsFiniteSet(workers')
         /\ Cardinality(Numbered') <= Cardinality(Numbered)
         /\ Cardinality(Numbered) \in Nat /\ Cardinality(Numbered') \in Nat
<1> DEFINE v == [w EXCEPT !.done = TRUE]
<1>1. workers \subseteq WorkerSet /\ IsFiniteSet(workers)
  BY TypesUnfold DEF Types, NumbersFit
<1>2. v \in WorkerSet /\ v.n = w.n
  BY <1>1 DEF WorkerSet
<1> HIDE DEF v
<1>3. workers' = (workers \ {w}) \union {v}
  BY DEF v
<1>4. workers' \subseteq WorkerSet /\ IsFiniteSet(workers')
  <2>1. IsFiniteSet(workers \ {w})
    BY <1>1, FS_RemoveElement
  <2> QED
    BY <1>1, <1>2, <1>3, <2>1, FS_AddElement
<1>5. IsFiniteSet(Numbered) /\ IsFiniteSet(Numbered')
  BY <1>1, <1>4, FS_Subset DEF Numbered
<1>6. /\ Cardinality(Numbered) \in Nat /\ Cardinality(Numbered') \in Nat
  BY <1>5, FS_CardinalityType
<1>7. CASE w \in Numbered
  <2>1. Numbered' = (Numbered \ {w}) \union {v}
    BY <1>2, <1>3, <1>7 DEF Numbered
  <2>2. /\ IsFiniteSet(Numbered \ {w})
        /\ Cardinality(Numbered \ {w}) = Cardinality(Numbered) - 1
    BY <1>5, <1>7, FS_RemoveElement
  <2>3. \/ Cardinality(Numbered') = Cardinality(Numbered \ {w})
        \/ Cardinality(Numbered') = Cardinality(Numbered \ {w}) + 1
    BY <2>1, <2>2, FS_AddElement
  <2> QED
    BY <1>4, <1>6, <2>2, <2>3
<1>8. CASE w \notin Numbered
  <2>1. Numbered' \subseteq Numbered
    BY <1>2, <1>3, <1>8 DEF Numbered
  <2> QED
    BY <1>4, <1>5, <1>6, <2>1, FS_Subset
<1> QED
  BY <1>7, <1>8

\* One more, with the free number.
LEMMA OneMoreNumber ==
  ASSUME Types, mpc = "answer", NEW d \in Dirs, NEW asked \in BOOLEAN,
         workers' = workers \union {Worker(FreeNumber, d, asked)}
  PROVE  /\ workers' \subseteq WorkerSet /\ IsFiniteSet(workers')
         /\ Cardinality(Numbered') <= Cardinality(Numbered) + 1
         /\ Cardinality(Numbered) \in Nat /\ Cardinality(Numbered') \in Nat
<1> DEFINE v == Worker(FreeNumber, d, asked)
<1>1. workers \subseteq WorkerSet /\ IsFiniteSet(workers) /\ commands \in 0..MaxCommands
      /\ Cardinality(Numbered) + Len(fss_in) + 1 <= commands /\ Len(fss_in) \in Nat
  BY TypesUnfold DEF Types, NumbersFit, TypeOK, Handled
<1>2. IsFiniteSet(Numbered) /\ Cardinality(Numbered) \in Nat
  BY <1>1, FS_Subset, FS_CardinalityType DEF Numbered
<1>3. FreeNumber \in 0..MaxCommands /\ FreeNumber > 0
  <2>1. FreeNumber \in Nat \ {0} /\ FreeNumber <= Cardinality(Numbered) + 1
    BY <1>1, FreeNumberFits
  <2> QED
    BY <1>1, <1>2, <2>1, Constants
<1>4. v \in WorkerSet /\ v.n > 0
  BY <1>3 DEF Worker, WorkerSet
<1> HIDE DEF v
<1>5. workers' = workers \union {v}
  BY DEF v
<1>6. workers' \subseteq WorkerSet /\ IsFiniteSet(workers')
  BY <1>1, <1>4, <1>5, FS_AddElement
<1>7. Numbered' = Numbered \union {v}
  BY <1>4, <1>5 DEF Numbered
<1>8. IsFiniteSet(Numbered') /\ Cardinality(Numbered') <= Cardinality(Numbered) + 1
  <2>1. /\ IsFiniteSet(Numbered \union {v})
        /\ \/ Cardinality(Numbered \union {v}) = Cardinality(Numbered)
           \/ Cardinality(Numbered \union {v}) = Cardinality(Numbered) + 1
    BY <1>2, FS_AddElement
  <2> QED
    BY <1>2, <1>7, <2>1
<1> QED
  BY <1>2, <1>6, <1>8, FS_CardinalityType

LEMMA ConsoleTypes ==
  ASSUME Types, \/ Connect \/ Read \/ EndOfFile \/ Interrupt
                \/ \E c \in Commands : Send(c)
  PROVE  Types'
<1> USE Constants
<1>1. TypeOK /\ TodoShape /\ NumbersFit
  BY DEF Types
<1>2. /\ UNCHANGED <<manager, workers, file, clock, starts>>
      /\ Numbered' = Numbered /\ Handled' = Handled
  BY DEF Connect, Read, EndOfFile, Interrupt, Send, manager, counts, Numbered, Handled
<1>3. TodoShape'
  BY <1>1, <1>2 DEF TodoShape, manager
<1> DEFINE Few == /\ fss_in' \in Seq(Commands) /\ commands' \in 0..MaxCommands
                  /\ Len(fss_in') - Len(fss_in) <= commands' - commands
                  /\ Len(fss_in) \in Nat /\ Len(fss_in') \in Nat
                  /\ fss_out' \in Seq(Words)
           Console == /\ cpc' \in {"off", "prompt", "read"}
                      /\ cmd' \in Commands \union {NoCommand}
                      /\ reads' \in 0..4 /\ (reads' > 0 <=> cpc' = "read")
                      /\ inStep' \in BOOLEAN /\ sessions' \in 0..MaxSessions
<1>0. /\ cpc \in {"off", "prompt", "read"}
      /\ cmd \in Commands \union {NoCommand}
      /\ reads \in 0..4 /\ (reads > 0 <=> cpc = "read")
      /\ inStep \in BOOLEAN /\ sessions \in 0..MaxSessions /\ commands \in 0..MaxCommands
      /\ fss_in \in Seq(Commands) /\ fss_out \in Seq(Words)
  BY <1>1 DEF TypeOK
<1>4. Few
  <2>1. CASE UNCHANGED <<fss_in, fss_out, commands>>
    BY <1>0, <2>1
  <2>2. CASE UNCHANGED <<fss_in, commands>> /\ fss_out' = << >>
    BY <1>0, <2>2
  <2>4. CASE fss_in' = << >> /\ fss_out' = << >> /\ commands' = commands
    <3>1. Len(fss_in) \in Nat /\ Len(fss_in') = 0
      BY <1>0, <2>4
    <3> QED
      BY <1>0, <2>4, <3>1
  <2>3. ASSUME NEW c \in Commands, Send(c) PROVE Few
    <3>1. /\ commands < MaxCommands /\ commands' = commands + 1 /\ fss_out' = fss_out
          /\ fss_in' = Append(fss_in, c) \/ fss_in' = fss_in
      BY <2>3 DEF Send
    <3> QED
      BY <1>0, <3>1
  <2> QED
    BY <2>1, <2>2, <2>3, <2>4 DEF Connect, Read, EndOfFile, Interrupt, fifos, counts
<1>5. NumbersFit'
  <2>1. Cardinality(Numbered) \in Nat /\ Handled \in Nat /\ commands \in Nat
    BY <1>1, FS_Subset, FS_CardinalityType DEF NumbersFit, Numbered, Handled, TypeOK
  <2> QED
    BY <1>1, <1>2, <1>4, <2>1 DEF NumbersFit
<1>6. Console
  <2>1. CASE Connect
    BY <1>0, <2>1 DEF Connect
  <2>2. ASSUME reads' = 0, cpc' \in {"off", "prompt"}, cmd' = NoCommand,
               inStep' = FALSE \/ inStep' = inStep, sessions' = sessions
        PROVE  Console
    <3>1. 0 \in 0..4 /\ ~(0 > 0)
      OBVIOUS
    <3>2. cpc' \in {"off", "prompt", "read"} /\ cpc' # "read"
      BY <2>2
    <3>3. reads' \in 0..4 /\ ~(reads' > 0)
      BY <2>2, <3>1, Zenon
    <3>4. inStep' \in BOOLEAN
      BY <1>0, <2>2, Zenon
    <3>5. cmd' \in Commands \union {NoCommand}
      BY <2>2, Zenon
    <3>6. sessions' \in 0..MaxSessions
      BY <1>0, <2>2, Zenon
    <3> QED
      BY <3>2, <3>3, <3>4, <3>5, <3>6, Zenon
  <2>3. ASSUME reads # 1, reads' = reads - 1, cpc = "read",
               UNCHANGED <<cpc, cmd, inStep, sessions>>
        PROVE  Console
    <3>1. reads \in 1..4
      BY <1>0, <2>3
    <3>2. reads' \in 0..4 /\ reads' > 0
      BY <2>3, <3>1
    <3> QED
      BY <1>0, <2>3, <3>2, Zenon
  <2>4. CASE Read \/ EndOfFile
    <3>1. /\ sessions' = sessions /\ cpc = "read"
          /\ \E last \in BOOLEAN : (reads = 1 => last) /\ ReadDone(last)
      BY <2>4 DEF Read, EndOfFile, counts, Last
    <3>2. PICK last \in BOOLEAN : (reads = 1 => last) /\ ReadDone(last)
      BY <3>1
    <3>3. \/ /\ reads' = 0 /\ cpc' \in {"off", "prompt"} /\ cmd' = NoCommand
             /\ inStep' = FALSE \/ inStep' = inStep
          \/ reads # 1 /\ reads' = reads - 1 /\ UNCHANGED <<cpc, cmd, inStep>>
      BY <3>2 DEF ReadDone, Ends
    <3> QED
      BY <2>2, <2>3, <3>1, <3>3
  <2>5. CASE Interrupt
    BY <2>2, <2>5 DEF Interrupt, Ends, counts
  <2>6. ASSUME NEW c \in Commands, Send(c) PROVE Console
    <3>1. sessions' = sessions
      BY <2>6 DEF Send
    <3>2. CASE OtherEnd
      <4>1. /\ cpc' = "read" /\ cmd' = c /\ reads' = times_to_read(c.op)
            /\ inStep' = (inStep /\ c.op # "sync")
        BY <2>6, <3>2 DEF Send
      <4>2. inStep' \in BOOLEAN
        BY <1>0, <4>1
      <4>3. reads' \in 0..4 /\ reads' > 0
        BY <4>1, ReadsOfCommand
      <4> QED
        BY <1>0, <3>1, <4>1, <4>2, <4>3
    <3>3. CASE ~OtherEnd
      BY <2>2, <2>6, <3>1, <3>3 DEF Send, Ends
    <3> QED
      BY <3>2, <3>3
  <2> QED
    BY <2>1, <2>4, <2>5, <2>6
<1>7. named' \in BOOLEAN /\ cut' \in BOOLEAN /\ orphans' \subseteq 1..MaxCommands
  BY <1>1 DEF Connect, Read, EndOfFile, Interrupt, Send, fifos, links, TypeOK
<1>8. TypeOK'
  BY <1>1, <1>2, <1>4, <1>6, <1>7 DEF TypeOK, manager, memory, file
<1> QED
  BY <1>3, <1>5, <1>8 DEF Types

LEMMA ReceiveTypes == Types /\ Receive => Types'
<1> SUFFICES ASSUME Types, Receive PROVE Types'
  OBVIOUS
<1> USE Constants
<1> DEFINE c == Head(fss_in)
<1>1. TypeOK /\ TodoShape /\ NumbersFit
  BY DEF Types
<1>2. /\ c \in Commands /\ fss_in # << >> /\ fss_in' = << >>
      /\ mpc = "select" /\ Len(fss_in) >= 1 /\ Len(fss_in) \in Nat
      /\ UNCHANGED <<console, fss_out, links, workers, file, clock, counts, inStep>>
  BY <1>1 DEF Receive, TypeOK
<1>3. /\ todo' = Answers(c)
      /\ \/ Answers(c) = << >> /\ UNCHANGED <<mpc, handling>>
         \/ Answers(c) \in AnswerTails /\ mpc' = "answer" /\ handling' = c
  <2>1. /\ todo' = Answers(c)
        /\ IF Answers(c) = << >> THEN UNCHANGED <<mpc, handling>>
           ELSE mpc' = "answer" /\ handling' = c
    BY DEF Receive
  <2> HIDE DEF c
  <2> QED
    BY <1>2, <2>1, AnswersShape
<1>4. /\ todo' \in Seq(Words) /\ (todo' # << >> <=> mpc' = "answer")
      /\ TodoShape'
  <2>1. CASE Answers(c) = << >>
    <3>1. Answers(c) \notin AnswerTails
      BY <2>1, TailShape
    <3>2. todo' = << >> /\ mpc' = "select"
      BY <1>2, <1>3, <2>1, <3>1
    <3> QED
      BY <3>2 DEF TodoShape
  <2>2. CASE Answers(c) \in AnswerTails /\ mpc' = "answer" /\ handling' = c
    <3> HIDE DEF c
    <3>1. todo' \in AnswerTails
      BY <1>3, <2>2
    <3> QED
      BY <1>2, <2>2, <3>1, TailShape DEF TodoShape
  <2> QED
    BY <1>3, <2>1, <2>2
<1>5. pairs' \in [Dirs -> {"unknown", "active", "cancelled"}]
  <2>1. pairs' = [pairs EXCEPT ![c.dir] = Becomes(c)] /\ c.dir \in Dirs
    BY <1>2 DEF Receive
  <2>2. Becomes(c) \in {"unknown", "active", "cancelled"}
    BY <1>1, <2>1 DEF Becomes, TypeOK
  <2> HIDE DEF c
  <2> QED
    BY <1>1, <2>1, <2>2 DEF TypeOK
<1>6. lastSync' \in [Dirs -> 0..MaxClock]
  <2>1. lastSync' = [lastSync EXCEPT ![c.dir] = clock] \/ lastSync' = lastSync
    BY DEF Receive
  <2> QED
    BY <1>1, <2>1 DEF TypeOK
<1>7. NumbersFit'
  <2>1. Numbered' = Numbered /\ Handled = 0 /\ Handled' \in {0, 1} /\ Len(fss_in') = 0
    BY <1>2 DEF Numbered, Handled
  <2>2. Cardinality(Numbered) \in Nat /\ commands \in Nat
    BY <1>1, FS_Subset, FS_CardinalityType DEF NumbersFit, Numbered, TypeOK
  <2> QED
    BY <1>1, <1>2, <2>1, <2>2 DEF NumbersFit, counts
<1>8. /\ fss_in' \in Seq(Commands) /\ handling' \in Commands \union {NoCommand}
      /\ mpc' \in {"select", "answer", "stopping", "waiting", "processing", "complete", "gone"}
  BY <1>1, <1>2, <1>3 DEF TypeOK
<1>9. TypeOK'
  BY <1>1, <1>2, <1>4, <1>5, <1>6, <1>8 DEF TypeOK, links, console, file, counts
<1> QED
  BY <1>4, <1>7, <1>9 DEF Types

\* A line that the manager logs.
LEMMA LoggedTypes ==
  ASSUME TypeOK, NEW what \in {"FULL", "started", "stopped"}, NEW d \in Dirs,
         Logged(Line(clock, what, d)) \/ UNCHANGED file
  PROVE  log' \subseteq LineSet /\ linked' \in BOOLEAN
<1>1. Line(clock, what, d) \in LineSet
  BY DEF TypeOK, Line, LineSet
<1>2. log \subseteq LineSet /\ linked \in BOOLEAN
  BY DEF TypeOK, LineSet
<1> DEFINE line == Line(clock, what, d)
<1> HIDE DEF line
<1> QED
  BY <1>1, <1>2 DEF Logged, file, line

LEMMA AnswerTypes == Types /\ Answer => Types'
<1> SUFFICES ASSUME Types, Answer PROVE Types'
  OBVIOUS
<1> USE Constants
<1> DEFINE word == Head(todo)
           d    == handling.dir
<1>1. TypeOK /\ TodoShape /\ NumbersFit
  BY DEF Types
<1>2. /\ mpc = "answer" /\ todo \in AnswerTails /\ handling \in Commands /\ d \in Dirs
      /\ word \in Words /\ todo' = Tail(todo)
      /\ UNCHANGED <<console, fss_in, links, memory, clock, counts, inStep>>
  BY <1>1, TailShape DEF Answer, TodoShape
<1>3. fss_out' \in Seq(Words)
  <2>1. fss_out' = Append(fss_out, word)
    BY DEF Answer
  <2> HIDE DEF word
  <2> QED
    BY <1>1, <1>2, <2>1 DEF TypeOK
<1>4. log' \subseteq LineSet /\ linked' \in BOOLEAN
  <2>1. \E what \in {"FULL", "started", "stopped"} :
            Logged(Line(clock, what, d)) \/ UNCHANGED file
    BY DEF Answer
  <2> HIDE DEF d
  <2> QED
    BY <1>1, <1>2, <2>1, LoggedTypes
<1>5. /\ workers' = workers \/ (workers' = workers \union {Worker(FreeNumber, d, handling.op = "sync")}
                               /\ Len(todo) = 1 /\ mpc' = "select")
      /\ \/ Len(todo) = 1 /\ mpc' \in {"select", "stopping"} /\ handling' = NoCommand
         \/ Len(todo) # 1 /\ mpc' = "answer" /\ handling' = handling
  <2>1. /\ word \in {"Syncing", "Monitoring", "Shutting"} => Len(todo) = 1
        /\ word # "Shutting" \/ word \notin {"Syncing", "Monitoring"}
    BY <1>2, TailShape
  <2>2. /\ workers' = IF \/ word = "Syncing"
                         \/ word = "Monitoring" /\ handling.op = "add"
                      THEN workers \union {Worker(FreeNumber, d, handling.op = "sync")}
                      ELSE workers
        /\ mpc' = CASE ~(Len(todo) = 1)  -> "answer"
                    [] word = "Shutting"  -> "stopping"
                    [] OTHER              -> "select"
        /\ handling' = IF Len(todo) = 1 THEN NoCommand ELSE handling
    BY DEF Answer
  <2> HIDE DEF word, d
  <2> QED
    BY <2>1, <2>2
<1>6. /\ todo' \in Seq(Words) /\ (todo' # << >> <=> mpc' = "answer")
      /\ TodoShape' /\ handling' \in Commands \union {NoCommand}
  <2>1. CASE Len(todo) = 1
    <3>1. todo' = << >> /\ mpc' # "answer"
      BY <1>2, <1>5, <2>1, TailShape
    <3> QED
      BY <1>5, <2>1, <3>1 DEF TodoShape
  <2>2. CASE Len(todo) # 1
    <3>1. todo' \in AnswerTails
      BY <1>2, <2>2, TailShape
    <3>2. todo' \in Seq(Words) /\ todo' # << >>
      BY <3>1, TailShape
    <3> QED
      BY <1>2, <1>5, <2>2, <3>1, <3>2 DEF TodoShape
  <2> QED
    BY <2>1, <2>2
<1>7. workers' \subseteq WorkerSet /\ NumbersFit'
  <2>1. Cardinality(Numbered) \in Nat /\ commands \in Nat /\ Len(fss_in) \in Nat
        /\ Cardinality(Numbered) + Len(fss_in) + 1 <= commands
        /\ fss_in' = fss_in /\ commands' = commands
    BY <1>1, <1>2, FS_Subset, FS_CardinalityType DEF NumbersFit, Numbered, Handled, TypeOK, counts
  <2>2. CASE workers' = workers
    <3>1. Numbered' = Numbered /\ Handled' \in {0, 1}
      BY <2>2 DEF Numbered, Handled
    <3> QED
      BY <1>1, <2>1, <2>2, <3>1, TypesUnfold DEF NumbersFit
  <2>3. CASE /\ workers' = workers \union {Worker(FreeNumber, d, handling.op = "sync")}
             /\ mpc' = "select"
    <3>1. (handling.op = "sync") \in BOOLEAN
      OBVIOUS
    <3>2. /\ workers' \subseteq WorkerSet /\ IsFiniteSet(workers')
          /\ Cardinality(Numbered') <= Cardinality(Numbered) + 1
          /\ Cardinality(Numbered) \in Nat /\ Cardinality(Numbered') \in Nat
      <4> HIDE DEF d
      <4> QED
        BY <1>2, <2>3, <3>1, OneMoreNumber
    <3>3. Handled' = 0
      BY <2>3 DEF Handled
    <3> QED
      BY <2>1, <3>2, <3>3 DEF NumbersFit
  <2> QED
    BY <1>5, <2>2, <2>3
<1>8. mpc' \in {"select", "answer", "stopping", "waiting", "processing", "complete", "gone"}
  BY <1>5
<1>9. TypeOK'
  BY <1>1, <1>2, <1>3, <1>4, <1>6, <1>7, <1>8, TypesUnfold DEF TypeOK, links, console, memory, counts
<1> QED
  BY <1>6, <1>7, <1>9 DEF Types

\* The steps that only take the manager further on its way to its end.
LEMMA EndTypes ==
  ASSUME Types, Waiting \/ Processing \/ Complete
  PROVE  Types'
<1>1. TypeOK /\ TodoShape /\ NumbersFit
  BY DEF Types
<1>2. /\ mpc # "answer" /\ mpc' # "answer"
      /\ mpc' \in {"waiting", "processing", "complete"}
      /\ UNCHANGED <<console, fss_in, links, handling, todo, memory, workers, file, clock,
                     counts, inStep>>
  BY DEF Waiting, Processing, Complete
<1>3. \E word \in Words : fss_out' = Append(fss_out, word)
  BY DEF Waiting, Processing, Complete, Words
<1>4. fss_out' \in Seq(Words)
  BY <1>1, <1>3 DEF TypeOK
<1>5. TodoShape' /\ NumbersFit'
  BY <1>1, <1>2 DEF TodoShape, NumbersFit, Numbered, Handled, counts
<1>6. TypeOK'
  BY <1>1, <1>2, <1>4 DEF TypeOK, links, console, memory, file, counts
<1> QED
  BY <1>5, <1>6 DEF Types

\* A worker is reported, to the log and perhaps to the console.
LEMMA ReportTypes ==
  ASSUME Types, NEW w \in workers, Reap(w) \/ WaitReaps(w)
  PROVE  Types'
<1> USE Constants
<1>1. TypeOK /\ TodoShape /\ NumbersFit
  BY DEF Types
<1>2. /\ mpc # "answer" /\ workers' = workers \ {w}
      /\ Logged(Line(clock, "FULL", w.dir))
      /\ lastSync' = [lastSync EXCEPT ![w.dir] = clock]
      /\ fss_out' = fss_out \/ fss_out' = Append(fss_out, "Sync")
      /\ UNCHANGED <<console, fss_in, links, mpc, handling, todo, pairs, clock, counts, inStep>>
  BY DEF Reap, WaitReaps, Reported, fifos
<1>3. w.dir \in Dirs
  BY <1>1, TypesUnfold DEF WorkerSet
<1>4. log' \subseteq LineSet /\ linked' \in BOOLEAN
  BY <1>1, <1>2, <1>3, LoggedTypes
<1>5. fss_out' \in Seq(Words)
  <2>1. "Sync" \in Words
    BY DEF Words
  <2>2. fss_out \in Seq(Words)
    BY <1>1 DEF TypeOK
  <2>3. fss_out' = fss_out \/ fss_out' = Append(fss_out, "Sync")
    BY <1>2
  <2> QED
    BY <2>1, <2>2, <2>3
<1>6. lastSync' \in [Dirs -> 0..MaxClock]
  BY <1>1, <1>2, <1>3 DEF TypeOK
<1>7. workers' \subseteq WorkerSet /\ NumbersFit'
  <2>1. /\ workers' \subseteq WorkerSet /\ IsFiniteSet(workers')
        /\ Cardinality(Numbered') <= Cardinality(Numbered)
        /\ Cardinality(Numbered) \in Nat /\ Cardinality(Numbered') \in Nat
    BY <1>2, FewerNumbers
  <2> QED
    BY <1>1, <1>2, <2>1 DEF NumbersFit, Handled, TypeOK, counts
<1>8. TypeOK'
  BY <1>1, <1>2, <1>4, <1>5, <1>6, <1>7, TypesUnfold DEF TypeOK, links, console, counts
<1>9. TodoShape'
  BY <1>1, <1>2 DEF TodoShape
<1> QED
  BY <1>7, <1>8, <1>9 DEF Types

LEMMA WorkerEndsTypes ==
  ASSUME Types, NEW w \in workers, WorkerEnds(w)
  PROVE  Types'
<1> USE Constants
<1>1. TypeOK /\ TodoShape /\ NumbersFit
  BY DEF Types
<1>2. /\ \/ workers' = workers \ {w}
         \/ workers' = (workers \ {w}) \union {[w EXCEPT !.done = TRUE]}
      /\ UNCHANGED <<console, fifos, manager, file, clock, counts, inStep>>
  BY DEF WorkerEnds
<1>3. /\ workers' \subseteq WorkerSet /\ IsFiniteSet(workers')
      /\ Cardinality(Numbered') <= Cardinality(Numbered)
      /\ Cardinality(Numbered) \in Nat /\ Cardinality(Numbered') \in Nat
  <2>1. CASE workers' = workers \ {w}
    BY <2>1, FewerNumbers
  <2>2. CASE workers' = (workers \ {w}) \union {[w EXCEPT !.done = TRUE]}
    BY <2>2, DoneNumbers
  <2> QED
    BY <1>2, <2>1, <2>2
<1>4. NumbersFit'
  <2>1. /\ fss_in' = fss_in /\ Handled' = Handled /\ commands' = commands
        /\ Len(fss_in) \in Nat /\ Handled \in Nat /\ commands \in Nat
    BY <1>1, <1>2 DEF Handled, TypeOK, counts, fifos, manager
  <2> QED
    BY <1>1, <1>3, <2>1 DEF NumbersFit
<1>5. TypeOK'
  BY <1>1, <1>2, <1>3, TypesUnfold DEF TypeOK, links, console, fifos, manager, memory, file, counts
<1>6. TodoShape'
  BY <1>1, <1>2 DEF TodoShape, manager
<1> QED
  BY <1>4, <1>5, <1>6 DEF Types

LEMMA GoneTypes == Types /\ (Terminate \/ Kill) => Types'
<1> SUFFICES ASSUME Types, Gone, named' \in BOOLEAN PROVE Types'
  BY DEF Terminate, Kill, Types, TypeOK
<1> USE Constants
<1>1. TypeOK /\ TodoShape /\ NumbersFit
  BY DEF Types
<1>2. /\ mpc' = "gone" /\ handling' = NoCommand /\ todo' = << >>
      /\ workers' \subseteq workers
      /\ UNCHANGED <<console, fss_in, fss_out, cut, orphans, file, clock, counts, inStep>>
  BY DEF Gone
<1>3. /\ pairs' \in [Dirs -> {"unknown", "active", "cancelled"}]
      /\ lastSync' \in [Dirs -> 0..MaxClock]
  <2>1. 0 \in 0..MaxClock
    OBVIOUS
  <2> QED
    BY <2>1 DEF Gone
<1>4. /\ workers' \subseteq WorkerSet /\ IsFiniteSet(workers')
      /\ Cardinality(Numbered') <= Cardinality(Numbered)
      /\ Cardinality(Numbered) \in Nat /\ Cardinality(Numbered') \in Nat
  BY <1>2, FewerNumbers
<1>5. NumbersFit'
  <2>1. Handled' = 0 /\ Handled \in {0, 1}
    BY <1>2 DEF Handled
  <2> QED
    BY <1>1, <1>2, <1>4, <2>1 DEF NumbersFit, TypeOK, counts
<1>6. TodoShape'
  BY <1>2 DEF TodoShape
<1>7. todo' \in Seq(Words) /\ (todo' # << >> <=> mpc' = "answer")
  BY <1>2
<1>8. TypeOK'
  BY <1>1, <1>2, <1>3, <1>4, <1>7, TypesUnfold DEF TypeOK, console, file, counts
<1> QED
  BY <1>5, <1>6, <1>8 DEF Types

LEMMA StartTypes == Types /\ Start => Types'
<1> SUFFICES ASSUME Types, Start PROVE Types'
  OBVIOUS
<1> USE Constants
<1>1. TypeOK /\ TodoShape /\ NumbersFit
  BY DEF Types
<1>2. /\ mpc' = "select" /\ handling' = NoCommand /\ todo' = << >>
      /\ starts < MaxStarts /\ starts' = starts + 1
      /\ linked' = TRUE /\ inStep' = FALSE /\ named' = TRUE /\ cut' \in BOOLEAN
      /\ UNCHANGED <<console, clock, commands, sessions>>
  BY DEF Start
<1>3. workers' \subseteq WorkerSet /\ IsFiniteSet(workers') /\ Numbered' = {}
  BY FirstWorkers DEF Start, Numbered
<1>4. log' \subseteq LineSet
  BY <1>1, StartedLine DEF Start, NewLog, TypeOK
<1>5. /\ pairs' \in [Dirs -> {"unknown", "active", "cancelled"}]
      /\ lastSync' \in [Dirs -> 0..MaxClock]
  <2>1. clock \in 0..MaxClock
    BY <1>1 DEF TypeOK
  <2> QED
    BY <2>1 DEF Start
<1>6. /\ fss_in' \in Seq(Commands) /\ fss_out' \in Seq(Words)
      /\ Len(fss_in') \in Nat /\ Len(fss_in') <= Len(fss_in) /\ Len(fss_in) \in Nat
      /\ orphans' \subseteq 1..MaxCommands
  <2>1. \A w \in workers : w.n \in 0..MaxCommands
    BY <1>1, TypesUnfold DEF WorkerSet
  <2>2. {w.n : w \in workers} \ {0} \subseteq 1..MaxCommands
    BY <2>1
  <2>3. fss_in \in Seq(Commands) /\ fss_out \in Seq(Words) /\ orphans \subseteq 1..MaxCommands
    BY <1>1 DEF TypeOK
  <2>4. CASE UNCHANGED <<fss_in, fss_out>>
    <3>1. orphans' = orphans \/ orphans' = {w.n : w \in workers} \ {0} \/ orphans' = {}
      BY DEF Start
    <3>2. orphans' \subseteq 1..MaxCommands
      BY <2>2, <2>3, <3>1
    <3>3. Len(fss_in) \in Nat /\ Len(fss_in) <= Len(fss_in)
      BY <2>3
    <3> QED
      BY <2>3, <2>4, <3>2, <3>3, Zenon
  <2>5. CASE fss_in' = << >> /\ fss_out' = << >> /\ orphans' = {}
    <3>1. Len(fss_in') = 0
      BY <2>5
    <3> QED
      BY <2>3, <2>5, <3>1
  <2> QED
    BY <2>4, <2>5 DEF Start
<1>7. NumbersFit'
  <2>1. Handled' = 0 /\ Handled \in Nat /\ commands \in Nat
    BY <1>1, <1>2 DEF Handled, TypeOK
  <2>2. Cardinality(Numbered) \in Nat
    BY <1>1, FS_Subset, FS_CardinalityType DEF NumbersFit, Numbered
  <2> QED
    BY <1>1, <1>2, <1>3, <1>6, <2>1, <2>2, FS_EmptySet DEF NumbersFit
<1>8. todo' \in Seq(Words) /\ (todo' # << >> <=> mpc' = "answer") /\ TodoShape'
  BY <1>2 DEF TodoShape
<1>9. starts' \in 0..MaxStarts
  BY <1>1, <1>2 DEF TypeOK
<1>10. TypeOK'
  BY <1>1, <1>2, <1>3, <1>4, <1>5, <1>6, <1>8, <1>9, TypesUnfold DEF TypeOK, console
<1> QED
  BY <1>7, <1>8, <1>10 DEF Types

\* The clock, the purge, the workers of an earlier manager, and nothing.
LEMMA OutsideTypes ==
  ASSUME Types, Tick \/ Purge \/ OrphanEnds \/ UNCHANGED vars
  PROVE  Types'
<1> USE Constants
<1>1. TypeOK /\ TodoShape /\ NumbersFit
  BY DEF Types
<1>2. UNCHANGED <<console, fss_in, fss_out, named, cut, manager, workers, counts, inStep>>
  BY DEF Tick, Purge, OrphanEnds, vars, fifos, links
<1>3. clock' \in 0..MaxClock
  BY <1>1 DEF Tick, Purge, OrphanEnds, vars, TypeOK
<1>4. log' \subseteq log /\ linked' \in BOOLEAN
  BY <1>1 DEF Tick, Purge, OrphanEnds, vars, file, TypeOK
<1>5. orphans' \subseteq orphans
  BY DEF Tick, Purge, OrphanEnds, vars, fifos, links
<1>6. TypeOK'
  BY <1>1, <1>2, <1>3, <1>4, <1>5 DEF TypeOK, console, manager, memory, counts
<1>7. TodoShape' /\ NumbersFit'
  BY <1>1, <1>2 DEF TodoShape, NumbersFit, Numbered, Handled, manager, counts
<1> QED
  BY <1>6, <1>7 DEF Types

-----------------------------------------------------------------------------
\* The console in step.

\* What none of the steps of workers and of what is outside disturbs.
LEMMA FollowingKept ==
  ASSUME Following, UNCHANGED <<console, fss_in, fss_out, mpc, handling, todo>>,
         \A w \in workers' : ~w.report_to_log
  PROVE  Following'
BY DEF Following, NoneReports, CommandSent, CommandEnding, CommandAnswered, console

LEMMA ConnectSteps == StepInv /\ Connect => StepInv'
BY DEF StepInv, Connect, Following, NoneReports, fifos, manager

LEMMA SendSteps ==
  ASSUME Types, StepInv, NEW c \in Commands, Send(c)
  PROVE  StepInv'
<1> SUFFICES ASSUME inStep' PROVE cpc' # "off" /\ (mpc' # "gone" => Following')
  BY DEF StepInv
<1>1. CASE OtherEnd
  <2>1. /\ cpc' = "read" /\ cmd' = c /\ reads' = times_to_read(c.op)
        /\ fss_in' = Append(fss_in, c) /\ inStep /\ c.op # "sync" /\ cpc = "prompt"
        /\ UNCHANGED <<fss_out, mpc, handling, todo, workers>>
    BY <1>1 DEF Send, manager
  <2>2. ASSUME mpc' # "gone" PROVE Following'
    <3>1. Following
      BY <2>1, <2>2 DEF StepInv
    <3>2. fss_in = << >> /\ fss_out = << >> /\ mpc = "select" /\ NoneReports
      BY <2>1, <3>1 DEF Following
    <3>3. fss_in' = <<c>>
      BY <2>1, <3>2
    <3>4. CommandSent'
      BY <2>1, <3>2, <3>3 DEF CommandSent
    <3> QED
      BY <2>1, <3>2, <3>4 DEF Following, NoneReports
  <2> QED
    BY <2>1, <2>2
<1>2. CASE ~OtherEnd
  BY <1>2 DEF Send, Ends
<1> QED
  BY <1>1, <1>2

LEMMA ReadSteps == Types /\ StepInv /\ Read => StepInv'
<1> SUFFICES ASSUME Types, StepInv, Read, inStep'
             PROVE  cpc' # "off" /\ (mpc' # "gone" => Following')
  BY DEF StepInv
<1> DEFINE last == reads = 1 \/ Last(Head(fss_out))
<1>1. /\ cpc = "read" /\ fss_out # << >> /\ fss_out' = << >> /\ ReadDone(last)
      /\ UNCHANGED <<fss_in, mpc, handling, todo, workers>>
  BY DEF Read, manager
<1>2. /\ inStep
      /\ \/ /\ last /\ cmd.op # "shutdown"
            /\ cpc' = "prompt" /\ cmd' = NoCommand /\ reads' = 0
         \/ ~last /\ reads' = reads - 1 /\ UNCHANGED <<cpc, cmd>>
  BY <1>1 DEF ReadDone, Ends
<1>3. cpc' # "off"
  BY <1>1, <1>2
<1>4. ASSUME mpc' # "gone" PROVE Following'
  <2>1. Following /\ NoneReports' /\ cmd.op # "sync"
        /\ (CommandSent \/ CommandEnding \/ CommandAnswered)
    BY <1>1, <1>2, <1>4 DEF StepInv, Following, NoneReports
  <2>2. ~CommandSent
    BY <1>1 DEF CommandSent
  <2>3. CASE CommandEnding
    <3>1. ~last /\ UNCHANGED <<cpc, cmd>>
      BY <1>2, <2>3 DEF CommandEnding
    <3>2. CommandEnding'
      BY <1>1, <2>3, <3>1 DEF CommandEnding
    <3> QED
      BY <1>1, <2>1, <3>1, <3>2 DEF Following
  <2>4. CASE CommandAnswered
    <3>1. /\ Len(fss_out) \in Nat \ {0} /\ Len(todo) \in Nat /\ reads \in Nat
          /\ (Len(todo) = 0 => todo = << >>)
          /\ (todo # << >> <=> mpc = "answer")
      BY <1>1 DEF Types, TypeOK
    <3>2. CASE last /\ cpc' = "prompt"
      <4>1. todo = << >>
        BY <1>1, <2>4, <3>1, <3>2 DEF CommandAnswered
      <4>2. mpc = "select" /\ fss_in = << >>
        BY <2>4, <3>1, <4>1 DEF CommandAnswered
      <4> QED
        BY <1>1, <2>1, <3>2, <4>2 DEF Following
    <3>3. CASE ~last /\ reads' = reads - 1 /\ UNCHANGED <<cpc, cmd>>
      <4>1. Len(fss_out') + Len(todo') <= reads'
        BY <1>1, <2>4, <3>1, <3>3 DEF CommandAnswered
      <4>2. CommandAnswered'
        BY <1>1, <2>4, <3>3, <4>1 DEF CommandAnswered
      <4> QED
        BY <1>1, <2>1, <3>3, <4>2 DEF Following
    <3> QED
      BY <1>2, <3>2, <3>3
  <2> QED
    BY <2>1, <2>2, <2>3, <2>4
<1> QED
  BY <1>3, <1>4

LEMMA EndOfFileSteps == SameFifos /\ StepInv /\ (EndOfFile \/ Interrupt) => StepInv'
<1>1. ASSUME SameFifos, StepInv, EndOfFile PROVE StepInv'
  <2>1. /\ mpc' = "gone" \/ cut
        /\ cpc = "read" /\ ReadDone(reads = 1)
    BY <1>1 DEF EndOfFile, OtherEnd, Held, manager
  <2>2. inStep' => inStep /\ cpc' # "off"
    BY <2>1 DEF ReadDone, Ends
  <2> QED
    BY <1>1, <2>1, <2>2 DEF StepInv, SameFifos
<1>2. ASSUME Interrupt PROVE StepInv'
  BY <1>2 DEF Interrupt, Ends, StepInv
<1> QED
  BY <1>1, <1>2

LEMMA ReceiveSteps == Types /\ StepInv /\ Receive => StepInv'
<1> SUFFICES ASSUME Types, StepInv, Receive, inStep'
             PROVE  cpc' # "off" /\ Following'
  BY DEF StepInv
<1> DEFINE c == Head(fss_in)
<1>1. /\ mpc = "select" /\ fss_in # << >> /\ fss_in' = << >> /\ todo' = Answers(c)
      /\ (Answers(c) # << >> => mpc' = "answer" /\ handling' = c)
      /\ inStep /\ UNCHANGED <<console, fss_out, workers>>
  BY DEF Receive
<1>2. cpc # "off" /\ Following
  BY <1>1 DEF StepInv
<1>3. CASE cpc = "prompt"
  BY <1>1, <1>2, <1>3 DEF Following
<1>4. CASE cpc = "read"
  <2>1. NoneReports /\ cmd.op # "sync" /\ CommandSent
    BY <1>1, <1>2, <1>4 DEF Following, CommandEnding, CommandAnswered
  <2>2. c = cmd /\ fss_out = << >> /\ reads = times_to_read(cmd.op) /\ cmd \in Commands
    BY <2>1 DEF CommandSent, Types, TypeOK
  <2>3. /\ Answers(cmd) \in AnswerTails
        /\ Len(Answers(cmd)) <= times_to_read(cmd.op)
        /\ Answers(cmd) = <<"Shutting">> <=> cmd.op = "shutdown"
    BY <2>1, <2>2, AnswersShape
  <2>4. /\ todo' = Answers(cmd) /\ mpc' = "answer" /\ handling' = cmd
        /\ Len(todo') \in Nat
    BY <1>1, <2>2, <2>3, TailShape
  <2>5. cmd' = cmd /\ cpc' = cpc /\ reads' = reads /\ fss_out' = << >> /\ Len(fss_out') = 0
    BY <1>1, <2>2 DEF console
  <2>6. CASE cmd.op = "shutdown"
    <3>1. CommandEnding'
      BY <1>1, <2>3, <2>4, <2>5, <2>6 DEF CommandEnding
    <3> QED
      BY <1>1, <1>4, <2>1, <2>5, <3>1 DEF Following, NoneReports
  <2>7. CASE cmd.op # "shutdown"
    <3>1. Len(fss_out') + Len(todo') <= reads'
      BY <2>2, <2>3, <2>4, <2>5
    <3>2. CommandAnswered'
      BY <1>1, <2>3, <2>4, <2>5, <2>7, <3>1 DEF CommandAnswered
    <3> QED
      BY <1>1, <1>4, <2>1, <2>5, <3>2 DEF Following, NoneReports
  <2> QED
    BY <2>6, <2>7
<1>5. cpc \in {"prompt", "read"}
  BY <1>2 DEF Types, TypeOK
<1> QED
  BY <1>3, <1>4, <1>5

LEMMA AnswerSteps == Types /\ StepInv /\ Answer => StepInv'
<1> SUFFICES ASSUME Types, StepInv, Answer, inStep'
             PROVE  cpc' # "off" /\ Following'
  BY DEF StepInv
<1> DEFINE word == Head(todo)
<1>1. /\ mpc = "answer" /\ fss_out' = Append(fss_out, word) /\ todo' = Tail(todo)
      /\ inStep /\ UNCHANGED <<console, fss_in>>
      /\ todo \in AnswerTails /\ handling \in Commands /\ handling.dir \in Dirs
      /\ fss_out \in Seq(Words) /\ reads \in Nat
  <2>1. /\ mpc = "answer" /\ fss_out' = Append(fss_out, word) /\ todo' = Tail(todo)
        /\ UNCHANGED <<console, fss_in, inStep>>
    BY DEF Answer
  <2>2. /\ todo \in AnswerTails /\ handling \in Commands
        /\ fss_out \in Seq(Words) /\ reads \in Nat
    BY <2>1 DEF Types, TypeOK, TodoShape
  <2> QED
    BY <2>1, <2>2, Constants
<1>2. /\ mpc' = CASE ~(Len(todo) = 1)  -> "answer"
                  [] word = "Shutting"  -> "stopping"
                  [] OTHER              -> "select"
      /\ handling' = IF Len(todo) = 1 THEN NoCommand ELSE handling
      /\ \/ workers' = workers
         \/ workers' = workers \union {Worker(FreeNumber, handling.dir, handling.op = "sync")}
  BY DEF Answer
<1>3. /\ cpc = "read" /\ NoneReports /\ cmd.op # "sync"
      /\ (CommandEnding \/ CommandAnswered) /\ handling = cmd
  <2>1. cpc # "off" /\ Following
    BY <1>1 DEF StepInv
  <2>2. cpc = "read"
    BY <1>1, <2>1 DEF Following, Types, TypeOK
  <2> QED
    BY <1>1, <2>1, <2>2 DEF Following, CommandSent, CommandEnding, CommandAnswered
<1>4. cpc' = "read" /\ cmd' = cmd /\ reads' = reads
  BY <1>1, <1>3 DEF console
<1>5. NoneReports'
  <2>1. \A n, d : ~Worker(n, d, handling.op = "sync").report_to_log
    BY <1>3 DEF Worker
  <2> QED
    BY <1>2, <1>3, <2>1 DEF NoneReports
<1>6. CASE CommandEnding
  <2>1. word = "Shutting" /\ Len(todo) = 1
    BY <1>1, <1>6, TailShape DEF CommandEnding
  <2>2. mpc' = "stopping"
    <3> HIDE DEF word
    <3> QED
      BY <1>2, <2>1
  <2>3. CommandEnding'
    BY <1>1, <1>4, <1>6, <2>2 DEF CommandEnding
  <2> QED
    BY <1>3, <1>4, <1>5, <2>3 DEF Following
<1>7. CASE CommandAnswered
  <2>1. /\ todo # <<"Shutting">> /\ todo # << >> /\ word # "Shutting" /\ word \in Words
        /\ Len(todo) \in Nat /\ Len(Tail(todo)) = Len(todo) - 1
        /\ Len(todo) = 1 => Tail(todo) = << >>
        /\ Len(todo) # 1 => Tail(todo) \in AnswerTails /\ Tail(todo) # <<"Shutting">>
        /\ Last(word) => Len(todo) = 1
    BY <1>1, <1>7, TailShape DEF CommandAnswered
  <2> HIDE DEF word
  <2>2. \/ Len(todo) = 1 /\ mpc' = "select"
        \/ /\ Len(todo) # 1 /\ mpc' = "answer" /\ handling' = handling
           /\ todo' # <<"Shutting">>
    BY <1>1, <1>2, <2>1
  <2>3. Len(fss_out') = Len(fss_out) + 1 /\ Len(fss_out) \in Nat
    BY <1>1, <2>1
  <2>4. Len(fss_out') + Len(todo') <= reads'
    BY <1>1, <1>4, <1>7, <2>1, <2>3 DEF CommandAnswered
  <2>5. Last(Head(fss_out')) => Len(fss_out') = 1 /\ todo' = << >>
    <3>1. CASE fss_out = << >>
      <4>1. Head(fss_out') = word /\ Len(fss_out') = 1
        BY <1>1, <2>1, <3>1
      <4> QED
        BY <1>1, <2>1, <4>1
    <3>2. CASE fss_out # << >>
      <4>1. Head(fss_out') = Head(fss_out)
        BY <1>1, <2>1, <3>2
      <4>2. ~Last(Head(fss_out))
        BY <1>7, <2>1, <3>2 DEF CommandAnswered
      <4> QED
        BY <4>1, <4>2
    <3> QED
      BY <3>1, <3>2
  <2>6. CommandAnswered'
    BY <1>1, <1>3, <1>4, <1>7, <2>2, <2>4, <2>5 DEF CommandAnswered
  <2> QED
    BY <1>3, <1>4, <1>5, <2>6 DEF Following
<1> QED
  BY <1>3, <1>4, <1>6, <1>7

LEMMA ReportSteps ==
  ASSUME Types, StepInv, NEW w \in workers, WorkerEnds(w) \/ Reap(w) \/ WaitReaps(w)
  PROVE  StepInv'
<1> SUFFICES ASSUME inStep', mpc' # "gone" PROVE cpc' # "off" /\ Following'
  BY DEF StepInv, WorkerEnds, Reap, WaitReaps, manager, console
<1>1. /\ inStep /\ UNCHANGED <<console, fss_in, mpc, handling, todo>>
      /\ fss_out' = fss_out \/ w.report_to_log
  BY DEF WorkerEnds, Reap, WaitReaps, manager, fifos
<1>2. Following /\ NoneReports /\ cpc' # "off"
  BY <1>1 DEF StepInv, Following, console
<1>3. fss_out' = fss_out
  BY <1>1, <1>2 DEF NoneReports
<1>4. \A v \in workers' : v \in workers \/ v = [w EXCEPT !.done = TRUE]
  BY DEF WorkerEnds, Reap, WaitReaps, Reported
<1>5. workers \subseteq WorkerSet
  BY TypesUnfold DEF Types
<1>6. [w EXCEPT !.done = TRUE].report_to_log = w.report_to_log
  BY <1>5 DEF WorkerSet
<1>7. \A v \in workers' : ~v.report_to_log
  BY <1>2, <1>4, <1>6, Zenon DEF NoneReports
<1> QED
  BY <1>1, <1>2, <1>3, <1>7, FollowingKept

LEMMA EndSteps ==
  ASSUME StepInv, Waiting \/ Processing \/ Complete
  PROVE  StepInv'
<1> SUFFICES ASSUME inStep' PROVE cpc' # "off" /\ Following'
  BY DEF StepInv
<1>1. /\ mpc \notin {"select", "answer", "gone"} /\ mpc' \notin {"select", "answer", "gone"}
      /\ inStep /\ UNCHANGED <<console, fss_in, handling, todo, workers>>
  BY DEF Waiting, Processing, Complete
<1>2. cpc # "off" /\ Following
  BY <1>1 DEF StepInv
<1>3. cpc # "prompt" /\ NoneReports
  BY <1>1, <1>2 DEF Following
<1>4. CASE cpc = "read"
  <2>1. CommandEnding /\ cmd.op # "sync"
    BY <1>1, <1>2, <1>4 DEF Following, CommandSent, CommandAnswered
  <2>2. CommandEnding'
    BY <1>1, <2>1 DEF CommandEnding, console
  <2> QED
    BY <1>1, <1>3, <1>4, <2>1, <2>2 DEF Following, NoneReports, console
<1> QED
  BY <1>1, <1>2, <1>3, <1>4 DEF Following, NoneReports, console

LEMMA OtherSteps ==
  ASSUME StepInv, Gone \/ Start \/ Tick \/ Purge \/ OrphanEnds \/ UNCHANGED vars
  PROVE  StepInv'
<1>1. CASE Gone
  BY <1>1 DEF Gone, StepInv, console
<1>2. CASE Start
  BY <1>2 DEF Start, StepInv, console
<1>3. CASE Tick \/ Purge \/ OrphanEnds \/ UNCHANGED vars
  <2> SUFFICES ASSUME inStep' PROVE cpc' # "off" /\ (mpc' # "gone" => Following')
    BY DEF StepInv
  <2>1. inStep /\ UNCHANGED <<console, fss_in, fss_out, mpc, handling, todo, workers>>
    BY <1>3 DEF Tick, Purge, OrphanEnds, vars, fifos, manager
  <2>2. cpc # "off" /\ (mpc # "gone" => Following)
    BY <2>1 DEF StepInv
  <2>3. Following => Following'
    BY <2>1, FollowingKept DEF Following, NoneReports
  <2> QED
    BY <2>1, <2>2, <2>3 DEF console
<1> QED
  BY <1>1, <1>2, <1>3

\* Only a start leaves a console with the FIFOs of an earlier manager.
LEMMA NextSameFifos == SameFifos /\ [Next]_vars => SameFifos'
<1> SUFFICES ASSUME SameFifos, [Next]_vars PROVE SameFifos'
  OBVIOUS
<1>1. CASE Connect \/ Start
  BY <1>1 DEF Connect, Start, SameFifos
<1>2. CASE \/ ConsoleSteps \/ Interrupt \/ Receive \/ ManagerSteps \/ WorkerSteps
           \/ Kill \/ Purge \/ Tick \/ UNCHANGED vars
           \/ \E w \in workers : Reap(w)
           \/ \E c \in Commands : Send(c)
  <2>1. cut' = cut
    BY <1>2 DEF ConsoleSteps, Read, EndOfFile, Interrupt, Receive, ManagerSteps, Answer, Waiting,
                WaitReaps, Processing, Complete, Terminate, Kill, Gone, WorkerSteps, OrphanEnds,
                WorkerEnds, Purge, Tick, Reap, Send, vars, fifos, links
  <2>2. inStep' => inStep
    BY <1>2 DEF ConsoleSteps, Read, EndOfFile, ReadDone, Ends, Interrupt, Receive, ManagerSteps,
                Answer, Waiting, WaitReaps, Processing, Complete, Terminate, Kill, Gone,
                WorkerSteps, OrphanEnds, WorkerEnds, Purge, Tick, Reap, Send, vars
  <2> QED
    BY <2>1, <2>2 DEF SameFifos
<1> QED
  BY <1>1, <1>2 DEF Next

-----------------------------------------------------------------------------
LEMMA InitIInv == Init => IInv
BY InitTypes DEF Init, IInv, StepInv, SameFifos

LEMMA NextTypes == Types /\ [Next]_vars => Types'
<1> SUFFICES ASSUME Types, [Next]_vars PROVE Types'
  OBVIOUS
<1>1. CASE Connect \/ ConsoleSteps \/ Interrupt \/ \E c \in Commands : Send(c)
  BY <1>1, ConsoleTypes DEF ConsoleSteps
<1>2. CASE Receive \/ Answer
  BY <1>2, ReceiveTypes, AnswerTypes
<1>3. CASE Waiting \/ Processing \/ Complete
  BY <1>3, EndTypes
<1>4. CASE Terminate \/ Kill
  BY <1>4, GoneTypes
<1>5. CASE \E w \in workers : WaitReaps(w) \/ Reap(w)
  BY <1>5, ReportTypes
<1>6. CASE \E w \in workers : WorkerEnds(w)
  BY <1>6, WorkerEndsTypes
<1>7. CASE Start \/ Tick \/ Purge \/ OrphanEnds \/ UNCHANGED vars
  BY <1>7, StartTypes, OutsideTypes
<1> QED
  BY <1>1, <1>2, <1>3, <1>4, <1>5, <1>6, <1>7 DEF Next, ManagerSteps, WorkerSteps

LEMMA NextSteps == Types /\ SameFifos /\ StepInv /\ [Next]_vars => StepInv'
<1> SUFFICES ASSUME Types, SameFifos, StepInv, [Next]_vars PROVE StepInv'
  OBVIOUS
<1>1. CASE Connect
  BY <1>1, ConnectSteps
<1>2. CASE \E c \in Commands : Send(c)
  BY <1>2, SendSteps
<1>3. CASE ConsoleSteps \/ Interrupt
  BY <1>3, ReadSteps, EndOfFileSteps DEF ConsoleSteps
<1>4. CASE Receive \/ Answer
  BY <1>4, ReceiveSteps, AnswerSteps
<1>5. CASE Waiting \/ Processing \/ Complete
  BY <1>5, EndSteps
<1>6. CASE \E w \in workers : WorkerEnds(w) \/ WaitReaps(w) \/ Reap(w)
  BY <1>6, ReportSteps
<1>7. CASE Terminate \/ Kill \/ Start \/ Tick \/ Purge \/ OrphanEnds \/ UNCHANGED vars
  BY <1>7, OtherSteps DEF Terminate, Kill
<1> QED
  BY <1>1, <1>2, <1>3, <1>4, <1>5, <1>6, <1>7 DEF Next, ManagerSteps, WorkerSteps

(***************************************************************************)
(* The invariant holds of console, FIFOs and manager: through interrupts,  *)
(* crashes, restarts and any interleaving of their steps.                  *)
(***************************************************************************)
THEOREM Inductive == Spec => []IInv
<1>1. IInv /\ [Next]_vars => IInv'
  BY NextTypes, NextSameFifos, NextSteps DEF IInv
<1> QED
  BY <1>1, InitIInv, PTL DEF Spec

(***************************************************************************)
(* The variables keep their types.  In particular no worker's number is    *)
(* above that of the commands: every command makes one worker at most, and *)
(* a worker's number is the first that is free.                            *)
(***************************************************************************)
THEOREM TypeCorrect == Spec => []TypeOK
<1>1. IInv => TypeOK
  BY DEF IInv, Types
<1> QED
  BY <1>1, Inductive, PTL

(***************************************************************************)
(* As long as no sync is asked for, the reads that is_valid_command gives  *)
(* a command are enough: at the prompt no answer is still to come.         *)
(***************************************************************************)
THEOREM NoAnswerLeft == Spec => []InStep
<1>1. IInv => InStep
  BY DEF IInv, StepInv, Following, InStep, Types, TypeOK
<1> QED
  BY <1>1, Inductive, PTL
=============================================================================
