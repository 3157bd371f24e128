---------------------------- MODULE FileSyncProofs ----------------------------
(***************************************************************************)
(* That the target converges to the source, and that the reports of the    *)
(* workers are true: for any files, any workers, and any number of blocks, *)
(* changes and syncs; but for the files that moved and tainted name.       *)
(***************************************************************************)
EXTENDS FileSync, CommonLemmas, FiniteSetTheorems, TLAPS

(***************************************************************************)
(* The types of FileSync; and of the queued tasks only a full sync has no  *)
(* file.                                                                   *)
(***************************************************************************)
Tasks == [op : Operations \ {"FULL"}, name : Files] \union {FullSync}

Types == TypeOK /\ queue \in Seq(Tasks)

(***************************************************************************)
(* What is still to come, in its order: the queue, then the events.  The   *)
(* pending tasks of a file agree with the source, unless it was renamed:   *)
(* after a deletion of a file that is there comes its creation, and after  *)
(* anything else about a file that is not there comes its deletion.        *)
(***************************************************************************)
Pending == queue \o events
Ahead   == Range(Pending)

Follows(s, a, b) == \A i \in DOMAIN s : s[i] = a => \E j \in DOMAIN s : j > i /\ s[j] = b

Agrees(f) ==
    /\ source[f] # Absent => Follows(Pending, Task("DELETED", f), Task("ADDED", f))
    /\ source[f] = Absent => /\ Follows(Pending, Task("ADDED", f), Task("DELETED", f))
                             /\ Follows(Pending, Task("MODIFIED", f), Task("DELETED", f))

PendingAgrees == \A f \in Files \ moved : Agrees(f)

\* A command waits only while every worker runs.
QueueWaits == queue # << >> => Active = Workers

(***************************************************************************)
(* The memory of one worker.                                               *)
(***************************************************************************)
Copying == {"source", "target", "read", "write"}

Shape(m) ==
    /\ m.op = "none" <=> m.pc = "idle"
    /\ m.op = "FULL" \/ m.pc # "scan"
    /\ m.op = "DELETED" => m.pc \in {"unlink", "done"}
    /\ m.op \in {"ADDED", "MODIFIED"} => m.pc \in Copying \union {"next", "done"}
    /\ m.op \in {"ADDED", "MODIFIED", "DELETED"} => m.name \in Files /\ m.left \subseteq {m.name}
    /\ m.pc = "done" => m.left = {}
    /\ m.pc \in Copying => /\ m.file \in Files
                           /\ m.file \notin m.left
                           /\ m.op # "FULL" => m.file = m.name
    /\ m.pc \notin Copying => m.file = "ALL"
    /\ m.pc \notin {"read", "write"} => m.pos = 0
    /\ m.pc = "write" => m.pos < MaxBlocks
    /\ m.pc \notin Copying \ {"source"} => m.kept = Absent
    /\ m.pc \in Copying \ {"source"} /\ m.kept = Absent => source[m.file] # Absent
    /\ m.pc \in {"read", "write"} /\ m.linked => target[m.file] # Absent

\* What a worker knows of a file that did not change since it began, or since
\* readdir returned it late.
Knows(m, f) ==
    f \notin m.stale =>
      /\ m.op = "FULL" /\ m.pc \notin {"scan", "unlink"} /\ f \in Reach(m) => source[f] # Absent
      /\ m.file = f => m.kept = Absent
      /\ m.file = f /\ m.pc = "write" => /\ m.pos < Len(source[f])
                                         /\ m.block = source[f][m.pos + 1]

Minds == \A w \in Workers : Shape(mem[w]) /\ \A f \in Files : Knows(mem[w], f)

(***************************************************************************)
(* What a worker will still do to a file: make it anew, write one of its   *)
(* blocks, unlink it.                                                      *)
(***************************************************************************)
Copies(m) == \/ m.op \in {"ADDED", "MODIFIED"}
             \/ m.op = "FULL" /\ m.pc \notin {"scan", "unlink"}

Renews(m, f) == \/ m.op = "FULL" /\ m.pc \in {"scan", "unlink"}
                \/ m.op # "MODIFIED" /\ Copies(m) /\ f \in m.left

Covers(m, f, i) == \/ Copies(m) /\ f \in m.left
                   \/ m.pc \in {"source", "target"} /\ m.file = f
                   \/ m.pc \in {"read", "write"} /\ m.file = f /\ m.linked /\ m.pos < i

Unlinks(m, f) == m.pc = "scan" \/ (m.pc = "unlink" /\ f \in m.left)

(***************************************************************************)
(* Of a file that is neither renamed nor tainted: who is at it, ...        *)
(***************************************************************************)
At(f) == {w \in Workers : f \in Reach(mem[w])}

\* A worker that has the file open reads the file that is there.
Reads(m, f) == m.file = f => /\ m.kept = Absent
                             /\ m.pc = "write" => m.pos < Len(source[f])

Company(f) ==
    \A v \in At(f) :
      /\ f \in mem[v].stale => /\ At(f) = {v}
                               /\ \E op \in Operations \ {"FULL"} : Task(op, f) \in Ahead
      /\ \A w \in At(f) : v # w => ~Conflict(mem[v].op, mem[w].op)
      /\ mem[v].op = "DELETED" /\ source[f] # Absent => Task("ADDED", f) \in Ahead
      /\ Copies(mem[v]) /\ source[f] = Absent => Task("DELETED", f) \in Ahead
      /\ Task("DELETED", f) \in Ahead \/ Reads(mem[v], f)

(***************************************************************************)
(* ... that MODIFIED, which neither makes nor truncates the target, finds  *)
(* it there and not too long, unless something still to come renews it;    *)
(* and that without anything to come what the workers at it do will leave  *)
(* it equal to the source.                                                 *)
(***************************************************************************)
Resets(f) == Task("ADDED", f) \in Ahead \/ Task("DELETED", f) \in Ahead

Renewed(f) == \E w \in Workers : Renews(mem[w], f)

Fits(f) == target[f] # Absent /\ Len(target[f]) <= Len(source[f])

Exact(f) == \A i \in 1..Len(source[f]) :
               \/ i <= Len(target[f]) /\ target[f][i] = source[f][i]
               \/ \E w \in Workers : Covers(mem[w], f, i)

Mends(f) ==
    ~Resets(f) =>
      /\ source[f] # Absent => Renewed(f) \/ Fits(f)
      /\ Task("MODIFIED", f) \notin Ahead =>
           /\ source[f] # Absent => Renewed(f) \/ Exact(f)
           /\ source[f] = Absent =>
                target[f] = Absent \/ \E w \in Workers : Unlinks(mem[w], f)

Repairs == \A f \in Files \ (moved \union tainted) : Company(f) /\ Mends(f)

IInv == Types /\ PendingAgrees /\ QueueWaits /\ Minds /\ Repairs

-----------------------------------------------------------------------------
(***************************************************************************)
(* The contents of files.                                                  *)
(***************************************************************************)
LEMMA ContentsAreSequences ==
  ASSUME NEW c \in Contents
  PROVE  /\ c \in Seq(Blocks) /\ DOMAIN c = 1..Len(c)
         /\ Len(c) \in Nat /\ Len(c) <= MaxBlocks
         /\ \A i \in 1..Len(c) : c[i] \in Blocks
<1>1. PICK n \in 0..MaxBlocks : c \in [1..n -> Blocks]
  BY DEF Contents
<1>2. n \in Nat /\ n <= MaxBlocks
  BY <1>1, FileSyncAssumption
<1>3. c \in Seq(Blocks) /\ Len(c) = n
  BY <1>1, <1>2
<1> QED
  BY <1>1, <1>2, <1>3

LEMMA FunctionsAreContents ==
  ASSUME NEW n \in Nat, n <= MaxBlocks, NEW c \in [1..n -> Blocks]
  PROVE  c \in Contents /\ c # Absent /\ Len(c) = n
<1>1. n \in 0..MaxBlocks
  BY FileSyncAssumption
<1>2. Len(c) = n
  OBVIOUS
<1> QED
  BY <1>1, <1>2, FileSyncAssumption DEF Contents

LEMMA EmptyFile == << >> \in Contents /\ << >> # Absent /\ Len(<< >>) = 0
<1>1. << >> \in [1..0 -> Blocks]
  OBVIOUS
<1>2. 0 \in Nat /\ 0 <= MaxBlocks
  BY FileSyncAssumption
<1> QED
  BY <1>1, <1>2, FunctionsAreContents, Zenon

\* What Write leaves in the source.
LEMMA WrittenFile ==
  ASSUME NEW c \in Contents, NEW keep \in 0..Len(c), NEW more \in 0..(MaxBlocks - keep),
         NEW block \in Blocks
  PROVE  SubSeq(c, 1, keep) \o [i \in 1..more |-> block] \in Contents
<1> DEFINE a == SubSeq(c, 1, keep)
           b == [i \in 1..more |-> block]
<1>1. c \in Seq(Blocks) /\ Len(c) \in Nat /\ Len(c) <= MaxBlocks
  BY ContentsAreSequences
<1>2. keep \in Nat /\ more \in Nat /\ keep + more <= MaxBlocks /\ keep <= Len(c)
  BY <1>1, FileSyncAssumption
<1>3. a \in Seq(Blocks) /\ Len(a) = keep
  BY <1>1, <1>2
<1>4. b \in Seq(Blocks) /\ Len(b) = more
  BY <1>2
<1>5. a \o b \in Seq(Blocks) /\ Len(a \o b) = keep + more
  BY <1>2, <1>3, <1>4
<1> HIDE DEF a, b
<1>6. a \o b \in [1..(keep + more) -> Blocks]
  <2>1. PICK d \in Seq(Blocks) : d = a \o b
    BY <1>5
  <2>2. d \in [1..Len(d) -> Blocks]
    OBVIOUS
  <2> QED
    BY <1>5, <2>1, <2>2
<1>7. keep + more \in Nat
  BY <1>2
<1>8. a \o b \in Contents
  BY <1>2, <1>6, <1>7, FunctionsAreContents
<1> QED
  BY <1>8 DEF a, b

\* What a write leaves in the target.
LEMMA Overwritten ==
  ASSUME NEW c \in Contents, NEW pos \in Nat, pos < MaxBlocks, NEW block \in Blocks
  PROVE  LET d == Overwrite(c, pos, block)
         IN  /\ d \in Contents /\ d # Absent
             /\ Len(d) = IF pos < Len(c) THEN Len(c) ELSE pos + 1
             /\ d[pos + 1] = block
             /\ \A i \in 1..Len(c) : i # pos + 1 => d[i] = c[i]
<1> DEFINE n == IF pos < Len(c) THEN Len(c) ELSE pos + 1
           d == Overwrite(c, pos, block)
<1>1. /\ Len(c) \in Nat /\ Len(c) <= MaxBlocks
      /\ \A i \in 1..Len(c) : c[i] \in Blocks
  BY ContentsAreSequences
<1>2. /\ n \in Nat /\ n <= MaxBlocks
      /\ pos + 1 \in 1..n
      /\ \A i \in 1..Len(c) : i \in 1..n
  BY <1>1, FileSyncAssumption
<1>3. d = [i \in 1..n |-> IF i = pos + 1 THEN block ELSE IF i <= Len(c) THEN c[i] ELSE 0]
  BY DEF Overwrite
<1>4. 0 \in Blocks
  BY FileSyncAssumption DEF Blocks
<1> HIDE DEF n, d
<1>5. \A i \in 1..n : (IF i = pos + 1 THEN block ELSE IF i <= Len(c) THEN c[i] ELSE 0) \in Blocks
  <2> SUFFICES ASSUME NEW i \in 1..n, i <= Len(c) PROVE c[i] \in Blocks
    BY <1>4
  <2>1. i \in 1..Len(c)
    BY <1>1, <1>2
  <2> QED
    BY <1>1, <2>1
<1>6. d \in [1..n -> Blocks]
  BY <1>3, <1>5
<1>7. d \in Contents /\ d # Absent /\ Len(d) = n
  BY <1>2, <1>6, FunctionsAreContents
<1>8. d[pos + 1] = block /\ \A i \in 1..Len(c) : i # pos + 1 => d[i] = c[i]
  BY <1>1, <1>2, <1>3
<1> QED
  BY <1>7, <1>8 DEF n, d

-----------------------------------------------------------------------------
(***************************************************************************)
(* Follows: one task comes after another in what is still to come, when    *)
(* the first task is taken, a last one is put, one is put between.         *)
(***************************************************************************)
LEMMA FollowsInTail ==
  ASSUME NEW S, NEW s \in Seq(S), s # << >>, NEW a, NEW b, Follows(s, a, b)
  PROVE  Follows(Tail(s), a, b) /\ (Head(s) = a => b \in Range(Tail(s)))
<1>1. /\ Len(s) \in Nat \ {0}
      /\ DOMAIN s = 1..Len(s)
      /\ DOMAIN Tail(s) = 1..(Len(s) - 1)
      /\ \A i \in 1..(Len(s) - 1) : Tail(s)[i] = s[i + 1]
      /\ Head(s) = s[1]
  OBVIOUS
<1>2. ASSUME NEW i \in 1..(Len(s) - 1), Tail(s)[i] = a
      PROVE  \E j \in 1..(Len(s) - 1) : j > i /\ Tail(s)[j] = b
  <2>1. i + 1 \in DOMAIN s /\ s[i + 1] = a
    BY <1>1, <1>2
  <2>2. PICK k \in DOMAIN s : k > i + 1 /\ s[k] = b
    BY <2>1 DEF Follows
  <2>3. k - 1 \in 1..(Len(s) - 1) /\ k - 1 > i /\ Tail(s)[k - 1] = b
    BY <1>1, <2>2
  <2> QED
    BY <2>3
<1>3. ASSUME Head(s) = a PROVE b \in Range(Tail(s))
  <2>1. 1 \in DOMAIN s /\ s[1] = a
    BY <1>1, <1>3
  <2>2. PICK k \in DOMAIN s : k > 1 /\ s[k] = b
    BY <2>1 DEF Follows
  <2>3. k - 1 \in DOMAIN Tail(s) /\ Tail(s)[k - 1] = b
    BY <1>1, <2>2
  <2> QED
    BY <2>3 DEF Range
<1> QED
  BY <1>1, <1>2, <1>3 DEF Follows

LEMMA FollowsWithLast ==
  ASSUME NEW S, NEW s \in Seq(S), NEW c, NEW a, NEW b, c # a
  PROVE  /\ Follows(s, a, b) => Follows(Append(s, c), a, b)
         /\ Follows(Append(s, b), a, b) \/ a = b
         /\ s # << >> /\ s[Len(s)] = b /\ a # b => Follows(s, a, b)
<1>1. /\ Len(s) \in Nat
      /\ DOMAIN s = 1..Len(s)
      /\ s # << >> => Len(s) \in DOMAIN s
  OBVIOUS
<1>2. ASSUME NEW x
      PROVE  /\ DOMAIN Append(s, x) = 1..(Len(s) + 1)
             /\ \A i \in 1..Len(s) : Append(s, x)[i] = s[i]
             /\ Append(s, x)[Len(s) + 1] = x
  OBVIOUS
<1>3. ASSUME Follows(s, a, b) PROVE Follows(Append(s, c), a, b)
  <2> SUFFICES ASSUME NEW i \in 1..(Len(s) + 1), Append(s, c)[i] = a
               PROVE  \E j \in 1..(Len(s) + 1) : j > i /\ Append(s, c)[j] = b
    BY <1>2 DEF Follows
  <2>1. i \in DOMAIN s /\ s[i] = a
    BY <1>1, <1>2
  <2>2. PICK j \in DOMAIN s : j > i /\ s[j] = b
    BY <1>3, <2>1 DEF Follows
  <2>3. j \in 1..(Len(s) + 1) /\ Append(s, c)[j] = b
    BY <1>1, <1>2, <2>2
  <2> QED
    BY <2>2, <2>3
<1>4. ASSUME a # b PROVE Follows(Append(s, b), a, b)
  <2> SUFFICES ASSUME NEW i \in 1..(Len(s) + 1), Append(s, b)[i] = a
               PROVE  \E j \in 1..(Len(s) + 1) : j > i /\ Append(s, b)[j] = b
    BY <1>2 DEF Follows
  <2>1. i # Len(s) + 1
    BY <1>2, <1>4
  <2>2. Len(s) + 1 \in 1..(Len(s) + 1) /\ Len(s) + 1 > i
    BY <1>1, <2>1
  <2> QED
    BY <1>2, <2>2
<1>5. ASSUME s # << >>, s[Len(s)] = b, a # b PROVE Follows(s, a, b)
  BY <1>1, <1>5 DEF Follows
<1> QED
  BY <1>3, <1>4, <1>5

LEMMA FollowsAround ==
  ASSUME NEW S, NEW s \in Seq(S), NEW t \in Seq(S), NEW c \in S, NEW a, NEW b, c # a,
         Follows(s \o t, a, b)
  PROVE  Follows(Append(s, c) \o t, a, b)
<1> DEFINE u == Append(s, c) \o t
<1>1. Len(s) \in Nat /\ Len(t) \in Nat
  OBVIOUS
<1>2. /\ DOMAIN (s \o t) = 1..(Len(s) + Len(t))
      /\ DOMAIN u = 1..(Len(s) + 1 + Len(t))
      /\ \A i \in 1..Len(s) : u[i] = (s \o t)[i]
      /\ u[Len(s) + 1] = c
      /\ \A i \in (Len(s) + 1)..(Len(s) + Len(t)) : u[i + 1] = (s \o t)[i]
  OBVIOUS
<1> HIDE DEF u
<1>3. ASSUME NEW i \in 1..(Len(s) + 1 + Len(t)), u[i] = a
      PROVE  \E j \in 1..(Len(s) + 1 + Len(t)) : j > i /\ u[j] = b
  <2>1. i # Len(s) + 1
    BY <1>2, <1>3
  <2>2. PICK k \in 1..(Len(s) + Len(t)) : /\ (s \o t)[k] = a
                                          /\ \/ i = k /\ k <= Len(s)
                                             \/ i = k + 1 /\ k > Len(s)
    <3>1. CASE i <= Len(s)
      <4>1. i \in 1..Len(s) /\ i \in 1..(Len(s) + Len(t))
        BY <1>1, <3>1
      <4> QED
        BY <1>2, <1>3, <3>1, <4>1
    <3>2. CASE i > Len(s) + 1
      <4>1. i - 1 \in (Len(s) + 1)..(Len(s) + Len(t)) /\ i - 1 + 1 = i
        BY <1>1, <3>2
      <4>2. (s \o t)[i - 1] = a
        BY <1>2, <1>3, <4>1
      <4>3. i - 1 \in 1..(Len(s) + Len(t)) /\ i - 1 > Len(s)
        BY <1>1, <4>1
      <4> QED
        BY <4>1, <4>2, <4>3
    <3> QED
      BY <1>1, <2>1, <3>1, <3>2
  <2>3. PICK l \in 1..(Len(s) + Len(t)) : l > k /\ (s \o t)[l] = b
    BY <1>2, <2>2 DEF Follows
  <2>4. CASE l <= Len(s)
    BY <1>1, <1>2, <2>2, <2>3, <2>4
  <2>5. CASE l > Len(s)
    <3>1. l + 1 \in 1..(Len(s) + 1 + Len(t)) /\ l + 1 > i
      BY <1>1, <2>2, <2>3, <2>5
    <3>2. u[l + 1] = b
      BY <1>1, <1>2, <2>3, <2>5
    <3> QED
      BY <3>1, <3>2
  <2> QED
    BY <1>1, <2>4, <2>5
<1>4. Follows(u, a, b)
  BY <1>2, <1>3 DEF Follows
<1> QED
  BY <1>4 DEF u

-----------------------------------------------------------------------------
(***************************************************************************)
(* What is still to come, after each kind of step.                         *)
(***************************************************************************)
LEMMA TaskParts ==
  ASSUME NEW a, NEW b, NEW f, NEW g
  PROVE  Task(a, f) = Task(b, g) <=> a = b /\ f = g
<1>1. Task(a, f).op = a /\ Task(a, f).name = f /\ Task(b, g).op = b /\ Task(b, g).name = g
  BY DEF Task
<1> QED
  BY <1>1

LEMMA PendingTypes ==
  ASSUME Types
  PROVE  queue \in Seq(Tasks) /\ events \in Seq(Tasks) /\ Pending \in Seq(Tasks)
<1>1. events \in Seq([op : Operations \ {"FULL"}, name : Files])
  BY DEF Types, TypeOK
<1>2. [op : Operations \ {"FULL"}, name : Files] \subseteq Tasks
  BY DEF Tasks
<1>3. events \in Seq(Tasks)
  <2>1. ASSUME NEW A, NEW B, A \subseteq B, NEW s \in Seq(A) PROVE s \in Seq(B)
    BY <2>1
  <2> QED
    BY <1>1, <1>2, <2>1
<1> QED
  BY <1>3 DEF Types, Pending

\* The first task is taken.
LEMMA TaskTaken ==
  ASSUME Types, PendingAgrees, source' = source, Pending # << >>, Pending' = Tail(Pending)
  PROVE  /\ \A f \in Files \ moved : Agrees(f)'
         /\ Head(Pending) \in Tasks
         /\ Ahead = {Head(Pending)} \union Ahead'
         /\ \A f \in Files \ moved :
              /\ Head(Pending) = Task("DELETED", f) /\ source[f] # Absent
                   => Task("ADDED", f) \in Ahead'
              /\ Head(Pending) \in {Task("ADDED", f), Task("MODIFIED", f)} /\ source[f] = Absent
                   => Task("DELETED", f) \in Ahead'
<1>1. PICK p \in Seq(Tasks) : p = Pending
  BY PendingTypes
<1>2. Head(p) \in Tasks /\ Range(p) = {Head(p)} \union Range(Tail(p))
  BY <1>1, TakeFirst
<1>3. ASSUME NEW a, NEW b, Follows(p, a, b)
      PROVE  Follows(Tail(p), a, b) /\ (Head(p) = a => b \in Range(Tail(p)))
  BY <1>1, <1>3, FollowsInTail
<1>4. Pending' = Tail(p) /\ Ahead' = Range(Tail(p)) /\ Ahead = Range(p)
  BY <1>1 DEF Ahead
<1> QED
  BY <1>1, <1>2, <1>3, <1>4 DEF PendingAgrees, Agrees

\* A full sync is put behind the queue.
LEMMA SyncPut ==
  ASSUME Types, PendingAgrees, source' = source, events' = events, moved' = moved,
         queue' = Append(queue, FullSync)
  PROVE  PendingAgrees' /\ Ahead' = Ahead \union {FullSync}
<1>1. /\ queue \in Seq(Tasks) /\ events \in Seq(Tasks) /\ FullSync \in Tasks
      /\ Append(queue, FullSync) \in Seq(Tasks)
  BY PendingTypes DEF Tasks
<1>2. Pending' = Append(queue, FullSync) \o events
  BY DEF Pending
<1>3. Ahead' = Ahead \union {FullSync}
  <2>1. Range(Append(queue, FullSync)) = Range(queue) \union {FullSync}
    BY <1>1, PutLast
  <2>2. Range(queue \o events) = Range(queue) \union Range(events)
    BY <1>1, Joined
  <2>3. Range(Append(queue, FullSync) \o events)
          = Range(Append(queue, FullSync)) \union Range(events)
    <3>1. PICK q \in Seq(Tasks) : q = Append(queue, FullSync)
      BY <1>1
    <3>2. Range(q \o events) = Range(q) \union Range(events)
      BY <1>1, Joined
    <3> QED
      BY <3>1, <3>2
  <2> QED
    BY <1>2, <2>1, <2>2, <2>3 DEF Ahead, Pending
<1>4. ASSUME NEW a, NEW b, FullSync # a, Follows(Pending, a, b) PROVE Follows(Pending', a, b)
  <2>1. Follows(queue \o events, a, b)
    BY <1>4 DEF Pending
  <2>2. Follows(Append(queue, FullSync) \o events, a, b)
    BY <1>1, <1>4, <2>1, FollowsAround
  <2> QED
    BY <1>2, <2>2
<1>5. \A f \in Files : /\ FullSync # Task("DELETED", f) /\ FullSync # Task("ADDED", f)
                       /\ FullSync # Task("MODIFIED", f)
  BY TaskParts DEF FullSync
<1> QED
  BY <1>3, <1>4, <1>5 DEF PendingAgrees, Agrees

\* A change is put at the end, or is the last already.
LEMMA ChangePut ==
  ASSUME Types, NEW f \in Files, NEW op \in Operations \ {"FULL"}, Notify(op, f), queue' = queue
  PROVE  /\ Ahead' = Ahead \union {Task(op, f)}
         /\ events' \in Seq([op : Operations \ {"FULL"}, name : Files])
         /\ \A a, b : /\ Follows(Pending, a, b) /\ a # Task(op, f) => Follows(Pending', a, b)
                      /\ b = Task(op, f) /\ a # b => Follows(Pending', a, b)
<1>0. events \in Seq([op : Operations \ {"FULL"}, name : Files])
  BY DEF Types, TypeOK
<1>1. /\ Task(op, f) \in [op : Operations \ {"FULL"}, name : Files]
      /\ Task(op, f) \in Tasks
  BY DEF Task, Tasks
<1>2. PICK p \in Seq(Tasks) : p = Pending
  BY PendingTypes
<1>3. queue \in Seq(Tasks) /\ events \in Seq(Tasks)
  BY PendingTypes
<1>4. CASE events' = Append(events, Task(op, f))
  <2>1. Pending' = Append(p, Task(op, f))
    BY <1>1, <1>2, <1>3, <1>4 DEF Pending
  <2>2. Range(Append(p, Task(op, f))) = Range(p) \union {Task(op, f)}
    BY <1>1, PutLast
  <2>3. Ahead' = Ahead \union {Task(op, f)}
    BY <1>2, <2>1, <2>2 DEF Ahead
  <2>4. events' \in Seq([op : Operations \ {"FULL"}, name : Files])
    BY <1>0, <1>1, <1>4, PutLast
  <2>5. ASSUME NEW a, NEW b
        PROVE  /\ Follows(p, a, b) /\ a # Task(op, f) => Follows(Append(p, Task(op, f)), a, b)
               /\ b = Task(op, f) /\ a # b => Follows(Append(p, Task(op, f)), a, b)
    BY FollowsWithLast
  <2> QED
    BY <1>2, <2>1, <2>3, <2>4, <2>5
<1>5. CASE /\ events # << >>
           /\ events[Len(events)] = Task(op, f)
           /\ UNCHANGED events
  <2>1. p # << >> /\ p[Len(p)] = Task(op, f) /\ Pending' = p
    BY <1>2, <1>3, <1>5 DEF Pending
  <2>2. Task(op, f) \in Range(p)
    BY <2>1 DEF Range
  <2>3. Ahead' = Ahead \union {Task(op, f)}
    BY <1>2, <2>1, <2>2 DEF Ahead
  <2>4. ASSUME NEW a, NEW b, b = Task(op, f), a # b PROVE Follows(p, a, b)
    BY <2>1, <2>4, FollowsWithLast
  <2> QED
    BY <1>0, <1>2, <1>5, <2>1, <2>3, <2>4
<1> QED
  BY <1>4, <1>5 DEF Notify

\* An event passes on to the queue: nothing changes in what is to come.
LEMMA EventQueued ==
  ASSUME Types, events # << >>, queue' = Append(queue, Head(events)), events' = Tail(events)
  PROVE  Pending' = Pending /\ queue' \in Seq(Tasks)
<1>1. queue \in Seq(Tasks) /\ events \in Seq(Tasks)
  BY PendingTypes
<1>2. Head(events) \in Tasks /\ Tail(events) \in Seq(Tasks)
  BY <1>1
<1>3. Append(queue, Head(events)) \o Tail(events) = queue \o events
  <2> DEFINE a == Append(queue, Head(events)) \o Tail(events)
             b == queue \o events
  <2>1. /\ a \in Seq(Tasks) /\ b \in Seq(Tasks)
        /\ Len(a) = Len(b) /\ Len(a) \in Nat
        /\ \A i \in 1..Len(a) : a[i] = b[i]
    BY <1>1, <1>2
  <2> HIDE DEF a, b
  <2>2. a = b
    BY <2>1
  <2> QED
    BY <2>2 DEF a, b
<1> QED
  BY <1>1, <1>2, <1>3 DEF Pending

\* A command leaves the queue; an event comes when the queue is empty.
LEMMA FromQueueOrEvents ==
  ASSUME Types
  PROVE  /\ queue # << >> => /\ Pending # << >>
                             /\ Head(Pending) = Head(queue)
                             /\ Tail(Pending) = Tail(queue) \o events
         /\ queue = << >> => Pending = events
<1>1. queue \in Seq(Tasks) /\ events \in Seq(Tasks)
  BY PendingTypes
<1>2. ASSUME queue # << >>
      PROVE  /\ Pending # << >>
             /\ Head(Pending) = Head(queue)
             /\ Tail(Pending) = Tail(queue) \o events
  <2> DEFINE a == Tail(queue \o events)
             b == Tail(queue) \o events
  <2>1. /\ a \in Seq(Tasks) /\ b \in Seq(Tasks)
        /\ Len(a) = Len(b) /\ Len(a) \in Nat
        /\ \A i \in 1..Len(a) : a[i] = b[i]
    BY <1>1, <1>2
  <2> HIDE DEF a, b
  <2>2. a = b
    BY <2>1
  <2> QED
    BY <1>1, <1>2, <2>2 DEF a, b, Pending
<1>3. ASSUME queue = << >> PROVE Pending = events
  BY <1>1, <1>3 DEF Pending
<1> QED
  BY <1>2, <1>3

-----------------------------------------------------------------------------
(***************************************************************************)
(* What a step of a worker does to its memory, field by field.             *)
(***************************************************************************)
LEMMA MemoryParts ==
  ASSUME NEW m \in Memory
  PROVE  /\ m.pc \in {"idle", "scan", "unlink", "next", "source", "target", "read", "write", "done"}
         /\ m.op \in Operations \union {"none"}
         /\ m.name \in Files \union {"ALL"} /\ m.file \in Files \union {"ALL"}
         /\ m.left \subseteq Files /\ m.fresh \subseteq Files /\ m.stale \subseteq Files
         /\ m.pos \in 0..MaxBlocks /\ m.block \in Blocks
         /\ m.kept \in Contents \union {Absent}
         /\ m.linked \in BOOLEAN /\ m.ok \in BOOLEAN
  BY DEF Memory

\* Nobody but w has another memory.
Alone(w) == /\ mem' \in [Workers -> Memory]
            /\ \A v \in Workers : v # w => mem'[v] = mem[v]

LEMMA OneMemory ==
  ASSUME Types, NEW w \in Workers, NEW n \in Memory, mem' = [mem EXCEPT ![w] = n]
  PROVE  Alone(w) /\ mem'[w] = n
<1>1. mem \in [Workers -> Memory]
  BY DEF Types, TypeOK
<1> HIDE DEF Memory
<1> QED
  BY <1>1 DEF Alone

\* What the workers leave alone.
Rest == /\ UNCHANGED <<source, events, queue, changes, syncs, moved>>
        /\ tainted \subseteq tainted' /\ tainted' \subseteq tainted \union Files

LEMMA BlocksAndPlaces == 0 \in Blocks /\ 0 \in 0..MaxBlocks /\ "ALL" \in Files \union {"ALL"}
  BY FileSyncAssumption DEF Blocks

LEMMA ScanTargetFields ==
  ASSUME Types, NEW w \in Workers, ScanTarget(w)
  PROVE  /\ Alone(w) /\ Rest /\ target' = target
         /\ mem[w].pc = "scan" /\ mem'[w].pc = "unlink" /\ mem'[w].left = Present(target)
         /\ mem'[w].op = mem[w].op /\ mem'[w].name = mem[w].name /\ mem'[w].file = mem[w].file
         /\ mem'[w].pos = mem[w].pos /\ mem'[w].kept = mem[w].kept
         /\ mem'[w].linked = mem[w].linked /\ mem'[w].stale = mem[w].stale
<1> DEFINE n == [mem[w] EXCEPT !.pc = "unlink", !.left = Present(target)]
<1>1. mem[w] \in Memory
  BY DEF Types, TypeOK
<1>2. Present(target) \subseteq Files
  BY DEF Present
<1>3. n \in Memory
  BY <1>1, <1>2 DEF Memory
<1>4. /\ n.pc = "unlink" /\ n.left = Present(target)
      /\ n.op = mem[w].op /\ n.name = mem[w].name /\ n.file = mem[w].file
      /\ n.pos = mem[w].pos /\ n.kept = mem[w].kept
      /\ n.linked = mem[w].linked /\ n.stale = mem[w].stale
  BY <1>1 DEF Memory
<1>5. mem' = [mem EXCEPT ![w] = n]
  BY DEF ScanTarget, Becomes
<1> HIDE DEF n
<1>6. Alone(w) /\ mem'[w] = n
  BY <1>3, <1>5, OneMemory
<1> QED
  BY <1>4, <1>6 DEF ScanTarget, Becomes, Rest

LEMMA UnlinkFields ==
  ASSUME Types, NEW w \in Workers, Unlink(w)
  PROVE  /\ mem' \in [Workers -> Memory]
         /\ Rest
         /\ \E f \in mem[w].left :
              /\ target' = [target EXCEPT ![f] = Absent]
              /\ mem'[w].left = mem[w].left \ {f}
              /\ \A v \in Workers \ {w} : mem[v].file = f => ~mem'[v].linked
              /\ \A v \in Workers \ {w} : mem[v].file # f => mem'[v] = mem[v]
         /\ \A v \in Workers \ {w} : mem'[v].left = mem[v].left
         /\ mem[w].pc = "unlink" /\ mem'[w].linked = mem[w].linked
         /\ \A v \in Workers :
              /\ mem'[v].pc = mem[v].pc
              /\ mem'[v].op = mem[v].op /\ mem'[v].name = mem[v].name /\ mem'[v].file = mem[v].file
              /\ mem'[v].pos = mem[v].pos /\ mem'[v].kept = mem[v].kept
              /\ mem'[v].block = mem[v].block /\ mem'[v].stale = mem[v].stale
<1>1. mem \in [Workers -> Memory]
  BY DEF Types, TypeOK
<1>2. PICK f \in mem[w].left :
          /\ target' = [target EXCEPT ![f] = Absent]
          /\ mem' = [v \in Workers |->
                IF v = w THEN [mem[w] EXCEPT !.left = @ \ {f},
                                             !.ok = @ /\ target[f] # Absent]
                ELSE IF mem[v].file = f THEN [mem[v] EXCEPT !.linked = FALSE]
                ELSE mem[v]]
  BY DEF Unlink
<1>3. ASSUME NEW m \in Memory
      PROVE  LET n == [m EXCEPT !.linked = FALSE]
             IN  /\ n \in Memory
                 /\ n.pc = m.pc /\ n.op = m.op /\ n.name = m.name /\ n.file = m.file
                 /\ n.pos = m.pos /\ n.kept = m.kept /\ n.left = m.left
                 /\ n.block = m.block /\ n.stale = m.stale /\ n.linked = FALSE
  BY DEF Memory
<1>4. ASSUME NEW m \in Memory, NEW ok \in BOOLEAN
      PROVE  LET n == [m EXCEPT !.left = m.left \ {f}, !.ok = ok]
             IN  /\ n \in Memory
                 /\ n.pc = m.pc /\ n.op = m.op /\ n.name = m.name /\ n.file = m.file
                 /\ n.pos = m.pos /\ n.kept = m.kept /\ n.left = m.left \ {f}
                 /\ n.block = m.block /\ n.stale = m.stale /\ n.linked = m.linked
  BY DEF Memory
<1>5. mem[w] \in Memory
  BY <1>1
<1>6. PICK ok \in BOOLEAN : ok = (mem[w].ok /\ target[f] # Absent)
  BY <1>5 DEF Memory
<1>7. mem'[w] = [mem[w] EXCEPT !.left = mem[w].left \ {f}, !.ok = ok]
  BY <1>2, <1>5, <1>6 DEF Memory
<1>8. \A v \in Workers \ {w} :
         mem'[v] = IF mem[v].file = f THEN [mem[v] EXCEPT !.linked = FALSE] ELSE mem[v]
  BY <1>2
<1> HIDE DEF Memory
<1>9. /\ mem'[w] \in Memory
      /\ mem'[w].pc = mem[w].pc /\ mem'[w].op = mem[w].op /\ mem'[w].name = mem[w].name
      /\ mem'[w].file = mem[w].file
      /\ mem'[w].pos = mem[w].pos /\ mem'[w].kept = mem[w].kept /\ mem'[w].left = mem[w].left \ {f}
      /\ mem'[w].block = mem[w].block /\ mem'[w].stale = mem[w].stale
      /\ mem'[w].linked = mem[w].linked
  <2>1. PICK m \in Memory : m = mem[w]
    BY <1>5
  <2>2. mem'[w] = [m EXCEPT !.left = m.left \ {f}, !.ok = ok]
    BY <1>7, <2>1, Zenon
  <2> DEFINE n == [m EXCEPT !.left = m.left \ {f}, !.ok = ok]
  <2>3. /\ n \in Memory
        /\ n.pc = m.pc /\ n.op = m.op /\ n.name = m.name /\ n.file = m.file
        /\ n.pos = m.pos /\ n.kept = m.kept /\ n.left = m.left \ {f}
        /\ n.block = m.block /\ n.stale = m.stale /\ n.linked = m.linked
    BY <1>4, Zenon
  <2>4. mem'[w] = n
    BY <2>2, Zenon
  <2> HIDE DEF n
  <2> QED
    BY <2>1, <2>3, <2>4
<1>10. ASSUME NEW v \in Workers \ {w}
       PROVE  /\ mem'[v] \in Memory
              /\ mem'[v].pc = mem[v].pc /\ mem'[v].op = mem[v].op /\ mem'[v].name = mem[v].name
              /\ mem'[v].file = mem[v].file
              /\ mem'[v].pos = mem[v].pos /\ mem'[v].kept = mem[v].kept
              /\ mem'[v].left = mem[v].left
              /\ mem'[v].block = mem[v].block /\ mem'[v].stale = mem[v].stale
              /\ mem[v].file = f => ~mem'[v].linked
              /\ mem[v].file # f => mem'[v] = mem[v]
  <2>1. mem[v] \in Memory
    BY <1>1
  <2>2. CASE mem[v].file = f
    BY <1>3, <1>8, <2>1, <2>2
  <2>3. CASE mem[v].file # f
    BY <1>8, <2>1, <2>3
  <2> QED
    BY <2>2, <2>3
<1>11. mem' \in [Workers -> Memory]
  BY <1>2, <1>9, <1>10
<1> QED
  BY <1>2, <1>9, <1>10, <1>11 DEF Unlink, Rest

LEMMA Becoming ==
  ASSUME Types, NEW w \in Workers, NEW n \in Memory, Becomes(w, n)
  PROVE  Alone(w) /\ Rest /\ mem'[w] = n
BY OneMemory DEF Becomes, Rest

LEMMA UnlinkedFields ==
  ASSUME Types, NEW w \in Workers, Unlinked(w)
  PROVE  /\ Alone(w) /\ Rest /\ target' = target
         /\ mem[w].pc = "unlink" /\ mem[w].left = {}
         /\ IF mem[w].op = "DELETED" THEN mem'[w].pc = "done" /\ mem'[w].left = {}
            ELSE mem'[w].pc = "next" /\ mem'[w].left = Present(source)
         /\ mem'[w].op = mem[w].op /\ mem'[w].name = mem[w].name /\ mem'[w].file = mem[w].file
         /\ mem'[w].pos = mem[w].pos /\ mem'[w].kept = mem[w].kept
         /\ mem'[w].linked = mem[w].linked /\ mem'[w].stale = mem[w].stale
<1> DEFINE n == IF mem[w].op = "DELETED" THEN [mem[w] EXCEPT !.pc = "done"]
                ELSE [mem[w] EXCEPT !.pc = "next", !.left = Present(source)]
<1>1. mem[w] \in Memory
  BY DEF Types, TypeOK
<1>2. Present(source) \subseteq Files
  BY DEF Present
<1>3. n \in Memory
  BY <1>1, <1>2 DEF Memory
<1>4. mem[w].pc = "unlink" /\ mem[w].left = {} /\ target' = target /\ Becomes(w, n)
  BY DEF Unlinked
<1>5. /\ IF mem[w].op = "DELETED" THEN n.pc = "done" /\ n.left = {}
         ELSE n.pc = "next" /\ n.left = Present(source)
      /\ n.op = mem[w].op /\ n.name = mem[w].name /\ n.file = mem[w].file
      /\ n.pos = mem[w].pos /\ n.kept = mem[w].kept
      /\ n.linked = mem[w].linked /\ n.stale = mem[w].stale
  BY <1>1, <1>4 DEF Memory
<1> HIDE DEF n
<1> QED
  BY <1>3, <1>4, <1>5, Becoming

\* What readdir returns, or passes over, is the matter of left alone.
LEMMA LeftFields ==
  ASSUME Types, NEW w \in Workers, NEW left \in SUBSET Files,
         Becomes(w, [mem[w] EXCEPT !.left = left])
  PROVE  /\ Alone(w) /\ Rest /\ mem'[w].left = left
         /\ mem'[w].pc = mem[w].pc /\ mem'[w].op = mem[w].op /\ mem'[w].name = mem[w].name
         /\ mem'[w].file = mem[w].file /\ mem'[w].pos = mem[w].pos
         /\ mem'[w].block = mem[w].block /\ mem'[w].kept = mem[w].kept
         /\ mem'[w].linked = mem[w].linked /\ mem'[w].stale = mem[w].stale
<1> DEFINE n == [mem[w] EXCEPT !.left = left]
<1>1. mem[w] \in Memory
  BY DEF Types, TypeOK
<1>2. n \in Memory
  BY <1>1 DEF Memory
<1>3. /\ n.left = left
      /\ n.pc = mem[w].pc /\ n.op = mem[w].op /\ n.name = mem[w].name
      /\ n.file = mem[w].file /\ n.pos = mem[w].pos
      /\ n.block = mem[w].block /\ n.kept = mem[w].kept
      /\ n.linked = mem[w].linked /\ n.stale = mem[w].stale
  BY <1>1 DEF Memory
<1>4. Becomes(w, n)
  OBVIOUS
<1> HIDE DEF n
<1> QED
  BY <1>2, <1>3, <1>4, Becoming

SameButLeft(w) == /\ Alone(w) /\ Rest /\ target' = target
                  /\ mem'[w].pc = mem[w].pc /\ mem'[w].op = mem[w].op
                  /\ mem'[w].name = mem[w].name
                  /\ mem'[w].file = mem[w].file /\ mem'[w].pos = mem[w].pos
                  /\ mem'[w].block = mem[w].block /\ mem'[w].kept = mem[w].kept
                  /\ mem'[w].linked = mem[w].linked

LEMMA ReadTargetFields ==
  ASSUME Types, NEW w \in Workers, ReadTarget(w)
  PROVE  /\ SameButLeft(w) /\ mem'[w].stale = mem[w].stale
         /\ mem[w].pc = "unlink" /\ mem[w].op = "FULL"
         /\ \E f \in Files : \/ mem'[w].left = mem[w].left \union {f}
                             \/ target[f] = Absent /\ mem'[w].left = mem[w].left \ {f}
<1>1. PICK f \in Files :
          \/ Becomes(w, [mem[w] EXCEPT !.left = @ \union {f}])
          \/ target[f] = Absent /\ Becomes(w, [mem[w] EXCEPT !.left = @ \ {f}])
  BY DEF ReadTarget
<1>2. mem[w] \in Memory /\ mem[w].left \subseteq Files
  BY MemoryParts DEF Types, TypeOK
<1>3. PICK left \in SUBSET Files :
          /\ Becomes(w, [mem[w] EXCEPT !.left = left])
          /\ \/ left = mem[w].left \union {f}
             \/ target[f] = Absent /\ left = mem[w].left \ {f}
  <2>1. mem[w].left \union {f} \in SUBSET Files /\ mem[w].left \ {f} \in SUBSET Files
    BY <1>2
  <2> QED
    BY <1>1, <2>1
<1> QED
  BY <1>3, LeftFields DEF ReadTarget, SameButLeft

LEMMA PassGoneFields ==
  ASSUME Types, NEW w \in Workers, PassGone(w)
  PROVE  /\ SameButLeft(w) /\ mem'[w].stale = mem[w].stale
         /\ mem[w].pc = "next" /\ mem[w].op = "FULL"
         /\ \E f \in Files : source[f] = Absent /\ mem'[w].left = mem[w].left \ {f}
<1>1. mem[w] \in Memory /\ mem[w].left \subseteq Files
  BY MemoryParts DEF Types, TypeOK
<1>2. PICK f \in mem[w].left :
          source[f] = Absent /\ Becomes(w, [mem[w] EXCEPT !.left = @ \ {f}])
  BY DEF PassGone
<1>3. f \in Files /\ mem[w].left \ {f} \in SUBSET Files
  BY <1>1
<1> QED
  BY <1>2, <1>3, LeftFields DEF PassGone, SameButLeft

LEMMA ReadFreshFields ==
  ASSUME Types, NEW w \in Workers, ReadFresh(w)
  PROVE  /\ SameButLeft(w)
         /\ mem[w].pc = "next" /\ mem[w].op = "FULL"
         /\ \E f \in Files :
              /\ source[f] # Absent
              /\ mem'[w].left = mem[w].left \union {f} /\ mem'[w].stale = mem[w].stale \ {f}
              /\ \/ f \in tainted'
                 \/ \A v \in Workers \ {w} : f \in Reach(mem[v]) => f \notin mem[v].stale
<1>1. /\ mem[w] \in Memory /\ tainted \subseteq Files /\ mem \in [Workers -> Memory]
      /\ mem[w].left \subseteq Files /\ mem[w].fresh \subseteq Files /\ mem[w].stale \subseteq Files
  BY MemoryParts DEF Types, TypeOK
<1>2. PICK f \in mem[w].fresh :
          /\ source[f] # Absent
          /\ mem' = [mem EXCEPT ![w].left = @ \union {f}, ![w].fresh = @ \ {f},
                               ![w].stale = @ \ {f}]
          /\ tainted' = IF \E v \in Workers \ {w} : f \in Reach(mem[v]) /\ f \in mem[v].stale
                        THEN tainted \union {f} ELSE tainted
  BY DEF ReadFresh
<1>3. f \in Files
  BY <1>1
<1> DEFINE n == [mem[w] EXCEPT !.left = mem[w].left \union {f}, !.fresh = mem[w].fresh \ {f},
                               !.stale = mem[w].stale \ {f}]
<1>4. n \in Memory
  BY <1>1, <1>3 DEF Memory
<1>5. /\ n.left = mem[w].left \union {f} /\ n.stale = mem[w].stale \ {f}
      /\ n.pc = mem[w].pc /\ n.op = mem[w].op /\ n.name = mem[w].name
      /\ n.file = mem[w].file /\ n.pos = mem[w].pos
      /\ n.block = mem[w].block /\ n.kept = mem[w].kept
      /\ n.linked = mem[w].linked
  BY <1>1 DEF Memory
<1>6. mem' = [mem EXCEPT ![w] = n]
  <2>1. mem' = [mem EXCEPT ![w] = [mem[w] EXCEPT !.left = @ \union {f}, !.fresh = @ \ {f},
                                                 !.stale = @ \ {f}]]
    BY <1>1, <1>2 DEF Memory
  <2> QED
    BY <1>1, <2>1 DEF Memory
<1> HIDE DEF n
<1>7. Alone(w) /\ mem'[w] = n
  BY <1>4, <1>6, OneMemory
<1>8. Rest
  BY <1>1, <1>2, <1>3 DEF ReadFresh, Rest
<1> QED
  BY <1>2, <1>3, <1>5, <1>7, <1>8 DEF ReadFresh, SameButLeft

LEMMA AddOrModifyFields ==
  ASSUME Types, NEW w \in Workers, AddOrModify(w)
  PROVE  /\ Alone(w) /\ Rest /\ mem[w].pc = "next"
         /\ \E f \in mem[w].left :
              /\ mem'[w].pc = "source" /\ mem'[w].file = f /\ mem'[w].left = mem[w].left \ {f}
              /\ target' = IF mem[w].op = "MODIFIED" THEN target
                           ELSE [target EXCEPT ![f] = << >>]
         /\ mem'[w].op = mem[w].op /\ mem'[w].name = mem[w].name
         /\ mem'[w].pos = mem[w].pos /\ mem'[w].kept = mem[w].kept
         /\ mem'[w].linked = mem[w].linked /\ mem'[w].stale = mem[w].stale
<1>1. mem[w] \in Memory
  BY DEF Types, TypeOK
<1>2. PICK f \in mem[w].left :
          /\ Becomes(w, [mem[w] EXCEPT !.pc = "source", !.file = f, !.left = @ \ {f}])
          /\ target' = IF mem[w].op = "MODIFIED" THEN target
                       ELSE [target EXCEPT ![f] = << >>]
  BY DEF AddOrModify
<1> DEFINE n == [mem[w] EXCEPT !.pc = "source", !.file = f, !.left = @ \ {f}]
<1>3. n \in Memory
  BY <1>1 DEF Memory
<1>4. /\ n.pc = "source" /\ n.file = f /\ n.left = mem[w].left \ {f}
      /\ n.op = mem[w].op /\ n.name = mem[w].name
      /\ n.pos = mem[w].pos /\ n.kept = mem[w].kept
      /\ n.linked = mem[w].linked /\ n.stale = mem[w].stale
  BY <1>1 DEF Memory
<1>5. Becomes(w, n)
  BY <1>2
<1> HIDE DEF n
<1>6. Alone(w) /\ Rest /\ mem'[w] = n
  BY <1>3, <1>5, Becoming
<1> QED
  BY <1>2, <1>4, <1>6 DEF AddOrModify

LEMMA ReturnFields ==
  ASSUME Types, NEW w \in Workers, NEW ok \in BOOLEAN, Return(w, ok)
  PROVE  /\ Alone(w) /\ Rest /\ target' = target
         /\ mem'[w].pc = "next" /\ mem'[w].file = "ALL" /\ mem'[w].pos = 0
         /\ mem'[w].kept = Absent /\ ~mem'[w].linked
         /\ mem'[w].op = mem[w].op /\ mem'[w].name = mem[w].name
         /\ mem'[w].left = mem[w].left /\ mem'[w].stale = mem[w].stale
<1> DEFINE n == [mem[w] EXCEPT !.pc = "next", !.file = "ALL", !.pos = 0, !.block = 0,
                               !.kept = Absent, !.linked = FALSE, !.ok = @ /\ ok]
<1>1. mem[w] \in Memory
  BY DEF Types, TypeOK
<1>2. n \in Memory
  BY <1>1, BlocksAndPlaces DEF Memory
<1>3. /\ n.pc = "next" /\ n.file = "ALL" /\ n.pos = 0
      /\ n.kept = Absent /\ ~n.linked
      /\ n.op = mem[w].op /\ n.name = mem[w].name
      /\ n.left = mem[w].left /\ n.stale = mem[w].stale
  BY <1>1 DEF Memory
<1>4. Becomes(w, n) /\ target' = target
  BY DEF Return
<1> HIDE DEF n
<1> QED
  BY <1>2, <1>3, <1>4, Becoming

\* Opening the source fails, or ...
LEMMA OpenSourceFields ==
  ASSUME Types, NEW w \in Workers, OpenSource(w)
  PROVE  /\ mem[w].pc = "source"
         /\ \/ source[mem[w].file] = Absent /\ Return(w, FALSE)
            \/ /\ source[mem[w].file] # Absent
               /\ Alone(w) /\ Rest /\ target' = target
               /\ mem'[w].pc = "target"
               /\ mem'[w].op = mem[w].op /\ mem'[w].name = mem[w].name
               /\ mem'[w].left = mem[w].left /\ mem'[w].file = mem[w].file
               /\ mem'[w].pos = mem[w].pos /\ mem'[w].kept = mem[w].kept
               /\ mem'[w].linked = mem[w].linked /\ mem'[w].stale = mem[w].stale
<1> DEFINE n == [mem[w] EXCEPT !.pc = "target"]
<1>1. mem[w] \in Memory
  BY DEF Types, TypeOK
<1>2. n \in Memory
  BY <1>1 DEF Memory
<1>3. /\ n.pc = "target"
      /\ n.op = mem[w].op /\ n.name = mem[w].name
      /\ n.left = mem[w].left /\ n.file = mem[w].file
      /\ n.pos = mem[w].pos /\ n.kept = mem[w].kept
      /\ n.linked = mem[w].linked /\ n.stale = mem[w].stale
  BY <1>1 DEF Memory
<1>4. /\ mem[w].pc = "source"
      /\ \/ source[mem[w].file] = Absent /\ Return(w, FALSE)
         \/ source[mem[w].file] # Absent /\ Becomes(w, n) /\ target' = target
  BY DEF OpenSource
<1> HIDE DEF n
<1> QED
  BY <1>2, <1>3, <1>4, Becoming

\* ... opening the target, or ...
LEMMA OpenTargetFields ==
  ASSUME Types, NEW w \in Workers, OpenTarget(w)
  PROVE  /\ mem[w].pc = "target"
         /\ \/ target[mem[w].file] = Absent /\ Return(w, FALSE)
            \/ /\ target[mem[w].file] # Absent
               /\ Alone(w) /\ Rest /\ target' = target
               /\ mem'[w].pc = "read" /\ mem'[w].linked
               /\ mem'[w].op = mem[w].op /\ mem'[w].name = mem[w].name
               /\ mem'[w].left = mem[w].left /\ mem'[w].file = mem[w].file
               /\ mem'[w].pos = mem[w].pos /\ mem'[w].kept = mem[w].kept
               /\ mem'[w].stale = mem[w].stale
<1> DEFINE n == [mem[w] EXCEPT !.pc = "read", !.linked = TRUE]
<1>1. mem[w] \in Memory
  BY DEF Types, TypeOK
<1>2. n \in Memory
  BY <1>1 DEF Memory
<1>3. /\ n.pc = "read" /\ n.linked
      /\ n.op = mem[w].op /\ n.name = mem[w].name
      /\ n.left = mem[w].left /\ n.file = mem[w].file
      /\ n.pos = mem[w].pos /\ n.kept = mem[w].kept
      /\ n.stale = mem[w].stale
  BY <1>1 DEF Memory
<1>4. /\ mem[w].pc = "target"
      /\ \/ target[mem[w].file] = Absent /\ Return(w, FALSE)
         \/ target[mem[w].file] # Absent /\ Becomes(w, n) /\ target' = target
  BY DEF OpenTarget
<1> HIDE DEF n
<1> QED
  BY <1>2, <1>3, <1>4, Becoming

\* What a worker reads: the source file of that name, or one without a name.
Input(m) == IF m.kept = Absent THEN source[m.file] ELSE m.kept

LEMMA ReadFields ==
  ASSUME Types, NEW w \in Workers, Shape(mem[w]), Read(w)
  PROVE  /\ mem[w].pc = "read"
         /\ Input(mem[w]) \in Contents
         /\ \/ /\ mem[w].pos >= Len(Input(mem[w]))
               /\ \E ok \in BOOLEAN : Return(w, ok)
            \/ /\ mem[w].pos < Len(Input(mem[w]))
               /\ Alone(w) /\ Rest /\ target' = target
               /\ mem'[w].pc = "write" /\ mem'[w].block = Input(mem[w])[mem[w].pos + 1]
               /\ mem'[w].op = mem[w].op /\ mem'[w].name = mem[w].name
               /\ mem'[w].left = mem[w].left /\ mem'[w].file = mem[w].file
               /\ mem'[w].pos = mem[w].pos /\ mem'[w].kept = mem[w].kept
               /\ mem'[w].linked = mem[w].linked /\ mem'[w].stale = mem[w].stale
<1> DEFINE input == Input(mem[w])
           n == [mem[w] EXCEPT !.pc = "write", !.block = input[mem[w].pos + 1]]
<1>1. /\ mem[w] \in Memory
      /\ source \in [Files -> Contents \union {Absent}]
  BY DEF Types, TypeOK
<1>2. mem[w].pc = "read"
  BY DEF Read
<1>3. input \in Contents
  <2>1. CASE mem[w].kept = Absent
    BY <1>1, <1>2, <2>1 DEF Input, Shape, Copying
  <2>2. CASE mem[w].kept # Absent
    BY <1>1, <2>2, MemoryParts DEF Input
  <2> QED
    BY <2>1, <2>2
<1>4. /\ Len(input) \in Nat /\ \A i \in 1..Len(input) : input[i] \in Blocks
  BY <1>3, ContentsAreSequences
<1>5. mem[w].pos \in Nat
  BY <1>1, MemoryParts, FileSyncAssumption
<1>6. IF mem[w].pos < Len(input)
      THEN Becomes(w, n) /\ target' = target
      ELSE \E ok \in BOOLEAN : Return(w, ok)
  BY DEF Read, Input
<1>7. CASE mem[w].pos < Len(input)
  <2>1. input[mem[w].pos + 1] \in Blocks
    BY <1>4, <1>5, <1>7
  <2> HIDE DEF input
  <2>2. n \in Memory
    BY <1>1, <2>1 DEF Memory
  <2>3. /\ n.pc = "write" /\ n.block = input[mem[w].pos + 1]
        /\ n.op = mem[w].op /\ n.name = mem[w].name
        /\ n.left = mem[w].left /\ n.file = mem[w].file
        /\ n.pos = mem[w].pos /\ n.kept = mem[w].kept
        /\ n.linked = mem[w].linked /\ n.stale = mem[w].stale
    BY <1>1 DEF Memory
  <2>4. Becomes(w, n) /\ target' = target
    BY <1>6, <1>7
  <2> HIDE DEF n
  <2>5. Alone(w) /\ Rest /\ mem'[w] = n
    BY <2>2, <2>4, Becoming
  <2> QED
    BY <1>2, <1>3, <1>7, <2>3, <2>4, <2>5 DEF input
<1>8. CASE ~(mem[w].pos < Len(input))
  <2>1. mem[w].pos >= Len(input)
    BY <1>4, <1>5, <1>8
  <2> QED
    BY <1>2, <1>3, <1>6, <1>8, <2>1
<1> QED
  BY <1>7, <1>8

LEMMA WriteBlockFields ==
  ASSUME Types, NEW w \in Workers, Shape(mem[w]), WriteBlock(w)
  PROVE  /\ Alone(w) /\ Rest /\ mem[w].pc = "write"
         /\ target' = IF mem[w].linked
                      THEN [target EXCEPT ![mem[w].file] =
                                             Overwrite(@, mem[w].pos, mem[w].block)]
                      ELSE target
         /\ mem'[w].pc = "read" /\ mem'[w].pos = mem[w].pos + 1
         /\ mem'[w].op = mem[w].op /\ mem'[w].name = mem[w].name
         /\ mem'[w].left = mem[w].left /\ mem'[w].file = mem[w].file
         /\ mem'[w].kept = mem[w].kept
         /\ mem'[w].linked = mem[w].linked /\ mem'[w].stale = mem[w].stale
<1> DEFINE n == [mem[w] EXCEPT !.pc = "read", !.pos = @ + 1, !.block = 0]
<1>1. mem[w] \in Memory
  BY DEF Types, TypeOK
<1>2. mem[w].pc = "write" /\ mem[w].pos < MaxBlocks
  BY DEF WriteBlock, Shape
<1>3. mem[w].pos + 1 \in 0..MaxBlocks
  BY <1>1, <1>2, MemoryParts, FileSyncAssumption
<1>4. n \in Memory
  BY <1>1, <1>3, BlocksAndPlaces DEF Memory
<1>5. /\ n.pc = "read" /\ n.pos = mem[w].pos + 1
      /\ n.op = mem[w].op /\ n.name = mem[w].name
      /\ n.left = mem[w].left /\ n.file = mem[w].file
      /\ n.kept = mem[w].kept
      /\ n.linked = mem[w].linked /\ n.stale = mem[w].stale
  BY <1>1 DEF Memory
<1>6. Becomes(w, n)
  BY DEF WriteBlock
<1> HIDE DEF n
<1>7. Alone(w) /\ Rest /\ mem'[w] = n
  BY <1>4, <1>6, Becoming
<1> QED
  BY <1>2, <1>5, <1>7 DEF WriteBlock

LEMMA FinishFields ==
  ASSUME Types, NEW w \in Workers, Finish(w)
  PROVE  /\ Alone(w) /\ Rest /\ target' = target
         /\ mem[w].pc = "next" /\ mem[w].left = {} /\ mem'[w].pc = "done"
         /\ mem'[w].op = mem[w].op /\ mem'[w].name = mem[w].name
         /\ mem'[w].left = mem[w].left /\ mem'[w].file = mem[w].file
         /\ mem'[w].pos = mem[w].pos /\ mem'[w].kept = mem[w].kept
         /\ mem'[w].linked = mem[w].linked /\ mem'[w].stale = mem[w].stale
<1> DEFINE n == [mem[w] EXCEPT !.pc = "done", !.fresh = {}]
<1>1. mem[w] \in Memory
  BY DEF Types, TypeOK
<1>2. n \in Memory
  BY <1>1 DEF Memory
<1>3. /\ n.pc = "done"
      /\ n.op = mem[w].op /\ n.name = mem[w].name
      /\ n.left = mem[w].left /\ n.file = mem[w].file
      /\ n.pos = mem[w].pos /\ n.kept = mem[w].kept
      /\ n.linked = mem[w].linked /\ n.stale = mem[w].stale
  BY <1>1 DEF Memory
<1>4. Becomes(w, n) /\ target' = target /\ mem[w].pc = "next" /\ mem[w].left = {}
  BY DEF Finish
<1> HIDE DEF n
<1> QED
  BY <1>2, <1>3, <1>4, Becoming

\* A worker that begins.
LEMMA BegunFields ==
  ASSUME NEW task \in Tasks
  PROVE  LET n == Begun(task)
         IN  /\ n \in Memory
             /\ n.op = task.op /\ n.name = task.name
             /\ task.op = "FULL" => n.pc = "scan" /\ n.left = {}
             /\ task.op = "DELETED" => n.pc = "unlink" /\ n.left = {task.name}
             /\ task.op \in {"ADDED", "MODIFIED"} => n.pc = "next" /\ n.left = {task.name}
             /\ n.file = "ALL" /\ n.pos = 0 /\ n.kept = Absent /\ ~n.linked /\ n.stale = {}
<1> DEFINE pc == CASE task.op = "FULL"    -> "scan"
                   [] task.op = "DELETED" -> "unlink"
                   [] OTHER               -> "next"
           left == IF task.op = "FULL" THEN {} ELSE {task.name}
           n == [pc |-> pc, op |-> task.op, name |-> task.name, left |-> left, file |-> "ALL",
                 pos |-> 0, block |-> 0, fresh |-> {}, kept |-> Absent, linked |-> FALSE,
                 ok |-> TRUE, stale |-> {}]
<1>1. Begun(task) = n
  <2>1. Begun(task) = [Idle EXCEPT !.op = task.op, !.name = task.name, !.pc = pc, !.left = left]
    BY DEF Begun
  <2> HIDE DEF pc, left
  <2> QED
    BY <2>1 DEF Idle
<1>2. task.op \in Operations /\ (task.op # "FULL" => task.name \in Files)
  BY DEF Tasks, FullSync, Task, Operations
<1>3. /\ task.op = "FULL" => pc = "scan" /\ left = {}
      /\ task.op = "DELETED" => pc = "unlink" /\ left = {task.name}
      /\ task.op \in {"ADDED", "MODIFIED"} => pc = "next" /\ left = {task.name}
  OBVIOUS
<1>4. /\ pc \in {"scan", "unlink", "next"} /\ left \subseteq Files
      /\ task.name \in Files \union {"ALL"}
  <2>1. task.name \in Files \union {"ALL"}
    BY DEF Tasks, FullSync, Task
  <2>2. pc \in {"scan", "unlink", "next"}
    BY <1>2, <1>3 DEF Operations
  <2> QED
    BY <1>2, <2>1, <2>2
<1> HIDE DEF pc, left
<1>5. n \in Memory
  BY <1>2, <1>4, BlocksAndPlaces DEF Memory
<1> QED
  BY <1>1, <1>3, <1>5

LEMMA IdleFields ==
  /\ Idle \in Memory
  /\ Idle.pc = "idle" /\ Idle.op = "none" /\ Idle.name = "ALL" /\ Idle.left = {}
  /\ Idle.file = "ALL" /\ Idle.pos = 0 /\ Idle.kept = Absent /\ ~Idle.linked /\ Idle.stale = {}
BY BlocksAndPlaces DEF Idle, Memory

\* A change of the source: what the workers notice of it.
LEMMA ChangeFields ==
  ASSUME Types, NEW f \in Files, NEW contents, NEW op, Change(f, contents, op)
  PROVE  /\ mem' \in [Workers -> Memory]
         /\ source' = [source EXCEPT ![f] = contents]
         /\ \A w \in Workers :
              /\ mem'[w].pc = mem[w].pc /\ mem'[w].op = mem[w].op /\ mem'[w].name = mem[w].name
              /\ mem'[w].left = mem[w].left /\ mem'[w].file = mem[w].file
              /\ mem'[w].pos = mem[w].pos /\ mem'[w].block = mem[w].block
              /\ mem'[w].linked = mem[w].linked
              /\ IF /\ mem[w].file = f /\ mem[w].pc \in {"target", "read", "write"}
                    /\ op # "MODIFIED" /\ mem[w].kept = Absent
                 THEN mem'[w].kept = source[f] ELSE mem'[w].kept = mem[w].kept
              /\ IF mem[w].pc \in {"idle", "done"} THEN mem'[w].stale = mem[w].stale
                 ELSE mem'[w].stale = mem[w].stale \union {f}
<1>1. /\ mem \in [Workers -> Memory]
      /\ source \in [Files -> Contents \union {Absent}]
  BY DEF Types, TypeOK
<1> DEFINE kept(m) == IF /\ m.file = f /\ m.pc \in {"target", "read", "write"}
                         /\ op # "MODIFIED" /\ m.kept = Absent
                      THEN source[f] ELSE m.kept
           fresh(m) == IF m.op = "FULL" /\ m.pc \notin {"scan", "unlink", "done"} /\ op = "ADDED"
                       THEN m.fresh \union {f} ELSE m.fresh
           stale(m) == IF m.pc \in {"idle", "done"} THEN m.stale ELSE m.stale \union {f}
<1>2. ASSUME NEW m \in Memory
      PROVE  /\ kept(m) \in Contents \union {Absent}
             /\ fresh(m) \in SUBSET Files /\ stale(m) \in SUBSET Files
  <2> HIDE DEF Memory
  <2> QED
    BY <1>1, MemoryParts
<1>3. mem' = [w \in Workers |->
                 LET m == mem[w]
                     open == m.file = f /\ m.pc \in {"target", "read", "write"}
                     listing == m.op = "FULL" /\ m.pc \notin {"scan", "unlink", "done"}
                 IN  [m EXCEPT
                        !.kept = IF open /\ op # "MODIFIED" /\ @ = Absent THEN source[f] ELSE @,
                        !.fresh = IF listing /\ op = "ADDED" THEN @ \union {f} ELSE @,
                        !.stale = IF m.pc \in {"idle", "done"} THEN @ ELSE @ \union {f}]]
  BY DEF Change
<1>4. mem' = [w \in Workers |-> [mem[w] EXCEPT !.kept = kept(mem[w]), !.fresh = fresh(mem[w]),
                                                !.stale = stale(mem[w])]]
  <2>1. ASSUME NEW m \in Memory
        PROVE  LET open == m.file = f /\ m.pc \in {"target", "read", "write"}
                   listing == m.op = "FULL" /\ m.pc \notin {"scan", "unlink", "done"}
               IN  [m EXCEPT
                        !.kept = IF open /\ op # "MODIFIED" /\ @ = Absent THEN source[f] ELSE @,
                        !.fresh = IF listing /\ op = "ADDED" THEN @ \union {f} ELSE @,
                        !.stale = IF m.pc \in {"idle", "done"} THEN @ ELSE @ \union {f}]
                   = [m EXCEPT !.kept = kept(m), !.fresh = fresh(m), !.stale = stale(m)]
    BY DEF Memory
  <2> HIDE DEF kept, fresh, stale, Memory
  <2> QED
    BY <1>1, <1>3, <2>1
<1> HIDE DEF Memory
<1>5. ASSUME NEW w \in Workers
      PROVE  /\ mem'[w] \in Memory
             /\ mem'[w].pc = mem[w].pc /\ mem'[w].op = mem[w].op /\ mem'[w].name = mem[w].name
             /\ mem'[w].left = mem[w].left /\ mem'[w].file = mem[w].file
             /\ mem'[w].pos = mem[w].pos /\ mem'[w].block = mem[w].block
             /\ mem'[w].linked = mem[w].linked
             /\ mem'[w].kept = kept(mem[w]) /\ mem'[w].stale = stale(mem[w])
  <2>1. PICK m \in Memory : m = mem[w]
    BY <1>1
  <2>2. /\ kept(m) \in Contents \union {Absent}
        /\ fresh(m) \in SUBSET Files /\ stale(m) \in SUBSET Files
    BY <1>2
  <2> HIDE DEF kept, fresh, stale
  <2>3. PICK k \in Contents \union {Absent}, e \in SUBSET Files, s \in SUBSET Files :
           k = kept(m) /\ e = fresh(m) /\ s = stale(m)
    BY <2>2
  <2> DEFINE n == [m EXCEPT !.kept = k, !.fresh = e, !.stale = s]
  <2>4. mem'[w] = n
    BY <1>4, <2>1, <2>3
  <2>5. /\ n \in Memory
        /\ n.pc = m.pc /\ n.op = m.op /\ n.name = m.name
        /\ n.left = m.left /\ n.file = m.file
        /\ n.pos = m.pos /\ n.block = m.block
        /\ n.linked = m.linked /\ n.kept = k /\ n.stale = s
    BY DEF Memory
  <2> HIDE DEF n
  <2> QED
    BY <2>1, <2>3, <2>4, <2>5
<1>6. mem' \in [Workers -> Memory]
  BY <1>4, <1>5
<1>7. source' = [source EXCEPT ![f] = contents]
  BY DEF Change
<1> QED
  BY <1>5, <1>6, <1>7

-----------------------------------------------------------------------------
(***************************************************************************)
(* Types, what is pending, and the memories, through the steps of workers. *)
(***************************************************************************)
Base == Types /\ PendingAgrees /\ QueueWaits /\ Minds

LEMMA PendingRests ==
  ASSUME Types, PendingAgrees, Rest
  PROVE  /\ Pending' = Pending /\ Ahead' = Ahead /\ PendingAgrees'
         /\ queue' \in Seq(Tasks)
         /\ mem' \in [Workers -> Memory] /\ target' \in [Files -> Contents \union {Absent}]
              => Types'
<1>1. Pending' = Pending /\ Ahead' = Ahead /\ queue' \in Seq(Tasks)
  BY PendingTypes DEF Rest, Pending, Ahead
<1>2. PendingAgrees'
  BY <1>1 DEF PendingAgrees, Agrees, Rest
<1>3. ASSUME mem' \in [Workers -> Memory], target' \in [Files -> Contents \union {Absent}]
      PROVE  Types'
  <2> HIDE DEF Memory, Contents
  <2> QED
    BY <1>1, <1>3 DEF Types, TypeOK, Rest
<1> QED
  BY <1>1, <1>2, <1>3

LEMMA BaseAfterStep ==
  ASSUME Base, NEW w \in Workers, Alone(w), Rest,
         target' \in [Files -> Contents \union {Absent}],
         \A f \in Files : target[f] # Absent => target'[f] # Absent,
         mem[w].pc # "idle", mem'[w].pc # "idle",
         Shape(mem[w])', \A f \in Files : Knows(mem[w], f)'
  PROVE  Base'
<1>1. Types /\ PendingAgrees
  BY DEF Base
<1>2. Types' /\ PendingAgrees'
  BY <1>1, PendingRests DEF Alone
<1>3. QueueWaits'
  BY DEF Base, QueueWaits, Active, Rest, Alone
<1>4. ASSUME NEW v \in Workers, v # w PROVE Shape(mem[v])' /\ \A f \in Files : Knows(mem[v], f)'
  <2>1. mem'[v] = mem[v] /\ source' = source
    BY <1>4 DEF Alone, Rest
  <2>2. Shape(mem[v]) /\ \A f \in Files : Knows(mem[v], f)
    BY DEF Base, Minds
  <2>3. Shape(mem[v])'
    BY <2>1, <2>2 DEF Shape, Copying
  <2>4. ASSUME NEW f \in Files PROVE Knows(mem[v], f)'
    BY <2>1, <2>2 DEF Knows
  <2> QED
    BY <2>3, <2>4
<1>5. Minds'
  BY <1>4 DEF Minds
<1> QED
  BY <1>2, <1>3, <1>5 DEF Base

LEMMA BaseScanTarget ==
  ASSUME Base, NEW w \in Workers, ScanTarget(w)
  PROVE  Base'
<1>1. /\ Types /\ Shape(mem[w]) /\ \A f \in Files : Knows(mem[w], f)
      /\ target \in [Files -> Contents \union {Absent}]
  BY DEF Base, Types, TypeOK, Minds
<1>2. /\ Alone(w) /\ Rest /\ target' = target
      /\ mem[w].pc = "scan" /\ mem'[w].pc = "unlink"
      /\ mem'[w].op = mem[w].op /\ mem'[w].name = mem[w].name /\ mem'[w].file = mem[w].file
      /\ mem'[w].pos = mem[w].pos /\ mem'[w].kept = mem[w].kept
      /\ mem'[w].linked = mem[w].linked /\ mem'[w].stale = mem[w].stale
  BY <1>1, ScanTargetFields
<1>3. Shape(mem[w])'
  BY <1>1, <1>2 DEF Shape, Copying
<1>4. ASSUME NEW f \in Files PROVE Knows(mem[w], f)'
  BY <1>1, <1>2 DEF Knows, Rest
<1> QED
  BY <1>1, <1>2, <1>3, <1>4, BaseAfterStep

LEMMA BaseUnlink ==
  ASSUME Base, NEW w \in Workers, Unlink(w)
  PROVE  Base'
<1>1. /\ Types /\ PendingAgrees
      /\ \A v \in Workers : Shape(mem[v]) /\ \A f \in Files : Knows(mem[v], f)
      /\ target \in [Files -> Contents \union {Absent}]
      /\ mem \in [Workers -> Memory]
  BY DEF Base, Types, TypeOK, Minds
<1>2. PICK f \in mem[w].left :
          /\ target' = [target EXCEPT ![f] = Absent]
          /\ mem'[w].left = mem[w].left \ {f}
          /\ \A v \in Workers \ {w} : mem[v].file = f => ~mem'[v].linked
          /\ \A v \in Workers \ {w} : mem[v].file # f => mem'[v] = mem[v]
  BY <1>1, UnlinkFields
<1>3. /\ mem' \in [Workers -> Memory]
      /\ Rest
      /\ \A v \in Workers \ {w} : mem'[v].left = mem[v].left
      /\ mem[w].pc = "unlink" /\ mem'[w].linked = mem[w].linked
      /\ \A v \in Workers :
           /\ mem'[v].pc = mem[v].pc
           /\ mem'[v].op = mem[v].op /\ mem'[v].name = mem[v].name /\ mem'[v].file = mem[v].file
           /\ mem'[v].pos = mem[v].pos /\ mem'[v].kept = mem[v].kept
           /\ mem'[v].block = mem[v].block /\ mem'[v].stale = mem[v].stale
  BY <1>1, UnlinkFields
<1>4. source' = source
  BY <1>3 DEF Rest
<1>5. target' \in [Files -> Contents \union {Absent}]
  BY <1>1, <1>2
<1>6. Types' /\ PendingAgrees'
  BY <1>1, <1>3, <1>5, PendingRests
<1>7. QueueWaits'
  BY <1>3 DEF Base, QueueWaits, Active, Rest
<1>8. Shape(mem[w])'
  BY <1>1, <1>2, <1>3, <1>4 DEF Shape, Copying
<1>9. ASSUME NEW v \in Workers \ {w} PROVE Shape(mem[v])'
  <2>1. Shape(mem[v])
    BY <1>1
  <2>2. mem[v].file \in Files /\ mem'[v].linked /\ target[mem[v].file] # Absent
          => target'[mem[v].file] # Absent
    BY <1>1, <1>2
  <2>3. mem'[v].linked /\ mem[v].pc \in {"read", "write"} => mem[v].linked
    BY <1>2, <2>1
  <2>4. mem'[v].left = mem[v].left
    BY <1>3
  <2> QED
    BY <1>3, <1>4, <2>1, <2>2, <2>3, <2>4 DEF Shape, Copying
<1>10. ASSUME NEW v \in Workers, NEW g \in Files PROVE Knows(mem[v], g)'
  <2>1. Knows(mem[v], g)
    BY <1>1
  <2>2. v # w => mem'[v].left = mem[v].left
    BY <1>3
  <2>3. v = w => mem'[v].pc = "unlink"
    BY <1>3
  <2> QED
    BY <1>3, <1>4, <2>1, <2>2, <2>3 DEF Knows, Reach
<1>11. Minds'
  BY <1>8, <1>9, <1>10 DEF Minds
<1> QED
  BY <1>6, <1>7, <1>11 DEF Base

LEMMA BaseUnlinked ==
  ASSUME Base, NEW w \in Workers, Unlinked(w)
  PROVE  Base'
<1>1. /\ Types /\ Shape(mem[w]) /\ \A f \in Files : Knows(mem[w], f)
      /\ target \in [Files -> Contents \union {Absent}]
      /\ mem[w] \in Memory
  BY DEF Base, Types, TypeOK, Minds
<1>2. /\ Alone(w) /\ Rest /\ target' = target
      /\ mem[w].pc = "unlink" /\ mem[w].left = {}
      /\ IF mem[w].op = "DELETED" THEN mem'[w].pc = "done" /\ mem'[w].left = {}
         ELSE mem'[w].pc = "next" /\ mem'[w].left = Present(source)
      /\ mem'[w].op = mem[w].op /\ mem'[w].name = mem[w].name /\ mem'[w].file = mem[w].file
      /\ mem'[w].pos = mem[w].pos /\ mem'[w].kept = mem[w].kept
      /\ mem'[w].linked = mem[w].linked /\ mem'[w].stale = mem[w].stale
  BY <1>1, UnlinkedFields
<1>3. mem[w].op = "DELETED" \/ mem[w].op = "FULL"
  BY <1>1, <1>2, MemoryParts DEF Shape, Copying, Operations
<1>4. mem[w].file = "ALL" /\ "ALL" \notin Files
  BY <1>1, <1>2, FileSyncAssumption DEF Shape, Copying
<1>5. Shape(mem[w])'
  BY <1>1, <1>2, <1>3 DEF Shape, Copying
<1>6. ASSUME NEW f \in Files PROVE Knows(mem[w], f)'
  BY <1>1, <1>2, <1>3, <1>4 DEF Knows, Rest, Reach, Present
<1> QED
  BY <1>1, <1>2, <1>3, <1>5, <1>6, BaseAfterStep

LEMMA BaseReadTarget ==
  ASSUME Base, NEW w \in Workers, ReadTarget(w)
  PROVE  Base'
<1>1. /\ Types /\ Shape(mem[w]) /\ \A f \in Files : Knows(mem[w], f)
      /\ target \in [Files -> Contents \union {Absent}]
  BY DEF Base, Types, TypeOK, Minds
<1>2. /\ SameButLeft(w) /\ mem'[w].stale = mem[w].stale
      /\ mem[w].pc = "unlink" /\ mem[w].op = "FULL"
  BY <1>1, ReadTargetFields
<1>3. Shape(mem[w])'
  BY <1>1, <1>2 DEF Shape, Copying, SameButLeft, Rest
<1>4. ASSUME NEW f \in Files PROVE Knows(mem[w], f)'
  BY <1>1, <1>2 DEF Knows, SameButLeft, Rest
<1> QED
  BY <1>1, <1>2, <1>3, <1>4, BaseAfterStep DEF SameButLeft

LEMMA BasePassGone ==
  ASSUME Base, NEW w \in Workers, PassGone(w)
  PROVE  Base'
<1>1. /\ Types /\ Shape(mem[w]) /\ \A f \in Files : Knows(mem[w], f)
      /\ target \in [Files -> Contents \union {Absent}]
  BY DEF Base, Types, TypeOK, Minds
<1>2. /\ SameButLeft(w) /\ mem'[w].stale = mem[w].stale
      /\ mem[w].pc = "next" /\ mem[w].op = "FULL"
      /\ mem'[w].left \subseteq mem[w].left
  BY <1>1, PassGoneFields
<1>3. Shape(mem[w])'
  BY <1>1, <1>2 DEF Shape, Copying, SameButLeft, Rest
<1>4. ASSUME NEW f \in Files PROVE Knows(mem[w], f)'
  BY <1>1, <1>2 DEF Knows, Reach, SameButLeft, Rest
<1> QED
  BY <1>1, <1>2, <1>3, <1>4, BaseAfterStep DEF SameButLeft

LEMMA BaseReadFresh ==
  ASSUME Base, NEW w \in Workers, ReadFresh(w)
  PROVE  Base'
<1>1. /\ Types /\ Shape(mem[w]) /\ \A f \in Files : Knows(mem[w], f)
      /\ target \in [Files -> Contents \union {Absent}]
  BY DEF Base, Types, TypeOK, Minds
<1>2. SameButLeft(w) /\ mem[w].pc = "next" /\ mem[w].op = "FULL"
  BY <1>1, ReadFreshFields
<1>3. PICK f \in Files :
         /\ source[f] # Absent
         /\ mem'[w].left = mem[w].left \union {f} /\ mem'[w].stale = mem[w].stale \ {f}
  BY <1>1, ReadFreshFields
<1>4. mem[w].file = "ALL"
  BY <1>1, <1>2 DEF Shape, Copying
<1>5. Shape(mem[w])'
  BY <1>1, <1>2 DEF Shape, Copying, SameButLeft, Rest
<1>6. ASSUME NEW g \in Files PROVE Knows(mem[w], g)'
  BY <1>1, <1>2, <1>3, <1>4, FileSyncAssumption DEF Knows, Reach, SameButLeft, Rest
<1> QED
  BY <1>1, <1>2, <1>5, <1>6, BaseAfterStep DEF SameButLeft

LEMMA BaseAddOrModify ==
  ASSUME Base, NEW w \in Workers, AddOrModify(w)
  PROVE  Base'
<1>1. /\ Types /\ Shape(mem[w]) /\ \A f \in Files : Knows(mem[w], f)
      /\ target \in [Files -> Contents \union {Absent}]
      /\ mem[w] \in Memory
  BY DEF Base, Types, TypeOK, Minds
<1>2. /\ Alone(w) /\ Rest /\ mem[w].pc = "next"
      /\ mem'[w].op = mem[w].op /\ mem'[w].name = mem[w].name
      /\ mem'[w].pos = mem[w].pos /\ mem'[w].kept = mem[w].kept
      /\ mem'[w].linked = mem[w].linked /\ mem'[w].stale = mem[w].stale
  BY <1>1, AddOrModifyFields
<1>3. PICK f \in mem[w].left :
         /\ mem'[w].pc = "source" /\ mem'[w].file = f /\ mem'[w].left = mem[w].left \ {f}
         /\ target' = IF mem[w].op = "MODIFIED" THEN target
                      ELSE [target EXCEPT ![f] = << >>]
  BY <1>1, AddOrModifyFields
<1>4. f \in Files
  BY <1>1, MemoryParts
<1>5. /\ target' \in [Files -> Contents \union {Absent}]
      /\ \A g \in Files : target[g] # Absent => target'[g] # Absent
  BY <1>1, <1>3, EmptyFile
<1>6. mem[w].file = "ALL" /\ "ALL" \notin Files
  BY <1>1, <1>2, FileSyncAssumption DEF Shape, Copying
<1>7. mem[w].kept = Absent
  BY <1>1, <1>2 DEF Shape, Copying
<1>8. Shape(mem[w])'
  <2>1. mem[w].op \in {"FULL", "ADDED", "MODIFIED"} /\ mem[w].pos = 0
    BY <1>1, <1>2, MemoryParts DEF Shape, Copying, Operations
  <2> QED
    BY <1>1, <1>2, <1>3, <1>4, <1>7, <2>1 DEF Shape, Copying
<1>9. ASSUME NEW g \in Files PROVE Knows(mem[w], g)'
  BY <1>1, <1>2, <1>3, <1>4, <1>6, <1>7 DEF Knows, Rest, Reach
<1> QED
  BY <1>2, <1>3, <1>5, <1>8, <1>9, BaseAfterStep

LEMMA BaseReturn ==
  ASSUME Base, NEW w \in Workers, NEW ok \in BOOLEAN, Return(w, ok), mem[w].pc \in Copying
  PROVE  Base'
<1>1. /\ Types /\ Shape(mem[w]) /\ \A f \in Files : Knows(mem[w], f)
      /\ target \in [Files -> Contents \union {Absent}]
  BY DEF Base, Types, TypeOK, Minds
<1>2. /\ Alone(w) /\ Rest /\ target' = target
      /\ mem'[w].pc = "next" /\ mem'[w].file = "ALL" /\ mem'[w].pos = 0
      /\ mem'[w].kept = Absent /\ ~mem'[w].linked
      /\ mem'[w].op = mem[w].op /\ mem'[w].name = mem[w].name
      /\ mem'[w].left = mem[w].left /\ mem'[w].stale = mem[w].stale
  BY <1>1, ReturnFields
<1>3. mem[w].op # "none" /\ mem[w].pc \notin {"idle", "scan", "unlink", "done"}
  BY <1>1 DEF Shape, Copying
<1>4. Shape(mem[w])'
  BY <1>1, <1>2, <1>3 DEF Shape, Copying
<1>5. ASSUME NEW f \in Files PROVE Knows(mem[w], f)'
  BY <1>1, <1>2, <1>3, FileSyncAssumption DEF Knows, Rest, Reach
<1> QED
  BY <1>1, <1>2, <1>3, <1>4, <1>5, BaseAfterStep

LEMMA BaseOpenSource ==
  ASSUME Base, NEW w \in Workers, OpenSource(w)
  PROVE  Base'
<1>1. /\ Types /\ Shape(mem[w]) /\ \A f \in Files : Knows(mem[w], f)
      /\ target \in [Files -> Contents \union {Absent}]
  BY DEF Base, Types, TypeOK, Minds
<1>2. mem[w].pc = "source"
  BY <1>1, OpenSourceFields
<1>3. CASE Return(w, FALSE)
  BY <1>2, <1>3, BaseReturn DEF Copying
<1>4. CASE /\ source[mem[w].file] # Absent
           /\ Alone(w) /\ Rest /\ target' = target
           /\ mem'[w].pc = "target"
           /\ mem'[w].op = mem[w].op /\ mem'[w].name = mem[w].name
           /\ mem'[w].left = mem[w].left /\ mem'[w].file = mem[w].file
           /\ mem'[w].pos = mem[w].pos /\ mem'[w].kept = mem[w].kept
           /\ mem'[w].linked = mem[w].linked /\ mem'[w].stale = mem[w].stale
  <2>1. Shape(mem[w])'
    BY <1>1, <1>2, <1>4 DEF Shape, Copying, Rest
  <2>2. ASSUME NEW f \in Files PROVE Knows(mem[w], f)'
    BY <1>1, <1>2, <1>4 DEF Knows, Rest, Reach
  <2> QED
    BY <1>1, <1>2, <1>4, <2>1, <2>2, BaseAfterStep
<1> QED
  BY <1>1, <1>3, <1>4, OpenSourceFields

LEMMA BaseOpenTarget ==
  ASSUME Base, NEW w \in Workers, OpenTarget(w)
  PROVE  Base'
<1>1. /\ Types /\ Shape(mem[w]) /\ \A f \in Files : Knows(mem[w], f)
      /\ target \in [Files -> Contents \union {Absent}]
  BY DEF Base, Types, TypeOK, Minds
<1>2. mem[w].pc = "target"
  BY <1>1, OpenTargetFields
<1>3. CASE Return(w, FALSE)
  BY <1>2, <1>3, BaseReturn DEF Copying
<1>4. CASE /\ target[mem[w].file] # Absent
           /\ Alone(w) /\ Rest /\ target' = target
           /\ mem'[w].pc = "read" /\ mem'[w].linked
           /\ mem'[w].op = mem[w].op /\ mem'[w].name = mem[w].name
           /\ mem'[w].left = mem[w].left /\ mem'[w].file = mem[w].file
           /\ mem'[w].pos = mem[w].pos /\ mem'[w].kept = mem[w].kept
           /\ mem'[w].stale = mem[w].stale
  <2>1. Shape(mem[w])'
    BY <1>1, <1>2, <1>4 DEF Shape, Copying, Rest
  <2>2. ASSUME NEW f \in Files PROVE Knows(mem[w], f)'
    BY <1>1, <1>2, <1>4 DEF Knows, Rest, Reach
  <2> QED
    BY <1>1, <1>2, <1>4, <2>1, <2>2, BaseAfterStep
<1> QED
  BY <1>1, <1>3, <1>4, OpenTargetFields

LEMMA BaseRead ==
  ASSUME Base, NEW w \in Workers, Read(w)
  PROVE  Base'
<1>1. /\ Types /\ Shape(mem[w]) /\ \A f \in Files : Knows(mem[w], f)
      /\ target \in [Files -> Contents \union {Absent}]
      /\ mem[w] \in Memory
  BY DEF Base, Types, TypeOK, Minds
<1>2. mem[w].pc = "read" /\ Input(mem[w]) \in Contents
  BY <1>1, ReadFields
<1>3. CASE \E ok \in BOOLEAN : Return(w, ok)
  BY <1>2, <1>3, BaseReturn DEF Copying
<1>4. CASE /\ mem[w].pos < Len(Input(mem[w]))
           /\ Alone(w) /\ Rest /\ target' = target
           /\ mem'[w].pc = "write" /\ mem'[w].block = Input(mem[w])[mem[w].pos + 1]
           /\ mem'[w].op = mem[w].op /\ mem'[w].name = mem[w].name
           /\ mem'[w].left = mem[w].left /\ mem'[w].file = mem[w].file
           /\ mem'[w].pos = mem[w].pos /\ mem'[w].kept = mem[w].kept
           /\ mem'[w].linked = mem[w].linked /\ mem'[w].stale = mem[w].stale
  <2>1. mem[w].pos < MaxBlocks
    <3>1. Len(Input(mem[w])) \in Nat /\ Len(Input(mem[w])) <= MaxBlocks
      BY <1>2, ContentsAreSequences
    <3> QED
      BY <1>1, <1>4, <3>1, MemoryParts, FileSyncAssumption
  <2>2. Shape(mem[w])'
    BY <1>1, <1>2, <1>4, <2>1 DEF Shape, Copying, Rest
  <2>3. ASSUME NEW f \in Files PROVE Knows(mem[w], f)'
    BY <1>1, <1>2, <1>4 DEF Knows, Rest, Reach, Input
  <2> QED
    BY <1>1, <1>2, <1>4, <2>2, <2>3, BaseAfterStep
<1> QED
  BY <1>1, <1>3, <1>4, ReadFields

LEMMA BaseWriteBlock ==
  ASSUME Base, NEW w \in Workers, WriteBlock(w)
  PROVE  Base'
<1>1. /\ Types /\ Shape(mem[w]) /\ \A f \in Files : Knows(mem[w], f)
      /\ target \in [Files -> Contents \union {Absent}]
      /\ mem[w] \in Memory
  BY DEF Base, Types, TypeOK, Minds
<1>2. /\ Alone(w) /\ Rest /\ mem[w].pc = "write"
      /\ target' = IF mem[w].linked
                   THEN [target EXCEPT ![mem[w].file] =
                                          Overwrite(@, mem[w].pos, mem[w].block)]
                   ELSE target
      /\ mem'[w].pc = "read" /\ mem'[w].pos = mem[w].pos + 1
      /\ mem'[w].op = mem[w].op /\ mem'[w].name = mem[w].name
      /\ mem'[w].left = mem[w].left /\ mem'[w].file = mem[w].file
      /\ mem'[w].kept = mem[w].kept
      /\ mem'[w].linked = mem[w].linked /\ mem'[w].stale = mem[w].stale
  BY <1>1, WriteBlockFields
<1>3. /\ mem[w].pos \in Nat /\ mem[w].pos < MaxBlocks /\ mem[w].block \in Blocks
      /\ mem[w].file \in Files
  BY <1>1, <1>2, MemoryParts, FileSyncAssumption DEF Shape, Copying
<1>4. /\ target' \in [Files -> Contents \union {Absent}]
      /\ \A f \in Files : target[f] # Absent => target'[f] # Absent
  <2>1. CASE mem[w].linked
    <3>1. target[mem[w].file] \in Contents
      BY <1>1, <1>2, <1>3, <2>1 DEF Shape, Copying
    <3>2. /\ Overwrite(target[mem[w].file], mem[w].pos, mem[w].block) \in Contents
          /\ Overwrite(target[mem[w].file], mem[w].pos, mem[w].block) # Absent
      BY <1>3, <3>1, Overwritten
    <3>3. target' = [target EXCEPT ![mem[w].file] =
                        Overwrite(target[mem[w].file], mem[w].pos, mem[w].block)]
      BY <1>2, <2>1
    <3> QED
      BY <1>1, <1>3, <3>2, <3>3
  <2>2. CASE ~mem[w].linked
    BY <1>1, <1>2, <2>2
  <2> QED
    BY <2>1, <2>2
<1>5. Shape(mem[w])'
  BY <1>1, <1>2, <1>4 DEF Shape, Copying, Rest
<1>6. ASSUME NEW f \in Files PROVE Knows(mem[w], f)'
  BY <1>1, <1>2 DEF Knows, Rest, Reach
<1> QED
  BY <1>2, <1>4, <1>5, <1>6, BaseAfterStep

LEMMA BaseFinish ==
  ASSUME Base, NEW w \in Workers, Finish(w)
  PROVE  Base'
<1>1. /\ Types /\ Shape(mem[w]) /\ \A f \in Files : Knows(mem[w], f)
      /\ target \in [Files -> Contents \union {Absent}]
      /\ mem[w] \in Memory
  BY DEF Base, Types, TypeOK, Minds
<1>2. /\ Alone(w) /\ Rest /\ target' = target
      /\ mem[w].pc = "next" /\ mem[w].left = {} /\ mem'[w].pc = "done"
      /\ mem'[w].op = mem[w].op /\ mem'[w].name = mem[w].name
      /\ mem'[w].left = mem[w].left /\ mem'[w].file = mem[w].file
      /\ mem'[w].pos = mem[w].pos /\ mem'[w].kept = mem[w].kept
      /\ mem'[w].linked = mem[w].linked /\ mem'[w].stale = mem[w].stale
  BY <1>1, FinishFields
<1>3. Shape(mem[w])'
  BY <1>1, <1>2 DEF Shape, Copying
<1>4. ASSUME NEW f \in Files PROVE Knows(mem[w], f)'
  BY <1>1, <1>2 DEF Knows, Rest, Reach
<1> QED
  BY <1>1, <1>2, <1>3, <1>4, BaseAfterStep

-----------------------------------------------------------------------------
(***************************************************************************)
(* The same through the steps of the manager: a worker starts with a task  *)
(* that was the next to come, or with a sync command.                      *)
(***************************************************************************)
Starts(w, task) == /\ mem[w].pc \in {"idle", "done"}
                   /\ mem' = [mem EXCEPT ![w] = Begun(task)]
                   /\ moved' = MovedAt(task)
                   /\ tainted' = TaintAt(task)
                   /\ UNCHANGED <<source, target>>

Takes(task) == /\ task \in Tasks
               /\ \/ Ahead = {task} \union Ahead'
                  \/ task = FullSync /\ Ahead' = Ahead
               /\ \A f \in Files \ moved :
                    /\ task = Task("DELETED", f) /\ source[f] # Absent
                         => Task("ADDED", f) \in Ahead'
                    /\ task \in {Task("ADDED", f), Task("MODIFIED", f)} /\ source[f] = Absent
                         => Task("DELETED", f) \in Ahead'

LEMMA QueueTypes ==
  ASSUME NEW q \in Seq(Tasks)
  PROVE  q \in Seq([op : Operations, name : Files \union {"ALL"}])
<1>1. Tasks \subseteq [op : Operations, name : Files \union {"ALL"}]
  BY DEF Tasks, FullSync, Task, Operations
<1>2. ASSUME NEW A, NEW B, A \subseteq B, NEW s \in Seq(A) PROVE s \in Seq(B)
  BY <1>2
<1> QED
  BY <1>1, <1>2

LEMMA MindsAfterStart ==
  ASSUME Base, NEW w \in Workers, NEW task \in Tasks, Starts(w, task)
  PROVE  /\ mem' \in [Workers -> Memory] /\ Minds'
         /\ moved' \subseteq Files /\ tainted' \subseteq Files
         /\ Alone(w) /\ mem'[w] = Begun(task) /\ mem'[w].pc # "idle"
<1>1. /\ Types /\ moved \subseteq Files /\ tainted \subseteq Files
      /\ \A v \in Workers : Shape(mem[v]) /\ \A f \in Files : Knows(mem[v], f)
  BY DEF Base, Types, TypeOK, Minds
<1>2. PICK n \in Memory : n = Begun(task)
  BY BegunFields
<1>3. /\ n.op = task.op /\ n.name = task.name
      /\ task.op = "FULL" => n.pc = "scan" /\ n.left = {}
      /\ task.op = "DELETED" => n.pc = "unlink" /\ n.left = {task.name}
      /\ task.op \in {"ADDED", "MODIFIED"} => n.pc = "next" /\ n.left = {task.name}
      /\ n.file = "ALL" /\ n.pos = 0 /\ n.kept = Absent /\ ~n.linked /\ n.stale = {}
  BY <1>2, BegunFields
<1>4. Alone(w) /\ mem'[w] = n
  BY <1>1, <1>2, OneMemory DEF Starts
<1>5. task.op \in Operations /\ (task.op # "FULL" => task.name \in Files)
  BY DEF Tasks, FullSync, Task, Operations
<1>6. Shape(mem[w])'
  BY <1>3, <1>4, <1>5 DEF Shape, Copying, Operations
<1>7. ASSUME NEW f \in Files PROVE Knows(mem[w], f)'
  BY <1>3, <1>4, <1>5, FileSyncAssumption DEF Knows, Reach, Operations
<1>8. ASSUME NEW v \in Workers, v # w PROVE Shape(mem[v])' /\ \A f \in Files : Knows(mem[v], f)'
  <2>1. mem'[v] = mem[v] /\ source' = source /\ target' = target
    BY <1>4, <1>8 DEF Alone, Starts
  <2>2. Shape(mem[v])'
    BY <1>1, <2>1 DEF Shape, Copying
  <2>3. ASSUME NEW f \in Files PROVE Knows(mem[v], f)'
    BY <1>1, <2>1 DEF Knows
  <2> QED
    BY <2>2, <2>3
<1>9. Minds'
  BY <1>6, <1>7, <1>8 DEF Minds
<1>10. moved' \subseteq Files /\ tainted' \subseteq Files
  <2>1. moved' \subseteq Files
    BY <1>1 DEF Starts, MovedAt
  <2>2. tainted' \subseteq Files
    BY <1>1 DEF Starts, TaintAt, Reach
  <2> QED
    BY <2>1, <2>2
<1>11. mem'[w].pc # "idle"
  BY <1>3, <1>4, <1>5 DEF Operations
<1> QED
  BY <1>2, <1>4, <1>9, <1>10, <1>11 DEF Alone

\* A file that nothing is about: its tasks agree, and it may stop being one of
\* the renamed.
LEMMA NoneAwaited ==
  ASSUME Types, NEW f \in Files, f \notin Awaited, NEW op
  PROVE  Task(op, f) \notin Ahead
<1>1. queue \in Seq(Tasks) /\ events \in Seq(Tasks)
  BY PendingTypes
<1>2. Ahead = Range(queue) \union Range(events)
  BY <1>1, Joined DEF Ahead, Pending
<1>3. Task(op, f).name = f
  BY DEF Task
<1> QED
  BY <1>2, <1>3 DEF Range, Awaited

LEMMA NothingFollows ==
  ASSUME NEW s, NEW a, NEW b, a \notin Range(s)
  PROVE  Follows(s, a, b)
BY DEF Follows, Range

LEMMA AgreesAfterStart ==
  ASSUME Base, NEW w \in Workers, NEW task \in Tasks, Starts(w, task), Takes(task),
         \A f \in Files \ moved : Agrees(f)'
  PROVE  PendingAgrees'
<1> SUFFICES ASSUME NEW f \in Files \ moved', f \in moved PROVE Agrees(f)'
  BY DEF PendingAgrees
<1>1. f \notin Awaited /\ Types
  BY DEF Starts, MovedAt, Base
<1>2. ASSUME NEW op PROVE Task(op, f) \notin Range(Pending')
  <2>1. Task(op, f) \notin Ahead
    BY <1>1, NoneAwaited
  <2>2. Ahead' \subseteq Ahead
    BY DEF Takes
  <2> QED
    BY <2>1, <2>2 DEF Ahead
<1>3. ASSUME NEW a, NEW b PROVE Follows(Pending', Task(a, f), b)
  BY <1>2, NothingFollows
<1> QED
  BY <1>3 DEF Agrees

LEMMA BaseEvent ==
  ASSUME Base, Event
  PROVE  /\ Base'
         /\ \/ \E w \in Workers : \E task \in Tasks : Starts(w, task) /\ Takes(task)
            \/ UNCHANGED <<source, target, mem, moved, tainted>> /\ Ahead' = Ahead
<1>1. /\ Types /\ PendingAgrees /\ QueueWaits
      /\ events \in Seq([op : Operations \ {"FULL"}, name : Files])
  BY DEF Base, Types, TypeOK
<1>2. /\ events # << >> /\ events' = Tail(events)
      /\ UNCHANGED <<source, target, changes, syncs>>
      /\ enqueue_worker(Head(events))
  BY DEF Event
<1>3. events' \in Seq([op : Operations \ {"FULL"}, name : Files])
  BY <1>1, <1>2
<1>4. CASE Active # Workers
  <2>1. queue = << >>
    BY <1>1, <1>4 DEF QueueWaits
  <2>2. Pending = events /\ queue' = queue
    BY <1>1, <1>2, <1>4, <2>1, FromQueueOrEvents DEF enqueue_worker
  <2>3. Pending' = Tail(Pending)
    <3>1. events \in Seq(Tasks) /\ Tail(events) \in Seq(Tasks)
      BY <1>1, <1>2, PendingTypes
    <3> QED
      BY <1>2, <2>1, <2>2, <3>1 DEF Pending
  <2>4. (\A f \in Files \ moved : Agrees(f)') /\ Takes(Head(events))
    BY <1>1, <1>2, <2>2, <2>3, TaskTaken DEF Takes
  <2>5. Head(events) \in Tasks
    BY <2>4 DEF Takes
  <2>6. PICK w \in Workers \ Active : mem' = [mem EXCEPT ![w] = Begun(Head(events))]
    BY <1>2, <1>4 DEF enqueue_worker
  <2>7. Starts(w, Head(events))
    BY <1>2, <1>4, <2>6 DEF Starts, enqueue_worker, Active
  <2>8. /\ Minds' /\ mem' \in [Workers -> Memory]
        /\ moved' \subseteq Files /\ tainted' \subseteq Files
        /\ PendingAgrees'
    BY <2>4, <2>5, <2>7, MindsAfterStart, AgreesAfterStart
  <2>9. Types'
    BY <1>1, <1>2, <1>3, <2>2, <2>8 DEF Types, TypeOK
  <2>10. QueueWaits'
    BY <2>1, <2>2 DEF QueueWaits
  <2> QED
    BY <2>4, <2>5, <2>7, <2>8, <2>9, <2>10 DEF Base
<1>5. CASE Active = Workers
  <2>1. queue' = Append(queue, Head(events)) /\ UNCHANGED <<mem, moved, tainted>>
    BY <1>2, <1>5 DEF enqueue_worker
  <2>2. Pending' = Pending /\ queue' \in Seq(Tasks)
    BY <1>1, <1>2, <2>1, EventQueued
  <2>3. PendingAgrees' /\ Ahead' = Ahead
    BY <1>1, <1>2, <2>1, <2>2 DEF PendingAgrees, Agrees, Ahead
  <2>4. queue' \in Seq([op : Operations, name : Files \union {"ALL"}])
    BY <2>2, QueueTypes
  <2>5. Types'
    BY <1>1, <1>2, <1>3, <2>1, <2>2, <2>4 DEF Types, TypeOK
  <2>6. QueueWaits'
    BY <1>5, <2>1 DEF QueueWaits, Active
  <2>7. Minds'
    BY <1>2, <2>1 DEF Base, Minds, Shape, Knows
  <2> QED
    BY <1>2, <2>1, <2>3, <2>5, <2>6, <2>7 DEF Base
<1> QED
  BY <1>4, <1>5

LEMMA BaseSync ==
  ASSUME Base, Sync
  PROVE  /\ Base'
         /\ \/ \E w \in Workers : \E task \in Tasks : Starts(w, task) /\ Takes(task)
            \/ /\ UNCHANGED <<source, target, mem, moved, tainted>>
               /\ Ahead' = Ahead \union {FullSync}
<1>1. Types /\ PendingAgrees /\ QueueWaits /\ syncs \in 0..MaxSyncs
  BY DEF Base, Types, TypeOK
<1>2. /\ syncs < MaxSyncs /\ syncs' = syncs + 1
      /\ UNCHANGED <<source, target, events, changes>>
      /\ enqueue_worker(FullSync)
  BY DEF Sync
<1>3. syncs' \in 0..MaxSyncs
  BY <1>1, <1>2, FileSyncAssumption
<1>4. FullSync \in Tasks
  BY DEF Tasks
<1>5. CASE Active # Workers
  <2>1. queue = << >> /\ queue' = queue
    BY <1>1, <1>2, <1>5 DEF QueueWaits, enqueue_worker
  <2>2. Ahead' = Ahead /\ \A f \in Files \ moved : Agrees(f)'
    BY <1>1, <1>2, <2>1 DEF Pending, Ahead, PendingAgrees, Agrees
  <2>3. Takes(FullSync)
    BY <1>4, <2>2, TaskParts DEF Takes, FullSync
  <2>4. PICK w \in Workers \ Active : mem' = [mem EXCEPT ![w] = Begun(FullSync)]
    BY <1>2, <1>5 DEF enqueue_worker
  <2>5. Starts(w, FullSync)
    BY <1>2, <1>5, <2>4 DEF Starts, enqueue_worker, Active
  <2>6. /\ Minds' /\ mem' \in [Workers -> Memory]
        /\ moved' \subseteq Files /\ tainted' \subseteq Files
        /\ PendingAgrees'
    BY <1>4, <2>2, <2>3, <2>5, MindsAfterStart, AgreesAfterStart
  <2>7. Types'
    BY <1>1, <1>2, <1>3, <2>1, <2>6 DEF Types, TypeOK
  <2>8. QueueWaits'
    BY <2>1 DEF QueueWaits
  <2> QED
    BY <1>4, <2>2, <2>3, <2>5, <2>6, <2>7, <2>8 DEF Base
<1>6. CASE Active = Workers
  <2>1. queue' = Append(queue, FullSync) /\ UNCHANGED <<mem, moved, tainted>>
    BY <1>2, <1>6 DEF enqueue_worker
  <2>2. PendingAgrees' /\ Ahead' = Ahead \union {FullSync}
    BY <1>1, <1>2, <2>1, SyncPut
  <2>3. queue' \in Seq(Tasks)
    BY <1>1, <1>4, <2>1, PendingTypes
  <2>4. queue' \in Seq([op : Operations, name : Files \union {"ALL"}])
    BY <2>3, QueueTypes
  <2>5. Types'
    BY <1>1, <1>2, <1>3, <2>1, <2>3, <2>4 DEF Types, TypeOK
  <2>6. QueueWaits'
    BY <1>6, <2>1 DEF QueueWaits, Active
  <2>7. Minds'
    BY <1>2, <2>1 DEF Base, Minds, Shape, Knows
  <2> QED
    BY <1>2, <2>1, <2>2, <2>5, <2>6, <2>7 DEF Base
<1> QED
  BY <1>5, <1>6

LEMMA BaseReap ==
  ASSUME Base, NEW w \in Workers, Reap(w)
  PROVE  /\ Base'
         /\ \/ \E task \in Tasks : Starts(w, task) /\ Takes(task)
            \/ /\ UNCHANGED <<source, target, moved, tainted>> /\ Ahead' = Ahead
               /\ mem[w].pc = "done" /\ Alone(w) /\ mem'[w] = Idle
<1>1. Types /\ PendingAgrees /\ QueueWaits /\ Minds
  BY DEF Base
<1>2. mem[w].pc = "done" /\ UNCHANGED <<source, target, events, changes, syncs>>
  BY DEF Reap
<1>3. CASE queue # << >>
  <2>1. /\ mem' = [mem EXCEPT ![w] = Begun(Head(queue))]
        /\ queue' = Tail(queue)
        /\ moved' = MovedAt(Head(queue)) /\ tainted' = TaintAt(Head(queue))
    BY <1>3 DEF Reap
  <2>2. /\ Pending # << >> /\ Head(Pending) = Head(queue)
        /\ Tail(Pending) = Tail(queue) \o events
    BY <1>1, <1>3, FromQueueOrEvents
  <2>3. Pending' = Tail(Pending)
    BY <1>2, <2>1, <2>2 DEF Pending
  <2>4. (\A f \in Files \ moved : Agrees(f)') /\ Takes(Head(queue))
    BY <1>1, <1>2, <2>2, <2>3, TaskTaken DEF Takes
  <2>5. Head(queue) \in Tasks
    BY <2>4 DEF Takes
  <2>6. Starts(w, Head(queue))
    BY <1>2, <2>1 DEF Starts
  <2>7. /\ Minds' /\ mem' \in [Workers -> Memory]
        /\ moved' \subseteq Files /\ tainted' \subseteq Files
        /\ Alone(w) /\ mem'[w].pc # "idle"
        /\ PendingAgrees'
    BY <2>4, <2>5, <2>6, MindsAfterStart, AgreesAfterStart
  <2>8. queue' \in Seq(Tasks)
    BY <1>1, <1>3, <2>1, PendingTypes
  <2>9. queue' \in Seq([op : Operations, name : Files \union {"ALL"}])
    BY <2>8, QueueTypes
  <2>10. Types'
    BY <1>1, <1>2, <2>7, <2>8, <2>9 DEF Types, TypeOK
  <2>11. QueueWaits'
    BY <1>1, <1>3, <2>7 DEF QueueWaits, Active, Alone
  <2> QED
    BY <2>4, <2>5, <2>6, <2>7, <2>10, <2>11 DEF Base
<1>4. CASE queue = << >>
  <2>1. mem' = [mem EXCEPT ![w] = Idle] /\ UNCHANGED <<queue, moved, tainted>>
    BY <1>4 DEF Reap
  <2>2. Alone(w) /\ mem'[w] = Idle
    BY <1>1, <2>1, IdleFields, OneMemory
  <2>3. Ahead' = Ahead /\ PendingAgrees'
    BY <1>1, <1>2, <2>1 DEF Pending, Ahead, PendingAgrees, Agrees
  <2>4. Types'
    BY <1>1, <1>2, <2>1, <2>2 DEF Types, TypeOK, Alone
  <2>5. QueueWaits'
    BY <1>4, <2>1 DEF QueueWaits
  <2>6. Shape(mem[w])' /\ \A f \in Files : Knows(mem[w], f)'
    BY <2>2, IdleFields, FileSyncAssumption DEF Shape, Knows, Copying
  <2>7. ASSUME NEW v \in Workers, v # w
        PROVE  Shape(mem[v])' /\ \A f \in Files : Knows(mem[v], f)'
    <3>1. mem'[v] = mem[v] /\ source' = source /\ target' = target
      BY <1>2, <2>2, <2>7 DEF Alone
    <3> QED
      BY <1>1, <3>1 DEF Minds, Shape, Knows
  <2>8. Minds'
    BY <2>6, <2>7 DEF Minds
  <2> QED
    BY <1>2, <2>1, <2>2, <2>3, <2>4, <2>5, <2>8 DEF Base
<1> QED
  BY <1>3, <1>4

-----------------------------------------------------------------------------
(***************************************************************************)
(* The same through the changes of the source.                             *)
(***************************************************************************)
Possible(f, contents, op) ==
    \/ op = "ADDED" /\ contents \in Contents
    \/ op = "DELETED" /\ source[f] # Absent /\ contents = Absent
    \/ op = "MODIFIED" /\ source[f] # Absent /\ contents \in Contents

Notices(f, contents, op) == /\ Noticed(f, contents, op)
                            /\ op = "ADDED" => source[f] = Absent

LEMMA UsersChange ==
  ASSUME Types, Users
  PROVE  \E f \in Files, contents \in Contents \union {Absent}, op \in Operations \ {"FULL"} :
            /\ Possible(f, contents, op)
            /\ Notices(f, contents, op) \/ Renamed(f, contents, op)
<1>1. PICK f \in Files : Create(f) \/ Remove(f) \/ Write(f) \/ MoveIn(f) \/ MoveOut(f)
  BY DEF Users
<1>2. CASE Create(f)
  BY <1>2, EmptyFile DEF Create, Possible, Notices, Operations
<1>3. CASE Remove(f)
  BY <1>3 DEF Remove, Possible, Notices, Operations
<1>4. ASSUME changes < MaxChanges PROVE changes + 2 \in Blocks
  <2>1. changes \in 0..MaxChanges
    BY DEF Types, TypeOK
  <2> QED
    BY <1>4, <2>1, FileSyncAssumption DEF Blocks
<1>5. CASE Write(f)
  <2>1. source[f] # Absent /\ source[f] \in Contents
    BY <1>5 DEF Write, Types, TypeOK
  <2>2. PICK keep \in 0..Len(source[f]) : \E more \in 0..(MaxBlocks - keep) :
          Noticed(f, SubSeq(source[f], 1, keep) \o [i \in 1..more |-> changes + 2], "MODIFIED")
    BY <1>5 DEF Write
  <2>3. PICK more \in 0..(MaxBlocks - keep) :
          Noticed(f, SubSeq(source[f], 1, keep) \o [i \in 1..more |-> changes + 2], "MODIFIED")
    BY <2>2
  <2>4. changes < MaxChanges
    <3>1. ASSUME NEW c, Noticed(f, c, "MODIFIED") PROVE changes < MaxChanges
      BY <3>1 DEF Noticed, Change
    <3> QED
      BY <2>3, <3>1, Zenon
  <2>5. SubSeq(source[f], 1, keep) \o [i \in 1..more |-> changes + 2] \in Contents
    BY <1>4, <2>1, <2>4, WrittenFile
  <2> QED
    BY <2>1, <2>3, <2>5 DEF Possible, Notices, Operations
<1>6. CASE MoveIn(f)
  <2>1. PICK n \in 0..MaxBlocks : Renamed(f, [i \in 1..n |-> changes + 2], "ADDED")
    BY <1>6 DEF MoveIn
  <2>2. changes < MaxChanges
    BY <2>1 DEF Renamed, Change
  <2>3. [i \in 1..n |-> changes + 2] \in Contents
    <3>1. n \in Nat /\ n <= MaxBlocks
      BY FileSyncAssumption
    <3>2. [i \in 1..n |-> changes + 2] \in [1..n -> Blocks]
      BY <1>4, <2>2
    <3> QED
      BY <3>1, <3>2, FunctionsAreContents
  <2> QED
    BY <2>1, <2>3 DEF Possible, Operations
<1>7. CASE MoveOut(f)
  BY <1>7 DEF MoveOut, Possible, Operations
<1> QED
  BY <1>1, <1>2, <1>3, <1>5, <1>6, <1>7

\* What a change does to the memories, noticed or not.
LEMMA MindsAfterChange ==
  ASSUME Base, NEW f \in Files, NEW contents \in Contents \union {Absent},
         NEW op \in Operations \ {"FULL"}, Change(f, contents, op), Possible(f, contents, op)
  PROVE  /\ Minds' /\ QueueWaits'
         /\ mem' \in [Workers -> Memory] /\ source' \in [Files -> Contents \union {Absent}]
         /\ changes' \in 0..MaxChanges
<1>1. /\ Types /\ QueueWaits
      /\ \A w \in Workers : Shape(mem[w]) /\ \A g \in Files : Knows(mem[w], g)
      /\ source \in [Files -> Contents \union {Absent}]
      /\ changes \in 0..MaxChanges
  BY DEF Base, Types, TypeOK, Minds
<1>2. /\ changes < MaxChanges /\ changes' = changes + 1
      /\ UNCHANGED <<target, queue, syncs>>
  BY DEF Change
<1>3. /\ mem' \in [Workers -> Memory]
      /\ source' = [source EXCEPT ![f] = contents]
      /\ \A w \in Workers :
           /\ mem'[w].pc = mem[w].pc /\ mem'[w].op = mem[w].op /\ mem'[w].name = mem[w].name
           /\ mem'[w].left = mem[w].left /\ mem'[w].file = mem[w].file
           /\ mem'[w].pos = mem[w].pos /\ mem'[w].block = mem[w].block
           /\ mem'[w].linked = mem[w].linked
           /\ IF /\ mem[w].file = f /\ mem[w].pc \in {"target", "read", "write"}
                 /\ op # "MODIFIED" /\ mem[w].kept = Absent
              THEN mem'[w].kept = source[f] ELSE mem'[w].kept = mem[w].kept
           /\ IF mem[w].pc \in {"idle", "done"} THEN mem'[w].stale = mem[w].stale
              ELSE mem'[w].stale = mem[w].stale \union {f}
  BY <1>1, ChangeFields
<1>4. QueueWaits'
  BY <1>1, <1>2, <1>3 DEF QueueWaits, Active
<1>5. ASSUME NEW w \in Workers PROVE Shape(mem[w])'
  <2>1. Shape(mem[w])
    BY <1>1
  <2>2. ASSUME mem[w].pc \in Copying \ {"source"}, mem'[w].kept = Absent
        PROVE  source'[mem[w].file] # Absent
    <3>1. mem[w].pc \in {"target", "read", "write"} /\ mem[w].file \in Files
      BY <2>1, <2>2 DEF Shape, Copying
    <3>2. CASE mem[w].file # f
      BY <1>1, <1>3, <2>1, <2>2, <3>1, <3>2 DEF Shape, Copying
    <3>3. CASE mem[w].file = f
      <4>1. op # "DELETED"
        BY <1>3, <2>2, <3>1, <3>3 DEF Possible
      <4> QED
        BY <1>1, <1>3, <3>3, <4>1, FileSyncAssumption DEF Possible
    <3> QED
      BY <3>2, <3>3
  <2>3. mem[w].pc \notin Copying \ {"source"} => mem'[w].kept = Absent
    BY <1>3, <2>1 DEF Shape, Copying
  <2> QED
    BY <1>2, <1>3, <2>1, <2>2, <2>3 DEF Shape, Copying
<1>6. ASSUME NEW w \in Workers, NEW g \in Files PROVE Knows(mem[w], g)'
  <2>1. Shape(mem[w]) /\ Knows(mem[w], g)
    BY <1>1
  <2>2. CASE g = f
    <3>1. CASE mem[w].pc \in {"idle", "done"}
      <4>1. mem[w].file = "ALL" /\ g \notin Reach(mem[w])'
        BY <1>3, <2>1, <3>1 DEF Shape, Copying, Reach
      <4> QED
        BY <1>3, <4>1, FileSyncAssumption DEF Knows
    <3>2. CASE mem[w].pc \notin {"idle", "done"}
      BY <1>3, <2>2, <3>2 DEF Knows
    <3> QED
      BY <3>1, <3>2
  <2>3. CASE g # f
    <3>1. source'[g] = source[g]
      BY <1>1, <1>3, <2>3
    <3>2. g \notin mem'[w].stale => g \notin mem[w].stale
      BY <1>3
    <3>3. g \in Reach(mem[w])' => g \in Reach(mem[w])
      BY <1>3 DEF Reach
    <3>4. mem[w].file = g => mem'[w].kept = mem[w].kept
      BY <1>3, <2>3
    <3> QED
      BY <1>3, <2>1, <3>1, <3>2, <3>3, <3>4 DEF Knows
  <2> QED
    BY <2>2, <2>3
<1>7. Minds'
  BY <1>5, <1>6 DEF Minds
<1>8. source' \in [Files -> Contents \union {Absent}] /\ changes' \in 0..MaxChanges
  <2>1. source' \in [Files -> Contents \union {Absent}]
    BY <1>1, <1>3
  <2> QED
    BY <1>1, <1>2, <2>1, FileSyncAssumption
<1> QED
  BY <1>3, <1>4, <1>7, <1>8

LEMMA BaseChange ==
  ASSUME Base, NEW f \in Files, NEW contents \in Contents \union {Absent},
         NEW op \in Operations \ {"FULL"}, Notices(f, contents, op), Possible(f, contents, op)
  PROVE  Base' /\ Ahead' = Ahead \union {Task(op, f)}
<1>1. /\ Types /\ PendingAgrees
      /\ source \in [Files -> Contents \union {Absent}]
      /\ moved \subseteq Files /\ tainted \subseteq Files
  BY DEF Base, Types, TypeOK
<1>2. /\ Change(f, contents, op) /\ Notify(op, f)
      /\ moved' = moved /\ tainted' \subseteq Files
      /\ UNCHANGED <<target, queue, syncs>>
  BY <1>1 DEF Notices, Noticed, Change
<1>3. source' = [source EXCEPT ![f] = contents] /\ (op = "ADDED" => source[f] = Absent)
  BY DEF Notices, Noticed, Change
<1>4. /\ Ahead' = Ahead \union {Task(op, f)}
      /\ events' \in Seq([op : Operations \ {"FULL"}, name : Files])
      /\ \A a, b : /\ Follows(Pending, a, b) /\ a # Task(op, f) => Follows(Pending', a, b)
                   /\ b = Task(op, f) /\ a # b => Follows(Pending', a, b)
  BY <1>1, <1>2, ChangePut
<1>5. PendingAgrees'
  <2>1. ASSUME NEW g \in Files \ moved
        PROVE  /\ source'[g] # Absent =>
                    Follows(Pending', Task("DELETED", g), Task("ADDED", g))
               /\ source'[g] = Absent =>
                    /\ Follows(Pending', Task("ADDED", g), Task("DELETED", g))
                    /\ Follows(Pending', Task("MODIFIED", g), Task("DELETED", g))
    <3>1. /\ source[g] # Absent => Follows(Pending, Task("DELETED", g), Task("ADDED", g))
          /\ source[g] = Absent =>
               /\ Follows(Pending, Task("ADDED", g), Task("DELETED", g))
               /\ Follows(Pending, Task("MODIFIED", g), Task("DELETED", g))
      BY <1>1 DEF PendingAgrees, Agrees
    <3>2. CASE g # f
      BY <1>1, <1>3, <1>4, <3>1, <3>2, TaskParts
    <3>3. CASE g = f /\ op = "ADDED"
      BY <1>1, <1>3, <1>4, <3>3, TaskParts, FileSyncAssumption DEF Possible
    <3>4. CASE g = f /\ op = "DELETED"
      BY <1>1, <1>3, <1>4, <3>4, TaskParts DEF Possible
    <3>5. CASE g = f /\ op = "MODIFIED"
      BY <1>1, <1>3, <1>4, <3>1, <3>5, TaskParts, FileSyncAssumption DEF Possible
    <3> QED
      BY <3>2, <3>3, <3>4, <3>5 DEF Operations
  <2> QED
    BY <1>2, <2>1 DEF PendingAgrees, Agrees
<1>6. Types'
  BY <1>1, <1>2, <1>4, MindsAfterChange DEF Types, TypeOK
<1> QED
  BY <1>2, <1>4, <1>5, <1>6, MindsAfterChange DEF Base

LEMMA BaseRenamed ==
  ASSUME Base, NEW f \in Files, NEW contents \in Contents \union {Absent},
         NEW op \in Operations \ {"FULL"}, Renamed(f, contents, op), Possible(f, contents, op)
  PROVE  Base' /\ Ahead' = Ahead
<1>1. /\ Types /\ PendingAgrees
      /\ source \in [Files -> Contents \union {Absent}]
  BY DEF Base, Types, TypeOK
<1>2. /\ Change(f, contents, op)
      /\ moved' = moved \union {f}
      /\ source' = [source EXCEPT ![f] = contents]
      /\ UNCHANGED <<target, events, queue, syncs, tainted>>
  BY DEF Renamed, Change
<1>3. Pending' = Pending /\ Ahead' = Ahead
  BY <1>2 DEF Pending, Ahead
<1>4. PendingAgrees'
  <2> SUFFICES ASSUME NEW g \in Files \ moved, g # f PROVE Agrees(g)'
    BY <1>2 DEF PendingAgrees
  <2>1. Agrees(g) /\ source'[g] = source[g]
    BY <1>1, <1>2 DEF PendingAgrees
  <2> QED
    BY <1>3, <2>1 DEF Agrees
<1>5. Types'
  BY <1>1, <1>2, MindsAfterChange DEF Types, TypeOK
<1> QED
  BY <1>2, <1>3, <1>4, <1>5, MindsAfterChange DEF Base

LEMMA BaseInit ==
  ASSUME Init
  PROVE  Base
<1>1. /\ FullSync \in Tasks /\ FullSync.op = "FULL"
      /\ queue = << >> /\ events = << >> /\ moved = {} /\ tainted = {}
      /\ changes = 0 /\ syncs = 0
  BY DEF Tasks, FullSync, Task, Init
<1>2. PICK w \in Workers : mem = [v \in Workers |-> IF v = w THEN Begun(FullSync) ELSE Idle]
  BY DEF Init
<1>3. PICK n \in Memory : n = Begun(FullSync)
  BY <1>1, BegunFields
<1>4. /\ n.op = "FULL" /\ n.pc = "scan" /\ n.left = {}
      /\ n.file = "ALL" /\ n.pos = 0 /\ n.kept = Absent /\ ~n.linked /\ n.stale = {}
  BY <1>1, <1>3, BegunFields
<1>5. mem \in [Workers -> Memory]
  <2> HIDE DEF Memory
  <2> QED
    BY <1>2, <1>3, IdleFields
<1>6. /\ source \in [Files -> Contents \union {Absent}]
      /\ target \in [Files -> Contents \union {Absent}]
  <2>1. <<1>> \in Contents
    <3>1. <<1>> \in [1..1 -> Blocks]
      BY FileSyncAssumption DEF Blocks
    <3>2. 1 \in Nat /\ 1 <= MaxBlocks
      BY FileSyncAssumption
    <3> QED
      BY <3>1, <3>2, FunctionsAreContents
  <2>2. [i \in 1..MaxBlocks |-> 0] \in Contents
    <3>1. [i \in 1..MaxBlocks |-> 0] \in [1..MaxBlocks -> Blocks]
      BY BlocksAndPlaces
    <3> QED
      BY <3>1, FunctionsAreContents, FileSyncAssumption
  <2> QED
    BY <2>1, <2>2 DEF Init
<1>7. Types
  <2>1. << >> \in Seq(Tasks) /\ << >> \in Seq([op : Operations, name : Files \union {"ALL"}])
        /\ << >> \in Seq([op : Operations \ {"FULL"}, name : Files])
    OBVIOUS
  <2> QED
    BY <1>1, <1>5, <1>6, <2>1, FileSyncAssumption DEF Types, TypeOK
<1>8. PendingAgrees
  <2>1. Pending = << >>
    BY <1>1 DEF Pending
  <2> QED
    BY <2>1 DEF PendingAgrees, Agrees, Follows
<1>9. QueueWaits
  BY <1>1 DEF QueueWaits
<1>10. ASSUME NEW v \in Workers PROVE Shape(mem[v]) /\ \A f \in Files : Knows(mem[v], f)
  <2>1. CASE v = w
    <3>1. mem[v] = n
      BY <1>2, <1>3, <2>1
    <3> QED
      BY <1>4, <3>1, FileSyncAssumption DEF Shape, Knows, Copying
  <2>2. CASE v # w
    <3>1. mem[v] = Idle
      BY <1>2, <2>2
    <3> QED
      BY <3>1, IdleFields, FileSyncAssumption DEF Shape, Knows, Copying
  <2> QED
    BY <2>1, <2>2
<1> QED
  BY <1>7, <1>8, <1>9, <1>10 DEF Base, Minds

-----------------------------------------------------------------------------
(***************************************************************************)
(* Who is at a file and what they will do to it, when nothing about that   *)
(* file changes but, perhaps, what its workers have yet to do.             *)
(***************************************************************************)
LEMMA DoersReach ==
  ASSUME NEW m \in Memory, Shape(m), NEW f \in Files
  PROVE  /\ Renews(m, f) => f \in Reach(m)
         /\ Unlinks(m, f) => f \in Reach(m)
         /\ \A i : Covers(m, f, i) => f \in Reach(m)
         /\ m.file = f => f \in Reach(m)
<1>1. m.op \in Operations \union {"none"}
  BY MemoryParts
<1>2. "ALL" # f
  BY FileSyncAssumption
<1> QED
  BY <1>1, <1>2 DEF Shape, Renews, Unlinks, Covers, Copies, Reach, Copying, Operations

\* The tasks of a file that are still to come are those that were.
SameTasks(f) == \A op \in Operations \ {"FULL"} : Task(op, f) \in Ahead' <=> Task(op, f) \in Ahead

LEMMA CompanyKept ==
  ASSUME NEW f \in Files, Company(f), source'[f] = source[f], SameTasks(f),
         \A v \in Workers : f \in Reach(mem[v])' =>
            /\ f \in Reach(mem[v])
            /\ mem'[v].op = mem[v].op
            /\ f \in mem'[v].stale => f \in mem[v].stale
            /\ Copies(mem[v])' => Copies(mem[v]) \/ source[f] # Absent
            /\ Reads(mem[v], f) => Task("DELETED", f) \in Ahead \/ Reads(mem[v], f)'
  PROVE  Company(f)'
<1>1. At(f)' \subseteq At(f)
  BY DEF At
<1>2. "DELETED" \in Operations \ {"FULL"} /\ "ADDED" \in Operations \ {"FULL"}
  BY DEF Operations
<1>3. ASSUME NEW v \in At(f)'
      PROVE  /\ f \in mem'[v].stale =>
                  At(f)' = {v} /\ \E op \in Operations \ {"FULL"} : Task(op, f) \in Ahead'
             /\ \A w \in At(f)' : v # w => ~Conflict(mem'[v].op, mem'[w].op)
             /\ mem'[v].op = "DELETED" /\ source'[f] # Absent => Task("ADDED", f) \in Ahead'
             /\ Copies(mem[v])' /\ source'[f] = Absent => Task("DELETED", f) \in Ahead'
             /\ Task("DELETED", f) \in Ahead' \/ Reads(mem[v], f)'
  <2>1. /\ v \in Workers /\ v \in At(f)
        /\ mem'[v].op = mem[v].op
        /\ f \in mem'[v].stale => f \in mem[v].stale
        /\ Copies(mem[v])' => Copies(mem[v]) \/ source[f] # Absent
        /\ Reads(mem[v], f) => Task("DELETED", f) \in Ahead \/ Reads(mem[v], f)'
    BY <1>1, <1>3 DEF At
  <2>2. /\ f \in mem[v].stale =>
             At(f) = {v} /\ \E op \in Operations \ {"FULL"} : Task(op, f) \in Ahead
        /\ \A w \in At(f) : v # w => ~Conflict(mem[v].op, mem[w].op)
        /\ mem[v].op = "DELETED" /\ source[f] # Absent => Task("ADDED", f) \in Ahead
        /\ Copies(mem[v]) /\ source[f] = Absent => Task("DELETED", f) \in Ahead
        /\ Task("DELETED", f) \in Ahead \/ Reads(mem[v], f)
    BY <2>1 DEF Company
  <2>3. f \in mem'[v].stale =>
           At(f)' = {v} /\ \E op \in Operations \ {"FULL"} : Task(op, f) \in Ahead'
    BY <1>1, <1>3, <2>1, <2>2 DEF SameTasks
  <2>4. ASSUME NEW w \in At(f)', v # w PROVE ~Conflict(mem'[v].op, mem'[w].op)
    <3>1. w \in At(f) /\ mem'[w].op = mem[w].op
      BY <1>1, <2>4 DEF At
    <3> QED
      BY <2>1, <2>2, <2>4, <3>1
  <2> QED
    BY <1>2, <2>1, <2>2, <2>3, <2>4 DEF SameTasks
<1> QED
  BY <1>3 DEF Company

LEMMA MendsKept ==
  ASSUME NEW f \in Files, Mends(f), source'[f] = source[f], target'[f] = target[f], SameTasks(f),
         source[f] # Absent => \A v \in Workers :
            /\ Renews(mem[v], f) => Renews(mem[v], f)'
            /\ \A i \in 1..Len(source[f]) : Covers(mem[v], f, i) => Covers(mem[v], f, i)',
         source[f] = Absent => \A v \in Workers : Unlinks(mem[v], f) => Unlinks(mem[v], f)'
  PROVE  Mends(f)'
<1>1. {"ADDED", "MODIFIED", "DELETED"} \subseteq Operations \ {"FULL"}
  BY DEF Operations
<1>2. Resets(f)' <=> Resets(f)
  BY <1>1 DEF Resets, SameTasks
<1>3. Task("MODIFIED", f) \in Ahead' <=> Task("MODIFIED", f) \in Ahead
  BY <1>1 DEF SameTasks
<1>4. source[f] # Absent => /\ Renewed(f) => Renewed(f)'
                            /\ Exact(f) => Exact(f)'
  BY DEF Renewed, Exact
<1>5. Fits(f)' <=> Fits(f)
  BY DEF Fits
<1> QED
  BY <1>2, <1>3, <1>4, <1>5 DEF Mends

\* A step of one worker that leaves a file as it is.
LEMMA CompanyAfterStep ==
  ASSUME NEW f \in Files, Company(f), NEW w \in Workers, Alone(w), Rest,
         f \in Reach(mem[w])' =>
            /\ f \in Reach(mem[w])
            /\ mem'[w].op = mem[w].op
            /\ f \in mem'[w].stale => f \in mem[w].stale
            /\ Copies(mem[w])' => Copies(mem[w]) \/ source[f] # Absent
            /\ Reads(mem[w], f) => Task("DELETED", f) \in Ahead \/ Reads(mem[w], f)'
  PROVE  Company(f)'
<1>1. Ahead' = Ahead /\ source' = source
  BY DEF Rest, Ahead, Pending
<1>2. SameTasks(f)
  BY <1>1 DEF SameTasks
<1>3. ASSUME NEW v \in Workers, v # w, f \in Reach(mem[v])'
      PROVE  /\ f \in Reach(mem[v])
             /\ mem'[v].op = mem[v].op
             /\ mem'[v].stale = mem[v].stale
             /\ Copies(mem[v])' => Copies(mem[v])
             /\ Reads(mem[v], f) => Reads(mem[v], f)'
  <2>1. mem'[v] = mem[v]
    BY <1>3 DEF Alone
  <2> QED
    BY <1>1, <1>3, <2>1 DEF Reach, Copies, Reads
<1> QED
  BY <1>1, <1>2, <1>3, CompanyKept

LEMMA MendsAfterStep ==
  ASSUME NEW f \in Files, Mends(f), NEW w \in Workers, Alone(w), Rest, target'[f] = target[f],
         source[f] # Absent =>
            /\ Renews(mem[w], f) => Renews(mem[w], f)'
            /\ \A i \in 1..Len(source[f]) : Covers(mem[w], f, i) => Covers(mem[w], f, i)',
         source[f] = Absent /\ Unlinks(mem[w], f) => Unlinks(mem[w], f)'
  PROVE  Mends(f)'
<1>1. Ahead' = Ahead /\ source' = source
  BY DEF Rest, Ahead, Pending
<1>2. SameTasks(f)
  BY <1>1 DEF SameTasks
<1>3. ASSUME NEW v \in Workers, v # w
      PROVE  /\ Renews(mem[v], f) => Renews(mem[v], f)'
             /\ \A i \in 1..Len(source[f]) : Covers(mem[v], f, i) => Covers(mem[v], f, i)'
             /\ Unlinks(mem[v], f) => Unlinks(mem[v], f)'
  <2>1. mem'[v] = mem[v]
    BY <1>3 DEF Alone
  <2> QED
    BY <2>1 DEF Renews, Covers, Unlinks, Copies
<1> QED
  BY <1>1, <1>2, <1>3, MendsKept

-----------------------------------------------------------------------------
(***************************************************************************)
(* Each step of a worker keeps the company of a file and its mending.      *)
(***************************************************************************)
LEMMA MendsWhenGone ==
  ASSUME NEW f \in Files, source'[f] = Absent, target'[f] = Absent
  PROVE  Mends(f)'
BY DEF Mends

LEMMA RestKeeps ==
  ASSUME Rest, NEW f \in Files
  PROVE  source' = source /\ Ahead' = Ahead /\ SameTasks(f)
BY DEF Rest, Ahead, Pending, SameTasks

LEMMA RepairsScanTarget ==
  ASSUME Base, Repairs, NEW w \in Workers, ScanTarget(w)
  PROVE  Repairs'
<1>1. /\ Types /\ Shape(mem[w]) /\ mem[w] \in Memory
  BY DEF Base, Types, TypeOK, Minds
<1>2. /\ Alone(w) /\ Rest /\ target' = target
      /\ mem[w].pc = "scan" /\ mem'[w].pc = "unlink" /\ mem'[w].left = Present(target)
      /\ mem'[w].op = mem[w].op /\ mem'[w].name = mem[w].name /\ mem'[w].file = mem[w].file
      /\ mem'[w].pos = mem[w].pos /\ mem'[w].kept = mem[w].kept
      /\ mem'[w].linked = mem[w].linked /\ mem'[w].stale = mem[w].stale
  BY <1>1, ScanTargetFields
<1>3. mem[w].op = "FULL" /\ mem[w].file = "ALL"
  BY <1>1, <1>2 DEF Shape, Copying
<1>4. ASSUME NEW f \in Files \ (moved \union tainted)
      PROVE  Company(f)' /\ Mends(f)'
  <2>1. Company(f) /\ Mends(f) /\ f # "ALL" /\ source' = source
    BY <1>2, FileSyncAssumption DEF Repairs, Rest
  <2>2. Company(f)'
    <3>1. f \in Reach(mem[w]) /\ ~Copies(mem[w])' /\ Reads(mem[w], f)'
      BY <1>2, <1>3, <2>1 DEF Reach, Copies, Reads
    <3> QED
      BY <1>2, <2>1, <3>1, CompanyAfterStep
  <2>3. CASE source[f] = Absent /\ target[f] = Absent
    BY <1>2, <2>1, <2>3, <2>2, MendsWhenGone
  <2>4. CASE source[f] # Absent \/ target[f] # Absent
    <3>1. Renews(mem[w], f)' /\ \A i : ~Covers(mem[w], f, i)
      BY <1>2, <1>3 DEF Renews, Covers, Copies
    <3>2. source[f] = Absent => Unlinks(mem[w], f)'
      BY <1>2, <2>4 DEF Unlinks, Present
    <3>3. Mends(f)'
      BY <1>2, <2>1, <3>1, <3>2, MendsAfterStep
    <3> QED
      BY <2>2, <3>3
  <2> QED
    BY <2>3, <2>4
<1> QED
  BY <1>2, <1>4 DEF Repairs, Rest

LEMMA RepairsUnlink ==
  ASSUME Base, Repairs, NEW w \in Workers, Unlink(w)
  PROVE  Repairs'
<1>1. /\ Types /\ Shape(mem[w])
      /\ target \in [Files -> Contents \union {Absent}]
      /\ mem \in [Workers -> Memory]
  BY DEF Base, Types, TypeOK, Minds
<1>2. PICK g \in mem[w].left :
          /\ target' = [target EXCEPT ![g] = Absent]
          /\ mem'[w].left = mem[w].left \ {g}
          /\ \A v \in Workers \ {w} : mem[v].file = g => ~mem'[v].linked
          /\ \A v \in Workers \ {w} : mem[v].file # g => mem'[v] = mem[v]
  BY <1>1, UnlinkFields
<1>3. /\ mem' \in [Workers -> Memory]
      /\ Rest
      /\ \A v \in Workers \ {w} : mem'[v].left = mem[v].left
      /\ mem[w].pc = "unlink" /\ mem'[w].linked = mem[w].linked
      /\ \A v \in Workers :
           /\ mem'[v].pc = mem[v].pc
           /\ mem'[v].op = mem[v].op /\ mem'[v].name = mem[v].name /\ mem'[v].file = mem[v].file
           /\ mem'[v].pos = mem[v].pos /\ mem'[v].kept = mem[v].kept
           /\ mem'[v].block = mem[v].block /\ mem'[v].stale = mem[v].stale
  BY <1>1, UnlinkFields
<1>4. /\ mem[w].op \in {"FULL", "DELETED"} /\ mem[w].file = "ALL" /\ g \in Files
      /\ mem[w].op = "DELETED" => mem[w].name = g
  BY <1>1, <1>2, <1>3, MemoryParts DEF Shape, Copying, Operations
<1>5. ASSUME NEW f \in Files \ (moved \union tainted)
      PROVE  Company(f)' /\ Mends(f)'
  <2>1. Company(f) /\ Mends(f) /\ source' = source /\ Ahead' = Ahead /\ SameTasks(f)
    BY <1>3, RestKeeps DEF Repairs
  <2>2. Company(f)'
    <3>1. ASSUME NEW v \in Workers, f \in Reach(mem[v])'
          PROVE  /\ f \in Reach(mem[v])
                 /\ mem'[v].op = mem[v].op
                 /\ mem'[v].stale = mem[v].stale
                 /\ Copies(mem[v])' => Copies(mem[v])
                 /\ Reads(mem[v], f) => Reads(mem[v], f)'
      <4>1. f \in Reach(mem[v])
        BY <1>2, <1>3, <3>1 DEF Reach
      <4>2. Copies(mem[v])' => Copies(mem[v])
        BY <1>3 DEF Copies
      <4>3. Reads(mem[v], f) => Reads(mem[v], f)'
        BY <1>3, <2>1 DEF Reads
      <4> QED
        BY <1>3, <4>1, <4>2, <4>3
    <3> QED
      BY <2>1, <3>1, CompanyKept
  <2>3. CASE f # g
    <3>1. target'[f] = target[f]
      BY <1>1, <1>2, <2>3
    <3>2. ASSUME NEW v \in Workers
          PROVE  /\ Renews(mem[v], f) => Renews(mem[v], f)'
                 /\ \A i : Covers(mem[v], f, i) => Covers(mem[v], f, i)'
                 /\ Unlinks(mem[v], f) => Unlinks(mem[v], f)'
      <4>1. f \in mem[v].left => f \in mem'[v].left
        BY <1>2, <1>3, <2>3
      <4>2. mem[v].file = f => mem'[v].linked = mem[v].linked
        BY <1>2, <1>3, <2>3
      <4>3. Copies(mem[v])' <=> Copies(mem[v])
        BY <1>3 DEF Copies
      <4> QED
        BY <1>3, <4>1, <4>2, <4>3 DEF Renews, Covers, Unlinks
    <3> QED
      BY <2>1, <2>2, <3>1, <3>2, MendsKept
  <2>4. CASE f = g
    <3>1. target'[f] = Absent
      BY <1>1, <1>2, <1>4, <2>4
    <3>2. CASE source[f] = Absent
      BY <2>1, <2>2, <3>1, <3>2, MendsWhenGone
    <3>3. CASE source[f] # Absent /\ mem[w].op = "FULL"
      <4>1. Renewed(f)'
        BY <1>3, <3>3 DEF Renewed, Renews
      <4>2. Mends(f)'
        BY <2>1, <3>3, <4>1 DEF Mends
      <4> QED
        BY <2>2, <4>2
    <3>4. CASE source[f] # Absent /\ mem[w].op = "DELETED"
      <4>1. w \in At(f)
        BY <1>3, <1>4, <2>4, <3>4 DEF At, Reach
      <4>2. Resets(f)'
        BY <2>1, <3>4, <4>1 DEF Company, Resets
      <4>3. Mends(f)'
        BY <4>2 DEF Mends
      <4> QED
        BY <2>2, <4>3
    <3> QED
      BY <1>4, <3>2, <3>3, <3>4
  <2> QED
    BY <2>3, <2>4
<1> QED
  BY <1>3, <1>5 DEF Repairs, Rest

LEMMA RepairsUnlinked ==
  ASSUME Base, Repairs, NEW w \in Workers, Unlinked(w)
  PROVE  Repairs'
<1>1. /\ Types /\ Shape(mem[w]) /\ mem[w] \in Memory
  BY DEF Base, Types, TypeOK, Minds
<1>2. /\ Alone(w) /\ Rest /\ target' = target
      /\ mem[w].pc = "unlink" /\ mem[w].left = {}
      /\ IF mem[w].op = "DELETED" THEN mem'[w].pc = "done" /\ mem'[w].left = {}
         ELSE mem'[w].pc = "next" /\ mem'[w].left = Present(source)
      /\ mem'[w].op = mem[w].op /\ mem'[w].name = mem[w].name /\ mem'[w].file = mem[w].file
      /\ mem'[w].pos = mem[w].pos /\ mem'[w].kept = mem[w].kept
      /\ mem'[w].linked = mem[w].linked /\ mem'[w].stale = mem[w].stale
  BY <1>1, UnlinkedFields
<1>3. mem[w].op \in {"FULL", "DELETED"} /\ mem[w].file = "ALL"
  BY <1>1, <1>2, MemoryParts DEF Shape, Copying, Operations
<1>4. ASSUME NEW f \in Files \ (moved \union tainted)
      PROVE  Company(f)' /\ Mends(f)'
  <2>1. Company(f) /\ Mends(f) /\ f # "ALL" /\ source' = source
    BY <1>2, FileSyncAssumption DEF Repairs, Rest
  <2>2. f \in Reach(mem[w])' =>
           f \in Reach(mem[w]) /\ source[f] # Absent /\ Reads(mem[w], f)'
    BY <1>2, <1>3, <2>1 DEF Reach, Reads, Present
  <2>3. Company(f)'
    BY <1>2, <2>1, <2>2, CompanyAfterStep
  <2>4. source[f] # Absent => /\ Renews(mem[w], f) => Renews(mem[w], f)'
                              /\ \A i : Covers(mem[w], f, i) => Covers(mem[w], f, i)'
    BY <1>2, <1>3 DEF Renews, Covers, Copies, Present
  <2>5. ~Unlinks(mem[w], f)
    BY <1>2 DEF Unlinks
  <2>6. Mends(f)'
    BY <1>2, <2>1, <2>4, <2>5, MendsAfterStep
  <2> QED
    BY <2>3, <2>6
<1> QED
  BY <1>2, <1>4 DEF Repairs, Rest

LEMMA RepairsReadTarget ==
  ASSUME Base, Repairs, NEW w \in Workers, ReadTarget(w)
  PROVE  Repairs'
<1>1. Types
  BY DEF Base
<1>2. /\ SameButLeft(w) /\ mem'[w].stale = mem[w].stale
      /\ mem[w].pc = "unlink" /\ mem[w].op = "FULL"
  BY <1>1, ReadTargetFields
<1>3. PICK g \in Files : \/ mem'[w].left = mem[w].left \union {g}
                         \/ target[g] = Absent /\ mem'[w].left = mem[w].left \ {g}
  BY <1>1, ReadTargetFields
<1>4. Alone(w) /\ Rest /\ target' = target
  BY <1>2 DEF SameButLeft
<1>5. ASSUME NEW f \in Files \ (moved \union tainted)
      PROVE  Company(f)' /\ Mends(f)'
  <2>1. Company(f) /\ Mends(f) /\ source' = source
    BY <1>4 DEF Repairs, Rest
  <2>2. Company(f)'
    BY <1>2, <1>4, <2>1, CompanyAfterStep DEF SameButLeft, Reach, Copies, Reads
  <2>3. CASE source[f] = Absent /\ target[f] = Absent
    BY <1>4, <2>1, <2>2, <2>3, MendsWhenGone
  <2>4. CASE source[f] # Absent \/ target[f] # Absent
    <3>1. Renews(mem[w], f)' /\ \A i : ~Covers(mem[w], f, i)
      BY <1>2 DEF SameButLeft, Renews, Covers, Copies
    <3>2. source[f] = Absent /\ Unlinks(mem[w], f) => Unlinks(mem[w], f)'
      BY <1>2, <1>3, <2>4 DEF SameButLeft, Unlinks
    <3>3. Mends(f)'
      BY <1>4, <2>1, <3>1, <3>2, MendsAfterStep
    <3> QED
      BY <2>2, <3>3
  <2> QED
    BY <2>3, <2>4
<1> QED
  BY <1>4, <1>5 DEF Repairs, Rest

LEMMA RepairsPassGone ==
  ASSUME Base, Repairs, NEW w \in Workers, PassGone(w)
  PROVE  Repairs'
<1>1. Types
  BY DEF Base
<1>2. /\ SameButLeft(w) /\ mem'[w].stale = mem[w].stale
      /\ mem[w].pc = "next" /\ mem[w].op = "FULL"
  BY <1>1, PassGoneFields
<1>3. PICK g \in Files : source[g] = Absent /\ mem'[w].left = mem[w].left \ {g}
  BY <1>1, PassGoneFields
<1>4. Alone(w) /\ Rest /\ target' = target
  BY <1>2 DEF SameButLeft
<1>5. ASSUME NEW f \in Files \ (moved \union tainted)
      PROVE  Company(f)' /\ Mends(f)'
  <2>1. Company(f) /\ Mends(f) /\ source' = source
    BY <1>4 DEF Repairs, Rest
  <2>2. Company(f)'
    BY <1>2, <1>3, <1>4, <2>1, CompanyAfterStep DEF SameButLeft, Reach, Copies, Reads
  <2>3. source[f] # Absent => /\ Renews(mem[w], f) => Renews(mem[w], f)'
                              /\ \A i : Covers(mem[w], f, i) => Covers(mem[w], f, i)'
    BY <1>2, <1>3 DEF SameButLeft, Renews, Covers, Copies
  <2>4. ~Unlinks(mem[w], f)
    BY <1>2 DEF Unlinks
  <2>5. Mends(f)'
    BY <1>4, <2>1, <2>3, <2>4, MendsAfterStep
  <2> QED
    BY <2>2, <2>5
<1> QED
  BY <1>4, <1>5 DEF Repairs, Rest

LEMMA Conflicts ==
  ASSUME NEW a, NEW b
  PROVE  /\ ~Conflict("FULL", b) /\ ~Conflict(a, "FULL")
         /\ Conflict(a, b) <=> Conflict(b, a)
         /\ b \in {"ADDED", "MODIFIED"} => Conflict("DELETED", b)
         /\ a = "ADDED" => Conflict(a, "DELETED")
BY DEF Conflict

\* A file that readdir returns late joins what the worker has to copy.
LEMMA RepairsReadFresh ==
  ASSUME Base, Repairs, NEW w \in Workers, ReadFresh(w)
  PROVE  Repairs'
<1>1. Types /\ Shape(mem[w])
  BY DEF Base, Minds
<1>2. SameButLeft(w) /\ mem[w].pc = "next" /\ mem[w].op = "FULL"
  BY <1>1, ReadFreshFields
<1>3. PICK g \in Files :
         /\ source[g] # Absent
         /\ mem'[w].left = mem[w].left \union {g} /\ mem'[w].stale = mem[w].stale \ {g}
         /\ \/ g \in tainted'
            \/ \A v \in Workers \ {w} : g \in Reach(mem[v]) => g \notin mem[v].stale
  BY <1>1, ReadFreshFields
<1>4. /\ Alone(w) /\ Rest /\ target' = target
      /\ mem[w].file = "ALL" /\ mem'[w].file = "ALL" /\ mem'[w].op = "FULL"
  BY <1>1, <1>2 DEF SameButLeft, Shape, Copying
<1>5. ASSUME NEW f \in Files \ (moved' \union tainted')
      PROVE  Company(f)' /\ Mends(f)'
  <2>1. /\ Company(f) /\ Mends(f) /\ source' = source /\ Ahead' = Ahead /\ f # "ALL"
    BY <1>4, <1>5, RestKeeps, FileSyncAssumption DEF Repairs, Rest
  <2>2. ASSUME f # g PROVE Company(f)'
    <3>1. f \in Reach(mem[w])' => f \in Reach(mem[w])
      BY <1>2, <1>3, <2>2 DEF SameButLeft, Reach
    <3> QED
      BY <1>2, <1>3, <1>4, <2>1, <3>1, CompanyAfterStep DEF SameButLeft, Copies, Reads
  <2>3. ASSUME f = g PROVE Company(f)'
    <3>1. ASSUME NEW v \in At(f)', v # w
          PROVE  v \in Workers /\ v \in At(f) /\ mem'[v] = mem[v] /\ f \notin mem'[v].stale
      <4>1. v \in Workers /\ mem'[v] = mem[v] /\ f \in Reach(mem[v])
        BY <1>4, <3>1 DEF At, Alone, Reach
      <4> QED
        BY <1>3, <1>5, <2>3, <3>1, <4>1 DEF At
    <3>2. ASSUME NEW v \in At(f)', v # w
          PROVE  /\ \A u \in At(f)' : v # u => ~Conflict(mem'[v].op, mem'[u].op)
                 /\ mem'[v].op = "DELETED" /\ source'[f] # Absent => Task("ADDED", f) \in Ahead'
                 /\ Copies(mem[v])' /\ source'[f] = Absent => Task("DELETED", f) \in Ahead'
                 /\ Task("DELETED", f) \in Ahead' \/ Reads(mem[v], f)'
      <4>1. v \in At(f) /\ mem'[v] = mem[v]
        BY <3>1, <3>2
      <4>2. ASSUME NEW u \in At(f)', v # u PROVE ~Conflict(mem'[v].op, mem'[u].op)
        <5>1. CASE u = w
          BY <1>4, <5>1, Conflicts
        <5>2. CASE u # w
          <6>1. u \in At(f) /\ mem'[u] = mem[u]
            BY <3>1, <5>2
          <6> QED
            BY <2>1, <4>1, <4>2, <6>1 DEF Company
        <5> QED
          BY <5>1, <5>2
      <4>3. (Copies(mem[v])' <=> Copies(mem[v])) /\ (Reads(mem[v], f)' <=> Reads(mem[v], f))
        BY <2>1, <4>1 DEF Copies, Reads
      <4> QED
        BY <2>1, <4>1, <4>2, <4>3 DEF Company
    <3>3. /\ f \notin mem'[w].stale
          /\ \A u : ~Conflict(mem'[w].op, mem'[u].op)
          /\ source'[f] # Absent /\ Reads(mem[w], f)' /\ mem'[w].op # "DELETED"
      BY <1>3, <1>4, <2>1, <2>3, Conflicts DEF Reads
    <3> QED
      BY <3>1, <3>2, <3>3 DEF Company
  <2>4. Mends(f)'
    <3>1. /\ Renews(mem[w], f) => Renews(mem[w], f)'
          /\ \A i : Covers(mem[w], f, i) => Covers(mem[w], f, i)'
          /\ ~Unlinks(mem[w], f)
      BY <1>2, <1>3 DEF SameButLeft, Renews, Covers, Copies, Unlinks
    <3> QED
      BY <1>4, <2>1, <3>1, MendsAfterStep
  <2> QED
    BY <2>2, <2>3, <2>4
<1> QED
  BY <1>4, <1>5 DEF Repairs

LEMMA RepairsAddOrModify ==
  ASSUME Base, Repairs, NEW w \in Workers, AddOrModify(w)
  PROVE  Repairs'
<1>1. /\ Types /\ Shape(mem[w]) /\ mem[w] \in Memory
      /\ target \in [Files -> Contents \union {Absent}]
      /\ source \in [Files -> Contents \union {Absent}]
  BY DEF Base, Types, TypeOK, Minds
<1>2. /\ Alone(w) /\ Rest /\ mem[w].pc = "next"
      /\ mem'[w].op = mem[w].op /\ mem'[w].name = mem[w].name
      /\ mem'[w].pos = mem[w].pos /\ mem'[w].kept = mem[w].kept
      /\ mem'[w].linked = mem[w].linked /\ mem'[w].stale = mem[w].stale
  BY <1>1, AddOrModifyFields
<1>3. PICK g \in mem[w].left :
         /\ mem'[w].pc = "source" /\ mem'[w].file = g /\ mem'[w].left = mem[w].left \ {g}
         /\ target' = IF mem[w].op = "MODIFIED" THEN target
                      ELSE [target EXCEPT ![g] = << >>]
  BY <1>1, AddOrModifyFields
<1>4. /\ g \in Files /\ mem[w].file = "ALL" /\ mem[w].kept = Absent
      /\ mem[w].op \in {"FULL", "ADDED", "MODIFIED"}
      /\ mem[w].op # "FULL" => mem[w].name = g
  BY <1>1, <1>2, <1>3, MemoryParts DEF Shape, Copying, Operations
<1>5. Copies(mem[w]) /\ Copies(mem[w])' /\ g \in Reach(mem[w])
  BY <1>2, <1>3, <1>4 DEF Copies, Reach
<1>6. ASSUME NEW f \in Files \ (moved \union tainted)
      PROVE  Company(f)' /\ Mends(f)'
  <2>1. Company(f) /\ Mends(f) /\ f # "ALL" /\ source' = source /\ Ahead' = Ahead
    BY <1>2, FileSyncAssumption, RestKeeps DEF Repairs
  <2>2. f \in Reach(mem[w])' => f \in Reach(mem[w]) /\ Reads(mem[w], f)'
    BY <1>2, <1>3, <1>4, <2>1 DEF Reach, Reads
  <2>3. Company(f)'
    BY <1>2, <1>5, <2>1, <2>2, CompanyAfterStep
  <2>4. \A i : Covers(mem[w], f, i) => Covers(mem[w], f, i)'
    BY <1>2, <1>3, <1>4, <1>5, <2>1 DEF Covers
  <2>5. ~Unlinks(mem[w], f)
    BY <1>2 DEF Unlinks
  <2>6. CASE f # g \/ mem[w].op = "MODIFIED"
    <3>1. target'[f] = target[f]
      BY <1>1, <1>3, <2>6
    <3>2. Renews(mem[w], f) => Renews(mem[w], f)'
      BY <1>2, <1>3, <1>5, <2>6 DEF Renews
    <3>3. Mends(f)'
      BY <1>2, <2>1, <2>4, <2>5, <3>1, <3>2, MendsAfterStep
    <3> QED
      BY <2>3, <3>3
  <2>7. CASE f = g /\ mem[w].op # "MODIFIED"
    <3>1. target'[f] = << >>
      BY <1>1, <1>3, <2>7
    <3>2. CASE source[f] = Absent
      <4>1. w \in At(f)
        BY <1>5, <2>7 DEF At
      <4>2. Resets(f)'
        BY <1>5, <2>1, <3>2, <4>1 DEF Company, Resets
      <4> QED
        BY <2>3, <4>2 DEF Mends
    <3>3. CASE source[f] # Absent
      <4>1. Len(source[f]) \in Nat
        BY <1>1, <3>3, ContentsAreSequences
      <4>2. Fits(f)'
        BY <2>1, <3>1, <4>1, EmptyFile DEF Fits
      <4>3. \A i : Covers(mem[w], f, i)'
        BY <1>3, <2>7 DEF Covers
      <4>4. Exact(f)'
        BY <4>3 DEF Exact
      <4> QED
        BY <2>1, <2>3, <3>3, <4>2, <4>4 DEF Mends
    <3> QED
      BY <3>2, <3>3
  <2> QED
    BY <2>6, <2>7
<1> QED
  BY <1>2, <1>6 DEF Repairs, Rest

\* A copy ends: nothing is lost with it.
LEMMA RepairsReturn ==
  ASSUME Base, Repairs, NEW w \in Workers, NEW ok \in BOOLEAN, Return(w, ok),
         mem[w].pc \in Copying,
         mem[w].file \notin moved \union tainted /\ source[mem[w].file] # Absent =>
            \/ Resets(mem[w].file)
            \/ Renewed(mem[w].file)
            \/ \A i \in 1..Len(source[mem[w].file]) : ~Covers(mem[w], mem[w].file, i)
  PROVE  Repairs'
<1>1. /\ Types /\ Shape(mem[w]) /\ mem[w] \in Memory
  BY DEF Base, Types, TypeOK, Minds
<1>2. /\ Alone(w) /\ Rest /\ target' = target
      /\ mem'[w].pc = "next" /\ mem'[w].file = "ALL" /\ mem'[w].pos = 0
      /\ mem'[w].kept = Absent /\ ~mem'[w].linked
      /\ mem'[w].op = mem[w].op /\ mem'[w].name = mem[w].name
      /\ mem'[w].left = mem[w].left /\ mem'[w].stale = mem[w].stale
  BY <1>1, ReturnFields
<1>3. /\ mem[w].op \in {"FULL", "ADDED", "MODIFIED"}
      /\ mem[w].pc \notin {"idle", "done", "scan", "unlink", "next"}
  BY <1>1, MemoryParts DEF Shape, Copying, Operations
<1>4. Copies(mem[w]) /\ Copies(mem[w])'
  BY <1>2, <1>3 DEF Copies
<1>5. ASSUME NEW f \in Files \ (moved \union tainted)
      PROVE  Company(f)' /\ Mends(f)'
  <2>1. Company(f) /\ Mends(f) /\ f # "ALL" /\ source' = source /\ Ahead' = Ahead
    BY <1>2, FileSyncAssumption, RestKeeps DEF Repairs
  <2>2. f \in Reach(mem[w])' => f \in Reach(mem[w]) /\ Reads(mem[w], f)'
    BY <1>2, <1>3, <2>1 DEF Reach, Reads
  <2>3. Company(f)'
    BY <1>2, <1>4, <2>1, <2>2, CompanyAfterStep
  <2>4. ~Unlinks(mem[w], f)
    BY <1>3 DEF Unlinks
  <2>5. Renews(mem[w], f) => Renews(mem[w], f)'
    BY <1>2, <1>3, <1>4 DEF Renews
  <2>6. CASE source[f] # Absent =>
                \A i \in 1..Len(source[f]) : Covers(mem[w], f, i) => Covers(mem[w], f, i)'
    <3>1. Mends(f)'
      BY <1>2, <2>1, <2>4, <2>5, <2>6, MendsAfterStep
    <3> QED
      BY <2>3, <3>1
  <2>7. CASE mem[w].file # f
    <3>1. \A i : Covers(mem[w], f, i) => Covers(mem[w], f, i)'
      BY <1>2, <1>3, <1>4, <2>7 DEF Covers
    <3> QED
      BY <2>6, <3>1
  <2>8. CASE mem[w].file = f /\ source[f] # Absent /\ Resets(f)
    <3>1. Resets(f)'
      BY <2>1, <2>8 DEF Resets
    <3> QED
      BY <2>3, <3>1 DEF Mends
  <2>9. CASE mem[w].file = f /\ source[f] # Absent /\ Renewed(f)
    <3>1. PICK v \in Workers : Renews(mem[v], f)
      BY <2>9 DEF Renewed
    <3>2. Renews(mem[v], f)'
      <4>1. CASE v = w
        BY <2>5, <3>1, <4>1
      <4>2. CASE v # w
        BY <1>2, <3>1, <4>2 DEF Alone, Renews, Copies
      <4> QED
        BY <4>1, <4>2
    <3>3. Renewed(f)'
      BY <3>2 DEF Renewed
    <3> QED
      BY <2>1, <2>3, <2>9, <3>3 DEF Mends
  <2> QED
    BY <2>6, <2>7, <2>8, <2>9
<1> QED
  BY <1>2, <1>5 DEF Repairs, Rest

LEMMA RepairsOpenSource ==
  ASSUME Base, Repairs, NEW w \in Workers, OpenSource(w)
  PROVE  Repairs'
<1>1. /\ Types /\ Shape(mem[w]) /\ mem[w] \in Memory
  BY DEF Base, Types, TypeOK, Minds
<1>2. mem[w].pc = "source"
  BY <1>1, OpenSourceFields
<1>3. CASE source[mem[w].file] = Absent /\ Return(w, FALSE)
  BY <1>2, <1>3, RepairsReturn DEF Copying
<1>4. CASE /\ source[mem[w].file] # Absent
           /\ Alone(w) /\ Rest /\ target' = target
           /\ mem'[w].pc = "target"
           /\ mem'[w].op = mem[w].op /\ mem'[w].name = mem[w].name
           /\ mem'[w].left = mem[w].left /\ mem'[w].file = mem[w].file
           /\ mem'[w].pos = mem[w].pos /\ mem'[w].kept = mem[w].kept
           /\ mem'[w].linked = mem[w].linked /\ mem'[w].stale = mem[w].stale
  <2>1. Copies(mem[w])' <=> Copies(mem[w])
    BY <1>2, <1>4 DEF Copies
  <2>2. ASSUME NEW f \in Files \ (moved \union tainted)
        PROVE  Company(f)' /\ Mends(f)'
    <3>1. Company(f) /\ Mends(f) /\ source' = source
      BY <1>4 DEF Repairs, Rest
    <3>2. f \in Reach(mem[w])' => f \in Reach(mem[w])
      BY <1>2, <1>4 DEF Reach
    <3>3. Reads(mem[w], f) => Reads(mem[w], f)'
      BY <1>4 DEF Reads
    <3>4. Company(f)'
      BY <1>4, <2>1, <3>1, <3>2, <3>3, CompanyAfterStep
    <3>5. /\ Renews(mem[w], f) => Renews(mem[w], f)'
          /\ \A i : Covers(mem[w], f, i) => Covers(mem[w], f, i)'
          /\ ~Unlinks(mem[w], f)
      BY <1>2, <1>4, <2>1 DEF Renews, Covers, Unlinks
    <3>6. Mends(f)'
      BY <1>4, <3>1, <3>5, MendsAfterStep
    <3> QED
      BY <3>4, <3>6
  <2> QED
    BY <1>4, <2>2 DEF Repairs, Rest
<1> QED
  BY <1>1, <1>3, <1>4, OpenSourceFields

LEMMA RepairsOpenTarget ==
  ASSUME Base, Repairs, NEW w \in Workers, OpenTarget(w)
  PROVE  Repairs'
<1>1. /\ Types /\ Shape(mem[w]) /\ mem[w] \in Memory
  BY DEF Base, Types, TypeOK, Minds
<1>2. mem[w].pc = "target" /\ mem[w].file \in Files /\ mem[w].pos = 0
  BY <1>1, OpenTargetFields DEF Shape, Copying
<1>3. CASE target[mem[w].file] = Absent /\ Return(w, FALSE)
  <2>1. ASSUME mem[w].file \notin moved \union tainted, source[mem[w].file] # Absent,
               ~Resets(mem[w].file)
        PROVE  Renewed(mem[w].file)
    <3>1. Mends(mem[w].file)
      BY <1>2, <2>1 DEF Repairs
    <3> QED
      BY <1>3, <2>1, <3>1 DEF Mends, Fits
  <2> QED
    BY <1>2, <1>3, <2>1, RepairsReturn DEF Copying
<1>4. CASE /\ target[mem[w].file] # Absent
           /\ Alone(w) /\ Rest /\ target' = target
           /\ mem'[w].pc = "read" /\ mem'[w].linked
           /\ mem'[w].op = mem[w].op /\ mem'[w].name = mem[w].name
           /\ mem'[w].left = mem[w].left /\ mem'[w].file = mem[w].file
           /\ mem'[w].pos = mem[w].pos /\ mem'[w].kept = mem[w].kept
           /\ mem'[w].stale = mem[w].stale
  <2>1. Copies(mem[w])' <=> Copies(mem[w])
    BY <1>2, <1>4 DEF Copies
  <2>2. ASSUME NEW f \in Files \ (moved \union tainted)
        PROVE  Company(f)' /\ Mends(f)'
    <3>1. Company(f) /\ Mends(f) /\ source' = source
      BY <1>4 DEF Repairs, Rest
    <3>2. f \in Reach(mem[w])' => f \in Reach(mem[w])
      BY <1>2, <1>4 DEF Reach
    <3>3. Reads(mem[w], f) => Reads(mem[w], f)'
      BY <1>4 DEF Reads
    <3>4. Company(f)'
      BY <1>4, <2>1, <3>1, <3>2, <3>3, CompanyAfterStep
    <3>5. /\ Renews(mem[w], f) => Renews(mem[w], f)'
          /\ \A i \in 1..Len(source[f]) : Covers(mem[w], f, i) => Covers(mem[w], f, i)'
          /\ ~Unlinks(mem[w], f)
      BY <1>2, <1>4, <2>1 DEF Renews, Covers, Unlinks
    <3>6. Mends(f)'
      BY <1>4, <3>1, <3>5, MendsAfterStep
    <3> QED
      BY <3>4, <3>6
  <2> QED
    BY <1>4, <2>2 DEF Repairs, Rest
<1> QED
  BY <1>1, <1>3, <1>4, OpenTargetFields

LEMMA RepairsRead ==
  ASSUME Base, Repairs, NEW w \in Workers, Read(w)
  PROVE  Repairs'
<1>1. /\ Types /\ Shape(mem[w]) /\ mem[w] \in Memory
      /\ source \in [Files -> Contents \union {Absent}]
  BY DEF Base, Types, TypeOK, Minds
<1>2. /\ mem[w].pc = "read" /\ mem[w].file \in Files /\ Input(mem[w]) \in Contents
      /\ mem[w].op \in {"FULL", "ADDED", "MODIFIED"}
      /\ mem[w].op # "FULL" => mem[w].file = mem[w].name
      /\ mem[w].file \notin mem[w].left
  BY <1>1, ReadFields, MemoryParts DEF Shape, Copying, Operations
<1>3. mem[w].pos \in Nat
  BY <1>1, MemoryParts, FileSyncAssumption
<1>4. w \in At(mem[w].file)
  BY <1>2 DEF At, Reach
<1>5. ASSUME mem[w].file \notin moved \union tainted, Task("DELETED", mem[w].file) \notin Ahead
      PROVE  Input(mem[w]) = source[mem[w].file] /\ source[mem[w].file] # Absent
  <2>1. Company(mem[w].file)
    BY <1>2, <1>5 DEF Repairs
  <2>2. Reads(mem[w], mem[w].file)
    BY <1>4, <1>5, <2>1 DEF Company
  <2>3. mem[w].kept = Absent
    BY <2>2 DEF Reads
  <2> QED
    BY <1>1, <1>2, <2>3 DEF Input, Shape, Copying
<1>6. CASE /\ mem[w].pos >= Len(Input(mem[w]))
           /\ \E ok \in BOOLEAN : Return(w, ok)
  <2>1. ASSUME mem[w].file \notin moved \union tainted, ~Resets(mem[w].file)
        PROVE  \A i \in 1..Len(source[mem[w].file]) : ~Covers(mem[w], mem[w].file, i)
    <3>1. Input(mem[w]) = source[mem[w].file]
      BY <1>5, <2>1 DEF Resets
    <3>2. Len(source[mem[w].file]) \in Nat
      BY <1>2, <3>1, ContentsAreSequences
    <3> QED
      BY <1>2, <1>3, <1>6, <3>1, <3>2 DEF Covers
  <2> QED
    BY <1>2, <1>6, <2>1, RepairsReturn DEF Copying
<1>7. CASE /\ mem[w].pos < Len(Input(mem[w]))
           /\ Alone(w) /\ Rest /\ target' = target
           /\ mem'[w].pc = "write" /\ mem'[w].block = Input(mem[w])[mem[w].pos + 1]
           /\ mem'[w].op = mem[w].op /\ mem'[w].name = mem[w].name
           /\ mem'[w].left = mem[w].left /\ mem'[w].file = mem[w].file
           /\ mem'[w].pos = mem[w].pos /\ mem'[w].kept = mem[w].kept
           /\ mem'[w].linked = mem[w].linked /\ mem'[w].stale = mem[w].stale
  <2>1. Copies(mem[w])' <=> Copies(mem[w])
    BY <1>2, <1>7 DEF Copies
  <2>2. ASSUME NEW f \in Files \ (moved \union tainted)
        PROVE  Company(f)' /\ Mends(f)'
    <3>1. Company(f) /\ Mends(f) /\ source' = source
      BY <1>7 DEF Repairs, Rest
    <3>2. f \in Reach(mem[w])' => f \in Reach(mem[w])
      BY <1>2, <1>7 DEF Reach
    <3>3. Reads(mem[w], f) => Task("DELETED", f) \in Ahead \/ Reads(mem[w], f)'
      BY <1>5, <1>7, <3>1 DEF Reads
    <3>4. Company(f)'
      BY <1>7, <2>1, <3>1, <3>2, <3>3, CompanyAfterStep
    <3>5. /\ Renews(mem[w], f) => Renews(mem[w], f)'
          /\ \A i : Covers(mem[w], f, i) => Covers(mem[w], f, i)'
          /\ ~Unlinks(mem[w], f)
      BY <1>2, <1>7, <2>1 DEF Renews, Covers, Unlinks
    <3>6. Mends(f)'
      BY <1>7, <3>1, <3>5, MendsAfterStep
    <3> QED
      BY <3>4, <3>6
  <2> QED
    BY <1>7, <2>2 DEF Repairs, Rest
<1> QED
  BY <1>1, <1>6, <1>7, ReadFields

LEMMA RepairsWriteBlock ==
  ASSUME Base, Repairs, NEW w \in Workers, WriteBlock(w)
  PROVE  Repairs'
<1>1. /\ Types /\ Shape(mem[w]) /\ mem[w] \in Memory
      /\ \A f \in Files : Knows(mem[w], f)
      /\ target \in [Files -> Contents \union {Absent}]
      /\ source \in [Files -> Contents \union {Absent}]
  BY DEF Base, Types, TypeOK, Minds
<1>2. /\ Alone(w) /\ Rest /\ mem[w].pc = "write"
      /\ target' = IF mem[w].linked
                   THEN [target EXCEPT ![mem[w].file] =
                                          Overwrite(@, mem[w].pos, mem[w].block)]
                   ELSE target
      /\ mem'[w].pc = "read" /\ mem'[w].pos = mem[w].pos + 1
      /\ mem'[w].op = mem[w].op /\ mem'[w].name = mem[w].name
      /\ mem'[w].left = mem[w].left /\ mem'[w].file = mem[w].file
      /\ mem'[w].kept = mem[w].kept
      /\ mem'[w].linked = mem[w].linked /\ mem'[w].stale = mem[w].stale
  BY <1>1, WriteBlockFields
<1>3. /\ mem[w].pos \in Nat /\ mem[w].pos < MaxBlocks /\ mem[w].block \in Blocks
      /\ mem[w].file \in Files
  BY <1>1, <1>2, MemoryParts, FileSyncAssumption DEF Shape, Copying
<1>4. /\ mem[w].op \in {"FULL", "ADDED", "MODIFIED"}
      /\ mem[w].op # "FULL" => mem[w].file = mem[w].name
      /\ mem[w].file \notin mem[w].left
  BY <1>1, <1>2, MemoryParts DEF Shape, Copying, Operations
<1>5. Copies(mem[w]) /\ Copies(mem[w])' /\ w \in At(mem[w].file)
  BY <1>2, <1>3, <1>4 DEF Copies, At, Reach
<1>6. ASSUME NEW f \in Files \ (moved \union tainted)
      PROVE  Company(f)' /\ Mends(f)'
  <2>1. Company(f) /\ Mends(f) /\ source' = source /\ Ahead' = Ahead
    BY <1>2, RestKeeps DEF Repairs
  <2>2. f \in Reach(mem[w])' => f \in Reach(mem[w])
    BY <1>2, <1>4 DEF Reach
  <2>3. Reads(mem[w], f) => Reads(mem[w], f)'
    BY <1>2 DEF Reads
  <2>4. Company(f)'
    BY <1>2, <1>5, <2>1, <2>2, <2>3, CompanyAfterStep
  <2>5. (Renews(mem[w], f) => Renews(mem[w], f)') /\ ~Unlinks(mem[w], f)
    BY <1>2, <1>5 DEF Renews, Unlinks
  <2>6. CASE f # mem[w].file \/ ~mem[w].linked
    <3>1. target'[f] = target[f]
      BY <1>1, <1>2, <2>6
    <3>2. \A i : Covers(mem[w], f, i) => Covers(mem[w], f, i)'
      BY <1>2, <1>5, <2>6 DEF Covers
    <3>3. Mends(f)'
      BY <1>2, <2>1, <2>5, <3>1, <3>2, MendsAfterStep
    <3> QED
      BY <2>4, <3>3
  <2>7. CASE f = mem[w].file /\ mem[w].linked
    <3>1. target[f] # Absent /\ target[f] \in Contents
      BY <1>1, <1>2, <1>3, <2>7 DEF Shape
    <3> DEFINE d == Overwrite(target[f], mem[w].pos, mem[w].block)
    <3>2. /\ d \in Contents /\ d # Absent
          /\ Len(d) = IF mem[w].pos < Len(target[f]) THEN Len(target[f]) ELSE mem[w].pos + 1
          /\ d[mem[w].pos + 1] = mem[w].block
          /\ \A i \in 1..Len(target[f]) : i # mem[w].pos + 1 => d[i] = target[f][i]
      BY <1>3, <3>1, Overwritten
    <3>3. target'[f] = d
      BY <1>1, <1>2, <2>7
    <3> HIDE DEF d
    <3>4. CASE Resets(f)
      <4>1. Resets(f)'
        BY <2>1, <3>4 DEF Resets
      <4> QED
        BY <2>4, <4>1 DEF Mends
    <3>5. CASE ~Resets(f)
      <4>1. source[f] # Absent /\ Reads(mem[w], f)
        BY <1>5, <2>1, <2>7, <3>5 DEF Company, Resets
      <4>2. mem[w].pos < Len(source[f]) /\ Len(source[f]) \in Nat /\ Len(target[f]) \in Nat
        BY <1>1, <1>2, <2>7, <3>1, <4>1, ContentsAreSequences DEF Reads
      <4>3. Renewed(f) => Renewed(f)'
        <5> SUFFICES ASSUME NEW v \in Workers, Renews(mem[v], f) PROVE Renews(mem[v], f)'
          BY DEF Renewed
        <5>1. CASE v = w
          BY <2>5, <5>1
        <5>2. CASE v # w
          BY <1>2, <5>2 DEF Alone, Renews, Copies
        <5> QED
          BY <5>1, <5>2
      <4>4. Fits(f) => Fits(f)'
        BY <1>3, <2>1, <3>2, <3>3, <4>2 DEF Fits
      <4>5. ASSUME Task("MODIFIED", f) \notin Ahead, Exact(f) PROVE Exact(f)'
        <5>1. mem[w].block = source[f][mem[w].pos + 1]
          <6>1. f \notin mem[w].stale
            BY <1>5, <2>1, <2>7, <3>5, <4>5 DEF Company, Resets, Operations
          <6> QED
            BY <1>1, <1>2, <2>7, <6>1 DEF Knows
        <5>2. ASSUME NEW i \in 1..Len(source[f])
              PROVE  \/ i <= Len(d) /\ d[i] = source[f][i]
                     \/ \E v \in Workers : Covers(mem[v], f, i)'
          <6>1. CASE i = mem[w].pos + 1
            BY <1>3, <3>2, <4>2, <5>1, <6>1
          <6>2. CASE i # mem[w].pos + 1 /\ i <= Len(target[f]) /\ target[f][i] = source[f][i]
            <7>1. i \in 1..Len(target[f])
              BY <4>2, <6>2
            <7>2. d[i] = source[f][i]
              BY <3>2, <6>2, <7>1
            <7>3. i <= Len(d)
              BY <1>3, <3>2, <4>2, <6>2
            <7> QED
              BY <7>2, <7>3
          <6>3. ASSUME i # mem[w].pos + 1, NEW v \in Workers, Covers(mem[v], f, i)
                PROVE  Covers(mem[v], f, i)'
            <7>1. CASE v = w
              <8>1. mem[w].pos < i
                BY <1>2, <1>4, <2>7, <6>3, <7>1 DEF Covers
              <8>2. mem[w].pos + 1 < i
                BY <1>3, <4>2, <6>3, <8>1
              <8> QED
                BY <1>2, <2>7, <7>1, <8>2 DEF Covers
            <7>2. CASE v # w
              BY <1>2, <6>3, <7>2 DEF Alone, Covers, Copies
            <7> QED
              BY <7>1, <7>2
          <6> QED
            BY <4>5, <6>1, <6>2, <6>3 DEF Exact
        <5> QED
          BY <2>1, <3>3, <5>2 DEF Exact
      <4>6. Mends(f)'
        BY <2>1, <3>5, <4>1, <4>3, <4>4, <4>5 DEF Mends
      <4> QED
        BY <2>4, <4>6
    <3> QED
      BY <3>4, <3>5
  <2> QED
    BY <2>6, <2>7
<1> QED
  BY <1>2, <1>6 DEF Repairs, Rest

LEMMA RepairsFinish ==
  ASSUME Base, Repairs, NEW w \in Workers, Finish(w)
  PROVE  Repairs'
<1>1. /\ Types /\ Shape(mem[w]) /\ mem[w] \in Memory
  BY DEF Base, Types, TypeOK, Minds
<1>2. /\ Alone(w) /\ Rest /\ target' = target
      /\ mem[w].pc = "next" /\ mem[w].left = {} /\ mem'[w].pc = "done"
      /\ mem'[w].op = mem[w].op /\ mem'[w].name = mem[w].name
      /\ mem'[w].left = mem[w].left /\ mem'[w].file = mem[w].file
      /\ mem'[w].pos = mem[w].pos /\ mem'[w].kept = mem[w].kept
      /\ mem'[w].linked = mem[w].linked /\ mem'[w].stale = mem[w].stale
  BY <1>1, FinishFields
<1>3. ASSUME NEW f \in Files \ (moved \union tainted)
      PROVE  Company(f)' /\ Mends(f)'
  <2>1. Company(f) /\ Mends(f)
    BY DEF Repairs
  <2>2. f \notin Reach(mem[w])'
    BY <1>2 DEF Reach
  <2>3. ~Renews(mem[w], f) /\ ~Unlinks(mem[w], f) /\ \A i : ~Covers(mem[w], f, i)
    BY <1>2 DEF Renews, Unlinks, Covers
  <2>4. Company(f)'
    BY <1>2, <2>1, <2>2, CompanyAfterStep
  <2>5. Mends(f)'
    BY <1>2, <2>1, <2>3, MendsAfterStep
  <2> QED
    BY <2>4, <2>5
<1> QED
  BY <1>2, <1>3 DEF Repairs, Rest

-----------------------------------------------------------------------------
(***************************************************************************)
(* The start of a worker keeps them, for the files it leaves untainted.    *)
(***************************************************************************)
\* What a worker reaches that begins a task.
LEMMA BegunReach ==
  ASSUME NEW task \in Tasks, NEW f \in Files
  PROVE  /\ f \in Reach(Begun(task)) <=> task.op = "FULL" \/ task.name = f
         /\ task.op # "FULL" => task = Task(task.op, task.name)
         /\ task.op = "FULL" => task = FullSync
         /\ task.op \in {"FULL", "ADDED", "MODIFIED", "DELETED"}
<1>1. /\ task.op \in Operations
      /\ task.op # "FULL" => task = Task(task.op, task.name)
      /\ task.op = "FULL" => task = FullSync /\ task.name = "ALL"
  <2>1. CASE task = FullSync
    BY <2>1 DEF FullSync, Task, Operations
  <2>2. CASE task \in [op : Operations \ {"FULL"}, name : Files]
    BY <2>2 DEF Task
  <2> QED
    BY <2>1, <2>2 DEF Tasks
<1>2. PICK n \in Memory : n = Begun(task)
  BY BegunFields
<1>3. /\ n.op = task.op /\ n.name = task.name
      /\ task.op = "FULL" => n.pc = "scan" /\ n.left = {}
      /\ task.op = "DELETED" => n.pc = "unlink" /\ n.left = {task.name}
      /\ task.op \in {"ADDED", "MODIFIED"} => n.pc = "next" /\ n.left = {task.name}
  BY <1>2, BegunFields
<1>4. f \in Reach(n) <=> task.op = "FULL" \/ task.name = f
  BY <1>1, <1>3, FileSyncAssumption DEF Reach, Operations
<1> QED
  BY <1>1, <1>2, <1>4 DEF Operations

\* A task that is taken is the only one that may be missing.
LEMMA StillAhead ==
  ASSUME NEW task, Takes(task), NEW t, t \in Ahead, t # task
  PROVE  t \in Ahead'
BY DEF Takes

LEMMA CompanyAfterStart ==
  ASSUME Base, NEW w \in Workers, NEW task \in Tasks, Starts(w, task), Takes(task),
         NEW f \in Files, f \in Reach(Begun(task)), f \notin moved \/ task.op = "FULL", Company(f),
         \A v \in At(f) : f \notin mem[v].stale /\ ~Conflict(task.op, mem[v].op)
  PROVE  Company(f)'
<1>1. /\ Alone(w) /\ mem'[w] = Begun(task) /\ source' = source
      /\ \A v \in Workers : \A g \in Files : Knows(mem[v], g)
  BY MindsAfterStart DEF Starts, Base, Minds
<1>2. PICK n \in Memory : n = Begun(task)
  BY BegunFields
<1>3. /\ n.op = task.op
      /\ task.op = "FULL" => n.pc = "scan"
      /\ n.file = "ALL" /\ n.stale = {}
  BY <1>2, BegunFields
<1>4. /\ task.op # "FULL" => task = Task(task.op, f)
      /\ task.op = "FULL" => task = FullSync
      /\ task.op \in {"FULL", "ADDED", "MODIFIED", "DELETED"}
  BY BegunReach
<1>5. ASSUME NEW v \in At(f)', v # w
      PROVE  v \in At(f) /\ mem'[v] = mem[v]
  BY <1>1, <1>5 DEF At, Alone, Reach
<1>6. ASSUME NEW v \in At(f)', v # w
      PROVE  /\ f \notin mem'[v].stale
             /\ \A u \in At(f)' : v # u => ~Conflict(mem'[v].op, mem'[u].op)
             /\ mem'[v].op = "DELETED" /\ source'[f] # Absent => Task("ADDED", f) \in Ahead'
             /\ Copies(mem[v])' /\ source'[f] = Absent => Task("DELETED", f) \in Ahead'
             /\ Reads(mem[v], f)'
  <2>1. v \in At(f) /\ mem'[v] = mem[v] /\ v \in Workers /\ f \in Reach(mem[v])
    BY <1>5, <1>6 DEF At
  <2>2. /\ \A u \in At(f) : v # u => ~Conflict(mem[v].op, mem[u].op)
        /\ mem[v].op = "DELETED" /\ source[f] # Absent => Task("ADDED", f) \in Ahead
        /\ Copies(mem[v]) /\ source[f] = Absent => Task("DELETED", f) \in Ahead
        /\ f \notin mem[v].stale /\ ~Conflict(task.op, mem[v].op)
        /\ Knows(mem[v], f)
    BY <1>1, <2>1 DEF Company
  <2>3. ASSUME NEW u \in At(f)', v # u PROVE ~Conflict(mem'[v].op, mem'[u].op)
    <3>1. CASE u = w
      BY <1>1, <1>2, <1>3, <2>1, <2>2, <3>1, Conflicts
    <3>2. CASE u # w
      BY <1>5, <2>1, <2>2, <2>3, <3>2
    <3> QED
      BY <3>1, <3>2
  <2>4. ASSUME mem'[v].op = "DELETED", source'[f] # Absent PROVE Task("ADDED", f) \in Ahead'
    <3>1. Task("ADDED", f) \in Ahead /\ task.op # "ADDED"
      BY <1>1, <2>1, <2>2, <2>4, Conflicts
    <3>2. task # Task("ADDED", f)
      BY <3>1 DEF Task
    <3> QED
      BY <3>1, <3>2, StillAhead
  <2>5. ASSUME Copies(mem[v])', source'[f] = Absent PROVE Task("DELETED", f) \in Ahead'
    <3>1. Copies(mem[v]) /\ source[f] = Absent
      BY <1>1, <2>1, <2>5 DEF Copies
    <3>2. mem[v].op \in {"ADDED", "MODIFIED"}
      BY <2>1, <2>2, <3>1 DEF Copies, Knows
    <3>3. task.op # "DELETED"
      BY <2>2, <3>2, Conflicts
    <3>4. task # Task("DELETED", f)
      BY <3>3 DEF Task
    <3> QED
      BY <2>2, <3>1, <3>4, StillAhead
  <2>6. Reads(mem[v], f)'
    BY <1>1, <2>1, <2>2 DEF Reads, Knows
  <2> QED
    BY <2>1, <2>2, <2>3, <2>4, <2>5, <2>6
<1>7. /\ f \notin mem'[w].stale
      /\ \A u \in At(f)' : w # u => ~Conflict(mem'[w].op, mem'[u].op)
      /\ mem'[w].op = "DELETED" /\ source'[f] # Absent => Task("ADDED", f) \in Ahead'
      /\ Copies(mem[w])' /\ source'[f] = Absent => Task("DELETED", f) \in Ahead'
      /\ Reads(mem[w], f)'
  <2>1. ASSUME NEW u \in At(f)', w # u PROVE ~Conflict(mem'[w].op, mem'[u].op)
    BY <1>1, <1>2, <1>3, <1>5, <2>1
  <2>2. mem'[w].op = "DELETED" /\ source'[f] # Absent => Task("ADDED", f) \in Ahead'
    BY <1>1, <1>2, <1>3, <1>4 DEF Takes
  <2>3. Copies(mem[w])' /\ source'[f] = Absent => Task("DELETED", f) \in Ahead'
    BY <1>1, <1>2, <1>3, <1>4 DEF Takes, Copies
  <2>4. Reads(mem[w], f)' /\ f \notin mem'[w].stale
    BY <1>1, <1>2, <1>3, FileSyncAssumption DEF Reads
  <2> QED
    BY <2>1, <2>2, <2>3, <2>4
<1>8. \A v \in At(f)' : f \notin mem'[v].stale
  BY <1>6, <1>7
<1> QED
  BY <1>6, <1>7, <1>8 DEF Company

LEMMA MendsAfterStart ==
  ASSUME Base, NEW w \in Workers, NEW task \in Tasks, Starts(w, task), Takes(task),
         NEW f \in Files, f \in Reach(Begun(task)),
         (f \notin moved /\ Mends(f)) \/ task.op = "FULL"
  PROVE  Mends(f)'
<1>1. /\ Alone(w) /\ mem'[w] = Begun(task) /\ source' = source /\ target' = target
      /\ mem[w].pc \in {"idle", "done"} /\ mem[w] \in Memory /\ Shape(mem[w])
  BY MindsAfterStart DEF Starts, Base, Minds, Types, TypeOK
<1>2. PICK n \in Memory : n = Begun(task)
  BY BegunFields
<1>3. /\ n.op = task.op
      /\ task.op = "FULL" => n.pc = "scan"
      /\ task.op = "DELETED" => n.pc = "unlink" /\ n.left = {task.name}
      /\ task.op \in {"ADDED", "MODIFIED"} => n.pc = "next" /\ n.left = {task.name}
  BY <1>2, BegunFields
<1>4. /\ task.op # "FULL" => task = Task(task.op, f) /\ task.name = f
      /\ task.op \in {"FULL", "ADDED", "MODIFIED", "DELETED"}
  BY BegunReach
<1>5. CASE task.op = "FULL"
  <2>1. Renews(mem[w], f)' /\ Unlinks(mem[w], f)'
    BY <1>1, <1>2, <1>3, <1>5 DEF Renews, Unlinks
  <2> QED
    BY <2>1 DEF Mends, Renewed
<1>6. CASE task.op = "ADDED"
  <2>1. Renews(mem[w], f)'
    BY <1>1, <1>2, <1>3, <1>4, <1>6 DEF Renews, Copies
  <2>2. source[f] = Absent => Resets(f)'
    BY <1>4, <1>6 DEF Takes, Resets
  <2> QED
    BY <1>1, <2>1, <2>2 DEF Mends, Renewed
<1>7. CASE task.op = "DELETED"
  <2>1. Unlinks(mem[w], f)'
    BY <1>1, <1>2, <1>3, <1>4, <1>7 DEF Unlinks
  <2>2. source[f] # Absent => Resets(f)'
    BY <1>4, <1>7 DEF Takes, Resets
  <2> QED
    BY <1>1, <2>1, <2>2 DEF Mends
<1>8. CASE task.op = "MODIFIED"
  <2>1. \A i : Covers(mem[w], f, i)'
    BY <1>1, <1>2, <1>3, <1>4, <1>8 DEF Covers, Copies
  <2>2. source[f] = Absent => Resets(f)'
    BY <1>4, <1>8 DEF Takes, Resets
  <2>3. Resets(f) => Resets(f)'
    <3>1. task # Task("ADDED", f) /\ task # Task("DELETED", f)
      BY <1>8 DEF Task
    <3> QED
      BY <3>1, StillAhead DEF Resets
  <2>4. Renewed(f) => Renewed(f)'
    <3> SUFFICES ASSUME NEW v \in Workers, Renews(mem[v], f) PROVE Renews(mem[v], f)'
      BY DEF Renewed
    <3>1. v # w
      BY <1>1, DoersReach DEF Reach
    <3> QED
      BY <1>1, <3>1 DEF Alone, Renews, Copies
  <2>5. Fits(f) => Fits(f)'
    BY <1>1 DEF Fits
  <2> QED
    BY <1>1, <1>8, <2>1, <2>2, <2>3, <2>4, <2>5 DEF Mends, Exact
<1> QED
  BY <1>4, <1>5, <1>6, <1>7, <1>8

LEMMA RepairsStart ==
  ASSUME Base, Repairs, NEW w \in Workers, NEW task \in Tasks, Starts(w, task), Takes(task)
  PROVE  Repairs'
<1>1. /\ Alone(w) /\ mem'[w] = Begun(task) /\ source' = source /\ target' = target
      /\ mem[w].pc \in {"idle", "done"} /\ mem[w] \in Memory /\ Shape(mem[w])
      /\ moved' = MovedAt(task) /\ tainted' = TaintAt(task)
  BY MindsAfterStart DEF Starts, Base, Minds, Types, TypeOK
<1>2. ASSUME NEW f \in Files \ (moved' \union tainted')
      PROVE  Company(f)' /\ Mends(f)'
  <2>1. CASE BeginsAlone(task)
    <3>1. At(f) = {} /\ f \in Reach(Begun(task)) /\ task.op = "FULL"
      BY <2>1, BegunReach DEF At, BeginsAlone
    <3>2. Company(f)
      BY <3>1 DEF Company
    <3> QED
      BY <1>2, <2>1, <3>1, <3>2, CompanyAfterStart, MendsAfterStart
  <2>2. CASE ~BeginsAlone(task)
    <3>1. /\ f \notin moved /\ f \notin tainted
          /\ f \in Reach(Begun(task)) =>
               \A v \in Workers : f \in Reach(mem[v]) =>
                  ~(f \in mem[v].stale \/ Conflict(task.op, mem[v].op))
      BY <1>1, <1>2, <2>2 DEF MovedAt, TaintAt
    <3>2. Company(f) /\ Mends(f)
      BY <3>1 DEF Repairs
    <3>3. CASE f \in Reach(Begun(task))
      <4>1. \A v \in At(f) : f \notin mem[v].stale /\ ~Conflict(task.op, mem[v].op)
        BY <3>1, <3>3 DEF At
      <4> QED
        BY <3>1, <3>2, <3>3, <4>1, CompanyAfterStart, MendsAfterStart
    <3>4. CASE f \notin Reach(Begun(task))
      <4>1. SameTasks(f)
        <5>1. task.op # "FULL" /\ task.name # f
          BY <3>4, BegunReach
        <5>2. \A op : Task(op, f) # task
          BY <5>1 DEF Task
        <5>3. task # FullSync
          BY <5>1 DEF FullSync, Task
        <5> QED
          BY <5>2, <5>3 DEF Takes, SameTasks
      <4>2. f \notin Reach(mem[w])' /\ f \notin Reach(mem[w])
        BY <1>1, <3>4 DEF Reach
      <4>3. ASSUME NEW v \in Workers, v # w
            PROVE  /\ f \in Reach(mem[v])' => f \in Reach(mem[v])
                   /\ mem'[v] = mem[v]
                   /\ Copies(mem[v])' => Copies(mem[v])
                   /\ Reads(mem[v], f) => Reads(mem[v], f)'
                   /\ Renews(mem[v], f) => Renews(mem[v], f)'
                   /\ \A i : Covers(mem[v], f, i) => Covers(mem[v], f, i)'
                   /\ Unlinks(mem[v], f) => Unlinks(mem[v], f)'
        <5>1. mem'[v] = mem[v]
          BY <1>1, <4>3 DEF Alone
        <5> QED
          BY <1>1, <5>1 DEF Reach, Copies, Reads, Renews, Covers, Unlinks
      <4>4. Company(f)'
        BY <1>1, <3>2, <4>1, <4>2, <4>3, CompanyKept
      <4>5. ~Renews(mem[w], f) /\ ~Unlinks(mem[w], f) /\ \A i : ~Covers(mem[w], f, i)
        BY <1>1, <4>2, DoersReach
      <4>6. Mends(f)'
        BY <1>1, <3>2, <4>1, <4>3, <4>5, MendsKept
      <4> QED
        BY <4>4, <4>6
    <3> QED
      BY <3>3, <3>4
  <2> QED
    BY <2>1, <2>2
<1> QED
  BY <1>2 DEF Repairs

-----------------------------------------------------------------------------
(***************************************************************************)
(* So do commands that wait, a worker that is reaped, and the changes that *)
(* taint no file.                                                          *)
(***************************************************************************)
LEMMA RepairsQueued ==
  ASSUME Base, Repairs, UNCHANGED <<source, target, mem, moved, tainted>>,
         Ahead' = Ahead \/ Ahead' = Ahead \union {FullSync}
  PROVE  Repairs'
<1>1. ASSUME NEW f \in Files \ (moved \union tainted) PROVE Company(f)' /\ Mends(f)'
  <2>1. Company(f) /\ Mends(f)
    BY DEF Repairs
  <2>2. SameTasks(f)
    BY TaskParts DEF SameTasks, FullSync
  <2>3. ASSUME NEW v \in Workers
        PROVE  /\ f \in Reach(mem[v])' => f \in Reach(mem[v])
               /\ Copies(mem[v])' => Copies(mem[v])
               /\ Reads(mem[v], f) => Reads(mem[v], f)'
               /\ Renews(mem[v], f) => Renews(mem[v], f)'
               /\ \A i : Covers(mem[v], f, i) => Covers(mem[v], f, i)'
               /\ Unlinks(mem[v], f) => Unlinks(mem[v], f)'
    BY DEF Reach, Copies, Reads, Renews, Covers, Unlinks
  <2>4. Company(f)'
    BY <2>1, <2>2, <2>3, CompanyKept
  <2>5. Mends(f)'
    BY <2>1, <2>2, <2>3, MendsKept
  <2> QED
    BY <2>4, <2>5
<1> QED
  BY <1>1 DEF Repairs

LEMMA RepairsIdle ==
  ASSUME Base, Repairs, NEW w \in Workers,
         UNCHANGED <<source, target, moved, tainted>>, Ahead' = Ahead,
         mem[w].pc = "done", Alone(w), mem'[w] = Idle
  PROVE  Repairs'
<1>0. mem[w] \in Memory /\ Shape(mem[w])
  BY DEF Base, Types, TypeOK, Minds
<1>1. ASSUME NEW f \in Files \ (moved \union tainted) PROVE Company(f)' /\ Mends(f)'
  <2>1. Company(f) /\ Mends(f)
    BY DEF Repairs
  <2>2. SameTasks(f)
    BY DEF SameTasks
  <2>3. f \notin Reach(mem[w])' /\ f \notin Reach(mem[w])
    BY IdleFields DEF Reach
  <2>4. ASSUME NEW v \in Workers, v # w
        PROVE  /\ mem'[v] = mem[v]
               /\ f \in Reach(mem[v])' => f \in Reach(mem[v])
               /\ Copies(mem[v])' => Copies(mem[v])
               /\ Reads(mem[v], f) => Reads(mem[v], f)'
               /\ Renews(mem[v], f) => Renews(mem[v], f)'
               /\ \A i : Covers(mem[v], f, i) => Covers(mem[v], f, i)'
               /\ Unlinks(mem[v], f) => Unlinks(mem[v], f)'
    <3>1. mem'[v] = mem[v]
      BY <2>4 DEF Alone
    <3> QED
      BY <3>1 DEF Reach, Copies, Reads, Renews, Covers, Unlinks
  <2>5. ~Renews(mem[w], f) /\ ~Unlinks(mem[w], f) /\ \A i : ~Covers(mem[w], f, i)
    BY <1>0, <2>3, DoersReach
  <2>6. Company(f)'
    BY <2>1, <2>2, <2>3, <2>4, CompanyKept
  <2>7. Mends(f)'
    BY <2>1, <2>2, <2>4, <2>5, MendsKept
  <2> QED
    BY <2>6, <2>7
<1> QED
  BY <1>1 DEF Repairs

\* At most one worker is at a file that changes and stays untainted.
LEMMA OneAt ==
  ASSUME NEW f, Cardinality({w \in Workers : f \in Reach(mem[w])}) <= 1,
         NEW v \in At(f), NEW u \in At(f)
  PROVE  u = v
<1>1. IsFiniteSet(At(f)) /\ Cardinality(At(f)) <= 1 /\ Cardinality(At(f)) \in Nat
  <2>1. IsFiniteSet(At(f))
    BY FileSyncAssumption, FS_Subset DEF At
  <2> QED
    BY <2>1, FS_CardinalityType DEF At
<1>2. ASSUME u # v PROVE FALSE
  <2>1. Cardinality(At(f)) # 1
    BY <1>1, <1>2, FS_Singleton
  <2>2. Cardinality(At(f)) # 0
    BY <1>1, FS_EmptySet
  <2> QED
    BY <1>1, <2>1, <2>2
<1> QED
  BY <1>2

\* A change is no matter of the other files, ...
LEMMA RepairsElsewhere ==
  ASSUME Base, NEW f \in Files, NEW contents \in Contents \union {Absent},
         NEW op \in Operations \ {"FULL"}, Change(f, contents, op),
         NEW g \in Files, g # f, Company(g), Mends(g), SameTasks(g)
  PROVE  Company(g)' /\ Mends(g)'
<1>1. Types /\ source \in [Files -> Contents \union {Absent}]
  BY DEF Base, Types, TypeOK
<1>2. target' = target
  BY DEF Change
<1>3. /\ mem' \in [Workers -> Memory]
      /\ source' = [source EXCEPT ![f] = contents]
      /\ \A w \in Workers :
           /\ mem'[w].pc = mem[w].pc /\ mem'[w].op = mem[w].op /\ mem'[w].name = mem[w].name
           /\ mem'[w].left = mem[w].left /\ mem'[w].file = mem[w].file
           /\ mem'[w].pos = mem[w].pos /\ mem'[w].block = mem[w].block
           /\ mem'[w].linked = mem[w].linked
           /\ IF /\ mem[w].file = f /\ mem[w].pc \in {"target", "read", "write"}
                 /\ op # "MODIFIED" /\ mem[w].kept = Absent
              THEN mem'[w].kept = source[f] ELSE mem'[w].kept = mem[w].kept
           /\ IF mem[w].pc \in {"idle", "done"} THEN mem'[w].stale = mem[w].stale
              ELSE mem'[w].stale = mem[w].stale \union {f}
  BY <1>1, ChangeFields
<1>4. ASSUME NEW v \in Workers
      PROVE  /\ g \in Reach(mem[v])' <=> g \in Reach(mem[v])
             /\ Copies(mem[v])' <=> Copies(mem[v])
             /\ Renews(mem[v], g)' <=> Renews(mem[v], g)
             /\ \A i : Covers(mem[v], g, i)' <=> Covers(mem[v], g, i)
             /\ Unlinks(mem[v], g)' <=> Unlinks(mem[v], g)
  BY <1>3 DEF Reach, Copies, Renews, Covers, Unlinks
<1>5. source'[g] = source[g] /\ target'[g] = target[g]
  BY <1>1, <1>2, <1>3
<1>6. ASSUME NEW v \in Workers
      PROVE  /\ g \in mem'[v].stale => g \in mem[v].stale
             /\ Reads(mem[v], g) => Reads(mem[v], g)'
  <2>1. g \in mem'[v].stale => g \in mem[v].stale
    BY <1>3
  <2>2. mem[v].file = g => mem'[v].kept = mem[v].kept
    BY <1>3
  <2> QED
    BY <1>3, <1>5, <2>1, <2>2 DEF Reads
<1>7. Company(g)'
  BY <1>3, <1>4, <1>5, <1>6, CompanyKept
<1>8. Mends(g)'
  BY <1>4, <1>5, MendsKept
<1> QED
  BY <1>7, <1>8

\* ... which is all there is to say of a file that is renamed, ...
LEMMA RepairsRenamed ==
  ASSUME Base, Repairs, NEW f \in Files, NEW contents \in Contents \union {Absent},
         NEW op \in Operations \ {"FULL"}, Renamed(f, contents, op), Possible(f, contents, op)
  PROVE  Repairs'
<1>1. Change(f, contents, op) /\ moved' = moved \union {f} /\ tainted' = tainted
  BY DEF Renamed
<1>2. Ahead' = Ahead
  BY BaseRenamed
<1>3. ASSUME NEW g \in Files \ (moved \union tainted), g # f PROVE Company(g)' /\ Mends(g)'
  BY <1>1, <1>2, <1>3, RepairsElsewhere DEF Repairs, SameTasks
<1> QED
  BY <1>1, <1>3 DEF Repairs

\* ... and an event tells of the others.
LEMMA RepairsChange ==
  ASSUME Base, Repairs, NEW f \in Files, NEW contents \in Contents \union {Absent},
         NEW op \in Operations \ {"FULL"}, Notices(f, contents, op), Possible(f, contents, op)
  PROVE  Repairs'
<1>1. /\ Types
      /\ \A w \in Workers : Shape(mem[w]) /\ mem[w] \in Memory
      /\ source \in [Files -> Contents \union {Absent}]
      /\ target \in [Files -> Contents \union {Absent}]
  BY DEF Base, Types, TypeOK, Minds
<1>2. /\ Change(f, contents, op) /\ target' = target /\ moved' = moved
      /\ op = "ADDED" => source[f] = Absent
      /\ tainted' = IF \/ Cardinality({w \in Workers : f \in Reach(mem[w])}) > 1
                       \/ op = "MODIFIED" /\ Len(contents) < Len(source[f])
                    THEN tainted \union {f} ELSE tainted
  BY DEF Notices, Noticed, Change
<1>3. /\ mem' \in [Workers -> Memory]
      /\ source' = [source EXCEPT ![f] = contents]
      /\ \A w \in Workers :
           /\ mem'[w].pc = mem[w].pc /\ mem'[w].op = mem[w].op /\ mem'[w].name = mem[w].name
           /\ mem'[w].left = mem[w].left /\ mem'[w].file = mem[w].file
           /\ mem'[w].pos = mem[w].pos /\ mem'[w].block = mem[w].block
           /\ mem'[w].linked = mem[w].linked
           /\ IF /\ mem[w].file = f /\ mem[w].pc \in {"target", "read", "write"}
                 /\ op # "MODIFIED" /\ mem[w].kept = Absent
              THEN mem'[w].kept = source[f] ELSE mem'[w].kept = mem[w].kept
           /\ IF mem[w].pc \in {"idle", "done"} THEN mem'[w].stale = mem[w].stale
              ELSE mem'[w].stale = mem[w].stale \union {f}
  BY <1>1, <1>2, ChangeFields
<1>4. Ahead' = Ahead \union {Task(op, f)}
  BY BaseChange
<1>5. ASSUME NEW v \in Workers, NEW g \in Files
      PROVE  /\ g \in Reach(mem[v])' <=> g \in Reach(mem[v])
             /\ Copies(mem[v])' <=> Copies(mem[v])
             /\ Renews(mem[v], g)' <=> Renews(mem[v], g)
             /\ \A i : Covers(mem[v], g, i)' <=> Covers(mem[v], g, i)
             /\ Unlinks(mem[v], g)' <=> Unlinks(mem[v], g)
  BY <1>3 DEF Reach, Copies, Renews, Covers, Unlinks
<1>6. ASSUME NEW g \in Files \ (moved' \union tainted'), g # f
      PROVE  Company(g)' /\ Mends(g)'
  <2>1. Company(g) /\ Mends(g)
    BY <1>2, <1>6 DEF Repairs
  <2>2. SameTasks(g)
    BY <1>4, <1>6, TaskParts DEF SameTasks
  <2> QED
    BY <1>2, <1>6, <2>1, <2>2, RepairsElsewhere
<1>7. ASSUME f \notin moved' \union tainted'
      PROVE  Company(f)' /\ Mends(f)'
  <2>1. /\ ~(Cardinality({w \in Workers : f \in Reach(mem[w])}) > 1)
        /\ op = "MODIFIED" => ~(Len(contents) < Len(source[f]))
        /\ f \notin moved \union tainted
    BY <1>2, <1>7
  <2>2. Company(f) /\ Mends(f) /\ source'[f] = contents /\ target'[f] = target[f]
    BY <1>1, <1>2, <1>3, <2>1 DEF Repairs
  <2>3. Cardinality({w \in Workers : f \in Reach(mem[w])}) <= 1
    <3>1. IsFiniteSet({w \in Workers : f \in Reach(mem[w])})
      BY FileSyncAssumption, FS_Subset
    <3>2. Cardinality({w \in Workers : f \in Reach(mem[w])}) \in Nat
      BY <3>1, FS_CardinalityType
    <3> QED
      BY <2>1, <3>2
  <2>4. op = "MODIFIED" => /\ contents \in Contents /\ source[f] \in Contents /\ source[f] # Absent
                           /\ Len(source[f]) \in Nat /\ Len(contents) \in Nat
                           /\ Len(source[f]) <= Len(contents)
    <3>1. ASSUME op = "MODIFIED"
          PROVE  contents \in Contents /\ source[f] \in Contents /\ source[f] # Absent
      BY <1>1, <3>1 DEF Possible
    <3>2. ASSUME op = "MODIFIED" PROVE Len(source[f]) \in Nat /\ Len(contents) \in Nat
      BY <3>1, <3>2, ContentsAreSequences
    <3> QED
      BY <2>1, <3>1, <3>2
  <2>5. At(f)' = At(f)
    BY <1>5 DEF At
  <2>6. ASSUME NEW v \in At(f)
        PROVE  /\ At(f)' = {v}
               /\ \E o \in Operations \ {"FULL"} : Task(o, f) \in Ahead'
               /\ mem'[v].op = "DELETED" /\ source'[f] # Absent => Task("ADDED", f) \in Ahead'
               /\ Copies(mem[v])' /\ source'[f] = Absent => Task("DELETED", f) \in Ahead'
               /\ Task("DELETED", f) \in Ahead' \/ Reads(mem[v], f)'
    <3>1. At(f)' = {v}
      BY <2>3, <2>5, OneAt
    <3>2. \E o \in Operations \ {"FULL"} : Task(o, f) \in Ahead'
      BY <1>4
    <3>3. /\ v \in Workers
          /\ mem[v].op = "DELETED" /\ source[f] # Absent => Task("ADDED", f) \in Ahead
          /\ Task("DELETED", f) \in Ahead \/ Reads(mem[v], f)
      BY <2>2 DEF Company, At
    <3>4. CASE op = "ADDED"
      <4>1. source[f] = Absent /\ source'[f] # Absent /\ Task("ADDED", f) \in Ahead'
        BY <1>2, <1>4, <2>2, <3>4, FileSyncAssumption DEF Possible
      <4>2. Reads(mem[v], f) => Reads(mem[v], f)'
        <5>1. ASSUME Reads(mem[v], f), mem[v].file = f PROVE mem[v].pc # "write"
          <6>1. Shape(mem[v]) /\ mem[v].kept = Absent
            BY <1>1, <3>3, <5>1 DEF Reads
          <6> QED
            BY <4>1, <5>1, <6>1 DEF Shape, Copying
        <5>2. mem'[v].kept = mem[v].kept
          BY <1>3, <3>3, <4>1
        <5> QED
          BY <1>3, <3>3, <5>1, <5>2 DEF Reads
      <4> QED
        BY <1>4, <3>1, <3>2, <3>3, <4>1, <4>2
    <3>5. CASE op = "DELETED"
      BY <1>4, <2>2, <3>1, <3>2, <3>5 DEF Possible
    <3>6. CASE op = "MODIFIED"
      <4>1. source'[f] # Absent /\ source[f] # Absent
        BY <2>2, <2>4, <3>6, FileSyncAssumption
      <4>2. Reads(mem[v], f) => Reads(mem[v], f)'
        <5>1. mem[v].pos \in Nat
          BY <1>1, <3>3, MemoryParts, FileSyncAssumption
        <5>2. mem'[v].kept = mem[v].kept
          BY <1>3, <3>3, <3>6
        <5> QED
          BY <1>3, <2>2, <2>4, <3>3, <3>6, <5>1, <5>2 DEF Reads
      <4> QED
        BY <1>3, <1>4, <3>1, <3>2, <3>3, <4>1, <4>2
    <3> QED
      BY <3>4, <3>5, <3>6 DEF Operations
  <2>7. Company(f)'
    <3>1. ASSUME NEW v \in At(f)' PROVE \A u \in At(f)' : v # u => ~Conflict(mem'[v].op, mem'[u].op)
      BY <2>5, <2>6
    <3> QED
      BY <2>5, <2>6, <3>1 DEF Company
  <2>8. Mends(f)'
    <3>1. CASE op \in {"ADDED", "DELETED"}
      <4>1. Resets(f)'
        BY <1>4, <3>1 DEF Resets
      <4> QED
        BY <4>1 DEF Mends
    <3>2. CASE op = "MODIFIED"
      <4>1. Task("MODIFIED", f) \in Ahead' /\ (Resets(f) => Resets(f)')
        BY <1>4, <3>2 DEF Resets
      <4>2. Renewed(f) => Renewed(f)'
        BY <1>5 DEF Renewed
      <4>3. Fits(f) => Fits(f)'
        <5>1. ASSUME Fits(f) PROVE Len(target[f]) \in Nat
          BY <1>1, <5>1, ContentsAreSequences DEF Fits
        <5> QED
          BY <2>2, <2>4, <3>2, <5>1 DEF Fits
      <4> QED
        BY <2>2, <2>4, <3>2, <4>1, <4>2, <4>3 DEF Mends
    <3> QED
      BY <3>1, <3>2 DEF Operations
  <2> QED
    BY <2>7, <2>8
<1> QED
  BY <1>6, <1>7 DEF Repairs

-----------------------------------------------------------------------------
LEMMA InitIInv ==
  ASSUME Init
  PROVE  IInv
<1>1. Base /\ target \in [Files -> Contents \union {Absent}]
  BY BaseInit DEF Base, Types, TypeOK
<1>2. PICK w \in Workers : mem = [v \in Workers |-> IF v = w THEN Begun(FullSync) ELSE Idle]
  BY DEF Init
<1>3. PICK n \in Memory : n = Begun(FullSync)
  BY BegunFields DEF Tasks
<1>4. n.op = "FULL" /\ n.pc = "scan" /\ n.file = "ALL" /\ n.stale = {}
  BY <1>3, BegunFields DEF Tasks, FullSync, Task
<1>5. mem[w] = n
  BY <1>2, <1>3
<1>6. ASSUME NEW f \in Files PROVE Company(f) /\ Mends(f)
  <2>1. \A v \in At(f) : v = w
    BY <1>2, IdleFields DEF At, Reach
  <2>2. ~Copies(mem[w]) /\ Reads(mem[w], f) /\ f \notin mem[w].stale /\ mem[w].op # "DELETED"
    BY <1>4, <1>5, FileSyncAssumption DEF Copies, Reads
  <2>3. Company(f)
    BY <2>1, <2>2 DEF Company
  <2>4. Renewed(f) /\ Unlinks(mem[w], f)
    BY <1>4, <1>5 DEF Renewed, Renews, Unlinks
  <2> QED
    BY <2>3, <2>4 DEF Mends
<1> QED
  BY <1>1, <1>6 DEF IInv, Base, Repairs

LEMMA WorkIInv ==
  ASSUME Base, Repairs, NEW w \in Workers, Work(w)
  PROVE  Base' /\ Repairs'
<1>1. CASE ScanTarget(w)
  BY <1>1, BaseScanTarget, RepairsScanTarget
<1>2. CASE Unlink(w)
  BY <1>2, BaseUnlink, RepairsUnlink
<1>3. CASE Unlinked(w)
  BY <1>3, BaseUnlinked, RepairsUnlinked
<1>4. CASE AddOrModify(w)
  BY <1>4, BaseAddOrModify, RepairsAddOrModify
<1>5. CASE OpenSource(w)
  BY <1>5, BaseOpenSource, RepairsOpenSource
<1>6. CASE OpenTarget(w)
  BY <1>6, BaseOpenTarget, RepairsOpenTarget
<1>7. CASE Read(w)
  BY <1>7, BaseRead, RepairsRead
<1>8. CASE WriteBlock(w)
  BY <1>8, BaseWriteBlock, RepairsWriteBlock
<1>9. CASE Finish(w)
  BY <1>9, BaseFinish, RepairsFinish
<1>10. CASE ReadTarget(w)
  BY <1>10, BaseReadTarget, RepairsReadTarget
<1>11. CASE PassGone(w)
  BY <1>11, BasePassGone, RepairsPassGone
<1>12. CASE ReadFresh(w)
  BY <1>12, BaseReadFresh, RepairsReadFresh
<1> QED
  BY <1>1, <1>2, <1>3, <1>4, <1>5, <1>6, <1>7, <1>8, <1>9, <1>10, <1>11, <1>12 DEF Work

LEMMA NextIInv ==
  ASSUME IInv, [Next]_vars
  PROVE  IInv'
<1>1. Base /\ Repairs
  BY DEF IInv, Base
<1>2. CASE Users
  <2>1. PICK f \in Files, contents \in Contents \union {Absent}, op \in Operations \ {"FULL"} :
           /\ Possible(f, contents, op)
           /\ Notices(f, contents, op) \/ Renamed(f, contents, op)
    BY <1>1, <1>2, UsersChange DEF Base
  <2>2. CASE Notices(f, contents, op)
    BY <1>1, <2>1, <2>2, BaseChange, RepairsChange DEF IInv, Base
  <2>3. CASE Renamed(f, contents, op)
    BY <1>1, <2>1, <2>3, BaseRenamed, RepairsRenamed DEF IInv, Base
  <2> QED
    BY <2>1, <2>2, <2>3
<1>3. CASE Sync
  BY <1>1, <1>3, BaseSync, RepairsStart, RepairsQueued DEF IInv, Base
<1>4. CASE Event
  BY <1>1, <1>4, BaseEvent, RepairsStart, RepairsQueued DEF IInv, Base
<1>5. ASSUME NEW w \in Workers, Reap(w) PROVE IInv'
  BY <1>1, <1>5, BaseReap, RepairsStart, RepairsIdle DEF IInv, Base
<1>6. ASSUME NEW w \in Workers, Work(w) PROVE IInv'
  BY <1>1, <1>6, WorkIInv DEF IInv, Base
<1>7. CASE UNCHANGED vars
  <2>1. /\ UNCHANGED <<source, target, events, queue, mem, changes, syncs, moved, tainted>>
        /\ Ahead' = Ahead /\ Pending' = Pending
    BY <1>7 DEF vars, Ahead, Pending
  <2>2. Repairs'
    BY <1>1, <2>1, RepairsQueued
  <2>3. Types' /\ PendingAgrees' /\ QueueWaits' /\ Minds'
    BY <1>1, <2>1 DEF Base, Types, TypeOK, PendingAgrees, Agrees, QueueWaits, Active, Minds,
                       Shape, Knows
  <2> QED
    BY <2>2, <2>3 DEF IInv
<1> QED
  BY <1>2, <1>3, <1>4, <1>5, <1>6, <1>7 DEF Next, Manager

(***************************************************************************)
(* The invariant holds in every behaviour of the manager, the workers and  *)
(* the users of the source.                                                *)
(***************************************************************************)
THEOREM Inductive == Spec => []IInv
<1>1. Init => IInv
  BY InitIInv
<1>2. IInv /\ [Next]_vars => IInv'
  BY NextIInv
<1> QED
  BY <1>1, <1>2, PTL DEF Spec

(***************************************************************************)
(* Offsets stay within the longest file, and no copy makes a longer one.   *)
(***************************************************************************)
THEOREM TypeCorrect == Spec => []TypeOK
<1>1. IInv => TypeOK
  BY DEF IInv, Types
<1> QED
  BY <1>1, Inductive, PTL

-----------------------------------------------------------------------------
(***************************************************************************)
(* What the invariant says of a file that nothing is ahead for and that no *)
(* worker will make anew, write or unlink: it is what it should be.        *)
(***************************************************************************)
LEMMA Mended ==
  ASSUME IInv, NEW f \in Files \ (moved \union tainted),
         \A op \in Operations \ {"FULL"} : Task(op, f) \notin Ahead,
         \A v \in Workers : /\ ~Renews(mem[v], f) /\ ~Unlinks(mem[v], f)
                            /\ \A i : ~Covers(mem[v], f, i)
  PROVE  target[f] = source[f]
<1>1. /\ Mends(f)
      /\ source[f] \in Contents \union {Absent} /\ target[f] \in Contents \union {Absent}
  BY DEF IInv, Repairs, Types, TypeOK
<1>2. ~Resets(f) /\ Task("MODIFIED", f) \notin Ahead
  BY DEF Resets, Operations
<1>3. CASE source[f] = Absent
  BY <1>1, <1>2, <1>3 DEF Mends
<1>4. CASE source[f] # Absent
  <2>1. Fits(f) /\ Exact(f)
    BY <1>1, <1>2, <1>4 DEF Mends, Renewed
  <2>2. \A i \in 1..Len(source[f]) : i <= Len(target[f]) /\ target[f][i] = source[f][i]
    BY <2>1 DEF Exact
  <2>3. source[f] \in Contents /\ target[f] \in Contents /\ Len(target[f]) <= Len(source[f])
    BY <1>1, <1>4, <2>1 DEF Fits
  <2>4. PICK s \in Seq(Blocks), t \in Seq(Blocks) : s = source[f] /\ t = target[f]
    BY <2>3, ContentsAreSequences
  <2>5. Len(s) = Len(t)
    BY <2>2, <2>3, <2>4
  <2>6. s = t
    BY <2>2, <2>4, <2>5
  <2> QED
    BY <2>4, <2>6
<1> QED
  BY <1>3, <1>4

(***************************************************************************)
(* When everything is quiet the target holds what the source holds, in     *)
(* every file that is neither renamed nor tainted: whatever its users      *)
(* created, removed or wrote while workers copied it, and however the      *)
(* events, the queue and the workers were interleaved.                     *)
(***************************************************************************)
THEOREM Convergence == Spec => []Converged
<1>1. ASSUME IInv PROVE Converged
  <2> SUFFICES ASSUME Quiet, NEW f \in Files \ (moved \union tainted) PROVE target[f] = source[f]
    BY DEF Converged
  <2>1. Ahead = {}
    BY DEF Quiet, Ahead, Pending, Range
  <2>2. ASSUME NEW v \in Workers
        PROVE  /\ ~Renews(mem[v], f) /\ ~Unlinks(mem[v], f)
               /\ \A i : ~Covers(mem[v], f, i)
    <3>1. mem[v].pc = "idle" /\ mem[v] \in Memory /\ Shape(mem[v])
      BY <1>1 DEF Quiet, Active, IInv, Types, TypeOK, Minds
    <3> QED
      BY <3>1, DoersReach DEF Reach
  <2> QED
    BY <1>1, <2>1, <2>2, Mended
<1>2. IInv => Converged
  BY <1>1
<1> QED
  BY <1>2, Inductive, PTL

\* The steps with which a worker ends.
LEMMA Ends ==
  ASSUME IInv, [Next]_vars, NEW w \in Workers, mem'[w].pc = "done", mem[w].pc # "done"
  PROVE  /\ mem[w].pc \in {"unlink", "next"} /\ mem[w].left = {}
         /\ mem[w].pc = "unlink" => mem[w].op = "DELETED"
<1>1. Base /\ Types /\ \A v \in Workers : Shape(mem[v])
  BY DEF IInv, Base, Minds
<1>2. CASE Users
  <2>1. PICK f \in Files, contents \in Contents \union {Absent}, op \in Operations \ {"FULL"} :
           Change(f, contents, op)
    BY <1>1, <1>2, UsersChange DEF Notices, Noticed, Renamed
  <2>2. mem'[w].pc = mem[w].pc
    BY <1>1, <2>1, ChangeFields
  <2> QED
    BY <2>2
<1>3. ASSUME NEW v \in Workers, NEW task \in Tasks, Starts(v, task) PROVE FALSE
  <2>1. Alone(v) /\ mem'[v] = Begun(task)
    BY <1>1, <1>3, MindsAfterStart
  <2>2. Begun(task).pc # "done"
    <3>1. task.op \in {"FULL", "ADDED", "MODIFIED", "DELETED"}
      BY DEF Tasks, FullSync, Task, Operations
    <3> QED
      BY <3>1, BegunFields
  <2> QED
    BY <2>1, <2>2 DEF Alone
<1>4. CASE Sync
  BY <1>1, <1>3, <1>4, BaseSync
<1>5. CASE Event
  BY <1>1, <1>3, <1>5, BaseEvent
<1>6. ASSUME NEW v \in Workers, Reap(v) PROVE FALSE
  BY <1>1, <1>3, <1>6, BaseReap, IdleFields DEF Alone
<1>7. ASSUME NEW v \in Workers, Work(v)
      PROVE  /\ mem[w].pc \in {"unlink", "next"} /\ mem[w].left = {}
             /\ mem[w].pc = "unlink" => mem[w].op = "DELETED"
  <2>1. CASE ScanTarget(v)
    BY <1>1, <2>1, ScanTargetFields DEF Alone
  <2>2. CASE Unlink(v)
    BY <1>1, <2>2, UnlinkFields
  <2>3. CASE Unlinked(v)
    BY <1>1, <2>3, UnlinkedFields DEF Alone
  <2>4. CASE AddOrModify(v)
    BY <1>1, <2>4, AddOrModifyFields DEF Alone
  <2>5. ASSUME NEW ok \in BOOLEAN, Return(v, ok) PROVE FALSE
    BY <1>1, <2>5, ReturnFields DEF Alone
  <2>6. CASE OpenSource(v)
    BY <1>1, <2>5, <2>6, OpenSourceFields DEF Alone
  <2>7. CASE OpenTarget(v)
    BY <1>1, <2>5, <2>7, OpenTargetFields DEF Alone
  <2>8. CASE Read(v)
    BY <1>1, <2>5, <2>8, ReadFields DEF Alone
  <2>9. CASE WriteBlock(v)
    BY <1>1, <2>9, WriteBlockFields DEF Alone
  <2>10. CASE Finish(v)
    BY <1>1, <2>10, FinishFields DEF Alone
  <2>11. ASSUME SameButLeft(v) PROVE FALSE
    BY <1>1, <2>11 DEF SameButLeft, Alone
  <2>12. CASE ReadTarget(v) \/ PassGone(v) \/ ReadFresh(v)
    BY <1>1, <2>11, <2>12, ReadTargetFields, PassGoneFields, ReadFreshFields
  <2> QED
    BY <1>7, <2>1, <2>2, <2>3, <2>4, <2>6, <2>7, <2>8, <2>9, <2>10, <2>12 DEF Work
<1>8. ~UNCHANGED vars
  BY DEF vars
<1> QED
  BY <1>2, <1>4, <1>5, <1>6, <1>7, <1>8 DEF Next, Manager

(***************************************************************************)
(* At the end of a worker every file that rests is in sync: no task about  *)
(* it is to come, no other worker is at it, it is neither renamed nor      *)
(* tainted.                                                                *)
(***************************************************************************)
Rests(w, f) ==
    /\ f \notin Awaited
    /\ \A v \in Workers \ {w} : f \notin Reach(mem[v])

Ending(w) == mem'[w].pc = "done" /\ mem[w].pc # "done"

LEMMA RestingInSync ==
  ASSUME IInv, [Next]_vars, NEW w \in Workers, Ending(w),
         NEW f \in Files \ (moved \union tainted), Rests(w, f)
  PROVE  /\ target[f] = source[f]
         /\ mem[w].op = "DELETED" /\ mem[w].name = f => target[f] = Absent
<1>1. /\ mem[w].pc \in {"unlink", "next"} /\ mem[w].left = {}
      /\ mem[w].pc = "unlink" => mem[w].op = "DELETED"
  BY Ends DEF Ending
<1>2. ASSUME NEW op PROVE Task(op, f) \notin Ahead
  BY NoneAwaited DEF IInv, Rests
<1>3. ASSUME NEW v \in Workers
      PROVE  /\ ~Renews(mem[v], f) /\ ~Unlinks(mem[v], f)
             /\ \A i : ~Covers(mem[v], f, i)
  <2>1. CASE v = w
    BY <1>1, <2>1 DEF Renews, Unlinks, Covers, Copies
  <2>2. CASE v # w
    BY <2>2, DoersReach DEF IInv, Minds, Types, TypeOK, Rests
  <2> QED
    BY <2>1, <2>2
<1>4. target[f] = source[f]
  BY <1>2, <1>3, Mended
<1>5. ASSUME mem[w].op = "DELETED", mem[w].name = f PROVE source[f] = Absent
  <2>1. w \in At(f) /\ Company(f)
    BY <1>1, <1>5 DEF At, Reach, IInv, Repairs
  <2> QED
    BY <1>2, <1>5, <2>1 DEF Company
<1> QED
  BY <1>4, <1>5

\* ReportIsTrue without ok and stale: whether or not the worker reports errors,
\* and also for files that were created, removed or written since it began.
RestIsInSync ==
    [][\A w \in Workers : \A f \in Files \ (moved \union tainted) :
          Ending(w) /\ Rests(w, f) => target[f] = source[f]]_vars

(***************************************************************************)
(* When a worker ends, with or without errors, the target has what the     *)
(* source has of every file that rests, be it the worker's own or another. *)
(* A call of copy_file or unlink that finds no file fails because of a     *)
(* change; if that was a creation, a deletion or a write, an event about   *)
(* it is still to come or other workers are at the file, and if it was a   *)
(* renaming, which makes no event, the file does not rest.                 *)
(***************************************************************************)
THEOREM EndsInSync == Spec => RestIsInSync
<1>1. IInv /\ [Next]_vars =>
        [\A w \in Workers : \A f \in Files \ (moved \union tainted) :
           Ending(w) /\ Rests(w, f) => target[f] = source[f]]_vars
  BY RestingInSync
<1> QED
  BY <1>1, Inductive, PTL DEF Spec, RestIsInSync

(***************************************************************************)
(* What a worker reports to have done is so, for every file that rests.    *)
(***************************************************************************)
THEOREM ReportsTrue == Spec => ReportIsTrue
<1>1. ASSUME IInv, [Next]_vars, NEW w \in Workers,
             mem'[w].pc = "done", mem[w].pc # "done",
             NEW f \in Files \ (moved \union tainted),
             f \notin Awaited,
             \A v \in Workers \ {w} : f \notin Reach(mem[v])
      PROVE  /\ target[f] = source[f]
             /\ mem[w].op = "DELETED" /\ mem[w].name = f => target[f] = Absent
  <2>1. Ending(w) /\ Rests(w, f)
    BY <1>1 DEF Ending, Rests
  <2> QED
    BY <1>1, <2>1, RestingInSync
<1>2. ASSUME IInv, [Next]_vars, NEW w \in Workers
      PROVE  LET m == mem[w]
                 resting == {f \in Files \ (m.stale \union moved \union tainted \union Awaited) :
                               \A v \in Workers \ {w} : f \notin Reach(mem[v])}
             IN  mem'[w].pc = "done" /\ m.pc # "done" =>
                 /\ m.ok /\ m.op = "DELETED" /\ m.name \in resting => target[m.name] = Absent
                 /\ m.ok /\ m.op \in {"ADDED", "MODIFIED"} /\ m.name \in resting
                    => target[m.name] = source[m.name]
                 /\ m.op = "FULL" => \A f \in resting : target[f] = source[f]
  BY <1>1, <1>2
<1>3. IInv /\ [Next]_vars =>
        [\A w \in Workers :
          LET m == mem[w]
              resting == {f \in Files \ (m.stale \union moved \union tainted \union Awaited) :
                            \A v \in Workers \ {w} : f \notin Reach(mem[v])}
          IN  mem'[w].pc = "done" /\ m.pc # "done" =>
              /\ m.ok /\ m.op = "DELETED" /\ m.name \in resting => target[m.name] = Absent
              /\ m.ok /\ m.op \in {"ADDED", "MODIFIED"} /\ m.name \in resting
                 => target[m.name] = source[m.name]
              /\ m.op = "FULL" => \A f \in resting : target[f] = source[f]]_vars
  BY <1>2
<1> QED
  BY <1>3, Inductive, PTL DEF Spec, ReportIsTrue

=============================================================================
