--------------------------- MODULE RegistryProofs ---------------------------
(***************************************************************************)
(* The safety of Registry for any directories, config file, commands and   *)
(* workers, and any number of events, watches and crashes.                 *)
(***************************************************************************)
EXTENDS Registry, CommonLemmas, FiniteSetTheorems, TLAPS

(***************************************************************************)
(* The inductive invariant.  That a descriptor leads to one pair only      *)
(* rests on the kernel never giving one out again: all that are kept, in   *)
(* the list, of a watch or in an event, are older than the next one, and   *)
(* those in the list differ, also the stale ones of cancelled pairs.       *)
(***************************************************************************)
KeptIsOld == \A i \in DOMAIN store : store[i].wd = -1 \/ store[i].wd \in 1..(nextWd - 1)

OneDescriptorEach == \A i, j \in DOMAIN store :
                        store[i].wd = store[j].wd /\ store[i].wd # -1 => i = j

WatchHasPair == \A d \in Dirs : watch[d] # -1 =>
                   \E i \in DOMAIN store : /\ store[i].src = d
                                           /\ store[i].active
                                           /\ store[i].wd = watch[d]

Pending == Range(batch) \union Range(events)

EventIsOfPair == \A e \in Pending :
                    /\ e.wd < nextWd
                    /\ \A i \in DOMAIN store : store[i].wd = e.wd => store[i].src = e.dir

IgnoredIsGone == \A e \in Pending : e.op = "IGNORED" => \A d \in Dirs : watch[d] # e.wd

ListInv == /\ NoDirTwice
           /\ KeptIsOld
           /\ OneDescriptorEach
           /\ WatchHasPair
           /\ EventIsOfPair
           /\ IgnoredIsGone
           /\ ActiveIsWatched

\* The manager itself.
NothingRead  == pc # "events" => batch = << >>
ConfigFits   == pc = "config" => nextWd + Len(lines) <= MaxWatch + 1

\* Commands wait only while every permitted worker runs.
WaitingIsFull == crashes = 0 /\ waiting # << >> => Cardinality(Busy) >= WorkerLimit

ManagerInv == NothingRead /\ ConfigFits

TasksInv == SourceOnList /\ WaitingIsFull

IInv == TypeOK /\ ListInv /\ ManagerInv /\ TasksInv

\* The parts of TypeOK that belong to the list and to the tasks.
ListTypes == /\ store \in Seq(Pairs)
             /\ exists \subseteq Dirs
             /\ watch \in [Dirs -> -1..MaxWatch]
             /\ nextWd \in 1..(MaxWatch + 1)
             /\ batch \in Seq(EventSet) /\ events \in Seq(EventSet)

ControlTypes == /\ pc \in {"config", "select", "console", "events", "crashed"}
                /\ lines \in Seq(Dirs \X Dirs)
                /\ command \in Commands \union {None}
                /\ crashes \in 0..MaxCrashes

TaskTypes == /\ running \in [Slots -> TaskSet \union {NoTask}]
             /\ waiting \in Seq(TaskSet)

-----------------------------------------------------------------------------
\* What the searches find.

LEMMA LeastOf ==
  ASSUME NEW S \in SUBSET Nat, S # {}
  PROVE  Min(S) \in S
BY Least DEF Min

\* SelectInSeq, for the set of all the matches.
LEMMA FirstMatch ==
  ASSUME NEW n \in Nat, NEW I \in SUBSET (1..n)
  PROVE  LET first == IF I # {} THEN Min(I) ELSE 0
         IN  \/ first = 0 /\ I = {}
             \/ first # 0 /\ first \in I
<1>1. I \in SUBSET Nat /\ 0 \notin I
  OBVIOUS
<1>2. I # {} => Min(I) \in I
  BY <1>1, LeastOf
<1>3. CASE I = {}
  BY <1>3
<1>4. CASE I # {}
  BY <1>1, <1>2, <1>4
<1> QED
  BY <1>3, <1>4

LEMMA SearchSource ==
  ASSUME store \in Seq(Pairs), NEW d
  PROVE  \/ /\ list_search(d) = 0
            /\ \A j \in DOMAIN store : store[j].src # d
         \/ /\ list_search(d) # 0
            /\ list_search(d) \in DOMAIN store
            /\ store[list_search(d)].src = d
<1> DEFINE I == {j \in 1..Len(store) : store[j].src = d}
<1>1. list_search(d) = IF I # {} THEN Min(I) ELSE 0
  BY Zenon DEF list_search, SelectInSeq
<1>2. /\ Len(store) \in Nat /\ DOMAIN store = 1..Len(store)
      /\ I \in SUBSET (1..Len(store))
  OBVIOUS
<1>3. \/ list_search(d) = 0 /\ I = {}
      \/ list_search(d) # 0 /\ list_search(d) \in I
  <2> HIDE DEF I
  <2> QED
    BY <1>1, <1>2, FirstMatch
<1> QED
  BY <1>2, <1>3

LEMMA SearchTarget ==
  ASSUME store \in Seq(Pairs), NEW d
  PROVE  list_search_trgt(d) = 0 => \A j \in DOMAIN store : store[j].trgt # d
<1> DEFINE I == {j \in 1..Len(store) : store[j].trgt = d}
<1>1. list_search_trgt(d) = IF I # {} THEN Min(I) ELSE 0
  BY Zenon DEF list_search_trgt, SelectInSeq
<1>2. /\ Len(store) \in Nat /\ DOMAIN store = 1..Len(store)
      /\ I \in SUBSET (1..Len(store))
  OBVIOUS
<1>3. \/ list_search_trgt(d) = 0 /\ I = {}
      \/ list_search_trgt(d) # 0 /\ list_search_trgt(d) \in I
  <2> HIDE DEF I
  <2> QED
    BY <1>1, <1>2, FirstMatch
<1> QED
  BY <1>2, <1>3

LEMMA SearchDescriptor ==
  ASSUME store \in Seq(Pairs), NEW wd
  PROVE  \/ /\ list_search_wd(wd) = 0
            /\ \A j \in DOMAIN store : store[j].wd # wd
         \/ /\ list_search_wd(wd) # 0
            /\ list_search_wd(wd) \in DOMAIN store
            /\ store[list_search_wd(wd)].wd = wd
<1> DEFINE I == {j \in 1..Len(store) : store[j].wd = wd}
<1>1. list_search_wd(wd) = IF I # {} THEN Min(I) ELSE 0
  BY Zenon DEF list_search_wd, SelectInSeq
<1>2. /\ Len(store) \in Nat /\ DOMAIN store = 1..Len(store)
      /\ I \in SUBSET (1..Len(store))
  OBVIOUS
<1>3. \/ list_search_wd(wd) = 0 /\ I = {}
      \/ list_search_wd(wd) # 0 /\ list_search_wd(wd) \in I
  <2> HIDE DEF I
  <2> QED
    BY <1>1, <1>2, FirstMatch
<1> QED
  BY <1>2, <1>3

\* A directory that is not taken plays no part in any pair.
LEMMA NotTaken ==
  ASSUME store \in Seq(Pairs), NEW src, NEW trgt, ~Taken(src, trgt)
  PROVE  \A j \in DOMAIN store :
            {store[j].src, store[j].trgt} \intersect {src, trgt} = {}
BY SearchSource, SearchTarget DEF Taken

-----------------------------------------------------------------------------
\* What becomes of the list.

LEMMA FunctionIsSeq ==
  ASSUME NEW S, NEW n \in Nat, NEW f \in [1..n -> S] PROVE f \in Seq(S)
OBVIOUS

\* A new pair is put in front of the others.
LEMMA PairAdded ==
  ASSUME store \in Seq(Pairs), NEW pair \in Pairs, store' = Cons(pair, store)
  PROVE  /\ store' \in Seq(Pairs)
         /\ 1 \in DOMAIN store' /\ store'[1] = pair
         /\ \A j \in DOMAIN store : j + 1 \in DOMAIN store' /\ store'[j + 1] = store[j]
         /\ \A j \in DOMAIN store' :
               j = 1 \/ (j - 1 \in DOMAIN store /\ store'[j] = store[j - 1])
BY DEF Cons

\* The pair at i is added again.
LEMMA PairChanged ==
  ASSUME store \in Seq(Pairs), NEW i \in DOMAIN store, NEW wd \in -1..MaxWatch,
         store' = [store EXCEPT ![i] = Reactivated(store[i], wd)]
  PROVE  /\ store' \in Seq(Pairs) /\ DOMAIN store' = DOMAIN store
         /\ \A j \in DOMAIN store : j # i => store'[j] = store[j]
         /\ store'[i].src = store[i].src /\ store'[i].trgt = store[i].trgt
         /\ store'[i].active /\ store'[i].wd = wd
<1> DEFINE pair == Reactivated(store[i], wd)
<1>1. store[i] \in Pairs
  OBVIOUS
<1>2. /\ pair \in Pairs /\ pair.src = store[i].src /\ pair.trgt = store[i].trgt
      /\ pair.active /\ pair.wd = wd
  BY <1>1 DEF Pairs, Reactivated
<1>3. store' = [store EXCEPT ![i] = pair]
  OBVIOUS
<1> HIDE DEF pair
<1>4. store' \in Seq(Pairs) /\ DOMAIN store' = DOMAIN store
  <2>1. /\ Len(store) \in Nat
        /\ store \in [1..Len(store) -> Pairs]
    OBVIOUS
  <2>2. store' \in [1..Len(store) -> Pairs]
    BY <1>2, <1>3, <2>1
  <2>3. store' \in Seq(Pairs)
    BY <2>1, <2>2, FunctionIsSeq
  <2> QED
    BY <2>1, <2>2, <2>3
<1>5. store'[i] = pair /\ \A j \in DOMAIN store : j # i => store'[j] = store[j]
  BY <1>3
<1> QED
  BY <1>2, <1>4, <1>5

LEMMA PairCancelled ==
  ASSUME store \in Seq(Pairs), NEW i \in DOMAIN store,
         store' = [store EXCEPT ![i].active = FALSE]
  PROVE  /\ store' \in Seq(Pairs) /\ DOMAIN store' = DOMAIN store
         /\ \A j \in DOMAIN store : j # i => store'[j] = store[j]
         /\ ~store'[i].active
         /\ \A j \in DOMAIN store : /\ store'[j].src = store[j].src
                                    /\ store'[j].trgt = store[j].trgt
                                    /\ store'[j].wd = store[j].wd
                                    /\ store'[j].active => store[j].active
<1>1. store[i] \in Pairs
  OBVIOUS
<1> DEFINE pair == [store[i] EXCEPT !.active = FALSE]
<1>2. /\ pair \in Pairs /\ pair.src = store[i].src /\ pair.trgt = store[i].trgt
      /\ pair.wd = store[i].wd /\ ~pair.active
  BY <1>1 DEF Pairs
<1>3. store' = [store EXCEPT ![i] = pair]
  OBVIOUS
<1> HIDE DEF pair
<1>4. store' \in Seq(Pairs) /\ DOMAIN store' = DOMAIN store
  <2>1. /\ Len(store) \in Nat
        /\ store \in [1..Len(store) -> Pairs]
    OBVIOUS
  <2>2. store' \in [1..Len(store) -> Pairs]
    BY <1>2, <1>3, <2>1
  <2>3. store' \in Seq(Pairs)
    BY <2>1, <2>2, FunctionIsSeq
  <2> QED
    BY <2>1, <2>2, <2>3
<1>5. store'[i] = pair /\ \A j \in DOMAIN store : j # i => store'[j] = store[j]
  BY <1>3
<1> QED
  BY <1>2, <1>4, <1>5

-----------------------------------------------------------------------------
\* The list and the kernel: what each kind of step keeps.

\* A watch is that of one directory, and older than the next one.
LEMMA WatchesDiffer ==
  ASSUME ListTypes, ListInv
  PROVE  /\ \A d \in Dirs : watch[d] # -1 => watch[d] \in 1..(nextWd - 1)
         /\ \A c, d \in Dirs : watch[c] = watch[d] /\ watch[c] # -1 => c = d
<1>1. ASSUME NEW d \in Dirs, watch[d] # -1
      PROVE  watch[d] \in 1..(nextWd - 1)
  <2>1. PICK i \in DOMAIN store : store[i].wd = watch[d]
    BY <1>1 DEF ListInv, WatchHasPair
  <2> QED
    BY <1>1, <2>1 DEF ListInv, KeptIsOld
<1>2. ASSUME NEW c \in Dirs, NEW d \in Dirs, watch[c] = watch[d], watch[c] # -1
      PROVE  c = d
  <2>1. PICK i \in DOMAIN store : store[i].src = c /\ store[i].wd = watch[c]
    BY <1>2 DEF ListInv, WatchHasPair
  <2>2. PICK j \in DOMAIN store : store[j].src = d /\ store[j].wd = watch[d]
    BY <1>2 DEF ListInv, WatchHasPair
  <2>3. i = j
    BY <1>2, <2>1, <2>2 DEF ListInv, OneDescriptorEach
  <2> QED
    BY <2>1, <2>2, <2>3
<1> QED
  BY <1>1, <1>2

\* A directory that is no active source gets a new descriptor or none.
LEMMA Watching ==
  ASSUME ListTypes, ListInv, NEW src \in Dirs, NEW wd, AddWatch(src, wd),
         \A j \in DOMAIN store : store[j].src = src => ~store[j].active
  PROVE  /\ watch[src] = -1
         /\ \/ wd = -1 /\ UNCHANGED <<nextWd, watch>>
            \/ /\ wd = nextWd
               /\ nextWd' = nextWd + 1 /\ watch' = [watch EXCEPT ![src] = nextWd]
<1>1. watch[src] = -1
  BY DEF ListInv, WatchHasPair
<1>2. nextWd # -1
  BY RegistryAssumption DEF ListTypes
<1> QED
  BY <1>1, <1>2 DEF AddWatch, Descriptors

LEMMA QuietKeeps ==
  ASSUME ListInv, UNCHANGED <<store, watch, nextWd>>, Pending' \subseteq Pending
  PROVE  ListInv'
BY DEF ListInv, NoDirTwice, KeptIsOld, OneDescriptorEach, WatchHasPair,
       EventIsOfPair, IgnoredIsGone, ActiveIsWatched

LEMMA Older ==
  ASSUME NEW m \in Nat, NEW n \in Nat, m <= n
  PROVE  \A x \in 1..(m - 1) : x \in 1..(n - 1)
OBVIOUS

\* A pair of two directories that are not taken.
LEMMA NewPairKeeps ==
  ASSUME ListTypes, ListInv,
         NEW src \in Dirs, NEW trgt \in Dirs, ~Taken(src, trgt),
         NEW wd, nextWd <= MaxWatch, AddWatch(src, wd),
         store' = Cons(NewPair(src, trgt, wd), store),
         UNCHANGED <<exists, batch, events>>
  PROVE  ListTypes' /\ ListInv' /\ nextWd' <= nextWd + 1
<1>1. \A j \in DOMAIN store :
         {store[j].src, store[j].trgt} \intersect {src, trgt} = {}
  BY NotTaken DEF ListTypes
<1>2. /\ watch[src] = -1
      /\ \/ wd = -1 /\ UNCHANGED <<nextWd, watch>>
         \/ /\ wd = nextWd
            /\ nextWd' = nextWd + 1 /\ watch' = [watch EXCEPT ![src] = nextWd]
  BY <1>1, Watching
<1>3. /\ nextWd \in Nat \ {0} /\ nextWd' \in 1..(MaxWatch + 1) /\ MaxWatch \in Nat
      /\ nextWd <= nextWd' /\ nextWd' <= nextWd + 1
      /\ wd \in -1..MaxWatch
      /\ watch' \in [Dirs -> -1..MaxWatch]
  BY <1>2, RegistryAssumption DEF ListTypes
<1>4. NewPair(src, trgt, wd) = [src |-> src, trgt |-> trgt, active |-> TRUE, wd |-> wd]
  BY DEF NewPair
<1>5. /\ NewPair(src, trgt, wd) \in Pairs
      /\ NewPair(src, trgt, wd).src = src /\ NewPair(src, trgt, wd).trgt = trgt
      /\ NewPair(src, trgt, wd).active /\ NewPair(src, trgt, wd).wd = wd
  BY <1>3, <1>4 DEF Pairs
<1>6. /\ store' \in Seq(Pairs)
      /\ 1 \in DOMAIN store' /\ store'[1] = NewPair(src, trgt, wd)
      /\ \A j \in DOMAIN store : j + 1 \in DOMAIN store' /\ store'[j + 1] = store[j]
      /\ \A j \in DOMAIN store' :
            j = 1 \/ (j - 1 \in DOMAIN store /\ store'[j] = store[j - 1])
      /\ DOMAIN store' \subseteq Nat
  BY <1>5, PairAdded DEF ListTypes
<1>7. ListTypes'
  BY <1>3, <1>6 DEF ListTypes
<1>8. \A i \in DOMAIN store : store[i].wd = -1 \/ (store[i].wd \in Nat /\ store[i].wd < nextWd)
  BY <1>3 DEF ListInv, KeptIsOld
<1>9. NoDirTwice'
  <2> SUFFICES ASSUME NEW i \in DOMAIN store', NEW j \in DOMAIN store', i # j
               PROVE  {store'[i].src, store'[i].trgt} \intersect
                      {store'[j].src, store'[j].trgt} = {}
    BY DEF NoDirTwice
  <2>1. CASE i # 1 /\ j # 1
    <3>1. /\ i - 1 \in DOMAIN store /\ j - 1 \in DOMAIN store /\ i - 1 # j - 1
          /\ store'[i] = store[i - 1] /\ store'[j] = store[j - 1]
      BY <1>6, <2>1
    <3> QED
      BY <3>1 DEF ListInv, NoDirTwice
  <2>2. CASE i = 1
    BY <1>1, <1>5, <1>6, <2>2
  <2>3. CASE j = 1
    BY <1>1, <1>5, <1>6, <2>3
  <2> QED
    BY <2>1, <2>2, <2>3
<1>10. KeptIsOld'
  <2> SUFFICES ASSUME NEW i \in DOMAIN store'
               PROVE  store'[i].wd = -1 \/ store'[i].wd \in 1..(nextWd' - 1)
    BY DEF KeptIsOld
  <2>1. CASE i = 1
    BY <1>2, <1>3, <1>5, <1>6, <2>1
  <2>2. CASE i # 1
    <3>1. store[i - 1].wd = -1 \/ store[i - 1].wd \in 1..(nextWd - 1)
      BY <1>6, <2>2 DEF ListInv, KeptIsOld
    <3>2. store'[i].wd = store[i - 1].wd
      BY <1>6, <2>2
    <3>3. nextWd \in Nat /\ nextWd' \in Nat /\ nextWd <= nextWd'
      BY <1>3
    <3>4. \A x \in 1..(nextWd - 1) : x \in 1..(nextWd' - 1)
      BY <3>3, Older
    <3> QED
      BY <3>1, <3>2, <3>4
  <2> QED
    BY <2>1, <2>2
<1>11. OneDescriptorEach'
  <2> SUFFICES ASSUME NEW i \in DOMAIN store', NEW j \in DOMAIN store',
                      store'[i].wd = store'[j].wd, store'[i].wd # -1
               PROVE  i = j
    BY DEF OneDescriptorEach
  <2>1. CASE i # 1 /\ j # 1
    <3>1. i - 1 \in DOMAIN store /\ j - 1 \in DOMAIN store
          /\ store'[i] = store[i - 1] /\ store'[j] = store[j - 1]
      BY <1>6, <2>1
    <3>2. i - 1 = j - 1
      BY <3>1 DEF ListInv, OneDescriptorEach
    <3> QED
      BY <1>6, <3>2
  <2>2. \A k \in DOMAIN store : wd # -1 => store[k].wd # wd
    BY <1>2, <1>3, <1>8
  <2>3. CASE i = 1
    BY <1>5, <1>6, <2>2, <2>3
  <2>4. CASE j = 1
    BY <1>5, <1>6, <2>2, <2>4
  <2> QED
    BY <2>1, <2>3, <2>4
<1>12. WatchHasPair'
  <2> SUFFICES ASSUME NEW d \in Dirs, watch'[d] # -1
               PROVE  \E i \in DOMAIN store' : /\ store'[i].src = d
                                               /\ store'[i].active
                                               /\ store'[i].wd = watch'[d]
    BY DEF WatchHasPair
  <2>1. CASE watch'[d] = watch[d]
    <3>1. PICK i \in DOMAIN store : store[i].src = d /\ store[i].active /\ store[i].wd = watch[d]
      BY <2>1 DEF ListInv, WatchHasPair
    <3> QED
      BY <1>6, <2>1, <3>1
  <2>2. CASE d = src /\ wd = nextWd /\ watch'[d] = nextWd
    BY <1>5, <1>6, <2>2
  <2> QED
    BY <1>2, <2>1, <2>2 DEF ListTypes
<1>13. EventIsOfPair'
  <2> SUFFICES ASSUME NEW e \in Pending
               PROVE  /\ e.wd < nextWd'
                      /\ \A i \in DOMAIN store' : store'[i].wd = e.wd => store'[i].src = e.dir
    BY DEF EventIsOfPair, Pending
  <2>1. e.wd < nextWd /\ e.wd \in 1..MaxWatch
    <3>1. e \in EventSet
      BY DEF Pending, ListTypes, Range
    <3> QED
      BY <3>1 DEF EventSet, ListInv, EventIsOfPair
  <2>2. e.wd # wd /\ e.wd < nextWd'
    BY <1>2, <1>3, <2>1
  <2>3. \A j \in DOMAIN store : store[j].wd = e.wd => store[j].src = e.dir
    BY DEF ListInv, EventIsOfPair
  <2>4. store'[1].wd # e.wd
    BY <1>5, <1>6, <2>2
  <2>5. ASSUME NEW i \in DOMAIN store', store'[i].wd = e.wd
        PROVE  store'[i].src = e.dir
    <3>1. i - 1 \in DOMAIN store /\ store'[i] = store[i - 1]
      BY <1>6, <2>4, <2>5
    <3> QED
      BY <2>3, <2>5, <3>1
  <2> QED
    BY <2>2, <2>5
<1>14. IgnoredIsGone'
  <2> SUFFICES ASSUME NEW e \in Pending, e.op = "IGNORED", NEW d \in Dirs, watch'[d] = e.wd
               PROVE  FALSE
    BY DEF IgnoredIsGone, Pending
  <2>1. watch[d] # e.wd /\ e.wd < nextWd
    BY DEF ListInv, IgnoredIsGone, EventIsOfPair
  <2> QED
    BY <1>2, <1>3, <2>1 DEF ListTypes
<1>15. ActiveIsWatched'
  <2> SUFFICES ASSUME NEW i \in DOMAIN store', store'[i].active, store'[i].wd # -1,
                      store'[i].src \notin Removable
               PROVE  watch'[store'[i].src] = store'[i].wd
    BY DEF ActiveIsWatched
  <2>1. CASE i = 1
    BY <1>2, <1>3, <1>5, <1>6, <2>1 DEF ListTypes
  <2>2. CASE i # 1
    <3>1. /\ i - 1 \in DOMAIN store /\ store'[i] = store[i - 1]
      BY <1>6, <2>2
    <3>2. watch[store[i - 1].src] = store[i - 1].wd /\ store[i - 1].src # src
      BY <1>1, <3>1 DEF ListInv, ActiveIsWatched
    <3>3. store[i - 1].src \in Dirs
      <4>1. store[i - 1] \in Pairs
        BY <3>1 DEF ListTypes
      <4> QED
        BY <4>1 DEF Pairs
    <3> QED
      BY <1>2, <3>1, <3>2, <3>3 DEF ListTypes
  <2> QED
    BY <2>1, <2>2
<1> QED
  BY <1>3, <1>7, <1>9, <1>10, <1>11, <1>12, <1>13, <1>14, <1>15 DEF ListInv

\* The pair at i, which was cancelled, is added again.
LEMMA AddedAgainKeeps ==
  ASSUME ListTypes, ListInv,
         NEW i \in DOMAIN store, ~store[i].active,
         NEW wd, nextWd <= MaxWatch, AddWatch(store[i].src, wd),
         store' = [store EXCEPT ![i] = Reactivated(store[i], wd)],
         UNCHANGED <<exists, batch, events>>
  PROVE  ListTypes' /\ ListInv'
<1> DEFINE src == store[i].src
<1>1. src \in Dirs
  <2>1. store[i] \in Pairs
    BY DEF ListTypes
  <2> QED
    BY <2>1 DEF Pairs
<1>2. \A j \in DOMAIN store : store[j].src = src => j = i
  BY DEF ListInv, NoDirTwice
<1>3. /\ watch[src] = -1
      /\ \/ wd = -1 /\ UNCHANGED <<nextWd, watch>>
         \/ /\ wd = nextWd
            /\ nextWd' = nextWd + 1 /\ watch' = [watch EXCEPT ![src] = nextWd]
  BY <1>1, <1>2, Watching
<1> HIDE DEF src
<1>4. /\ nextWd \in Nat \ {0} /\ nextWd' \in 1..(MaxWatch + 1) /\ MaxWatch \in Nat
      /\ nextWd <= nextWd'
      /\ wd \in -1..MaxWatch
      /\ watch' \in [Dirs -> -1..MaxWatch]
  <2>1. /\ nextWd \in 1..(MaxWatch + 1) /\ MaxWatch \in Nat
        /\ watch \in [Dirs -> -1..MaxWatch]
    BY RegistryAssumption DEF ListTypes
  <2> QED
    BY <1>1, <1>3, <2>1
<1> USE DEF src
<1>6. /\ store' \in Seq(Pairs) /\ DOMAIN store' = DOMAIN store
      /\ \A j \in DOMAIN store : j # i => store'[j] = store[j]
      /\ store'[i].src = src /\ store'[i].trgt = store[i].trgt
      /\ store'[i].active /\ store'[i].wd = wd
  BY <1>4, PairChanged DEF ListTypes
<1>7. \A j \in DOMAIN store : /\ store'[j].src = store[j].src
                              /\ store'[j].trgt = store[j].trgt
  BY <1>6
<1>8. ListTypes'
  BY <1>4, <1>6 DEF ListTypes
<1>9. \A j \in DOMAIN store : store[j].wd = -1 \/ store[j].wd \in 1..(nextWd - 1)
  BY DEF ListInv, KeptIsOld
<1>10. NoDirTwice'
  BY <1>6, <1>7 DEF ListInv, NoDirTwice
<1>11. KeptIsOld'
  <2>1. \A x \in 1..(nextWd - 1) : x \in 1..(nextWd' - 1)
    BY <1>4
  <2>2. wd = -1 \/ wd \in 1..(nextWd' - 1)
    BY <1>3, <1>4
  <2> QED
    BY <1>6, <1>9, <2>1, <2>2 DEF KeptIsOld
<1>12. OneDescriptorEach'
  <2>1. \A j \in DOMAIN store : wd # -1 => store[j].wd # wd
    BY <1>3, <1>4, <1>9
  <2> SUFFICES ASSUME NEW j \in DOMAIN store, NEW k \in DOMAIN store,
                      store'[j].wd = store'[k].wd, store'[j].wd # -1
               PROVE  j = k
    BY <1>6 DEF OneDescriptorEach
  <2>2. CASE j = i
    BY <1>6, <2>1, <2>2
  <2>3. CASE k = i
    BY <1>6, <2>1, <2>3
  <2>4. CASE j # i /\ k # i
    BY <1>6, <2>4 DEF ListInv, OneDescriptorEach
  <2> QED
    BY <2>2, <2>3, <2>4
<1>13. WatchHasPair'
  <2> SUFFICES ASSUME NEW d \in Dirs, watch'[d] # -1
               PROVE  \E j \in DOMAIN store' : /\ store'[j].src = d
                                               /\ store'[j].active
                                               /\ store'[j].wd = watch'[d]
    BY DEF WatchHasPair
  <2>1. CASE d = src
    <3>1. wd = nextWd /\ watch'[d] = nextWd
      BY <1>1, <1>3, <2>1 DEF ListTypes
    <3> QED
      BY <1>6, <2>1, <3>1
  <2>2. CASE d # src
    <3>1. watch'[d] = watch[d]
      BY <1>3, <2>2 DEF ListTypes
    <3>2. PICK j \in DOMAIN store : store[j].src = d /\ store[j].active /\ store[j].wd = watch[d]
      BY <3>1 DEF ListInv, WatchHasPair
    <3> QED
      BY <1>6, <2>2, <3>1, <3>2
  <2> QED
    BY <2>1, <2>2
<1>14. EventIsOfPair'
  <2> SUFFICES ASSUME NEW e \in Pending
               PROVE  /\ e.wd < nextWd'
                      /\ \A j \in DOMAIN store' : store'[j].wd = e.wd => store'[j].src = e.dir
    BY DEF EventIsOfPair, Pending
  <2>1. e.wd < nextWd /\ e.wd \in 1..MaxWatch
    <3>1. e \in EventSet
      BY DEF Pending, ListTypes, Range
    <3> QED
      BY <3>1 DEF EventSet, ListInv, EventIsOfPair
  <2>2. e.wd # wd /\ e.wd < nextWd'
    BY <1>3, <1>4, <2>1
  <2> QED
    BY <1>6, <2>2 DEF ListInv, EventIsOfPair
<1>15. IgnoredIsGone'
  <2> SUFFICES ASSUME NEW e \in Pending, e.op = "IGNORED", NEW d \in Dirs, watch'[d] = e.wd
               PROVE  FALSE
    BY DEF IgnoredIsGone, Pending
  <2>1. watch[d] # e.wd /\ e.wd < nextWd
    BY DEF ListInv, IgnoredIsGone, EventIsOfPair
  <2> QED
    BY <1>3, <1>4, <2>1 DEF ListTypes
<1>16. ActiveIsWatched'
  <2> SUFFICES ASSUME NEW j \in DOMAIN store, store'[j].active, store'[j].wd # -1,
                      store'[j].src \notin Removable
               PROVE  watch'[store'[j].src] = store'[j].wd
    BY <1>6 DEF ActiveIsWatched
  <2>1. CASE j = i
    BY <1>1, <1>3, <1>4, <1>6, <2>1 DEF ListTypes
  <2>2. CASE j # i
    <3>1. /\ store'[j] = store[j]
          /\ watch[store[j].src] = store[j].wd
          /\ store[j].src # src
      BY <1>2, <1>6, <2>2 DEF ListInv, ActiveIsWatched
    <3>2. store[j].src \in Dirs
      <4>1. store[j] \in Pairs
        BY DEF ListTypes
      <4> QED
        BY <4>1 DEF Pairs
    <3> QED
      BY <1>3, <3>1, <3>2 DEF ListTypes
  <2> QED
    BY <2>1, <2>2
<1> QED
  BY <1>8, <1>10, <1>11, <1>12, <1>13, <1>14, <1>15, <1>16 DEF ListInv

\* The watch with descriptor wd is removed, if there is one.
LEMMA Dropped ==
  ASSUME ListTypes, ListInv, NEW wd, DropWatch(wd)
  PROVE  \/ /\ \A d \in Dirs : watch[d] = wd => wd = -1
            /\ UNCHANGED <<watch, events>>
         \/ \E d \in Dirs :
               /\ watch[d] = wd /\ wd # -1
               /\ watch' = [watch EXCEPT ![d] = -1]
               /\ events' = Append(events, [wd |-> wd, dir |-> d, op |-> "IGNORED"])
<1>1. CASE wd \in Range(watch) \ {-1}
  <2> DEFINE d == CHOOSE x \in Dirs : watch[x] = wd
  <2>1. \E x \in Dirs : watch[x] = wd
    BY <1>1 DEF Range, ListTypes
  <2>2. d \in Dirs /\ watch[d] = wd
    BY <2>1
  <2> QED
    BY <1>1, <2>2 DEF DropWatch
<1>2. CASE wd \notin Range(watch) \ {-1}
  BY <1>2 DEF DropWatch, Range, ListTypes
<1> QED
  BY <1>1, <1>2

\* The watch of d goes, and nothing stays active at d that must be watched.
LEMMA DropKeeps ==
  ASSUME ListTypes, ListInv, NEW d \in Dirs, watch[d] # -1,
         watch' = [watch EXCEPT ![d] = -1],
         events' = Append(events, [wd |-> watch[d], dir |-> d, op |-> "IGNORED"]),
         UNCHANGED <<nextWd, batch>>, exists' \subseteq Dirs,
         store' \in Seq(Pairs), DOMAIN store' = DOMAIN store,
         \A j \in DOMAIN store :
            /\ store'[j].src = store[j].src /\ store'[j].trgt = store[j].trgt
            /\ store'[j].wd = store[j].wd
            /\ store'[j].active => store[j].active
            /\ store[j].src # d => store'[j] = store[j]
            /\ store[j].src = d => ~store'[j].active \/ d \in Removable
  PROVE  ListTypes' /\ ListInv'
<1> DEFINE gone == [wd |-> watch[d], dir |-> d, op |-> "IGNORED"]
<1>1. watch[d] \in 1..(nextWd - 1)
  BY WatchesDiffer
<1>2. /\ watch[d] \in 1..MaxWatch /\ watch[d] < nextWd /\ nextWd \in Nat
  BY <1>1, RegistryAssumption DEF ListTypes
<1>3. /\ gone \in EventSet
      /\ gone.wd = watch[d] /\ gone.dir = d /\ gone.op = "IGNORED"
  BY <1>2 DEF EventSet
<1> HIDE DEF gone
<1>4. events' = Append(events, gone)
  BY DEF gone
<1>5. events' \in Seq(EventSet) /\ Range(events') = Range(events) \union {gone}
  BY <1>3, <1>4, PutLast DEF ListTypes
<1>6. Pending' = Pending \union {gone}
  BY <1>5 DEF Pending
<1>7. /\ watch' \in [Dirs -> -1..MaxWatch] /\ watch'[d] = -1
      /\ \A x \in Dirs : x # d => watch'[x] = watch[x]
  BY RegistryAssumption DEF ListTypes
<1>8. ListTypes'
  BY <1>5, <1>7 DEF ListTypes
<1>9. NoDirTwice' /\ KeptIsOld' /\ OneDescriptorEach'
  BY DEF ListInv, NoDirTwice, KeptIsOld, OneDescriptorEach
<1>10. WatchHasPair'
  <2> SUFFICES ASSUME NEW x \in Dirs, watch'[x] # -1
               PROVE  \E j \in DOMAIN store' : /\ store'[j].src = x
                                               /\ store'[j].active
                                               /\ store'[j].wd = watch'[x]
    BY DEF WatchHasPair
  <2>1. x # d /\ watch'[x] = watch[x]
    BY <1>7
  <2>2. PICK j \in DOMAIN store : store[j].src = x /\ store[j].active /\ store[j].wd = watch[x]
    BY <2>1 DEF ListInv, WatchHasPair
  <2> QED
    BY <2>1, <2>2
<1>11. EventIsOfPair'
  <2>1. ASSUME NEW j \in DOMAIN store, store[j].wd = watch[d]
        PROVE  store[j].src = d
    <3>1. PICK k \in DOMAIN store : store[k].src = d /\ store[k].wd = watch[d]
      BY DEF ListInv, WatchHasPair
    <3>2. j = k
      BY <2>1, <3>1 DEF ListInv, OneDescriptorEach
    <3> QED
      BY <3>1, <3>2
  <2>2. ASSUME NEW e \in Pending \union {gone}
        PROVE  /\ e.wd < nextWd
               /\ \A j \in DOMAIN store : store[j].wd = e.wd => store[j].src = e.dir
    BY <1>2, <1>3, <2>1 DEF ListInv, EventIsOfPair
  <2> QED
    BY <1>6, <2>2 DEF EventIsOfPair
<1>12. IgnoredIsGone'
  <2> SUFFICES ASSUME NEW e \in Pending \union {gone}, e.op = "IGNORED", NEW x \in Dirs,
                      watch'[x] = e.wd
               PROVE  FALSE
    BY <1>6 DEF IgnoredIsGone
  <2>1. CASE e \in Pending
    <3>1. e \in EventSet
      BY <2>1 DEF Pending, ListTypes, Range
    <3>2. e.wd # -1 /\ watch[x] # e.wd
      BY <2>1, <3>1, RegistryAssumption DEF EventSet, ListInv, IgnoredIsGone
    <3> QED
      BY <1>7, <3>2
  <2>2. CASE e = gone
    BY <1>3, <1>7, <2>2, WatchesDiffer
  <2> QED
    BY <2>1, <2>2
<1>13. ActiveIsWatched'
  <2> SUFFICES ASSUME NEW j \in DOMAIN store, store'[j].active, store'[j].wd # -1,
                      store'[j].src \notin Removable
               PROVE  watch'[store'[j].src] = store'[j].wd
    BY DEF ActiveIsWatched
  <2>1. store[j].src # d /\ store'[j] = store[j]
    OBVIOUS
  <2>2. watch[store[j].src] = store[j].wd
    BY <2>1 DEF ListInv, ActiveIsWatched
  <2>3. store[j].src \in Dirs
    <3>1. store[j] \in Pairs
      BY DEF ListTypes
    <3> QED
      BY <3>1 DEF Pairs
  <2> QED
    BY <1>7, <2>1, <2>2, <2>3
<1> QED
  BY <1>8, <1>9, <1>10, <1>11, <1>12, <1>13 DEF ListInv

LEMMA CancelKeeps ==
  ASSUME ListTypes, ListInv, NEW i \in DOMAIN store,
         store' = [store EXCEPT ![i].active = FALSE], DropWatch(store[i].wd),
         UNCHANGED <<exists, nextWd, batch>>
  PROVE  ListTypes' /\ ListInv'
<1>1. /\ store' \in Seq(Pairs) /\ DOMAIN store' = DOMAIN store
      /\ \A j \in DOMAIN store : j # i => store'[j] = store[j]
      /\ ~store'[i].active
      /\ \A j \in DOMAIN store : /\ store'[j].src = store[j].src
                                 /\ store'[j].trgt = store[j].trgt
                                 /\ store'[j].wd = store[j].wd
                                 /\ store'[j].active => store[j].active
  BY PairCancelled DEF ListTypes
<1>2. CASE /\ \A d \in Dirs : watch[d] = store[i].wd => store[i].wd = -1
           /\ UNCHANGED <<watch, events>>
  <2>1. ListTypes'
    BY <1>1, <1>2 DEF ListTypes
  <2>2. NoDirTwice' /\ KeptIsOld' /\ OneDescriptorEach'
    BY <1>1 DEF ListInv, NoDirTwice, KeptIsOld, OneDescriptorEach
  <2>3. EventIsOfPair' /\ IgnoredIsGone'
    BY <1>1, <1>2 DEF ListInv, EventIsOfPair, IgnoredIsGone, Pending
  <2>4. ActiveIsWatched'
    BY <1>1, <1>2 DEF ListInv, ActiveIsWatched
  <2>5. WatchHasPair'
    <3> SUFFICES ASSUME NEW d \in Dirs, watch[d] # -1
                 PROVE  \E j \in DOMAIN store : /\ store'[j].src = d
                                                /\ store'[j].active
                                                /\ store'[j].wd = watch[d]
      BY <1>1, <1>2 DEF WatchHasPair
    <3>1. PICK j \in DOMAIN store : store[j].src = d /\ store[j].active /\ store[j].wd = watch[d]
      BY DEF ListInv, WatchHasPair
    <3>2. j # i
      BY <1>2, <3>1
    <3> QED
      BY <1>1, <3>1, <3>2
  <2> QED
    BY <2>1, <2>2, <2>3, <2>4, <2>5 DEF ListInv
<1>3. ASSUME NEW d \in Dirs, watch[d] = store[i].wd, store[i].wd # -1,
             watch' = [watch EXCEPT ![d] = -1],
             events' = Append(events, [wd |-> store[i].wd, dir |-> d, op |-> "IGNORED"])
      PROVE  ListTypes' /\ ListInv'
  <2>1. store[i].src = d
    <3>1. PICK k \in DOMAIN store : store[k].src = d /\ store[k].wd = watch[d]
      BY <1>3 DEF ListInv, WatchHasPair
    <3>2. i = k
      BY <1>3, <3>1 DEF ListInv, OneDescriptorEach
    <3> QED
      BY <3>1, <3>2
  <2>2. \A j \in DOMAIN store : store[j].src = d => j = i
    BY <2>1 DEF ListInv, NoDirTwice
  <2>3. events' = Append(events, [wd |-> watch[d], dir |-> d, op |-> "IGNORED"])
    BY <1>3
  <2>4. exists' \subseteq Dirs
    BY DEF ListTypes
  <2>5. \A j \in DOMAIN store :
            /\ store'[j].src = store[j].src /\ store'[j].trgt = store[j].trgt
            /\ store'[j].wd = store[j].wd
            /\ store'[j].active => store[j].active
            /\ store[j].src # d => store'[j] = store[j]
            /\ store[j].src = d => ~store'[j].active \/ d \in Removable
    BY <1>1, <2>1, <2>2
  <2> QED
    BY <1>1, <1>3, <2>3, <2>4, <2>5, DropKeeps
<1> QED
  BY <1>2, <1>3, Dropped

LEMMA RemoveDirKeeps ==
  ASSUME ListTypes, ListInv, NEW d \in Removable, RemoveDir(d)
  PROVE  ListTypes' /\ ListInv'
<1>1. /\ exists' = exists \ {d} /\ d \in Dirs
      /\ UNCHANGED <<store, nextWd, batch>>
      /\ DropWatch(watch[d])
  BY RegistryAssumption DEF RemoveDir
<1>2. exists' \subseteq Dirs
  BY <1>1 DEF ListTypes
<1>3. CASE UNCHANGED <<watch, events>>
  BY <1>1, <1>2, <1>3, QuietKeeps DEF ListTypes, Pending
<1>4. ASSUME NEW x \in Dirs, watch[x] = watch[d], watch[d] # -1,
             watch' = [watch EXCEPT ![x] = -1],
             events' = Append(events, [wd |-> watch[d], dir |-> x, op |-> "IGNORED"])
      PROVE  ListTypes' /\ ListInv'
  <2>1. x = d
    BY <1>1, <1>4, WatchesDiffer
  <2>2. store' = store /\ store' \in Seq(Pairs)
    BY <1>1 DEF ListTypes
  <2> QED
    BY <1>1, <1>2, <1>4, <2>1, <2>2, DropKeeps
<1> QED
  BY <1>1, <1>2, <1>3, <1>4, Dropped

LEMMA ChangeKeeps ==
  ASSUME ListTypes, ListInv, NEW d \in Dirs, NEW op \in EventOps, Change(d, op)
  PROVE  ListTypes' /\ ListInv'
<1> DEFINE e == [wd |-> watch[d], dir |-> d, op |-> op]
<1>1. /\ watch[d] # -1 /\ events' = Append(events, e)
      /\ UNCHANGED <<store, batch, exists, watch, nextWd>>
  BY DEF Change
<1>2. watch[d] \in 1..(nextWd - 1)
  BY <1>1, WatchesDiffer
<1>3. /\ watch[d] \in 1..MaxWatch /\ watch[d] < nextWd
  BY <1>2, RegistryAssumption DEF ListTypes
<1>4. e \in EventSet /\ e.wd = watch[d] /\ e.dir = d /\ e.op # "IGNORED"
  BY <1>3, RegistryAssumption DEF EventSet
<1> HIDE DEF e
<1>5. events' \in Seq(EventSet) /\ Range(events') = Range(events) \union {e}
  BY <1>1, <1>4, PutLast DEF ListTypes
<1>6. Pending' = Pending \union {e}
  BY <1>1, <1>5 DEF Pending
<1>7. ListTypes'
  BY <1>1, <1>5 DEF ListTypes
<1>8. /\ NoDirTwice' /\ KeptIsOld' /\ OneDescriptorEach' /\ WatchHasPair'
      /\ ActiveIsWatched'
  BY <1>1 DEF ListInv, NoDirTwice, KeptIsOld, OneDescriptorEach, WatchHasPair, ActiveIsWatched
<1>9. IgnoredIsGone'
  BY <1>1, <1>4, <1>6 DEF ListInv, IgnoredIsGone
<1>10. EventIsOfPair'
  <2>1. ASSUME NEW j \in DOMAIN store, store[j].wd = watch[d]
        PROVE  store[j].src = d
    <3>1. PICK k \in DOMAIN store : store[k].src = d /\ store[k].wd = watch[d]
      BY <1>1 DEF ListInv, WatchHasPair
    <3>2. j = k
      BY <1>1, <2>1, <3>1 DEF ListInv, OneDescriptorEach
    <3> QED
      BY <3>1, <3>2
  <2>2. ASSUME NEW f \in Pending \union {e}
        PROVE  /\ f.wd < nextWd
               /\ \A j \in DOMAIN store : store[j].wd = f.wd => store[j].src = f.dir
    BY <1>3, <1>4, <2>1 DEF ListInv, EventIsOfPair
  <2> QED
    BY <1>1, <1>6, <2>2 DEF EventIsOfPair
<1> QED
  BY <1>7, <1>8, <1>9, <1>10 DEF ListInv

-----------------------------------------------------------------------------
\* The tasks.

AskedFor == Range(waiting) \union {running[s] : s \in Busy}

LEMMA TypesApart == /\ TypeOK <=> ListTypes /\ ControlTypes /\ TaskTypes
                    /\ TypeOK' <=> ListTypes' /\ ControlTypes' /\ TaskTypes'
BY DEF TypeOK, ListTypes, ControlTypes, TaskTypes

\* enqueue_worker asks for nothing else, and starts a task only if none waits.
LEMMA Enqueued ==
  ASSUME TaskTypes, WaitingIsFull,
         NEW src \in Dirs, NEW trgt \in Dirs, NEW op \in EventOps \union {"FULL"},
         enqueue_worker(src, trgt, op), UNCHANGED crashes
  PROVE  /\ TaskTypes' /\ WaitingIsFull'
         /\ AskedFor' \subseteq AskedFor \union {Task(src, trgt, op)}
<1> DEFINE t == Task(src, trgt, op)
<1>1. t \in TaskSet /\ t # NoTask
  BY RegistryAssumption DEF Task, TaskSet
<1> HIDE DEF t
<1>2. ASSUME Cardinality(Busy) < WorkerLimit, NEW s \in Slots \ Busy,
             running' = [running EXCEPT ![s] = t], UNCHANGED waiting
      PROVE  TaskTypes' /\ WaitingIsFull' /\ AskedFor' \subseteq AskedFor \union {t}
  <2>1. TaskTypes'
    BY <1>1, <1>2 DEF TaskTypes
  <2>2. AskedFor' \subseteq AskedFor \union {t}
    BY <1>2 DEF TaskTypes, AskedFor, Busy
  <2>3. Cardinality(Busy) >= WorkerLimit => FALSE
    <3>1. IsFiniteSet(Busy)
      BY RegistryAssumption, FS_Subset DEF Busy
    <3>2. Cardinality(Busy) \in Nat /\ WorkerLimit \in Int
      BY <3>1, FS_CardinalityType, RegistryAssumption
    <3> QED
      BY <1>2, <3>2
  <2>4. WaitingIsFull'
    BY <1>2, <2>3 DEF WaitingIsFull
  <2> QED
    BY <2>1, <2>2, <2>4
<1>3. ASSUME Cardinality(Busy) >= WorkerLimit, waiting' = Append(waiting, t), UNCHANGED running
      PROVE  TaskTypes' /\ WaitingIsFull' /\ AskedFor' \subseteq AskedFor \union {t}
  <2>1. waiting' \in Seq(TaskSet) /\ Range(waiting') = Range(waiting) \union {t}
    BY <1>1, <1>3, PutLast DEF TaskTypes
  <2>2. Busy' = Busy
    BY <1>3 DEF Busy
  <2> QED
    BY <1>3, <2>1, <2>2 DEF TaskTypes, AskedFor, WaitingIsFull
<1>4. CASE UNCHANGED tasks
  BY <1>4 DEF tasks, TaskTypes, AskedFor, WaitingIsFull, Busy
<1> QED
  BY <1>2, <1>3, <1>4 DEF enqueue_worker, t

\* The list has every pair it had.
ListGrows == \A i \in DOMAIN store : \E j \in DOMAIN store' :
                store'[j].src = store[i].src /\ store'[j].trgt = store[i].trgt

LEMMA SourceKept ==
  ASSUME SourceOnList, ListGrows, UNCHANGED crashes,
         \A t \in AskedFor' \ AskedFor :
            \E j \in DOMAIN store' : store'[j].src = t.src /\ store'[j].trgt = t.trgt
  PROVE  SourceOnList'
<1>1. crashes = 0 => \A t \in AskedFor : \E i \in DOMAIN store :
                        store[i].src = t.src /\ store[i].trgt = t.trgt
  BY DEF SourceOnList, AskedFor
<1>2. crashes = 0 => \A t \in AskedFor' : \E i \in DOMAIN store' :
                        store'[i].src = t.src /\ store'[i].trgt = t.trgt
  BY <1>1 DEF ListGrows
<1> QED
  BY <1>2 DEF SourceOnList, AskedFor

LEMMA TasksKept ==
  ASSUME TasksInv, TaskTypes, ListGrows, UNCHANGED <<tasks, crashes>>
  PROVE  TasksInv' /\ TaskTypes'
<1>1. AskedFor' \subseteq AskedFor
  BY DEF tasks, AskedFor, Busy
<1>2. SourceOnList'
  BY <1>1, SourceKept DEF TasksInv
<1> QED
  BY <1>2 DEF TasksInv, TaskTypes, WaitingIsFull, tasks, Busy

\* A task for a pair of the list.
LEMMA PairEnqueued ==
  ASSUME TasksInv, TaskTypes, ListGrows, UNCHANGED crashes,
         store' \in Seq(Pairs), NEW k \in DOMAIN store',
         NEW op \in EventOps \union {"FULL"},
         enqueue_worker(store'[k].src, store'[k].trgt, op)
  PROVE  TasksInv' /\ TaskTypes'
<1> DEFINE t == Task(store'[k].src, store'[k].trgt, op)
<1>1. store'[k] \in Pairs
  OBVIOUS
<1>2. store'[k].src \in Dirs /\ store'[k].trgt \in Dirs
  BY <1>1 DEF Pairs
<1>3. /\ TaskTypes' /\ WaitingIsFull'
      /\ AskedFor' \subseteq AskedFor \union {t}
  BY <1>2, Enqueued DEF TasksInv
<1>4. t.src = store'[k].src /\ t.trgt = store'[k].trgt
  BY DEF Task
<1> HIDE DEF t
<1>5. \A x \in AskedFor' \ AskedFor : x = t
  BY <1>3
<1>6. SourceOnList'
  BY <1>4, <1>5, SourceKept DEF TasksInv
<1> QED
  BY <1>3, <1>6 DEF TasksInv

\* A finished task makes room for the oldest one that waits.
LEMMA ReapKeeps ==
  ASSUME TasksInv, TaskTypes, NEW s \in Slots, Reap(s)
  PROVE  TasksInv' /\ TaskTypes'
<1>1. ListGrows /\ UNCHANGED crashes
  BY DEF Reap, ListGrows
<1>2. CASE UNCHANGED tasks
  BY <1>1, <1>2, TasksKept
<1>3. CASE /\ running' = [running EXCEPT ![s] = NextTask]
           /\ waiting' = IF waiting = << >> THEN waiting ELSE Tail(waiting)
  <2>1. CASE waiting = << >>
    <3>1. running' = [running EXCEPT ![s] = NoTask] /\ waiting' = << >>
      BY <1>3, <2>1 DEF NextTask
    <3>2. AskedFor' \subseteq AskedFor
      BY <2>1, <3>1 DEF AskedFor, Busy, TaskTypes
    <3>3. SourceOnList'
      BY <1>1, <3>2, SourceKept DEF TasksInv
    <3> QED
      BY <2>1, <3>1, <3>3 DEF TasksInv, TaskTypes, WaitingIsFull
  <2>2. CASE waiting # << >>
    <3>1. /\ running' = [running EXCEPT ![s] = Head(waiting)]
          /\ waiting' = Tail(waiting)
      BY <1>3, <2>2 DEF NextTask
    <3>2. /\ Head(waiting) \in TaskSet /\ waiting' \in Seq(TaskSet)
          /\ Head(waiting) # NoTask
          /\ Range(waiting) = {Head(waiting)} \union Range(waiting')
      BY <2>2, <3>1, TakeFirst, RegistryAssumption DEF TaskTypes
    <3>3. Busy' = Busy
      BY <3>1, <3>2 DEF Reap, Busy, TaskTypes
    <3>4. AskedFor' \subseteq AskedFor
      BY <3>1, <3>2, <3>3 DEF AskedFor, TaskTypes
    <3>5. SourceOnList'
      BY <1>1, <3>4, SourceKept DEF TasksInv
    <3>6. WaitingIsFull'
      BY <1>1, <2>2, <3>3 DEF TasksInv, WaitingIsFull
    <3> QED
      BY <3>1, <3>2, <3>5, <3>6 DEF TasksInv, TaskTypes
  <2> QED
    BY <2>1, <2>2
<1> QED
  BY <1>2, <1>3 DEF Reap

-----------------------------------------------------------------------------
\* Every step keeps the invariant.

LEMMA InitIInv == Init => IInv
<1> SUFFICES ASSUME Init PROVE IInv
  OBVIOUS
<1> USE RegistryAssumption
<1>1. TypeOK
  BY DEF Init, TypeOK
<1>2. ListInv
  BY DEF Init, ListInv, NoDirTwice, KeptIsOld, OneDescriptorEach, WatchHasPair,
         EventIsOfPair, IgnoredIsGone, ActiveIsWatched, Pending, Range
<1>3. ManagerInv
  BY DEF Init, ManagerInv, NothingRead, ConfigFits
<1>4. TasksInv
  BY DEF Init, TasksInv, SourceOnList, WaitingIsFull, Busy, Range
<1> QED
  BY <1>1, <1>2, <1>3, <1>4 DEF IInv

LEMMA ConfigLineKeeps == IInv /\ ConfigLine => IInv'
<1> SUFFICES ASSUME IInv, ConfigLine PROVE IInv'
  OBVIOUS
<1> DEFINE src == Head(lines)[1]
           trgt == Head(lines)[2]
<1>1. /\ ListTypes /\ ControlTypes /\ TaskTypes
      /\ ListInv /\ ManagerInv /\ TasksInv
      /\ NothingRead /\ ConfigFits
  BY TypesApart DEF IInv, ManagerInv
<1>2. /\ pc = "config" /\ lines # << >> /\ lines' = Tail(lines)
      /\ UNCHANGED <<pc, command, batch, exists, events, crashes>>
  BY DEF ConfigLine
<1>3. /\ Head(lines) \in Dirs \X Dirs /\ src \in Dirs /\ trgt \in Dirs
      /\ lines' \in Seq(Dirs \X Dirs) /\ Len(lines') = Len(lines) - 1
      /\ Len(lines) \in Nat \ {0}
  BY <1>1, <1>2 DEF ControlTypes
<1>4. ControlTypes'
  BY <1>1, <1>2, <1>3 DEF ControlTypes
<1>5. CASE UNCHANGED <<store, nextWd, watch, tasks>>
  <2>1. ListTypes' /\ ListInv'
    BY <1>1, <1>2, <1>5, QuietKeeps DEF ListTypes, Pending
  <2>2. TasksInv' /\ TaskTypes'
    BY <1>1, <1>2, <1>5, TasksKept DEF ListGrows
  <2>3. ManagerInv'
    <3>1. nextWd \in Nat /\ MaxWatch \in Nat
      BY <1>1, RegistryAssumption DEF ListTypes
    <3> QED
      BY <1>1, <1>2, <1>3, <1>5, <3>1
         DEF ManagerInv, NothingRead, ConfigFits
  <2> QED
    BY <1>4, <2>1, <2>2, <2>3, TypesApart DEF IInv
<1>6. ASSUME ~Taken(src, trgt), NEW wd, AddWatch(src, wd),
             store' = Cons(NewPair(src, trgt, wd), store),
             enqueue_worker(src, trgt, "FULL")
      PROVE  IInv'
  <2>1. nextWd \in Nat /\ MaxWatch \in Nat /\ nextWd <= MaxWatch
    BY <1>1, <1>2, <1>3, RegistryAssumption DEF ListTypes, ConfigFits
  <2>2. ListTypes' /\ ListInv' /\ nextWd' <= nextWd + 1
    BY <1>1, <1>2, <1>3, <1>6, <2>1, NewPairKeeps
  <2>3. ManagerInv'
    <3>1. nextWd' \in Nat
      BY <2>2 DEF ListTypes
    <3> QED
      BY <1>1, <1>2, <1>3, <2>1, <2>2, <3>1
         DEF ManagerInv, NothingRead, ConfigFits
  <2>4. NewPair(src, trgt, wd) \in Pairs
        /\ NewPair(src, trgt, wd).src = src /\ NewPair(src, trgt, wd).trgt = trgt
    <3>1. wd \in -1..MaxWatch
      BY <1>1, <1>3, <1>6, <2>1 DEF AddWatch, Descriptors, ListTypes
    <3> QED
      BY <1>3, <3>1 DEF NewPair, Pairs
  <2>5. /\ store' \in Seq(Pairs)
        /\ 1 \in DOMAIN store' /\ store'[1].src = src /\ store'[1].trgt = trgt
        /\ ListGrows
    <3> HIDE DEF src, trgt
    <3> QED
      BY <1>1, <1>6, <2>4, PairAdded DEF ListGrows, ListTypes
  <2>6. enqueue_worker(store'[1].src, store'[1].trgt, "FULL")
    BY <1>6, <2>5
  <2>7. TasksInv' /\ TaskTypes'
    <3> HIDE DEF src, trgt
    <3> QED
      BY <1>1, <1>2, <2>5, <2>6, PairEnqueued
  <2> QED
    BY <1>4, <2>2, <2>3, <2>7, TypesApart DEF IInv
<1>7. ASSUME AddWatch(src, -1), UNCHANGED <<store, tasks>>
      PROVE  IInv'
  <2>1. nextWd # -1
    BY <1>1, RegistryAssumption DEF ListTypes
  <2>2. UNCHANGED <<nextWd, watch>>
    BY <1>7, <2>1 DEF AddWatch
  <2> QED
    BY <1>5, <1>7, <2>2
<1> QED
  BY <1>5, <1>6, <1>7 DEF ConfigLine

\* Steps that leave the list, the watches and the tasks alone.
LEMMA ControlKeeps ==
  ASSUME IInv, ControlTypes', ManagerInv', UNCHANGED <<store, exists, watch, nextWd, tasks, crashes>>,
         batch' \in Seq(EventSet), events' \in Seq(EventSet), Pending' \subseteq Pending
  PROVE  IInv'
<1>1. ListTypes /\ TaskTypes /\ ListInv /\ TasksInv
  BY TypesApart DEF IInv
<1>2. ListTypes' /\ ListInv'
  BY <1>1, QuietKeeps DEF ListTypes
<1>3. TasksInv' /\ TaskTypes'
  BY <1>1, TasksKept DEF ListGrows
<1> QED
  BY <1>2, <1>3, TypesApart DEF IInv

LEMMA LoopKeeps ==
  ASSUME IInv, \/ ConfigDone \/ SelectEvents \/ EventsDone
               \/ \E c \in Commands : SelectConsole(c)
  PROVE  IInv'
<1>1. ListTypes /\ ControlTypes /\ ManagerInv /\ NothingRead
  BY TypesApart DEF IInv, ManagerInv
<1>2. ControlTypes' /\ UNCHANGED <<store, exists, watch, nextWd, tasks, crashes>>
  BY <1>1 DEF ConfigDone, SelectEvents, EventsDone, SelectConsole, ControlTypes, kernel
<1>3. ManagerInv'
  BY <1>1, <1>2 DEF ConfigDone, SelectEvents, EventsDone, SelectConsole,
                    ManagerInv, NothingRead, ConfigFits, kernel
<1>4. /\ batch' \in Seq(EventSet) /\ events' \in Seq(EventSet)
      /\ Pending' \subseteq Pending
  <2>1. CASE UNCHANGED <<batch, events>>
    BY <1>1, <2>1 DEF ListTypes, Pending
  <2>2. CASE batch' = events /\ events' = << >>
    <3>1. Range(<< >>) = {}
      BY DEF Range
    <3> QED
      BY <1>1, <2>2, <3>1 DEF ListTypes, Pending
  <2> QED
    BY <2>1, <2>2 DEF ConfigDone, SelectEvents, EventsDone, SelectConsole, kernel
<1> QED
  BY <1>2, <1>3, <1>4, ControlKeeps

LEMMA EventKeeps == IInv /\ Event => IInv'
<1> SUFFICES ASSUME IInv, Event PROVE IInv'
  OBVIOUS
<1> DEFINE e == Head(batch)
           i == list_search_wd(e.wd)
<1>1. /\ ListTypes /\ ControlTypes /\ TaskTypes /\ ListInv /\ TasksInv
      /\ NothingRead
  BY TypesApart DEF IInv, ManagerInv
<1>2. /\ pc = "events" /\ batch # << >> /\ batch' = Tail(batch)
      /\ UNCHANGED <<pc, lines, command, store, exists, watch, nextWd, events, crashes>>
  BY DEF Event, kernel
<1>3. /\ e \in EventSet /\ batch' \in Seq(EventSet)
      /\ Range(batch) = {e} \union Range(batch')
  BY <1>1, <1>2, TakeFirst DEF ListTypes
<1>4. ControlTypes' /\ ManagerInv'
  BY <1>1, <1>2 DEF ControlTypes, ManagerInv, NothingRead, ConfigFits
<1>5. ListTypes' /\ ListInv'
  BY <1>1, <1>2, <1>3, QuietKeeps DEF ListTypes, Pending
<1>6. TasksInv' /\ TaskTypes'
  <2>1. CASE UNCHANGED tasks
    BY <1>1, <1>2, <2>1, TasksKept DEF ListGrows
  <2>2. CASE /\ i # 0 /\ e.op # "IGNORED"
             /\ enqueue_worker(store[i].src, store[i].trgt, e.op)
    <3>1. i \in DOMAIN store' /\ e.op \in EventOps \union {"FULL"} /\ store' \in Seq(Pairs)
      BY <1>1, <1>2, <1>3, <2>2, SearchDescriptor DEF EventSet, ListTypes
    <3>2. enqueue_worker(store'[i].src, store'[i].trgt, e.op)
      BY <1>2, <2>2
    <3>3. ListGrows
      BY <1>2 DEF ListGrows
    <3> HIDE DEF i, e
    <3> QED
      BY <1>1, <1>2, <3>1, <3>2, <3>3, PairEnqueued
  <2> QED
    BY <2>1, <2>2 DEF Event
<1> QED
  BY <1>4, <1>5, <1>6, TypesApart DEF IInv

LEMMA AddKeeps == IInv /\ Add => IInv'
<1> SUFFICES ASSUME IInv, Add PROVE IInv'
  OBVIOUS
<1> DEFINE src  == command.src
           trgt == command.trgt
           i    == list_search(src)
           cancelled == i # 0 /\ ~store[i].active /\ store[i].trgt = trgt
<1>1. /\ ListTypes /\ ControlTypes /\ TaskTypes /\ ListInv /\ TasksInv
      /\ NothingRead
  BY TypesApart DEF IInv, ManagerInv
<1>2. /\ pc = "console" /\ command.name = "add"
      /\ pc' = "select" /\ command' = None
      /\ UNCHANGED <<lines, batch, exists, events, crashes>>
  BY DEF Add, Handled
<1>3. src \in Dirs /\ trgt \in Dirs
  <2>1. command \in Commands
    BY <1>1, <1>2 DEF ControlTypes, None
  <2>2. \A c \in Commands : c.name = "add" => c.src \in Dirs /\ c.trgt \in Dirs
    BY RegistryAssumption DEF Commands
  <2> QED
    BY <1>2, <2>1, <2>2
<1>4. ControlTypes' /\ ManagerInv'
  BY <1>1, <1>2 DEF ControlTypes, ManagerInv, NothingRead, ConfigFits
<1>5. \/ i = 0
      \/ i \in DOMAIN store /\ store[i].src = src
  BY <1>1, SearchSource DEF ListTypes
<1>6. CASE UNCHANGED <<store, nextWd, watch, tasks>>
  <2>1. ListTypes' /\ ListInv'
    BY <1>1, <1>2, <1>6, QuietKeeps DEF ListTypes, Pending
  <2>2. TasksInv' /\ TaskTypes'
    BY <1>1, <1>2, <1>6, TasksKept DEF ListGrows
  <2> QED
    BY <1>4, <2>1, <2>2, TypesApart DEF IInv
<1>7. ASSUME cancelled, NEW wd, nextWd <= MaxWatch, AddWatch(src, wd),
             store' = [store EXCEPT ![i] = Reactivated(store[i], wd)],
             enqueue_worker(src, trgt, "FULL")
      PROVE  IInv'
  <2>1. i \in DOMAIN store /\ store[i].src = src /\ store[i].trgt = trgt /\ ~store[i].active
    BY <1>5, <1>7
  <2>2. AddWatch(store[i].src, wd)
    BY <1>7, <2>1
  <2>3. wd \in -1..MaxWatch
    BY <1>1, <1>3, <1>7, RegistryAssumption DEF AddWatch, Descriptors, ListTypes
  <2> HIDE DEF i
  <2>4. ListTypes' /\ ListInv'
    BY <1>1, <1>2, <1>7, <2>1, <2>2, AddedAgainKeeps
  <2>5. /\ store' \in Seq(Pairs) /\ DOMAIN store' = DOMAIN store
        /\ store'[i].src = src /\ store'[i].trgt = trgt
        /\ \A j \in DOMAIN store : j # i => store'[j] = store[j]
    <3> HIDE DEF src, trgt
    <3> QED
      BY <1>1, <1>7, <2>1, <2>3, PairChanged DEF ListTypes
  <2>6. ListGrows /\ enqueue_worker(store'[i].src, store'[i].trgt, "FULL")
    BY <1>7, <2>1, <2>5 DEF ListGrows
  <2>7. TasksInv' /\ TaskTypes'
    BY <1>1, <1>2, <2>1, <2>5, <2>6, PairEnqueued
  <2> QED
    BY <1>4, <2>4, <2>7, TypesApart DEF IInv
<1>8. ASSUME ~Taken(src, trgt), NEW wd, nextWd <= MaxWatch, AddWatch(src, wd),
             store' = Cons(NewPair(src, trgt, wd), store),
             enqueue_worker(src, trgt, "FULL")
      PROVE  IInv'
  <2>1. ListTypes' /\ ListInv'
    BY <1>1, <1>2, <1>3, <1>8, NewPairKeeps
  <2>2. NewPair(src, trgt, wd) \in Pairs
        /\ NewPair(src, trgt, wd).src = src /\ NewPair(src, trgt, wd).trgt = trgt
    <3>1. wd \in -1..MaxWatch
      BY <1>1, <1>3, <1>8, RegistryAssumption DEF AddWatch, Descriptors, ListTypes
    <3> QED
      BY <1>3, <3>1 DEF NewPair, Pairs
  <2>3. /\ store' \in Seq(Pairs)
        /\ 1 \in DOMAIN store' /\ store'[1].src = src /\ store'[1].trgt = trgt
        /\ ListGrows
    <3> HIDE DEF src, trgt
    <3> QED
      BY <1>1, <1>8, <2>2, PairAdded DEF ListGrows, ListTypes
  <2>4. enqueue_worker(store'[1].src, store'[1].trgt, "FULL")
    BY <1>8, <2>3
  <2>5. TasksInv' /\ TaskTypes'
    <3> HIDE DEF src, trgt
    <3> QED
      BY <1>1, <1>2, <2>3, <2>4, PairEnqueued
  <2> QED
    BY <1>4, <2>1, <2>5, TypesApart DEF IInv
<1> QED
  BY <1>6, <1>7, <1>8 DEF Add

LEMMA CancelActionKeeps == IInv /\ Cancel => IInv'
<1> SUFFICES ASSUME IInv, Cancel PROVE IInv'
  OBVIOUS
<1> DEFINE i == list_search(command.src)
<1>1. /\ ListTypes /\ ControlTypes /\ TaskTypes /\ ListInv /\ TasksInv
      /\ NothingRead
  BY TypesApart DEF IInv, ManagerInv
<1>2. /\ pc = "console" /\ pc' = "select" /\ command' = None
      /\ UNCHANGED <<lines, batch, exists, nextWd, tasks, crashes>>
  BY DEF Cancel, Handled
<1>3. ControlTypes' /\ ManagerInv'
  BY <1>1, <1>2 DEF ControlTypes, ManagerInv, NothingRead, ConfigFits
<1>4. ListTypes' /\ ListInv' /\ ListGrows
  <2>1. CASE UNCHANGED <<store, watch, events>>
    BY <1>1, <1>2, <2>1, QuietKeeps DEF ListTypes, Pending, ListGrows
  <2>2. CASE /\ i # 0
             /\ store' = [store EXCEPT ![i].active = FALSE]
             /\ DropWatch(store[i].wd)
    <3>1. i \in DOMAIN store
      BY <1>1, <2>2, SearchSource DEF ListTypes
    <3> HIDE DEF i
    <3>2. ListTypes' /\ ListInv'
      BY <1>1, <1>2, <2>2, <3>1, CancelKeeps
    <3>3. ListGrows
      BY <1>1, <2>2, <3>1, PairCancelled DEF ListGrows, ListTypes
    <3> QED
      BY <3>2, <3>3
  <2> QED
    BY <2>1, <2>2 DEF Cancel
<1>5. TasksInv' /\ TaskTypes'
  BY <1>1, <1>2, <1>4, TasksKept
<1> QED
  BY <1>3, <1>4, <1>5, TypesApart DEF IInv

LEMMA SyncKeeps == IInv /\ Sync => IInv'
<1> SUFFICES ASSUME IInv, Sync PROVE IInv'
  OBVIOUS
<1> DEFINE i == list_search(command.src)
<1>1. /\ ListTypes /\ ControlTypes /\ TaskTypes /\ ListInv /\ TasksInv
      /\ NothingRead
  BY TypesApart DEF IInv, ManagerInv
<1>2. /\ pc = "console" /\ pc' = "select" /\ command' = None
      /\ UNCHANGED <<store, lines, batch, exists, nextWd, watch, events, crashes>>
  BY DEF Sync, Handled
<1>3. ControlTypes' /\ ManagerInv'
  BY <1>1, <1>2 DEF ControlTypes, ManagerInv, NothingRead, ConfigFits
<1>4. ListTypes' /\ ListInv' /\ ListGrows
  BY <1>1, <1>2, QuietKeeps DEF ListTypes, Pending, ListGrows
<1>5. TasksInv' /\ TaskTypes'
  <2>1. CASE UNCHANGED tasks
    BY <1>1, <1>2, <1>4, <2>1, TasksKept
  <2>2. CASE i # 0 /\ enqueue_worker(store[i].src, store[i].trgt, "FULL")
    <3>1. i \in DOMAIN store' /\ enqueue_worker(store'[i].src, store'[i].trgt, "FULL")
      BY <1>1, <1>2, <2>2, SearchSource DEF ListTypes
    <3>2. store' \in Seq(Pairs)
      BY <1>4 DEF ListTypes
    <3> HIDE DEF i
    <3> QED
      BY <1>1, <1>2, <1>4, <3>1, <3>2, PairEnqueued
  <2> QED
    BY <2>1, <2>2 DEF Sync
<1> QED
  BY <1>3, <1>4, <1>5, TypesApart DEF IInv

LEMMA ReapActionKeeps == ASSUME IInv, NEW s \in Slots, Reap(s) PROVE IInv'
<1>1. /\ ListTypes /\ ControlTypes /\ TaskTypes /\ ListInv /\ TasksInv
      /\ NothingRead
  BY TypesApart DEF IInv, ManagerInv
<1>2. /\ pc = "select" /\ pc' \in {"select", "crashed"}
      /\ UNCHANGED <<lines, command, store, batch, exists, watch, nextWd, events, crashes>>
  BY DEF Reap, kernel
<1>3. ControlTypes' /\ ManagerInv'
  BY <1>1, <1>2 DEF ControlTypes, ManagerInv, NothingRead, ConfigFits
<1>4. ListTypes' /\ ListInv'
  BY <1>1, <1>2, QuietKeeps DEF ListTypes, Pending
<1>5. TasksInv' /\ TaskTypes'
  BY <1>1, ReapKeeps
<1> QED
  BY <1>3, <1>4, <1>5, TypesApart DEF IInv

LEMMA DirsKeep ==
  ASSUME IInv, \/ \E d \in Dirs, op \in EventOps : Change(d, op)
               \/ \E d \in Removable : RemoveDir(d) \/ MakeDir(d)
  PROVE  IInv'
<1>1. /\ ListTypes /\ ControlTypes /\ TaskTypes /\ ListInv /\ TasksInv
      /\ ManagerInv
  BY TypesApart DEF IInv, ManagerInv
<1>2. UNCHANGED <<pc, lines, command, store, batch, nextWd, tasks, crashes>>
  BY DEF Change, RemoveDir, MakeDir
<1>3. ControlTypes'
  BY <1>1, <1>2 DEF ControlTypes
<1>4. TasksInv' /\ TaskTypes'
  BY <1>1, <1>2, TasksKept DEF ListGrows
<1>5. ListTypes' /\ ListInv'
  <2>1. ASSUME NEW d \in Dirs, NEW op \in EventOps, Change(d, op)
        PROVE  ListTypes' /\ ListInv'
    BY <1>1, <2>1, ChangeKeeps DEF Change
  <2>2. ASSUME NEW d \in Removable, RemoveDir(d)
        PROVE  ListTypes' /\ ListInv'
    BY <1>1, <2>2, RemoveDirKeeps
  <2>3. ASSUME NEW d \in Removable, MakeDir(d)
        PROVE  ListTypes' /\ ListInv'
    <3>1. /\ exists' = exists \union {d} /\ d \in Dirs
          /\ UNCHANGED <<store, batch, watch, nextWd, events>>
      BY <2>3, RegistryAssumption DEF MakeDir
    <3> QED
      BY <1>1, <3>1, QuietKeeps DEF ListTypes, Pending
  <2> QED
    BY <2>1, <2>2, <2>3
<1>6. ManagerInv'
  BY <1>1, <1>2, <1>5 DEF ManagerInv, NothingRead, ConfigFits
<1> QED
  BY <1>3, <1>4, <1>5, <1>6, TypesApart DEF IInv

LEMMA RestartKeeps == IInv /\ Restart => IInv'
<1> SUFFICES ASSUME IInv, Restart PROVE IInv'
  OBVIOUS
<1> USE RegistryAssumption
<1>1. TypeOK
  BY DEF IInv
<1>2. TypeOK'
  BY <1>1 DEF Restart, TypeOK
<1>3. ListInv'
  BY DEF Restart, ListInv, NoDirTwice, KeptIsOld, OneDescriptorEach, WatchHasPair,
         EventIsOfPair, IgnoredIsGone, ActiveIsWatched, Pending, Range
<1>4. ManagerInv'
  BY <1>1 DEF Restart, ManagerInv, NothingRead, ConfigFits
<1>5. TasksInv'
  <2>1. crashes' # 0
    BY <1>1 DEF Restart, TypeOK
  <2> QED
    BY <2>1 DEF TasksInv, SourceOnList, WaitingIsFull
<1> QED
  BY <1>2, <1>3, <1>4, <1>5 DEF IInv

LEMMA NextKeeps == IInv /\ [Next]_vars => IInv'
<1> SUFFICES ASSUME IInv, [Next]_vars PROVE IInv'
  OBVIOUS
<1>1. CASE Next
  BY <1>1, ConfigLineKeeps, LoopKeeps, EventKeeps, AddKeeps, CancelActionKeeps, SyncKeeps,
     ReapActionKeeps, DirsKeep, RestartKeeps DEF Next
<1>2. CASE UNCHANGED vars
  <2>1. /\ UNCHANGED <<pc, lines, command, store, batch, exists, watch, nextWd, events>>
        /\ UNCHANGED <<running, waiting, crashes>>
    BY <1>2 DEF vars, kernel, tasks
  <2>2. ListTypes' /\ ControlTypes' /\ TaskTypes' /\ ListInv'
    BY <2>1, TypesApart, QuietKeeps
       DEF IInv, ListTypes, ControlTypes, TaskTypes, Pending
  <2>3. ManagerInv' /\ TasksInv'
    BY <2>1 DEF IInv, ManagerInv, NothingRead, ConfigFits, TasksInv,
                SourceOnList, WaitingIsFull, Busy
  <2> QED
    BY <2>2, <2>3, TypesApart DEF IInv
<1> QED
  BY <1>1, <1>2

(***************************************************************************)
(* The invariant that all the theorems below rest on.                      *)
(***************************************************************************)
THEOREM Inductive == Spec => []IInv
<1> QED
  BY InitIInv, NextKeeps, PTL DEF Spec

-----------------------------------------------------------------------------
(***************************************************************************)
(* Types: pairs, descriptors, events and tasks are well-formed, a          *)
(* descriptor within the bound.  Nothing is said of where they lead: that  *)
(* is for the theorems below.                                              *)
(***************************************************************************)
THEOREM TypeCorrect == Spec => []TypeOK
<1>1. IInv => TypeOK
  BY DEF IInv
<1> QED
  BY <1>1, Inductive, PTL

(***************************************************************************)
(* A directory plays a part in one pair at most.                           *)
(***************************************************************************)
THEOREM DirsOnce == Spec => []NoDirTwice
<1>1. IInv => NoDirTwice
  BY DEF IInv, ListInv
<1> QED
  BY <1>1, Inductive, PTL

(***************************************************************************)
(* No watch is leaked: each leads to an active pair of its directory.      *)
(***************************************************************************)
THEOREM NoWatchLeaked == Spec => []WatchLeadsToPair
<1>1. IInv => WatchLeadsToPair
  <2> SUFFICES ASSUME IInv, NEW d \in Dirs, watch[d] # -1
               PROVE  LET i == list_search_wd(watch[d])
                      IN  i # 0 /\ store[i].src = d /\ store[i].active
    BY DEF WatchLeadsToPair
  <2> DEFINE i == list_search_wd(watch[d])
  <2>1. ListTypes /\ ListInv
    BY TypesApart DEF IInv
  <2>2. PICK j \in DOMAIN store : /\ store[j].src = d
                                  /\ store[j].active
                                  /\ store[j].wd = watch[d]
    BY <2>1 DEF ListInv, WatchHasPair
  <2>3. i # 0 /\ i \in DOMAIN store /\ store[i].wd = watch[d]
    BY <2>1, <2>2, SearchDescriptor DEF ListTypes
  <2>4. i = j
    BY <2>1, <2>2, <2>3 DEF ListInv, OneDescriptorEach
  <2> QED
    BY <2>2, <2>3, <2>4
<1> QED
  BY <1>1, Inductive, PTL

(***************************************************************************)
(* An active pair that got a descriptor, and whose directory never         *)
(* vanishes, is watched under it.                                          *)
(***************************************************************************)
THEOREM ActiveWatched == Spec => []ActiveIsWatched
<1>1. IInv => ActiveIsWatched
  BY DEF IInv, ListInv
<1> QED
  BY <1>1, Inductive, PTL

(***************************************************************************)
(* An event is charged to the pair of its directory or to none, however    *)
(* late it is looked at.                                                   *)
(***************************************************************************)
THEOREM EventsFindTheirPair == Spec => []EventFindsItsPair
<1>1. IInv => EventFindsItsPair
  <2> SUFFICES ASSUME IInv, NEW e \in Range(batch \o events), list_search_wd(e.wd) # 0
               PROVE  store[list_search_wd(e.wd)].src = e.dir
    BY DEF EventFindsItsPair
  <2>1. ListTypes /\ ListInv
    BY TypesApart DEF IInv
  <2>2. e \in Pending
    BY <2>1, Joined DEF ListTypes, Pending
  <2>3. list_search_wd(e.wd) \in DOMAIN store /\ store[list_search_wd(e.wd)].wd = e.wd
    BY <2>1, SearchDescriptor DEF ListTypes
  <2> QED
    BY <2>1, <2>2, <2>3 DEF ListInv, EventIsOfPair
<1> QED
  BY <1>1, Inductive, PTL

(***************************************************************************)
(* Until the first crash every task that runs or waits belongs to a pair   *)
(* of the list, so that the report of a worker never dereferences NULL.    *)
(***************************************************************************)
THEOREM ReapFindsPair == Spec => []SourceOnList
<1>1. IInv => SourceOnList
  BY DEF IInv, TasksInv
<1> QED
  BY <1>1, Inductive, PTL

-----------------------------------------------------------------------------
(***************************************************************************)
(* The pool.  Until the first crash every step submits one task, finishes  *)
(* one, or leaves the pool alone; the crash stops the pool.                *)
(***************************************************************************)
PoolSlot == [s \in Slots |-> IF alive THEN running[s] ELSE NoTask]

LEMMA PoolView ==
  ASSUME TaskTypes, alive
  PROVE  PoolSlot = running /\ Pool!Busy = Busy /\ Pool!Cardinality(Busy) = Cardinality(Busy)
<1>1. PoolSlot = running
  BY DEF PoolSlot, TaskTypes
<1>2. Pool!Busy = Busy
  BY <1>1 DEF Pool!Busy, Busy, PoolSlot
<1>3. Pool!Cardinality(Busy) = Cardinality(Busy)
  BY DEF Pool!Cardinality, Cardinality, Pool!IsFiniteSet, IsFiniteSet
<1> QED
  BY <1>1, <1>2, <1>3

LEMMA NextPoolView ==
  ASSUME TaskTypes', alive'
  PROVE  PoolSlot' = running'
BY DEF PoolSlot, TaskTypes

LEMMA QuietForPool ==
  ASSUME UNCHANGED <<tasks, crashes>>
  PROVE  [Pool!Next]_(Pool!poolVars)
BY DEF tasks, Pool!poolVars, alive

LEMMA EnqueueIsSubmit ==
  ASSUME TaskTypes, TaskTypes', WaitingIsFull, alive, UNCHANGED crashes,
         NEW src \in Dirs, NEW trgt \in Dirs, NEW op \in EventOps \union {"FULL"},
         enqueue_worker(src, trgt, op)
  PROVE  [Pool!Next]_(Pool!poolVars)
<1> DEFINE t == Task(src, trgt, op)
<1>1. t \in TaskSet
  BY DEF Task, TaskSet
<1>2. alive' /\ PoolSlot' = running'
  BY NextPoolView DEF alive
<1>3. ASSUME Cardinality(Busy) < WorkerLimit, NEW s \in Slots \ Busy,
             running' = [running EXCEPT ![s] = t], UNCHANGED waiting
      PROVE  Pool!Next
  <2>1. waiting = << >>
    <3>1. IsFiniteSet(Busy)
      BY RegistryAssumption, FS_Subset DEF Busy
    <3>2. Cardinality(Busy) \in Nat /\ WorkerLimit \in Int
      BY <3>1, FS_CardinalityType, RegistryAssumption
    <3> QED
      BY <1>3, <3>2 DEF WaitingIsFull, alive
  <2>2. running[s] = NoTask
    BY <1>3 DEF Busy
  <2> HIDE DEF t
  <2>3. Pool!SubmitStart(t, s)
    BY <1>2, <1>3, <2>1, <2>2, PoolView DEF Pool!SubmitStart, PoolSlot
  <2> QED
    BY <1>1, <1>3, <2>3 DEF Pool!Next
<1>4. ASSUME Cardinality(Busy) >= WorkerLimit, Len(waiting) < QueueCapacity,
             waiting' = Append(waiting, t), UNCHANGED running
      PROVE  Pool!Next
  <2> HIDE DEF t
  <2>1. Pool!SubmitWait(t)
    BY <1>2, <1>4, PoolView DEF Pool!SubmitWait, PoolSlot
  <2> QED
    BY <1>1, <2>1 DEF Pool!Next
<1>5. CASE UNCHANGED tasks
  BY <1>5, QuietForPool
<1> QED
  BY <1>3, <1>4, <1>5 DEF enqueue_worker, t

LEMMA ReapIsFinish ==
  ASSUME TaskTypes, TaskTypes', alive, NEW s \in Slots, Reap(s)
  PROVE  [Pool!Next]_(Pool!poolVars)
<1>1. UNCHANGED crashes /\ alive' /\ PoolSlot' = running' /\ running[s] # NoTask
  BY NextPoolView DEF alive, Reap
<1>2. CASE UNCHANGED tasks
  BY <1>1, <1>2, QuietForPool
<1>3. CASE /\ waiting = << >> /\ UNCHANGED waiting
           /\ running' = [running EXCEPT ![s] = NoTask]
  <2>1. Pool!Finish(s)
    BY <1>1, <1>3, PoolView DEF Pool!Finish, PoolSlot
  <2> QED
    BY <2>1 DEF Pool!Next
<1>4. CASE /\ waiting # << >> /\ waiting' = Tail(waiting)
           /\ running' = [running EXCEPT ![s] = Head(waiting)]
  <2>1. running' = [running EXCEPT ![s] = NoTask, ![s] = Head(waiting)]
    BY <1>4
  <2>2. Pool!FinishAndStart(s, s)
    BY <1>1, <1>4, <2>1, PoolView DEF Pool!FinishAndStart, PoolSlot
  <2> QED
    BY <2>2 DEF Pool!Next
<1> QED
  BY <1>2, <1>3, <1>4 DEF Reap, NextTask

LEMMA StepRefines == IInv /\ [Next]_vars => [Pool!Next]_(Pool!poolVars)
<1> SUFFICES ASSUME IInv, [Next]_vars PROVE [Pool!Next]_(Pool!poolVars)
  OBVIOUS
<1>1. /\ ListTypes /\ ControlTypes /\ TaskTypes /\ WaitingIsFull
      /\ ListTypes' /\ TaskTypes'
  BY NextKeeps, TypesApart DEF IInv, TasksInv
<1>2. \A i \in DOMAIN store : store[i].src \in Dirs /\ store[i].trgt \in Dirs
  <2>1. \A i \in DOMAIN store : store[i] \in Pairs
    BY <1>1 DEF ListTypes
  <2> QED
    BY <2>1 DEF Pairs
<1>3. CASE ~alive
  <2>1. crashes' = crashes \/ crashes' = crashes + 1
    <3>1. CASE UNCHANGED vars
      BY <3>1 DEF vars
    <3>2. CASE Restart
      BY <3>2 DEF Restart
    <3>3. CASE Next /\ ~Restart
      BY <3>3 DEF Next, ConfigLine, ConfigDone, SelectEvents, SelectConsole, Event,
                  EventsDone, Add, Cancel, Sync, Handled, Reap, Change, RemoveDir, MakeDir
    <3> QED
      BY <3>1, <3>2, <3>3
  <2>2. ~alive'
    BY <1>1, <1>3, <2>1, RegistryAssumption DEF alive, ControlTypes
  <2> QED
    BY <1>3, <2>2 DEF Pool!poolVars
<1>4. CASE alive /\ Restart
  <2>1. ~alive'
    BY <1>1, <1>4 DEF Restart, alive, ControlTypes
  <2>2. Pool!Stop
    BY <1>4, <2>1 DEF Pool!Stop
  <2> QED
    BY <2>2 DEF Pool!Next
<1>5. CASE UNCHANGED vars
  BY <1>5, QuietForPool DEF vars
<1>6. CASE alive /\ ConfigLine
  <2>1. UNCHANGED crashes /\ Head(lines)[1] \in Dirs /\ Head(lines)[2] \in Dirs
    BY <1>1, <1>6 DEF ConfigLine, ControlTypes
  <2>2. \/ UNCHANGED tasks
        \/ enqueue_worker(Head(lines)[1], Head(lines)[2], "FULL")
    BY <1>6 DEF ConfigLine
  <2> QED
    BY <1>1, <1>6, <2>1, <2>2, QuietForPool, EnqueueIsSubmit
<1>7. CASE alive /\ Event
  <2> DEFINE i == list_search_wd(Head(batch).wd)
  <2>1. UNCHANGED crashes
    BY <1>7 DEF Event
  <2>2. \/ UNCHANGED tasks
        \/ /\ i # 0 /\ Head(batch).op # "IGNORED"
           /\ enqueue_worker(store[i].src, store[i].trgt, Head(batch).op)
    BY <1>7 DEF Event
  <2>3. Head(batch) \in EventSet /\ (i # 0 => i \in DOMAIN store)
    BY <1>1, <1>7, SearchDescriptor DEF Event, ListTypes
  <2>4. Head(batch).op # "IGNORED" => Head(batch).op \in EventOps \union {"FULL"}
    BY <2>3 DEF EventSet
  <2> HIDE DEF i
  <2> QED
    BY <1>1, <1>2, <1>7, <2>1, <2>2, <2>3, <2>4, QuietForPool, EnqueueIsSubmit
<1>8. CASE alive /\ Add
  <2>1. UNCHANGED crashes /\ command \in Commands /\ command.name = "add"
    BY <1>1, <1>8 DEF Add, Handled, ControlTypes, None
  <2>2. command.src \in Dirs /\ command.trgt \in Dirs
    <3>1. \A c \in Commands : c.name = "add" => c.src \in Dirs /\ c.trgt \in Dirs
      BY RegistryAssumption DEF Commands
    <3> QED
      BY <2>1, <3>1
  <2>3. UNCHANGED tasks \/ enqueue_worker(command.src, command.trgt, "FULL")
    BY <1>8 DEF Add
  <2> QED
    BY <1>1, <1>8, <2>1, <2>2, <2>3, QuietForPool, EnqueueIsSubmit
<1>9. CASE alive /\ Sync
  <2> DEFINE i == list_search(command.src)
  <2>1. UNCHANGED crashes /\ (i # 0 => i \in DOMAIN store)
    BY <1>1, <1>9, SearchSource DEF Sync, Handled, ListTypes
  <2>2. \/ UNCHANGED tasks
        \/ i # 0 /\ enqueue_worker(store[i].src, store[i].trgt, "FULL")
    BY <1>9 DEF Sync
  <2> HIDE DEF i
  <2> QED
    BY <1>1, <1>2, <1>9, <2>1, <2>2, QuietForPool, EnqueueIsSubmit
<1>10. CASE alive /\ \E s \in Slots : Reap(s)
  BY <1>1, <1>10, ReapIsFinish
<1>11. CASE \/ ConfigDone \/ SelectEvents \/ EventsDone \/ Cancel
            \/ \E c \in Commands : SelectConsole(c)
            \/ \E d \in Dirs, op \in EventOps : Change(d, op)
            \/ \E d \in Removable : RemoveDir(d) \/ MakeDir(d)
  <2>1. UNCHANGED <<tasks, crashes>>
    BY <1>11 DEF ConfigDone, SelectEvents, EventsDone, Cancel, Handled, SelectConsole,
                 Change, RemoveDir, MakeDir
  <2> QED
    BY <2>1, QuietForPool
<1> QED
  BY <1>3, <1>4, <1>5, <1>6, <1>7, <1>8, <1>9, <1>10, <1>11 DEF Next

(***************************************************************************)
(* Start-up, events and console commands together use the workers as the   *)
(* pool promises: at most worker_limit at a time, first come first served. *)
(***************************************************************************)
THEOREM Refinement == Spec => PoolSpec
<1>1. Init => Pool!Init
  BY DEF Init, Pool!Init, alive
<1> QED
  BY <1>1, StepRefines, Inductive, PTL DEF Spec, PoolSpec, Pool!PoolSpec

-----------------------------------------------------------------------------
\* What enqueue_worker asks for while there is room, it asks for once.
LEMMA AskedOnceMore ==
  ASSUME TaskTypes, NEW src, NEW trgt, NEW op, NEW t \in TaskSet, t = Task(src, trgt, op),
         enqueue_worker(src, trgt, op), Len(waiting) < QueueCapacity
  PROVE  Asked(t)' = Asked(t) + 1
<1> DEFINE Runs  == {s \in Slots : running[s] = t}
           Waits == {i \in DOMAIN waiting : waiting[i] = t}
<1>1. t # NoTask /\ IsFiniteSet(Slots)
  BY RegistryAssumption
<1>2. IsFiniteSet(Runs) /\ Cardinality(Runs) \in Nat
  BY <1>1, FS_Subset, FS_CardinalityType
<1>3. IsFiniteSet(Waits) /\ Cardinality(Waits) \in Nat
  <2>1. /\ Len(waiting) \in Nat /\ DOMAIN waiting = 1..Len(waiting)
    BY DEF TaskTypes
  <2>2. IsFiniteSet(DOMAIN waiting)
    BY <2>1, FS_Interval
  <2> QED
    BY <2>2, FS_Subset, FS_CardinalityType
<1>4. Asked(t) = Cardinality(Runs) + Cardinality(Waits)
  BY DEF Asked
<1>5. Asked(t)' = Cardinality({s \in Slots : running'[s] = t}) +
                  Cardinality({i \in DOMAIN waiting' : waiting'[i] = t})
  BY DEF Asked
<1>6. ASSUME NEW r \in Slots \ Busy, running' = [running EXCEPT ![r] = t], UNCHANGED waiting
      PROVE  Asked(t)' = Asked(t) + 1
  <2>1. {s \in Slots : running'[s] = t} = Runs \union {r} /\ r \notin Runs
    BY <1>1, <1>6 DEF Busy, TaskTypes
  <2>2. Cardinality(Runs \union {r}) = Cardinality(Runs) + 1
    <3> HIDE DEF Runs
    <3> QED
      BY <1>2, <2>1, FS_AddElement
  <2>3. Asked(t)' = (Cardinality(Runs) + 1) + Cardinality(Waits)
    BY <1>5, <1>6, <2>1, <2>2
  <2> HIDE DEF Runs, Waits
  <2> QED
    BY <1>2, <1>3, <1>4, <2>3
<1>7. ASSUME waiting' = Append(waiting, t), UNCHANGED running
      PROVE  Asked(t)' = Asked(t) + 1
  <2> DEFINE n == Len(waiting) + 1
  <2>1. /\ n \notin Waits
        /\ {i \in DOMAIN waiting' : waiting'[i] = t} = Waits \union {n}
    BY <1>7 DEF TaskTypes
  <2>2. Cardinality(Waits \union {n}) = Cardinality(Waits) + 1
    <3> HIDE DEF Waits, n
    <3> QED
      BY <1>3, <2>1, FS_AddElement
  <2>3. Asked(t)' = Cardinality(Runs) + (Cardinality(Waits) + 1)
    BY <1>5, <1>7, <2>1, <2>2
  <2> HIDE DEF Runs, Waits
  <2> QED
    BY <1>2, <1>3, <1>4, <2>3
<1> QED
  BY <1>6, <1>7, RegistryAssumption DEF enqueue_worker

\* Only the handler of events takes the first event away.
LEMMA OnlyEventTakes ==
  ASSUME IInv, Next, batch # << >>, batch' = Tail(batch), UNCHANGED crashes
  PROVE  Event
<1>1. ListTypes /\ ControlTypes /\ NothingRead
  BY TypesApart DEF IInv, ManagerInv
<1>2. batch' # batch
  BY <1>1 DEF ListTypes
<1>3. ~SelectEvents
  BY <1>1 DEF SelectEvents, NothingRead
<1>4. ~Restart
  BY <1>1, RegistryAssumption DEF Restart, ControlTypes
<1> QED
  BY <1>2, <1>3, <1>4 DEF Next, ConfigLine, ConfigDone, SelectConsole, EventsDone, Add,
     Cancel, Sync, Handled, Reap, Change, RemoveDir, MakeDir

(***************************************************************************)
(* An event of a directory that is still watched becomes just one task     *)
(* more, for that directory and that kind of change, unless the queue of   *)
(* commands is full: sync_notified_dir loses none.                         *)
(***************************************************************************)
THEOREM EventBecomesTask == Spec => LiveEventBecomesTask
<1> DEFINE Handles(e) == /\ e = Head(batch)
                         /\ batch' = Tail(batch)
                         /\ UNCHANGED crashes
                         /\ watch[e.dir] = e.wd
                         /\ Len(waiting) < QueueCapacity
           Becomes(e) == \E t \in TaskSet : t.src = e.dir /\ t.op = e.op
                                            /\ Asked(t)' = Asked(t) + 1
<1>1. ASSUME IInv, Next, NEW e \in Range(batch), Handles(e)
      PROVE  Becomes(e)
  <2> DEFINE i == list_search_wd(e.wd)
  <2>1. /\ ListTypes /\ TaskTypes /\ ListInv
    BY <1>1, TypesApart DEF IInv
  <2>2. batch # << >>
    BY <1>1 DEF Range
  <2>3. Event
    BY <1>1, <2>2, OnlyEventTakes
  <2>4. e \in EventSet
    BY <1>1, <2>1 DEF Range, ListTypes
  <2>5. /\ e.dir \in Dirs /\ watch[e.dir] = e.wd /\ e.wd # -1
        /\ e.op \in EventOps \union {"IGNORED"}
    BY <1>1, <2>4, RegistryAssumption DEF EventSet
  <2>6. PICK j \in DOMAIN store : store[j].src = e.dir /\ store[j].wd = e.wd
    BY <2>1, <2>5 DEF ListInv, WatchHasPair
  <2>7. i # 0 /\ i \in DOMAIN store /\ store[i].wd = e.wd
    BY <2>1, <2>6, SearchDescriptor DEF ListTypes
  <2>8. store[i].src = e.dir
    BY <2>1, <2>5, <2>6, <2>7 DEF ListInv, OneDescriptorEach
  <2>9. e.op # "IGNORED"
    BY <1>1, <2>1, <2>5 DEF ListInv, IgnoredIsGone, Pending
  <2>10. enqueue_worker(store[i].src, store[i].trgt, e.op)
    BY <1>1, <2>3, <2>7, <2>9 DEF Event
  <2>11. store[i].src \in Dirs /\ store[i].trgt \in Dirs
    <3>1. store[i] \in Pairs
      BY <2>1, <2>7 DEF ListTypes
    <3> QED
      BY <3>1 DEF Pairs
  <2> HIDE DEF i
  <2>12. Task(store[i].src, store[i].trgt, e.op) \in TaskSet
    BY <2>5, <2>9, <2>11 DEF Task, TaskSet
  <2>13. PICK t \in TaskSet : t = Task(store[i].src, store[i].trgt, e.op)
    BY <2>12
  <2>14. t.src = e.dir /\ t.op = e.op
    BY <2>8, <2>13 DEF Task
  <2>15. Asked(t)' = Asked(t) + 1
    BY <1>1, <2>1, <2>10, <2>13, AskedOnceMore
  <2> QED
    BY <2>14, <2>15
<1>2. IInv /\ [Next]_vars => [\A e \in Range(batch) : Handles(e) => Becomes(e)]_vars
  BY <1>1
<1> QED
  BY <1>2, Inductive, PTL DEF Spec, LiveEventBecomesTask
=============================================================================
