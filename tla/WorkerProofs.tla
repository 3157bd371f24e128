---------------------------- MODULE WorkerProofs ----------------------------
(***************************************************************************)
(* The safety of Worker for any number of workers, files and messages, and *)
(* any number of workers that are killed.                                  *)
(***************************************************************************)
EXTENDS Worker, TLAPS

(***************************************************************************)
(* The inductive invariant.  To see that nobody else drains or removes the *)
(* queue of a worker that has it to itself, every queue that exists must   *)
(* be known to have been opened by somebody, and every worker that runs to *)
(* have opened one that was made.                                          *)
(***************************************************************************)
QueueOfTheRunning == \A w \in Workers : /\ mem[w].error_qid <= lastGen
                                        /\ mem[w].pc # "idle" => mem[w].error_qid # 0
                                        /\ mem[w].pc = "idle" => mem[w].error_qid = 0

QueueWasOpened == gen # 0 => \E w \in Workers : mem[w].error_qid = gen

NoneIsEmpty == gen = 0 => errq = << >>

\* What w reports, or has yet to drain, is what w made.
OnlyOwn(w) == /\ \A i \in DOMAIN mem[w].errors : mem[w].errors[i] = w
              /\ Active(w) => /\ mem[w].error_qid = gen
                              /\ Len(mem[w].errors) + Len(errq) = mem[w].made
                              /\ \A i \in DOMAIN errq : errq[i] = w
              /\ mem[w].pc = "free" /\ mem[w].status \notin {"none", "SUCCESS"}
                   => errq = << >>
              /\ mem[w].pc = "reported" /\ mem[w].status # "SUCCESS"
                   => Len(mem[w].errors) = mem[w].made

OwnBooks == \A w \in Workers : mem[w].pc # "idle" /\ OwnQueue(w) => OnlyOwn(w)

IInv == /\ TypeOK
        /\ QueueOfTheRunning
        /\ QueueWasOpened
        /\ NoneIsEmpty
        /\ NoQueueLeft
        /\ MessagesOfTheLiving
        /\ OwnBooks

-----------------------------------------------------------------------------
\* The steps of a worker, by what they do to the queue.

\* From mem[w] to m, the report and the queue left alone.
Continues(w, m) ==
    /\ Active(w)
    /\ m \in Memory
    /\ m.pc \in {"delete", "copy", "report", "drain", "free"}
    /\ m.error_qid = mem[w].error_qid
    /\ m.errors = mem[w].errors
    /\ m.made = mem[w].made
    /\ m.pc = "free" => \/ m.status \in {"none", "SUCCESS"}
                        \/ mem[w].error_qid # gen
                        \/ errq = << >>

QuietStep(w) == \E m : Continues(w, m) /\ Quietly(w, m)

RaiseStep(w) == \E m : Continues(w, m) /\ m.pc # "free" /\ Raise(w, m)

DrainStep(w) == /\ mem[w].pc = "drain"
                /\ mem[w].error_qid = gen /\ errq # << >>
                /\ DrainOne(w)

\* What the worker has before an operation, and one field more or less of it.
LEMMA MemoryOf ==
  ASSUME TypeOK, NEW w \in Workers
  PROVE  /\ mem[w] \in Memory
         /\ mem[w].left \in 0..MaxFiles
         /\ mem[w].left > 0 => mem[w].left - 1 \in 0..MaxFiles
         /\ 0..MaxFiles \subseteq Nat
BY WorkerAssumption DEF TypeOK, Memory

\* Counting changes nothing else.
LEMMA Counted ==
  ASSUME NEW w, NEW m, Continues(w, m)
  PROVE  /\ Continues(w, [m EXCEPT !.error_count = @ + 1])
         /\ Continues(w, [m EXCEPT !.files_copied = @ + 1])
         /\ Continues(w, [m EXCEPT !.files_skipped = @ + 1])
         /\ [m EXCEPT !.error_count = @ + 1].pc = m.pc
         /\ [m EXCEPT !.files_copied = @ + 1].pc = m.pc
         /\ [m EXCEPT !.files_skipped = @ + 1].pc = m.pc
<1>1. m \in Memory
  BY DEF Continues
<1>2. Continues(w, [m EXCEPT !.error_count = @ + 1])
  BY <1>1 DEF Continues, Memory
<1>3. Continues(w, [m EXCEPT !.files_copied = @ + 1])
  BY <1>1 DEF Continues, Memory
<1>4. Continues(w, [m EXCEPT !.files_skipped = @ + 1])
  BY <1>1 DEF Continues, Memory
<1> QED
  BY <1>1, <1>2, <1>3, <1>4 DEF Memory

\* A counted message, as a step.
LEMMA CountedRaise ==
  ASSUME NEW w, NEW m, Continues(w, m), m.pc # "free", RaiseAndCount(w, m)
  PROVE  RaiseStep(w)
<1>1. /\ Continues(w, [m EXCEPT !.error_count = @ + 1])
      /\ [m EXCEPT !.error_count = @ + 1].pc # "free"
  BY Counted
<1> QED
  BY <1>1 DEF RaiseAndCount, RaiseStep

LEMMA OpenTargetForms ==
  ASSUME TypeOK, NEW w \in Workers, OpenTarget(w)
  PROVE  QuietStep(w) \/ RaiseStep(w)
<1>1. mem[w].pc = "target" /\ mem[w] \in Memory /\ Active(w)
  BY MemoryOf DEF OpenTarget, Active
<1>2. ASSUME NEW n \in 0..MaxFiles, Quietly(w, [mem[w] EXCEPT !.pc = "delete", !.left = n])
      PROVE  QuietStep(w)
  <2> DEFINE m == [mem[w] EXCEPT !.pc = "delete", !.left = n]
  <2>1. Continues(w, m)
    BY <1>1 DEF Continues, Memory
  <2> QED
    BY <1>2, <2>1 DEF QuietStep
<1>3. ASSUME RaiseAndCount(w, [mem[w] EXCEPT !.pc = "report"])
      PROVE  RaiseStep(w)
  <2> DEFINE m == [mem[w] EXCEPT !.pc = "report"]
  <2>1. Continues(w, m) /\ m.pc # "free"
    BY <1>1 DEF Continues, Memory
  <2> QED
    BY <1>3, <2>1, CountedRaise
<1> QED
  BY <1>2, <1>3 DEF OpenTarget

LEMMA DeleteOneForms ==
  ASSUME TypeOK, NEW w \in Workers, DeleteOne(w)
  PROVE  QuietStep(w) \/ RaiseStep(w)
<1>1. mem[w].pc = "delete" /\ mem[w] \in Memory /\ Active(w)
  BY MemoryOf DEF DeleteOne, Active
<1> DEFINE next == [mem[w] EXCEPT !.left = @ - 1]
<1>2. ASSUME mem[w].left > 0, Quietly(w, next) PROVE QuietStep(w)
  <2>1. Continues(w, next)
    BY <1>1, <1>2, MemoryOf DEF Continues, Memory
  <2> QED
    BY <1>2, <2>1 DEF QuietStep
<1>3. ASSUME mem[w].left > 0, RaiseAndCount(w, next) PROVE RaiseStep(w)
  <2>1. Continues(w, next) /\ next.pc # "free"
    BY <1>1, <1>3, MemoryOf DEF Continues, Memory
  <2> QED
    BY <1>3, <2>1, CountedRaise
<1>4. ASSUME NEW n \in 0..MaxFiles, Quietly(w, [mem[w] EXCEPT !.pc = "copy", !.left = n])
      PROVE  QuietStep(w)
  <2> DEFINE m == [mem[w] EXCEPT !.pc = "copy", !.left = n]
  <2>1. Continues(w, m)
    BY <1>1 DEF Continues, Memory
  <2> QED
    BY <1>4, <2>1 DEF QuietStep
<1>5. ASSUME RaiseAndCount(w, [mem[w] EXCEPT !.pc = "report"])
      PROVE  RaiseStep(w)
  <2> DEFINE m == [mem[w] EXCEPT !.pc = "report"]
  <2>1. Continues(w, m) /\ m.pc # "free"
    BY <1>1 DEF Continues, Memory
  <2> QED
    BY <1>5, <2>1, CountedRaise
<1> QED
  BY <1>2, <1>3, <1>4, <1>5 DEF DeleteOne

LEMMA CopyFileForms ==
  ASSUME TypeOK, NEW w \in Workers, NEW m, Continues(w, m), m.pc # "free", CopyFile(w, m)
  PROVE  QuietStep(w) \/ RaiseStep(w)
<1> DEFINE skipped == [m EXCEPT !.files_skipped = @ + 1]
           copied  == [m EXCEPT !.files_copied = @ + 1]
<1>1. /\ Continues(w, skipped) /\ skipped.pc = m.pc
      /\ Continues(w, copied)
  BY Counted, Zenon
<1>2. Quietly(w, copied) \/ RaiseAndCount(w, skipped) \/ Raise(w, skipped)
  BY DEF CopyFile
<1> HIDE DEF skipped, copied
<1> QED
  BY <1>1, <1>2, CountedRaise DEF QuietStep, RaiseStep

LEMMA CopyOneForms ==
  ASSUME TypeOK, NEW w \in Workers, CopyOne(w)
  PROVE  QuietStep(w) \/ RaiseStep(w)
<1>1. mem[w].pc = "copy" /\ mem[w] \in Memory /\ Active(w)
  BY MemoryOf DEF CopyOne, Active
<1>2. CASE mem[w].left > 0
  <2> DEFINE m == [mem[w] EXCEPT !.left = @ - 1]
  <2>1. Continues(w, m) /\ m.pc # "free"
    BY <1>1, <1>2, MemoryOf DEF Continues, Memory
  <2>2. CopyFile(w, m)
    BY <1>2 DEF CopyOne
  <2> QED
    BY <2>1, <2>2, CopyFileForms
<1>3. CASE ~(mem[w].left > 0)
  <2> DEFINE m == [mem[w] EXCEPT !.pc = "report"]
  <2>1. Continues(w, m)
    BY <1>1 DEF Continues, Memory
  <2> QED
    BY <1>3, <2>1 DEF CopyOne, QuietStep
<1> QED
  BY <1>2, <1>3

LEMMA OneFileForms ==
  ASSUME TypeOK, NEW w \in Workers, OneFile(w)
  PROVE  QuietStep(w) \/ RaiseStep(w)
<1>1. mem[w].pc = "file" /\ mem[w] \in Memory /\ Active(w)
  BY MemoryOf DEF OneFile, Active
<1> DEFINE next == [mem[w] EXCEPT !.pc = "report"]
<1>2. Continues(w, next) /\ next.pc # "free"
  BY <1>1 DEF Continues, Memory
<1>3. CASE mem[w].operation # "DELETED"
  BY <1>2, <1>3, CopyFileForms DEF OneFile
<1>4. CASE Quietly(w, [next EXCEPT !.files_copied = @ + 1])
  <2>1. Continues(w, [next EXCEPT !.files_copied = @ + 1])
    BY <1>2, Counted
  <2> QED
    BY <1>4, <2>1 DEF QuietStep
<1>5. CASE RaiseAndCount(w, [next EXCEPT !.files_skipped = @ + 1])
  <2> DEFINE m == [next EXCEPT !.files_skipped = @ + 1]
  <2>1. Continues(w, m) /\ m.pc # "free"
    BY <1>2, Counted
  <2> HIDE DEF m
  <2> QED
    BY <1>5, <2>1, CountedRaise DEF m
<1> QED
  BY <1>3, <1>4, <1>5 DEF OneFile

LEMMA MakeReportForms ==
  ASSUME TypeOK, NEW w \in Workers, MakeReport(w)
  PROVE  QuietStep(w)
<1>1. mem[w].pc = "report" /\ mem[w] \in Memory /\ Active(w)
  BY MemoryOf DEF MakeReport, Active
<1> DEFINE m == [mem[w] EXCEPT !.status = Status(mem[w]),
                               !.pc = IF mem[w].error_count > 0 THEN "drain" ELSE "free"]
<1>2. Status(mem[w]) \in {"SUCCESS", "PARTIAL", "ERROR"}
  BY DEF Status
<1>3. mem[w].error_count \in Nat
  BY <1>1 DEF Memory
<1>4. mem[w].error_count > 0 \/ Status(mem[w]) = "SUCCESS"
  BY <1>3 DEF Status
<1>5. Continues(w, m)
  BY <1>1, <1>2, <1>4 DEF Continues, Memory
<1> QED
  BY <1>5 DEF MakeReport, QuietStep

LEMMA DrainForms ==
  ASSUME TypeOK, NEW w \in Workers, DrainOne(w)
  PROVE  QuietStep(w) \/ DrainStep(w)
<1>1. mem[w].pc = "drain" /\ mem[w] \in Memory /\ Active(w)
  BY MemoryOf DEF DrainOne, Active
<1>2. CASE mem[w].error_qid = gen /\ errq # << >>
  BY <1>1, <1>2 DEF DrainStep
<1>3. CASE ~(mem[w].error_qid = gen /\ errq # << >>)
  <2> DEFINE m == [mem[w] EXCEPT !.pc = "free"]
  <2>1. Continues(w, m)
    BY <1>1, <1>3 DEF Continues, Memory
  <2> QED
    BY <1>3, <2>1 DEF DrainOne, QuietStep
<1> QED
  BY <1>2, <1>3

\* A step of a running worker leaves the queue alone, puts a message into it,
\* takes one from it, or removes it.
LEMMA WorkForms ==
  ASSUME TypeOK, NEW w \in Workers, Work(w)
  PROVE  QuietStep(w) \/ RaiseStep(w) \/ DrainStep(w) \/ Free(w)
BY OpenTargetForms, DeleteOneForms, CopyOneForms, OneFileForms, MakeReportForms, DrainForms
DEF Work

-----------------------------------------------------------------------------
\* The initial states.

LEMMA InitIInv == Init => IInv
<1> SUFFICES ASSUME Init PROVE IInv
  OBVIOUS
<1>1. Fresh \in Memory
  BY WorkerAssumption DEF Fresh, Memory, Operations
<1>2. \A w \in Workers : mem[w] = Fresh /\ mem[w].pc = "idle" /\ mem[w].error_qid = 0
  BY DEF Init, Fresh
<1>3. TypeOK
  BY <1>1, WorkerAssumption DEF Init, TypeOK
<1>4. QueueOfTheRunning /\ QueueWasOpened /\ NoneIsEmpty
  BY <1>2 DEF Init, QueueOfTheRunning, QueueWasOpened, NoneIsEmpty
<1>5. NoQueueLeft /\ MessagesOfTheLiving /\ OwnBooks
  BY <1>2 DEF Init, NoQueueLeft, MessagesOfTheLiving, OwnBooks
<1> QED
  BY <1>3, <1>4, <1>5 DEF IInv

-----------------------------------------------------------------------------
\* Every step keeps the invariant, one lemma per kind of step.

\* After a step of w that goes on, everybody has the queue it had.
LEMMA ContinuesSame ==
  ASSUME TypeOK, NEW w \in Workers, NEW m, Continues(w, m), NEW n \in Memory,
         n.pc = m.pc, n.error_qid = m.error_qid, Becomes(w, n)
  PROVE  /\ mem' \in [Workers -> Memory]
         /\ mem'[w] = n
         /\ \A v \in Workers \ {w} : mem'[v] = mem[v]
         /\ \A v \in Workers : /\ mem'[v].error_qid = mem[v].error_qid
                               /\ Active(v)' = Active(v)
                               /\ mem'[v].pc = "idle" <=> mem[v].pc = "idle"
                               /\ OwnQueue(v)' = OwnQueue(v)
<1>1. /\ mem' = [mem EXCEPT ![w] = n]
      /\ mem \in [Workers -> Memory]
  BY DEF Becomes, TypeOK
<1>2. /\ mem' \in [Workers -> Memory]
      /\ mem'[w] = n
      /\ \A v \in Workers \ {w} : mem'[v] = mem[v]
  BY <1>1
<1>3. \A v \in Workers : mem'[v].error_qid = mem[v].error_qid
  BY <1>2 DEF Continues
<1>4. \A v \in Workers : /\ Active(v)' = Active(v)
                         /\ mem'[v].pc = "idle" <=> mem[v].pc = "idle"
  BY <1>2 DEF Continues, Active
<1>5. \A v \in Workers : OwnQueue(v)' = OwnQueue(v)
  BY <1>3 DEF OwnQueue
<1> QED
  BY <1>2, <1>3, <1>4, <1>5

\* A worker that runs and has its queue to itself has the queue there is.
LEMMA OwnIsThere ==
  ASSUME IInv, NEW w \in Workers, Active(w), OwnQueue(w)
  PROVE  mem[w].error_qid = gen /\ OnlyOwn(w)
BY DEF IInv, OwnBooks, OnlyOwn, Active

LEMMA QuietKeeps ==
  ASSUME IInv, NEW w \in Workers, QuietStep(w)
  PROVE  IInv'
<1> USE DEF IInv
<1>1. PICK m : Continues(w, m) /\ Quietly(w, m)
  BY DEF QuietStep
<1>2. /\ UNCHANGED <<gen, lastGen, errq, kills>> /\ Becomes(w, m) /\ m \in Memory
  BY <1>1 DEF Quietly, Continues
<1>3. /\ mem' \in [Workers -> Memory]
      /\ mem'[w] = m
      /\ \A v \in Workers \ {w} : mem'[v] = mem[v]
      /\ \A v \in Workers : /\ mem'[v].error_qid = mem[v].error_qid
                            /\ Active(v)' = Active(v)
                            /\ mem'[v].pc = "idle" <=> mem[v].pc = "idle"
                            /\ OwnQueue(v)' = OwnQueue(v)
  BY <1>1, <1>2, ContinuesSame
<1>4. TypeOK'
  BY <1>2, <1>3 DEF TypeOK
<1>5. QueueOfTheRunning' /\ QueueWasOpened' /\ NoneIsEmpty'
  BY <1>2, <1>3 DEF QueueOfTheRunning, QueueWasOpened, NoneIsEmpty
<1>6. NoQueueLeft'
  BY <1>2, <1>3 DEF NoQueueLeft, Holds
<1>7. MessagesOfTheLiving'
  <2>1. \A i \in DOMAIN errq : errq[i] \in Workers
    BY DEF TypeOK
  <2> QED
    BY <1>2, <1>3, <2>1 DEF MessagesOfTheLiving, Holds
<1>8. OwnBooks'
  <2> SUFFICES ASSUME NEW v \in Workers, mem'[v].pc # "idle", OwnQueue(v)'
               PROVE  OnlyOwn(v)'
    BY DEF OwnBooks
  <2>1. OnlyOwn(v)
    BY <1>3 DEF OwnBooks
  <2>2. CASE v # w
    BY <1>2, <1>3, <2>1, <2>2 DEF OnlyOwn, Active
  <2>3. CASE v = w
    <3>1. Active(w) /\ OwnQueue(w) /\ Active(w)'
      BY <1>1, <1>3, <2>3 DEF Continues
    <3>2. mem[w].error_qid = gen
      BY <3>1, OwnIsThere
    <3>3. /\ m.errors = mem[w].errors /\ m.made = mem[w].made
          /\ m.error_qid = mem[w].error_qid /\ m.pc # "reported"
          /\ m.pc = "free" /\ m.status \notin {"none", "SUCCESS"} => errq = << >>
      BY <1>1, <3>2 DEF Continues
    <3> QED
      BY <1>2, <1>3, <2>1, <2>3, <3>1, <3>3 DEF OnlyOwn
  <2> QED
    BY <2>2, <2>3
<1> QED
  BY <1>4, <1>5, <1>6, <1>7, <1>8

\* A message goes into the queue its worker opened, if that is still there.
LEMMA RaiseKeeps ==
  ASSUME IInv, NEW w \in Workers, RaiseStep(w)
  PROVE  IInv'
<1> USE DEF IInv
<1>1. PICK m : Continues(w, m) /\ m.pc # "free" /\ Raise(w, m)
  BY DEF RaiseStep
<1> DEFINE n == [m EXCEPT !.made = @ + 1]
<1>2. m \in Memory /\ Active(w) /\ w \in Workers
  BY <1>1 DEF Continues
<1>3. /\ n \in Memory /\ n.pc = m.pc /\ n.error_qid = m.error_qid
      /\ n.errors = m.errors /\ n.made = m.made + 1
  BY <1>2 DEF Memory
<1>4. /\ UNCHANGED <<gen, lastGen, kills>> /\ Becomes(w, n)
      /\ mem[w].error_qid = gen => /\ Len(errq) < ErrorCapacity
                                   /\ errq' = Append(errq, w)
      /\ mem[w].error_qid # gen => errq' = errq
  BY <1>1 DEF Raise
<1> HIDE DEF n
<1>5. /\ mem' \in [Workers -> Memory]
      /\ mem'[w] = n
      /\ \A v \in Workers \ {w} : mem'[v] = mem[v]
      /\ \A v \in Workers : /\ mem'[v].error_qid = mem[v].error_qid
                            /\ Active(v)' = Active(v)
                            /\ mem'[v].pc = "idle" <=> mem[v].pc = "idle"
                            /\ OwnQueue(v)' = OwnQueue(v)
  BY <1>1, <1>3, <1>4, ContinuesSame
<1>6. TypeOK'
  <2>1. errq' \in Seq(Workers) /\ Len(errq') <= ErrorCapacity
    <3>1. errq \in Seq(Workers) /\ Len(errq) \in Nat /\ Len(errq) <= ErrorCapacity
      BY DEF TypeOK
    <3>2. CASE errq' = errq
      BY <3>1, <3>2
    <3>3. CASE Len(errq) < ErrorCapacity /\ errq' = Append(errq, w)
      BY <3>1, <3>3, WorkerAssumption
    <3> QED
      BY <1>4, <3>2, <3>3
  <2> QED
    BY <1>4, <1>5, <2>1 DEF TypeOK
<1>7. QueueOfTheRunning' /\ QueueWasOpened'
  BY <1>4, <1>5 DEF QueueOfTheRunning, QueueWasOpened
<1>8. NoneIsEmpty'
  BY <1>2, <1>4 DEF NoneIsEmpty, QueueOfTheRunning, Active
<1>9. NoQueueLeft'
  BY <1>4, <1>5 DEF NoQueueLeft, Holds
<1>10. MessagesOfTheLiving'
  <2> SUFFICES ASSUME kills = 0, NEW i \in DOMAIN errq'
               PROVE  Holds(errq[i])'
    BY <1>4 DEF MessagesOfTheLiving
  <2>1. CASE i \in DOMAIN errq /\ errq'[i] = errq[i]
    <3>1. errq[i] \in Workers /\ Holds(errq[i])
      BY <2>1 DEF TypeOK, MessagesOfTheLiving
    <3> QED
      BY <1>4, <1>5, <2>1, <3>1 DEF Holds
  <2>2. CASE errq'[i] = w /\ mem[w].error_qid = gen
    BY <1>2, <1>4, <1>5, <2>2 DEF Holds
  <2>3. errq \in Seq(Workers)
    BY DEF TypeOK
  <2>4. CASE errq' = errq
    BY <2>1, <2>4
  <2>5. CASE mem[w].error_qid = gen /\ errq' = Append(errq, w)
    <3>1. \/ i \in DOMAIN errq /\ errq'[i] = errq[i]
          \/ errq'[i] = w
      BY <2>3, <2>5
    <3> QED
      BY <2>1, <2>2, <2>5, <3>1
  <2> QED
    BY <1>4, <2>4, <2>5
<1>11. OwnBooks'
  <2> SUFFICES ASSUME NEW v \in Workers, mem'[v].pc # "idle", OwnQueue(v)'
               PROVE  OnlyOwn(v)'
    BY DEF OwnBooks
  <2>1. OnlyOwn(v) /\ OwnQueue(v)
    BY <1>5 DEF OwnBooks
  <2>2. CASE v # w
    <3>1. errq' = errq \/ ~Active(v)
      <4>1. mem[w].error_qid # mem[v].error_qid
        BY <2>1, <2>2 DEF OwnQueue
      <4> QED
        BY <1>4, <2>1, <4>1, OwnIsThere
    <3>2. ~Active(v) => mem[v].pc # "free"
      BY DEF Active
    <3> QED
      BY <1>4, <1>5, <2>1, <2>2, <3>1, <3>2 DEF OnlyOwn
  <2>3. CASE v = w
    <3>1. mem[w].error_qid = gen
      BY <1>2, <2>1, <2>3, OwnIsThere
    <3>2. errq' = Append(errq, w) /\ errq \in Seq(Workers)
      BY <1>4, <3>1 DEF TypeOK
    <3>3. /\ n.errors = mem[w].errors /\ n.made = mem[w].made + 1
          /\ n.error_qid = gen /\ n.pc \notin {"free", "reported"}
      BY <1>1, <1>3, <3>1 DEF Continues
    <3>4. mem[w].errors \in Seq(Workers)
      BY MemoryOf DEF Memory
    <3>5. Len(mem[w].errors) + Len(errq') = mem[w].made + 1
      <4>1. Len(errq') = Len(errq) + 1 /\ Len(errq) \in Nat /\ Len(mem[w].errors) \in Nat
        BY <3>2, <3>4
      <4>2. Len(mem[w].errors) + Len(errq) = mem[w].made /\ mem[w].made \in Nat
        BY <1>2, <2>1, <2>3, MemoryOf DEF OnlyOwn, Memory
      <4>3. \A a, b \in Nat : a + (b + 1) = a + b + 1
        OBVIOUS
      <4> QED
        BY <4>1, <4>2, <4>3
    <3>6. \A i \in DOMAIN errq' : errq'[i] = w
      <4>1. \A i \in DOMAIN errq : errq[i] = w
        BY <1>2, <2>1, <2>3 DEF OnlyOwn
      <4> QED
        BY <3>2, <4>1
    <3> QED
      BY <1>4, <1>5, <2>1, <2>3, <3>3, <3>5, <3>6 DEF OnlyOwn
  <2> QED
    BY <2>2, <2>3
<1> QED
  BY <1>6, <1>7, <1>8, <1>9, <1>10, <1>11

\* The oldest message goes from the queue into the report of who drains it.
LEMMA DrainKeeps ==
  ASSUME IInv, NEW w \in Workers, DrainStep(w)
  PROVE  IInv'
<1> USE DEF IInv
<1> DEFINE n == [mem[w] EXCEPT !.errors = Append(@, Head(errq))]
<1>1. /\ mem[w].pc = "drain" /\ Active(w) /\ mem[w].error_qid = gen /\ errq # << >>
      /\ Becomes(w, n) /\ errq' = Tail(errq) /\ UNCHANGED <<gen, lastGen, kills>>
  BY DEF DrainStep, DrainOne, Active
<1>2. /\ errq \in Seq(Workers) /\ Head(errq) \in Workers /\ Tail(errq) \in Seq(Workers)
      /\ Len(errq) = Len(Tail(errq)) + 1 /\ Len(Tail(errq)) \in Nat
      /\ \A i \in DOMAIN Tail(errq) : i + 1 \in DOMAIN errq /\ Tail(errq)[i] = errq[i + 1]
      /\ 1 \in DOMAIN errq /\ Head(errq) = errq[1]
  BY <1>1 DEF TypeOK
<1>3. /\ n \in Memory /\ n.pc = "drain" /\ n.error_qid = mem[w].error_qid
      /\ n.errors = Append(mem[w].errors, Head(errq)) /\ n.made = mem[w].made
      /\ mem[w].errors \in Seq(Workers) /\ mem[w].made \in Nat
  <2>1. mem[w] \in Memory /\ mem[w].errors \in Seq(Workers) /\ mem[w].made \in Nat
    BY MemoryOf DEF Memory
  <2>2. Append(mem[w].errors, Head(errq)) \in Seq(Workers)
    BY <1>2, <2>1
  <2> QED
    BY <1>1, <2>1, <2>2 DEF Memory
<1>4. Continues(w, mem[w])
  BY <1>1, MemoryOf DEF Continues
<1> HIDE DEF n
<1>5. /\ mem' \in [Workers -> Memory]
      /\ mem'[w] = n
      /\ \A v \in Workers \ {w} : mem'[v] = mem[v]
      /\ \A v \in Workers : /\ mem'[v].error_qid = mem[v].error_qid
                            /\ Active(v)' = Active(v)
                            /\ mem'[v].pc = "idle" <=> mem[v].pc = "idle"
                            /\ OwnQueue(v)' = OwnQueue(v)
  BY <1>1, <1>3, <1>4, ContinuesSame
<1>6. TypeOK'
  <2>1. errq' \in Seq(Workers) /\ Len(errq') <= ErrorCapacity
    BY <1>1, <1>2, WorkerAssumption DEF TypeOK
  <2> QED
    BY <1>1, <1>5, <2>1 DEF TypeOK
<1>7. QueueOfTheRunning' /\ QueueWasOpened'
  BY <1>1, <1>5 DEF QueueOfTheRunning, QueueWasOpened
<1>8. NoneIsEmpty'
  BY <1>1 DEF NoneIsEmpty
<1>9. NoQueueLeft'
  BY <1>1, <1>5 DEF NoQueueLeft, Holds
<1>10. MessagesOfTheLiving'
  <2> SUFFICES ASSUME kills = 0, NEW i \in DOMAIN errq'
               PROVE  Holds(errq[i])'
    BY <1>1 DEF MessagesOfTheLiving
  <2>1. i + 1 \in DOMAIN errq /\ errq'[i] = errq[i + 1]
    BY <1>1, <1>2
  <2>2. errq[i + 1] \in Workers /\ Holds(errq[i + 1])
    BY <1>2, <2>1 DEF MessagesOfTheLiving
  <2> QED
    BY <1>1, <1>5, <2>1, <2>2 DEF Holds
<1>11. OwnBooks'
  <2> SUFFICES ASSUME NEW v \in Workers, mem'[v].pc # "idle", OwnQueue(v)'
               PROVE  OnlyOwn(v)'
    BY DEF OwnBooks
  <2>1. OnlyOwn(v) /\ OwnQueue(v)
    BY <1>5 DEF OwnBooks
  <2>2. CASE v # w
    <3>1. ~Active(v)
      <4>1. mem[w].error_qid # mem[v].error_qid
        BY <2>1, <2>2 DEF OwnQueue
      <4> QED
        BY <1>1, <2>1, <4>1, OwnIsThere
    <3>2. mem[v].pc # "free"
      BY <3>1 DEF Active
    <3> QED
      BY <1>1, <1>5, <2>1, <2>2, <3>1, <3>2 DEF OnlyOwn
  <2>3. CASE v = w
    <3>1. /\ \A i \in DOMAIN mem[w].errors : mem[w].errors[i] = w
          /\ Len(mem[w].errors) + Len(errq) = mem[w].made
          /\ \A i \in DOMAIN errq : errq[i] = w
      BY <1>1, <2>1, <2>3 DEF OnlyOwn
    <3>2. \A i \in DOMAIN n.errors : n.errors[i] = w
      <4>1. Head(errq) = w
        BY <1>2, <3>1
      <4> QED
        BY <1>3, <3>1, <4>1
    <3>3. Len(n.errors) + Len(errq') = mem[w].made
      <4>1. Len(n.errors) = Len(mem[w].errors) + 1 /\ Len(mem[w].errors) \in Nat
        BY <1>2, <1>3
      <4>2. \A a, b \in Nat : (a + 1) + b = a + (b + 1)
        OBVIOUS
      <4> QED
        BY <1>1, <1>2, <3>1, <4>1, <4>2
    <3>4. \A i \in DOMAIN errq' : errq'[i] = w
      BY <1>1, <1>2, <3>1
    <3> QED
      BY <1>1, <1>3, <1>5, <2>3, <3>2, <3>3, <3>4 DEF OnlyOwn
  <2> QED
    BY <2>2, <2>3
<1> QED
  BY <1>6, <1>7, <1>8, <1>9, <1>10, <1>11

\* A step that ends w, by free_memory or by a signal, changes nobody else.
LEMMA EndSame ==
  ASSUME TypeOK, NEW w \in Workers, Active(w), NEW end \in {"reported", "mute"},
         Becomes(w, [mem[w] EXCEPT !.pc = end])
  PROVE  /\ mem' \in [Workers -> Memory]
         /\ mem'[w].pc = end /\ mem'[w].status = mem[w].status
         /\ mem'[w].errors = mem[w].errors /\ mem'[w].made = mem[w].made
         /\ ~Active(w)'
         /\ \A v \in Workers \ {w} : mem'[v] = mem[v]
         /\ \A v \in Workers : /\ mem'[v].error_qid = mem[v].error_qid
                               /\ mem'[v].pc = "idle" <=> mem[v].pc = "idle"
                               /\ OwnQueue(v)' = OwnQueue(v)
<1> DEFINE n == [mem[w] EXCEPT !.pc = end]
<1>1. /\ n \in Memory /\ n.pc = end /\ n.status = mem[w].status
      /\ n.errors = mem[w].errors /\ n.made = mem[w].made
      /\ n.error_qid = mem[w].error_qid
  BY MemoryOf DEF Memory
<1>2. mem' = [mem EXCEPT ![w] = n] /\ mem \in [Workers -> Memory]
  BY DEF Becomes, TypeOK
<1> HIDE DEF n
<1>3. /\ mem' \in [Workers -> Memory]
      /\ mem'[w] = n
      /\ \A v \in Workers \ {w} : mem'[v] = mem[v]
  BY <1>1, <1>2
<1>4. \A v \in Workers : mem'[v].error_qid = mem[v].error_qid
  BY <1>1, <1>3
<1>5. \A v \in Workers : OwnQueue(v)' = OwnQueue(v)
  BY <1>4 DEF OwnQueue
<1>6. \A v \in Workers : mem'[v].pc = "idle" <=> mem[v].pc = "idle"
  BY <1>1, <1>3 DEF Active
<1> QED
  BY <1>1, <1>3, <1>4, <1>5, <1>6 DEF Active

\* free_memory removes the queue of w, if it is still there.
LEMMA FreeKeeps ==
  ASSUME IInv, NEW w \in Workers, Free(w)
  PROVE  IInv'
<1> USE DEF IInv
<1> DEFINE end == IF mem[w].status = "none" THEN "mute" ELSE "reported"
<1>1. /\ mem[w].pc = "free" /\ Active(w) /\ end \in {"reported", "mute"}
      /\ Becomes(w, [mem[w] EXCEPT !.pc = end])
      /\ UNCHANGED <<lastGen, kills>>
      /\ mem[w].error_qid = gen => gen' = 0 /\ errq' = << >>
      /\ mem[w].error_qid # gen => UNCHANGED <<gen, errq>>
  BY DEF Free, Active
<1>2. /\ mem' \in [Workers -> Memory]
      /\ mem'[w].pc = end /\ mem'[w].status = mem[w].status
      /\ mem'[w].errors = mem[w].errors /\ mem'[w].made = mem[w].made
      /\ ~Active(w)'
      /\ \A v \in Workers \ {w} : mem'[v] = mem[v]
      /\ \A v \in Workers : /\ mem'[v].error_qid = mem[v].error_qid
                            /\ mem'[v].pc = "idle" <=> mem[v].pc = "idle"
                            /\ OwnQueue(v)' = OwnQueue(v)
  BY <1>1, EndSame
<1>3. TypeOK'
  <2>1. CASE mem[w].error_qid = gen
    BY <1>1, <1>2, <2>1, WorkerAssumption DEF TypeOK
  <2>2. CASE mem[w].error_qid # gen
    BY <1>1, <1>2, <2>2 DEF TypeOK
  <2> QED
    BY <2>1, <2>2
<1>4. QueueOfTheRunning' /\ QueueWasOpened' /\ NoneIsEmpty'
  BY <1>1, <1>2 DEF QueueOfTheRunning, QueueWasOpened, NoneIsEmpty
<1>5. NoQueueLeft'
  <2> SUFFICES ASSUME gen' # 0, kills = 0
               PROVE  \E v \in Workers : Holds(v)'
    BY <1>1 DEF NoQueueLeft
  <2>1. mem[w].error_qid # gen /\ UNCHANGED <<gen, errq>>
    BY <1>1
  <2>2. PICK v \in Workers : Holds(v)
    BY <2>1 DEF NoQueueLeft
  <2>3. v # w
    BY <2>1, <2>2 DEF Holds
  <2> QED
    BY <1>2, <2>1, <2>2, <2>3 DEF Holds, Active
<1>6. MessagesOfTheLiving'
  <2>1. CASE mem[w].error_qid = gen
    BY <1>1, <2>1 DEF MessagesOfTheLiving
  <2>2. CASE mem[w].error_qid # gen
    <3>1. \A v \in Workers : Holds(v) => Holds(v)'
      BY <1>1, <1>2, <2>2 DEF Holds, Active
    <3>2. \A i \in DOMAIN errq : errq[i] \in Workers
      BY DEF TypeOK
    <3> QED
      BY <1>1, <2>2, <3>1, <3>2 DEF MessagesOfTheLiving
  <2> QED
    BY <2>1, <2>2
<1>7. OwnBooks'
  <2> SUFFICES ASSUME NEW v \in Workers, mem'[v].pc # "idle", OwnQueue(v)'
               PROVE  OnlyOwn(v)'
    BY DEF OwnBooks
  <2>1. OnlyOwn(v) /\ OwnQueue(v)
    BY <1>2 DEF OwnBooks
  <2>2. CASE v # w
    <3>1. mem[w].error_qid # mem[v].error_qid
      BY <2>1, <2>2 DEF OwnQueue
    <3>2. UNCHANGED <<gen, errq>> \/ ~Active(v)
      BY <1>1, <2>1, <3>1, OwnIsThere
    <3> QED
      BY <1>2, <2>1, <2>2, <3>2 DEF OnlyOwn, Active
  <2>3. CASE v = w
    <3>1. /\ \A i \in DOMAIN mem[w].errors : mem[w].errors[i] = w
          /\ Len(mem[w].errors) + Len(errq) = mem[w].made
          /\ mem[w].status \notin {"none", "SUCCESS"} => errq = << >>
      BY <1>1, <2>1, <2>3 DEF OnlyOwn
    <3>2. mem'[w].pc = "reported" => mem[w].status # "none"
      BY <1>2
    <3>3. mem[w].errors \in Seq(Workers) /\ mem[w].made \in Nat
      BY MemoryOf DEF Memory
    <3>4. errq = << >> => Len(mem[w].errors) = mem[w].made
      BY <3>1, <3>3
    <3>5. mem'[w].pc # "free"
      BY <1>2
    <3> QED
      BY <1>2, <2>3, <3>1, <3>2, <3>4, <3>5 DEF OnlyOwn
  <2> QED
    BY <2>2, <2>3
<1> QED
  BY <1>3, <1>4, <1>5, <1>6, <1>7

\* A signal takes a worker away; what is claimed while none did is over.
LEMMA KillKeeps ==
  ASSUME IInv, NEW w \in Workers, Kill(w)
  PROVE  IInv'
<1> USE DEF IInv
<1>1. /\ Active(w) /\ Becomes(w, [mem[w] EXCEPT !.pc = "mute"])
      /\ kills < MaxKills /\ kills' = kills + 1
      /\ UNCHANGED <<gen, lastGen, errq>>
  BY DEF Kill
<1>2. /\ mem' \in [Workers -> Memory]
      /\ mem'[w].pc = "mute" /\ mem'[w].errors = mem[w].errors
      /\ ~Active(w)'
      /\ \A v \in Workers \ {w} : mem'[v] = mem[v]
      /\ \A v \in Workers : /\ mem'[v].error_qid = mem[v].error_qid
                            /\ mem'[v].pc = "idle" <=> mem[v].pc = "idle"
                            /\ OwnQueue(v)' = OwnQueue(v)
  BY <1>1, EndSame
<1>3. kills' \in 0..MaxKills /\ kills' # 0
  BY <1>1, WorkerAssumption DEF TypeOK
<1>4. TypeOK'
  BY <1>1, <1>2, <1>3 DEF TypeOK
<1>5. QueueOfTheRunning' /\ QueueWasOpened' /\ NoneIsEmpty'
  BY <1>1, <1>2 DEF QueueOfTheRunning, QueueWasOpened, NoneIsEmpty
<1>6. NoQueueLeft' /\ MessagesOfTheLiving'
  BY <1>3 DEF NoQueueLeft, MessagesOfTheLiving
<1>7. OwnBooks'
  <2> SUFFICES ASSUME NEW v \in Workers, mem'[v].pc # "idle", OwnQueue(v)'
               PROVE  OnlyOwn(v)'
    BY DEF OwnBooks
  <2>1. OnlyOwn(v)
    BY <1>2 DEF OwnBooks
  <2> QED
    BY <1>1, <1>2, <2>1 DEF OnlyOwn, Active
<1> QED
  BY <1>4, <1>5, <1>6, <1>7

\* init_queue makes a queue, which is new and empty, or joins the one there is.
LEMMA StartKeeps ==
  ASSUME IInv, NEW w \in Workers, NEW operation \in Operations, Start(w, operation)
  PROVE  IInv'
<1> USE DEF IInv
<1>1. PICK m : /\ m \in Memory /\ Becomes(w, m)
               /\ m.pc \in {"target", "file", "free"}
               /\ m.pc = "free" => m.status = "none"
               /\ m.error_qid = gen' /\ m.errors = << >> /\ m.made = 0
  <2> DEFINE pc == CASE operation = "FULL"    -> "target"
                     [] operation = "unknown" -> "free"
                     [] OTHER                 -> "file"
             m == [Fresh EXCEPT !.operation = operation, !.error_qid = gen', !.pc = pc]
  <2>1. pc \in {"target", "file", "free"}
    OBVIOUS
  <2>2. gen' \in Nat
    BY DEF Start, TypeOK
  <2> HIDE DEF pc
  <2>3. m \in Memory
    <3>1. Fresh \in Memory
      BY WorkerAssumption DEF Fresh, Memory, Operations
    <3>2. \A f \in Memory, q \in Nat, p \in {"target", "file", "free"} :
             [f EXCEPT !.operation = operation, !.error_qid = q, !.pc = p] \in Memory
      BY DEF Memory
    <3> QED
      BY <2>1, <2>2, <3>1, <3>2
  <2>4. /\ m.pc = pc /\ m.status = "none" /\ m.error_qid = gen'
        /\ m.errors = << >> /\ m.made = 0
    BY DEF Fresh
  <2>5. Becomes(w, m)
    BY DEF Start, pc
  <2> QED
    BY <2>1, <2>3, <2>4, <2>5
<1>2. /\ mem[w].pc = "idle" /\ mem[w].error_qid = 0
      /\ UNCHANGED <<errq, kills>>
      /\ lastGen \in Nat /\ lastGen' \in Nat /\ lastGen <= lastGen'
      /\ gen' = lastGen' /\ gen' # 0
      /\ \/ gen = 0 /\ gen' = lastGen + 1
         \/ gen # 0 /\ gen' = gen /\ lastGen' = lastGen
  BY DEF Start, TypeOK, QueueOfTheRunning
<1>3. /\ mem' \in [Workers -> Memory]
      /\ mem'[w] = m
      /\ \A v \in Workers \ {w} : mem'[v] = mem[v]
  BY <1>1 DEF Becomes, TypeOK
<1>4. Active(w)' /\ ~Active(w) /\ Holds(w)'
  BY <1>1, <1>2, <1>3 DEF Active, Holds
<1>5. TypeOK'
  BY <1>2, <1>3 DEF TypeOK
<1>6. QueueOfTheRunning'
  <2> SUFFICES ASSUME NEW v \in Workers
               PROVE  /\ mem'[v].error_qid <= lastGen'
                      /\ mem'[v].pc # "idle" => mem'[v].error_qid # 0
                      /\ mem'[v].pc = "idle" => mem'[v].error_qid = 0
    BY DEF QueueOfTheRunning
  <2>1. CASE v = w
    BY <1>1, <1>2, <1>3, <2>1
  <2>2. CASE v # w
    <3>1. mem[v].error_qid \in Nat /\ mem[v].error_qid <= lastGen
      BY MemoryOf DEF Memory, QueueOfTheRunning
    <3> QED
      BY <1>2, <1>3, <2>2, <3>1 DEF QueueOfTheRunning
  <2> QED
    BY <2>1, <2>2
<1>7. QueueWasOpened' /\ NoneIsEmpty' /\ NoQueueLeft'
  BY <1>1, <1>2, <1>3, <1>4 DEF QueueWasOpened, NoneIsEmpty, NoQueueLeft
<1>8. MessagesOfTheLiving'
  <2>1. CASE gen = 0
    BY <1>2, <2>1 DEF MessagesOfTheLiving, NoneIsEmpty
  <2>2. CASE gen # 0
    <3>1. \A v \in Workers : Holds(v) => Holds(v)'
      BY <1>2, <1>3, <1>4, <2>2 DEF Holds, Active
    <3>2. \A i \in DOMAIN errq : errq[i] \in Workers
      BY DEF TypeOK
    <3> QED
      BY <1>2, <3>1, <3>2 DEF MessagesOfTheLiving
  <2> QED
    BY <2>1, <2>2
<1>9. OwnBooks'
  <2> SUFFICES ASSUME NEW v \in Workers, mem'[v].pc # "idle", OwnQueue(v)'
               PROVE  OnlyOwn(v)'
    BY DEF OwnBooks
  <2>1. CASE v # w
    <3>1. mem'[v] = mem[v] /\ mem[v].pc # "idle" /\ mem[v].error_qid # 0
      BY <1>3, <2>1 DEF QueueOfTheRunning
    <3>2. OwnQueue(v)
      <4> SUFFICES ASSUME NEW u \in Workers \ {v}
                   PROVE  mem[u].error_qid # mem[v].error_qid
        BY DEF OwnQueue
      <4>1. mem'[u].error_qid # mem[v].error_qid
        BY <3>1 DEF OwnQueue
      <4> QED
        BY <1>2, <1>3, <3>1, <4>1
    <3>3. OnlyOwn(v)
      BY <3>1, <3>2 DEF OwnBooks
    <3>4. ~Active(v)
      <4>1. mem[v].error_qid # gen'
        BY <1>1, <1>3, <2>1, <3>1 DEF OwnQueue
      <4>2. Active(v) => mem[v].error_qid = gen
        BY <3>2, OwnIsThere
      <4> QED
        BY <1>2, <3>1, <4>1, <4>2
    <3> QED
      BY <3>1, <3>3, <3>4 DEF OnlyOwn, Active
  <2>2. CASE v = w
    <3>1. gen = 0
      <4> SUFFICES ASSUME gen # 0 PROVE FALSE
        OBVIOUS
      <4>1. PICK u \in Workers : mem[u].error_qid = gen
        BY DEF QueueWasOpened
      <4>2. u # w /\ mem'[u].error_qid = mem'[w].error_qid
        BY <1>1, <1>2, <1>3, <4>1
      <4> QED
        BY <2>2, <4>2 DEF OwnQueue
    <3>2. errq' = << >>
      BY <1>2, <3>1 DEF NoneIsEmpty
    <3> QED
      BY <1>1, <1>3, <2>2, <3>2 DEF OnlyOwn
  <2> QED
    BY <2>1, <2>2
<1> QED
  BY <1>5, <1>6, <1>7, <1>8, <1>9

LEMMA NextKeeps == IInv /\ [Next]_vars => IInv'
<1> SUFFICES ASSUME IInv, [Next]_vars PROVE IInv'
  OBVIOUS
<1>1. ASSUME NEW w \in Workers, NEW operation \in Operations, Start(w, operation)
      PROVE  IInv'
  BY <1>1, StartKeeps
<1>2. ASSUME NEW w \in Workers, Work(w) PROVE IInv'
  BY <1>2, WorkForms, QuietKeeps, RaiseKeeps, DrainKeeps, FreeKeeps DEF IInv
<1>3. ASSUME NEW w \in Workers, Kill(w) PROVE IInv'
  BY <1>3, KillKeeps
<1>4. CASE UNCHANGED vars
  BY <1>4 DEF vars, IInv, TypeOK, QueueOfTheRunning, QueueWasOpened, NoneIsEmpty,
     NoQueueLeft, MessagesOfTheLiving, OwnBooks, OnlyOwn, OwnQueue, Holds, Active
<1> QED
  BY <1>1, <1>2, <1>3, <1>4 DEF Next

(***************************************************************************)
(* The inductive invariant holds in every reachable state.                 *)
(***************************************************************************)
THEOREM Inductive == Spec => []IInv
<1> QED
  BY InitIInv, NextKeeps, PTL DEF Spec

-----------------------------------------------------------------------------
(***************************************************************************)
(* The variables keep their types; counters and the rest of a directory    *)
(* never fall below zero.                                                  *)
(***************************************************************************)
THEOREM TypeCorrect == Spec => []TypeOK
<1>1. IInv => TypeOK
  BY DEF IInv
<1> QED
  BY <1>1, Inductive, PTL

(***************************************************************************)
(* While nobody is killed, some running worker will remove the queue.      *)
(***************************************************************************)
THEOREM QueueRemoved == Spec => []NoQueueLeft
<1>1. IInv => NoQueueLeft
  BY DEF IInv
<1> QED
  BY <1>1, Inductive, PTL

(***************************************************************************)
(* While nobody is killed, no message outlives the worker that made it.    *)
(***************************************************************************)
THEOREM NoOldMessages == Spec => []MessagesOfTheLiving
<1>1. IInv => MessagesOfTheLiving
  BY DEF IInv
<1> QED
  BY <1>1, Inductive, PTL

(***************************************************************************)
(* A worker that had the queue to itself reports its own messages, all of  *)
(* them, whoever was killed before or beside it.                           *)
(***************************************************************************)
THEOREM OwnErrorsReported == Spec => []OwnErrors
<1>1. IInv => OwnErrors
  <2> SUFFICES ASSUME IInv, NEW w \in Workers, mem[w].pc = "reported",
                      mem[w].status # "SUCCESS", OwnQueue(w)
               PROVE  /\ Len(mem[w].errors) = mem[w].made
                      /\ \A i \in DOMAIN mem[w].errors : mem[w].errors[i] = w
    BY DEF OwnErrors
  <2> QED
    BY DEF IInv, OwnBooks, OnlyOwn
<1> QED
  BY <1>1, Inductive, PTL
=============================================================================
