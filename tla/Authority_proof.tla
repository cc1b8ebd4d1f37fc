--------------------------- MODULE Authority_proof ---------------------------
(***************************************************************************)
(* Proofs about the authority of the sources and about the ledger that is  *)
(* told of its transitions.                                                *)
(*                                                                         *)
(* AuthorityLedger: for any number of threads, any capacity and any number *)
(* of records.  The inductive invariant says that what is under way (in    *)
(* the queue, with the writer, under the lock) is in order and ahead of    *)
(* the advertised prefix, and that until the first loss it is everything   *)
(* the prefix lacks.                                                       *)
(*                                                                         *)
(* SourceAuthority: for any number of files and requests and any pattern   *)
(* of changes, failures and interleavings of the two threads.              *)
(***************************************************************************)
EXTENDS AuthorityLedger, SourceAuthority, FiniteSetTheorems, TLAPS

Projecting == writer \in {"recording", "noting"}
IdleWriter == writer \in {"dead", "waiting"}

\* One thread at most is under the authority lock, with the newest record.
LockInv ==
  /\ \A t, u \in Threads : InsideLock(t) /\ InsideLock(u) => t = u
  /\ \A t \in Threads : InsideLock(t) => through < head /\ head \notin records
  /\ \A t \in Threads : InsideLock(t) =>
       \A i \in DOMAIN queue : queue[i] < head

\* The queue is in order of sequence, ahead of the prefix and of the disk.
QueueInv ==
  /\ \A i \in DOMAIN queue : queue[i] # Stop =>
       queue[i] <= head /\ through < queue[i] /\ \A s \in records : s < queue[i]
  /\ \A i, j \in DOMAIN queue :
       i < j /\ queue[i] # Stop /\ queue[j] # Stop => queue[i] < queue[j]

\* So is the record the writer is at, behind the queue and the lock.
ItemInv ==
  Projecting =>
    /\ through < item /\ item <= head
    /\ \A s \in records : s <= item
    /\ writer = "recording" => item \notin records
    /\ writer = "noting" => item \in records
    /\ \A i \in DOMAIN queue : queue[i] # Stop => item < queue[i]
    /\ \A t \in Threads : InsideLock(t) => item < head

\* The prefix is on disk; until the first loss it lacks only what is under
\* way; the first loss is nowhere.
PrefixInv ==
  /\ through <= head
  /\ \A s \in records : s <= head
  /\ \A s \in 1..through : s \in records
  /\ headDoc.through <= through /\ doc.through <= through
  /\ firstLost = Never =>
       \A s \in (through + 1)..head :
         \/ \E i \in DOMAIN queue : queue[i] = s
         \/ Projecting /\ item = s
         \/ \E t \in Threads : InsideLock(t) /\ head = s
  /\ firstLost # Never =>
       /\ firstLost \notin records
       /\ firstLost <= head
       /\ \A i \in DOMAIN queue : queue[i] # firstLost
       /\ Projecting => item # firstLost
       /\ \A t \in Threads : InsideLock(t) => head # firstLost

\* The prefix stops where the disk has a gap.
GapInv ==
  \/ through + 1 \notin records
  \/ writer = "noting" /\ item = through + 1

\* The head file agrees with memory while nothing is being written.
HeadInv ==
  /\ IdleWriter /\ ~degraded =>
       headDoc.last = lastProjected /\ headDoc.through = through
  /\ writer = "recording" /\ ~degraded =>
       headDoc.last = lastProjected /\ headDoc.through = through
  /\ writer = "replacing" => doc.last = lastProjected /\ doc.through = through

\* Completeness is lost with the first record that is.
CompleteInv == complete <=> firstLost = Never

Facts == LockInv /\ QueueInv /\ ItemInv /\ PrefixInv /\ GapInv /\ HeadInv

(***************************************************************************)
(* The state keeps its types, and the queue never holds more than Capacity *)
(* records.                                                                *)
(***************************************************************************)
\* A record under way has a sequence number.
ItemReal ==
  /\ Projecting => item # Never
  /\ \A t \in Threads : InsideLock(t) => head # Never

LEMMA LedgerTypeStep == LedgerTypeOK /\ ItemReal /\ [LedgerNext]_recordVars => LedgerTypeOK' /\ ItemReal'
<1> SUFFICES ASSUME LedgerTypeOK, ItemReal, [LedgerNext]_recordVars PROVE LedgerTypeOK' /\ ItemReal'
  OBVIOUS
<1> USE LedgerConstants DEF ItemReal, InsideLock, Projecting, LedgerTypeOK, Stop, Never,
        Sequence, ThreadStates, WriterStates
<1>1. ASSUME NEW t \in Threads, Advance(t) PROVE LedgerTypeOK' /\ ItemReal'
  BY <1>1 DEF Advance, writerVars, durabilityVars, lossVars, diskVars
<1>2. ASSUME NEW t \in Threads, Enqueue(t) PROVE LedgerTypeOK' /\ ItemReal'
  <2>1. queue' \in Seq(0..MaxSequence)
    <3>1. Append(queue, head) \in Seq(0..MaxSequence)
      OBVIOUS
    <3> QED BY <1>2, <3>1 DEF Enqueue
  <2>3. Len(queue') <= Capacity
    <3>1. CASE Len(queue) < Capacity
      BY <1>2, <3>1 DEF Enqueue
    <3>2. CASE ~(Len(queue) < Capacity)
      BY <1>2, <3>2 DEF Enqueue
    <3> QED BY <3>1, <3>2
  <2>2. step' \in [Threads -> ThreadStates]
    BY <1>2 DEF Enqueue
  <2> QED
    BY <1>2, <2>1, <2>2, <2>3 DEF Enqueue, chainVars, writerVars,
                                  durabilityVars, lossVars, diskVars
<1>3. ASSUME NEW t \in Threads, Lose(t) PROVE LedgerTypeOK' /\ ItemReal'
  <2>1. firstLost' \in 0..MaxSequence /\ lastLost' \in 0..MaxSequence
    BY <1>3 DEF Lose, MarkLost
  <2>2. through' \in 0..MaxSequence
    BY <1>3 DEF Lose, MarkLost
  <2>3. complete' \in BOOLEAN
    BY <1>3 DEF Lose, MarkLost
  <2>4. lostCount' \in Nat
    BY <1>3 DEF Lose, MarkLost
  <2> QED
    BY <1>3, <2>1, <2>2, <2>3, <2>4 DEF Lose, chainVars, writerVars, diskVars
<1>4. ASSUME NEW t \in Threads, ConsultClosed(t) \/ Reject(t) \/ StartFails(t)
      PROVE LedgerTypeOK' /\ ItemReal'
  BY <1>4 DEF ConsultClosed, Reject, StartFails, chainVars, writerVars,
              durabilityVars, lossVars, diskVars
<1>5. ASSUME NEW t \in Threads, StartWriter(t) \/ Freeze(t)
      PROVE LedgerTypeOK' /\ ItemReal'
  BY <1>5 DEF StartWriter, Freeze, chainVars, writerVars, durabilityVars,
              lossVars, diskVars
<1>6. CASE Close
  <2>1. queue' \in Seq(0..MaxSequence)
    <3>1. Append(queue, Stop) \in Seq(0..MaxSequence)
      OBVIOUS
    <3> QED BY <1>6, <3>1 DEF Close
  <2>2. Len(queue') <= Capacity
    <3>1. CASE writer # "dead" /\ Len(queue) < Capacity
      BY <1>6, <3>1 DEF Close
    <3>2. CASE ~(writer # "dead" /\ Len(queue) < Capacity)
      BY <1>6, <3>2 DEF Close
    <3> QED BY <3>1, <3>2
  <2> QED
    BY <1>6, <2>1, <2>2 DEF Close, chainVars, writerVars, durabilityVars, lossVars,
                      diskVars
<1>7. CASE Take
  <2>1. /\ queue' \in Seq(0..MaxSequence) /\ Len(queue') <= Capacity
        /\ item' \in 0..MaxSequence
        /\ writer' \in WriterStates /\ (writer' # "dead" => item' # Never)
    BY <1>7 DEF Take
  <2> QED
    BY <1>7, <2>1 DEF Take, chainVars, durabilityVars, lossVars, diskVars
<1>8. CASE RecordWritten
  BY <1>8 DEF RecordWritten, chainVars, durabilityVars, lossVars
<1>9. CASE RecordFails
  <2>1. firstLost' \in 0..MaxSequence /\ lastLost' \in 0..MaxSequence
    BY <1>9 DEF RecordFails, MarkLost
  <2>2. through' \in 0..MaxSequence
    BY <1>9 DEF RecordFails, MarkLost
  <2>3. complete' \in BOOLEAN
    BY <1>9 DEF RecordFails, MarkLost
  <2>4. lostCount' \in Nat
    BY <1>9 DEF RecordFails, MarkLost
  <2> QED
    BY <1>9, <2>1, <2>2, <2>3, <2>4 DEF RecordFails, chainVars, diskVars
<1>10. CASE Note
  BY <1>10 DEF Note, chainVars, diskVars
<1>11. CASE Snapshot
  BY <1>11 DEF Snapshot, StatusDocument, Document, chainVars, durabilityVars,
               lossVars, diskVars
<1>12. CASE HeadWritten \/ HeadFails
  BY <1>12 DEF HeadWritten, HeadFails, chainVars, lossVars, diskVars
<1>13. CASE UNCHANGED recordVars
  BY <1>13 DEF recordVars, chainVars, writerVars, durabilityVars, lossVars, diskVars
<1> QED
  BY <1>1, <1>2, <1>3, <1>4, <1>5, <1>6, <1>7, <1>8, <1>9, <1>10, <1>11, <1>12,
     <1>13 DEF LedgerNext, ThreadStep, WriterStep

LEMMA InitTyped == LedgerInit => LedgerTypeOK /\ ItemReal
<1> SUFFICES ASSUME LedgerInit PROVE LedgerTypeOK /\ ItemReal
  OBVIOUS
<1>1. doc \in Document /\ headDoc \in Document
  BY LedgerConstants DEF LedgerInit, EmptyDocument, Document
<1>2. queue \in Seq(0..MaxSequence) /\ Len(queue) <= Capacity
  BY LedgerConstants DEF LedgerInit
<1>3. frozen \in BOOLEAN /\ closed \in BOOLEAN /\ complete \in BOOLEAN
      /\ degraded \in BOOLEAN
  BY DEF LedgerInit
<1>4. /\ head \in 0..MaxSequence /\ item \in 0..MaxSequence
      /\ lastProjected \in 0..MaxSequence /\ through \in 0..MaxSequence
      /\ firstLost \in 0..MaxSequence /\ lastLost \in 0..MaxSequence
      /\ lostCount \in Nat
  BY LedgerConstants DEF LedgerInit, Never
<1>5. /\ step \in [Threads -> ThreadStates] /\ writer \in WriterStates
      /\ records \in SUBSET Sequence /\ ItemReal
  BY DEF LedgerInit, ItemReal, InsideLock, Projecting, ThreadStates, WriterStates
<1> QED
  BY <1>1, <1>2, <1>3, <1>4, <1>5 DEF LedgerTypeOK

\* The ledger's state keeps its types; in particular the projection queue is
\* bounded by its capacity, however many threads record at once.
THEOREM LedgerTypeCorrect == LedgerSpec => []LedgerTypeOK
  BY InitTyped, LedgerTypeStep, PTL DEF LedgerSpec

-----------------------------------------------------------------------------
(* The queue.                                                               *)

LEMMA SeqElements ==
  ASSUME NEW S, NEW q \in Seq(S)
  PROVE  \A i \in DOMAIN q : q[i] \in S
<1>1. q \in [1..Len(q) -> S]
  OBVIOUS
<1> QED BY <1>1

LEMMA AppendElements ==
  ASSUME NEW S, NEW q \in Seq(S), NEW e \in S
  PROVE  /\ DOMAIN Append(q, e) = 1..(Len(q) + 1)
         /\ DOMAIN q = 1..Len(q)
         /\ \A i \in DOMAIN q : Append(q, e)[i] = q[i]
         /\ Append(q, e)[Len(q) + 1] = e
         /\ Len(q) \in Nat
  OBVIOUS

LEMMA TailElements ==
  ASSUME NEW S, NEW q \in Seq(S), q # << >>
  PROVE  /\ Len(q) \in Nat /\ Len(q) >= 1
         /\ DOMAIN q = 1..Len(q)
         /\ DOMAIN Tail(q) = 1..(Len(q) - 1)
         /\ \A i \in DOMAIN Tail(q) : Tail(q)[i] = q[i + 1]
         /\ Head(q) = q[1]
  OBVIOUS

(***************************************************************************)
(* Facts is inductive, one action at a time.                               *)
(***************************************************************************)
Ints == /\ head \in Nat /\ through \in Nat /\ item \in Nat /\ firstLost \in Nat
        /\ \A i \in DOMAIN queue : queue[i] \in Nat
        /\ \A s \in records : s \in Nat /\ s >= 1
        /\ headDoc.through \in Nat /\ doc.through \in Nat

LEMMA TypeInts == LedgerTypeOK => Ints
<1> SUFFICES ASSUME LedgerTypeOK PROVE Ints
  OBVIOUS
<1>1. \A i \in DOMAIN queue : queue[i] \in 0..MaxSequence
  <2>1. queue \in Seq(0..MaxSequence)
    BY DEF LedgerTypeOK
  <2> QED BY <2>1, SeqElements
<1> QED
  BY <1>1, LedgerConstants DEF LedgerTypeOK, Ints, Document, Sequence

LEMMA AdvanceSafe ==
  ASSUME LedgerTypeOK, Facts, NEW t \in Threads, Advance(t)
  PROVE  Facts'
<1> USE TypeInts DEF Ints
<1>0. /\ head' = head + 1
      /\ UNCHANGED <<queue, writer, item, doc, lastProjected, through, firstLost,
                     degraded, records, headDoc>>
      /\ \A u \in Threads : ~InsideLock(u)
      /\ \A u \in Threads : InsideLock(u)' => u = t
      /\ InsideLock(t)'
  BY DEF Advance, LockFree, InsideLock, LedgerTypeOK, writerVars, durabilityVars, lossVars,
         diskVars
<1>1. LockInv'
  BY <1>0 DEF Facts, LockInv, PrefixInv, QueueInv, Stop
<1>2. QueueInv'
  BY <1>0 DEF Facts, QueueInv
<1>3. ItemInv'
  BY <1>0 DEF Facts, ItemInv, Projecting
<1>4. PrefixInv'
  BY <1>0 DEF Facts, PrefixInv, Projecting
<1>5. GapInv' /\ HeadInv'
  BY <1>0 DEF Facts, GapInv, HeadInv, IdleWriter
<1> QED
  BY <1>1, <1>2, <1>3, <1>4, <1>5 DEF Facts

\* A record moves from the lock to the end of the queue, or stays.
LEMMA EnqueueSafe ==
  ASSUME LedgerTypeOK, Facts, NEW t \in Threads, Enqueue(t)
  PROVE  Facts'
<1> USE TypeInts DEF Ints
<1>0. /\ UNCHANGED <<head, writer, item, doc, lastProjected, through, firstLost,
                     degraded, records, headDoc>>
      /\ InsideLock(t)
      /\ \A u \in Threads : InsideLock(u)' => u = t
  BY DEF Enqueue, InsideLock, Facts, LockInv, LedgerTypeOK, chainVars, writerVars,
         durabilityVars, lossVars, diskVars
<1>1. CASE Len(queue) < Capacity
  <2>1. queue' = Append(queue, head) /\ ~InsideLock(t)'
    BY <1>1 DEF Enqueue, InsideLock, LedgerTypeOK
  <2>2. /\ DOMAIN queue' = 1..(Len(queue) + 1)
        /\ DOMAIN queue = 1..Len(queue)
        /\ \A i \in DOMAIN queue : queue'[i] = queue[i]
        /\ queue'[Len(queue) + 1] = head
        /\ Len(queue) \in Nat
    <3>1. queue \in Seq(0..MaxSequence) /\ head \in 0..MaxSequence
      BY DEF LedgerTypeOK
    <3> QED BY <2>1, <3>1, AppendElements
  <2>3. LockInv'
    BY <1>0, <2>1 DEF LockInv
  <2>4. QueueInv'
    <3>1. \A i \in DOMAIN queue' : queue'[i] # Stop =>
            queue'[i] <= head' /\ through' < queue'[i] /\ \A s \in records' : s < queue'[i]
      BY <1>0, <2>2 DEF Facts, QueueInv, LockInv, PrefixInv
    <3>2. \A i, j \in DOMAIN queue' :
            i < j /\ queue'[i] # Stop /\ queue'[j] # Stop => queue'[i] < queue'[j]
      BY <1>0, <2>2 DEF Facts, QueueInv, LockInv
    <3> QED BY <3>1, <3>2 DEF QueueInv
  <2>5. ItemInv'
    BY <1>0, <2>1, <2>2 DEF Facts, ItemInv, Projecting
  <2>6. PrefixInv'
    <3>1. ASSUME firstLost = Never, NEW s \in (through + 1)..head
          PROVE  \/ \E i \in DOMAIN queue' : queue'[i] = s
                 \/ Projecting' /\ item' = s
      <4>1. CASE s = head
        <5>1. Len(queue) + 1 \in DOMAIN queue' /\ queue'[Len(queue) + 1] = s
          BY <2>2, <4>1
        <5> QED BY <5>1
      <4>2. CASE \E i \in DOMAIN queue : queue[i] = s
        <5>1. PICK i \in DOMAIN queue : queue[i] = s
          BY <4>2
        <5>2. i \in DOMAIN queue' /\ queue'[i] = s
          BY <2>2, <5>1
        <5> QED BY <5>2
      <4>3. CASE s # head /\ ~\E i \in DOMAIN queue : queue[i] = s
        BY <1>0, <3>1, <4>3 DEF Facts, PrefixInv, Projecting
      <4> QED BY <4>1, <4>2, <4>3
    <3>2. ASSUME firstLost # Never
          PROVE  /\ \A i \in DOMAIN queue' : queue'[i] # firstLost
                 /\ Projecting' => item' # firstLost
      <4>1. ASSUME NEW i \in DOMAIN queue'
            PROVE  queue'[i] # firstLost
        <5>1. CASE i \in DOMAIN queue
          BY <2>2, <3>2, <5>1 DEF Facts, PrefixInv
        <5>2. CASE i = Len(queue) + 1
          BY <1>0, <2>2, <3>2, <5>2 DEF Facts, PrefixInv
        <5> QED BY <2>2, <4>1, <5>1, <5>2
      <4> QED BY <1>0, <3>2, <4>1 DEF Facts, PrefixInv, Projecting
    <3> QED BY <1>0, <2>1, <3>1, <3>2 DEF Facts, PrefixInv
  <2>7. GapInv' /\ HeadInv'
    BY <1>0 DEF Facts, GapInv, HeadInv, IdleWriter
  <2> QED BY <2>3, <2>4, <2>5, <2>6, <2>7 DEF Facts
<1>2. CASE ~(Len(queue) < Capacity)
  <2>1. queue' = queue /\ \A u \in Threads : InsideLock(u)' <=> InsideLock(u)
    BY <1>2 DEF Enqueue, InsideLock, LedgerTypeOK
  <2> QED
    BY <1>0, <2>1 DEF Facts, LockInv, QueueInv, ItemInv, PrefixInv, GapInv, HeadInv,
                      IdleWriter, Projecting
<1> QED BY <1>1, <1>2

\* The newest record is given up.
LEMMA LoseSafe ==
  ASSUME LedgerTypeOK, Facts, NEW t \in Threads, Lose(t)
  PROVE  Facts'
<1> USE TypeInts DEF Ints
<1>0. /\ UNCHANGED <<head, queue, writer, item, doc, lastProjected, degraded, records,
                     headDoc>>
      /\ firstLost' = IF firstLost = Never THEN head ELSE firstLost
      /\ InsideLock(t)
      /\ \A u \in Threads : ~InsideLock(u)'
  BY DEF Lose, MarkLost, InsideLock, Facts, LockInv, LedgerTypeOK, chainVars, writerVars,
         diskVars
<1>1. through' = through
  BY <1>0 DEF Lose, MarkLost, Facts, LockInv
<1>2. LockInv' /\ QueueInv' /\ ItemInv'
  BY <1>0, <1>1 DEF Facts, LockInv, QueueInv, ItemInv, Projecting
<1>3. firstLost' # Never
  BY <1>0, <1>1 DEF Facts, LockInv, Never
<1>4. PrefixInv'
  BY <1>0, <1>1, <1>3 DEF Facts, LockInv, ItemInv, PrefixInv, Projecting
<1>5. GapInv' /\ HeadInv'
  BY <1>0, <1>1 DEF Facts, GapInv, HeadInv, IdleWriter
<1> QED BY <1>2, <1>4, <1>5 DEF Facts

\* A thread moves outside the lock; a dead writer may come to life.
LEMMA OutsideSafe ==
  ASSUME LedgerTypeOK, Facts, NEW t \in Threads,
         ConsultClosed(t) \/ StartWriter(t) \/ StartFails(t) \/ Reject(t) \/ Freeze(t)
  PROVE  Facts'
<1>1. /\ UNCHANGED <<head, queue, item, doc, lastProjected, through, firstLost,
                     degraded, records, headDoc>>
      /\ writer' = writer \/ (writer = "dead" /\ writer' = "waiting")
  BY DEF ConsultClosed, StartWriter, StartFails, Reject, Freeze, chainVars,
         writerVars, durabilityVars, lossVars, diskVars
<1>2. \A u \in Threads : InsideLock(u)' <=> InsideLock(u)
  BY DEF ConsultClosed, StartWriter, StartFails, Reject, Freeze, InsideLock, LedgerTypeOK
<1> QED
  BY <1>1, <1>2 DEF Facts, LockInv, QueueInv, ItemInv, PrefixInv, GapInv, HeadInv,
                    IdleWriter, Projecting

\* close() may put its sentinel.
LEMMA CloseSafe ==
  ASSUME LedgerTypeOK, Facts, Close
  PROVE  Facts'
<1> USE TypeInts DEF Ints
<1>0. /\ UNCHANGED <<head, step, writer, item, doc, lastProjected, through, firstLost,
                     degraded, records, headDoc>>
      /\ \A u \in Threads : InsideLock(u)' <=> InsideLock(u)
  BY DEF Close, InsideLock, chainVars, writerVars, durabilityVars, lossVars, diskVars
<1>1. CASE queue' = queue
  BY <1>0, <1>1 DEF Facts, LockInv, QueueInv, ItemInv, PrefixInv, GapInv, HeadInv,
                    IdleWriter, Projecting
<1>2. CASE queue' = Append(queue, Stop)
  <2>1. /\ DOMAIN queue' = 1..(Len(queue) + 1)
        /\ DOMAIN queue = 1..Len(queue)
        /\ \A i \in DOMAIN queue : queue'[i] = queue[i]
        /\ queue'[Len(queue) + 1] = Stop
        /\ Len(queue) \in Nat
    <3>1. queue \in Seq(0..MaxSequence) /\ Stop \in 0..MaxSequence
      BY LedgerConstants DEF LedgerTypeOK, Stop
    <3> QED BY <1>2, <3>1, AppendElements
  <2>2. LockInv'
    BY <1>0, <2>1 DEF Facts, LockInv, Stop
  <2>3. QueueInv'
    BY SMTT(30), <1>0, <2>1 DEF Facts, QueueInv
  <2>4. ItemInv'
    BY <1>0, <2>1 DEF Facts, ItemInv, Projecting
  <2>5. PrefixInv'
    <3>1. ASSUME firstLost = Never, NEW s \in (through + 1)..head
          PROVE  \/ \E i \in DOMAIN queue' : queue'[i] = s
                 \/ Projecting' /\ item' = s
                 \/ \E u \in Threads : InsideLock(u)' /\ head' = s
      <4>1. CASE \E i \in DOMAIN queue : queue[i] = s
        <5>1. PICK i \in DOMAIN queue : queue[i] = s
          BY <4>1
        <5>2. i \in DOMAIN queue' /\ queue'[i] = s
          BY <2>1, <5>1
        <5> QED BY <5>2
      <4>2. CASE ~\E i \in DOMAIN queue : queue[i] = s
        BY <1>0, <3>1, <4>2 DEF Facts, PrefixInv, Projecting
      <4> QED BY <4>1, <4>2
    <3>2. ASSUME firstLost # Never
          PROVE  /\ \A i \in DOMAIN queue' : queue'[i] # firstLost
                 /\ Projecting' => item' # firstLost
      <4>1. ASSUME NEW i \in DOMAIN queue'
            PROVE  queue'[i] # firstLost
        <5>1. CASE i \in DOMAIN queue
          BY <2>1, <3>2, <5>1 DEF Facts, PrefixInv
        <5>2. CASE i = Len(queue) + 1
          BY <2>1, <3>2, <5>2 DEF Stop, Never
        <5> QED BY <2>1, <4>1, <5>1, <5>2
      <4> QED BY <1>0, <3>2, <4>1 DEF Facts, PrefixInv, Projecting
    <3> QED BY <1>0, <3>1, <3>2 DEF Facts, PrefixInv
  <2>6. GapInv' /\ HeadInv'
    BY <1>0 DEF Facts, GapInv, HeadInv, IdleWriter
  <2> QED BY <2>2, <2>3, <2>4, <2>5, <2>6 DEF Facts
<1> QED BY <1>1, <1>2 DEF Close

\* The front of the queue moves to the writer.
LEMMA TakeSafe ==
  ASSUME LedgerTypeOK, Facts, Take
  PROVE  Facts'
<1> USE TypeInts DEF Ints
<1>0. /\ UNCHANGED <<head, step, doc, lastProjected, through, firstLost, degraded,
                     records, headDoc>>
      /\ \A u \in Threads : InsideLock(u)' <=> InsideLock(u)
      /\ writer = "waiting" /\ queue # << >>
      /\ item' = queue[1]
      /\ IF queue[1] = Stop THEN writer' = "dead" ELSE writer' = "recording"
  BY DEF Take, InsideLock, chainVars, durabilityVars, lossVars, diskVars
<1>1. /\ Len(queue) \in Nat /\ Len(queue) >= 1
      /\ DOMAIN queue = 1..Len(queue)
      /\ DOMAIN queue' = 1..(Len(queue) - 1)
      /\ \A i \in DOMAIN queue' : queue'[i] = queue[i + 1]
  <2>1. queue \in Seq(0..MaxSequence) /\ queue' = Tail(queue)
    BY DEF LedgerTypeOK, Take
  <2> QED BY <1>0, <2>1, TailElements
<1>2. \A i \in DOMAIN queue : i = 1 \/ (i - 1 \in DOMAIN queue' /\ queue'[i - 1] = queue[i])
  BY <1>1
<1>3. \A i \in DOMAIN queue' : i + 1 \in DOMAIN queue /\ 1 < i + 1 /\ 1 \in DOMAIN queue
  BY <1>1
<1>4. LockInv'
  BY <1>0, <1>1, <1>3 DEF Facts, LockInv
<1>5. QueueInv'
  BY SMTT(30), <1>0, <1>1, <1>3 DEF Facts, QueueInv
<1>6. ItemInv'
  BY <1>0, <1>1, <1>3 DEF Facts, ItemInv, Projecting, QueueInv, LockInv
<1>7. PrefixInv'
  <2>1. ASSUME firstLost = Never, NEW s \in (through + 1)..head
        PROVE  \/ \E i \in DOMAIN queue' : queue'[i] = s
               \/ Projecting' /\ item' = s
               \/ \E u \in Threads : InsideLock(u) /\ head = s
    <3>1. CASE \E i \in DOMAIN queue : queue[i] = s
      <4>1. PICK i \in DOMAIN queue : queue[i] = s
        BY <3>1
      <4>2. CASE i = 1
        BY <1>0, <4>1, <4>2 DEF Projecting, Stop
      <4>3. CASE i # 1
        BY <1>2, <4>1, <4>3
      <4> QED BY <4>2, <4>3
    <3>2. CASE \E u \in Threads : InsideLock(u) /\ head = s
      BY <3>2
    <3> QED
      BY <1>0, <2>1, <3>1, <3>2 DEF Facts, PrefixInv, Projecting
  <2>2. ASSUME firstLost # Never
        PROVE  /\ \A i \in DOMAIN queue' : queue'[i] # firstLost
               /\ Projecting' => item' # firstLost
    BY <1>0, <1>1, <1>3, <2>2 DEF Facts, PrefixInv
  <2> QED
    BY <1>0, <2>1, <2>2 DEF Facts, PrefixInv
<1>8. GapInv' /\ HeadInv'
  BY <1>0 DEF Facts, GapInv, HeadInv, IdleWriter
<1> QED BY <1>4, <1>5, <1>6, <1>7, <1>8 DEF Facts

\* The record file is there, the accounting still to come.
LEMMA RecordWrittenSafe ==
  ASSUME LedgerTypeOK, Facts, RecordWritten
  PROVE  Facts'
<1> USE TypeInts DEF Ints
<1>0. /\ UNCHANGED <<head, step, queue, item, doc, lastProjected, through, firstLost,
                     degraded, headDoc>>
      /\ \A u \in Threads : InsideLock(u)' <=> InsideLock(u)
      /\ writer = "recording" /\ writer' = "noting"
      /\ records' = records \cup {item}
  BY DEF RecordWritten, InsideLock, chainVars, durabilityVars, lossVars
<1>1. LockInv'
  BY <1>0 DEF Facts, LockInv, ItemInv, Projecting
<1>2. QueueInv'
  BY <1>0 DEF Facts, QueueInv, ItemInv, Projecting
<1>3. ItemInv'
  BY <1>0 DEF Facts, ItemInv, Projecting
<1>4. PrefixInv'
  BY <1>0 DEF Facts, PrefixInv, ItemInv, Projecting
<1>5. GapInv' /\ HeadInv'
  BY <1>0 DEF Facts, GapInv, HeadInv, IdleWriter
<1> QED BY <1>1, <1>2, <1>3, <1>4, <1>5 DEF Facts

\* The writer's record is given up.
LEMMA RecordFailsSafe ==
  ASSUME LedgerTypeOK, Facts, RecordFails
  PROVE  Facts'
<1> USE TypeInts DEF Ints
<1>0. /\ UNCHANGED <<head, step, queue, item, doc, lastProjected, degraded, records,
                     headDoc>>
      /\ \A u \in Threads : InsideLock(u)' <=> InsideLock(u)
      /\ writer = "recording" /\ writer' = "document"
      /\ firstLost' = IF firstLost = Never THEN item ELSE firstLost
  BY DEF RecordFails, MarkLost, InsideLock, chainVars, diskVars
<1>1. through' = through
  BY <1>0 DEF RecordFails, MarkLost, Facts, ItemInv, Projecting
<1>2. LockInv' /\ QueueInv' /\ ItemInv'
  BY <1>0, <1>1 DEF Facts, LockInv, QueueInv, ItemInv, Projecting
<1>3. firstLost' # Never
  BY <1>0, <1>1 DEF Facts, ItemInv, Projecting, Never
<1>4. PrefixInv'
  BY <1>0, <1>1, <1>3 DEF Facts, LockInv, QueueInv, ItemInv, PrefixInv, Projecting, Stop
<1>5. GapInv' /\ HeadInv'
  BY <1>0, <1>1 DEF Facts, GapInv, HeadInv, IdleWriter
<1> QED BY <1>2, <1>4, <1>5 DEF Facts

\* The record on disk is accounted for, and extends the prefix if it is next.
LEMMA NoteSafe ==
  ASSUME LedgerTypeOK, Facts, Note
  PROVE  Facts'
<1> USE TypeInts DEF Ints
<1>0. /\ UNCHANGED <<head, step, queue, item, doc, firstLost, records, headDoc>>
      /\ \A u \in Threads : InsideLock(u)' <=> InsideLock(u)
      /\ writer = "noting" /\ writer' = "document"
      /\ through' = IF ExtendsPrefix THEN item ELSE through
  BY DEF Note, InsideLock, chainVars, diskVars
<1>1. through < item /\ item <= head /\ through <= through' /\ through' <= item
  BY <1>0 DEF Facts, ItemInv, Projecting
<1>2. LockInv' /\ QueueInv' /\ ItemInv'
  BY <1>0, <1>1 DEF Facts, LockInv, QueueInv, ItemInv, Projecting
<1>3. ASSUME firstLost = Never PROVE \A s \in 1..item : s \in records
  BY <1>0, <1>1, <1>3 DEF Facts, PrefixInv, ItemInv, Projecting, Stop
<1>4. \A s \in 1..through' : s \in records
  BY <1>0, <1>1, <1>3 DEF ExtendsPrefix, Facts, PrefixInv, ItemInv, Projecting
<1>5. PrefixInv'
  BY <1>0, <1>1, <1>4 DEF Facts, PrefixInv, ExtendsPrefix, Projecting
<1>6. GapInv'
  <2>1. CASE ExtendsPrefix
    BY <1>0, <1>1, <2>1 DEF Facts, ItemInv, GapInv, Projecting
  <2>2. CASE ~ExtendsPrefix /\ item # through + 1
    BY <1>0, <2>2 DEF Facts, GapInv
  <2>3. CASE ~ExtendsPrefix /\ item = through + 1
    <3>1. firstLost # Never /\ firstLost <= through /\ firstLost \in 1..through
      BY <1>0, <1>1, <2>3 DEF ExtendsPrefix, Facts, PrefixInv, Projecting, Never
    <3> QED BY <3>1 DEF Facts, PrefixInv
  <2> QED BY <2>1, <2>2, <2>3
<1>7. HeadInv'
  BY <1>0 DEF HeadInv, IdleWriter
<1> QED BY <1>2, <1>5, <1>6, <1>7 DEF Facts

\* The head file is written, or not.
LEMMA HeadFileSafe ==
  ASSUME LedgerTypeOK, Facts, Snapshot \/ HeadWritten \/ HeadFails
  PROVE  Facts'
<1> USE TypeInts DEF Ints
<1>0. /\ UNCHANGED <<head, step, queue, item, lastProjected, through, firstLost, records>>
      /\ \A u \in Threads : InsideLock(u)' <=> InsideLock(u)
      /\ ~Projecting /\ ~Projecting'
  BY DEF Snapshot, HeadWritten, HeadFails, InsideLock, Projecting, chainVars,
         durabilityVars, lossVars, diskVars
<1>1. LockInv' /\ QueueInv' /\ ItemInv'
  BY <1>0 DEF Facts, LockInv, QueueInv, ItemInv
<1>2. headDoc'.through <= through' /\ doc'.through <= through'
  BY <1>0 DEF Snapshot, HeadWritten, HeadFails, StatusDocument, Facts, PrefixInv,
              diskVars, durabilityVars, lossVars
<1>3. PrefixInv'
  BY <1>0, <1>2 DEF Facts, PrefixInv
<1>4. GapInv'
  BY <1>0 DEF Facts, GapInv, Projecting
<1>5. HeadInv'
  BY <1>0 DEF Snapshot, HeadWritten, HeadFails, StatusDocument, Facts, HeadInv,
              IdleWriter, diskVars, durabilityVars, lossVars
<1> QED BY <1>1, <1>3, <1>4, <1>5 DEF Facts

-----------------------------------------------------------------------------
(* The theorems.                                                            *)

Inv == LedgerTypeOK /\ ItemReal /\ CompleteInv /\ Facts

LEMMA CompleteStep ==
  LedgerTypeOK /\ ItemReal /\ CompleteInv /\ [LedgerNext]_recordVars => CompleteInv'
<1> SUFFICES ASSUME LedgerTypeOK, ItemReal, CompleteInv, [LedgerNext]_recordVars PROVE CompleteInv'
  OBVIOUS
<1>1. ASSUME NEW t \in Threads, Lose(t) PROVE CompleteInv'
  BY <1>1 DEF Lose, MarkLost, CompleteInv, ItemReal, InsideLock
<1>2. CASE RecordFails
  BY <1>2 DEF RecordFails, MarkLost, CompleteInv, ItemReal, Projecting
<1>3. CASE Note
  BY <1>3 DEF Note, CompleteInv
<1>4. CASE UNCHANGED <<complete, firstLost>>
  BY <1>4 DEF CompleteInv
<1> QED
  BY <1>1, <1>2, <1>3, <1>4
     DEF LedgerNext, ThreadStep, WriterStep, Advance, Enqueue, ConsultClosed, StartWriter,
         StartFails, Reject, Freeze, Close, Take, RecordWritten, Snapshot,
         HeadWritten, HeadFails, recordVars, durabilityVars, lossVars

LEMMA FactsStep == LedgerTypeOK /\ Facts /\ [LedgerNext]_recordVars => Facts'
<1> SUFFICES ASSUME LedgerTypeOK, Facts, [LedgerNext]_recordVars PROVE Facts'
  OBVIOUS
<1>1. CASE UNCHANGED recordVars
  BY <1>1 DEF recordVars, chainVars, writerVars, durabilityVars, lossVars, diskVars,
              Facts, LockInv, QueueInv, ItemInv, PrefixInv, GapInv, HeadInv,
              InsideLock, IdleWriter, Projecting
<1> QED
  BY <1>1, AdvanceSafe, EnqueueSafe, LoseSafe, OutsideSafe, CloseSafe, TakeSafe,
     RecordWrittenSafe, RecordFailsSafe, NoteSafe, HeadFileSafe
     DEF LedgerNext, ThreadStep, WriterStep

LEMMA InvInit == LedgerInit => Inv
<1> SUFFICES ASSUME LedgerInit PROVE Inv
  OBVIOUS
<1>1. LedgerTypeOK /\ ItemReal
  BY InitTyped
<1>2. CompleteInv
  BY DEF LedgerInit, CompleteInv
<1>3. /\ \A t \in Threads : ~InsideLock(t)
      /\ \A i \in DOMAIN queue : FALSE
      /\ ~Projecting
  BY DEF LedgerInit, InsideLock, Projecting
<1>4. Facts
  BY <1>3 DEF LedgerInit, Facts, LockInv, QueueInv, ItemInv, PrefixInv, GapInv, HeadInv,
              EmptyDocument, Never
<1> QED BY <1>1, <1>2, <1>4 DEF Inv

LEMMA InvAlways == LedgerSpec => []Inv
<1>1. Inv /\ [LedgerNext]_recordVars => Inv'
  BY LedgerTypeStep, CompleteStep, FactsStep DEF Inv
<1> QED BY <1>1, InvInit, PTL DEF LedgerSpec

\* Whatever the queue refuses and the disk fails to take, the sequence number
\* advertised as complete, in memory and in projection_head.json, names a
\* prefix of the chain that is on disk.
THEOREM CompleteThroughAlwaysTruthful == LedgerSpec => []CompleteThroughTruthful
<1>1. Inv => CompleteThroughTruthful
  BY TypeInts DEF Inv, Facts, PrefixInv, CompleteThroughTruthful, Ints
<1> QED BY <1>1, InvAlways, PTL

\* The advertised prefix is never shorter than the disk justifies once the
\* writer is idle.
THEOREM PrefixAlwaysMaximal == LedgerSpec => []PrefixMaximal
<1>1. Inv => PrefixMaximal
  BY DEF Inv, Facts, GapInv, PrefixMaximal
<1> QED BY <1>1, InvAlways, PTL

\* projection_head.json agrees with memory on the prefix and the last record
\* unless _projection_metadata_degraded says otherwise.
THEOREM HeadAlwaysCurrent == LedgerSpec => []HeadCurrentUnlessDegraded
<1>1. Inv => HeadCurrentUnlessDegraded
  BY DEF Inv, Facts, HeadInv, IdleWriter, HeadCurrentUnlessDegraded
<1> QED BY <1>1, InvAlways, PTL

\* A gap in the projected chain is never taken back, in memory or on disk.
THEOREM GapsStayForever == LedgerSpec => GapsAreForever
<1>1. Inv /\ Inv' /\ [LedgerNext]_recordVars =>
        [/\ ~complete => ~complete'
         /\ through <= through'
         /\ lostCount <= lostCount'
         /\ headDoc.through <= headDoc'.through]_recordVars
  <2> SUFFICES ASSUME Inv, Inv', LedgerNext
               PROVE  /\ ~complete => ~complete'
                      /\ through <= through'
                      /\ lostCount <= lostCount'
                      /\ headDoc.through <= headDoc'.through
    OBVIOUS
  <2>0. Ints
    BY TypeInts DEF Inv
  <2>1. firstLost # Never => firstLost' # Never
    BY DEF LedgerNext, ThreadStep, WriterStep, Advance, Enqueue, Lose, MarkLost,
           ConsultClosed, StartWriter, StartFails, Reject, Freeze, Close, Take,
           RecordWritten, RecordFails, Note, Snapshot, HeadWritten, HeadFails,
           durabilityVars, lossVars
  <2>2. ~complete => ~complete'
    BY <2>1 DEF Inv, CompleteInv
  <2>3. through <= through'
    <3>1. ASSUME NEW t \in Threads, Lose(t) PROVE through <= through'
      BY <2>0, <3>1 DEF Lose, MarkLost, Inv, Facts, LockInv, InsideLock, Ints
    <3>2. CASE RecordFails
      BY <2>0, <3>2 DEF RecordFails, MarkLost, Inv, Facts, ItemInv, Projecting, Ints
    <3>3. CASE Note
      BY <2>0, <3>3 DEF Note, Inv, Facts, ItemInv, Projecting, Ints
    <3>4. CASE through' = through
      BY <2>0, <3>4 DEF Ints
    <3> QED
      BY <3>1, <3>2, <3>3, <3>4
         DEF LedgerNext, ThreadStep, WriterStep, Advance, Enqueue, ConsultClosed,
             StartWriter, StartFails, Reject, Freeze, Close, Take, RecordWritten,
             Snapshot, HeadWritten, HeadFails, durabilityVars, lossVars
  <2>4. lostCount <= lostCount'
    <3>1. lostCount \in Nat
      BY DEF Inv, LedgerTypeOK
    <3>2. lostCount' \in {lostCount, lostCount + 1}
      BY DEF LedgerNext, ThreadStep, WriterStep, Advance, Enqueue, Lose, MarkLost,
             ConsultClosed, StartWriter, StartFails, Reject, Freeze, Close, Take,
             RecordWritten, RecordFails, Note, Snapshot, HeadWritten, HeadFails,
             durabilityVars, lossVars
    <3> QED BY <3>1, <3>2
  <2>5. headDoc.through <= headDoc'.through
    <3>1. CASE HeadWritten
      BY <2>0, <3>1 DEF HeadWritten, Inv, Facts, HeadInv, PrefixInv, Ints
    <3>2. CASE headDoc' = headDoc
      BY <2>0, <3>2 DEF Ints
    <3> QED
      BY <3>1, <3>2
         DEF LedgerNext, ThreadStep, WriterStep, Advance, Enqueue, Lose, ConsultClosed,
             StartWriter, StartFails, Reject, Freeze, Close, Take, RecordWritten,
             RecordFails, Note, Snapshot, HeadFails, diskVars
  <2> QED BY <2>2, <2>3, <2>4, <2>5
<1> QED BY <1>1, InvAlways, PTL DEF LedgerSpec, GapsAreForever

-----------------------------------------------------------------------------
(* Every record is accounted for.                                           *)

\* The records that will never reach the disk.
Lost == (1..head) \ (records \cup Queued \cup Recording \cup Entering)

AccountInv == lostCount = Cardinality(Lost)

(***************************************************************************)
(* Only finitely many records are lost, so one more counts as one more.    *)
(***************************************************************************)
LEMMA OneMore ==
  ASSUME LedgerTypeOK, AccountInv, NEW s, s \notin Lost,
         Lost' = Lost \cup {s}, lostCount' = lostCount + 1
  PROVE  AccountInv'
<1>1. IsFiniteSet(1..head)
  BY LedgerConstants, FS_Interval DEF LedgerTypeOK
<1>2. IsFiniteSet(Lost)
  BY <1>1, FS_Subset DEF Lost
<1>3. Cardinality(Lost \cup {s}) = Cardinality(Lost) + 1
  BY <1>2, FS_AddElement
<1> QED
  BY <1>3 DEF AccountInv

(***************************************************************************)
(* Who is under the lock decides what is entering.                         *)
(***************************************************************************)
LEMMA EnteringIs ==
  /\ LockFree => Entering = {}
  /\ \A t \in Threads : InsideLock(t) => Entering = {head}
  /\ LockFree' => Entering' = {}
  /\ \A t \in Threads : InsideLock(t)' => Entering' = {head'}
BY DEF Entering, LockFree

(***************************************************************************)
(* What a queue holds when something is put at its end, and when its front *)
(* is taken.                                                               *)
(***************************************************************************)
LEMMA AppendHolds ==
  ASSUME NEW S, NEW q \in Seq(S), NEW e \in S
  PROVE  {Append(q, e)[i] : i \in DOMAIN Append(q, e)} = {q[i] : i \in DOMAIN q} \cup {e}
<1>1. /\ DOMAIN Append(q, e) = 1..(Len(q) + 1) /\ DOMAIN q = 1..Len(q)
      /\ \A i \in DOMAIN q : Append(q, e)[i] = q[i]
      /\ Append(q, e)[Len(q) + 1] = e /\ Len(q) \in Nat
  BY AppendElements
<1>2. Len(q) + 1 \in DOMAIN Append(q, e) /\ DOMAIN q \subseteq DOMAIN Append(q, e)
  BY <1>1
<1>3. \A i \in DOMAIN Append(q, e) : i \in DOMAIN q \/ i = Len(q) + 1
  BY <1>1
<1> HIDE <1>1
<1>4. /\ \A i \in DOMAIN q : Append(q, e)[i] = q[i]
      /\ Append(q, e)[Len(q) + 1] = e
  BY <1>1
<1> QED
  BY <1>2, <1>3, <1>4

LEMMA TailHolds ==
  ASSUME NEW S, NEW q \in Seq(S), q # << >>
  PROVE  {q[i] : i \in DOMAIN q} = {Tail(q)[i] : i \in DOMAIN Tail(q)} \cup {Head(q)}
<1>1. /\ Len(q) \in Nat /\ Len(q) >= 1 /\ DOMAIN q = 1..Len(q)
      /\ DOMAIN Tail(q) = 1..(Len(q) - 1)
      /\ \A i \in DOMAIN Tail(q) : Tail(q)[i] = q[i + 1]
      /\ Head(q) = q[1]
  BY TailElements
<1>2. 1 \in DOMAIN q /\ \A i \in DOMAIN Tail(q) : i + 1 \in DOMAIN q
  BY <1>1
<1>3. \A i \in DOMAIN q : i = 1 \/ \E j \in DOMAIN Tail(q) : i = j + 1
  <2>1. ASSUME NEW i \in DOMAIN q, i # 1 PROVE i - 1 \in DOMAIN Tail(q) /\ i = (i - 1) + 1
    BY <1>1, <2>1
  <2> QED
    BY <2>1
<1>4. \A i \in DOMAIN Tail(q) : Tail(q)[i] = q[i + 1]
  BY <1>1
<1>5. Head(q) = q[1]
  BY <1>1
<1> QED
  BY <1>2, <1>3, <1>4, <1>5

(***************************************************************************)
(* A record moves on from the lock to the queue, from there to the writer  *)
(* and to the disk, without being lost.                                    *)
(***************************************************************************)
LEMMA MovesOn ==
  ASSUME LedgerTypeOK, ItemReal, Facts, LedgerNext,
         ~RecordFails, \A t \in Threads : ~Lose(t)
  PROVE  Lost' = Lost /\ lostCount' = lostCount
<1>0. lostCount' = lostCount
  BY DEF LedgerNext, ThreadStep, WriterStep, Advance, Enqueue, ConsultClosed, StartWriter,
         StartFails, Reject, Freeze, Close, Take, RecordWritten, Note, Snapshot,
         HeadWritten, HeadFails, durabilityVars, lossVars
<1>a. queue \in Seq(0..MaxSequence) /\ head \in 0..MaxSequence /\ Stop \in 0..MaxSequence
  BY LedgerConstants DEF LedgerTypeOK, Stop
<1>b. head \in Nat /\ \A s \in records : s <= head
  BY TypeInts DEF Ints, Facts, PrefixInv
<1>1. ASSUME NEW t \in Threads, Advance(t) PROVE Lost' = Lost
  <2>1. head' = head + 1 /\ UNCHANGED <<records, queue, writer, item>>
        /\ LockFree /\ InsideLock(t)'
    BY <1>1 DEF Advance, InsideLock, LedgerTypeOK, writerVars, durabilityVars, diskVars
  <2>2. Entering = {} /\ Entering' = {head + 1}
    BY <2>1, EnteringIs
  <2>3. Queued' = Queued /\ Recording' = Recording
    BY <2>1 DEF Queued, Recording
  <2>4. 1..head' = (1..head) \cup {head + 1} /\ head + 1 \notin 1..head
    BY <1>b, <2>1
  <2> QED
    BY <2>1, <2>2, <2>3, <2>4 DEF Lost
<1>2. ASSUME NEW t \in Threads, Enqueue(t) PROVE Lost' = Lost
  <2>1. UNCHANGED <<head, records, writer, item>> /\ InsideLock(t)
    BY <1>2 DEF Enqueue, InsideLock, chainVars, writerVars, durabilityVars, diskVars
  <2>2. Entering = {head} /\ Recording' = Recording
    BY <2>1, EnteringIs DEF Recording
  <2>3. CASE Len(queue) < Capacity
    <3>1. queue' = Append(queue, head) /\ LockFree'
      BY <1>2, <2>1, <2>3 DEF Enqueue, InsideLock, LockFree, Facts, LockInv, LedgerTypeOK
    <3>2. Queued' = Queued \cup {head} /\ Entering' = {}
      BY <1>a, <2>1, <3>1, AppendHolds, EnteringIs DEF Queued, ItemReal, Stop, Never
    <3> QED
      BY <2>1, <2>2, <3>2 DEF Lost
  <2>4. CASE ~(Len(queue) < Capacity)
    <3>1. queue' = queue /\ InsideLock(t)'
      BY <1>2, <2>4 DEF Enqueue, InsideLock, LedgerTypeOK
    <3>2. Queued' = Queued /\ Entering' = {head}
      BY <2>1, <3>1, EnteringIs DEF Queued
    <3> QED
      BY <2>1, <2>2, <3>2 DEF Lost
  <2> QED
    BY <2>3, <2>4
<1>3. ASSUME NEW t \in Threads,
             ConsultClosed(t) \/ StartWriter(t) \/ StartFails(t) \/ Reject(t) \/ Freeze(t)
      PROVE  Lost' = Lost
  <2>1. /\ UNCHANGED <<head, records, queue>>
        /\ \A u \in Threads : InsideLock(u)' <=> InsideLock(u)
    BY <1>3 DEF ConsultClosed, StartWriter, StartFails, Reject, Freeze, InsideLock, LedgerTypeOK,
         ThreadStates, chainVars, writerVars, durabilityVars, diskVars
  <2>2. Recording' = Recording
    BY <1>3 DEF ConsultClosed, StartWriter, StartFails, Reject, Freeze, Recording, writerVars
  <2>3. Queued' = Queued /\ Entering' = Entering
    BY <2>1 DEF Queued, Entering, LockFree
  <2> QED
    BY <2>1, <2>2, <2>3 DEF Lost
<1>4. CASE Close
  <2>1. UNCHANGED <<head, records, writer, item, step>>
        /\ (queue' = queue \/ queue' = Append(queue, Stop))
    BY <1>4 DEF Close, chainVars, writerVars, durabilityVars, diskVars
  <2>2. Queued' = Queued
    BY <1>a, <2>1, AppendHolds DEF Queued
  <2>3. Recording' = Recording /\ Entering' = Entering
    BY <2>1 DEF Recording, Entering, LockFree, InsideLock
  <2> QED
    BY <1>0, <2>1, <2>2, <2>3 DEF Lost
<1>5. CASE Take
  <2>1. /\ UNCHANGED <<head, records, step>> /\ writer = "waiting" /\ queue # << >>
        /\ item' = Head(queue) /\ queue' = Tail(queue)
        /\ writer' = IF Head(queue) = Stop THEN "dead" ELSE "recording"
    BY <1>5 DEF Take, chainVars, durabilityVars, diskVars
  <2>2. Queued = (Queued' \cup {Head(queue)}) \ {Stop}
    BY <1>a, <2>1, TailHolds DEF Queued
  <2>3. Recording = {} /\ Recording' = {Head(queue)} \ {Stop}
    BY <2>1 DEF Recording
  <2>4. Entering' = Entering
    BY <2>1 DEF Entering, LockFree, InsideLock
  <2>5. Stop \notin Queued'
    BY DEF Queued
  <2> QED
    BY <1>0, <2>1, <2>2, <2>3, <2>4, <2>5 DEF Lost
<1>6. CASE RecordWritten
  <2>1. /\ UNCHANGED <<head, queue, step>> /\ records' = records \cup {item}
        /\ writer = "recording" /\ writer' = "noting"
    BY <1>6 DEF RecordWritten, chainVars
  <2>2. Recording = {item} /\ Recording' = {} /\ Queued' = Queued /\ Entering' = Entering
    BY <2>1 DEF Recording, Queued, Entering, LockFree, InsideLock
  <2> QED
    BY <1>0, <2>1, <2>2 DEF Lost
<1>7. CASE Note \/ Snapshot \/ HeadWritten \/ HeadFails
  <2>1. UNCHANGED <<head, queue, step, records>> /\ writer # "recording" /\ writer' # "recording"
    BY <1>7 DEF Note, Snapshot, HeadWritten, HeadFails, chainVars, diskVars
  <2>2. Recording = {} /\ Recording' = {} /\ Queued' = Queued /\ Entering' = Entering
    BY <2>1 DEF Recording, Queued, Entering, LockFree, InsideLock
  <2> QED
    BY <1>0, <2>1, <2>2 DEF Lost
<1> QED
  BY <1>0, <1>1, <1>2, <1>3, <1>4, <1>5, <1>6, <1>7 DEF LedgerNext, ThreadStep, WriterStep

(***************************************************************************)
(* What the queue does not take or the disk refuses was in no other place, *)
(* and is counted once.                                                    *)
(***************************************************************************)
LEMMA AccountStep ==
  LedgerTypeOK /\ ItemReal /\ Facts /\ AccountInv /\ [LedgerNext]_recordVars => AccountInv'
<1> SUFFICES ASSUME LedgerTypeOK, ItemReal, Facts, AccountInv, [LedgerNext]_recordVars PROVE AccountInv'
  OBVIOUS
<1>1. ASSUME NEW t \in Threads, Lose(t) PROVE AccountInv'
  <2>1. /\ UNCHANGED <<head, queue, records, writer, item>> /\ InsideLock(t)
        /\ lostCount' = lostCount + 1 /\ LockFree'
    BY <1>1 DEF Lose, MarkLost, InsideLock, LockFree, Facts, LockInv, LedgerTypeOK,
         chainVars, writerVars, diskVars
  <2>2. /\ Entering = {head} /\ Entering' = {}
        /\ Queued' = Queued /\ Recording' = Recording
    BY <2>1, EnteringIs DEF Queued, Recording
  <2>3. head \notin records /\ head \notin Queued /\ head \notin Recording
    BY <2>1, TypeInts DEF Facts, LockInv, ItemInv, Queued, Recording, Projecting, Ints
  <2>4. head \in 1..head
    BY <2>1, LedgerConstants DEF ItemReal, LedgerTypeOK, Never
  <2>5. Lost' = Lost \cup {head} /\ head \notin Lost
    BY <2>1, <2>2, <2>3, <2>4 DEF Lost
  <2> QED
    BY <2>1, <2>5, OneMore
<1>2. CASE RecordFails
  <2>1. /\ UNCHANGED <<head, queue, records, step, item>> /\ writer = "recording"
        /\ writer' = "document" /\ lostCount' = lostCount + 1
    BY <1>2 DEF RecordFails, MarkLost, chainVars, diskVars
  <2>2. Recording = {item} /\ Recording' = {} /\ Queued' = Queued /\ Entering' = Entering
    BY <2>1 DEF Recording, Queued, Entering, LockFree, InsideLock
  <2>3. item \notin records /\ item \notin Queued /\ item \notin Entering
    BY <2>1, TypeInts
       DEF Facts, ItemInv, Queued, Entering, LockFree, Projecting, Ints
  <2>4. item \in 1..head
    BY <2>1, LedgerConstants DEF Facts, ItemInv, ItemReal, Projecting, LedgerTypeOK, Never
  <2>5. Lost' = Lost \cup {item} /\ item \notin Lost
    BY <2>1, <2>2, <2>3, <2>4 DEF Lost
  <2> QED
    BY <2>1, <2>5, OneMore
<1>3. CASE LedgerNext /\ ~RecordFails /\ \A t \in Threads : ~Lose(t)
  BY <1>3, MovesOn DEF AccountInv
<1>4. CASE UNCHANGED recordVars
  <2>1. UNCHANGED <<head, records, queue, writer, item, step, lostCount>>
    BY <1>4 DEF recordVars, chainVars, writerVars, durabilityVars, lossVars, diskVars
  <2> QED
    BY <2>1 DEF AccountInv, Lost, Queued, Recording, Entering, LockFree, InsideLock
<1> QED
  BY <1>1, <1>2, <1>3, <1>4

\* No record vanishes: whatever the queue refuses and the disk fails to take,
\* every sequence number ever handed out is on disk, on its way there, or
\* counted in _lost_projection_count, and none is counted twice.
THEOREM EveryRecordAccounted == LedgerSpec => []NothingUnaccounted
<1>1. LedgerInit => AccountInv
  <2> SUFFICES ASSUME LedgerInit PROVE AccountInv
    OBVIOUS
  <2>1. 1..head = {} /\ lostCount = 0
    BY DEF LedgerInit
  <2> QED
    BY <2>1, FS_EmptySet DEF AccountInv, Lost
<1>2. Inv /\ AccountInv /\ [LedgerNext]_recordVars => AccountInv'
  BY AccountStep DEF Inv
<1>3. AccountInv => NothingUnaccounted
  BY DEF AccountInv, Lost, NothingUnaccounted
<1> QED
  BY <1>1, <1>2, <1>3, InvAlways, PTL DEF LedgerSpec

-----------------------------------------------------------------------------
(* The authority of the sources.                                            *)

USE DEF Loop, Periodic, Verifiers, Nobody, Components, States, NoFact

-----------------------------------------------------------------------------
(* Types.                                                                   *)

InBoundary == {"lock", "measure", "suspend", "report", "drain", "admit"}

\* Whom the loop works for.
LoopTask ==
  /\ pc[Loop] \in InBoundary =>
       task \in Tasks /\ phase[task] \in {"entering", "leaving"}
  /\ pc[Loop] \in {"chunk", "yield"} =>
       task \in Streams /\ phase[task] = "running" /\ produced[task] \in 1..MaxChunks

TypeInv == TypeOK /\ LoopTask

LEMMA TypeInit == Init => TypeInv
<1> SUFFICES ASSUME Init PROVE TypeInv
  OBVIOUS
<1> USE SourceConstants DEF Init
<1>1. pc \in [Verifiers -> LoopPlaces \cup PeriodicPlaces] /\ pc[Loop] = "idle"
      /\ pc[Periodic] = "off"
  BY DEF LoopPlaces, PeriodicPlaces
<1>2. made \in Seq(Transition) /\ recorded \in Seq(Transition)
  OBVIOUS
<1>3. phase \in [Tasks -> Phases] /\ \A t \in Tasks : phase[t] # "running"
  BY DEF Phases
<1>4. /\ next \in [Verifiers -> 1..(NComponents + 1)]
      /\ mismatched \in [Verifiers -> BOOLEAN] /\ unavailable \in [Verifiers -> BOOLEAN]
      /\ verdict \in [Verifiers -> States \cup {"raised"}]
      /\ fact \in [Verifiers -> Transition \cup {NoFact}]
  OBVIOUS
<1>5. /\ produced \in [Streams -> 0..MaxChunks]
      /\ released \in [Streams -> SUBSET (1..MaxChunks)]
      /\ blocked \in [Streams -> BOOLEAN]
  OBVIOUS
<1>6. /\ file \in [Components -> Contents \cup {Missing, Unreadable}]
      /\ baseline \in [Components -> Contents \cup {Missing}]
      /\ changes \in 0..MaxChanges /\ raises \in 0..MaxRaises
      /\ nextSequence \in Nat \ {0} /\ transitions \in Nat /\ slipped \in Nat
  OBVIOUS
<1>7. /\ state \in States
      /\ holder \in Verifiers \cup {Nobody} /\ observing \in Verifiers \cup {Nobody}
      /\ pending \in SUBSET Transition /\ dirty \in SUBSET Components
      /\ ledgerFrozen \in BOOLEAN /\ task \in Tasks \cup {NoTask}
  OBVIOUS
<1> HIDE DEF Init
<1> QED
  BY <1>1, <1>2, <1>3, <1>4, <1>5, <1>6, <1>7
     DEF TypeInv, TypeOK, LoopTask, InBoundary, LoopPlaces, PeriodicPlaces

\* What establishing a state does to the types.
LEMMA EstablishType ==
  ASSUME TypeInv, NEW v \in Verifiers, NEW new \in States, Establish(v, new)
  PROVE  /\ state' \in States /\ transitions' \in Nat /\ made' \in Seq(Transition)
         /\ fact' \in [Verifiers -> Transition \cup {NoFact}]
         /\ baseline' = baseline
<1> DEFINE t == [seq |-> transitions + 1, from |-> state, to |-> new]
<1>1. t \in Transition
  BY DEF TypeInv, TypeOK, Transition
<1>2. CASE new # state
  <2>1. made' = Append(made, t) /\ fact' = [fact EXCEPT ![v] = t]
    BY <1>2 DEF Establish
  <2>2. made' \in Seq(Transition)
    BY <1>1, <2>1 DEF TypeInv, TypeOK
  <2>3. fact' \in [Verifiers -> Transition \cup {NoFact}]
    BY <1>1, <2>1 DEF TypeInv, TypeOK
  <2> QED
    BY <1>2, <2>2, <2>3 DEF TypeInv, TypeOK, Establish
<1>3. CASE new = state
  BY <1>3 DEF TypeInv, TypeOK, Establish
<1> QED
  BY <1>2, <1>3

\* What returning a verdict does to the types.
LEMMA ReturnType ==
  ASSUME TypeInv, NEW v \in Verifiers, Return(v), pc[v] \in {"report", "drain"}
  PROVE  /\ verdict' \in [Verifiers -> States \cup {"raised"}]
         /\ pc' \in [Verifiers -> LoopPlaces \cup PeriodicPlaces]
         /\ pc'[Loop] \in LoopPlaces /\ pc'[Periodic] \in PeriodicPlaces
         /\ phase' \in [Tasks -> Phases] /\ task' \in Tasks \cup {NoTask}
         /\ \A t \in Tasks : phase'[t] = "running" => phase[t] = "running"
         /\ dirty' \in SUBSET Components
         /\ pc'[Loop] \in InBoundary => pc[Loop] \in InBoundary /\ UNCHANGED <<task, phase>>
         /\ pc'[Loop] \in {"chunk", "yield"} =>
              pc[Loop] = pc'[Loop] /\ UNCHANGED <<task, phase>>
<1> USE DEF TypeInv, TypeOK, LoopPlaces, PeriodicPlaces, Phases, InBoundary, Return
<1>1. CASE v = Periodic
  BY ZenonT(60), <1>1
<1>2. CASE v = Loop /\ verdict[v] = "raised"
  BY ZenonT(60), <1>2
<1>3. CASE v = Loop /\ verdict[v] # "raised"
  BY ZenonT(60), <1>3
<1> QED
  BY <1>1, <1>2, <1>3

LEMMA TypeStep == TypeInv /\ [Next]_vars => TypeInv'
<1> SUFFICES ASSUME TypeInv, [Next]_vars PROVE TypeInv'
  OBVIOUS
<1> USE SourceConstants DEF TypeInv, TypeOK, LoopTask, InBoundary, LoopPlaces,
        PeriodicPlaces, Phases, Transition, fileVars, authorityVars, verifierVars,
        ledgerVars, requestVars, streamVars
<1>1. ASSUME NEW c \in Components, ChangeFile(c) PROVE TypeInv'
  BY <1>1 DEF ChangeFile
<1>2. CASE FreezeLedger
  BY <1>2 DEF FreezeLedger
<1>3. CASE Seal
  BY <1>3 DEF Seal
<1>4. CASE Tick
  BY <1>4 DEF Tick
<1>5. ASSUME NEW v \in Verifiers, Acquire(v) PROVE TypeInv'
  BY SMTT(30), <1>5 DEF Acquire
<1>6. ASSUME NEW v \in Verifiers, Measure(v) PROVE TypeInv'
  <2>1. next' \in [Verifiers -> 1..(NComponents + 1)]
    BY <1>6 DEF Measure
  <2>2. mismatched' \in [Verifiers -> BOOLEAN] /\ unavailable' \in [Verifiers -> BOOLEAN]
    BY <1>6 DEF Measure
  <2> QED
    BY <1>6, <2>1, <2>2 DEF Measure
<1>7. ASSUME NEW v \in Verifiers, Conclude(v) PROVE TypeInv'
  <2>1. Judged(v) \in States
    BY DEF Judged
  <2>2. Establish(v, Judged(v))
    BY <1>7 DEF Conclude
  <2>3. /\ state' \in States /\ transitions' \in Nat /\ made' \in Seq(Transition)
        /\ fact' \in [Verifiers -> Transition \cup {NoFact}]
        /\ baseline' = baseline
    BY <2>1, <2>2, EstablishType
  <2>4. mismatched' \in [Verifiers -> BOOLEAN] /\ unavailable' \in [Verifiers -> BOOLEAN]
    BY <1>7 DEF Conclude, ForgetMeasurements
  <2>5. /\ next' \in [Verifiers -> 1..(NComponents + 1)]
        /\ verdict' \in [Verifiers -> States \cup {"raised"}]
    BY <1>7, <2>1 DEF Conclude, ForgetMeasurements
  <2> QED
    BY <1>7, <2>3, <2>4, <2>5 DEF Conclude
<1>8. ASSUME NEW v \in Verifiers, Suspend(v) PROVE TypeInv'
  <2> DEFINE new == IF state = "INVALIDATED" THEN state ELSE "SUSPENDED_UNVERIFIED"
  <2>1. new \in States
    OBVIOUS
  <2>2. Establish(v, new)
    BY <1>8 DEF Suspend
  <2> HIDE DEF new
  <2>3. /\ state' \in States /\ transitions' \in Nat /\ made' \in Seq(Transition)
        /\ fact' \in [Verifiers -> Transition \cup {NoFact}]
        /\ baseline' = baseline
    BY <2>1, <2>2, EstablishType
  <2> QED
    BY <1>8, <2>3 DEF Suspend
<1>9. ASSUME NEW v \in Verifiers, Raise(v) PROVE TypeInv'
  BY SMTT(30), <1>9 DEF Raise, ForgetMeasurements
<1>10. ASSUME NEW v \in Verifiers, ReportNothing(v) PROVE TypeInv'
  BY SMTT(30), <1>10, ReturnType DEF ReportNothing
<1>11. ASSUME NEW v \in Verifiers, Report(v) PROVE TypeInv'
  BY ZenonT(60), <1>11 DEF Report
<1>12. ASSUME NEW v \in Verifiers, Drain(v) PROVE TypeInv'
  <2> PICK f \in pending : /\ f.seq = nextSequence
                           /\ recorded' = IF ledgerFrozen THEN recorded ELSE Append(recorded, f)
                           /\ pending' = pending \ {f}
    BY <1>12 DEF Drain
  <2>1. recorded' \in Seq(Transition)
    <3> HIDE DEF Transition
    <3> QED
      OBVIOUS
  <2> QED
    BY <1>12, <2>1 DEF Drain
<1>13. ASSUME NEW v \in Verifiers, LeaveObserver(v) PROVE TypeInv'
  BY ZenonT(60), <1>13, ReturnType DEF LeaveObserver
<1>14. ASSUME NEW t \in Tasks, Boundary(t) PROVE TypeInv'
  BY <1>14 DEF Boundary, Due, Differs
<1>15. ASSUME NEW r \in Runs \cup Streams, Chunk(r) PROVE TypeInv'
  BY SMTT(30), <1>15 DEF Chunk, Tasks, Requests
<1>16. ASSUME NEW r \in Runs \cup Streams, StreamEnds(r) PROVE TypeInv'
  BY SMTT(30), <1>16 DEF StreamEnds, Tasks, Requests
<1>17. ASSUME NEW r \in Runs \cup Streams, RunFails(r) PROVE TypeInv'
  BY SMTT(30), <1>17 DEF RunFails, Tasks, Requests
<1>18. CASE Admit
  BY <1>18 DEF Admit, Passed
<1>19. CASE AdmitChunk
  <2>1. CASE state = "ACTIVE"
    BY SMTT(30), <1>19, <2>1 DEF AdmitChunk
  <2>2. CASE state # "ACTIVE"
    <3>1. blocked' \in [Streams -> BOOLEAN]
      BY <1>19, <2>2 DEF AdmitChunk
    <3> QED
      BY SMTT(30), <1>19, <2>2, <3>1 DEF AdmitChunk
  <2> QED
    BY <2>1, <2>2
<1>20. CASE Yield
  BY SMTT(30), <1>20 DEF Yield
<1>21. CASE UNCHANGED vars
  BY <1>21 DEF vars
<1> QED
  BY <1>1, <1>2, <1>3, <1>4, <1>5, <1>6, <1>7, <1>8, <1>9, <1>10, <1>11, <1>12,
     <1>13, <1>14, <1>15, <1>16, <1>17, <1>18, <1>19, <1>20, <1>21
     DEF Next, Verify, Forensics, Serve

THEOREM TypeCorrect == Spec => []TypeOK
<1>1. Spec => []TypeInv
  BY TypeInit, TypeStep, PTL DEF Spec
<1>2. TypeInv => TypeOK
  BY DEF TypeInv
<1> QED
  BY <1>1, <1>2, PTL

-----------------------------------------------------------------------------
(* The two locks, and invalidation.                                         *)

\* Who measures holds the source lock, who drains holds the observer's; no
\* measurement outlives its verification; an invalidated or unsealed runtime
\* is not being measured; before sealing nothing has begun, and before
\* activation the periodic thread has not.
ControlInv ==
  /\ \A v \in Verifiers : holder = v <=> pc[v] = "measure"
  /\ \A v \in Verifiers : observing = v <=> pc[v] = "drain"
  /\ \A v \in Verifiers :
       pc[v] # "measure" => next[v] = 1 /\ ~mismatched[v] /\ ~unavailable[v]
  /\ \A v \in Verifiers :
       pc[v] = "measure" => state \notin {"INVALIDATED", "INITIALIZING"}
  /\ state = "INITIALIZING" =>
       /\ pc[Loop] = "idle" /\ pc[Periodic] = "off" /\ slipped = 0
       /\ \A t \in Tasks : phase[t] = "new"
  /\ phase[Activation] # "leaving"
  /\ phase[Activation] \in {"new", "entering"} => pc[Periodic] = "off"

LEMMA ControlInit == Init => ControlInv
BY DEF Init, ControlInv, Tasks

LEMMA ControlStep == TypeInv /\ ControlInv /\ [Next]_vars => ControlInv'
<1> SUFFICES ASSUME TypeInv, ControlInv, [Next]_vars PROVE ControlInv'
  OBVIOUS
<1> USE DEF TypeInv, TypeOK, LoopTask, InBoundary, ControlInv, Tasks, fileVars,
        authorityVars, verifierVars, ledgerVars, requestVars, streamVars
<1>1. ASSUME NEW c \in Components, ChangeFile(c) PROVE ControlInv'
  BY <1>1 DEF ChangeFile
<1>2. CASE FreezeLedger
  BY <1>2 DEF FreezeLedger
<1>3. CASE Seal
  BY <1>3 DEF Seal
<1>4. CASE Tick
  BY <1>4 DEF Tick
<1>5. ASSUME NEW v \in Verifiers, Acquire(v) PROVE ControlInv'
  BY <1>5 DEF Acquire
<1>6. ASSUME NEW v \in Verifiers, Measure(v) PROVE ControlInv'
  BY <1>6 DEF Measure
<1>7. ASSUME NEW v \in Verifiers, Conclude(v) PROVE ControlInv'
  BY <1>7 DEF Conclude, Establish, ForgetMeasurements, Judged
<1>8. ASSUME NEW v \in Verifiers, Suspend(v) PROVE ControlInv'
  BY <1>8 DEF Suspend, Establish
<1>9. ASSUME NEW v \in Verifiers, Raise(v) PROVE ControlInv'
  BY <1>9 DEF Raise, ForgetMeasurements
<1>10. ASSUME NEW v \in Verifiers, ReportNothing(v) PROVE ControlInv'
  BY <1>10 DEF ReportNothing, Return
<1>11. ASSUME NEW v \in Verifiers, Report(v) PROVE ControlInv'
  BY <1>11 DEF Report
<1>12. ASSUME NEW v \in Verifiers, Drain(v) PROVE ControlInv'
  BY <1>12 DEF Drain
<1>13. ASSUME NEW v \in Verifiers, LeaveObserver(v) PROVE ControlInv'
  BY <1>13 DEF LeaveObserver, Return
<1>14. ASSUME NEW t \in Tasks, Boundary(t) PROVE ControlInv'
  BY <1>14, SourceConstants DEF Boundary, Due, Requests
<1>15. ASSUME NEW r \in Runs \cup Streams, Chunk(r) PROVE ControlInv'
  BY <1>15, SourceConstants DEF Chunk, Requests
<1>16. ASSUME NEW r \in Runs \cup Streams, StreamEnds(r) PROVE ControlInv'
  <2>1. r \in Tasks /\ phase[r] = "running" /\ r # Activation
    BY <1>16, SourceConstants DEF StreamEnds, Requests
  <2>2. PICK new \in {"done", "failed", "refused"} : phase' = [phase EXCEPT ![r] = new]
    BY <1>16 DEF StreamEnds
  <2> QED
    BY <1>16, <2>1, <2>2 DEF StreamEnds
<1>17. ASSUME NEW r \in Runs \cup Streams, RunFails(r) PROVE ControlInv'
  BY <1>17 DEF RunFails, Requests
<1>18. CASE Admit
  <2>1. /\ pc[Loop] = "admit" /\ holder = Nobody /\ task \in Tasks
        /\ state # "INITIALIZING"
    BY <1>18 DEF Admit
  <2>2. task = Activation => pc[Periodic] = "off"
    BY <2>1
  <2>3. pc'[Loop] = "idle" /\ pc'[Periodic] \in {pc[Periodic], "idle"}
    BY <1>18 DEF Admit
  <2>4. pc'[Periodic] # pc[Periodic] =>
          pc[Periodic] = "off" /\ task = Activation /\ state = "ACTIVE"
    BY <1>18, <2>2 DEF Admit
  <2>5. \A v \in Verifiers : holder' = v <=> pc'[v] = "measure"
    BY <1>18, <2>1, <2>3, <2>4 DEF Admit
  <2>6. \A v \in Verifiers : observing' = v <=> pc'[v] = "drain"
    BY <1>18, <2>1, <2>3, <2>4 DEF Admit
  <2>7. \A v \in Verifiers : pc'[v] # "measure"
    BY <1>18, <2>5 DEF Admit
  <2>8. \A v \in Verifiers : next'[v] = 1 /\ ~mismatched'[v] /\ ~unavailable'[v]
    BY <1>18, <2>1 DEF Admit
  <2>9. phase'[Activation] # "leaving"
    BY <1>18, <2>1 DEF Admit, Passed
  <2>10. phase'[Activation] \in {"new", "entering"} => pc'[Periodic] = "off"
    BY <1>18, <2>1, <2>4 DEF Admit, Passed
  <2> QED
    BY <1>18, <2>1, <2>5, <2>6, <2>7, <2>8, <2>9, <2>10 DEF Admit
<1>19. CASE AdmitChunk
  BY <1>19 DEF AdmitChunk
<1>20. CASE Yield
  BY <1>20 DEF Yield
<1>21. CASE UNCHANGED vars
  BY <1>21 DEF vars
<1> QED
  BY <1>1, <1>2, <1>3, <1>4, <1>5, <1>6, <1>7, <1>8, <1>9, <1>10,
     <1>11, <1>12, <1>13, <1>14, <1>15, <1>16, <1>17, <1>18, <1>19, <1>20, <1>21
     DEF Next, Verify, Forensics, Serve

-----------------------------------------------------------------------------
(* Boundaries.                                                              *)

\* A measurement has flagged every component that has differed since the
\* loop's boundary began and that it has passed.
Flagged(v) == \A c \in dirty : c < next[v] => mismatched[v] \/ unavailable[v]

\* The loop is past its verification, which did not raise.
Verified == \/ pc[Loop] = "admit"
            \/ pc[Loop] \in {"report", "drain"} /\ verdict[Loop] # "raised"

\* While a verification of the loop, or a later one of the periodic thread,
\* goes on, it has flagged what differs; authority is never active again
\* while something does.
BoundaryInv ==
  /\ dirty \subseteq Differs
  /\ pc[Loop] \notin InBoundary => dirty = {}
  /\ pc[Loop] = "measure" => Flagged(Loop)
  /\ pc[Loop] \in {"report", "drain", "admit"} /\ pc[Periodic] = "measure" =>
       Flagged(Periodic)
  /\ Verified /\ state = "ACTIVE" => dirty = {}

LEMMA BoundaryInit == Init => BoundaryInv
BY DEF Init, BoundaryInv, InBoundary, Verified

LEMMA BoundaryStep == TypeInv /\ ControlInv /\ BoundaryInv /\ [Next]_vars => BoundaryInv'
<1> SUFFICES ASSUME TypeInv, ControlInv, BoundaryInv, [Next]_vars PROVE BoundaryInv'
  OBVIOUS
<1> USE SourceConstants DEF TypeInv, TypeOK, LoopTask, InBoundary, ControlInv, BoundaryInv,
        Flagged, Verified, Differs, fileVars, authorityVars, verifierVars, ledgerVars,
        requestVars, streamVars
<1>1. ASSUME NEW c \in Components, ChangeFile(c) PROVE BoundaryInv'
  BY <1>1 DEF ChangeFile
<1>2. CASE FreezeLedger
  BY <1>2 DEF FreezeLedger
<1>3. CASE Seal
  BY <1>3 DEF Seal
<1>4. CASE Tick
  BY <1>4 DEF Tick
<1>5. ASSUME NEW v \in Verifiers, Acquire(v) PROVE BoundaryInv'
  BY <1>5 DEF Acquire
<1>6. ASSUME NEW v \in Verifiers, Measure(v) PROVE BoundaryInv'
  <2>1. /\ UNCHANGED <<file, baseline, state, pc, verdict, dirty>>
        /\ pc[v] = "measure" /\ next[v] \in Components
        /\ next'[v] = next[v] + 1
        /\ mismatched'[v] = (mismatched[v] \/ file[next[v]] \notin {Unreadable, baseline[next[v]]})
        /\ unavailable'[v] = (unavailable[v] \/ file[next[v]] = Unreadable)
    BY <1>6 DEF Measure
  <2>2. \A u \in Verifiers : u # v => pc[u] # "measure"
    BY <2>1
  <2>3. ASSUME Flagged(v), NEW c \in dirty, c < next[v] + 1
        PROVE  mismatched'[v] \/ unavailable'[v]
    <3>1. CASE c = next[v]
      <4>1. file[c] # baseline[c]
        OBVIOUS
      <4> QED
        BY <2>1, <3>1, <4>1
    <3>2. CASE c < next[v]
      <4>1. mismatched[v] \/ unavailable[v]
        BY <2>3, <3>2
      <4> QED
        BY <2>1, <4>1
    <3> QED
      BY <2>1, <2>3, <3>1, <3>2
  <2>4. Flagged(v) => \A c \in dirty' : c < next'[v] => mismatched'[v] \/ unavailable'[v]
    BY <2>1, <2>3
  <2> QED
    BY <2>1, <2>2, <2>4
<1>7. ASSUME NEW v \in Verifiers, Conclude(v) PROVE BoundaryInv'
  BY <1>7 DEF Conclude, Establish, ForgetMeasurements, Judged
<1>8. ASSUME NEW v \in Verifiers, Suspend(v) PROVE BoundaryInv'
  BY <1>8 DEF Suspend, Establish
<1>9. ASSUME NEW v \in Verifiers, Raise(v) PROVE BoundaryInv'
  BY <1>9 DEF Raise, ForgetMeasurements
<1>10. ASSUME NEW v \in Verifiers, ReportNothing(v) PROVE BoundaryInv'
  BY ZenonT(60), <1>10 DEF ReportNothing, Return
<1>11. ASSUME NEW v \in Verifiers, Report(v) PROVE BoundaryInv'
  BY <1>11 DEF Report
<1>12. ASSUME NEW v \in Verifiers, Drain(v) PROVE BoundaryInv'
  BY <1>12 DEF Drain
<1>13. ASSUME NEW v \in Verifiers, LeaveObserver(v) PROVE BoundaryInv'
  BY ZenonT(60), <1>13 DEF LeaveObserver, Return
<1>14. ASSUME NEW t \in Tasks, Boundary(t) PROVE BoundaryInv'
  BY <1>14 DEF Boundary, Due
<1>15. ASSUME NEW r \in Runs \cup Streams, Chunk(r) PROVE BoundaryInv'
  BY <1>15 DEF Chunk
<1>16. ASSUME NEW r \in Runs \cup Streams, StreamEnds(r) PROVE BoundaryInv'
  BY <1>16 DEF StreamEnds
<1>17. ASSUME NEW r \in Runs \cup Streams, RunFails(r) PROVE BoundaryInv'
  BY <1>17 DEF RunFails
<1>18. CASE Admit
  BY <1>18 DEF Admit
<1>19. CASE AdmitChunk
  BY <1>19 DEF AdmitChunk
<1>20. CASE Yield
  BY <1>20 DEF Yield
<1>21. CASE UNCHANGED vars
  BY <1>21 DEF vars
<1> QED
  BY <1>1, <1>2, <1>3, <1>4, <1>5, <1>6, <1>7, <1>8, <1>9, <1>10,
     <1>11, <1>12, <1>13, <1>14, <1>15, <1>16, <1>17, <1>18, <1>19, <1>20, <1>21
     DEF Next, Verify, Forensics, Serve

(***************************************************************************)
(* No task passes a boundary while a protected file differs from what was  *)
(* sealed and has differed since that boundary was entered                 *)
(* (verify_for_authority_boundary), whatever the periodic thread does.     *)
(***************************************************************************)
THEOREM BoundaryAlwaysCatchesDrift == Spec => BoundaryCatchesDrift
<1>1. Spec => [](TypeInv /\ ControlInv /\ BoundaryInv)
  BY TypeInit, TypeStep, ControlInit, ControlStep, BoundaryInit, BoundaryStep, PTL DEF Spec
<1> DEFINE Caught == \A t \in Tasks :
                        /\ phase[t] \in {"entering", "leaving"}
                        /\ phase'[t] \in {"running", "done"}
                        => dirty = {}
<1>2. TypeInv /\ ControlInv /\ BoundaryInv /\ [Next]_vars => [Caught]_vars
  <2> SUFFICES ASSUME TypeInv, ControlInv, BoundaryInv, Next, NEW t \in Tasks,
                      phase[t] \in {"entering", "leaving"},
                      phase'[t] \in {"running", "done"}
               PROVE  dirty = {}
    OBVIOUS
  <2>1. CASE Admit
    BY <2>1 DEF Admit, BoundaryInv, Verified, TypeInv, TypeOK
  <2>2. CASE \E v \in Verifiers : Verify(v) \/ Raise(v) \/ Forensics(v)
    <3> PICK v \in Verifiers : Verify(v) \/ Raise(v) \/ Forensics(v)
      BY <2>2
    <3>1. UNCHANGED phase \/ Return(v)
      BY DEF Verify, Forensics, Acquire, Measure, Conclude, Suspend, Raise, Report,
             ReportNothing, Drain, LeaveObserver, requestVars
    <3> QED
      BY <3>1 DEF Return, TypeInv, TypeOK
  <2>3. CASE \E u \in Tasks : Boundary(u)
    BY <2>3 DEF Boundary, TypeInv, TypeOK, Due
  <2>4. CASE \E r \in Runs \cup Streams : Serve(r)
    <3> PICK r \in Runs \cup Streams : Serve(r)
      BY <2>4
    <3>1. phase[r] = "running"
      BY DEF Serve, Chunk, StreamEnds, RunFails
    <3>2. UNCHANGED phase \/ \E new \in Phases : phase' = [phase EXCEPT ![r] = new]
      BY DEF Serve, Chunk, StreamEnds, RunFails, Phases
    <3> QED
      BY <3>1, <3>2 DEF TypeInv, TypeOK
  <2>5. CASE \/ \E c \in Components : ChangeFile(c)
             \/ FreezeLedger \/ Seal \/ Tick \/ AdmitChunk \/ Yield
    BY <2>5 DEF ChangeFile, FreezeLedger, Seal, Tick, AdmitChunk, Yield, requestVars
  <2> QED
    BY <2>1, <2>2, <2>3, <2>4, <2>5 DEF Next
<1> QED
  BY <1>1, <1>2, PTL DEF Spec, BoundaryCatchesDrift

(***************************************************************************)
(* Invalidation is for good: after it the state never changes and no task  *)
(* passes a boundary, whichever thread comes next.                         *)
(***************************************************************************)
THEOREM InvalidationStays == Spec => InvalidationIsTerminal
<1>1. Spec => [](TypeInv /\ ControlInv)
  BY TypeInit, TypeStep, ControlInit, ControlStep, PTL DEF Spec
<1> DEFINE Stays == state = "INVALIDATED" =>
              /\ state' = "INVALIDATED"
              /\ \A t \in Tasks :
                   phase[t] \in {"entering", "leaving"} => phase'[t] \notin {"running", "done"}
<1>2. TypeInv /\ ControlInv /\ [Next]_vars => [Stays]_vars
  <2> SUFFICES ASSUME TypeInv, ControlInv, Next, state = "INVALIDATED"
               PROVE  Stays
    OBVIOUS
  <2> USE DEF TypeInv, TypeOK, ControlInv
  <2>1. CASE Admit
    BY <2>1 DEF Admit, authorityVars
  <2>2. CASE \E v \in Verifiers : Verify(v) \/ Raise(v) \/ Forensics(v)
    <3> PICK v \in Verifiers : Verify(v) \/ Raise(v) \/ Forensics(v)
      BY <2>2
    <3>1. UNCHANGED phase \/ Return(v)
      BY DEF Verify, Forensics, Acquire, Measure, Conclude, Suspend, Raise, Report,
             ReportNothing, Drain, LeaveObserver, requestVars
    <3>2. ~Conclude(v)
      BY DEF Conclude
    <3>3. state' = "INVALIDATED"
      BY <3>2 DEF Verify, Forensics, Acquire, Measure, Suspend, Raise, Report, Establish,
             ReportNothing, Drain, LeaveObserver, authorityVars
    <3> QED
      BY <3>1, <3>3 DEF Return
  <2>3. CASE \E u \in Tasks : Boundary(u)
    BY <2>3 DEF Boundary, Due, authorityVars
  <2>4. CASE \E r \in Runs \cup Streams : Serve(r)
    <3> PICK r \in Runs \cup Streams : Serve(r)
      BY <2>4
    <3>1. phase[r] = "running" /\ state' = state
      BY DEF Serve, Chunk, StreamEnds, RunFails, authorityVars
    <3>2. UNCHANGED phase \/ \E new \in Phases : phase' = [phase EXCEPT ![r] = new]
      BY DEF Serve, Chunk, StreamEnds, RunFails, Phases
    <3> QED
      BY <3>1, <3>2
  <2>5. CASE \/ \E c \in Components : ChangeFile(c)
             \/ FreezeLedger \/ Seal \/ Tick \/ AdmitChunk \/ Yield
    BY <2>5 DEF ChangeFile, FreezeLedger, Seal, Tick, AdmitChunk, Yield, requestVars,
           authorityVars
  <2> QED
    BY <2>1, <2>2, <2>3, <2>4, <2>5 DEF Next
<1> QED
  BY <1>1, <1>2, PTL DEF Spec, InvalidationIsTerminal

-----------------------------------------------------------------------------
(* Streams.                                                                 *)

\* How many chunks the caller of an unblocked stream has.
Delivered(r) == IF pc[Loop] \in {"chunk", "yield"} /\ task = r
                THEN produced[r] - 1 ELSE produced[r]

\* An unblocked stream has delivered all but the chunk at hand; a blocked one
\* a prefix; only an unblocked stream is done.  A chunk slips only out of a
\* yield that was admitted while authority was active.
ReleaseInv ==
  /\ \A r \in Streams :
       /\ ~blocked[r] => released[r] = 1..Delivered(r)
       /\ \E n \in 0..produced[r] : released[r] = 1..n
       /\ phase[r] = "done" => ~blocked[r]
       /\ phase[r] # "leaving"
  /\ pc[Loop] \in {"chunk", "yield"} => ~blocked[task]
  /\ slipped <= 1
  /\ state = "ACTIVE" \/ pc[Loop] = "yield" => slipped = 0

LEMMA ReleaseInit == Init => ReleaseInv
<1> SUFFICES ASSUME Init PROVE ReleaseInv
  OBVIOUS
<1>1. \A r \in Streams : released[r] = 1..0 /\ produced[r] = 0
  BY DEF Init
<1> QED
  BY <1>1, SourceConstants DEF Init, ReleaseInv, Delivered, Tasks, Requests

LEMMA ReleaseStep == TypeInv /\ ControlInv /\ ReleaseInv /\ [Next]_vars => ReleaseInv'
<1> SUFFICES ASSUME TypeInv, ControlInv, ReleaseInv, [Next]_vars PROVE ReleaseInv'
  OBVIOUS
<1> USE SourceConstants DEF TypeInv, TypeOK, LoopTask, InBoundary, ControlInv, ReleaseInv,
        Delivered, Tasks, Requests, fileVars, authorityVars, verifierVars, ledgerVars,
        requestVars, streamVars
<1>1. ASSUME NEW c \in Components, ChangeFile(c) PROVE ReleaseInv'
  BY <1>1 DEF ChangeFile
<1>2. CASE FreezeLedger
  BY <1>2 DEF FreezeLedger
<1>3. CASE Seal
  BY <1>3 DEF Seal
<1>4. CASE Tick
  BY <1>4 DEF Tick
<1>5. ASSUME NEW v \in Verifiers, Acquire(v) PROVE ReleaseInv'
  BY <1>5 DEF Acquire
<1>6. ASSUME NEW v \in Verifiers, Measure(v) PROVE ReleaseInv'
  BY <1>6 DEF Measure
<1>7. ASSUME NEW v \in Verifiers, Conclude(v) PROVE ReleaseInv'
  BY <1>7 DEF Conclude, Establish, ForgetMeasurements, Judged
<1>8. ASSUME NEW v \in Verifiers, Suspend(v) PROVE ReleaseInv'
  BY <1>8 DEF Suspend, Establish
<1>9. ASSUME NEW v \in Verifiers, Raise(v) PROVE ReleaseInv'
  BY <1>9 DEF Raise, ForgetMeasurements
<1>10. ASSUME NEW v \in Verifiers, ReportNothing(v) PROVE ReleaseInv'
  BY <1>10 DEF ReportNothing, Return
<1>11. ASSUME NEW v \in Verifiers, Report(v) PROVE ReleaseInv'
  BY <1>11 DEF Report
<1>12. ASSUME NEW v \in Verifiers, Drain(v) PROVE ReleaseInv'
  BY <1>12 DEF Drain
<1>13. ASSUME NEW v \in Verifiers, LeaveObserver(v) PROVE ReleaseInv'
  BY <1>13 DEF LeaveObserver, Return
<1>14. ASSUME NEW t \in Tasks, Boundary(t) PROVE ReleaseInv'
  BY <1>14 DEF Boundary, Due
<1>15. ASSUME NEW r \in Runs \cup Streams, Chunk(r) PROVE ReleaseInv'
  BY <1>15 DEF Chunk
<1>16. ASSUME NEW r \in Runs \cup Streams, StreamEnds(r) PROVE ReleaseInv'
  BY <1>16 DEF StreamEnds
<1>17. ASSUME NEW r \in Runs \cup Streams, RunFails(r) PROVE ReleaseInv'
  BY <1>17 DEF RunFails
<1>18. CASE Admit
  BY <1>18 DEF Admit, Passed
<1>19. CASE AdmitChunk
  BY ZenonT(60), <1>19 DEF AdmitChunk
<1>20. CASE Yield
  <2>1. /\ task \in Streams /\ ~blocked[task] /\ produced[task] \in 1..MaxChunks
        /\ phase[task] = "running" /\ released[task] = 1..(produced[task] - 1)
        /\ pc[Loop] = "yield" /\ slipped = 0
    BY <1>20 DEF Yield
  <2>2. /\ released' = [released EXCEPT ![task] = @ \cup {produced[task]}]
        /\ pc'[Loop] = "idle"
        /\ UNCHANGED <<produced, blocked, phase, state>>
    BY <1>20 DEF Yield
  <2>3. released'[task] = 1..produced[task]
    BY <2>1, <2>2
  <2>4. \A r \in Streams : r # task => released'[r] = released[r]
    BY <2>1, <2>2
  <2>5. ASSUME NEW r \in Streams
        PROVE  /\ ~blocked[r] => released'[r] = 1..produced[r]
               /\ \E n \in 0..produced[r] : released'[r] = 1..n
    <3>1. CASE r = task
      BY <2>1, <2>3, <3>1
    <3>2. CASE r # task
      BY <2>4, <3>2
    <3> QED
      BY <3>1, <3>2
  <2>6. slipped' <= 1 /\ (state = "ACTIVE" => slipped' = 0)
    BY <1>20, <2>1 DEF Yield
  <2> QED
    BY <2>2, <2>5, <2>6
<1>21. CASE UNCHANGED vars
  BY <1>21 DEF vars
<1> QED
  BY <1>1, <1>2, <1>3, <1>4, <1>5, <1>6, <1>7, <1>8, <1>9, <1>10,
     <1>11, <1>12, <1>13, <1>14, <1>15, <1>16, <1>17, <1>18, <1>19, <1>20, <1>21
     DEF Next, Verify, Forensics, Serve

(***************************************************************************)
(* What a caller of source_governed_stream gets is a prefix of the stream, *)
(* all of it when the stream ends without an error.                        *)
(***************************************************************************)
THEOREM ReleasedAlwaysPrefix == Spec => []ReleasedPrefix
<1>1. Spec => [](TypeInv /\ ReleaseInv)
  BY TypeInit, TypeStep, ControlInit, ControlStep, ReleaseInit, ReleaseStep, PTL DEF Spec
<1>2. TypeInv /\ ReleaseInv => ReleasedPrefix
  BY DEF TypeInv, TypeOK, LoopTask, ReleaseInv, ReleasedPrefix, Delivered
<1> QED
  BY <1>1, <1>2, PTL

(***************************************************************************)
(* Over all streams at most one chunk leaves between a loss of authority   *)
(* and its restoration.                                                    *)
(***************************************************************************)
THEOREM OneChunkSlipsAtMost == Spec => []OneChunkSlips
<1>1. Spec => []ReleaseInv
  BY TypeInit, TypeStep, ControlInit, ControlStep, ReleaseInit, ReleaseStep, PTL DEF Spec
<1>2. ReleaseInv => OneChunkSlips
  BY DEF ReleaseInv, OneChunkSlips
<1> QED
  BY <1>1, <1>2, PTL

-----------------------------------------------------------------------------
(* The ledger.                                                              *)

LEMMA AppendProperties ==
  ASSUME NEW S, NEW q \in Seq(S), NEW x \in S
  PROVE  /\ Len(Append(q, x)) = Len(q) + 1
         /\ \A n \in 1..Len(q) : Append(q, x)[n] = q[n]
         /\ Append(q, x)[Len(q) + 1] = x
OBVIOUS

\* Each transition is numbered by its place; what the ledger has not been
\* offered is in the buffer or with a thread about to report it, once.
LedgerInv ==
  /\ transitions = Len(made)
  /\ \A n \in 1..Len(made) : made[n].seq = n
  /\ nextSequence <= Len(made) + 1
  /\ \A v \in Verifiers : fact[v] # NoFact =>
       /\ pc[v] = "report" /\ fact[v] \notin pending
       /\ fact[v].seq \in nextSequence..Len(made) /\ made[fact[v].seq] = fact[v]
  /\ fact[Loop] = fact[Periodic] => fact[Loop] = NoFact
  /\ \A f \in pending : f.seq \in nextSequence..Len(made) /\ made[f.seq] = f
  /\ \A n \in nextSequence..Len(made) :
       made[n] \in pending \/ \E v \in Verifiers : fact[v] = made[n]
  /\ Len(recorded) < nextSequence
  /\ \A n \in 1..Len(recorded) : recorded[n] = made[n]
  /\ ~ledgerFrozen => Len(recorded) = nextSequence - 1
  /\ (\A v \in Verifiers : pc[v] # "drain") => \A f \in pending : f.seq # nextSequence

LEMMA LedgerStarts == Init => LedgerInv
BY DEF Init, LedgerInv

\* What establishing a state does to the forensic chronology.
LEMMA EstablishLedger ==
  ASSUME TypeInv, LedgerInv, NEW v \in Verifiers, NEW new \in States,
         pc[v] \in {"measure", "suspend"}, Establish(v, new),
         pc' = [pc EXCEPT ![v] = "report"], UNCHANGED ledgerVars
  PROVE  LedgerInv'
<1> USE DEF TypeInv, TypeOK, ledgerVars
<1>1. fact[v] = NoFact
  BY DEF LedgerInv
<1>2. \A u \in Verifiers : pc'[u] = "drain" <=> pc[u] = "drain"
  OBVIOUS
<1>3. \A u \in Verifiers : pc[u] = "report" => pc'[u] = "report"
  OBVIOUS
<1>4. CASE new = state
  <2>1. UNCHANGED <<transitions, made, fact>>
    BY <1>4 DEF Establish
  <2> QED
    BY <1>2, <1>3, <2>1 DEF LedgerInv
<1>5. CASE new # state
  <2> DEFINE t == [seq |-> transitions + 1, from |-> state, to |-> new]
  <2>1. t \in Transition /\ t.seq = Len(made) + 1 /\ t # NoFact
    BY DEF Transition, LedgerInv
  <2>2. /\ transitions' = transitions + 1 /\ made' = Append(made, t)
        /\ fact' = [fact EXCEPT ![v] = t]
    BY <1>5 DEF Establish
  <2> HIDE DEF t
  <2>3. /\ Len(made') = Len(made) + 1 /\ made'[Len(made) + 1] = t
        /\ \A n \in 1..Len(made) : made'[n] = made[n]
    BY <2>1, <2>2, AppendProperties
  <2>4. Len(made) \in Nat /\ nextSequence \in Nat \ {0} /\ nextSequence <= Len(made) + 1
        /\ Len(recorded) \in Nat /\ Len(recorded) < nextSequence
    BY DEF LedgerInv
  <2>5. /\ transitions' = Len(made')
        /\ \A n \in 1..Len(made') : made'[n].seq = n
    BY <2>1, <2>2, <2>3, <2>4 DEF LedgerInv
  <2>6. \A f \in pending : f.seq \in nextSequence..Len(made') /\ made'[f.seq] = f
    BY <2>3, <2>4 DEF LedgerInv
  <2>7. t \notin pending
    BY <2>1, <2>4 DEF LedgerInv
  <2>8. fact'[v] = t /\ \A u \in Verifiers : u # v => fact'[u] = fact[u]
    BY <2>2
  <2>9. ASSUME NEW u \in Verifiers, fact'[u] # NoFact
        PROVE  /\ pc'[u] = "report" /\ fact'[u] \notin pending
               /\ fact'[u].seq \in nextSequence..Len(made') /\ made'[fact'[u].seq] = fact'[u]
    <3>1. CASE u = v
      BY <2>1, <2>3, <2>4, <2>7, <2>8, <3>1
    <3>2. CASE u # v
      BY <1>3, <2>3, <2>4, <2>8, <2>9, <3>2 DEF LedgerInv
    <3> QED
      BY <3>1, <3>2
  <2>10. \A u \in Verifiers : u # v => fact'[u] # t
    BY <2>1, <2>4, <2>8 DEF LedgerInv
  <2>11. ASSUME NEW n \in nextSequence..Len(made')
         PROVE  made'[n] \in pending \/ \E u \in Verifiers : fact'[u] = made'[n]
    <3>1. CASE n = Len(made) + 1
      BY <2>3, <2>8, <3>1
    <3>2. CASE n # Len(made) + 1
      <4>1. n \in nextSequence..Len(made) /\ made'[n] = made[n]
        BY <2>3, <2>4, <3>2
      <4>2. made[n] # NoFact
        BY <4>1, <2>4 DEF LedgerInv
      <4> QED
        BY <1>1, <2>8, <4>1, <4>2 DEF LedgerInv
    <3> QED
      BY <3>1, <3>2
  <2>12. \A n \in 1..Len(recorded) : recorded[n] = made'[n]
    BY <2>3, <2>4 DEF LedgerInv
  <2>13. fact'[Loop] # fact'[Periodic]
    BY <2>8, <2>10
  <2> QED
    BY <1>2, <2>3, <2>4, <2>5, <2>6, <2>9, <2>11, <2>12, <2>13 DEF LedgerInv
<1> QED
  BY <1>4, <1>5

LEMMA LedgerStep == TypeInv /\ ControlInv /\ LedgerInv /\ [Next]_vars => LedgerInv'
<1> SUFFICES ASSUME TypeInv, ControlInv, LedgerInv, [Next]_vars PROVE LedgerInv'
  OBVIOUS
<1> USE DEF fileVars, authorityVars, verifierVars, ledgerVars, requestVars, streamVars
<1>a. ASSUME UNCHANGED <<made, transitions, fact, ledgerVars>>,
             \A v \in Verifiers : /\ pc'[v] = "drain" <=> pc[v] = "drain"
                                  /\ pc[v] = "report" /\ fact[v] # NoFact => pc'[v] = "report"
      PROVE  LedgerInv'
  BY <1>a DEF LedgerInv
<1>1. ASSUME NEW c \in Components, ChangeFile(c) PROVE LedgerInv'
  BY <1>a, <1>1 DEF TypeInv, TypeOK, ChangeFile
<1>2. CASE FreezeLedger
  BY <1>2 DEF FreezeLedger, LedgerInv
<1>3. CASE Seal
  BY <1>a, <1>3 DEF TypeInv, TypeOK, Seal
<1>4. CASE Tick
  BY <1>a, <1>4 DEF TypeInv, TypeOK, Tick
<1>5. ASSUME NEW v \in Verifiers, Acquire(v) PROVE LedgerInv'
  BY <1>a, <1>5 DEF TypeInv, TypeOK, Acquire
<1>6. ASSUME NEW v \in Verifiers, Measure(v) PROVE LedgerInv'
  BY <1>a, <1>6 DEF TypeInv, TypeOK, Measure
<1>7. ASSUME NEW v \in Verifiers, Conclude(v) PROVE LedgerInv'
  <2>1. Judged(v) \in States /\ Establish(v, Judged(v)) /\ pc[v] = "measure"
        /\ pc' = [pc EXCEPT ![v] = "report"] /\ UNCHANGED ledgerVars
    BY <1>7 DEF Conclude, Judged
  <2> QED
    BY <2>1, EstablishLedger
<1>8. ASSUME NEW v \in Verifiers, Suspend(v) PROVE LedgerInv'
  <2> DEFINE new == IF state = "INVALIDATED" THEN state ELSE "SUSPENDED_UNVERIFIED"
  <2>1. new \in States /\ Establish(v, new) /\ pc[v] = "suspend"
        /\ pc' = [pc EXCEPT ![v] = "report"] /\ UNCHANGED ledgerVars
    BY <1>8 DEF Suspend
  <2> HIDE DEF new
  <2> QED
    BY <2>1, EstablishLedger
<1>9. ASSUME NEW v \in Verifiers, Raise(v) PROVE LedgerInv'
  BY <1>a, <1>9 DEF TypeInv, TypeOK, Raise
<1>10. ASSUME NEW v \in Verifiers, ReportNothing(v) PROVE LedgerInv'
  BY <1>a, <1>10 DEF TypeInv, TypeOK, ReportNothing, Return
<1>11. ASSUME NEW v \in Verifiers, Report(v) PROVE LedgerInv'
  <2>1. /\ fact[v] # NoFact /\ ~(fact[v].seq < nextSequence) /\ fact[v] \notin pending
        /\ pending' = pending \cup {fact[v]}
        /\ fact' = [fact EXCEPT ![v] = NoFact]
        /\ pc'[v] = "drain" /\ \A u \in Verifiers : u # v => pc'[u] = pc[u]
        /\ UNCHANGED <<made, transitions, nextSequence, ledgerFrozen, recorded>>
    BY <1>11 DEF Report, LedgerInv, TypeInv, TypeOK
  <2>2. fact'[v] = NoFact /\ \A u \in Verifiers : u # v => fact'[u] = fact[u]
    BY <2>1 DEF TypeInv, TypeOK
  <2>3. ASSUME NEW u \in Verifiers, fact'[u] # NoFact
        PROVE  /\ pc'[u] = "report" /\ fact'[u] \notin pending'
               /\ fact'[u].seq \in nextSequence..Len(made) /\ made[fact'[u].seq] = fact'[u]
    <3>1. u # v /\ fact'[u] = fact[u] /\ pc'[u] = pc[u]
      BY <2>1, <2>2, <2>3
    <3>2. fact[u] # fact[v]
      BY <2>1, <3>1 DEF LedgerInv
    <3> QED
      BY <2>1, <2>3, <3>1, <3>2 DEF LedgerInv
  <2>4. \A f \in pending' : f.seq \in nextSequence..Len(made) /\ made[f.seq] = f
    BY <2>1 DEF LedgerInv
  <2>5. ASSUME NEW n \in nextSequence..Len(made)
        PROVE  made[n] \in pending' \/ \E u \in Verifiers : fact'[u] = made[n]
    <3>1. made[n] \in pending \/ \E u \in Verifiers : fact[u] = made[n]
      BY DEF LedgerInv
    <3> QED
      BY <2>1, <2>2, <3>1
  <2>6. fact'[Loop] = fact'[Periodic] => fact'[Loop] = NoFact
    BY <2>2 DEF LedgerInv
  <2> QED
    BY <2>1, <2>3, <2>4, <2>5, <2>6 DEF LedgerInv
<1>12. ASSUME NEW v \in Verifiers, Drain(v) PROVE LedgerInv'
  <2> PICK f \in pending : /\ f.seq = nextSequence
                           /\ recorded' = IF ledgerFrozen THEN recorded ELSE Append(recorded, f)
                           /\ pending' = pending \ {f}
    BY <1>12 DEF Drain
  <2>1. /\ pc[v] = "drain" /\ nextSequence' = nextSequence + 1
        /\ UNCHANGED <<made, transitions, fact, pc, ledgerFrozen>>
    BY <1>12 DEF Drain
  <2>2. /\ f \in Transition /\ recorded \in Seq(Transition) /\ made \in Seq(Transition)
        /\ nextSequence \in Nat \ {0} /\ Len(made) \in Nat /\ Len(recorded) \in Nat
    BY DEF TypeInv, TypeOK
  <2>3. nextSequence <= Len(made) /\ made[nextSequence] = f
    BY <2>2 DEF LedgerInv
  <2>4. \A g \in pending' : g.seq \in (nextSequence + 1)..Len(made) /\ made[g.seq] = g
    BY <2>2, <2>3 DEF LedgerInv
  <2>5. ASSUME NEW u \in Verifiers, fact[u] # NoFact
        PROVE  /\ pc[u] = "report" /\ fact[u] \notin pending'
               /\ fact[u].seq \in (nextSequence + 1)..Len(made) /\ made[fact[u].seq] = fact[u]
    <3>1. fact[u] # f /\ fact[u].seq \in nextSequence..Len(made) /\ made[fact[u].seq] = fact[u]
      BY <2>5 DEF LedgerInv
    <3> QED
      BY <2>2, <2>3, <2>5, <3>1 DEF LedgerInv
  <2>6. ASSUME NEW n \in (nextSequence + 1)..Len(made)
        PROVE  made[n] \in pending' \/ \E u \in Verifiers : fact[u] = made[n]
    <3>1. made[n].seq = n /\ n \in nextSequence..Len(made)
      BY <2>2 DEF LedgerInv
    <3>2. made[n] # f
      BY <2>2, <3>1
    <3> QED
      BY <3>1, <3>2 DEF LedgerInv
  <2>7. /\ Len(recorded') < nextSequence + 1
        /\ \A n \in 1..Len(recorded') : recorded'[n] = made[n]
        /\ ~ledgerFrozen => Len(recorded') = nextSequence
    <3>1. CASE ledgerFrozen
      BY <2>2, <3>1 DEF LedgerInv
    <3>2. CASE ~ledgerFrozen
      <4>1. Len(recorded) = nextSequence - 1
        BY <3>2 DEF LedgerInv
      <4>2. /\ Len(recorded') = Len(recorded) + 1 /\ recorded'[Len(recorded) + 1] = f
            /\ \A n \in 1..Len(recorded) : recorded'[n] = recorded[n]
        BY <2>2, <3>2, AppendProperties
      <4> QED
        BY <2>2, <2>3, <3>2, <4>1, <4>2 DEF LedgerInv
    <3> QED
      BY <3>1, <3>2
  <2> QED
    BY <2>1, <2>2, <2>3, <2>4, <2>5, <2>6, <2>7 DEF LedgerInv
<1>13. ASSUME NEW v \in Verifiers, LeaveObserver(v) PROVE LedgerInv'
  <2>1. /\ pc[v] = "drain" /\ \A f \in pending : f.seq # nextSequence
        /\ UNCHANGED <<made, transitions, fact, nextSequence, pending, ledgerFrozen, recorded>>
        /\ \A u \in Verifiers : u # v => pc'[u] = pc[u]
    BY <1>13 DEF LeaveObserver, Return, TypeInv, TypeOK
  <2>2. fact[v] = NoFact
    BY <2>1 DEF LedgerInv
  <2> QED
    BY <2>1, <2>2 DEF LedgerInv
<1>14. ASSUME NEW t \in Tasks, Boundary(t) PROVE LedgerInv'
  BY <1>a, <1>14 DEF TypeInv, TypeOK, Boundary
<1>15. ASSUME NEW r \in Runs \cup Streams, Chunk(r) PROVE LedgerInv'
  BY <1>a, <1>15 DEF TypeInv, TypeOK, Chunk
<1>16. ASSUME NEW r \in Runs \cup Streams, StreamEnds(r) PROVE LedgerInv'
  BY <1>a, <1>16 DEF TypeInv, TypeOK, StreamEnds
<1>17. ASSUME NEW r \in Runs \cup Streams, RunFails(r) PROVE LedgerInv'
  BY <1>a, <1>17 DEF TypeInv, TypeOK, RunFails
<1>18. CASE Admit
  <2>1. /\ pc[Loop] = "admit" /\ task \in Tasks /\ pc'[Loop] = "idle"
        /\ pc'[Periodic] = IF task = Activation /\ state = "ACTIVE" THEN "idle" ELSE pc[Periodic]
        /\ UNCHANGED <<made, transitions, fact, ledgerVars>>
    BY <1>18 DEF Admit, TypeInv, TypeOK, LoopTask, InBoundary
  <2>2. task = Activation => pc[Periodic] = "off"
    BY <2>1 DEF TypeInv, LoopTask, InBoundary, ControlInv
  <2> QED
    BY <1>a, <2>1, <2>2
<1>19. CASE AdmitChunk
  BY <1>a, <1>19 DEF TypeInv, TypeOK, AdmitChunk
<1>20. CASE Yield
  BY <1>a, <1>20 DEF TypeInv, TypeOK, Yield
<1>21. CASE UNCHANGED vars
  BY <1>a, <1>21 DEF vars
<1> QED
  BY <1>1, <1>2, <1>3, <1>4, <1>5, <1>6, <1>7, <1>8, <1>9, <1>10,
     <1>11, <1>12, <1>13, <1>14, <1>15, <1>16, <1>17, <1>18, <1>19, <1>20, <1>21
     DEF Next, Verify, Forensics, Serve

(***************************************************************************)
(* The ledger tells the source transitions in the order in which they were *)
(* established, and all of them once nothing is being reported and unless  *)
(* it is frozen, in whatever order the two threads reach the observer.     *)
(***************************************************************************)
THEOREM LedgerAlwaysInOrder == Spec => []LedgerChronology
<1>1. Spec => [](TypeInv /\ LedgerInv)
  BY TypeInit, TypeStep, ControlInit, ControlStep, LedgerStarts, LedgerStep, PTL DEF Spec
<1>2. TypeInv /\ LedgerInv => LedgerChronology
  <2> SUFFICES ASSUME TypeInv, LedgerInv PROVE LedgerChronology
    OBVIOUS
  <2>1. /\ recorded \in Seq(Transition) /\ made \in Seq(Transition)
        /\ nextSequence \in Nat \ {0} /\ Len(made) \in Nat /\ Len(recorded) \in Nat
    BY DEF TypeInv, TypeOK
  <2>2. Len(recorded) <= Len(made) /\ \A n \in 1..Len(recorded) : recorded[n] = made[n]
    BY <2>1 DEF LedgerInv
  <2>3. ASSUME \A v \in Verifiers : pc[v] \notin {"report", "drain"}
        PROVE  pending = {} /\ (~ledgerFrozen => recorded = made)
    <3>1. \A v \in Verifiers : fact[v] = NoFact
      BY <2>3 DEF LedgerInv
    <3>2. nextSequence > Len(made)
      <4> SUFFICES ASSUME nextSequence <= Len(made) PROVE FALSE
        BY <2>1
      <4>1. nextSequence \in nextSequence..Len(made) /\ made[nextSequence].seq = nextSequence
        BY <2>1 DEF LedgerInv
      <4>2. made[nextSequence] \in pending
        BY <3>1, <4>1, <2>1 DEF LedgerInv
      <4> QED
        BY <2>3, <4>1, <4>2 DEF LedgerInv
    <3>3. pending = {}
      BY <2>1, <3>2 DEF LedgerInv
    <3>4. ASSUME ~ledgerFrozen PROVE recorded = made
      <4>1. Len(recorded) = Len(made)
        BY <2>1, <3>2, <3>4 DEF LedgerInv
      <4> HIDE DEF Transition
      <4> QED
        BY <2>1, <2>2, <4>1
    <3> QED
      BY <3>3, <3>4
  <2> QED
    BY <2>2, <2>3 DEF LedgerChronology
<1> QED
  BY <1>1, <1>2, PTL
=============================================================================
