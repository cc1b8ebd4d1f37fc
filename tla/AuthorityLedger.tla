-------------------------- MODULE AuthorityLedger --------------------------
(***************************************************************************)
(* AuthorityLedger (jack_authority_ledger.py): the process-local chain of  *)
(* authority records and its fail-soft projection to disk.                 *)
(*                                                                         *)
(* Threads advance the chain under _authority_lock and put the record on a *)
(* bounded queue without ever waiting; one writer thread takes records off *)
(* the queue, writes a file for each, and after each attempt rewrites      *)
(* projection_head.json.  Either write may fail.  What the queue does not  *)
(* take, or the disk refuses, is counted as lost.                          *)
(*                                                                         *)
(* A record is its sequence number: the digest chain is a function of the  *)
(* record and its predecessor.                                             *)
(***************************************************************************)
EXTENDS Integers, Sequences, FiniteSets

CONSTANTS Threads,        \* the threads that record decisions
          Capacity,       \* queue_capacity
          MaxSequence,    \* bound: how many records are ever made
          MayClose,       \* whether close() is ever called
          StartMayFail    \* whether the writer thread may fail to start

ASSUME LedgerConstants ==
  /\ Capacity \in Nat \ {0}
  /\ MaxSequence \in Nat
  /\ MayClose \in BOOLEAN
  /\ StartMayFail \in BOOLEAN

Stop == 0      \* the None that close() puts on the queue
Never == 0     \* no sequence number: records count from 1

VARIABLES
  \* authority: the in-memory chain
  head,            \* _head.sequence
  frozen,          \* _authority_frozen
  step,              \* where each thread is in _advance, _safe_record
  \* the queue and its writer
  queue,           \* _projection_queue
  closed,          \* _closed
  writer,          \* where _writer_loop is; "dead" when there is no thread
  item,            \* the record it is projecting
  doc,             \* the projection-head document it is writing
  \* durability accounting, under _durability_lock
  lastProjected,   \* _last_projected_sequence
  complete,        \* _projection_complete
  through,         \* _complete_through_sequence
  firstLost,       \* _first_lost_sequence
  lastLost,        \* _last_lost_sequence
  lostCount,       \* _lost_projection_count
  degraded,        \* _projection_metadata_degraded
  \* the disk
  records,         \* record files
  headDoc          \* projection_head.json

chainVars == <<head, frozen>>
writerVars == <<writer, item, doc>>
lossVars == <<complete, through, firstLost, lastLost, lostCount>>
durabilityVars == <<lastProjected, lossVars, degraded>>
diskVars == <<records, headDoc>>
recordVars == <<chainVars, step, queue, closed, writerVars, durabilityVars, diskVars>>

Sequence == 1..MaxSequence
Document == [last : 0..MaxSequence, through : 0..MaxSequence,
             complete : BOOLEAN, lost : Nat]
EmptyDocument == [last |-> 0, through |-> 0, complete |-> TRUE, lost |-> 0]

ThreadStates == {"idle", "enqueue", "lose", "start", "starting", "freezing"}
WriterStates == {"dead", "waiting", "recording", "noting", "document", "replacing"}

LedgerTypeOK ==
  /\ head \in 0..MaxSequence
  /\ frozen \in BOOLEAN
  /\ step \in [Threads -> ThreadStates]
  /\ queue \in Seq(0..MaxSequence)
  /\ Len(queue) <= Capacity
  /\ closed \in BOOLEAN
  /\ writer \in WriterStates
  /\ item \in 0..MaxSequence
  /\ doc \in Document
  /\ lastProjected \in 0..MaxSequence
  /\ complete \in BOOLEAN
  /\ through \in 0..MaxSequence
  /\ firstLost \in 0..MaxSequence
  /\ lastLost \in 0..MaxSequence
  /\ lostCount \in Nat
  /\ degraded \in BOOLEAN
  /\ records \in SUBSET Sequence
  /\ headDoc \in Document

LedgerInit ==
  /\ head = 0 /\ frozen = FALSE
  /\ step = [t \in Threads |-> "idle"]
  /\ queue = << >> /\ closed = FALSE
  /\ writer = "dead" /\ item = Never /\ doc = EmptyDocument
  /\ lastProjected = 0 /\ complete = TRUE /\ through = 0
  /\ firstLost = Never /\ lastLost = Never /\ lostCount = 0
  /\ degraded = FALSE
  /\ records = {} /\ headDoc = EmptyDocument

-----------------------------------------------------------------------------
(* The threads that record.                                                 *)

InsideLock(t) == step[t] \in {"enqueue", "lose"}
LockFree == \A t \in Threads : ~InsideLock(t)

\* _mark_projection_lost
MarkLost(s) ==
  /\ complete' = FALSE
  /\ firstLost' = IF firstLost = Never THEN s ELSE firstLost
  /\ through' = IF firstLost = Never /\ s - 1 < through THEN s - 1 ELSE through
  /\ lastLost' = s
  /\ lostCount' = lostCount + 1

\* _advance takes the lock, moves the head and looks at _closed.
Advance(t) ==
  /\ step[t] = "idle" /\ LockFree
  /\ ~frozen
  /\ head < MaxSequence
  /\ head' = head + 1
  /\ step' = [step EXCEPT ![t] = IF closed THEN "lose" ELSE "enqueue"]
  /\ UNCHANGED <<frozen, queue, closed, writerVars, durabilityVars, diskVars>>

\* Mutant: a full queue forgets the record.
EnqueueOrForget(t) ==
  /\ step[t] = "enqueue"
  /\ queue' = IF Len(queue) < Capacity THEN Append(queue, head) ELSE queue
  /\ step' = [step EXCEPT ![t] = "start"]
  /\ UNCHANGED <<chainVars, closed, writerVars, durabilityVars, diskVars>>

\* put_nowait; a full queue loses the projection, not the record.
Enqueue(t) ==
  /\ step[t] = "enqueue"
  /\ IF Len(queue) < Capacity
     THEN /\ queue' = Append(queue, head)
          /\ step' = [step EXCEPT ![t] = "start"]
     ELSE /\ step' = [step EXCEPT ![t] = "lose"]
          /\ UNCHANGED queue
  /\ UNCHANGED <<chainVars, closed, writerVars, durabilityVars, diskVars>>

Lose(t) ==
  /\ step[t] = "lose"
  /\ MarkLost(head)
  /\ step' = [step EXCEPT ![t] = "idle"]
  /\ UNCHANGED <<chainVars, queue, closed, writerVars, lastProjected,
                 degraded, diskVars>>

\* _ensure_writer reads _closed before it takes its lock.
ConsultClosed(t) ==
  /\ step[t] = "start"
  /\ step' = [step EXCEPT ![t] = IF closed THEN "idle" ELSE "starting"]
  /\ UNCHANGED <<chainVars, queue, closed, writerVars, durabilityVars, diskVars>>

\* Mutant: only the first record starts the writer.
StartWriterOnce(t) ==
  /\ step[t] = "starting"
  /\ writer' = IF writer = "dead" /\ head = 1 THEN "waiting" ELSE writer
  /\ step' = [step EXCEPT ![t] = "idle"]
  /\ UNCHANGED <<chainVars, queue, closed, item, doc, durabilityVars, diskVars>>

StartWriter(t) ==
  /\ step[t] = "starting"
  /\ writer' = IF writer = "dead" THEN "waiting" ELSE writer
  /\ step' = [step EXCEPT ![t] = "idle"]
  /\ UNCHANGED <<chainVars, queue, closed, item, doc, durabilityVars, diskVars>>

\* No thread can be started: the exception reaches _safe_record.
StartFails(t) ==
  /\ StartMayFail
  /\ step[t] = "starting" /\ writer = "dead"
  /\ step' = [step EXCEPT ![t] = "freezing"]
  /\ UNCHANGED <<chainVars, queue, closed, writerVars, durabilityVars, diskVars>>

\* A record method raises before it advances anything.
Reject(t) ==
  /\ step[t] = "idle"
  /\ step' = [step EXCEPT ![t] = "freezing"]
  /\ UNCHANGED <<chainVars, queue, closed, writerVars, durabilityVars, diskVars>>

\* _safe_record freezes the chain.
Freeze(t) ==
  /\ step[t] = "freezing" /\ LockFree
  /\ frozen' = TRUE
  /\ step' = [step EXCEPT ![t] = "idle"]
  /\ UNCHANGED <<head, queue, closed, writerVars, durabilityVars, diskVars>>

\* close() has waited for the queue, or given up waiting.
Close ==
  /\ MayClose
  /\ ~closed
  /\ closed' = TRUE
  /\ queue' = IF writer # "dead" /\ Len(queue) < Capacity
              THEN Append(queue, Stop) ELSE queue
  /\ UNCHANGED <<chainVars, step, writerVars, durabilityVars, diskVars>>

-----------------------------------------------------------------------------
(* The writer thread.                                                       *)

Take ==
  /\ writer = "waiting" /\ queue # << >>
  /\ item' = Head(queue)
  /\ queue' = Tail(queue)
  /\ writer' = IF Head(queue) = Stop THEN "dead" ELSE "recording"
  /\ UNCHANGED <<chainVars, step, closed, doc, durabilityVars, diskVars>>

RecordWritten ==
  /\ writer = "recording"
  /\ records' = records \cup {item}
  /\ writer' = "noting"
  /\ UNCHANGED <<chainVars, step, queue, closed, item, doc, durabilityVars, headDoc>>

RecordFails ==
  /\ writer = "recording"
  /\ MarkLost(item)
  /\ writer' = "document"
  /\ UNCHANGED <<chainVars, step, queue, closed, item, doc, lastProjected,
                 degraded, diskVars>>

\* Mutant: the prefix jumps over a gap.
ExtendsOverGap == firstLost = Never \/ item < firstLost

\* Whether the projected record extends the gap-free prefix.
ExtendsPrefix ==
  firstLost = Never \/ (item < firstLost /\ item = through + 1)

Note ==
  /\ writer = "noting"
  /\ lastProjected' = item
  /\ through' = IF ExtendsPrefix THEN item ELSE through
  /\ complete' = (firstLost = Never)
  /\ degraded' = FALSE
  /\ writer' = "document"
  /\ UNCHANGED <<chainVars, step, queue, closed, item, doc, firstLost, lastLost,
                 lostCount, diskVars>>

\* _projection_head_document
StatusDocument == [last |-> lastProjected, through |-> through,
                   complete |-> complete, lost |-> lostCount]

Snapshot ==
  /\ writer = "document"
  /\ doc' = StatusDocument
  /\ writer' = "replacing"
  /\ UNCHANGED <<chainVars, step, queue, closed, item, durabilityVars, diskVars>>

HeadWritten ==
  /\ writer = "replacing"
  /\ headDoc' = doc
  /\ degraded' = FALSE
  /\ writer' = "waiting"
  /\ UNCHANGED <<chainVars, step, queue, closed, item, doc, lastProjected, lossVars, records>>

\* Mutant: a failed replacement leaves no trace.
HeadFailsQuietly ==
  /\ writer = "replacing"
  /\ writer' = "waiting"
  /\ UNCHANGED <<chainVars, step, queue, closed, item, doc, lastProjected, lossVars,
                 degraded, diskVars>>

HeadFails ==
  /\ writer = "replacing"
  /\ degraded' = TRUE
  /\ writer' = "waiting"
  /\ UNCHANGED <<chainVars, step, queue, closed, item, doc, lastProjected, lossVars, diskVars>>

ThreadStep(t) ==
  \/ Advance(t) \/ Enqueue(t) \/ Lose(t)
  \/ ConsultClosed(t) \/ StartWriter(t) \/ StartFails(t)
  \/ Reject(t) \/ Freeze(t)

WriterStep ==
  \/ Take \/ RecordWritten \/ RecordFails \/ Note
  \/ Snapshot \/ HeadWritten \/ HeadFails

LedgerNext ==
  \/ \E t \in Threads : ThreadStep(t)
  \/ Close
  \/ WriterStep

LedgerSpec == LedgerInit /\ [][LedgerNext]_recordVars

\* A thread that has entered _advance runs on; what it records is its own
\* affair.
ThreadsRun ==
  \A t \in Threads :
    WF_recordVars(Enqueue(t) \/ Lose(t) \/ ConsultClosed(t) \/ StartWriter(t))

\* Nothing is assumed of the disk: the writer may hang in any write.
SlowDiskSpec == LedgerSpec /\ ThreadsRun

-----------------------------------------------------------------------------
(* Properties *)

\* Both _complete_through_sequence and the number on disk name a prefix of
\* the chain that really is on disk, whatever was lost before or between.
CompleteThroughTruthful ==
  /\ \A s \in 1..through : s \in records
  /\ \A s \in 1..headDoc.through : s \in records

Queued == {queue[i] : i \in DOMAIN queue} \ {Stop}
Recording == IF writer = "recording" THEN {item} ELSE {}
Entering == IF LockFree THEN {} ELSE {head}

\* No record vanishes: every sequence number ever handed out is on disk, on
\* its way there, or counted in _lost_projection_count.
NothingUnaccounted ==
  lostCount = Cardinality((1..head) \ (records \cup Queued \cup Recording \cup Entering))

\* When the writer is idle, the advertised prefix is as long as the disk
\* justifies: a loss further on does not cut off records that arrive late.
PrefixMaximal == writer \in {"dead", "waiting"} => through + 1 \notin records

\* While _projection_metadata_degraded is clear and the writer is idle, the
\* file names the same prefix and the same last record as memory.
HeadCurrentUnlessDegraded ==
  writer \in {"dead", "waiting"} /\ ~degraded =>
    headDoc.last = lastProjected /\ headDoc.through = through

\* A gap is never repaired: incompleteness is for ever, the prefix and the
\* count only grow.
GapsAreForever ==
  [][/\ ~complete => ~complete'
     /\ through <= through'
     /\ lostCount <= lostCount'
     /\ headDoc.through <= headDoc'.through]_recordVars

\* Some record method raised: the ledger records nothing more.
GivenUp == frozen \/ \E t \in Threads : step[t] = "freezing"

\* If every write returns, with success or with an error, every record reaches
\* the disk or the count of lost ones, unless close() stops the writer or the
\* ledger gave up at a record that raised.
EveryRecordSettles ==
  WF_recordVars(WriterStep) =>
    \A s \in Sequence :
      head >= s ~> closed \/ GivenUp \/ s \notin Queued \cup Recording \cup Entering
=============================================================================
