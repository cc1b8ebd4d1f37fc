-------------------------- MODULE SourceAuthority --------------------------
(***************************************************************************)
(* RuntimeSourceAuthority (jack_source_drift_guard.py), its release        *)
(* wrappers, and the ordered ledger observer of jack_secure_entrypoint.py. *)
(*                                                                         *)
(* The bytes of the authority-bearing source files are measured once, at   *)
(* sealing, and again at every authority boundary and by a periodic        *)
(* thread.  A mismatch ends authority for good, an unreadable file or a    *)
(* failing verification suspends it.  Two threads run this code: the event *)
(* loop, on which every boundary is a synchronous call, and the periodic   *)
(* verifier.  They share _lock, and, after leaving it, the observer's own  *)
(* lock, so facts may reach the observer out of order.                     *)
(***************************************************************************)
EXTENDS Integers, Sequences, FiniteSets

CONSTANTS NComponents,       \* the protected files are 1..NComponents
          Contents,          \* what a readable file may hold
          Missing,           \* no such path, or no regular file
          Unreadable,        \* any other OSError
          Runs,              \* requests through KERNEL.run
          Streams,           \* requests through KERNEL.stream
          Effects,           \* tool releases, executor admissions, durable
                             \* commits and mutating orchestration requests
          MaxChunks,         \* bound: chunks of one stream
          MaxChanges,        \* bound: changes to the files
          MaxRaises,         \* bound: verifications that raise
          LedgerMayFreeze    \* whether the ledger may refuse the facts

Activation == "activation"   \* the pre-ready boundary of the serving process
Requests == Runs \cup Streams \cup Effects
Tasks == Requests \cup {Activation}
Components == 1..NComponents

ASSUME SourceConstants ==
  /\ NComponents \in Nat \ {0}
  /\ MaxChunks \in Nat
  /\ MaxChanges \in Nat
  /\ MaxRaises \in Nat
  /\ LedgerMayFreeze \in BOOLEAN
  /\ Missing \notin Contents /\ Unreadable \notin Contents
  /\ Missing # Unreadable
  /\ Activation \notin Requests
  /\ Runs \cap Streams = {} /\ Runs \cap Effects = {} /\ Streams \cap Effects = {}

Loop == "loop"
Periodic == "periodic"
Verifiers == {Loop, Periodic}
Nobody == "nobody"
NoTask == "no task"

VARIABLES
  file,          \* the files as they are now
  baseline,      \* what sealing measured
  state,         \* _state
  transitions,   \* _transition_sequence
  holder,        \* who owns _lock
  \* each verifier
  pc,            \* where it is
  next,          \* the component it measures next
  mismatched, unavailable,   \* whether any component was
  verdict,       \* the state its verification returned, or "raised"
  fact,          \* the transition it has still to report, if any
  \* the observer and the ledger behind it
  observing,     \* who owns the observer's lock
  nextSequence,  \* _next_sequence
  pending,       \* _pending
  ledgerFrozen,
  recorded,      \* the source events in the ledger
  \* the requests
  phase,         \* of each task
  task,          \* the one whose boundary or chunk the loop is at
  produced,      \* chunks the inner stream made
  released,      \* chunks the caller got
  blocked,       \* `blocked' of source_governed_stream
  \* bounds and history
  changes, raises,
  made,          \* every transition, in the order it was established
  dirty,         \* components that have differed since the boundary began
  slipped        \* chunks released since authority was lost

fileVars == <<file, changes>>
authorityVars == <<baseline, state, transitions, made>>
verifierVars == <<next, mismatched, unavailable, verdict, fact, raises>>
ledgerVars == <<observing, nextSequence, pending, ledgerFrozen, recorded>>
streamVars == <<produced, released, blocked>>
requestVars == <<phase, task, streamVars>>
vars == <<fileVars, authorityVars, holder, pc, verifierVars, ledgerVars,
          requestVars, dirty, slipped>>

States == {"INITIALIZING", "ACTIVE", "SUSPENDED_UNVERIFIED", "INVALIDATED"}
Transition == [seq : Nat \ {0}, from : States, to : States]
NoFact == [seq |-> 0, from |-> "ACTIVE", to |-> "ACTIVE"]
LoopPlaces == {"idle", "lock", "measure", "suspend", "report", "drain", "admit",
               "chunk", "yield"}
PeriodicPlaces == {"off", "idle", "lock", "measure", "suspend", "report", "drain",
                   "dead"}
Phases == {"new", "entering", "running", "leaving", "done", "refused", "failed"}

\* The components whose file is not what was sealed.
Differs == {c \in Components : file[c] # baseline[c]}

Init ==
  /\ file \in [Components -> Contents \cup {Missing, Unreadable}]
  /\ changes = 0
  /\ baseline = [c \in Components |-> Missing]
  /\ state = "INITIALIZING" /\ transitions = 0 /\ made = << >>
  /\ holder = Nobody
  /\ pc = [v \in Verifiers |-> IF v = Loop THEN "idle" ELSE "off"]
  /\ next = [v \in Verifiers |-> 1]
  /\ mismatched = [v \in Verifiers |-> FALSE]
  /\ unavailable = [v \in Verifiers |-> FALSE]
  /\ verdict = [v \in Verifiers |-> "ACTIVE"]
  /\ fact = [v \in Verifiers |-> NoFact]
  /\ raises = 0
  /\ observing = Nobody /\ nextSequence = 1 /\ pending = {} /\ ledgerFrozen = FALSE
  /\ recorded = << >>
  /\ phase = [t \in Tasks |-> "new"] /\ task = NoTask
  /\ produced = [r \in Streams |-> 0]
  /\ released = [r \in Streams |-> {}]
  /\ blocked = [r \in Streams |-> FALSE]
  /\ dirty = {} /\ slipped = 0

-----------------------------------------------------------------------------
(* The world.                                                               *)

\* Someone edits, removes, locks or restores a file.
ChangeFile(c) ==
  /\ changes < MaxChanges
  /\ \E content \in (Contents \cup {Missing, Unreadable}) \ {file[c]} :
       file' = [file EXCEPT ![c] = content]
  /\ changes' = changes + 1
  /\ dirty' = IF file'[c] = baseline[c] THEN dirty \ {c} ELSE dirty
  /\ UNCHANGED <<authorityVars, holder, pc, verifierVars, ledgerVars, requestVars,
                 slipped>>

\* Any producer of authority records may have frozen the chain.
FreezeLedger ==
  /\ LedgerMayFreeze /\ ~ledgerFrozen
  /\ ledgerFrozen' = TRUE
  /\ UNCHANGED <<fileVars, authorityVars, holder, pc, verifierVars,
                 observing, nextSequence, pending, recorded, requestVars, dirty, slipped>>

\* seal, before any other thread exists; a file that changes during sealing
\* is a file that changes before or after it.  When one cannot be measured
\* the process ends without serving.
Seal ==
  /\ state = "INITIALIZING"
  /\ \A c \in Components : file[c] \in Contents
  /\ baseline' = file
  /\ state' = "ACTIVE"
  /\ UNCHANGED <<fileVars, transitions, made, holder, pc, verifierVars,
                 ledgerVars, requestVars, dirty, slipped>>

-----------------------------------------------------------------------------
(* Verification, by either thread.                                          *)

\* verify_now takes the lock; once invalidated it measures nothing.
Acquire(v) ==
  /\ pc[v] = "lock" /\ holder = Nobody
  /\ IF state = "INVALIDATED"
     THEN /\ verdict' = [verdict EXCEPT ![v] = state]
          /\ pc' = [pc EXCEPT ![v] = "report"]
          /\ UNCHANGED holder
     ELSE /\ holder' = v
          /\ pc' = [pc EXCEPT ![v] = "measure"]
          /\ UNCHANGED verdict
  /\ UNCHANGED <<fileVars, authorityVars, next, mismatched, unavailable, fact,
                 raises, ledgerVars, requestVars, dirty, slipped>>

\* _measure_regular_file and the comparison with the baseline
Measure(v) ==
  /\ pc[v] = "measure" /\ next[v] \in Components
  /\ LET c == next[v] IN
       /\ unavailable' = [unavailable EXCEPT ![v] = @ \/ file[c] = Unreadable]
       /\ mismatched' = [mismatched EXCEPT ![v] =
                           @ \/ file[c] \notin {Unreadable, baseline[c]}]
       /\ next' = [next EXCEPT ![v] = c + 1]
  /\ UNCHANGED <<fileVars, authorityVars, holder, pc, verdict, fact, raises,
                 ledgerVars, requestVars, dirty, slipped>>

\* A state is established under the lock; a changed one gets the next number.
Establish(v, new) ==
  /\ state' = new
  /\ IF new # state
     THEN LET t == [seq |-> transitions + 1, from |-> state, to |-> new] IN
            /\ transitions' = transitions + 1
            /\ made' = Append(made, t)
            /\ fact' = [fact EXCEPT ![v] = t]
     ELSE UNCHANGED <<transitions, made, fact>>
  /\ UNCHANGED baseline

Judged(v) == IF mismatched[v] THEN "INVALIDATED"
             ELSE IF unavailable[v] THEN "SUSPENDED_UNVERIFIED"
             ELSE "ACTIVE"

\* Its locals end with the call.
ForgetMeasurements(v) ==
  /\ next' = [next EXCEPT ![v] = 1]
  /\ mismatched' = [mismatched EXCEPT ![v] = FALSE]
  /\ unavailable' = [unavailable EXCEPT ![v] = FALSE]

Conclude(v) ==
  /\ pc[v] = "measure" /\ next[v] \notin Components
  /\ Establish(v, Judged(v))
  /\ verdict' = [verdict EXCEPT ![v] = Judged(v)]
  /\ holder' = Nobody
  /\ pc' = [pc EXCEPT ![v] = "report"]
  /\ ForgetMeasurements(v)
  /\ slipped' = IF Judged(v) = "ACTIVE" THEN 0 ELSE slipped
  /\ UNCHANGED <<fileVars, raises, ledgerVars, requestVars, dirty>>

\* Verification itself raises; its caller goes on to _suspend_unverified.
Raise(v) ==
  /\ pc[v] = "measure" /\ raises < MaxRaises
  /\ raises' = raises + 1
  /\ verdict' = [verdict EXCEPT ![v] = "raised"]
  /\ holder' = Nobody
  /\ pc' = [pc EXCEPT ![v] = "suspend"]
  /\ ForgetMeasurements(v)
  /\ UNCHANGED <<fileVars, authorityVars, fact, ledgerVars, requestVars, dirty,
                 slipped>>

\* _suspend_unverified
Suspend(v) ==
  /\ pc[v] = "suspend" /\ holder = Nobody
  /\ Establish(v, IF state = "INVALIDATED" THEN state ELSE "SUSPENDED_UNVERIFIED")
  /\ pc' = [pc EXCEPT ![v] = "report"]
  /\ UNCHANGED <<fileVars, holder, next, mismatched, unavailable, verdict, raises,
                 ledgerVars, requestVars, dirty, slipped>>

-----------------------------------------------------------------------------
(* The observer (_Phase8OrderedLedgerObserver), after the lock is left.      *)

\* Mutant: also when verification raised.
EndsOnRaise(v) == verdict[v] \in {"INVALIDATED", "raised"}

\* When the periodic thread returns for good.
Ends(v) == verdict[v] = "INVALIDATED"

\* Where a verifier goes with its verdict: the periodic thread sleeps again,
\* or ends; a boundary that raised refuses, any other asks for admission.
Return(v) ==
  /\ verdict' = [verdict EXCEPT ![v] = "ACTIVE"]
  /\ IF v = Periodic
     THEN /\ pc' = [pc EXCEPT ![v] = IF Ends(v) THEN "dead" ELSE "idle"]
          /\ UNCHANGED <<phase, task, dirty>>
     ELSE IF verdict[v] = "raised"
     THEN /\ phase' = [phase EXCEPT ![task] = "refused"]
          /\ pc' = [pc EXCEPT ![v] = "idle"]
          /\ task' = NoTask /\ dirty' = {}
     ELSE /\ pc' = [pc EXCEPT ![v] = "admit"]
          /\ UNCHANGED <<phase, task, dirty>>

\* Nothing changed, so there is nothing to observe.
ReportNothing(v) ==
  /\ pc[v] = "report" /\ fact[v] = NoFact
  /\ Return(v)
  /\ UNCHANGED <<fileVars, authorityVars, holder, next, mismatched, unavailable,
                 fact, raises, ledgerVars, streamVars, slipped>>

\* observe takes its lock and buffers the fact.
Report(v) ==
  /\ pc[v] = "report" /\ fact[v] # NoFact
  /\ observing = Nobody /\ observing' = v
  /\ pending' = IF fact[v].seq < nextSequence THEN pending ELSE pending \cup {fact[v]}
  /\ fact' = [fact EXCEPT ![v] = NoFact]
  /\ pc' = [pc EXCEPT ![v] = "drain"]
  /\ UNCHANGED <<fileVars, authorityVars, holder, next, mismatched, unavailable,
                 verdict, raises, nextSequence, ledgerFrozen, recorded,
                 requestVars, dirty, slipped>>

\* Mutant: in the order of arrival.
DrainAny(v) ==
  /\ pc[v] = "drain"
  /\ \E f \in pending :
       /\ recorded' = IF ledgerFrozen THEN recorded ELSE Append(recorded, f)
       /\ pending' = pending \ {f}
  /\ nextSequence' = nextSequence + 1
  /\ UNCHANGED <<fileVars, authorityVars, holder, pc, verifierVars, observing,
                 ledgerFrozen, requestVars, dirty, slipped>>

\* One round of its while loop.  The ledger may refuse the fact; the sequence
\* goes on all the same.
Drain(v) ==
  /\ pc[v] = "drain"
  /\ \E f \in pending :
       /\ f.seq = nextSequence
       /\ recorded' = IF ledgerFrozen THEN recorded ELSE Append(recorded, f)
       /\ pending' = pending \ {f}
  /\ nextSequence' = nextSequence + 1
  /\ UNCHANGED <<fileVars, authorityVars, holder, pc, verifierVars, observing,
                 ledgerFrozen, requestVars, dirty, slipped>>

LeaveObserver(v) ==
  /\ pc[v] = "drain" /\ \A f \in pending : f.seq # nextSequence
  /\ observing' = Nobody
  /\ Return(v)
  /\ UNCHANGED <<fileVars, authorityVars, holder, next, mismatched, unavailable,
                 fact, raises, nextSequence, pending, ledgerFrozen, recorded,
                 streamVars, slipped>>

-----------------------------------------------------------------------------
(* The periodic thread.                                                     *)

Tick ==
  /\ pc[Periodic] = "idle"
  /\ pc' = [pc EXCEPT ![Periodic] = "lock"]
  /\ UNCHANGED <<fileVars, authorityVars, holder, verifierVars, ledgerVars,
                 requestVars, dirty, slipped>>

-----------------------------------------------------------------------------
(* The loop: boundaries and streams.                                        *)

\* A boundary is due before the process serves, before each request, and
\* again when KERNEL.run has a result.
Due(t) ==
  \/ t = Activation /\ phase[t] = "new" /\ state # "INITIALIZING"
  \/ t \in Requests /\ phase[t] = "new" /\ phase[Activation] = "done"
  \/ t \in Runs /\ phase[t] = "running"

\* Mutant: a boundary relies on the last verification.
BoundaryCached(t) ==
  /\ pc[Loop] = "idle" /\ Due(t)
  /\ phase' = [phase EXCEPT ![t] = IF @ = "new" THEN "entering" ELSE "leaving"]
  /\ task' = t
  /\ dirty' = Differs
  /\ pc' = [pc EXCEPT ![Loop] = "admit"]
  /\ UNCHANGED <<fileVars, authorityVars, holder, verifierVars, ledgerVars, streamVars, slipped>>

Boundary(t) ==
  /\ pc[Loop] = "idle" /\ Due(t)
  /\ phase' = [phase EXCEPT ![t] = IF @ = "new" THEN "entering" ELSE "leaving"]
  /\ task' = t
  /\ dirty' = Differs
  /\ pc' = [pc EXCEPT ![Loop] = "lock"]
  /\ UNCHANGED <<fileVars, authorityVars, holder, verifierVars, ledgerVars, streamVars, slipped>>

\* What an admitted task goes on to; activation starts the periodic thread.
Passed(t) == IF t \in Runs \cup Streams /\ phase[t] = "entering"
             THEN "running" ELSE "done"

\* admit, at the end of a boundary
Admit ==
  /\ pc[Loop] = "admit" /\ holder = Nobody
  /\ phase' = [phase EXCEPT ![task] = IF state = "ACTIVE" THEN Passed(task) ELSE "refused"]
  /\ pc' = [pc EXCEPT ![Loop] = "idle",
                      ![Periodic] = IF task = Activation /\ state = "ACTIVE"
                                    THEN "idle" ELSE @]
  /\ task' = NoTask /\ dirty' = {}
  /\ UNCHANGED <<fileVars, authorityVars, holder, verifierVars, ledgerVars,
                 streamVars, slipped>>

\* KERNEL.run raises instead of returning.
RunFails(r) ==
  /\ pc[Loop] = "idle" /\ r \in Runs /\ phase[r] = "running"
  /\ phase' = [phase EXCEPT ![r] = "failed"]
  /\ UNCHANGED <<fileVars, authorityVars, holder, pc, verifierVars, ledgerVars,
                 task, streamVars, dirty, slipped>>

\* The inner stream yields; a blocked wrapper drains it.
Chunk(r) ==
  /\ pc[Loop] = "idle" /\ r \in Streams /\ phase[r] = "running"
  /\ produced[r] < MaxChunks
  /\ produced' = [produced EXCEPT ![r] = @ + 1]
  /\ IF blocked[r] THEN UNCHANGED <<pc, task>>
     ELSE pc' = [pc EXCEPT ![Loop] = "chunk"] /\ task' = r
  /\ UNCHANGED <<fileVars, authorityVars, holder, verifierVars, ledgerVars,
                 phase, released, blocked, dirty, slipped>>

\* Mutants: a refusal is forgotten; chunks are not admitted one by one.
AdmitChunkReopens ==
  /\ pc[Loop] = "chunk" /\ holder = Nobody
  /\ IF state = "ACTIVE"
     THEN pc' = [pc EXCEPT ![Loop] = "yield"] /\ UNCHANGED task
     ELSE /\ pc' = [pc EXCEPT ![Loop] = "idle"]
          /\ task' = NoTask
  /\ UNCHANGED <<fileVars, authorityVars, holder, verifierVars, ledgerVars,
                 phase, streamVars, dirty, slipped>>
AdmitChunkFreely ==
  /\ pc[Loop] = "chunk"
  /\ pc' = [pc EXCEPT ![Loop] = "yield"]
  /\ UNCHANGED <<fileVars, authorityVars, holder, verifierVars, ledgerVars,
                 requestVars, dirty, slipped>>

\* admit around nothing: the lock is free again before the chunk is yielded.
AdmitChunk ==
  /\ pc[Loop] = "chunk" /\ holder = Nobody
  /\ IF state = "ACTIVE"
     THEN pc' = [pc EXCEPT ![Loop] = "yield"] /\ UNCHANGED <<blocked, task>>
     ELSE /\ blocked' = [blocked EXCEPT ![task] = TRUE]
          /\ pc' = [pc EXCEPT ![Loop] = "idle"]
          /\ task' = NoTask
  /\ UNCHANGED <<fileVars, authorityVars, holder, verifierVars, ledgerVars,
                 phase, produced, released, dirty, slipped>>

Yield ==
  /\ pc[Loop] = "yield"
  /\ released' = [released EXCEPT ![task] = @ \cup {produced[task]}]
  /\ slipped' = IF state = "ACTIVE" THEN slipped ELSE slipped + 1
  /\ pc' = [pc EXCEPT ![Loop] = "idle"]
  /\ task' = NoTask
  /\ UNCHANGED <<fileVars, authorityVars, holder, verifierVars, ledgerVars,
                 phase, produced, blocked, dirty>>

\* The inner stream is exhausted, or raises; blocked wins over either.
StreamEnds(r) ==
  /\ pc[Loop] = "idle" /\ r \in Streams /\ phase[r] = "running"
  /\ \E end \in {"done", "failed"} :
       phase' = [phase EXCEPT ![r] = IF blocked[r] THEN "refused" ELSE end]
  /\ UNCHANGED <<fileVars, authorityVars, holder, pc, verifierVars, ledgerVars,
                 task, streamVars, dirty, slipped>>

-----------------------------------------------------------------------------
Verify(v) == Acquire(v) \/ Measure(v) \/ Conclude(v) \/ Suspend(v)
Forensics(v) == ReportNothing(v) \/ Report(v) \/ Drain(v) \/ LeaveObserver(v)
Serve(r) == Chunk(r) \/ StreamEnds(r) \/ RunFails(r)

Next ==
  \/ \E c \in Components : ChangeFile(c)
  \/ FreezeLedger \/ Seal \/ Tick
  \/ \E v \in Verifiers : Verify(v) \/ Raise(v) \/ Forensics(v)
  \/ \E t \in Tasks : Boundary(t)
  \/ \E r \in Runs \cup Streams : Serve(r)
  \/ Admit \/ AdmitChunk \/ Yield

Spec == Init /\ [][Next]_vars

\* Each thread goes on; the lock is free most of the time, since whoever
\* takes it leaves it after one pass over the files, so a waiting thread gets
\* it.  Nothing is assumed of the requests.
LoopRuns == Verify(Loop) \/ Forensics(Loop) \/ Admit \/ AdmitChunk \/ Yield

Fairness ==
  /\ SF_vars(LoopRuns)
  /\ SF_vars(Verify(Periodic) \/ Forensics(Periodic)) /\ WF_vars(Tick)
  /\ SF_vars(Boundary(Activation))

FairSpec == Spec /\ Fairness

-----------------------------------------------------------------------------
(* Properties.                                                              *)

TypeOK ==
  /\ file \in [Components -> Contents \cup {Missing, Unreadable}]
  /\ baseline \in [Components -> Contents \cup {Missing}]
  /\ changes \in 0..MaxChanges /\ raises \in 0..MaxRaises
  /\ state \in States /\ transitions \in Nat /\ made \in Seq(Transition)
  /\ holder \in Verifiers \cup {Nobody} /\ observing \in Verifiers \cup {Nobody}
  /\ pc \in [Verifiers -> LoopPlaces \cup PeriodicPlaces]
  /\ pc[Loop] \in LoopPlaces /\ pc[Periodic] \in PeriodicPlaces
  /\ next \in [Verifiers -> 1..(NComponents + 1)]
  /\ mismatched \in [Verifiers -> BOOLEAN] /\ unavailable \in [Verifiers -> BOOLEAN]
  /\ verdict \in [Verifiers -> States \cup {"raised"}]
  /\ fact \in [Verifiers -> Transition \cup {NoFact}]
  /\ nextSequence \in Nat \ {0} /\ pending \in SUBSET Transition
  /\ ledgerFrozen \in BOOLEAN /\ recorded \in Seq(Transition)
  /\ phase \in [Tasks -> Phases] /\ task \in Tasks \cup {NoTask}
  /\ \A t \in Tasks : phase[t] = "running" => t \in Runs \cup Streams
  /\ produced \in [Streams -> 0..MaxChunks]
  /\ released \in [Streams -> SUBSET (1..MaxChunks)]
  /\ blocked \in [Streams -> BOOLEAN]
  /\ dirty \in SUBSET Components
  /\ slipped \in Nat

\* No task passes a boundary while a protected file differs from the sealed
\* bytes and has differed ever since that boundary was entered, whatever the
\* periodic thread concluded in between.
BoundaryCatchesDrift ==
  [][\A t \in Tasks :
       /\ phase[t] \in {"entering", "leaving"}
       /\ phase'[t] \in {"running", "done"}
       => dirty = {}]_vars

\* What a caller got is a prefix of the stream, whatever was suspended and
\* restored on the way, and a stream that ends without an error was released
\* to the last chunk: an interrupted stream never reopens.
ReleasedPrefix ==
  \A r \in Streams :
    /\ \E n \in 0..produced[r] : released[r] = 1..n
    /\ phase[r] = "done" => released[r] = 1..produced[r]

\* From the moment authority is lost until it is restored at most one chunk
\* leaves the process, over all streams: the one already admitted.
OneChunkSlips == slipped <= 1

\* The ledger tells the source transitions in the order in which the source
\* guard established them, without gap or duplicate, though two threads
\* report them; while the ledger accepts facts and no report is under way it
\* tells all of them, the last of which is the present state.
LedgerChronology ==
  /\ Len(recorded) <= Len(made)
  /\ \A n \in 1..Len(recorded) : recorded[n] = made[n]
  /\ (\A v \in Verifiers : pc[v] \notin {"report", "drain"}) =>
       /\ pending = {}
       /\ ~ledgerFrozen => recorded = made

\* Invalidation is for good: whatever the files become, nothing is admitted
\* after it, and a stream gets at most the chunk already admitted.
InvalidationIsTerminal ==
  [][state = "INVALIDATED" =>
       /\ state' = "INVALIDATED"
       /\ \A t \in Tasks :
            phase[t] \in {"entering", "leaving"} => phase'[t] \notin {"running", "done"}
     ]_vars

\* Drift that lasts ends authority, with no request needed to notice it.
DriftEndsAuthority == <>[](Differs # {}) => <>[](state # "ACTIVE")
=============================================================================
