----------------------------- MODULE ToolResume -----------------------------
(***************************************************************************)
(* The pending tool-resume store of JackQwenKernel (jack_kernel.py) and    *)
(* the HTTP requests that use it.                                          *)
(*                                                                         *)
(* A stage that stops at tool calls leaves a PendingToolResume checkpoint  *)
(* in the dict _pending_tool_resumes, under every released call id.  A     *)
(* later request that returns exactly those results claims the checkpoint  *)
(* (in_flight), runs the stage from the checkpoint's own history, and      *)
(* retires it, or rearms it on failure so that it can be retried.          *)
(*                                                                         *)
(* The server is one asyncio loop: a handler runs until it awaits the      *)
(* backend or its client.  No critical section awaits, so the consume, the *)
(* register-then-retire and each rearm are single steps; what interleaves  *)
(* is the inference of one request with the steps of the others.           *)
(***************************************************************************)
EXTENDS Naturals, FiniteSets

CONSTANTS Requests,       \* HTTP requests to /v1/chat/completions
          Checkpoints,    \* PendingToolResume objects (uuid resume ids)
          CallIds,        \* tool_call_id values minted by the backend
          Results,        \* contents of a tool result message
          NoResult,       \* this call id has no result message in the body
          NoCheckpoint,   \* the call id maps to nothing / nothing is owned
          Bodies,         \* the message lists clients may send
          Transports,     \* which of "stream" and "nonstream" clients use
          MaxConcurrent   \* JACK_MAX_CONCURRENT, the kernel's semaphore

\* The tool messages of a body: a result for some of the call ids.
Reply == [CallIds -> Results \cup {NoResult}]
NoReply == [i \in CallIds |-> NoResult]

\* lastTool: the last message has role "tool"; repeated: the ids that occur
\* in more than one tool message.
Body == [lastTool : BOOLEAN, reply : Reply, repeated : SUBSET CallIds]

ASSUME ConstantsOK ==
  /\ NoCheckpoint \notin Checkpoints
  /\ NoResult \notin Results
  /\ Bodies \subseteq Body
  /\ Transports \subseteq {"stream", "nonstream"}
  /\ IsFiniteSet(Requests)
  /\ MaxConcurrent \in Nat \ {0}

VARIABLES
  \* the store
  pending,      \* _pending_tool_resumes : call id -> checkpoint
  expected,     \* expected_tool_call_ids
  withheld,     \* withheld_tool_call_ids
  inFlight,     \* in_flight
  accepted,     \* accepted_tool_results, NoReply for None
  aged,         \* created more than six hours ago
  \* the requests
  phase,        \* where the handler is
  transport,    \* "stream" or "nonstream"
  body,         \* the request's messages
  owner,        \* the checkpoint the request consumed
  evidence,     \* the tool results its cognition runs on
  \* history
  issued,       \* resume ids handed out
  completedBy   \* the requests that carried the checkpoint's stage to an end

storeVars == <<pending, expected, withheld, inFlight, accepted, aged>>
requestVars == <<phase, transport, body, owner, evidence>>
historyVars == <<issued, completedBy>>
vars == <<storeVars, requestVars, historyVars>>

Phases == {"idle", "queued", "running", "draining", "failing", "done"}

TypeOK ==
  /\ pending \in [CallIds -> Checkpoints \cup {NoCheckpoint}]
  /\ expected \in [Checkpoints -> SUBSET CallIds]
  /\ withheld \in [Checkpoints -> SUBSET CallIds]
  /\ inFlight \in [Checkpoints -> BOOLEAN]
  /\ accepted \in [Checkpoints -> Reply]
  /\ aged \in [Checkpoints -> BOOLEAN]
  /\ phase \in [Requests -> Phases]
  /\ transport \in [Requests -> Transports]
  /\ body \in [Requests -> Bodies]
  /\ owner \in [Requests -> Checkpoints \cup {NoCheckpoint}]
  /\ evidence \in [Requests -> Reply]
  /\ issued \in SUBSET Checkpoints
  /\ completedBy \in [Checkpoints -> SUBSET Requests]

Init ==
  /\ pending = [i \in CallIds |-> NoCheckpoint]
  /\ expected = [c \in Checkpoints |-> {}]
  /\ withheld = [c \in Checkpoints |-> {}]
  /\ inFlight = [c \in Checkpoints |-> FALSE]
  /\ accepted = [c \in Checkpoints |-> NoReply]
  /\ aged = [c \in Checkpoints |-> FALSE]
  /\ phase = [r \in Requests |-> "idle"]
  /\ transport \in [Requests -> Transports]
  /\ body \in [Requests -> Bodies]
  /\ owner = [r \in Requests |-> NoCheckpoint]
  /\ evidence = [r \in Requests |-> NoReply]
  /\ issued = {}
  /\ completedBy = [c \in Checkpoints |-> {}]

-----------------------------------------------------------------------------
(* The store's operations, as functions of the dict they are applied to.   *)

IsLive(c) == \E i \in CallIds : pending[i] = c

\* _expire_pending_tool_resumes_locked
Stale == {c \in issued : aged[c] /\ ~inFlight[c]}
Unexpired == [i \in CallIds |->
                IF pending[i] \in Stale THEN NoCheckpoint ELSE pending[i]]

Returned(b) == {i \in CallIds : b.reply[i] # NoResult}
LiveIds(b, p) == {i \in Returned(b) : p[i] # NoCheckpoint}

\* Mutant: the nonstream exit does not rearm.
NotRearmedOwn(o, p) == inFlight

\* _rearm_pending_tool_resume_for_messages: every checkpoint that one of the
\* body's tool messages names, whoever is resuming it.
RearmedFor(b, p) ==
  [c \in Checkpoints |-> inFlight[c] /\ \A i \in Returned(b) : p[i] # c]

\* _rearm_pending_tool_resume: the checkpoint o, if it is still in the dict.
RearmedOwn(o, p) ==
  [c \in Checkpoints |->
     inFlight[c] /\ ~(c = o /\ \E i \in expected[c] : p[i] = c)]

\* Mutants: retiring does nothing; it pops the ids whoever they map to.
NotRetired(o, p) == p
RetiredByName(o, p) ==
  [i \in CallIds |->
     IF o # NoCheckpoint /\ i \in expected[o] THEN NoCheckpoint ELSE p[i]]

\* _retire_pending_tool_resume: the ids that still map to this checkpoint.
Retired(o, p) ==
  [i \in CallIds |->
     IF o # NoCheckpoint /\ p[i] = o /\ i \in expected[o]
     THEN NoCheckpoint ELSE p[i]]

EvidenceFor(b, c) ==
  [i \in CallIds |-> IF i \in expected[c] THEN b.reply[i] ELSE NoResult]

\* The dict _consume_pending_tool_resume validates against: it expires stale
\* checkpoints only once it has found a tool result in the body.
Scanned(b) == IF Returned(b) = {} THEN pending ELSE Unexpired

ReturnsWithheld(b, p) ==
  \E c \in Checkpoints : (\E i \in CallIds : p[i] = c)
                         /\ Returned(b) \cap withheld[c] # {}

\* Mutants: the in_flight test, or the comparison with the results already
\* accepted, is missing.
AdmissibleBusy(b, c, p) ==
  /\ b.lastTool
  /\ ~ReturnsWithheld(b, p)
  /\ LiveIds(b, p) # {} /\ LiveIds(b, p) \cap b.repeated = {}
  /\ \A i \in LiveIds(b, p) : p[i] = c
  /\ LiveIds(b, p) = expected[c]
  /\ accepted[c] \in {NoReply, EvidenceFor(b, c)}
AdmissibleChanged(b, c, p) ==
  /\ b.lastTool
  /\ ~ReturnsWithheld(b, p)
  /\ LiveIds(b, p) # {} /\ LiveIds(b, p) \cap b.repeated = {}
  /\ \A i \in LiveIds(b, p) : p[i] = c
  /\ ~inFlight[c]
  /\ LiveIds(b, p) = expected[c]

\* The conditions under which the consume hands checkpoint c to a request.
Admissible(b, c, p) ==
  /\ b.lastTool
  /\ ~ReturnsWithheld(b, p)
  /\ LiveIds(b, p) # {}
  /\ LiveIds(b, p) \cap b.repeated = {}
  /\ \A i \in LiveIds(b, p) : p[i] = c
  /\ ~inFlight[c]
  /\ LiveIds(b, p) = expected[c]
  /\ accepted[c] \in {NoReply, EvidenceFor(b, c)}

-----------------------------------------------------------------------------
(* Requests.  "running" and "draining" hold the semaphore; a draining       *)
(* stream has settled its checkpoints and is sending its last events; a     *)
(* failing stream has left the kernel and is sending the error events of    *)
(* _safe_public_stream.                                                     *)

Holders == {r \in Requests : phase[r] \in {"running", "draining"}}
\* Mutant: the last permit is never given.
SemaphoreTight == Cardinality(Holders) + 1 < MaxConcurrent
SemaphoreFree == Cardinality(Holders) < MaxConcurrent

Arrive(r) ==
  /\ phase[r] = "idle"
  /\ phase' = [phase EXCEPT ![r] = "queued"]
  /\ UNCHANGED <<storeVars, transport, body, owner, evidence, historyVars>>

\* An exception leaves the kernel with the dict p: run() rearms what it
\* consumed and raises; _safe_public_stream rearms whatever the messages name
\* and goes on to send its error events.
Raise(r, p) ==
  /\ pending' = p
  /\ IF transport[r] = "stream"
     THEN /\ phase' = [phase EXCEPT ![r] = "failing"]
          /\ inFlight' = RearmedFor(body[r], p)
     ELSE /\ phase' = [phase EXCEPT ![r] = "done"]
          /\ inFlight' = RearmedOwn(owner[r], p)

\* A user turn: the pipeline starts from the caller's history.
AdmitFresh(r) ==
  /\ phase[r] = "queued"
  /\ SemaphoreFree
  /\ ~body[r].lastTool
  /\ phase' = [phase EXCEPT ![r] = "running"]
  /\ UNCHANGED <<storeVars, transport, body, owner, evidence, historyVars>>

\* A tool-result turn that claims checkpoint c and binds its evidence.
AdmitResume(r) ==
  /\ phase[r] = "queued"
  /\ SemaphoreFree
  /\ \E c \in Checkpoints :
       /\ Admissible(body[r], c, Scanned(body[r]))
       /\ pending' = Scanned(body[r])
       /\ inFlight' = [inFlight EXCEPT ![c] = TRUE]
       /\ accepted' = [accepted EXCEPT ![c] = EvidenceFor(body[r], c)]
       /\ owner' = [owner EXCEPT ![r] = c]
       /\ evidence' = [evidence EXCEPT ![r] = EvidenceFor(body[r], c)]
  /\ phase' = [phase EXCEPT ![r] = "running"]
  /\ UNCHANGED <<expected, withheld, aged, transport, body, historyVars>>

\* A tool-result turn that no checkpoint admits: one of the 409 answers.
AdmitRefused(r) ==
  /\ phase[r] = "queued"
  /\ SemaphoreFree
  /\ body[r].lastTool
  /\ \A c \in Checkpoints : ~Admissible(body[r], c, Scanned(body[r]))
  /\ Raise(r, Scanned(body[r]))
  /\ UNCHANGED <<expected, withheld, accepted, aged,
                 transport, body, owner, evidence, historyVars>>

\* After the stage: nonstream answers at once, a stream drains first.
Settled(r) == IF transport[r] = "stream" THEN "draining" ELSE "done"

CompletedBy(o, r) ==
  [c \in Checkpoints |->
     IF c = o THEN completedBy[c] \cup {r} ELSE completedBy[c]]

\* The stage ends in an answer.
Finish(r) ==
  /\ phase[r] = "running"
  /\ pending' = Retired(owner[r], pending)
  /\ inFlight' = [c \in Checkpoints |-> inFlight[c] /\ c # owner[r]]
  /\ completedBy' = CompletedBy(owner[r], r)
  /\ phase' = [phase EXCEPT ![r] = Settled(r)]
  /\ UNCHANGED <<expected, withheld, accepted, aged,
                 transport, body, owner, evidence, issued>>

\* The stage ends in tool calls, some of them withheld: the successor is
\* registered first, then the predecessor is retired.
Suspend(r) ==
  /\ phase[r] = "running"
  /\ \E c \in Checkpoints \ issued,
        calls \in (SUBSET CallIds) \ {{}} :
       /\ \A i \in calls : Unexpired[i] = NoCheckpoint
       /\ \E held \in SUBSET (CallIds \ calls) :
            withheld' = [withheld EXCEPT ![c] = held]
       /\ expected' = [expected EXCEPT ![c] = calls]
       /\ pending' = Retired(owner[r],
                             [i \in CallIds |->
                                IF i \in calls THEN c ELSE Unexpired[i]])
       /\ issued' = issued \cup {c}
  /\ inFlight' = [c \in Checkpoints |-> inFlight[c] /\ c # owner[r]]
  /\ completedBy' = CompletedBy(owner[r], r)
  /\ phase' = [phase EXCEPT ![r] = Settled(r)]
  /\ UNCHANGED <<accepted, aged, transport, body, owner, evidence>>

\* The stage ends in a tool call whose id is pending already, perhaps in the
\* predecessor itself: 409 out of _register_stage_tool_resume.
Collide(r) ==
  /\ phase[r] = "running"
  /\ \E i \in CallIds : Unexpired[i] # NoCheckpoint
  /\ Raise(r, Unexpired)
  /\ UNCHANGED <<expected, withheld, accepted, aged,
                 transport, body, owner, evidence, historyVars>>

\* Any other exception in the stage: a backend error, a 502, and for a
\* nonstream request a spent generation budget.
Fail(r) ==
  /\ phase[r] = "running"
  /\ Raise(r, pending)
  /\ UNCHANGED <<expected, withheld, accepted, aged,
                 transport, body, owner, evidence, historyVars>>

\* RepeatedLoopInterrupt, or in a stream a spent generation budget: no error
\* branch rearms, the stream goes on to its last events.
LoopInterrupt(r) ==
  /\ phase[r] = "running"
  /\ transport[r] = "stream"
  /\ phase' = [phase EXCEPT ![r] = "failing"]
  /\ UNCHANGED <<storeVars, transport, body, owner, evidence, historyVars>>

\* The finally clause of _safe_public_stream.
LeaveStream(r) ==
  /\ phase' = [phase EXCEPT ![r] = "done"]
  /\ inFlight' = RearmedFor(body[r], pending)
  /\ UNCHANGED <<pending, expected, withheld, accepted, aged,
                 transport, body, owner, evidence, historyVars>>

\* The last event has been sent.
CloseStream(r) ==
  /\ phase[r] \in {"draining", "failing"}
  /\ LeaveStream(r)

\* The client of a stream goes away while it waits or is being served.
Disconnect(r) ==
  /\ transport[r] = "stream"
  /\ phase[r] \in {"queued", "running"}
  /\ LeaveStream(r)

\* Six hours pass.
Age(c) ==
  /\ IsLive(c)
  /\ ~aged[c]
  /\ aged' = [aged EXCEPT ![c] = TRUE]
  /\ UNCHANGED <<pending, expected, withheld, inFlight, accepted,
                 requestVars, historyVars>>

Admit(r) == AdmitFresh(r) \/ AdmitResume(r) \/ AdmitRefused(r)
StageEnds(r) == Finish(r) \/ Suspend(r) \/ Collide(r) \/ Fail(r)
                \/ LoopInterrupt(r)

Next ==
  \/ \E r \in Requests :
       \/ Arrive(r)
       \/ AdmitFresh(r) \/ AdmitResume(r) \/ AdmitRefused(r)
       \/ Finish(r) \/ Suspend(r) \/ Collide(r) \/ Fail(r)
       \/ LoopInterrupt(r)
       \/ CloseStream(r) \/ Disconnect(r)
  \/ \E c \in Checkpoints : Age(c)

Spec == Init /\ [][Next]_vars

\* asyncio.Semaphore wakes its waiters in order, so a queued request is not
\* overtaken for ever; a stage ends because every generation has a budget and
\* every backend call a timeout; a stream that nobody reads is closed by its
\* transport.
Fairness ==
  \A r \in Requests : /\ SF_vars(Admit(r))
                      /\ WF_vars(StageEnds(r))
                      /\ WF_vars(CloseStream(r))

FairSpec == Spec /\ Fairness

-----------------------------------------------------------------------------
(* Properties *)

Working(r, c) == phase[r] = "running" /\ owner[r] = c

\* No two requests run the same checkpoint's stage at once: a concurrent
\* duplicate of a resume is refused (_consume_pending_tool_resume's in_flight
\* test).
SingleOwner ==
  \A c \in Checkpoints : \A q, r \in Requests :
    Working(q, c) /\ Working(r, c) => q = r

\* A checkpoint yields at most one continuation, over all retries, however
\* its requests fail, disconnect or are repeated.
AtMostOneContinuation ==
  \A c \in Checkpoints : \A q, r \in completedBy[c] : q = r

\* Every request that was ever given a checkpoint ran on the same results:
\* the first accepted ones, and exactly for the calls Jack released.
EvidenceAgreement ==
  \A r \in Requests :
    owner[r] # NoCheckpoint =>
      /\ evidence[r] = accepted[owner[r]]
      /\ {i \in CallIds : evidence[r][i] # NoResult} = expected[owner[r]]

\* A checkpoint is in the dict under all of its call ids or under none, and
\* under no other id: retiring, expiring and registering never leave half a
\* transaction behind, also when ids are used again.
WholeOrGone ==
  \A c \in Checkpoints :
    {i \in CallIds : pending[i] = c} \in {{}, expected[c]}

\* A claimed checkpoint has a request that is still dealing with it: no path
\* out of a request leaves the claim behind.
NoStrandedClaim ==
  \A c \in Checkpoints :
    IsLive(c) /\ inFlight[c] =>
      \E r \in Requests : owner[r] = c /\ phase[r] \in {"running", "failing"}

\* A checkpoint whose stage is running stays in the dict: it can expire, or
\* be retired, only with that request's own last step.
NeverDroppedUnderOwner ==
  \A r \in Requests :
    phase[r] = "running" /\ owner[r] # NoCheckpoint => IsLive(owner[r])

\* Once accepted, a checkpoint's evidence never changes.
EvidenceImmutable ==
  [][\A c \in Checkpoints : accepted[c] # NoReply => accepted'[c] = accepted[c]]_vars

\* What the store is for: each checkpoint is offered, claimed by one request
\* at a time, and closed once.
Worked(c) == \E r \in Requests : Working(r, c)

StatusOf(c) ==
  IF c \notin issued THEN "unused"
  ELSE IF ~IsLive(c) THEN "closed"
  ELSE IF Worked(c) THEN "claimed" ELSE "offered"

ClaimantOf(c) ==
  IF StatusOf(c) = "claimed" THEN CHOOSE r \in Requests : Working(r, c)
  ELSE NoCheckpoint

Promise ==
  INSTANCE ResumeOnce WITH
    NoRequest <- NoCheckpoint,
    status    <- [c \in Checkpoints |-> StatusOf(c)],
    claimant  <- [c \in Checkpoints |-> ClaimantOf(c)],
    bound     <- accepted,
    closer    <- completedBy

\* The store implements ResumeOnce.
ImplementsPromise == Promise!Spec

\* Every request that arrives is answered, refused or dropped.
EveryRequestEnds ==
  \A r \in Requests : phase[r] = "queued" ~> phase[r] = "done"

-----------------------------------------------------------------------------
(* Inductive invariants, used by the proofs.                                *)

\* The dict only holds whole, issued checkpoints.
StoreInv ==
  /\ \A c \in issued : expected[c] # {}
  /\ \A i \in CallIds : pending[i] # NoCheckpoint =>
       /\ pending[i] \in issued
       /\ i \in expected[pending[i]]
       /\ \A j \in expected[pending[i]] : pending[j] = pending[i]
  /\ \A r \in Requests : owner[r] # NoCheckpoint => owner[r] \in issued

\* Accepted evidence covers exactly the released calls, and every request
\* that was ever given the checkpoint has it.
EvidenceInv ==
  /\ \A c \in Checkpoints :
       accepted[c] # NoReply =>
         {i \in CallIds : accepted[c][i] # NoResult} = expected[c]
  /\ \A c \in Checkpoints \ issued : accepted[c] = NoReply
  /\ \A r \in Requests : owner[r] # NoCheckpoint =>
       /\ accepted[owner[r]] # NoReply
       /\ evidence[r] = accepted[owner[r]]

\* Without streams a claim is a flag and a worker, and a completed
\* checkpoint has left the dict.
ClaimInv ==
  /\ \A r \in Requests :
       /\ phase[r] \in {"idle", "queued", "running", "done"}
       /\ phase[r] \in {"idle", "queued"} => owner[r] = NoCheckpoint
  /\ \A r \in Requests : phase[r] = "running" /\ owner[r] # NoCheckpoint =>
       inFlight[owner[r]] /\ IsLive(owner[r])
  /\ \A c \in Checkpoints : inFlight[c] => Worked(c)
  /\ SingleOwner
  /\ \A c \in Checkpoints : completedBy[c] # {} => c \in issued /\ ~IsLive(c)
  /\ AtMostOneContinuation

\* With one permit there is one request in the kernel.
OneHolder == \A q, r \in Holders : q = r
=============================================================================
