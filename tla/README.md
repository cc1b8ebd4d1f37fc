# A TLA+ development of Jack Kernel

Jack Kernel is a local inference gateway: an asyncio HTTP server
(`jack_kernel.py`) between an agent client, usually Pi, and a model backend. It
owns the cognition of a request (a two-stage agentic turn, a five-pass debugging
pipeline, deep-reasoning passes), holds back tool calls it does not authorise,
keeps exact checkpoints of turns that wait for tool results, records its
decisions in a hash-chained ledger, and refuses to run when its own source files
change. A TypeScript extension inside Pi (`Pi/pi-control-bridge.ts`) lets an
outside program give Pi tasks and watch them.

These modules model the parts of it where order, failure and concurrency decide
whether the program is right. TLC checks them on small instances, TLAPS proves the
most important invariants for every value of the constants.

## 1. Inventory

Modelled now:

| component | state | operations | what is hard |
|---|---|---|---|
| tool-resume store (`jack_kernel.py` 6335, 7257-7310, 7859-8236) | `_pending_tool_resumes`, and `in_flight`, `accepted_tool_results`, ids of each checkpoint | register, consume, retire, rearm, expire | claims that outlive or are taken from their request; retries; ids used again |
| request paths (11664-11845) | the semaphore, each handler's place | admit, run, fail, disconnect, close | a `finally` that runs for requests which never owned what they release |
| authority ledger (`jack_authority_ledger.py`) | the chain head, the projection queue, loss and durability fields, `projection_head.json` | record, enqueue, project, write the head, close | two threads and a writer; a disk that refuses any write; four locks and flags read outside them |
| source authority (`jack_source_drift_guard.py`, `jack_secure_entrypoint.py`) | authority state, transition numbers, observer's pending facts | verify, admit at a boundary, govern a stream, invalidate | the periodic thread acts between a check and its use |
| Pi control bridge (`Pi/pi-control-bridge.ts`) | the task, pending dispatch, control run, active run | submit, cancel, correlate Pi's events, settle, replace the session | Pi's events carry no task id; cancel may fall between any two of them |
| agentic turn (`jack_agentic_forensics.py`, `jack_kernel.py` 8239-9200, 10805-11100) | a SQLite row and an in-memory record per turn, besides its checkpoint | begin, suspend, resume, freeze, distil, commit, fail, clean up | three copies of one life cycle; a journal that refuses or is broken; cleanup clauses that run one after another; restarts |
| debugging lane (`jack_kernel.py` 1365-2222, 7407-7857, 8411-8524, 9246-10121) | `_DEBUGGING_RUNS`, one report file per run, three dicts of pauses | create, converse, freeze, pass, question, commit, retry, final report, follow up | the disk refuses between two passes; exact retries; replies matched by the text shown |
| stage runner (`jack_kernel.py` 5993-6244, 6544-7240, `jack_loop_detector.py`) | the meter, the loop detector, the message so far, open backend streams | connect, take a chunk, close, recover, repair, deliver | restarts from inside each other; streams that never end; a caller who leaves at any yield, also of a generator inside another |
| tool authority (`jack_path_policy.py`, `jack_consequence_gate.py`, `jack_credential_resource_guard.py`, `jack_kernel.py` 3103-3402) | the installed policy, the released calls | partition a batch, rewrite, admit at the executor | the same object in many spellings; the directory changes between release and execution; compound commands |
| release boundary (`jack_evidence_guard.py`) | per channel a detector, a filter and a quarantine | inspect, release, finish, interrupt, flush | text cut anywhere; channels that end at different times |
| orchestration hub (`jack_kernel.py` 10416-10663) | `_seq`, replay buffer, subscriber queues | publish, subscribe with a bookmark, relay, reconnect, close | slow clients, lost connections, restarts |

Not modelled yet, or not to be modelled:

| component | state | why it matters, or why it is left out |
|---|---|---|
| deep reasoning (`jack_deep_reasoning_*.py`) | a run's passes and its delivery | client disconnects while a run goes on |
| activity tracker (6358-6542) | active requests and children | only the flag of the stage runner is modelled; counts must return to zero |
| runtime manifests and lanes (459-660, 10209-10308) | files with pid and port | stale files, two lanes starting at once |
| working memory capsule | capsule and history of a session | committed with the turn |
| context pruning | none: pure functions over message lists | candidates for operators with a reference definition |
| credential and diagnostic guards | none but a carry per event stream | discovery of credentials and redaction: pattern matching on text |
| phase-7 ledger extension | none of its own | more event types for the ledger's `_advance`, which `AuthorityLedger` has |
| gateway proxy, HTTP parsing, responses compatibility, Pi extension, launchers | none or little | conversions and I/O |

How they interact. A request enters through `chat_completions`, takes a permit of
the semaphore, and may *consume* a checkpoint; its stages run under the source
authority's boundaries and reach the caller through the release boundary; if a
stage stops at tool calls the tool authority partitions
them, the withheld ones are recorded in the ledger, and a checkpoint is
*registered* for the released ones. In the agentic lane every one of these steps
also moves the turn's record and its row in the journal. The source guard reports its transitions to
the ledger through an observer called from two threads. The hub is a client of
the bridge's event stream and relays it to the subscribers of the kernel; tasks go
the other way, from the gateway to the bridge, and from the bridge as prompts
into Pi, whose requests arrive at the kernel again.

## 2. Plan

1. **Done.** The tool-resume store with its abstract promise; the authority
   ledger; source authority; the Pi bridge; the event hub; the agentic turn with its
   journal, over the store's checkpoints; the debugging lane; the stage runner; tool
   authority; the release boundary.
2. **Done.** Proofs of the stage's bound, of tool authority, of the ledger's accounting,
   of the hub's backlog, of the debugging report's durability, of the refinement of
   `TurnOutcome`, of what becomes of an agentic turn under one permit, and of the release
   boundary for texts of any length.
3. The **working-memory commit** at the end of an agentic turn and the recognition
   of committed turns in a conversation that the client sends again.
4. **Deep reasoning** with its bridge, client disconnects and evidence gate.
5. Manifests and lanes; the rest of the activity tracker; the guard of credentials
   in orchestration events.
6. Context pruning against a reference definition.

Each of 3 to 6 is a module with one MC module and one run for safety and liveness
together; 4 states an abstract promise, as `ResumeOnce` and `TurnOutcome` do.
Every module has its parameters as CONSTANTS with a named assumption, one action
per operation, and no RECURSIVE operator.

## 3. The modules

### ToolResume, ResumeOnce, ToolResume_proof

`pending` is the dict `_pending_tool_resumes` (call id to checkpoint), `expected`,
`withheld`, `inFlight`, `accepted` the fields of each `PendingToolResume`; `aged`
stands for the six-hour test. A request is `queued` at the semaphore, `running` a
stage, `draining` or `failing` while a stream sends its last events. The handlers
run on one event loop and no critical section awaits, so the following are one
action each:

* `AdmitFresh`, `AdmitResume`, `AdmitRefused`: the three results of
  `_consume_pending_tool_resume`, expiry included;
* `Finish`, `Suspend`, `Collide`, `Fail`, `LoopInterrupt`: how a stage ends. A
  suspension registers the successor and then retires the predecessor;
* `CloseStream`, `Disconnect`: the `finally` of `_safe_public_stream`, which
  rearms *every checkpoint the request's messages name*.

`ResumeOnce` is the promise: each checkpoint is offered, claimed by one request,
bound to one set of results, released or completed once. `ImplementsPromise`
instantiates it with a refinement mapping from the dict and the requests.

The promise is kept by nonstream requests with any number of permits, and by
streams with one permit as far as exclusive ownership goes. It is not kept by
concurrent streams: divergence 1. The module has the paths of every lane; what the
agentic lane adds to the end of a request is in `AgenticTurn`.

### AgenticTurn, TurnOutcome, AgenticTurn_proof

An agentic turn exists three times: `row` is its row in the SQLite journal, `rec`
the `AgenticTurnLifecycle` record, `cp` the checkpoint of a turn that waits for tool
results. The operators on `w = [row, rec, cp]` are the functions that write them, with
their guards: the journal's `begin`, `awaiting_tool`, `freeze`, `stage2`, `commit` and
`fail` (`Owned`, `FreezeRow`, `MayStart`, `MayCommit`, `MayFail`, ...) and the kernel's
cleanup functions (`Mark`, `CloseScope`, `CloseRequest`), which `Raise`, `Send` and
`Left` call in the order in which the `except` and `finally` clauses of the two
transports do. A step of a request ends where its handler awaits the backend or its
client: `BeginFresh`, `Claim` and `BeginResumed` begin Stage 1, `AskTools`, `Freeze`,
`LoopRetry`, `NoAnswerGiven`, `Stage1Fails`, `Stage1Budget` end it, `StartStage2` begins
the second stage, `Commit`, `Stage2Fails`, `Stage2Budget` end it, `Leave` and
`Disconnect` end the response. `ClaimFrozen` is the stream that comes back for Stage 2
alone.

`up` says whether the journal works in a step; if it does not, every operation on
it raises there. `Crash` loses records and checkpoints and keeps the rows. `Limit`
drops the oldest record, after which its turn goes on without the journal.
`Unclaim` is the end of a duplicate stream (divergence 1), the only effect a
duplicate has on a turn. With `HintsReused` a client may use one transport hint for
two turns, so that the record a commit should close is another one.

`OpenRowHasHeir` and `AnswerSurvives` speak of runs without an outage, and must:
`_agentic_degraded_result` first writes the failure to the journal, and if that
raises, the answer it was to preserve is lost with the request. `TurnOutcome`, which
holds through outages and restarts too, is what remains then: one answer per turn,
never replaced, and no memory released but of a complete turn beside its own
answer.

### AuthorityLedger, Authority_proof

A thread's way through `_advance` (`Advance`, `Enqueue` or `Lose`, `ConsultClosed`,
`StartWriter`) keeps the authority lock; the writer thread's loop is a step per
critical section or write (`Take`, `RecordWritten`/`RecordFails`, `Note`,
`Snapshot`, `HeadWritten`/`HeadFails`). Every write may fail and the writer thread
may fail to start. A record is its sequence number: the digests are functions of
it. What close() does to records behind its sentinel is in the model: they stay
`Queued`, with no one to take them.

### SourceAuthority, Authority_proof

Two verifiers, the event loop and the periodic thread, share the source lock.
Each measures the protected files one by one, while they change; `Conclude`
compares and establishes a state, `Suspend` is the path of a verification that
raised, `Report` and `Drain` are the ordered observer. A request is `entering` or
`leaving` a boundary; a governed stream produces chunks, each admitted under the
lock (`AdmitChunk`) and yielded after it (`Yield`). `dirty` and `slipped` are
history: the files that have differed ever since the loop's boundary began, and
the chunks sent since authority was lost. The lock is held over a whole pass over
the files, as in the code, so the two threads interleave between passes.

### PiBridge, PiBridge_proof

The upper half of the state is the bridge's, the lower half Pi's: the prompts on
the wire, the prompt Pi is in and whose it really is (`owner`), a fact the bridge
cannot see and on which all the properties are about. The handlers are `PostTask`,
`Cancel`, `SessionStart`, `SessionNew`, `SessionKept`, `SessionShutdown`, `Input`,
`BeforeAgentStart`, `AgentStart` (bind, invalid binding, rebind, unrelated),
`MessageEnd`, `ToolFailed`, `AgentEnd`, `AgentSettled`. Pi is external and is
modelled by the order in which its events reach the handlers, as the bridge's own
comments and its tests use them: one prompt at a time, retries as further
agent_start/agent_end pairs of the same prompt.

### EventHub, EventHub_proof

`Publish` numbers an event, appends it to the bounded deque and puts it in every
subscriber's queue, or makes room for the sentinel in a full one; `Subscribe` is
`subscribe()` with its 409s and the replay; `RelayStep` is a turn of the
endpoint's generator. Clients follow the documented protocol, coming back with the
number of the last event they processed. The bridge's stream is external: it opens
with a snapshot and what it sends while nobody listens is lost.

### DebuggingRun, DebuggingRun_proof

`runs` is `_DEBUGGING_RUNS`, `file` the report of each run, `pauses` the three dicts
of intake dialogues, questions and tool checkpoints, `req` the handlers. `WriteText`
is an atomic replacement that the disk may refuse; `Valid` reads the report back as
`_debugging_validate_report_through` does, which drops carriage returns (`Carriage`).
`Claim`, `Recover`, `FollowUp`, `CreateRun` and `Refuse` are the ways into a run, in
the order in which the handler tries them (`Matched`, `Refused`, `Unmatched`);
`IntakeAnswers`, `NextPass`, `PassPauses`, `PassAnswers`, `AfterPasses`,
`FinalAnswers` end a stage, `Leave` any request, `Expire` is the six-hour test,
`Touch` somebody who edits a report. Reports are never read again after a restart,
so there is no crash to model: a restart forgets every run.

What the model shows besides its properties: a run whose Pass 0 was frozen in memory
but not written can be neither resumed (409) nor validated (502); a
summary with a carriage return never validates; two open intakes that show the same
text make a reply ambiguous, hence 409, until one expires; and a fresh pass that
fails leaves its run behind, an exact retry starting another.

### StageRunner, StageCalls_proof

One stage, streamed or not. `Connect` sends a request; `Chunk` takes reasoning, content
or a fragment of a tool call, meters it and asks the detector; `StreamEnds` is the
backend's end or break; `Close` closes the response, `AfterLoop`, `Recover`, `Repair`
and `GiveUp` are what follows, `Deliver` the result. `repair` and `retried` are the
depths that the code passes to itself, `open` and `active` what must be back at rest. `beat` turns with every
chunk: a backend that sends for ever what changes nothing else would otherwise be a
stutter, and `StageEnds` true of a meter that overlooks it.

A caller leaves in two ways. `CallerLeaves` is a cancellation, which arrives where the
innermost run awaits and unwinds all of them, or the closing of a run that its caller
holds under `aclosing`: the `finally` clauses run, `Close` is the next step. `CallerDrops`
is what happens at a yield when nobody passes the end on. A retry after a loop and a
repair iterate an inner `_run_stage_streamed` with a plain `async for` (7000, 7103, 7147),
and so do the callers of native and debugging stages; the outer generator is over, the
inner one is "dropped" with its stream, its request may still be answered
(`LateConnect`), and asyncio's finalizer closes it later (`Finalize`; a chain of dropped
runs is closed in one step). `ClosedByCaller` says which stages are held under `aclosing`
(9481).
The backend is external: it sends any chunk, never ends its stream if it likes, and
its calls are of the four `Verdicts` of the policy. The recovery of an empty stream
asks without streaming and is not metered, as in the code.

### ToolAuthority, StageCalls_proof

A represented path is a form (absolute, extended, relative, rooted, drive relative,
a variable, ...) and segments with what Windows ignores at their ends; `Normalize`,
`PolicyObject` and `Inspect` decide what object it is and which roots it is under,
`Evaluate` combines outcomes as the consequence gate does, `Extraction`, `ContractOf`
and `Extract` say which targets a structured call, a simple command and a command line
have. `Partition` is `_phase4_partition_structured_tool_calls` with its rewriting,
`Admit` the executor's question with its own directory, dialect and platform. The
order in which the code looks at a command's targets decides only which refusal is
reported; the model takes the set of `Outcomes`. The names of its state machine start with
`Authority` since the calls of a stage are proved about beside the stage itself.

### StreamGuard, StreamGuard_proof

`Event` is one chunk of `_guarded_stream`: `Inspected` runs the detectors, `Interrupt`
is what follows a hit, `Release` the normal way through filter and quarantine with the
flush of a choice that finishes. `StreamEnds` and `StreamFails` flush every channel,
`AnswerWhole` is the answer without streaming, `Start` the startup that builds the
policy and joins the credentials to it. `Whole`, the sanitizer of whole texts, is at
the same time the reference: `NothingIsLost` says that the stream shows what `Whole`
shows of the text that has arrived, however it was cut.

## 4. The runs

| run | instance | shows |
|---|---|---|
| `resume_nonstream` | 3 requests, 2 checkpoints, 2 ids, 2 results, 2 permits, nonstream | one owner, agreed evidence, no stranded claim, refinement of `ResumeOnce` |
| `resume_streams` | 3 requests of both transports, 2 checkpoints, 2 ids, 1 permit, fair | whole checkpoints; requests end |
| `resume_duplicate` | a stream that suspends and 3 that return its result, 1 checkpoint, 2 permits | violation: divergence 1 |
| `agentic_turn` | 3 requests of both transports, 2 turns, 2 checkpoints, 2 answers, 2 attempts, 1 permit, 1 record in memory, 1 outage, 1 restart | no forgotten row, no lost answer, refinement of `TurnOutcome` |
| `ledger` | 2 threads, capacity 2, 4 records, any write may fail or hang, close() at any time | truthful accounting in memory and on disk; if writes return, every record settles |
| `source` | 1 file of 1 good content, 1 stream of 2 chunks, 1 run, 2 changes, 1 raise, freezing ledger, fair | boundaries catch drift, prefixes, at most one chunk slips, ledger order, drift ends authority |
| `pi` | 3 tasks, 3 runs per prompt, fair Pi | attribution, aborts, cancel before the input; tasks close |
| `hub` | 1 client, replay 2, queue 2, 3 changes, 1 drop, 1 restart, fair | no gap within a process, delivery or end of stream, the hub catches up |
| `debugging` | 2 clients of both transports, 1 run of 2 passes, 2 pauses of the three kinds, 2 permits, 1 upset of the disk or of the report and 1 text known to the store in each conversation | what is committed is on disk, the report only grows, cognition is kept, a retired pause has an heir |
| `stage` | every kind of stage, streamed or not, 2 words of reasoning, 2 repairs, a budget of 4 | nothing left running but what a caller drops inside another run, bounded restarts, whole results; the stage ends and what was dropped is closed |
| `tool_calls` | each of 168 calls, each pair of 9, with and without lock and operator roots, 3 directories, 3 dialects, 2 platforms | what runs is inside the policy, and under a NEVER root only reads; release and admission agree; a command line is no freer than its parts |
| `release` | 14 scripts of two choices with a text and a tool call each, cut in every way into events of up to 3 symbols, four policies, quarantine 0 or 1 | no configured value, no reserved tag, nothing lost, a clean interrupt |

Bounds. `MaxSequence`, `MaxChanges`, `MaxRaises`, `MaxChunks`, `MaxTask`, `MaxEpoch`,
`MaxDrops`, `MaxRestarts`, `MaxTurns`, `MaxAttempt`, `MaxOutages`, `MaxCrashes`, `MaxRuns`,
`MaxPauses`, `MaxNames`, `MaxUpsets`, `MaxBytes` and `MaxEvent` cap
counters that the code leaves unbounded. They are
chosen so that each limit is passed: more records than the queue holds and one
more while the writer is in the middle of a write; a second task after a first one
in every way the first can end; a third run of a retried prompt; a replay window
that has moved past a bookmark; a third request that comes after the duplicate has
left; a second turn that pushes the first one's record out; a
second pass after a pause in the first and a report that cannot be written in between;
a repair after a loop and a recovery; a canary longer than one event and a tag of more
than two. One permit in
`agentic_turn` is the default of `JACK_MAX_CONCURRENT`; what a duplicate does to a
turn enters through `Unclaim`, and two clients of the hub share nothing but the
replay buffer. The proofs, where they exist, remove the bounds. Deadlock is checked for
the bridge, whose session ends only with a shutdown; the other models stop where
the program does, when the requests, records or changes of the instance are used up,
so their configurations say `CHECK_DEADLOCK FALSE`. Symmetry (of requests,
checkpoints, answers) is used in `agentic_turn` and `debugging` only, whose properties
are invariants and step properties. `TypeOK` of every module was checked with its run;
to save time only those a proof stands on are kept up, the others are there for the
reader. With `MaxNames = 2` the run `debugging` takes four times as long and passes too. One
run of the pipeline suffices for its properties, which speak of one: what two runs share is the matching of replies, where a second match is refused.

Fairness. `asyncio.Semaphore` is first come, first served, hence SF of `Admit`; a
stage ends since every generation has a budget and every backend call a timeout;
a stream nobody reads is closed by its transport. The ledger's threads are
ordinary threads (WF); the writer may hang in a write: `SlowDiskSpec` assumes nothing
of it, and `EveryRecordSettles` has the writer's fairness as its hypothesis. A stage's
runner goes on and a backend that streams sends or ends (WF of `Runner \/ Backend`),
since its read has a timeout; it need never end its stream. The source verifiers are threads
that hold the lock for one pass, so that a waiting thread gets it (SF of acquire,
suspend and report), and of the requests nothing is assumed except that the
activation boundary is entered. Pi carries a prompt it has taken through its events
(SF of the input of the prompt on the wire, WF of the rest); tool calls and user
prompts are not fair. The event loop runs the hub's task and the relays (WF), and
the reading task reconnects.

## 5. What is proved

TLAPS proves the following for every value of the constants that satisfies the
named assumptions (`ConstantsOK`, `LedgerConstants`, the assumptions of
`SourceAuthority`, `BridgeBounds`).

**ToolResume.** Types; `WholeOrGone`, `EvidenceAgreement` and `EvidenceImmutable` for
all transports and any number of permits. `StoreInv` says that whatever the dict
maps to is issued and is mapped from all its ids; `EvidenceInv` that accepted
results cover exactly the released calls and that each owner has them. Without
streams, `ClaimInv` ties each flag to exactly one running request and keeps
completed checkpoints out of the dict; from it follow `SingleOwner`,
`AtMostOneContinuation`, `NoStrandedClaim` and `NeverDroppedUnderOwner`, and the step
simulation of `ResumeOnce`. For one permit, with streams, `OneHolder` gives
`SingleOwner`. `Transports = {"nonstream"}` and `MaxConcurrent = 1` are hypotheses of
those theorems and must be: divergence 1 is what happens without them.

**AuthorityLedger.** Types with the queue bound, `CompleteThroughTruthful`,
`NothingUnaccounted`, `PrefixMaximal`, `HeadCurrentUnlessDegraded`, `GapsAreForever`. The inductive
invariant (`TypeOK`, `ItemReal`, `Facts`) says who holds the lock, that the queue is
strictly increasing up to the chain head, that the writer's item is older than
what is queued, that beyond the first loss the prefix stops, and where the
document in the writer's hands lies between disk and memory. For the accounting the
records that are nowhere (`Lost`) grow by exactly one in the step that counts one, and
a record on its way is in one place only, which `Facts` says.

**SourceAuthority.** Types, `BoundaryCatchesDrift`, `InvalidationIsTerminal`,
`ReleasedPrefix`, `OneChunkSlips`, `LedgerChronology`. `ControlInv` gives the two locks;
`BoundaryInv` is the argument for the boundary: a measurement under way has flagged
each file that has differed since the boundary began and that it has passed,
hence when the loop is past its verification and the state is ACTIVE nothing
still differs, even if the periodic thread restored authority in between.

**PiBridge.** Types, `Attribution` with `ControlledRunBound`, `OneDelivery`,
`SettledIsClosed`, `VerdictIsLastMessage`, `AbortOwnOnly`, `TransitionIsIdle`,
`CancelledInputNeverBegins`, `ClosedIsFinal`. The inductive invariant says that a
controlled task is in one place only: pending, awaiting its before_agent_start,
armed, or the control run, each tied to what Pi is really doing (`StageInv`); that
Pi's prompt belongs to a task already admitted (`OwnerInv`); and that messages and
tool errors are the task's own (`ResultInv`).

`SettledIsClosed`, `VerdictIsLastMessage` and the `TypeOK` of some modules are proved
and have no run of their own.

**StageRunner.** Types, `NothingLeftRunning`, `StageIsBounded`, `ResultIsWhole`. The
bound is not inductive: `Paid` counts what has been asked of the backend against
what allowed it, three requests for each repair and one, one more after the retry of a
loop and one more where the recovery may have happened; that the recovery comes last,
and what it brings is not empty (`MayHaveRecovered`), is what keeps the three ways to
start over from feeding each other. `OneStream` says what is open where a
generation is closed and judged, and of a dropped run that it has at most one stream.
What the first theorem says of a caller who leaves is no more than the code does: only a
cancelled or closed run is known to leave nothing behind.

**EventHub.** Types and `NoGapInProcess`, for any number of clients, any size of the
replay buffer and of the queues, any number of connections lost and restarts. The
invariant says that the buffer is a run of consecutive numbers up to the last one
given out (`BufferInv`), that no bookmark of this process is beyond it
(`BookmarkInv`), that a subscriber has a stream (`SubscriberInv`), and that what a
client is still given, its replay and then its queue, counts on from its bookmark
and, as long as it is subscribed, up to the last number (`LineInv`). `NumberInv`
bounds the numbers by the changes of the bridge and the connections. The replay is
the suffix of the buffer from the first newer event, which is how `After` is written.

**DebuggingRun.** Types, `CommittedIsDurable`, `RetiredHasHeir`, `ReportOnlyGrows`,
`CognitionKept`, for any number of runs, passes, pauses and requests. A run is `Sound`
(no summary before the freeze, no final report before the last summary) and its report
is `Backed` by exactly what is committed unless somebody touched it (`RunsInv`); the
pauses used are an initial segment, each of a run and of a pass of it (`PauseInv`);
a handler at work has a run, and the pause it holds is of this run (`HandlerInv`).
Without the last two a handler that comes back from the backend could retire the pause
of another run, and `RetiredHasHeir` would not be inductive.

**AgenticTurn.** Types and `ImplementsPromise`, for any number of requests, permits,
turns and checkpoints, however often the journal fails and the kernel is restarted.
The cleanups are nested functions of the three stores. `Closes(v, w, t)` is what each
of them, and so each composition of them, can do: from v to w no row but that of turn
t has changed, and that one has failed, has lost its memory or is as open as before.
What is left are the writes of `BeginFresh`, `Freeze`, `StartStage2` and `Commit`, of
which each is one step of `TurnOutcome`, and the release. The invariant says that row and record
count the same attempts (`RowInv`), whose turn a handler works for, and that one about
to release an answer with a memory holds the answer of a turn that is complete
(`RequestInv`).

With one permit (`JACK_MAX_CONCURRENT`, whose default it is) also `OpenRowHasHeir` and
`AnswerSurvives`, for any number of requests, turns, checkpoints and restarts, as long
as the journal has not failed. With two permits TLC finds behaviours that violate
either: the results of the tools come back and are claimed before the response that
asked for them has ended, or a duplicate that leaves frees the claim of a stream that is
running (divergence 1), and then two handlers clean up after the same turn. The
inductive invariant is `Lone`. It says that a record and its row are of the same attempts and the same
answer, and that the row may be ahead of its record but never behind it (`Fits`); that
a claimed checkpoint is in the store and a used one has its turn (`StoreFits`); that at
most one request is in a stage (`Alone`), on a turn that was minted (`Placed`); what a
request at each place has made of its turn (`Standing`); and that each turn is
`Settled`, which means over or without a record, or waiting in a checkpoint, unless a
request works on it (`Heirs`). `Fits` is needed because every cleanup asks the journal,
which refuses an attempt it does not know: where row and record disagreed, the journal
entry would raise and the answer would be lost with it. `Standing` is needed because
what a cleanup does depends on how far its request has come: one that holds an answer
gives its checkpoint back only while the memory is still to be made. `Cleans(v, w, t)`
is what each cleanup does to these, and is kept when one follows another;
`LeftSettles` and `RaiseEnds` put them together for a response that ends and for an
exception, on either transport.

**ToolAuthority.** Types, `RunsInsideTheLock`, `ReleasedIsAdmitted`, `NoFreerTogether`, for
every policy, every batch, command lines of any length and every place where the executor may
stand. Nothing is assumed of the normalization of paths but what its definition gives: a path
that does not normalize is no path (`NormalizeFails`), and an absolute one does not depend
on the directory (`AbsoluteIsFixed`). The first theorem is one chain: whatever `Decide`
allows is `Lawful` (`AllowedIsLawful`), whether by the gate or by the exemption for reading; what is
decided from a directory is what resolves there (`InspectedIsLawful`); hence what is
allowed of a structured call, and each target of a command (`AdmittedIsLawful`). `Lawful`
carries whether the call only reads, without which the exemption does not apply, so that
no call that may write reaches an object under a NEVER root, by a stream or by its name;
`CommandStays` adds that under the lock no command follows a change of directory. What may
be read there is said of the object where the path names it, and of the path where it names
a stream (`OfStream`): for streams the statement about objects is false (divergence 3). The second
rests on the rewriting: a released call is absolute, so the executor decides on the
same object. The third says that one command of a line names no more and leaves no more
open than the line (`AloneIsLess`) and that nothing is denied to a reader that others may
(`AllowedAlsoReading`).

**StreamGuard.** Types, `NothingPastACanary`, `NothingIsLost`, `InterruptKeepsTheRest`,
`NoReservedTagShown`, for any channels, texts, canaries, reserved name and length of the
quarantine, and for any way the backend cuts the texts into events. These compare what
recursive functions make of a text and of its pieces. They are written as recursive
functions on `Texts`; the proof first shows that they satisfy their equations
(`Recursion`, from the definition by induction on the length), and then does each
induction with a counterexample of least length (`Least`). Four facts carry it:

* `FilterComposes`: what the filter has shown of a text stays, and what it holds together
  with the next piece is scanned as the whole text would be. It rests on a verdict never
  changing once it is given (`VerdictStays`), and so on a name that was complete or wrong
  staying so (`Settled`).
* `Inspecting`: while nothing was found, a detector that keeps `RequiredWindow` symbols
  reports of what it kept and the next piece what it would report of the whole text, since
  no value can have begun before what it kept (`Reaches`).
* `ShownStood`: a value without the marker that stands in what the filter shows stood in
  the text. A marker in place of a tag never joins two harmless pieces into a value.
* `ResultUntagged` and `BeginningUntagged`: nowhere in what is shown would a tag be
  blocked, although what follows a shown "<" may have been replaced.

`GuardInv` is then an invariant for each channel: nothing was found in what arrived;
while the channel may go on, what passed the detector is what the filter and the
quarantine hold behind what was shown (`Flow`); what was shown is in every phase the
beginning of what some clean text shows (`Given`), also where an event that was
interrupted left a tool channel unscanned. Its quantifiers range over all texts, so
TLC checks the four properties, not the invariant.

The named assumptions of these six are `StageConstants`, `HubBounds`,
`DebuggingConstants`, `AgenticConstants`, `AuthorityConstants` and `GuardConstants`: types,
bounds of at least one, that the requests are finitely many (those that hold a permit are
counted), of the roots that none is the root of a drive and that the sensitive ones
lie in the Windows tree, and of the release boundary that no tool channel is listed twice,
that the reserved name has neither "<" nor the marker in it, and that no configured value
shares text with the marker. The last is not enforced by the code: the marker is a public
constant (jack_evidence_guard.py:10), and a value that shares text with it could be
completed by the marker where a tag is blocked.

Only model-checked: all liveness properties (the prover has no rule for fairness or
ENABLED).

## 6. Divergences

What the code does otherwise than its documents, comments, docstrings or tests say. The
first is a run that finds the violation. For each of the others the property stays in
its module: added to the module's configuration as an INVARIANT (`AdmittedOnlyWhenClosed` as
a PROPERTY) TLC finds a behaviour that violates it.

1. `resume_duplicate`, `SingleOwner`. README.md:89 promises that concurrent duplicate
   resumes fail closed. With two permits TLC finds a stream that resumes the checkpoint and
   runs; a second one with the same result, which never owns the checkpoint and frees the
   claim of the first on its way out; and a third one admitted to the checkpoint while the
   first still runs. The second is refused, and frees the claim in the error branch and again
   in the `finally` of `_safe_public_stream` (jack_kernel.py:11686, 11717), or its client
   leaves while it waits for the semaphore, and the `finally` alone does: both behaviours
   have eleven states, and TLC reports either.
2. `StageRunner`, `ClosedBeforeScope`. The comment at jack_kernel.py:9004 says that the
   backend stream is closed before the scope of a turn runs, which may rearm its checkpoint.
   That is so of a stage that runs at the first attempt. If its caller leaves at a yield of a
   retry or a repair (7000, 7103, 7147) the stage is over at once, the scope runs and the
   permit is free, and the inner run with its stream waits for the finalizer.
3. `ToolAuthority`, `UserNeverOutranks`. The comment at jack_path_policy.py:1734 says that the
   NEVER roots of the operator always outrank the exemption for reading the Windows tree.
   The gate compares the object of a target with the roots, the exemption the target with
   its stream (1737): a stream of a directory that the operator named, in that tree, is no
   exception to the exemption. The sensitive parts (1758), of which the docstring says that
   they keep their full authority, and the credential files
   (jack_credential_resource_guard.py:191) are compared in the same way; the property is about
   the roots of the operator.
4. `PiBridge`, `AdmittedOnlyWhenClosed`. ORCHESTRATION_GATEWAY_V2_TECHNICAL_SPEC.md:300
   says that new controlled work is blocked until the prior run is physically closed. A
   cancel after the input handler took the prompt and before agent_start neither
   swallows nor aborts it (pi-control-bridge.ts:505): Pi runs the cancelled prompt
   unbound and the next task is admitted meanwhile.
5. `EventHub`, `NoSilentGap`. A bookmark from before a restart of the kernel is accepted
   when it should be a gap (jack_kernel.py:10484).
6. `AgenticTurn`, `BudgetIsTerminal`. `stream()` says that a spent generation budget is
   terminal and that no accepted checkpoint is rearmed under it. A nonstream request
   that spends it in a resumed Stage 1 rearms the checkpoint twice on its way out
   (jack_kernel.py:9111), and the same results can be sent again.
7. `DebuggingRun`, `ExactRetryMatches`. The docstring at jack_kernel.py:1499 says that an
   exact failed request is matched to the cognition retained for it. A request that ends
   with a tool result and finds no checkpoint is answered 409 before that function is
   asked (9332). If pass 1 was resumed by a tool result and committed, and pass 2
   completes in the same request while the disk refuses the report, the summary stays
   pending under a fingerprint that no request can reach.
8. `ToolAuthority`, `OnlyNeverInterrupts`. The docstring at jack_kernel.py:3110 names a NEVER
   match as what interrupts a batch, and test_phase4_path_policy.py:239 is called
   "unknown environment variable is recoverably denied under workspace lock". The rewriting
   of a structured call for release lets `RepresentedPathAmbiguous` through
   (jack_path_policy.py:2003) and the partition does not catch it (jack_kernel.py:3167), so
   that one call with a drive-relative path, an unknown variable or a device path fails
   the stage and every sibling.

## 7. Abstractions

* Digests, signatures, texts and messages are members of small sets or numbers. A
  tool result is one of two values, a file one of its contents, missing or
  unreadable.
* Time appears as steps that may happen: six hours pass (`Age`), the periodic
  thread ticks (`Tick`), a timeout is a failure.
* Not in the models although in the lines around them: HTTP parsing and
  authentication, the bridge's listening socket and manifest, SSE formatting and
  heartbeats, the discovery of the protected files, metrics.
* A nonstream handler cancelled by a shutdown (`CancelledError` is no `Exception`)
  keeps its claim; the process is ending and the store is in memory, so the model
  leaves it out.
* In `AgenticTurn` the cleanup of one exception is one step: nothing in it awaits a
  backend or a client, and the store's lock is free whenever it is asked for. The
  contents of the memory, the shadow ledger and the optional archive are left out,
  whose failures the code catches.
* The Pi bridge's assumption that a before_agent_start belongs to the input before
  it is Pi's; the model takes it over and the hazard list names it.
* `StageRunner` leaves out heartbeats and chunks without text, and the words that the
  detector forgets because no cycle can reach them. A caller who leaves at a yield where
  nothing is open (a notice before a retry, the text of a recovery), and a cancellation
  that lands inside the `finally` clause itself, are left out too. What the policy says of a call is
  one of four verdicts; how it comes to them is `ToolAuthority`'s.
* `ToolAuthority` has tokens, not text: the tokenizers and regular expressions that turn
  a command line into simple commands and their words are taken as done, and the ledger
  records of a decision are left out. File contents, links and short names do not occur in
  the code either, which decides on represented paths. A `cd` inside a nested shell is not
  looked for by the code (jack_path_policy.py:1249), and the words after it are taken from
  where the shell was started, in the model as in the code.
* In `StreamGuard` a symbol stands for text that is never cut. Escaped delimiters,
  provenance labels and a hard interrupt raised by the inner stream (nothing in the code
  raises it there) are left out. The channels are text fields and the
  arguments of tool calls; without streaming the code scans the rest of a tool call
  too.
* Known hazards that no property covers: a session replacement asked for while a
  prompt is on its way to Pi, and a before_agent_start that belongs to another input,
  both of which depend on what Pi does; a verification that raised and suspends under a
  later acquisition of the lock (the model has the step, no property forbids its
  outcome, which the next exact verification repairs); the inner stream that the source wrapper does not close
  (jack_source_drift_guard.py:625), which is left to the garbage collector.
