----------------------------- MODULE PiBridge -----------------------------
(***************************************************************************)
(* The Pi control bridge (Pi/pi-control-bridge.ts): one controlled task at *)
(* a time is accepted over HTTP, handed to Pi as a marked prompt, bound to *)
(* the low-level runs Pi makes of it, and closed when Pi settles.          *)
(*                                                                         *)
(* Every handler of the bridge runs to its end without an await that       *)
(* matters, so each is one action.  Pi itself is not in the repository: it *)
(* is modelled by the order in which it calls the handlers, input,         *)
(* before_agent_start, then agent_start and agent_end once or more, then   *)
(* agent_settled, one prompt at a time, the user's own prompts and the     *)
(* bridge's alternating as they please.                                    *)
(***************************************************************************)
EXTENDS Integers, Sequences

CONSTANTS MaxTask,    \* bound: controlled tasks
          MaxEpoch    \* bound: low-level runs of one prompt

ASSUME BridgeBounds == MaxTask \in Nat /\ MaxEpoch \in Nat \ {0}

\* A task and its run get fresh identities together; both are its number.
Tasks == 1..MaxTask
None == 0
User == 0             \* the owner of a prompt the bridge did not send
Epochs == 0..MaxEpoch

VARIABLES
  \* the bridge
  session,          \* sessionReady and sessionTransitioning, as one phase
  task,             \* controlledTask
  pending,          \* pendingDispatch
  awaiting,         \* the run of awaitingAgentStart
  armed,            \* the run of armedAgentStart
  control,          \* controlRun
  active,           \* activeRun
  ctxOpen,          \* activeCtx is set
  shown,            \* the task event broadcast last
  \* Pi
  wire,             \* marked prompts sent and not yet presented as input
  flow,             \* how far the current prompt is
  owner,            \* whose prompt it is
  epoch,            \* low-level runs it has had
  aborted           \* abort was called on it

bridgeVars == <<session, task, pending, awaiting, armed, control, active, ctxOpen, shown>>
piVars == <<wire, flow, owner, epoch, aborted>>
vars == <<bridgeVars, piVars>>

Open == {"queued", "running", "settling"}
Closed == {"completed", "failed", "cancelled"}

NoTask == [id |-> None, status |-> "idle", settled |-> FALSE, error |-> FALSE,
           final |-> None, faulty |-> FALSE, toolError |-> None, epoch |-> 0]
NoPending == [run |-> None, dispatched |-> FALSE]
NoRun == [run |-> None, epoch |-> 0]      \* activeRun, and controlRun with lastEpoch

-----------------------------------------------------------------------------
(* What a task event or the status endpoint says.                           *)

RunOpen(c) == c # NoRun

Snapshot(t, c, a) ==
  [id |-> t.id, status |-> t.status, settled |-> t.settled, open |-> RunOpen(c),
   epoch |-> IF a # NoRun THEN a.epoch ELSE IF c # NoRun THEN c.epoch ELSE t.epoch]

\* finishTask: a closed task keeps its verdict.
Finished(t, status, faulted) ==
  IF t.status \in Closed THEN t
  ELSE [t EXCEPT !.status = status, !.error = @ \/ faulted]

Busy ==
  \/ session \in {"transition", "shut"}
  \/ task.status \in Open
  \/ pending # NoPending \/ awaiting # None \/ armed # None
  \/ RunOpen(control) \/ active # NoRun

-----------------------------------------------------------------------------
(* Dispatch: t and p are the task and the pending prompt the caller leaves, *)
(* blocked says whether Pi or a binding is still open.                      *)

Stale(t, p) == t.id # p.run \/ t.status # "queued"
Unsent(p) == p # NoPending /\ ~p.dispatched

Hold(t, p, blocked) ==
  /\ Unsent(p) => blocked \/ Stale(t, p)
  /\ task' = t /\ UNCHANGED wire
  /\ pending' = IF Unsent(p) /\ Stale(t, p) THEN NoPending ELSE p

Send(t, p, blocked) ==
  /\ Unsent(p) /\ ~Stale(t, p) /\ ~blocked
  /\ task' = t
  /\ pending' = [run |-> p.run, dispatched |-> TRUE]
  /\ wire' = Append(wire, p.run)

\* sendUserMessage throws
SendFails(t, p, blocked) ==
  /\ Unsent(p) /\ ~Stale(t, p) /\ ~blocked
  /\ task' = Finished(t, "failed", TRUE)
  /\ pending' = NoPending /\ UNCHANGED wire

DispatchPendingIfReady(t, p, blocked) ==
  \/ Hold(t, p, blocked) \/ Send(t, p, blocked) \/ SendFails(t, p, blocked)

-----------------------------------------------------------------------------
(* The session this instance of the extension serves.                       *)

Init ==
  /\ session = "loading"
  /\ task = NoTask /\ pending = NoPending
  /\ awaiting = None /\ armed = None
  /\ control = NoRun /\ active = NoRun
  /\ ctxOpen = FALSE
  /\ shown = Snapshot(NoTask, NoRun, NoRun)
  /\ wire = <<>> /\ flow = "idle" /\ owner = User /\ epoch = 0 /\ aborted = FALSE

SessionStart ==
  /\ session = "loading"
  /\ session' = "ready"
  /\ UNCHANGED <<task, pending, awaiting, armed, control, active, ctxOpen, shown, piVars>>

\* POST /v1/session/new; sendUserMessage may throw, and then all is as before.
SessionNew ==
  /\ session = "ready" /\ ~Busy /\ flow = "idle"
  /\ session' = "transition"
  /\ UNCHANGED <<task, pending, awaiting, armed, control, active, ctxOpen, shown, piVars>>

\* The pi-control-new command finds the replacement cancelled, or it throws.
SessionKept ==
  /\ session = "transition"
  /\ session' = "ready"
  /\ UNCHANGED <<task, pending, awaiting, armed, control, active, ctxOpen, shown, piVars>>

\* Pi replaces the session, at this bridge's request or its user's.
SessionShutdown ==
  /\ session \in {"ready", "transition"}
  /\ session' = "shut"
  /\ UNCHANGED <<task, pending, awaiting, armed, control, active, ctxOpen, shown, piVars>>

-----------------------------------------------------------------------------
(* HTTP                                                                     *)

\* POST /v1/tasks: admission and the first attempt to dispatch.
NewTask == [NoTask EXCEPT !.id = task.id + 1, !.status = "queued"]

PostTask ==
  /\ session = "ready" /\ ~Busy
  /\ task.id < MaxTask
  /\ DispatchPendingIfReady(NewTask, [run |-> task.id + 1, dispatched |-> FALSE], ctxOpen)
  /\ shown' = Snapshot(task', control, active)
  /\ UNCHANGED <<session, awaiting, armed, control, active, ctxOpen, flow, owner, epoch, aborted>>

\* Variant: any open Pi run is aborted.
CancelAbortsAny ==
  /\ session # "shut"
  /\ task.status \in {"queued", "running"}
  /\ LET unsent == task.status = "queued" /\ Unsent(pending)
     IN /\ aborted' = (aborted \/ ctxOpen)
        /\ pending' = IF unsent THEN NoPending ELSE pending
        /\ task' = [task EXCEPT !.status = "cancelled", !.settled = unsent]
  /\ shown' = Snapshot(task', control, active)
  /\ UNCHANGED <<session, awaiting, armed, control, active, ctxOpen, wire, flow, owner, epoch>>

\* POST /v1/tasks/cancel
Cancel ==
  /\ session # "shut"
  /\ task.status \in {"queued", "running"}
  /\ LET running == /\ task.status = "running" /\ active # NoRun
                    /\ active.run = task.id /\ control.run = task.id
         unsent == /\ task.status = "queued"
                   /\ pending.run = task.id /\ ~pending.dispatched
     IN /\ aborted' = (aborted \/ (running /\ ctxOpen))
        /\ pending' = IF unsent THEN NoPending ELSE pending
        /\ task' = [task EXCEPT !.status = "cancelled", !.settled = unsent]
  /\ shown' = Snapshot(task', control, active)
  /\ UNCHANGED <<session, awaiting, armed, control, active, ctxOpen, wire, flow, owner, epoch>>

-----------------------------------------------------------------------------
(* Pi presents a prompt and starts a run of it.                             *)

PiUp == session # "shut"

Begin(who) == flow' = "prompted" /\ owner' = who /\ epoch' = 0 /\ UNCHANGED aborted

\* input that is not the pending prompt, from the user or with another marker:
\* Pi goes on with it.
Matches == wire # <<>> /\ pending.dispatched /\ Head(wire) = pending.run

InputIgnored ==
  /\ PiUp /\ flow = "idle"
  /\ \E who \in {User} \cup (IF wire # <<>> /\ ~Matches THEN {Head(wire)} ELSE {}) :
       /\ Begin(who)
       /\ wire' = IF who = User THEN wire ELSE Tail(wire)
  /\ UNCHANGED bridgeVars

MatchedInput ==
  /\ PiUp /\ flow = "idle" /\ Matches
  /\ wire' = Tail(wire) /\ pending' = NoPending

\* The task is another one, or was cancelled since: swallow the prompt.
InputSwallowed ==
  /\ MatchedInput
  /\ task.id = pending.run => task.status = "cancelled"
  /\ task' = IF task.id = pending.run THEN [task EXCEPT !.settled = TRUE] ELSE task
  /\ shown' = IF task.id = pending.run THEN Snapshot(task', control, active) ELSE shown
  /\ UNCHANGED <<session, awaiting, armed, control, active, ctxOpen, flow, owner, epoch, aborted>>

\* The text behind the marker is not the text sent.
InputMismatch ==
  /\ MatchedInput
  /\ task.id = pending.run /\ task.status # "cancelled"
  /\ task' = Finished(task, "failed", TRUE)
  /\ awaiting' = None /\ armed' = None
  /\ shown' = Snapshot(task', control, active)
  /\ UNCHANGED <<session, control, active, ctxOpen, flow, owner, epoch, aborted>>

\* Variant: a cancelled task's prompt is let through.
InputAcceptedAlways ==
  /\ MatchedInput
  /\ awaiting' = pending.run
  /\ Begin(pending.run)
  /\ UNCHANGED <<session, task, armed, control, active, ctxOpen, shown>>

InputAccepted ==
  /\ MatchedInput
  /\ task.id = pending.run /\ task.status # "cancelled"
  /\ awaiting' = pending.run
  /\ Begin(pending.run)
  /\ UNCHANGED <<session, task, armed, control, active, ctxOpen, shown>>

BeforeAgentStart ==
  /\ PiUp /\ flow = "prompted"
  /\ flow' = "prepared"
  /\ armed' = IF awaiting # None THEN awaiting ELSE armed
  /\ awaiting' = None
  /\ UNCHANGED <<session, task, pending, control, active, ctxOpen, shown, wire, owner, epoch, aborted>>

\* agent_start: the first run of a prompt, or a retry of one that has ended.
LowLevelRun ==
  /\ PiUp /\ flow \in {"prepared", "ended"} /\ epoch < MaxEpoch
  /\ flow' = "running" /\ epoch' = epoch + 1
  /\ ctxOpen' = TRUE
  /\ UNCHANGED <<session, wire, owner, aborted>>

Bind ==
  /\ armed # None /\ task.id = armed /\ task.status = "queued"
  /\ armed' = None
  /\ control' = [run |-> armed, epoch |-> 1]
  /\ active' = [run |-> armed, epoch |-> 1]
  /\ task' = [task EXCEPT !.status = "running", !.epoch = 1]
  /\ shown' = Snapshot(task', control', active')
  /\ UNCHANGED <<pending, awaiting>>

\* The task was cancelled between its input and this start.
BindingInvalid ==
  /\ armed # None /\ (task.id # armed \/ task.status # "queued")
  /\ task' = IF task = NoTask THEN task ELSE Finished(task, "failed", TRUE)
  /\ pending' = NoPending /\ awaiting' = None /\ armed' = None
  /\ active' = NoRun
  /\ shown' = IF task' = task THEN shown ELSE Snapshot(task', control, active)
  /\ UNCHANGED control

Rebind ==
  /\ armed = None /\ RunOpen(control)
  /\ task.id = control.run /\ task.status \in {"running", "settling", "cancelled"}
  /\ control' = [control EXCEPT !.epoch = @ + 1]
  /\ active' = control'
  /\ task' = [task EXCEPT !.epoch = control'.epoch,
                          !.status = IF @ = "cancelled" THEN @ ELSE "running"]
  /\ shown' = Snapshot(task', control', active')
  /\ UNCHANGED <<pending, awaiting, armed>>

Unrelated ==
  /\ armed = None
  /\ ~(/\ RunOpen(control) /\ task.id = control.run
       /\ task.status \in {"running", "settling", "cancelled"})
  /\ active' = NoRun
  /\ UNCHANGED <<task, pending, awaiting, armed, control, shown>>

AgentStart == LowLevelRun /\ (Bind \/ BindingInvalid \/ Rebind \/ Unrelated)

-----------------------------------------------------------------------------
(* While the run goes on, and its end.                                      *)

\* message_end of an assistant message, a failure or not; final is the prompt
\* whose answer the task carries.
MessageEnd(failure) ==
  /\ PiUp /\ flow = "running"
  /\ IF active # NoRun /\ task.id = active.run
       THEN task' = [task EXCEPT !.final = owner, !.faulty = failure,
                       !.error = failure \/ (@ /\ task.status \notin {"running", "settling"})]
       ELSE UNCHANGED task
  /\ UNCHANGED <<session, pending, awaiting, armed, control, active, ctxOpen, shown, piVars>>

\* tool_execution_end of a tool that failed.
ToolFailed ==
  /\ PiUp /\ flow = "running"
  /\ active # NoRun /\ task.id = active.run
  /\ task' = [task EXCEPT !.toolError = owner]
  /\ UNCHANGED <<session, pending, awaiting, armed, control, active, ctxOpen, shown, piVars>>

\* Variant: the binding outlives the low-level run.
AgentEndKeeps ==
  /\ PiUp /\ flow = "running" /\ flow' = "ended"
  /\ ctxOpen' = TRUE
  /\ control' = IF active # NoRun THEN active ELSE control
  /\ task' = IF task.status = "running" THEN [task EXCEPT !.status = "settling"] ELSE task
  /\ UNCHANGED <<session, pending, awaiting, armed, active, shown, wire, owner, epoch, aborted>>

AgentEnd ==
  /\ PiUp /\ flow = "running" /\ flow' = "ended"
  /\ ctxOpen' = TRUE
  /\ LET bound == active # NoRun /\ control.run = active.run
     IN /\ control' = IF bound THEN active ELSE control
        /\ IF bound /\ task.id = active.run /\ task.status = "running"
             THEN /\ task' = [task EXCEPT !.status = "settling"]
                  /\ shown' = Snapshot(task', control', active)
             ELSE UNCHANGED <<task, shown>>
  /\ active' = NoRun
  /\ UNCHANGED <<session, pending, awaiting, armed, wire, owner, epoch, aborted>>

Verdict(t) ==
  LET s == [t EXCEPT !.settled = TRUE]
  IN IF t.status \in {"running", "settling"}
       THEN Finished(s, IF t.error THEN "failed" ELSE "completed", FALSE)
       ELSE s

SettledTask == IF RunOpen(control) /\ task.id = control.run THEN Verdict(task) ELSE task

\* Variant: what waits is not dispatched.
AgentSettledNoDispatch ==
  /\ PiUp /\ flow = "ended"
  /\ flow' = "idle" /\ owner' = User /\ epoch' = 0 /\ aborted' = FALSE
  /\ control' = NoRun /\ active' = NoRun /\ ctxOpen' = FALSE
  /\ DispatchPendingIfReady(SettledTask, pending, TRUE)
  /\ shown' = IF task' = task THEN shown ELSE Snapshot(task', NoRun, NoRun)
  /\ UNCHANGED <<session, awaiting, armed>>

AgentSettled ==
  /\ PiUp /\ flow = "ended"
  /\ flow' = "idle" /\ owner' = User /\ epoch' = 0 /\ aborted' = FALSE
  /\ control' = NoRun /\ active' = NoRun /\ ctxOpen' = FALSE
  /\ DispatchPendingIfReady(SettledTask, pending, awaiting # None \/ armed # None)
  /\ shown' = IF task' = task THEN shown ELSE Snapshot(task', NoRun, NoRun)
  /\ UNCHANGED <<session, awaiting, armed>>

-----------------------------------------------------------------------------
Done == session = "shut" /\ UNCHANGED vars

Input == InputIgnored \/ InputSwallowed \/ InputMismatch \/ InputAccepted

Next ==
  \/ SessionStart \/ SessionNew \/ SessionKept \/ SessionShutdown
  \/ PostTask \/ Cancel
  \/ Input \/ BeforeAgentStart \/ AgentStart
  \/ (\E failure \in BOOLEAN : MessageEnd(failure))
  \/ ToolFailed \/ AgentEnd \/ AgentSettled
  \/ Done

Spec == Init /\ [][Next]_vars

\* Pi carries every prompt through and presents what the bridge sent, also
\* among the user's prompts, and its session is not replaced under way.
FairPi ==
  /\ SF_vars(InputSwallowed \/ InputMismatch \/ InputAccepted)
  /\ WF_vars(BeforeAgentStart)
  /\ WF_vars(flow = "prepared" /\ AgentStart)
  /\ WF_vars(AgentEnd)
  /\ WF_vars(AgentSettled)

FairSpec == Spec /\ FairPi

-----------------------------------------------------------------------------
(* Properties.                                                              *)

TaskRecords ==
  [id : Tasks \cup {None}, status : Open \cup Closed \cup {"idle"},
   settled : BOOLEAN, error : BOOLEAN, final : Tasks \cup {None},
   faulty : BOOLEAN, toolError : Tasks \cup {None}, epoch : Epochs]
RunRecords == [run : Tasks \cup {None}, epoch : Epochs]

\* The state has these types; no identity and no epoch is reused past its bound.
TypeOK ==
  /\ session \in {"loading", "ready", "transition", "shut"}
  /\ task \in TaskRecords
  /\ pending \in [run : Tasks \cup {None}, dispatched : BOOLEAN]
  /\ awaiting \in Tasks \cup {None} /\ armed \in Tasks \cup {None}
  /\ control \in RunRecords /\ active \in RunRecords
  /\ ctxOpen \in BOOLEAN
  /\ shown \in [id : Tasks \cup {None}, status : Open \cup Closed \cup {"idle"},
                settled : BOOLEAN, open : BOOLEAN, epoch : Epochs]
  /\ wire \in Seq(Tasks)
  /\ flow \in {"idle", "prompted", "prepared", "running", "ended"}
  /\ owner \in Tasks \cup {User}
  /\ epoch \in Epochs
  /\ aborted \in BOOLEAN

\* An event carries a task's identity only while Pi runs that task's own
\* prompt, with the epoch Pi is in, and what the task reports as its answer and
\* its tool errors came from that prompt: being the current task is not enough
\* (eventBinding, message_end, tool_execution_end, agent_end).
Attribution ==
  /\ active # NoRun =>
       /\ flow = "running" /\ owner = active.run /\ epoch = active.epoch
       /\ control = active
  /\ {task.final, task.toolError} \subseteq {None, task.id}

\* Conversely a controlled prompt that Pi runs is bound, unless it was
\* cancelled before its run began (agent_start).
ControlledRunBound ==
  flow = "running" /\ owner # User =>
    active.run = owner \/ (~RunOpen(control) /\ (task.id = owner => task.status = "cancelled"))

\* At most one marked prompt is on its way to Pi, and it is the one the bridge
\* waits for; so no marked prompt is ever taken for somebody else's
\* (dispatchPendingIfReady, input, cancel).
OneDelivery ==
  wire = IF pending.dispatched THEN <<pending.run>> ELSE <<>>

\* settledAt is physical: of a task that has it Pi runs nothing and never will,
\* and its status shows runOpen false, in the events too (agent_settled, input,
\* cancel).
SettledIsClosed ==
  /\ task.settled =>
       /\ owner # task.id /\ pending.run # task.id
       /\ {awaiting, armed} \cap {task.id} = {} /\ ~RunOpen(control)
  /\ shown.settled => ~shown.open

\* A settled task that was not cancelled failed exactly if the last message of
\* its prompt was a failure: an error that a retry made good is forgotten, one
\* that came last is not (message_end, agent_settled).
VerdictIsLastMessage ==
  task.settled /\ task.status \in {"completed", "failed"} =>
    (task.status = "failed" <=> task.faulty)

\* Abort reaches the cancelled task's own run and no other (cancel).
AbortOwnOnly ==
  aborted => owner = task.id /\ task.status = "cancelled"

\* From the moment the bridge asks for a new session until that is done or
\* called off, Pi holds no controlled prompt (session/new, controlPlaneBusy).
TransitionIsIdle ==
  session = "transition" => wire = <<>> /\ owner = User /\ pending = NoPending

\* A closed task keeps its verdict, whatever Pi still does (finishTask,
\* agent_start, agent_end, agent_settled).
ClosedIsFinal ==
  [][task.status \in Closed /\ task'.id = task.id => task'.status = task.status]_vars

\* A prompt cancelled before Pi was given it as input is never begun (cancel,
\* input).
CancelledInputNeverBegins ==
  [][owner' # owner /\ owner' # User => task.id = owner' /\ task.status = "queued"]_vars

\* "New overlapping controlled work is blocked until the prior control run is
\* physically closed": no task is admitted while Pi runs an earlier one's
\* prompt (tasks, controlPlaneBusy).  The code does not keep this: see README,
\* Divergences.
AdmittedOnlyWhenClosed ==
  [][task'.id # task.id => owner = User]_vars

\* A task Pi is fair to does not stay open (agent_settled, input).
TaskCloses == task.status \in Open ~> (task.status \in Closed \/ session = "shut")
=============================================================================
