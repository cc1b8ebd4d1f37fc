--------------------------- MODULE PiBridge_proof ---------------------------
(***************************************************************************)
(* Theorems about PiBridge, for any number of tasks and retries: what the  *)
(* bridge attributes to a task is the task's own, and what it reports      *)
(* closed is closed.                                                       *)
(*                                                                         *)
(* The argument is one inductive invariant that says where a controlled    *)
(* task is: its prompt waits or is on the wire (pending), was taken as     *)
(* input (awaiting), is about to start (armed), or has an open run         *)
(* (control), never two of these, and each agrees with what Pi is doing.   *)
(***************************************************************************)
EXTENDS PiBridge, SequenceTheorems, TLAPS

USE BridgeBounds

\* The task reported open is in exactly the stage its status says.
StageInv ==
  /\ pending # NoPending =>
       /\ pending.run \in Tasks /\ task.id = pending.run
       /\ task.status = "queued" \/ (task.status = "cancelled" /\ pending.dispatched)
       /\ awaiting = None /\ armed = None /\ control = NoRun
       /\ task.final = None /\ task.toolError = None /\ task.epoch = 0
  /\ pending.dispatched => pending # NoPending
  /\ awaiting # None =>
       /\ flow = "prompted" /\ owner = awaiting /\ task.id = awaiting
       /\ task.status \in {"queued", "cancelled"}
       /\ armed = None /\ control = NoRun /\ task.epoch = 0
  /\ armed # None =>
       /\ flow = "prepared" /\ owner = armed /\ task.id = armed
       /\ task.status \in {"queued", "cancelled"}
       /\ control = NoRun /\ task.epoch = 0
  /\ control # NoRun =>
       /\ flow \in {"running", "ended"} /\ owner = control.run /\ task.id = control.run
       /\ control.run \in Tasks /\ control.epoch = epoch /\ epoch > 0
       /\ task.epoch = epoch
       /\ task.status \in {"running", "settling", "cancelled"}
       /\ flow = "running" => active = control
  /\ active # NoRun => flow = "running" /\ control = active
  /\ task.status = "running" => control # NoRun /\ flow = "running"
  /\ task.status = "settling" => control # NoRun /\ flow = "ended"
  /\ task.status = "queued" =>
       pending # NoPending \/ awaiting # None \/ armed # None
  /\ task.status \in Open => ~task.settled /\ (task.error <=> task.faulty)
  /\ task.status = "idle" <=> task.id = None

\* What Pi runs belongs to a task already admitted.
OwnerInv ==
  /\ owner <= task.id
  /\ flow = "idle" => owner = User /\ epoch = 0
  /\ flow \in {"prompted", "prepared"} => epoch = 0
  /\ flow = "running" => epoch > 0
  /\ flow \in {"prompted", "prepared"} /\ owner = task.id /\ owner # User =>
       awaiting = owner \/ armed = owner
  /\ flow \in {"running", "ended"} /\ owner = task.id /\ owner # User /\ control = NoRun =>
       task.status = "cancelled"
  /\ task.settled =>
       /\ owner # task.id /\ pending = NoPending
       /\ awaiting = None /\ armed = None /\ control = NoRun
       /\ task.status \in Closed
  /\ aborted => control # NoRun /\ task.status = "cancelled"
  /\ session = "transition" =>
       /\ wire = <<>> /\ owner = User /\ pending = NoPending
       /\ awaiting = None /\ armed = None /\ control = NoRun /\ task.status \notin Open
  /\ shown.settled => ~shown.open
  /\ shown.id = task.id => shown.epoch = task.epoch

ResultInv ==
  /\ {task.final, task.toolError} \subseteq {None, task.id}
  /\ VerdictIsLastMessage
  /\ OneDelivery

IInv == TypeOK /\ StageInv /\ OwnerInv /\ ResultInv

-----------------------------------------------------------------------------
ShownRecords ==
  [id : Tasks \cup {None}, status : Open \cup Closed \cup {"idle"},
   settled : BOOLEAN, open : BOOLEAN, epoch : Epochs]

LEMMA SnapshotType ==
  ASSUME NEW t \in TaskRecords, NEW c \in RunRecords, NEW a \in RunRecords
  PROVE  Snapshot(t, c, a) \in ShownRecords
<1>1. RunOpen(c) \in BOOLEAN
  BY DEF RunOpen
<1>2. (IF a # NoRun THEN a.epoch ELSE IF c # NoRun THEN c.epoch ELSE t.epoch) \in Epochs
  BY DEF TaskRecords, RunRecords
<1> QED
  BY <1>1, <1>2 DEF Snapshot, ShownRecords, TaskRecords

LEMMA FinishedType ==
  ASSUME NEW t \in TaskRecords, NEW status \in Closed, NEW faulted \in BOOLEAN
  PROVE  Finished(t, status, faulted) \in TaskRecords
<1>1. (t.error \/ faulted) \in BOOLEAN
  OBVIOUS
<1> QED
  BY <1>1 DEF Finished, TaskRecords

LEMMA VerdictType ==
  ASSUME NEW t \in TaskRecords PROVE Verdict(t) \in TaskRecords
<1> DEFINE s == [t EXCEPT !.settled = TRUE]
<1>1. s \in TaskRecords
  BY DEF TaskRecords
<1>2. Finished(s, IF t.error THEN "failed" ELSE "completed", FALSE) \in TaskRecords
  BY <1>1, FinishedType DEF Closed
<1> QED
  BY <1>1, <1>2 DEF Verdict

LEMMA InitialTypes ==
  NoTask \in TaskRecords /\ NoRun \in RunRecords
BY DEF NoTask, NoRun, TaskRecords, RunRecords, None, Epochs

LEMMA AppendToEmpty ==
  ASSUME NEW x PROVE Append(<<>>, x) = <<x>>
OBVIOUS

\* What dispatching leaves, whoever calls it.
LEMMA DispatchType ==
  ASSUME NEW t \in TaskRecords, NEW p, p \in [run : Tasks \cup {None}, dispatched : BOOLEAN],
         NEW blocked, wire \in Seq(Tasks), Unsent(p) => p.run \in Tasks,
         DispatchPendingIfReady(t, p, blocked)
  PROVE  /\ task' \in TaskRecords
         /\ pending' \in [run : Tasks \cup {None}, dispatched : BOOLEAN]
         /\ wire' \in Seq(Tasks)
<1>1. NoPending \in [run : Tasks \cup {None}, dispatched : BOOLEAN]
  BY DEF NoPending
<1>2. CASE Hold(t, p, blocked)
  BY <1>1, <1>2 DEF Hold
<1>3. CASE Send(t, p, blocked)
  <2>1. [run |-> p.run, dispatched |-> TRUE] \in [run : Tasks \cup {None}, dispatched : BOOLEAN]
    OBVIOUS
  <2>2. Append(wire, p.run) \in Seq(Tasks)
    BY <1>3 DEF Send
  <2> QED
    BY <1>3, <2>1, <2>2 DEF Send
<1>4. CASE SendFails(t, p, blocked)
  BY <1>1, <1>4, FinishedType DEF SendFails, Closed
<1> QED
  BY <1>2, <1>3, <1>4 DEF DispatchPendingIfReady

LEMMA InitInv == Init => IInv
<1> SUFFICES ASSUME Init PROVE IInv
  OBVIOUS
<1>1. TypeOK
  <2>1. Snapshot(NoTask, NoRun, NoRun) \in ShownRecords
    BY InitialTypes, SnapshotType
  <2>2. <<>> \in Seq(Tasks) /\ 0 \in Epochs
    BY DEF Epochs
  <2> QED
    BY <2>1, <2>2, InitialTypes DEF Init, TypeOK, ShownRecords, NoPending, User, None
<1>2. StageInv /\ OwnerInv /\ ResultInv
  BY DEF Init, StageInv, OwnerInv, ResultInv, VerdictIsLastMessage,
     OneDelivery, NoTask, NoPending, NoRun, Snapshot, RunOpen, Open, Closed, None, User
<1> QED
  BY <1>1, <1>2 DEF IInv

LEMMA TypeStep == IInv /\ [Next]_vars => TypeOK'
<1> SUFFICES ASSUME IInv, [Next]_vars PROVE TypeOK'
  OBVIOUS
<1> USE DEF piVars, bridgeVars, IInv, TypeOK
<1>1. CASE SessionStart
  BY <1>1 DEF SessionStart
<1>2. CASE SessionNew
  BY <1>2 DEF SessionNew, Busy, RunOpen
<1>3. CASE SessionKept
  BY <1>3 DEF SessionKept
<1>4. CASE SessionShutdown
  BY <1>4 DEF SessionShutdown
<1>5. CASE PostTask
  <2>1. task.id + 1 \in Tasks
    BY <1>5 DEF PostTask, TaskRecords, Tasks, None
  <2>2. NewTask \in TaskRecords
    BY <2>1, InitialTypes DEF NewTask, TaskRecords, Open
  <2>3. [run |-> task.id + 1, dispatched |-> FALSE] \in [run : Tasks \cup {None}, dispatched : BOOLEAN]
    BY <2>1
  <2>4. /\ task' \in TaskRecords
        /\ pending' \in [run : Tasks \cup {None}, dispatched : BOOLEAN]
        /\ wire' \in Seq(Tasks)
    BY <1>5, <2>1, <2>2, <2>3, DispatchType DEF PostTask
  <2> QED
    BY <1>5, <2>4, SnapshotType DEF PostTask, ShownRecords
<1>6. CASE Cancel
  <2> DEFINE unsent == /\ task.status = "queued"
                       /\ pending.run = task.id /\ ~pending.dispatched
             running == /\ task.status = "running" /\ active # NoRun
                        /\ active.run = task.id /\ control.run = task.id
  <2>1. unsent \in BOOLEAN /\ (aborted \/ (running /\ ctxOpen)) \in BOOLEAN
    OBVIOUS
  <2>2. task' = [task EXCEPT !.status = "cancelled", !.settled = unsent]
    BY <1>6 DEF Cancel
  <2>3. task' \in TaskRecords
    <3> HIDE DEF unsent
    <3> QED
      BY <2>1, <2>2 DEF TaskRecords, Closed
  <2>4. pending' \in [run : Tasks \cup {None}, dispatched : BOOLEAN]
    BY <1>6 DEF Cancel, NoPending
  <2>5. aborted' \in BOOLEAN
    BY <1>6, <2>1 DEF Cancel
  <2> QED
    BY <1>6, <2>3, <2>4, <2>5, SnapshotType DEF Cancel, ShownRecords
<1>7. CASE InputIgnored
  <2>1. wire = <<>> \/ Matches
    BY DEF OneDelivery, ResultInv, Matches
  <2> QED
    BY <1>7, <2>1 DEF InputIgnored, Begin, User, Epochs
<1>8. CASE InputSwallowed
  <2>1. task' \in TaskRecords
    BY <1>8 DEF InputSwallowed, TaskRecords
  <2>2. shown' \in ShownRecords
    BY <1>8, <2>1, SnapshotType DEF InputSwallowed, ShownRecords
  <2>3. wire' \in Seq(Tasks) /\ pending' \in [run : Tasks \cup {None}, dispatched : BOOLEAN]
    BY <1>8 DEF InputSwallowed, MatchedInput, Matches, NoPending
  <2> QED
    BY <1>8, <2>1, <2>2, <2>3 DEF InputSwallowed, ShownRecords
<1>9. CASE InputMismatch
  <2>1. task' \in TaskRecords
    BY <1>9, FinishedType DEF InputMismatch, Closed
  <2>2. shown' \in ShownRecords
    BY <1>9, <2>1, SnapshotType DEF InputMismatch
  <2>3. wire' \in Seq(Tasks) /\ pending' \in [run : Tasks \cup {None}, dispatched : BOOLEAN]
    BY <1>9 DEF InputMismatch, MatchedInput, Matches, NoPending
  <2> QED
    BY <1>9, <2>1, <2>2, <2>3 DEF InputMismatch, ShownRecords
<1>10. CASE InputAccepted
  BY <1>10 DEF InputAccepted, MatchedInput, Matches, Begin, PiUp, NoPending, StageInv, Epochs
<1>11. CASE BeforeAgentStart
  BY <1>11 DEF BeforeAgentStart
<1>12. CASE LowLevelRun /\ Bind
  <2>0. epoch' \in Epochs
    BY <1>12 DEF LowLevelRun, Epochs
  <2>1. task' \in TaskRecords
    <3>1. 1 \in Epochs
      BY DEF Epochs
    <3> QED
      BY <1>12, <3>1 DEF Bind, TaskRecords, Open
  <2>2. control' \in RunRecords /\ active' \in RunRecords
    BY <1>12 DEF Bind, RunRecords, Epochs
  <2>3. shown' \in ShownRecords
    BY <1>12, <2>1, <2>2, SnapshotType DEF Bind
  <2> QED
    BY <1>12, <2>0, <2>1, <2>2, <2>3 DEF Bind, LowLevelRun, ShownRecords
<1>13. CASE LowLevelRun /\ BindingInvalid
  <2>0. epoch' \in Epochs
    BY <1>13 DEF LowLevelRun, Epochs
  <2>1. task' \in TaskRecords
    BY <1>13, FinishedType DEF BindingInvalid, Closed
  <2>3. shown' \in ShownRecords
    BY <1>13, <2>1, SnapshotType DEF BindingInvalid, ShownRecords
  <2> QED
    BY <1>13, <2>0, <2>1, <2>3, InitialTypes DEF BindingInvalid, LowLevelRun, ShownRecords, NoPending, None
<1>14. CASE LowLevelRun /\ Rebind
  <2>0. epoch' \in Epochs
    BY <1>14 DEF LowLevelRun, Epochs
  <2>1. control.epoch + 1 \in Epochs
    BY <1>14, <2>0 DEF Rebind, RunOpen, LowLevelRun, StageInv
  <2>2. control' \in RunRecords /\ active' \in RunRecords
    BY <1>14, <2>1 DEF Rebind, RunRecords
  <2>3. task' \in TaskRecords
    BY <1>14, <2>1, <2>2 DEF Rebind, TaskRecords, RunRecords, Open
  <2>4. shown' \in ShownRecords
    BY <1>14, <2>2, <2>3, SnapshotType DEF Rebind
  <2> QED
    BY <1>14, <2>0, <2>2, <2>3, <2>4 DEF Rebind, LowLevelRun, ShownRecords
<1>15. CASE LowLevelRun /\ Unrelated
  <2>0. epoch' \in Epochs
    BY <1>15 DEF LowLevelRun, Epochs
  <2> QED
    BY <1>15, <2>0, InitialTypes DEF Unrelated, LowLevelRun
<1>16. ASSUME NEW f \in BOOLEAN, MessageEnd(f) PROVE TypeOK'
  <2> DEFINE e == f \/ (task.error /\ task.status \notin {"running", "settling"})
  <2>1. CASE active # NoRun /\ task.id = active.run
    <3>1. e \in BOOLEAN
      OBVIOUS
    <3>2. owner \in Tasks \cup {None}
      BY DEF None, User
    <3>3. task' = [task EXCEPT !.final = owner, !.faulty = f, !.error = e]
      BY <1>16, <2>1 DEF MessageEnd
    <3>4. task' \in TaskRecords
      <4> HIDE DEF e
      <4> QED
        BY <3>1, <3>2, <3>3 DEF TaskRecords
    <3> QED
      BY <1>16, <3>4 DEF MessageEnd
  <2>2. CASE ~(active # NoRun /\ task.id = active.run)
    BY <1>16, <2>2 DEF MessageEnd
  <2> QED
    BY <2>1, <2>2
<1>17. CASE ToolFailed
  <2>1. task' \in TaskRecords
    BY <1>17 DEF ToolFailed, TaskRecords, None, User
  <2> QED
    BY <1>17, <2>1 DEF ToolFailed
<1>18. CASE AgentEnd
  <2>1. task' \in TaskRecords
    BY <1>18 DEF AgentEnd, TaskRecords, Open
  <2>2. control' \in RunRecords /\ active' \in RunRecords
    BY <1>18, InitialTypes DEF AgentEnd
  <2>3. shown' \in ShownRecords
    BY <1>18, <2>1, <2>2, SnapshotType DEF AgentEnd, ShownRecords
  <2> QED
    BY <1>18, <2>1, <2>2, <2>3 DEF AgentEnd, ShownRecords
<1>19. CASE AgentSettled
  <2>1. SettledTask \in TaskRecords
    BY VerdictType DEF SettledTask
  <2>2. /\ task' \in TaskRecords
        /\ pending' \in [run : Tasks \cup {None}, dispatched : BOOLEAN]
        /\ wire' \in Seq(Tasks)
    BY <1>19, <2>1, DispatchType DEF AgentSettled, StageInv, Unsent
  <2>3. shown' \in ShownRecords
    BY <1>19, <2>2, InitialTypes, SnapshotType DEF AgentSettled, ShownRecords
  <2> QED
    <3>1. 0 \in Epochs
      BY DEF Epochs
    <3> QED
      BY <1>19, <2>2, <2>3, <3>1, InitialTypes DEF AgentSettled, ShownRecords, User
<1>20. CASE UNCHANGED vars
  BY <1>20 DEF vars
<1> QED
  BY <1>1, <1>2, <1>3, <1>4, <1>5, <1>6, <1>7, <1>8, <1>9, <1>10,
     <1>11, <1>12, <1>13, <1>14, <1>15, <1>16, <1>17, <1>18, <1>19, <1>20
     DEF Next, Input, AgentStart, Done, vars

LEMMA StageStep == IInv /\ [Next]_vars => StageInv'
<1> SUFFICES ASSUME IInv, [Next]_vars PROVE StageInv'
  OBVIOUS
<1> USE DEF piVars, bridgeVars, IInv, TypeOK, StageInv, OwnerInv, ResultInv, VerdictIsLastMessage, OneDelivery,
            NoPending, NoRun, TaskRecords, RunRecords, Open, Closed, Epochs, Tasks, None, User
<1>1. CASE SessionStart
  BY <1>1 DEF SessionStart
<1>2. CASE SessionNew
  BY <1>2 DEF SessionNew, Busy, RunOpen
<1>3. CASE SessionKept
  BY <1>3 DEF SessionKept
<1>4. CASE SessionShutdown
  BY <1>4 DEF SessionShutdown
<1>5. CASE PostTask
  <2> DEFINE p == [run |-> task.id + 1, dispatched |-> FALSE]
  <2>1. task.id + 1 \in Tasks /\ task.id + 1 # None /\ task.id + 1 > task.id /\ task.id \in Nat
    BY <1>5 DEF PostTask
  <2>2. /\ pending = NoPending /\ awaiting = None /\ armed = None
        /\ control = NoRun /\ active = NoRun /\ task.status \notin Open
        /\ UNCHANGED <<session, awaiting, armed, control, active, ctxOpen, flow, owner, epoch, aborted>>
        /\ shown' = Snapshot(task', control, active) /\ session = "ready"
    BY <1>5 DEF PostTask, Busy, RunOpen
  <2>3. wire = <<>>
    BY <2>2
  <2>4. /\ NewTask.id = task.id + 1 /\ NewTask.status = "queued"
        /\ ~NewTask.settled /\ ~NewTask.error /\ ~NewTask.faulty
        /\ NewTask.final = None /\ NewTask.toolError = None /\ NewTask.epoch = 0
    BY DEF NewTask, NoTask
  <2>5. Unsent(p) /\ ~Stale(NewTask, p) /\ p # NoPending
    BY <2>1, <2>4 DEF Unsent, Stale
  <2>6. CASE Hold(NewTask, p, ctxOpen)
    <3>1. task' = NewTask /\ pending' = p /\ wire' = wire
      BY <2>5, <2>6 DEF Hold
    <3> QED
      BY <2>1, <2>2, <2>3, <2>4, <3>1 DEF Snapshot, RunOpen
  <2>7. CASE Send(NewTask, p, ctxOpen)
    <3>1. /\ task' = NewTask /\ wire' = <<task.id + 1>>
          /\ pending' = [run |-> task.id + 1, dispatched |-> TRUE]
      BY <2>3, <2>7, AppendToEmpty DEF Send
    <3> QED
      BY <2>1, <2>2, <2>3, <2>4, <3>1 DEF Snapshot, RunOpen
  <2>8. CASE SendFails(NewTask, p, ctxOpen)
    <3>1. pending' = NoPending /\ wire' = wire
      BY <2>8 DEF SendFails
    <3>2. /\ task'.id = task.id + 1 /\ task'.status = "failed"
          /\ ~task'.settled /\ task'.epoch = 0
          /\ task'.final = None /\ task'.toolError = None
      BY <2>4, <2>8 DEF SendFails, Finished, NewTask, NoTask
    <3> QED
      BY <2>1, <2>2, <2>3, <3>1, <3>2 DEF Snapshot, RunOpen
  <2> QED
    BY <1>5, <2>6, <2>7, <2>8 DEF PostTask, DispatchPendingIfReady
<1>6. CASE Cancel
  <2> DEFINE unsent == /\ task.status = "queued"
                       /\ pending.run = task.id /\ ~pending.dispatched
  <2>1. /\ task.status \in {"queued", "running"}
        /\ pending' = IF unsent THEN NoPending ELSE pending
        /\ shown' = Snapshot(task', control, active)
        /\ UNCHANGED <<session, awaiting, armed, control, active, ctxOpen, wire, flow, owner, epoch>>
        /\ aborted' => aborted \/ (task.status = "running" /\ active # NoRun)
    BY <1>6 DEF Cancel
  <2>2. /\ task'.status = "cancelled" /\ (task'.settled <=> unsent)
        /\ task'.id = task.id /\ task'.epoch = task.epoch /\ task'.final = task.final
        /\ task'.toolError = task.toolError
    BY <1>6 DEF Cancel
  <2>3. unsent => pending # NoPending /\ wire = <<>>
    BY <2>1
  <2> QED
    BY <2>1, <2>2, <2>3 DEF Snapshot, RunOpen
<1>7. CASE InputIgnored
  BY <1>7 DEF InputIgnored, Begin, Matches, PiUp
<1>8. CASE InputSwallowed
  BY <1>8 DEF InputSwallowed, MatchedInput, Matches, Snapshot, RunOpen, PiUp
<1>9. CASE InputMismatch
  BY <1>9 DEF InputMismatch, MatchedInput, Matches, Snapshot, Finished, RunOpen, PiUp
<1>10. CASE InputAccepted
  BY <1>10 DEF InputAccepted, MatchedInput, Matches, Begin, PiUp
<1>11. CASE BeforeAgentStart
  BY <1>11 DEF BeforeAgentStart, PiUp
<1>12. CASE LowLevelRun /\ Bind
  BY <1>12 DEF Bind, LowLevelRun, Snapshot, RunOpen, PiUp
<1>13. CASE LowLevelRun /\ BindingInvalid
  BY <1>13 DEF BindingInvalid, LowLevelRun, Snapshot, RunOpen, Finished, PiUp
<1>14. CASE LowLevelRun /\ Rebind
  BY <1>14 DEF Rebind, LowLevelRun, Snapshot, RunOpen, PiUp
<1>15. CASE LowLevelRun /\ Unrelated
  BY <1>15 DEF Unrelated, LowLevelRun, RunOpen, PiUp
<1>16. ASSUME NEW f \in BOOLEAN, MessageEnd(f) PROVE StageInv'
  BY ZenonT(60), <1>16 DEF MessageEnd, PiUp
<1>17. CASE ToolFailed
  BY <1>17 DEF ToolFailed, PiUp
<1>18. CASE AgentEnd
  BY <1>18 DEF AgentEnd, Snapshot, RunOpen, PiUp
<1>19. CASE AgentSettled
  <2>1. /\ flow = "ended" /\ flow' = "idle" /\ owner' = User /\ epoch' = 0 /\ aborted' = FALSE
        /\ control' = NoRun /\ active' = NoRun
        /\ UNCHANGED <<session, awaiting, armed>>
        /\ shown' = IF task' = task THEN shown ELSE Snapshot(task', NoRun, NoRun)
        /\ awaiting = None /\ armed = None
    BY <1>19 DEF AgentSettled
  <2>2. CASE control # NoRun
    <3>1. pending = NoPending /\ pending' = pending /\ wire' = wire /\ task' = Verdict(task)
      BY <1>19, <2>2 DEF AgentSettled, DispatchPendingIfReady, Hold, Send, SendFails, Unsent,
         SettledTask, RunOpen
    <3>2. /\ task'.id = task.id /\ task'.settled /\ task'.epoch = task.epoch
          /\ task'.final = task.final /\ task'.toolError = task.toolError
          /\ task'.faulty = task.faulty
          /\ task'.status \in {"completed", "failed", "cancelled"}
          /\ task.status = "cancelled" => task'.status = "cancelled"
          /\ task.status # "cancelled" => task'.status = IF task.error THEN "failed" ELSE "completed"
      BY <2>2, <3>1 DEF Verdict, Finished
    <3> QED
      BY <2>1, <2>2, <3>1, <3>2 DEF Snapshot, RunOpen
  <2>3. CASE control = NoRun
    <3>1. Unsent(pending) => ~Stale(task, pending)
      BY <2>3 DEF RunOpen, Stale, Unsent
    <3>2. SettledTask = task
      BY <2>3 DEF SettledTask, RunOpen
    <3>3. CASE Hold(task, pending, awaiting # None \/ armed # None)
      <4>1. task' = task /\ pending' = pending /\ wire' = wire
        BY <3>1, <3>3 DEF Hold
      <4> QED
        BY <2>1, <2>3, <4>1
    <3>4. CASE Send(task, pending, awaiting # None \/ armed # None)
      <4>1. pending # NoPending /\ ~pending.dispatched /\ wire = <<>>
        BY <3>4 DEF Send, Unsent
      <4>2. task' = task /\ wire' = <<pending.run>>
            /\ pending' = [run |-> pending.run, dispatched |-> TRUE]
        BY <3>4, <4>1, AppendToEmpty DEF Send
      <4> QED
        BY <2>1, <2>3, <4>1, <4>2
    <3>5. CASE SendFails(task, pending, awaiting # None \/ armed # None)
      <4>1. /\ pending # NoPending /\ ~pending.dispatched /\ wire = <<>> /\ wire' = <<>>
            /\ pending' = NoPending /\ task.status = "queued"
        BY <3>5 DEF SendFails, Unsent
      <4>2. /\ task'.id = task.id /\ task'.status = "failed" /\ task'.settled = task.settled
            /\ task'.epoch = task.epoch /\ task'.final = task.final
            /\ task'.toolError = task.toolError /\ task' # task
        BY <3>5, <4>1 DEF SendFails, Finished
      <4> QED
        BY <2>1, <2>3, <4>1, <4>2 DEF Snapshot, RunOpen
    <3> QED
      BY <1>19, <3>2, <3>3, <3>4, <3>5 DEF AgentSettled, DispatchPendingIfReady
  <2> QED
    BY <2>2, <2>3
<1>20. CASE UNCHANGED vars
  BY <1>20 DEF vars
<1> QED
  BY <1>1, <1>2, <1>3, <1>4, <1>5, <1>6, <1>7, <1>8, <1>9, <1>10,
     <1>11, <1>12, <1>13, <1>14, <1>15, <1>16, <1>17, <1>18, <1>19, <1>20
     DEF Next, Input, AgentStart, Done, vars

LEMMA OwnerStep == IInv /\ [Next]_vars => OwnerInv'
<1> SUFFICES ASSUME IInv, [Next]_vars PROVE OwnerInv'
  OBVIOUS
<1> USE DEF piVars, bridgeVars, IInv, TypeOK, StageInv, OwnerInv, ResultInv, VerdictIsLastMessage, OneDelivery,
            NoPending, NoRun, TaskRecords, RunRecords, Open, Closed, Epochs, Tasks, None, User
<1>1. CASE SessionStart
  BY <1>1 DEF SessionStart
<1>2. CASE SessionNew
  BY <1>2 DEF SessionNew, Busy, RunOpen
<1>3. CASE SessionKept
  BY <1>3 DEF SessionKept
<1>4. CASE SessionShutdown
  BY <1>4 DEF SessionShutdown
<1>5. CASE PostTask
  <2> DEFINE p == [run |-> task.id + 1, dispatched |-> FALSE]
  <2>1. task.id + 1 \in Tasks /\ task.id + 1 # None /\ task.id + 1 > task.id /\ task.id \in Nat
    BY <1>5 DEF PostTask
  <2>2. /\ pending = NoPending /\ awaiting = None /\ armed = None
        /\ control = NoRun /\ active = NoRun /\ task.status \notin Open
        /\ UNCHANGED <<session, awaiting, armed, control, active, ctxOpen, flow, owner, epoch, aborted>>
        /\ shown' = Snapshot(task', control, active) /\ session = "ready"
    BY <1>5 DEF PostTask, Busy, RunOpen
  <2>3. wire = <<>>
    BY <2>2
  <2>4. /\ NewTask.id = task.id + 1 /\ NewTask.status = "queued"
        /\ ~NewTask.settled /\ ~NewTask.error /\ ~NewTask.faulty
        /\ NewTask.final = None /\ NewTask.toolError = None /\ NewTask.epoch = 0
    BY DEF NewTask, NoTask
  <2>5. Unsent(p) /\ ~Stale(NewTask, p) /\ p # NoPending
    BY <2>1, <2>4 DEF Unsent, Stale
  <2>6. CASE Hold(NewTask, p, ctxOpen)
    <3>1. task' = NewTask /\ pending' = p /\ wire' = wire
      BY <2>5, <2>6 DEF Hold
    <3> QED
      BY <2>1, <2>2, <2>3, <2>4, <3>1 DEF Snapshot, RunOpen
  <2>7. CASE Send(NewTask, p, ctxOpen)
    <3>1. /\ task' = NewTask /\ wire' = <<task.id + 1>>
          /\ pending' = [run |-> task.id + 1, dispatched |-> TRUE]
      BY <2>3, <2>7, AppendToEmpty DEF Send
    <3> QED
      BY <2>1, <2>2, <2>3, <2>4, <3>1 DEF Snapshot, RunOpen
  <2>8. CASE SendFails(NewTask, p, ctxOpen)
    <3>1. pending' = NoPending /\ wire' = wire
      BY <2>8 DEF SendFails
    <3>2. /\ task'.id = task.id + 1 /\ task'.status = "failed"
          /\ ~task'.settled /\ task'.epoch = 0
          /\ task'.final = None /\ task'.toolError = None
      BY <2>4, <2>8 DEF SendFails, Finished, NewTask, NoTask
    <3> QED
      BY <2>1, <2>2, <2>3, <3>1, <3>2 DEF Snapshot, RunOpen
  <2> QED
    BY <1>5, <2>6, <2>7, <2>8 DEF PostTask, DispatchPendingIfReady
<1>6. CASE Cancel
  BY <1>6 DEF Cancel, Snapshot, Unsent, RunOpen
<1>7. CASE InputIgnored
  BY <1>7 DEF InputIgnored, Begin, Matches, PiUp
<1>8. CASE InputSwallowed
  BY <1>8 DEF InputSwallowed, MatchedInput, Matches, Snapshot, RunOpen, PiUp
<1>9. CASE InputMismatch
  BY <1>9 DEF InputMismatch, MatchedInput, Matches, Snapshot, Finished, RunOpen, PiUp
<1>10. CASE InputAccepted
  BY <1>10 DEF InputAccepted, MatchedInput, Matches, Begin, PiUp
<1>11. CASE BeforeAgentStart
  BY <1>11 DEF BeforeAgentStart, PiUp
<1>12. CASE LowLevelRun /\ Bind
  BY <1>12 DEF Bind, LowLevelRun, Snapshot, RunOpen, PiUp
<1>13. CASE LowLevelRun /\ BindingInvalid
  BY <1>13 DEF BindingInvalid, LowLevelRun, Snapshot, RunOpen, Finished, PiUp
<1>14. CASE LowLevelRun /\ Rebind
  BY <1>14 DEF Rebind, LowLevelRun, Snapshot, RunOpen, PiUp
<1>15. CASE LowLevelRun /\ Unrelated
  BY <1>15 DEF Unrelated, LowLevelRun, RunOpen, PiUp
<1>16. ASSUME NEW f \in BOOLEAN, MessageEnd(f) PROVE OwnerInv'
  BY ZenonT(60), <1>16 DEF MessageEnd, PiUp
<1>17. CASE ToolFailed
  BY <1>17 DEF ToolFailed, PiUp
<1>18. CASE AgentEnd
  BY <1>18 DEF AgentEnd, Snapshot, RunOpen, PiUp
<1>19. CASE AgentSettled
  <2>1. /\ flow = "ended" /\ flow' = "idle" /\ owner' = User /\ epoch' = 0 /\ aborted' = FALSE
        /\ control' = NoRun /\ active' = NoRun
        /\ UNCHANGED <<session, awaiting, armed>>
        /\ shown' = IF task' = task THEN shown ELSE Snapshot(task', NoRun, NoRun)
        /\ awaiting = None /\ armed = None
    BY <1>19 DEF AgentSettled
  <2>2. CASE control # NoRun
    <3>1. pending = NoPending /\ pending' = pending /\ wire' = wire /\ task' = Verdict(task)
      BY <1>19, <2>2 DEF AgentSettled, DispatchPendingIfReady, Hold, Send, SendFails, Unsent,
         SettledTask, RunOpen
    <3>2. /\ task'.id = task.id /\ task'.settled /\ task'.epoch = task.epoch
          /\ task'.final = task.final /\ task'.toolError = task.toolError
          /\ task'.faulty = task.faulty
          /\ task'.status \in {"completed", "failed", "cancelled"}
          /\ task.status = "cancelled" => task'.status = "cancelled"
          /\ task.status # "cancelled" => task'.status = IF task.error THEN "failed" ELSE "completed"
      BY <2>2, <3>1 DEF Verdict, Finished
    <3> QED
      BY <2>1, <2>2, <3>1, <3>2 DEF Snapshot, RunOpen
  <2>3. CASE control = NoRun
    <3>1. Unsent(pending) => ~Stale(task, pending)
      BY <2>3 DEF SettledTask, RunOpen, Stale, Unsent
    <3>2. SettledTask = task
      BY <2>3 DEF SettledTask, RunOpen
    <3>3. CASE Hold(task, pending, awaiting # None \/ armed # None)
      <4>1. task' = task /\ pending' = pending /\ wire' = wire
        BY <3>1, <3>3 DEF Hold
      <4> QED
        BY <2>1, <2>3, <4>1
    <3>4. CASE Send(task, pending, awaiting # None \/ armed # None)
      <4>1. pending # NoPending /\ ~pending.dispatched /\ wire = <<>>
        BY <3>4 DEF Send, Unsent
      <4>2. task' = task /\ wire' = <<pending.run>>
            /\ pending' = [run |-> pending.run, dispatched |-> TRUE]
        BY <3>4, <4>1, AppendToEmpty DEF Send
      <4> QED
        BY <2>1, <2>3, <4>1, <4>2
    <3>5. CASE SendFails(task, pending, awaiting # None \/ armed # None)
      <4>1. /\ pending # NoPending /\ ~pending.dispatched /\ wire = <<>> /\ wire' = <<>>
            /\ pending' = NoPending /\ task.status = "queued"
        BY <3>5 DEF SendFails, Unsent
      <4>2. /\ task'.id = task.id /\ task'.status = "failed" /\ task'.settled = task.settled
            /\ task'.epoch = task.epoch /\ task'.final = task.final
            /\ task'.toolError = task.toolError /\ task' # task
        BY <3>5, <4>1 DEF SendFails, Finished
      <4> QED
        BY <2>1, <2>3, <4>1, <4>2 DEF Snapshot, RunOpen
    <3> QED
      BY <1>19, <3>2, <3>3, <3>4, <3>5 DEF AgentSettled, DispatchPendingIfReady
  <2> QED
    BY <2>2, <2>3
<1>20. CASE UNCHANGED vars
  BY <1>20 DEF vars
<1> QED
  BY <1>1, <1>2, <1>3, <1>4, <1>5, <1>6, <1>7, <1>8, <1>9, <1>10,
     <1>11, <1>12, <1>13, <1>14, <1>15, <1>16, <1>17, <1>18, <1>19, <1>20
     DEF Next, Input, AgentStart, Done, vars

LEMMA ResultStep == IInv /\ [Next]_vars => ResultInv'
<1> SUFFICES ASSUME IInv, [Next]_vars PROVE ResultInv'
  OBVIOUS
<1> USE DEF piVars, bridgeVars, IInv, TypeOK, StageInv, OwnerInv, ResultInv, VerdictIsLastMessage, OneDelivery,
            NoPending, NoRun, TaskRecords, RunRecords, Open, Closed, Epochs, Tasks, None, User
<1>1. CASE SessionStart
  BY <1>1 DEF SessionStart
<1>2. CASE SessionNew
  BY <1>2 DEF SessionNew, Busy, RunOpen
<1>3. CASE SessionKept
  BY <1>3 DEF SessionKept
<1>4. CASE SessionShutdown
  BY <1>4 DEF SessionShutdown
<1>5. CASE PostTask
  <2> DEFINE p == [run |-> task.id + 1, dispatched |-> FALSE]
  <2>1. task.id + 1 \in Tasks /\ task.id + 1 # None /\ task.id + 1 > task.id /\ task.id \in Nat
    BY <1>5 DEF PostTask
  <2>2. /\ pending = NoPending /\ awaiting = None /\ armed = None
        /\ control = NoRun /\ active = NoRun /\ task.status \notin Open
        /\ UNCHANGED <<session, awaiting, armed, control, active, ctxOpen, flow, owner, epoch, aborted>>
        /\ shown' = Snapshot(task', control, active) /\ session = "ready"
    BY <1>5 DEF PostTask, Busy, RunOpen
  <2>3. wire = <<>>
    BY <2>2
  <2>4. /\ NewTask.id = task.id + 1 /\ NewTask.status = "queued"
        /\ ~NewTask.settled /\ ~NewTask.error /\ ~NewTask.faulty
        /\ NewTask.final = None /\ NewTask.toolError = None /\ NewTask.epoch = 0
    BY DEF NewTask, NoTask
  <2>5. Unsent(p) /\ ~Stale(NewTask, p) /\ p # NoPending
    BY <2>1, <2>4 DEF Unsent, Stale
  <2>6. CASE Hold(NewTask, p, ctxOpen)
    <3>1. task' = NewTask /\ pending' = p /\ wire' = wire
      BY <2>5, <2>6 DEF Hold
    <3> QED
      BY <2>1, <2>2, <2>3, <2>4, <3>1 DEF Snapshot, RunOpen
  <2>7. CASE Send(NewTask, p, ctxOpen)
    <3>1. /\ task' = NewTask /\ wire' = <<task.id + 1>>
          /\ pending' = [run |-> task.id + 1, dispatched |-> TRUE]
      BY <2>3, <2>7, AppendToEmpty DEF Send
    <3> QED
      BY <2>1, <2>2, <2>3, <2>4, <3>1 DEF Snapshot, RunOpen
  <2>8. CASE SendFails(NewTask, p, ctxOpen)
    <3>1. pending' = NoPending /\ wire' = wire
      BY <2>8 DEF SendFails
    <3>2. /\ task'.id = task.id + 1 /\ task'.status = "failed"
          /\ ~task'.settled /\ task'.epoch = 0
          /\ task'.final = None /\ task'.toolError = None
      BY <2>4, <2>8 DEF SendFails, Finished, NewTask, NoTask
    <3> QED
      BY <2>1, <2>2, <2>3, <3>1, <3>2 DEF Snapshot, RunOpen
  <2> QED
    BY <1>5, <2>6, <2>7, <2>8 DEF PostTask, DispatchPendingIfReady
<1>6. CASE Cancel
  BY <1>6 DEF Cancel, Snapshot, Unsent, RunOpen
<1>7. CASE InputIgnored
  BY <1>7 DEF InputIgnored, Begin, Matches, PiUp
<1>8. CASE InputSwallowed
  BY <1>8 DEF InputSwallowed, MatchedInput, Matches, Snapshot, RunOpen, PiUp
<1>9. CASE InputMismatch
  BY <1>9 DEF InputMismatch, MatchedInput, Matches, Snapshot, Finished, RunOpen, PiUp
<1>10. CASE InputAccepted
  BY <1>10 DEF InputAccepted, MatchedInput, Matches, Begin, PiUp
<1>11. CASE BeforeAgentStart
  BY <1>11 DEF BeforeAgentStart, PiUp
<1>12. CASE LowLevelRun /\ Bind
  BY <1>12 DEF Bind, LowLevelRun, Snapshot, RunOpen, PiUp
<1>13. CASE LowLevelRun /\ BindingInvalid
  BY <1>13 DEF BindingInvalid, LowLevelRun, Snapshot, RunOpen, Finished, PiUp
<1>14. CASE LowLevelRun /\ Rebind
  BY <1>14 DEF Rebind, LowLevelRun, Snapshot, RunOpen, PiUp
<1>15. CASE LowLevelRun /\ Unrelated
  BY <1>15 DEF Unrelated, LowLevelRun, RunOpen, PiUp
<1>16. ASSUME NEW f \in BOOLEAN, MessageEnd(f) PROVE ResultInv'
  BY ZenonT(60), <1>16 DEF MessageEnd, PiUp
<1>17. CASE ToolFailed
  BY <1>17 DEF ToolFailed, PiUp
<1>18. CASE AgentEnd
  BY <1>18 DEF AgentEnd, Snapshot, RunOpen, PiUp
<1>19. CASE AgentSettled
  <2>1. /\ flow = "ended" /\ flow' = "idle" /\ owner' = User /\ epoch' = 0 /\ aborted' = FALSE
        /\ control' = NoRun /\ active' = NoRun
        /\ UNCHANGED <<session, awaiting, armed>>
        /\ shown' = IF task' = task THEN shown ELSE Snapshot(task', NoRun, NoRun)
        /\ awaiting = None /\ armed = None
    BY <1>19 DEF AgentSettled
  <2>2. CASE control # NoRun
    <3>1. pending = NoPending /\ pending' = pending /\ wire' = wire /\ task' = Verdict(task)
      BY <1>19, <2>2 DEF AgentSettled, DispatchPendingIfReady, Hold, Send, SendFails, Unsent,
         SettledTask, RunOpen
    <3>2. /\ task'.id = task.id /\ task'.settled /\ task'.epoch = task.epoch
          /\ task'.final = task.final /\ task'.toolError = task.toolError
          /\ task'.faulty = task.faulty
          /\ task'.status \in {"completed", "failed", "cancelled"}
          /\ task.status = "cancelled" => task'.status = "cancelled"
          /\ task.status # "cancelled" => task'.status = IF task.error THEN "failed" ELSE "completed"
      BY <2>2, <3>1 DEF Verdict, Finished
    <3> QED
      BY <2>1, <2>2, <3>1, <3>2 DEF Snapshot, RunOpen
  <2>3. CASE control = NoRun
    <3>1. Unsent(pending) => ~Stale(task, pending)
      BY <2>3 DEF SettledTask, RunOpen, Stale, Unsent
    <3>2. SettledTask = task
      BY <2>3 DEF SettledTask, RunOpen
    <3>3. CASE Hold(task, pending, awaiting # None \/ armed # None)
      <4>1. task' = task /\ pending' = pending /\ wire' = wire
        BY <3>1, <3>3 DEF Hold
      <4> QED
        BY <2>1, <2>3, <4>1
    <3>4. CASE Send(task, pending, awaiting # None \/ armed # None)
      <4>1. pending # NoPending /\ ~pending.dispatched /\ wire = <<>>
        BY <3>4 DEF Send, Unsent
      <4>2. task' = task /\ wire' = <<pending.run>>
            /\ pending' = [run |-> pending.run, dispatched |-> TRUE]
        BY <3>4, <4>1, AppendToEmpty DEF Send
      <4> QED
        BY <2>1, <2>3, <4>1, <4>2
    <3>5. CASE SendFails(task, pending, awaiting # None \/ armed # None)
      <4>1. /\ pending # NoPending /\ ~pending.dispatched /\ wire = <<>> /\ wire' = <<>>
            /\ pending' = NoPending /\ task.status = "queued"
        BY <3>5 DEF SendFails, Unsent
      <4>2. /\ task'.id = task.id /\ task'.status = "failed" /\ task'.settled = task.settled
            /\ task'.epoch = task.epoch /\ task'.final = task.final
            /\ task'.toolError = task.toolError /\ task' # task
        BY <3>5, <4>1 DEF SendFails, Finished
      <4> QED
        BY <2>1, <2>3, <4>1, <4>2 DEF Snapshot, RunOpen
    <3> QED
      BY <1>19, <3>2, <3>3, <3>4, <3>5 DEF AgentSettled, DispatchPendingIfReady
  <2> QED
    BY <2>2, <2>3
<1>20. CASE UNCHANGED vars
  BY <1>20 DEF vars
<1> QED
  BY <1>1, <1>2, <1>3, <1>4, <1>5, <1>6, <1>7, <1>8, <1>9, <1>10,
     <1>11, <1>12, <1>13, <1>14, <1>15, <1>16, <1>17, <1>18, <1>19, <1>20
     DEF Next, Input, AgentStart, Done, vars

LEMMA StepInv == IInv /\ [Next]_vars => IInv'
<1> SUFFICES ASSUME IInv, [Next]_vars PROVE IInv'
  OBVIOUS
<1> QED
  BY TypeStep, StageStep, OwnerStep, ResultStep DEF IInv

LEMMA Invariance == Spec => []IInv
BY InitInv, StepInv, PTL DEF Spec

-----------------------------------------------------------------------------
(* What the bridge promises.                                                *)

\* The state keeps its types.
THEOREM TypeCorrect == Spec => []TypeOK
<1>1. IInv => TypeOK
  BY DEF IInv
<1> QED
  BY <1>1, Invariance, PTL

\* Events, answers and tool errors are attributed to the prompt they came from,
\* and a controlled prompt that runs is bound (eventBinding, agent_start).
THEOREM AttributionHolds == Spec => []Attribution /\ []ControlledRunBound
<1>1. IInv => Attribution
  BY DEF IInv, TypeOK, StageInv, ResultInv, Attribution, NoRun, RunRecords
<1>2. IInv => ControlledRunBound
  <2> SUFFICES ASSUME IInv, flow = "running", owner # User,
                      ~(~RunOpen(control) /\ (task.id = owner => task.status = "cancelled"))
               PROVE  active.run = owner
    BY DEF ControlledRunBound
  <2>1. control # NoRun
    BY DEF IInv, OwnerInv, RunOpen
  <2> QED
    BY <2>1 DEF IInv, StageInv
<1> QED
  BY <1>1, <1>2, Invariance, PTL

\* At most one marked prompt is on its way, and the bridge awaits it
\* (dispatchPendingIfReady, cancel).
THEOREM OneDeliveryHolds == Spec => []OneDelivery
<1>1. IInv => OneDelivery
  BY DEF IInv, ResultInv
<1> QED
  BY <1>1, Invariance, PTL

\* settledAt means that Pi is done with the task (agent_settled, input, cancel).
THEOREM SettlementIsPhysical == Spec => []SettledIsClosed
<1>1. IInv => SettledIsClosed
  <2> SUFFICES ASSUME IInv PROVE SettledIsClosed
    OBVIOUS
  <2>1. task.settled => task.id # None
    BY DEF IInv, OwnerInv, StageInv, Closed
  <2> QED
    BY <2>1 DEF IInv, OwnerInv, SettledIsClosed, RunOpen, NoPending
<1> QED
  BY <1>1, Invariance, PTL

\* The verdict follows the last message of the prompt (message_end).
THEOREM VerdictFollows == Spec => []VerdictIsLastMessage
<1>1. IInv => VerdictIsLastMessage
  BY DEF IInv, ResultInv
<1> QED
  BY <1>1, Invariance, PTL

\* Only the cancelled task's own run is aborted (cancel).
THEOREM AbortsOwn == Spec => []AbortOwnOnly
<1>1. IInv => AbortOwnOnly
  BY DEF IInv, OwnerInv, StageInv, AbortOwnOnly
<1> QED
  BY <1>1, Invariance, PTL

\* No controlled prompt is in Pi while its session is replaced at the bridge's
\* request (session/new).
THEOREM TransitionsIdle == Spec => []TransitionIsIdle
<1>1. IInv => TransitionIsIdle
  BY DEF IInv, OwnerInv, TransitionIsIdle
<1> QED
  BY <1>1, Invariance, PTL

\* A prompt cancelled before its input is never begun (cancel, input).
THEOREM CancelledNeverBegins == Spec => CancelledInputNeverBegins
<1> DEFINE A == owner' # owner /\ owner' # User =>
                  task.id = owner' /\ task.status = "queued"
<1>1. IInv /\ [Next]_vars => [A]_vars
  <2> SUFFICES ASSUME IInv, [Next]_vars, owner' # owner, owner' # User
               PROVE  task.id = owner' /\ task.status = "queued"
    OBVIOUS
  <2>1. wire = <<>> \/ Matches
    BY DEF IInv, ResultInv, OneDelivery, Matches, TypeOK
  <2>2. CASE InputAccepted
    <3>1. pending # NoPending /\ owner' = pending.run /\ task.status # "cancelled"
      BY <2>2 DEF InputAccepted, MatchedInput, Matches, Begin, IInv, StageInv
    <3> QED
      BY <3>1 DEF IInv, StageInv
  <2>3. ~InputIgnored
    BY <2>1 DEF InputIgnored, Begin
  <2> QED
    BY <2>2, <2>3 DEF Next, Input, SessionStart, SessionNew, SessionKept, SessionShutdown,
       PostTask, Cancel, InputSwallowed, InputMismatch, BeforeAgentStart, AgentStart,
       LowLevelRun, MessageEnd, ToolFailed, AgentEnd, AgentSettled, Done, vars, piVars
<1>2. [][A]_vars <=> CancelledInputNeverBegins
  BY DEF CancelledInputNeverBegins
<1> QED
  BY <1>1, <1>2, Invariance, PTL DEF Spec

\* A closed task keeps its verdict (finishTask, agent_start, agent_settled).
THEOREM ClosedStays == Spec => ClosedIsFinal
<1> DEFINE A == task.status \in Closed /\ task'.id = task.id => task'.status = task.status
<1>1. IInv /\ [Next]_vars => [A]_vars
  <2> SUFFICES ASSUME IInv, [Next]_vars, task.status \in Closed, task'.id = task.id
               PROVE  task'.status = task.status
    OBVIOUS
  <2> USE DEF IInv, TypeOK, StageInv, TaskRecords, Closed, piVars
  <2>1. ~PostTask
    <3> SUFFICES ASSUME PostTask PROVE task'.id = task.id + 1
      BY DEF Tasks, None
    <3>1. NewTask.id = task.id + 1
      BY DEF NewTask, NoTask
    <3>2. Finished(NewTask, "failed", TRUE).id = task.id + 1
      BY <3>1 DEF Finished, NewTask, NoTask
    <3> QED
      BY <3>1, <3>2 DEF PostTask, DispatchPendingIfReady, Hold, Send, SendFails
  <2>2. CASE Cancel
    BY <2>2 DEF Cancel
  <2>3. CASE Input
    BY <2>3 DEF Input, InputIgnored, InputSwallowed, InputMismatch, InputAccepted, Begin,
       MatchedInput, Finished, bridgeVars
  <2>4. CASE AgentStart
    BY <2>4 DEF AgentStart, Bind, BindingInvalid, Rebind, Unrelated, Finished
  <2>5. CASE ToolFailed \/ AgentEnd
    BY <2>5 DEF ToolFailed, AgentEnd
  <2>6. CASE \E failure \in BOOLEAN : MessageEnd(failure)
    BY <2>6 DEF MessageEnd
  <2>7. CASE AgentSettled
    <3>1. SettledTask.status = task.status
      BY DEF SettledTask, Verdict, Finished
    <3>2. ~Unsent(pending) \/ task.status = "queued"
      BY DEF Unsent
    <3>3. task' = SettledTask
      BY <2>7, <3>1, <3>2 DEF AgentSettled, DispatchPendingIfReady, Hold, Send, SendFails, Unsent
    <3> QED
      BY <3>1, <3>3
  <2> QED
    BY <2>1, <2>2, <2>3, <2>4, <2>5, <2>6, <2>7 DEF Next, SessionStart, SessionNew,
       SessionKept, SessionShutdown, BeforeAgentStart, Done, vars, bridgeVars
<1>2. [][A]_vars <=> ClosedIsFinal
  BY DEF ClosedIsFinal
<1> QED
  BY <1>1, <1>2, Invariance, PTL DEF Spec
=============================================================================
