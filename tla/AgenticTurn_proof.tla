------------------------- MODULE AgenticTurn_proof -------------------------
(***************************************************************************)
(* Proofs about AgenticTurn, for any number of requests, checkpoints,      *)
(* turns and attempts, however often the journal fails and the kernel is   *)
(* restarted.                                                              *)
(*                                                                         *)
(* The cleanups of a request are nested deep in each other, yet all that   *)
(* they can do to the rows of the journal is to close the one turn the     *)
(* request works for.  This is shown of each operation, and is kept when   *)
(* one follows another; what is left are the few steps of a handler that   *)
(* write something else.  So the turn keeps its promise, with any number   *)
(* of permits.                                                             *)
(*                                                                         *)
(* The second half is about one permit, the default, and a journal that    *)
(* has worked so far.  There each cleanup also leaves its turn settled:    *)
(* over, without a record, or waiting in a checkpoint.                     *)
(***************************************************************************)
EXTENDS AgenticTurn, FiniteSetTheorems, TLAPS

Row == Life({"none", "stage1_frozen", "stage2_active"} \cup Open \cup Ended)
Rec == Life({"gone"} \cup Open \cup Distilling \cup Ended)
StoreType == [row : [Turns -> Row], rec : [Turns -> Rec], cp : [Checkpoints -> Checkpoint]]
Unfinished == {"stage1_frozen", "stage2_active"}

\* What closing a turn may do to the status of its row.
Closing(s, e) ==
  \/ e = s
  \/ s \in Open /\ e \in Open
  \/ s \in Open /\ e = "stage1_failed"
  \/ s \in Unfinished /\ e = "memory_failed"

\* From the stores v to w no row but that of t has changed, and this one was
\* closed at most.
Closes(v, w, t) ==
  /\ w \in StoreType
  /\ \A c \in Checkpoints :
       v.cp[c].state # "unused" =>
         w.cp[c].state # "unused" /\ w.cp[c].turn = v.cp[c].turn
  /\ \A u \in Turns :
       /\ w.row[u].answer = v.row[u].answer
       /\ v.row[u].first = v.rec[u].first => w.row[u].first = w.rec[u].first
       /\ w.rec[u].status = "gone" <=> v.rec[u].status = "gone"
       /\ Closing(v.row[u].status, w.row[u].status)
       /\ u # t => w.row[u].status = v.row[u].status

-----------------------------------------------------------------------------
(* Operations on the stores.                                                *)

(***************************************************************************)
(* The parts of the stores.                                                *)
(***************************************************************************)
LEMMA StoreFields ==
  ASSUME NEW v \in StoreType
  PROVE  /\ v.row \in [Turns -> Row] /\ v.rec \in [Turns -> Rec]
         /\ v.cp \in [Checkpoints -> Checkpoint]
BY DEF StoreType

(***************************************************************************)
(* The fields of a row and of a record.                                    *)
(***************************************************************************)
LEMMA LifeFields ==
  /\ \A e \in Row : /\ e.status \in {"none"} \cup Unfinished \cup Open \cup Ended
                    /\ e.answer \in Answers \cup {NoAnswer} /\ e.first \in 1..MaxAttempt
                    /\ e.second \in BOOLEAN
  /\ \A e \in Rec : /\ e.status \in {"gone"} \cup Open \cup Distilling \cup Ended
                    /\ e.answer \in Answers \cup {NoAnswer} /\ e.first \in 1..MaxAttempt
                    /\ e.second \in BOOLEAN
BY DEF Row, Rec, Life, Unfinished

(***************************************************************************)
(* The fields of a checkpoint.                                             *)
(***************************************************************************)
LEMMA CheckpointFields ==
  ASSUME NEW e \in Checkpoint
  PROVE  /\ e.turn \in Turns \cup {NoTurn}
         /\ e.state \in {"unused", "live", "retired", "expired", "lost"}
         /\ e.inFlight \in BOOLEAN /\ e.accepted \in BOOLEAN
         /\ e.answer \in Answers \cup {NoAnswer}
BY DEF Checkpoint

(***************************************************************************)
(* Nothing at all is a closing.                                            *)
(***************************************************************************)
LEMMA ClosesSelf ==
  ASSUME NEW v \in StoreType, NEW t
  PROVE  Closes(v, v, t)
BY DEF Closes, Closing

(***************************************************************************)
(* Two closings after one another are one.                                 *)
(***************************************************************************)
LEMMA ClosesTwice ==
  ASSUME NEW v, NEW w, NEW x, NEW t, Closes(v, w, t), Closes(w, x, t)
  PROVE  Closes(v, x, t)
<1>1. ASSUME NEW u \in Turns PROVE Closing(v.row[u].status, x.row[u].status)
  <2>1. Closing(v.row[u].status, w.row[u].status) /\ Closing(w.row[u].status, x.row[u].status)
    BY DEF Closes
  <2> QED
    BY <2>1 DEF Closing, Open, Unfinished
<1> QED
  BY <1>1 DEF Closes

(***************************************************************************)
(* The stores with one checkpoint changed.                                 *)
(***************************************************************************)
LEMMA CpChanges ==
  ASSUME NEW v \in StoreType, NEW c \in Checkpoints, NEW e \in Checkpoint, NEW t,
         v.cp[c].state # "unused" => e.state # "unused" /\ e.turn = v.cp[c].turn
  PROVE  LET w == [v EXCEPT !.cp[c] = e]
         IN  Closes(v, w, t) /\ w.row = v.row /\ w.rec = v.rec /\ w.cp = [v.cp EXCEPT ![c] = e]
<1> DEFINE w == [v EXCEPT !.cp[c] = e]
<1>1. /\ v.row \in [Turns -> Row] /\ v.rec \in [Turns -> Rec]
      /\ v.cp \in [Checkpoints -> Checkpoint]
  BY StoreFields
<1>2. [v.cp EXCEPT ![c] = e] \in [Checkpoints -> Checkpoint]
  BY <1>1
<1>3. w = [row |-> v.row, rec |-> v.rec, cp |-> [v.cp EXCEPT ![c] = e]]
  BY DEF StoreType
<1>4. /\ w \in StoreType /\ w.row = v.row /\ w.rec = v.rec
      /\ w.cp = [v.cp EXCEPT ![c] = e]
  BY <1>1, <1>2, <1>3 DEF StoreType
<1> HIDE DEF w
<1>5. \A d \in Checkpoints :
        v.cp[d].state # "unused" =>
          w.cp[d].state # "unused" /\ w.cp[d].turn = v.cp[d].turn
  BY <1>1, <1>4
<1>6. Closes(v, w, t)
  BY <1>4, <1>5 DEF Closes, Closing
<1> QED
  BY <1>4, <1>6 DEF w

(***************************************************************************)
(* The stores with one record changed.                                     *)
(***************************************************************************)
LEMMA RecChanges ==
  ASSUME NEW v \in StoreType, NEW u \in Turns, NEW e \in Rec, NEW t,
         e.first = v.rec[u].first, e.status = "gone" <=> v.rec[u].status = "gone"
  PROVE  LET w == [v EXCEPT !.rec[u] = e]
         IN  Closes(v, w, t) /\ w.row = v.row /\ w.cp = v.cp /\ w.rec = [v.rec EXCEPT ![u] = e]
<1> DEFINE w == [v EXCEPT !.rec[u] = e]
<1>1. /\ v.row \in [Turns -> Row] /\ v.rec \in [Turns -> Rec]
      /\ v.cp \in [Checkpoints -> Checkpoint]
  BY StoreFields
<1>2. [v.rec EXCEPT ![u] = e] \in [Turns -> Rec]
  BY <1>1
<1>3. w = [row |-> v.row, rec |-> [v.rec EXCEPT ![u] = e], cp |-> v.cp]
  BY DEF StoreType
<1>4. /\ w \in StoreType /\ w.row = v.row /\ w.cp = v.cp
      /\ w.rec = [v.rec EXCEPT ![u] = e]
  BY <1>1, <1>2, <1>3 DEF StoreType
<1> HIDE DEF w
<1>5. \A s \in Turns :
        /\ w.rec[s].first = v.rec[s].first
        /\ w.rec[s].status = "gone" <=> v.rec[s].status = "gone"
  BY <1>1, <1>4
<1>6. Closes(v, w, t)
  BY <1>4, <1>5 DEF Closes, Closing
<1> QED
  BY <1>4, <1>6 DEF w

(***************************************************************************)
(* The stores with one row closed.                                         *)
(***************************************************************************)
LEMMA RowCloses ==
  ASSUME NEW v \in StoreType, NEW t \in Turns, NEW s, Closing(v.row[t].status, s)
  PROVE  LET w == [v EXCEPT !.row[t].status = s]
         IN  /\ Closes(v, w, t) /\ w.rec = v.rec /\ w.cp = v.cp /\ w.row[t].status = s
             /\ w.row = [v.row EXCEPT ![t] = [v.row[t] EXCEPT !.status = s]]
<1> DEFINE e == [v.row[t] EXCEPT !.status = s]
           w == [v EXCEPT !.row[t].status = s]
<1>1. /\ v.row \in [Turns -> Row] /\ v.rec \in [Turns -> Rec]
      /\ v.cp \in [Checkpoints -> Checkpoint] /\ v.row[t] \in Row
  BY StoreFields
<1>2. s \in {"none"} \cup Unfinished \cup Open \cup Ended
  BY <1>1, LifeFields DEF Closing, Ended
<1>3. /\ e \in Row /\ e.status = s /\ e.answer = v.row[t].answer /\ e.first = v.row[t].first
  BY <1>1, <1>2 DEF Row, Life, Unfinished
<1>4. w = [row |-> [v.row EXCEPT ![t] = e], rec |-> v.rec, cp |-> v.cp]
  BY DEF StoreType
<1> HIDE DEF e
<1>5. [v.row EXCEPT ![t] = e] \in [Turns -> Row]
  BY <1>1, <1>3
<1>6. /\ w \in StoreType /\ w.rec = v.rec /\ w.cp = v.cp
      /\ w.row = [v.row EXCEPT ![t] = e]
  BY <1>1, <1>4, <1>5 DEF StoreType
<1> HIDE DEF w
<1>7. /\ w.row[t] = e
      /\ \A u \in Turns : u # t => w.row[u] = v.row[u]
  BY <1>1, <1>6
<1>8. Closes(v, w, t)
  BY <1>3, <1>6, <1>7 DEF Closes, Closing
<1> QED
  BY <1>3, <1>6, <1>7, <1>8 DEF w, e

(***************************************************************************)
(* A checkpoint is given back (_rearm_pending_tool_resume).                *)
(***************************************************************************)
LEMMA RearmOf ==
  ASSUME NEW v \in StoreType, NEW c \in Checkpoints \cup {NoCheckpoint}, NEW t
  PROVE  Closes(v, Rearm(v, c), t) /\ Rearm(v, c).row = v.row /\ Rearm(v, c).rec = v.rec
<1>1. CASE c # NoCheckpoint /\ v.cp[c].state = "live"
  <2> DEFINE e == [v.cp[c] EXCEPT !.inFlight = FALSE]
  <2>1. c \in Checkpoints /\ v.cp[c] \in Checkpoint
    BY <1>1, StoreFields
  <2>2. e \in Checkpoint /\ e.turn = v.cp[c].turn /\ e.state = v.cp[c].state
    BY <2>1 DEF Checkpoint
  <2>3. Rearm(v, c) = [v EXCEPT !.cp[c] = e]
    BY <1>1 DEF Rearm
  <2> HIDE DEF e
  <2> QED
    BY <2>1, <2>2, <2>3, CpChanges
<1>2. CASE ~(c # NoCheckpoint /\ v.cp[c].state = "live")
  BY <1>2, ClosesSelf DEF Rearm
<1> QED
  BY <1>1, <1>2

(***************************************************************************)
(* A checkpoint is retired (_retire_pending_tool_resume).                  *)
(***************************************************************************)
LEMMA RetireOf ==
  ASSUME NEW v \in StoreType, NEW c \in Checkpoints \cup {NoCheckpoint}, NEW t
  PROVE  Closes(v, Retire(v, c), t) /\ Retire(v, c).row = v.row /\ Retire(v, c).rec = v.rec
<1>1. CASE c # NoCheckpoint
  <2> DEFINE s == IF v.cp[c].state = "live" THEN "retired" ELSE v.cp[c].state
             e == [v.cp[c] EXCEPT !.inFlight = FALSE, !.state = s]
  <2>1. c \in Checkpoints /\ v.cp[c] \in Checkpoint
    BY <1>1, StoreFields
  <2>2. s \in {"unused", "live", "retired", "expired", "lost"}
    BY <2>1, CheckpointFields
  <2>3. s = "unused" <=> v.cp[c].state = "unused"
    OBVIOUS
  <2>4. Retire(v, c) = [v EXCEPT !.cp[c] = e]
    BY ZenonT(60), <1>1, <2>1 DEF Retire, Checkpoint
  <2> HIDE DEF s
  <2>5. e \in Checkpoint /\ e.turn = v.cp[c].turn /\ e.state = s
    BY <2>1, <2>2 DEF Checkpoint
  <2> HIDE DEF e
  <2> QED
    BY <2>1, <2>3, <2>4, <2>5, CpChanges
<1>2. CASE c = NoCheckpoint
  BY <1>2, ClosesSelf DEF Retire
<1> QED
  BY <1>1, <1>2

(***************************************************************************)
(* A record is noted (_agentic_turn_status).                               *)
(***************************************************************************)
LEMMA NotedOf ==
  ASSUME NEW v \in StoreType, NEW t \in Turns, v.rec[t].status # "gone",
         NEW s \in Open \cup Distilling \cup Ended
  PROVE  /\ Closes(v, Noted(v, t, s), t) /\ Noted(v, t, s).row = v.row
         /\ Noted(v, t, s).cp = v.cp /\ Noted(v, t, s).rec[t].status = s
<1> DEFINE e == [v.rec[t] EXCEPT !.status = s]
<1>1. v.rec[t] \in Rec /\ v.rec \in [Turns -> Rec]
  BY StoreFields
<1>2. e \in Rec /\ e.first = v.rec[t].first /\ e.status = s
  BY <1>1 DEF Rec, Life
<1>3. s # "gone"
  BY DEF Open, Distilling, Ended
<1>4. Noted(v, t, s) = [v EXCEPT !.rec[t] = e]
  BY DEF Noted
<1> HIDE DEF e
<1>5. /\ Closes(v, Noted(v, t, s), t) /\ Noted(v, t, s).row = v.row
      /\ Noted(v, t, s).cp = v.cp /\ Noted(v, t, s).rec = [v.rec EXCEPT ![t] = e]
  BY <1>1, <1>2, <1>3, <1>4, RecChanges
<1> QED
  BY <1>1, <1>2, <1>5

(***************************************************************************)
(* fail() of the journal: what was answered has lost its memory only.      *)
(***************************************************************************)
LEMMA FailRowOf ==
  ASSUME NEW v \in StoreType, NEW t \in Turns, MayFail(v, t)
  PROVE  /\ Closes(v, FailRow(v, t), t) /\ FailRow(v, t).rec = v.rec
         /\ FailRow(v, t).cp = v.cp /\ FailRow(v, t).row[t].status \in Ended
<1> DEFINE s == IF v.row[t].status \in Open THEN "stage1_failed"
                ELSE IF v.row[t].status \in Ended THEN v.row[t].status ELSE "memory_failed"
<1>1. v.row[t].status \in Ended \cup Open \cup Unfinished
  BY DEF MayFail, Unfinished
<1>2. Closing(v.row[t].status, s) /\ s \in Ended
  BY <1>1 DEF Closing, Ended
<1>3. FailRow(v, t) = [v EXCEPT !.row[t].status = s]
  BY DEF FailRow
<1> HIDE DEF s
<1> QED
  BY <1>2, <1>3, RowCloses

(***************************************************************************)
(* fail() of the journal and what is noted of it.                          *)
(***************************************************************************)
LEMMA FailOf ==
  ASSUME NEW v \in StoreType, NEW t \in Turns, NEW up, v.rec[t].status # "gone",
         NEW s \in Open \cup Distilling \cup Ended
  PROVE  /\ Closes(v, Fail(v, t, s, up), t) /\ Fail(v, t, s, up).cp = v.cp
<1>1. CASE up /\ MayFail(v, t)
  <2>1. Fail(v, t, s, up) = Noted(FailRow(v, t), t, s)
    BY <1>1 DEF Fail
  <2> DEFINE w == FailRow(v, t)
  <2>2. Closes(v, w, t) /\ w.rec = v.rec /\ w.cp = v.cp
    BY <1>1, FailRowOf
  <2> HIDE DEF w
  <2>3. w \in StoreType /\ w.rec[t].status # "gone"
    BY <2>2 DEF Closes
  <2>4. Closes(w, Noted(w, t, s), t) /\ Noted(w, t, s).cp = w.cp
    BY <2>3, NotedOf
  <2>5. Closes(v, Noted(w, t, s), t)
    BY <2>2, <2>4, ClosesTwice
  <2> QED
    BY <2>1, <2>2, <2>4, <2>5 DEF w
<1>2. CASE ~(up /\ MayFail(v, t))
  BY <1>2, ClosesSelf DEF Fail
<1> QED
  BY <1>1, <1>2

(***************************************************************************)
(* A turn is suspended that is still open (awaiting_tool()).               *)
(***************************************************************************)
LEMMA AwaitOf ==
  ASSUME NEW v \in StoreType, NEW t \in Turns, NEW up, v.rec[t].status # "gone", Owned(v, t, up)
  PROVE  Closes(v, Await(v, t), t) /\ Await(v, t).cp = v.cp
<1> DEFINE w == [v EXCEPT !.row[t].status = "awaiting_tool"]
<1>1. Closes(v, w, t) /\ w.rec = v.rec /\ w.cp = v.cp
  <2> DEFINE s == "awaiting_tool"
  <2>1. Closing(v.row[t].status, s)
    BY DEF Owned, Closing, Open
  <2>2. w = [v EXCEPT !.row[t].status = s]
    OBVIOUS
  <2> HIDE DEF s, w
  <2> QED
    BY <2>1, <2>2, RowCloses
<1>2. Await(v, t) = Noted(w, t, "awaiting_tool")
  BY StoreFields DEF Await, Noted, StoreType
<1> HIDE DEF w
<1>3. w \in StoreType /\ w.rec[t].status # "gone"
  BY <1>1 DEF Closes
<1>4. Closes(w, Noted(w, t, "awaiting_tool"), t) /\ Noted(w, t, "awaiting_tool").cp = w.cp
  BY <1>3, NotedOf DEF Open
<1> QED
  BY <1>1, <1>2, <1>4, ClosesTwice

-----------------------------------------------------------------------------
(* The cleanups.                                                            *)

\* What request r works for, as the stores v have it, is turn t or nothing.
WorksFor(r, t, v) ==
  /\ active[r] \in {NoTurn, t}
  /\ own[r] \in Checkpoints \cup {NoCheckpoint}
  /\ own[r] # NoCheckpoint =>
       v.cp[own[r]].state # "unused" /\ v.cp[own[r]].turn \in {NoTurn, t}

(***************************************************************************)
(* Closing a turn does not change what requests work for.                  *)
(***************************************************************************)
LEMMA WorksOn ==
  ASSUME NEW r, NEW t, NEW v, NEW w, WorksFor(r, t, v), Closes(v, w, t)
  PROVE  WorksFor(r, t, w)
BY DEF WorksFor, Closes

(***************************************************************************)
(* A turn that has a record is one of the turns.                           *)
(***************************************************************************)
LEMMA KnownTurn ==
  ASSUME NEW v, NEW u \in Turns \cup {NoTurn}, NEW t \in Turns \cup {NoTurn}, u \in {NoTurn, t},
         Known(v, u)
  PROVE  u = t /\ t \in Turns /\ v.rec[t].status # "gone"
BY DEF Known

(***************************************************************************)
(* _agentic_mark_stage1_failure closes the turn of the request.            *)
(***************************************************************************)
LEMMA MarkOf ==
  ASSUME NEW v \in StoreType, NEW r, NEW t \in Turns \cup {NoTurn}, NEW up, WorksFor(r, t, v)
  PROVE  Closes(v, Mark(v, r, up), t)
<1>1. \/ Mark(v, r, up) = v
      \/ Known(v, active[r]) /\ Mark(v, r, up) = Fail(v, active[r], "stage1_failed", up)
  BY DEF Mark
<1>2. CASE Mark(v, r, up) = v
  BY <1>2, ClosesSelf
<1>3. CASE Known(v, active[r]) /\ Mark(v, r, up) = Fail(v, active[r], "stage1_failed", up)
  <2>1. active[r] = t /\ t \in Turns /\ v.rec[t].status # "gone"
    BY <1>3 DEF Known, WorksFor
  <2>2. "stage1_failed" \in Open \cup Distilling \cup Ended
    BY DEF Ended
  <2> QED
    BY <1>3, <2>1, <2>2, FailOf
<1> QED
  BY <1>1, <1>2, <1>3

(***************************************************************************)
(* So does _agentic_phase3g_close_scope.                                   *)
(***************************************************************************)
LEMMA CloseScopeOf ==
  ASSUME NEW v \in StoreType, NEW r, NEW t \in Turns \cup {NoTurn}, NEW up, WorksFor(r, t, v)
  PROVE  Closes(v, CloseScope(v, r, up), t)
<1> DEFINE c == own[r]
           u == v.cp[c].turn
           w == CloseScope(v, r, up)
<1>1. c \in Checkpoints \cup {NoCheckpoint}
  BY DEF WorksFor
<1>2. \/ w = v
      \/ w = Rearm(v, c)
      \/ w = Retire(v, c)
      \/ c # NoCheckpoint /\ Known(v, u) /\ Owned(v, u, up) /\ w = Rearm(Await(v, u), c)
  BY DEF CloseScope
<1> HIDE DEF w
<1>3. CASE w = v
  BY <1>3, ClosesSelf DEF w
<1>4. CASE w = Rearm(v, c)
  BY <1>1, <1>4, RearmOf DEF w
<1>5. CASE w = Retire(v, c)
  BY <1>1, <1>5, RetireOf DEF w
<1>6. CASE c # NoCheckpoint /\ Known(v, u) /\ Owned(v, u, up) /\ w = Rearm(Await(v, u), c)
  <2>1. u = t /\ t \in Turns /\ v.rec[t].status # "gone"
    BY <1>6 DEF Known, WorksFor
  <2> HIDE DEF u
  <2> DEFINE x == Await(v, t)
  <2>2. Closes(v, x, t)
    BY <1>6, <2>1, AwaitOf
  <2>3. w = Rearm(x, c)
    BY <1>6, <2>1
  <2> HIDE DEF x, c
  <2>4. x \in StoreType
    BY <2>2 DEF Closes
  <2>5. Closes(x, Rearm(x, c), t)
    BY <1>1, <2>4, RearmOf
  <2>6. Closes(v, w, t)
    BY <2>2, <2>3, <2>5, ClosesTwice
  <2> QED
    BY <2>6 DEF w
<1> QED
  BY <1>2, <1>3, <1>4, <1>5, <1>6

(***************************************************************************)
(* So does _agentic_forensic_close_request.                                *)
(***************************************************************************)
LEMMA CloseRequestOf ==
  ASSUME NEW v \in StoreType, NEW r, NEW t \in Turns \cup {NoTurn}, NEW up, WorksFor(r, t, v)
  PROVE  Closes(v, CloseRequest(v, r, up), t)
<1> DEFINE w == CloseRequest(v, r, up)
<1>1. \/ w = v
      \/ Known(v, active[r])
         /\ \E s \in {"stage1_failed", "memory_failed"} : w = Fail(v, active[r], s, up)
  BY DEF CloseRequest
<1> HIDE DEF w
<1>2. CASE w = v
  BY <1>2, ClosesSelf DEF w
<1>3. CASE /\ Known(v, active[r])
           /\ \E s \in {"stage1_failed", "memory_failed"} : w = Fail(v, active[r], s, up)
  <2>1. active[r] = t /\ t \in Turns /\ v.rec[t].status # "gone"
    BY <1>3 DEF Known, WorksFor
  <2>2. PICK s \in Open \cup Distilling \cup Ended : w = Fail(v, t, s, up)
    BY <1>3, <2>1 DEF Ended
  <2> QED
    BY <2>1, <2>2, FailOf DEF w
<1> QED
  BY <1>1, <1>2, <1>3

(***************************************************************************)
(* And the two together, at the end of run() and of stream().              *)
(***************************************************************************)
LEMMA CloseOf ==
  ASSUME NEW v \in StoreType, NEW r, NEW t \in Turns \cup {NoTurn}, NEW up, WorksFor(r, t, v)
  PROVE  Closes(v, Close(v, r, up), t) /\ Closes(v, Left(v, r, up), t)
<1> DEFINE w == CloseScope(v, r, up)
           x == CloseRequest(w, r, up)
<1>1. Closes(v, w, t)
  BY CloseScopeOf
<1>2. Close(v, r, up) = x
  BY DEF Close
<1> HIDE DEF w
<1>3. w \in StoreType /\ WorksFor(r, t, w)
  BY <1>1, WorksOn DEF Closes
<1>4. Closes(w, x, t)
  BY <1>3, CloseRequestOf
<1> HIDE DEF x
<1>5. Closes(v, x, t)
  BY <1>1, <1>4, ClosesTwice
<1>6. x \in StoreType /\ own[r] \in Checkpoints \cup {NoCheckpoint}
  BY <1>5 DEF Closes, WorksFor
<1>7. Closes(x, Rearm(x, own[r]), t)
  BY <1>6, RearmOf
<1>8. Closes(v, Rearm(x, own[r]), t)
  BY <1>5, <1>7, ClosesTwice
<1> QED
  BY <1>2, <1>5, <1>8 DEF Left

-----------------------------------------------------------------------------
(* How steps end.                                                           *)

\* The step leaves the stores as v, but for the closing of turn t, and the
\* request at one of places.
Leaves(r, t, v, places) ==
  /\ \E w \in StoreType : Closes(v, w, t) /\ Become(w)
  /\ \E p \in places : place' = [place EXCEPT ![r] = p]

(***************************************************************************)
(* After an exception.                                                     *)
(***************************************************************************)
LEMMA RaiseOf ==
  ASSUME NEW r, NEW t \in Turns \cup {NoTurn}, NEW v \in StoreType, NEW up, WorksFor(r, t, v),
         Raise(r, v, up)
  PROVE  Leaves(r, t, v, {"failing", "error"})
<1> DEFINE u == IF transport[r] = "nonstream" THEN Rearm(v, own[r]) ELSE v
           w == Close(u, r, up)
           x == Mark(w, r, up)
           y == Rearm(x, own[r])
<1>0. own[r] \in Checkpoints \cup {NoCheckpoint}
  BY DEF WorksFor
<1>1. Closes(v, u, t)
  BY <1>0, RearmOf, ClosesSelf
<1>2. \/ Become(y) /\ Goto(r, "failing")
      \/ Become(x) /\ Goto(r, "error")
  BY DEF Raise
<1> HIDE DEF u
<1>3. u \in StoreType /\ WorksFor(r, t, u)
  BY <1>1, WorksOn DEF Closes
<1>4. Closes(u, w, t)
  BY <1>3, CloseOf
<1> HIDE DEF w
<1>5. w \in StoreType /\ WorksFor(r, t, w)
  BY <1>3, <1>4, WorksOn DEF Closes
<1>6. Closes(w, x, t)
  BY <1>5, MarkOf
<1> HIDE DEF x
<1>7. x \in StoreType
  BY <1>6 DEF Closes
<1>8. Closes(x, y, t)
  BY <1>0, <1>7, RearmOf
<1> HIDE DEF y
<1>9. Closes(v, x, t)
  BY <1>1, <1>4, <1>6, ClosesTwice
<1>10. Closes(v, y, t)
  BY <1>8, <1>9, ClosesTwice
<1>11. y \in StoreType
  BY <1>10 DEF Closes
<1> QED
  BY <1>2, <1>7, <1>9, <1>10, <1>11 DEF Leaves, Goto

(***************************************************************************)
(* After a result.                                                         *)
(***************************************************************************)
LEMMA SendOf ==
  ASSUME NEW r, NEW t \in Turns \cup {NoTurn}, NEW v \in StoreType, NEW up, NEW p,
         WorksFor(r, t, v), Send(r, v, up, p)
  PROVE  Leaves(r, t, v, {p, "answered"} \cup (IF p = "committed" THEN {"responding"} ELSE {}))
<1>1. CASE transport[r] = "stream"
  <2>1. Become(v) /\ Goto(r, p)
    BY <1>1 DEF Send
  <2> QED
    BY <2>1, ClosesSelf DEF Leaves, Goto
<1>2. CASE transport[r] # "stream"
  <2> DEFINE w == Left(v, r, up)
  <2>1. Closes(v, w, t)
    BY CloseOf
  <2>2. Become(w) /\ Goto(r, IF p = "committed" THEN "responding" ELSE "answered")
    BY <1>2 DEF Send
  <2> HIDE DEF w
  <2>3. w \in StoreType
    BY <2>1 DEF Closes
  <2> QED
    BY <2>1, <2>2, <2>3 DEF Leaves, Goto
<1> QED
  BY <1>1, <1>2

(***************************************************************************)
(* What follows a closing.                                                 *)
(***************************************************************************)
LEMMA LeavesAfter ==
  ASSUME NEW r, NEW t, NEW v, NEW w, NEW places, Closes(v, w, t), Leaves(r, t, w, places)
  PROVE  Leaves(r, t, v, places)
BY ClosesTwice DEF Leaves

(***************************************************************************)
(* When Stage 2 is given up.                                               *)
(***************************************************************************)
LEMMA DegradeOf ==
  ASSUME NEW r, NEW t \in Turns \cup {NoTurn}, NEW v \in StoreType, NEW up, WorksFor(r, t, v),
         Degrade(r, v, up)
  PROVE  Leaves(r, t, v, {"failing", "error", "sending", "answered"})
<1>0. own[r] \in Checkpoints \cup {NoCheckpoint}
  BY DEF WorksFor
<1>1. ASSUME NEW w, Closes(v, w, t), Send(r, Retire(w, own[r]), up, "sending")
      PROVE  Leaves(r, t, v, {"failing", "error", "sending", "answered"})
  <2> DEFINE x == Retire(w, own[r])
  <2>1. w \in StoreType
    BY <1>1 DEF Closes
  <2>2. Closes(w, x, t)
    BY <1>0, <2>1, RetireOf
  <2>3. Send(r, x, up, "sending")
    BY <1>1
  <2> HIDE DEF x
  <2>4. Closes(v, x, t)
    BY <1>1, <2>2, ClosesTwice
  <2>5. x \in StoreType /\ WorksFor(r, t, x)
    BY <2>4, WorksOn DEF Closes
  <2>6. Leaves(r, t, x, {"sending", "answered"} \cup (IF "sending" = "committed" THEN {"responding"} ELSE {}))
    BY <2>3, <2>5, SendOf
  <2>7. Leaves(r, t, v, {"sending", "answered"} \cup (IF "sending" = "committed" THEN {"responding"} ELSE {}))
    BY <2>4, <2>6, LeavesAfter
  <2> QED
    BY <2>7 DEF Leaves
<1>2. CASE ~Known(v, active[r])
  <2>1. Send(r, Retire(v, own[r]), up, "sending")
    BY <1>2 DEF Degrade
  <2> QED
    BY <1>1, <2>1, ClosesSelf
<1>3. CASE Known(v, active[r]) /\ ~(up /\ MayFail(v, active[r]))
  <2>1. Raise(r, v, up)
    BY <1>3 DEF Degrade
  <2>2. Leaves(r, t, v, {"failing", "error"})
    BY <2>1, RaiseOf
  <2> QED
    BY <2>2 DEF Leaves
<1>4. CASE Known(v, active[r]) /\ up /\ MayFail(v, active[r])
  <2>1. active[r] = t /\ t \in Turns /\ v.rec[t].status # "gone"
    BY <1>4 DEF Known, WorksFor
  <2> DEFINE w == FailRow(v, t)
             n == Noted(w, t, "memory_failed")
  <2>2. Send(r, Retire(w, own[r]), up, "sending") \/ Send(r, Retire(n, own[r]), up, "sending")
    BY <1>4, <2>1 DEF Degrade
  <2>3. Closes(v, w, t) /\ w.rec = v.rec
    BY <1>4, <2>1, FailRowOf
  <2> HIDE DEF w
  <2>4. Closes(w, n, t)
    <3>1. w \in StoreType /\ w.rec[t].status # "gone"
      BY <2>1, <2>3 DEF Closes
    <3>2. "memory_failed" \in Open \cup Distilling \cup Ended
      BY DEF Ended
    <3> QED
      BY <2>1, <3>1, <3>2, NotedOf
  <2>5. Closes(v, n, t)
    BY <2>3, <2>4, ClosesTwice
  <2> HIDE DEF n
  <2> QED
    BY <1>1, <2>2, <2>3, <2>5
<1> QED
  BY <1>2, <1>3, <1>4

-----------------------------------------------------------------------------
(* The abstract specification.                                              *)

(***************************************************************************)
(* What the status of a row means for the turn.                            *)
(***************************************************************************)
LEMMA OutcomeCases ==
  /\ \A s \in Open : OutcomeOf(s) = "open"
  /\ \A s \in Unfinished : OutcomeOf(s) = "frozen"
  /\ OutcomeOf("memory_failed") = "unremembered" /\ OutcomeOf("stage1_failed") = "failed"
  /\ OutcomeOf("none") = "none" /\ OutcomeOf("complete") = "complete"
<1>1. ASSUME NEW s \in Open PROVE OutcomeOf(s) = "open"
  <2>1. CASE s = "stage1_active"
    BY <2>1, Zenon DEF OutcomeOf, Open
  <2>2. CASE s = "awaiting_tool"
    BY <2>2, Zenon DEF OutcomeOf, Open
  <2> QED
    BY <1>1, <2>1, <2>2 DEF Open
<1>2. ASSUME NEW s \in Unfinished PROVE OutcomeOf(s) = "frozen"
  <2>1. CASE s = "stage1_frozen"
    BY <2>1, Zenon DEF OutcomeOf, Open
  <2>2. CASE s = "stage2_active"
    BY <2>2, Zenon DEF OutcomeOf, Open
  <2> QED
    BY <1>2, <2>1, <2>2 DEF Unfinished
<1>3. OutcomeOf("memory_failed") = "unremembered"
  BY Zenon DEF OutcomeOf, Open
<1>4. OutcomeOf("stage1_failed") = "failed"
  BY Zenon DEF OutcomeOf, Open
<1>5. OutcomeOf("none") = "none"
  BY Zenon DEF OutcomeOf, Open
<1>6. OutcomeOf("complete") = "complete"
  BY Zenon DEF OutcomeOf, Open
<1> QED
  BY <1>1, <1>2, <1>3, <1>4, <1>5, <1>6

\* The two other variables of the abstract specification.
Outcomes(rw) == [t \in Turns |-> OutcomeOf(rw[t].status)]
AnswersOf(rw) == [t \in Turns |-> rw[t].answer]

(***************************************************************************)
(* A step in which no turn gets an answer.                                 *)
(***************************************************************************)
LEMMA AnswersStay ==
  ASSUME NEW rw, NEW sw, \A u \in Turns : sw[u].answer = rw[u].answer
  PROVE  AnswersOf(sw) = AnswersOf(rw)
BY DEF AnswersOf

\* A step of the abstract specification, or none.
Promised == [Outcome!Next]_(Outcome!vars)

(***************************************************************************)
(* A step that changes the outcome of one turn the way it may change.      *)
(***************************************************************************)
LEMMA MovesPromised ==
  ASSUME NEW t \in Turns, released' = released,
         \A u \in Turns : row'[u].answer = row[u].answer,
         \A u \in Turns : u # t => row'[u].status = row[u].status,
         NEW from, NEW to, OutcomeOf(row[t].status) = from, OutcomeOf(row'[t].status) = to,
         \/ from = to
         \/ from = "none" /\ to = "open"
         \/ from = "open" /\ to = "failed"
         \/ from = "frozen" /\ to \in {"unremembered", "complete"}
         \/ from = "unremembered" /\ to = "frozen"
  PROVE  Promised
<1>1. AnswersOf(row') = AnswersOf(row)
  BY AnswersStay
<1>2. Outcomes(row') = [Outcomes(row) EXCEPT ![t] = to]
  BY DEF Outcomes
<1>3. Outcomes(row)[t] = from
  BY DEF Outcomes
<1>4. CASE from = to
  <2>1. Outcomes(row') = Outcomes(row)
    BY <1>2, <1>3, <1>4 DEF Outcomes
  <2>2. Outcome!vars' = Outcome!vars
    BY <1>1, <2>1 DEF Outcome!vars, Outcomes, AnswersOf
  <2> QED
    BY <2>2 DEF Promised
<1>5. CASE from # to
  <2>1. \/ Outcome!Open(t) \/ Outcome!Abandon(t) \/ Outcome!LoseMemory(t)
        \/ Outcome!RetryMemory(t) \/ Outcome!Complete(t)
    BY <1>1, <1>2, <1>3, <1>5
       DEF Outcome!Open, Outcome!Abandon, Outcome!LoseMemory, Outcome!RetryMemory,
           Outcome!Complete, Outcome!Move, Outcomes, AnswersOf
  <2> QED
    BY <2>1 DEF Promised, Outcome!Next
<1> QED
  BY <1>4, <1>5

(***************************************************************************)
(* A step that freezes the answer of an open turn.                         *)
(***************************************************************************)
LEMMA FreezePromised ==
  ASSUME NEW t \in Turns, released' = released, NEW a \in Answers, row'[t].answer = a,
         \A s \in Turns :
           s # t => row'[s].status = row[s].status /\ row'[s].answer = row[s].answer,
         OutcomeOf(row[t].status) = "open", OutcomeOf(row'[t].status) = "frozen"
  PROVE  Promised
<1>1. Outcomes(row)[t] = "open"
  BY DEF Outcomes
<1>2. Outcomes(row') = [Outcomes(row) EXCEPT ![t] = "frozen"]
  BY DEF Outcomes
<1>3. AnswersOf(row') = [AnswersOf(row) EXCEPT ![t] = a]
  BY DEF AnswersOf
<1>4. Outcome!Freeze(t)
  BY <1>1, <1>2, <1>3 DEF Outcome!Freeze, Outcome!Move, Outcomes, AnswersOf
<1> QED
  BY <1>4 DEF Promised, Outcome!Next

(***************************************************************************)
(* A step that leaves all rows as they were.                               *)
(***************************************************************************)
LEMMA StaysPromised ==
  ASSUME released' = released,
         \A u \in Turns : row'[u].answer = row[u].answer /\ row'[u].status = row[u].status
  PROVE  Promised
<1>1. Outcomes(row') = Outcomes(row) /\ AnswersOf(row') = AnswersOf(row)
  BY DEF Outcomes, AnswersOf
<1>2. Outcome!vars' = Outcome!vars
  BY <1>1 DEF Outcome!vars, Outcomes, AnswersOf
<1> QED
  BY <1>2 DEF Promised

(***************************************************************************)
(* What closing means for the outcome of a turn.                           *)
(***************************************************************************)
LEMMA ClosingOutcome ==
  ASSUME NEW s, NEW e, Closing(s, e)
  PROVE  \/ OutcomeOf(s) = OutcomeOf(e)
         \/ OutcomeOf(s) = "open" /\ OutcomeOf(e) = "failed"
         \/ OutcomeOf(s) = "frozen" /\ OutcomeOf(e) = "unremembered"
BY OutcomeCases DEF Closing

(***************************************************************************)
(* A turn that is closed has failed, has lost its memory, or is as before. *)
(***************************************************************************)
LEMMA ClosesPromised ==
  ASSUME NEW t \in Turns \cup {NoTurn}, NEW w, Closes(Stores, w, t), Become(w),
         released' = released
  PROVE  Promised
<1>1. \A u \in Turns :
        /\ row'[u].answer = row[u].answer
        /\ Closing(row[u].status, row'[u].status)
        /\ u # t => row'[u].status = row[u].status
  BY DEF Closes, Become, Stores
<1>2. CASE t \notin Turns
  BY <1>1, <1>2, StaysPromised
<1>3. CASE t \in Turns
  <2>1. Closing(row[t].status, row'[t].status)
    BY <1>1, <1>3
  <2> QED
    BY <1>1, <1>3, <2>1, ClosingOutcome, MovesPromised
<1> QED
  BY <1>2, <1>3

-----------------------------------------------------------------------------
(* The inductive invariant.                                                 *)

\* A turn that was not minted has no row, and row and record count the same
\* attempts.
RowInv ==
  \A t \in Turns :
    /\ t > minted => row[t].status = "none" /\ row[t].answer = NoAnswer
    /\ rec[t].status # "gone" => row[t].first = rec[t].first

\* A request at p works for turn a, or for that of the checkpoint o; what it
\* releases with a memory, h, is the answer of a turn that is complete.
Engaged(p, a, o, h, rw, ck) ==
  /\ o # NoCheckpoint => ck[o].state # "unused" /\ a \in {NoTurn, ck[o].turn}
  /\ p = "idle" => o = NoCheckpoint /\ a = NoTurn
  /\ p = "claimed" => o # NoCheckpoint /\ a = NoTurn
  /\ p \in {"frozen", "stage2", "committed", "responding"} => h # NoAnswer
  /\ p \in {"committed", "responding"} =>
       a # NoTurn /\ rw[a].status = "complete" /\ rw[a].answer = h

RequestInv ==
  \A r \in Requests : Engaged(place[r], active[r], own[r], held[r], row, cp)

Inv == TypeOK /\ RowInv /\ RequestInv

\* Checkpoints stay with their turn, and what is complete stays so.
Onward ==
  /\ \A c \in Checkpoints :
       cp[c].state # "unused" => cp'[c].state # "unused" /\ cp'[c].turn = cp[c].turn
  /\ \A u \in Turns :
       row[u].status = "complete" =>
         row'[u].status = "complete" /\ row'[u].answer = row[u].answer

\* What a step of request r does.
Stepped(r) ==
  /\ \E w \in StoreType : Become(w)
  /\ Onward /\ RowInv' /\ Promised
  /\ \E p \in Places, a \in Turns \cup {NoTurn},
        o \in Checkpoints \cup {NoCheckpoint}, h \in Answers \cup {NoAnswer} :
       /\ place' = [place EXCEPT ![r] = p] /\ active' = [active EXCEPT ![r] = a]
       /\ own' = [own EXCEPT ![r] = o] /\ held' = [held EXCEPT ![r] = h]
       /\ Engaged(p, a, o, h, row', cp')
  /\ minted' \in 0..MaxTurns /\ transport' = transport
  /\ released' \in [Turns -> SUBSET Answers]
  /\ outages' \in 0..MaxOutages /\ crashes' \in 0..MaxCrashes

(***************************************************************************)
(* The stores as they are.                                                 *)
(***************************************************************************)
LEMMA StoresTyped ==
  ASSUME TypeOK
  PROVE  Stores \in StoreType /\ Stores.row = row /\ Stores.rec = rec /\ Stores.cp = cp
BY DEF TypeOK, Stores, StoreType, Row, Rec

(***************************************************************************)
(* What a closing leaves of the invariant.                                 *)
(***************************************************************************)
LEMMA ClosesOnward ==
  ASSUME Inv, NEW t, NEW w, Closes(Stores, w, t), Become(w), minted' = minted
  PROVE  Onward /\ RowInv' /\ w \in StoreType
<1>1. w \in StoreType /\ row' = w.row /\ rec' = w.rec /\ cp' = w.cp
  BY DEF Closes, Become
<1>2. Stores.row = row /\ Stores.rec = rec /\ Stores.cp = cp
  BY DEF Stores
<1>3. \A u \in Turns :
        /\ row'[u].answer = row[u].answer
        /\ row[u].first = rec[u].first => row'[u].first = rec'[u].first
        /\ rec'[u].status = "gone" <=> rec[u].status = "gone"
        /\ Closing(row[u].status, row'[u].status)
  BY <1>1, <1>2 DEF Closes
<1>4. Onward
  <2>1. \A u \in Turns : row[u].status = "complete" => row'[u].status = "complete"
    BY <1>3 DEF Closing, Open, Unfinished
  <2> QED
    BY <1>1, <1>2, <1>3, <2>1 DEF Onward, Closes
<1>5. RowInv'
  <2>1. \A u \in Turns : row[u].status = "none" => row'[u].status = "none"
    BY <1>3 DEF Closing, Open, Unfinished
  <2> QED
    BY <1>3, <2>1 DEF Inv, RowInv
<1> QED
  BY <1>1, <1>4, <1>5

(***************************************************************************)
(* A request stays engaged while others go on.                             *)
(***************************************************************************)
LEMMA StaysEngaged ==
  ASSUME NEW p, NEW a \in Turns \cup {NoTurn}, NEW o \in Checkpoints \cup {NoCheckpoint}, NEW h,
         Onward, Engaged(p, a, o, h, row, cp)
  PROVE  Engaged(p, a, o, h, row', cp')
<1>1. o # NoCheckpoint => cp'[o].state # "unused" /\ cp'[o].turn = cp[o].turn
  BY DEF Onward, Engaged
<1>2. a # NoTurn /\ row[a].status = "complete" =>
        row'[a].status = "complete" /\ row'[a].answer = row[a].answer
  BY DEF Onward
<1> QED
  BY <1>1, <1>2 DEF Engaged

(***************************************************************************)
(* A step of a request keeps the invariant.                                *)
(***************************************************************************)
LEMMA SteppedKeeps ==
  ASSUME Inv, NEW r \in Requests, Stepped(r)
  PROVE  Inv'
<1>1. PICK p \in Places, a \in Turns \cup {NoTurn},
           o \in Checkpoints \cup {NoCheckpoint}, h \in Answers \cup {NoAnswer} :
       /\ place' = [place EXCEPT ![r] = p] /\ active' = [active EXCEPT ![r] = a]
       /\ own' = [own EXCEPT ![r] = o] /\ held' = [held EXCEPT ![r] = h]
       /\ Engaged(p, a, o, h, row', cp')
  BY DEF Stepped
<1>2. /\ place \in [Requests -> Places] /\ active \in [Requests -> Turns \cup {NoTurn}]
      /\ own \in [Requests -> Checkpoints \cup {NoCheckpoint}]
      /\ held \in [Requests -> Answers \cup {NoAnswer}] /\ transport \in [Requests -> Transports]
  BY DEF Inv, TypeOK
<1>3. TypeOK'
  <2>1. PICK w \in StoreType : Become(w)
    BY DEF Stepped
  <2>2. row' \in [Turns -> Row] /\ rec' \in [Turns -> Rec] /\ cp' \in [Checkpoints -> Checkpoint]
    BY <2>1, StoreFields DEF Become
  <2>3. /\ place' \in [Requests -> Places] /\ active' \in [Requests -> Turns \cup {NoTurn}]
        /\ own' \in [Requests -> Checkpoints \cup {NoCheckpoint}]
        /\ held' \in [Requests -> Answers \cup {NoAnswer}]
    BY <1>1, <1>2
  <2>4. /\ minted' \in 0..MaxTurns /\ transport' = transport
        /\ released' \in [Turns -> SUBSET Answers]
        /\ outages' \in 0..MaxOutages /\ crashes' \in 0..MaxCrashes
    BY DEF Stepped
  <2> QED
    BY <1>2, <2>2, <2>3, <2>4 DEF TypeOK, Row, Rec
<1>4. ASSUME NEW s \in Requests
      PROVE  Engaged(place'[s], active'[s], own'[s], held'[s], row', cp')
  <2>1. CASE s = r
    BY <1>1, <1>2, <2>1
  <2>2. CASE s # r
    <3>1. place'[s] = place[s] /\ active'[s] = active[s] /\ own'[s] = own[s] /\ held'[s] = held[s]
      BY <1>1, <1>2, <2>2
    <3>2. Engaged(place[s], active[s], own[s], held[s], row, cp) /\ Onward
      BY DEF Inv, RequestInv, Stepped
    <3>3. Engaged(place[s], active[s], own[s], held[s], row', cp')
      BY <1>2, <3>2, StaysEngaged
    <3> QED
      BY <3>1, <3>3
  <2> QED
    BY <2>1, <2>2
<1>5. RowInv'
  BY DEF Stepped
<1> QED
  BY <1>3, <1>4, <1>5 DEF Inv, RequestInv

(***************************************************************************)
(* The turn of a request is one of the turns, or none yet.                 *)
(***************************************************************************)
LEMMA TurnOfRequest ==
  ASSUME Inv, NEW r \in Requests
  PROVE  /\ TurnOf(r) \in Turns \cup {NoTurn} /\ WorksFor(r, TurnOf(r), Stores)
         /\ Known(Stores, active[r]) =>
              active[r] = TurnOf(r) /\ active[r] \in Turns /\ rec[active[r]].status # "gone"
<1>1. active[r] \in Turns \cup {NoTurn} /\ own[r] \in Checkpoints \cup {NoCheckpoint}
  BY DEF Inv, TypeOK
<1>2. own[r] # NoCheckpoint => cp[own[r]] \in Checkpoint
  BY <1>1 DEF Inv, TypeOK
<1>3. own[r] # NoCheckpoint => cp[own[r]].state # "unused" /\ active[r] \in {NoTurn, cp[own[r]].turn}
  BY DEF Inv, RequestInv, Engaged
<1>4. TurnOf(r) \in Turns \cup {NoTurn}
  BY <1>1, <1>2, CheckpointFields DEF TurnOf
<1>5. Stores.cp = cp /\ Stores.rec = rec
  BY DEF Stores
<1>6. WorksFor(r, TurnOf(r), Stores)
  BY <1>1, <1>3, <1>5 DEF WorksFor, TurnOf
<1>7. Known(Stores, active[r]) =>
        active[r] = TurnOf(r) /\ active[r] \in Turns /\ rec[active[r]].status # "gone"
  BY <1>1, <1>3, <1>5 DEF Known, TurnOf
<1> QED
  BY <1>4, <1>6, <1>7

(***************************************************************************)
(* The journal is out of order a bounded number of times.                  *)
(***************************************************************************)
LEMMA JournalOf ==
  ASSUME Inv, NEW up, Journal(up)
  PROVE  outages' \in 0..MaxOutages
BY AgenticConstants DEF Inv, TypeOK, Journal

\* What a request at a place of these need not have done.
Over == {"stage1", "sending", "budget", "failing", "answered", "spent", "error", "left"}

\* All that a step which only cleans up leaves alone.
Still == UNCHANGED <<minted, transport, active, own, held, released, crashes>>

(***************************************************************************)
(* A step of a request that closes its turn at most.                       *)
(***************************************************************************)
LEMMA QuietStep ==
  ASSUME Inv, NEW r \in Requests, NEW t \in Turns \cup {NoTurn}, NEW w, Closes(Stores, w, t),
         Become(w), NEW p \in Places, NEW a \in Turns \cup {NoTurn},
         NEW o \in Checkpoints \cup {NoCheckpoint}, NEW h \in Answers \cup {NoAnswer},
         Engaged(p, a, o, h, row, cp),
         place' = [place EXCEPT ![r] = p], active' = [active EXCEPT ![r] = a],
         own' = [own EXCEPT ![r] = o], held' = [held EXCEPT ![r] = h],
         minted' = minted, transport' = transport, released' = released,
         outages' \in 0..MaxOutages, crashes' = crashes
  PROVE  Stepped(r)
<1>1. Onward /\ RowInv' /\ w \in StoreType
  BY ClosesOnward
<1>2. Promised
  BY ClosesPromised
<1>3. Engaged(p, a, o, h, row', cp')
  BY <1>1, StaysEngaged
<1>4. /\ minted' \in 0..MaxTurns /\ released' \in [Turns -> SUBSET Answers]
      /\ crashes' \in 0..MaxCrashes
  BY DEF Inv, TypeOK
<1> QED
  BY <1>1, <1>2, <1>3, <1>4 DEF Stepped

(***************************************************************************)
(* What a step does not change is as it was.                               *)
(***************************************************************************)
LEMMA AsTheyWere ==
  ASSUME Inv, NEW r \in Requests
  PROVE  /\ active[r] \in Turns \cup {NoTurn} /\ active = [active EXCEPT ![r] = active[r]]
         /\ own[r] \in Checkpoints \cup {NoCheckpoint} /\ own = [own EXCEPT ![r] = own[r]]
         /\ held[r] \in Answers \cup {NoAnswer} /\ held = [held EXCEPT ![r] = held[r]]
         /\ place[r] \in Places
         /\ Engaged(place[r], active[r], own[r], held[r], row, cp)
         /\ \A p \in Over : Engaged(p, active[r], own[r], held[r], row, cp)
<1>1. /\ active[r] \in Turns \cup {NoTurn} /\ active = [active EXCEPT ![r] = active[r]]
      /\ own[r] \in Checkpoints \cup {NoCheckpoint} /\ own = [own EXCEPT ![r] = own[r]]
      /\ held[r] \in Answers \cup {NoAnswer} /\ held = [held EXCEPT ![r] = held[r]]
      /\ place[r] \in Places
  BY DEF Inv, TypeOK
<1>2. Engaged(place[r], active[r], own[r], held[r], row, cp)
  BY DEF Inv, RequestInv
<1>3. \A p \in Over : Engaged(p, active[r], own[r], held[r], row, cp)
  BY <1>2 DEF Engaged, Over
<1> QED
  BY <1>1, <1>2, <1>3

(***************************************************************************)
(* A step that ends in a cleanup.                                          *)
(***************************************************************************)
LEMMA LeavesStep ==
  ASSUME Inv, NEW r \in Requests, NEW v, Closes(Stores, v, TurnOf(r)),
         NEW places, places \subseteq Over, Leaves(r, TurnOf(r), v, places),
         outages' \in 0..MaxOutages, Still
  PROVE  Stepped(r)
<1>1. Leaves(r, TurnOf(r), Stores, places)
  BY LeavesAfter
<1>2. PICK w \in StoreType : Closes(Stores, w, TurnOf(r)) /\ Become(w)
  BY <1>1 DEF Leaves
<1>3. PICK p \in Over : place' = [place EXCEPT ![r] = p]
  BY <1>1 DEF Leaves
<1>4. p \in Places /\ Engaged(p, active[r], own[r], held[r], row, cp)
  BY AsTheyWere DEF Over, Places, Holding, Ending
<1>5. /\ active' = [active EXCEPT ![r] = active[r]] /\ own' = [own EXCEPT ![r] = own[r]]
      /\ held' = [held EXCEPT ![r] = held[r]]
      /\ minted' = minted /\ transport' = transport /\ released' = released /\ crashes' = crashes
  BY AsTheyWere DEF Still
<1>6. /\ TurnOf(r) \in Turns \cup {NoTurn} /\ active[r] \in Turns \cup {NoTurn}
      /\ own[r] \in Checkpoints \cup {NoCheckpoint} /\ held[r] \in Answers \cup {NoAnswer}
  BY AsTheyWere, TurnOfRequest
<1> QED
  BY <1>2, <1>3, <1>4, <1>5, <1>6, QuietStep

(***************************************************************************)
(* A step that ends in an exception.                                       *)
(***************************************************************************)
LEMMA RaiseStep ==
  ASSUME Inv, NEW r \in Requests, NEW v, Closes(Stores, v, TurnOf(r)), NEW up,
         Raise(r, v, up), Journal(up), Still
  PROVE  Stepped(r)
<1>1. TurnOf(r) \in Turns \cup {NoTurn} /\ v \in StoreType /\ WorksFor(r, TurnOf(r), v)
  BY TurnOfRequest, WorksOn DEF Closes
<1>2. Leaves(r, TurnOf(r), v, {"failing", "error"})
  BY <1>1, RaiseOf
<1>3. outages' \in 0..MaxOutages /\ {"failing", "error"} \subseteq Over
  BY JournalOf DEF Over
<1> QED
  BY <1>2, <1>3, LeavesStep

(***************************************************************************)
(* A step that ends in a result without a memory.                          *)
(***************************************************************************)
LEMMA SendStep ==
  ASSUME Inv, NEW r \in Requests, NEW v, Closes(Stores, v, TurnOf(r)), NEW up,
         Send(r, v, up, "sending"), Journal(up), Still
  PROVE  Stepped(r)
<1>1. TurnOf(r) \in Turns \cup {NoTurn} /\ v \in StoreType /\ WorksFor(r, TurnOf(r), v)
  BY TurnOfRequest, WorksOn DEF Closes
<1> DEFINE p == "sending"
           places == {p, "answered"} \cup (IF p = "committed" THEN {"responding"} ELSE {})
<1>2. places \subseteq Over
  BY DEF Over
<1>3. Send(r, v, up, p)
  OBVIOUS
<1> HIDE DEF p
<1>4. Leaves(r, TurnOf(r), v, places)
  BY <1>1, <1>3, SendOf
<1>5. outages' \in 0..MaxOutages
  BY JournalOf
<1> HIDE DEF places
<1> QED
  BY <1>2, <1>4, <1>5, LeavesStep

(***************************************************************************)
(* A step in which Stage 2 is given up.                                    *)
(***************************************************************************)
LEMMA DegradeStep ==
  ASSUME Inv, NEW r \in Requests, NEW v, Closes(Stores, v, TurnOf(r)), NEW up,
         Degrade(r, v, up), Journal(up), Still
  PROVE  Stepped(r)
<1>1. TurnOf(r) \in Turns \cup {NoTurn} /\ v \in StoreType /\ WorksFor(r, TurnOf(r), v)
  BY TurnOfRequest, WorksOn DEF Closes
<1> DEFINE places == {"failing", "error", "sending", "answered"}
<1>2. Leaves(r, TurnOf(r), v, places)
  BY <1>1, DegradeOf
<1>3. outages' \in 0..MaxOutages /\ places \subseteq Over
  BY JournalOf DEF Over
<1> HIDE DEF places
<1> QED
  BY <1>2, <1>3, LeavesStep

(***************************************************************************)
(* A step that becomes w directly.                                         *)
(***************************************************************************)
LEMMA BecomeStep ==
  ASSUME Inv, NEW r \in Requests, NEW w, Closes(Stores, w, TurnOf(r)), NEW up,
         Become(w), NEW p \in Over, Goto(r, p), Journal(up), Still
  PROVE  Stepped(r)
<1>1. w \in StoreType
  BY DEF Closes
<1>2. Closes(w, w, TurnOf(r))
  BY <1>1, ClosesSelf
<1>3. Leaves(r, TurnOf(r), w, {p})
  BY <1>1, <1>2 DEF Leaves, Goto
<1>4. outages' \in 0..MaxOutages /\ {p} \subseteq Over
  BY JournalOf
<1> QED
  BY <1>3, <1>4, LeavesStep

-----------------------------------------------------------------------------
(* The steps of a request.                                                  *)

(***************************************************************************)
(* A checkpoint that is claimed stays the one it was.                      *)
(***************************************************************************)
LEMMA ClaimedOf ==
  ASSUME Inv, NEW c \in Checkpoints, cp[c].state = "live", NEW t
  PROVE  LET w == [Stores EXCEPT !.cp = Claimed(c)]
         IN  Closes(Stores, w, t) /\ w.row = row /\ w.rec = rec /\ w.cp = Claimed(c)
<1> DEFINE e == [cp[c] EXCEPT !.inFlight = TRUE, !.accepted = TRUE]
           w == [Stores EXCEPT !.cp = Claimed(c)]
<1>1. Stores \in StoreType /\ Stores.row = row /\ Stores.rec = rec /\ Stores.cp = cp
  BY StoresTyped DEF Inv
<1>2. cp[c] \in Checkpoint
  BY DEF Inv, TypeOK
<1>3. e \in Checkpoint /\ e.turn = cp[c].turn /\ e.state = cp[c].state
  BY <1>2 DEF Checkpoint
<1>4. Claimed(c) = [cp EXCEPT ![c] = e]
  BY <1>2 DEF Claimed, Checkpoint
<1>5. w = [Stores EXCEPT !.cp[c] = e]
  BY <1>4 DEF Stores
<1> HIDE DEF e, w
<1>6. Stores.cp[c].state # "unused" => e.state # "unused" /\ e.turn = Stores.cp[c].turn
  BY <1>1, <1>3
<1>7. Closes(Stores, w, t) /\ w.row = row /\ w.rec = rec /\ w.cp = Claimed(c)
  BY <1>1, <1>3, <1>4, <1>5, <1>6, CpChanges
<1> QED
  BY <1>7 DEF w

(***************************************************************************)
(* A claim.                                                                *)
(***************************************************************************)
LEMMA ClaimStep ==
  ASSUME Inv, NEW r \in Requests, Claim(r)
  PROVE  Stepped(r)
<1>1. PICK c \in Checkpoints :
        /\ Claimable(r, c) /\ ~Frozen(r, c)
        /\ cp' = Claimed(c)
        /\ own' = [own EXCEPT ![r] = c]
  BY DEF Claim
<1>2. /\ place' = [place EXCEPT ![r] = "claimed"]
      /\ UNCHANGED <<row, rec, minted, transport, active, held, released, outages, crashes>>
  BY DEF Claim, Goto
<1> DEFINE w == [Stores EXCEPT !.cp = Claimed(c)]
<1>3. place[r] = "idle" /\ cp[c].state = "live"
  BY <1>1 DEF Claimable
<1>4. Closes(Stores, w, NoTurn) /\ w.row = row /\ w.rec = rec /\ w.cp = Claimed(c)
  BY <1>3, ClaimedOf
<1> HIDE DEF w
<1>5. Become(w)
  BY <1>1, <1>2, <1>4 DEF Become
<1>6. active[r] = NoTurn /\ c # NoCheckpoint
  BY <1>3, AgenticConstants DEF Inv, RequestInv, Engaged
<1>7. "claimed" \in Places /\ Engaged("claimed", active[r], c, held[r], row, cp)
  BY <1>3, <1>6 DEF Places, Holding, Engaged
<1>8. /\ active' = [active EXCEPT ![r] = active[r]] /\ held' = [held EXCEPT ![r] = held[r]]
      /\ active[r] \in Turns \cup {NoTurn} /\ held[r] \in Answers \cup {NoAnswer}
  BY <1>2, AsTheyWere
<1>9. outages' \in 0..MaxOutages
  BY <1>2 DEF Inv, TypeOK
<1> QED
  BY <1>1, <1>2, <1>4, <1>5, <1>7, <1>8, <1>9, QuietStep

(***************************************************************************)
(* A claim of a turn whose answer is frozen, or its refusal.               *)
(***************************************************************************)
LEMMA ClaimFrozenStep ==
  ASSUME Inv, NEW r \in Requests, ClaimFrozen(r)
  PROVE  Stepped(r)
<1>1. PICK c \in Checkpoints :
       LET t == cp[c].turn
           w == [Stores EXCEPT !.cp = Claimed(c)]
       IN /\ Claimable(r, c) /\ Frozen(r, c)
          /\ own' = [own EXCEPT ![r] = c]
          /\ IF rec[t].status \in Distilling
             THEN /\ Become(w)
                  /\ active' = [active EXCEPT ![r] = t]
                  /\ held' = [held EXCEPT ![r] = cp[c].answer]
                  /\ Goto(r, "frozen")
             ELSE /\ Become(IF rec[t].status \in Ended THEN Retire(w, c) ELSE Rearm(w, c))
                  /\ Goto(r, "failing")
                  /\ UNCHANGED <<active, held>>
  BY DEF ClaimFrozen
<1> DEFINE t == cp[c].turn
           w == [Stores EXCEPT !.cp = Claimed(c)]
<1>2. UNCHANGED <<minted, transport, released, outages, crashes>>
  BY DEF ClaimFrozen
<1>3. place[r] = "idle" /\ cp[c].state = "live" /\ cp[c].answer # NoAnswer /\ c # NoCheckpoint
  BY <1>1, AgenticConstants DEF Claimable, Frozen
<1>4. t \in Turns \cup {NoTurn} /\ cp[c].answer \in Answers \cup {NoAnswer}
  BY CheckpointFields DEF Inv, TypeOK
<1>5. Closes(Stores, w, t)
  BY <1>3, ClaimedOf
<1>6. outages' \in 0..MaxOutages
  BY <1>2 DEF Inv, TypeOK
<1>7. CASE rec[t].status \in Distilling
  <2>1. /\ Become(w) /\ active' = [active EXCEPT ![r] = t] /\ own' = [own EXCEPT ![r] = c]
        /\ held' = [held EXCEPT ![r] = cp[c].answer] /\ place' = [place EXCEPT ![r] = "frozen"]
    BY <1>1, <1>7 DEF Goto
  <2>2. "frozen" \in Places /\ Engaged("frozen", t, c, cp[c].answer, row, cp)
    BY <1>3 DEF Places, Holding, Engaged
  <2> HIDE DEF w, t
  <2> QED
    BY <1>2, <1>4, <1>5, <1>6, <2>1, <2>2, QuietStep
<1>8. CASE rec[t].status \notin Distilling
  <2> DEFINE x == IF rec[t].status \in Ended THEN Retire(w, c) ELSE Rearm(w, c)
  <2>1. /\ Become(x) /\ own' = [own EXCEPT ![r] = c] /\ place' = [place EXCEPT ![r] = "failing"]
        /\ active' = active /\ held' = held
    BY <1>1, <1>8 DEF Goto
  <2>2. active[r] = NoTurn /\ "failing" \in Places
    BY <1>3 DEF Inv, RequestInv, Engaged, Places, Ending
  <2>3. Engaged("failing", active[r], c, held[r], row, cp)
    BY <1>3, <2>2 DEF Engaged
  <2> HIDE DEF w, t
  <2>4. w \in StoreType
    BY <1>5 DEF Closes
  <2>5. Closes(w, x, t)
    BY <2>4, RearmOf, RetireOf
  <2> HIDE DEF x
  <2>6. Closes(Stores, x, t)
    BY <1>5, <2>5, ClosesTwice
  <2>7. /\ active' = [active EXCEPT ![r] = active[r]] /\ held' = [held EXCEPT ![r] = held[r]]
        /\ active[r] \in Turns \cup {NoTurn} /\ held[r] \in Answers \cup {NoAnswer}
    BY <2>1, AsTheyWere
  <2> QED
    BY <1>2, <1>4, <1>6, <2>1, <2>2, <2>3, <2>6, <2>7, QuietStep
<1> QED
  BY <1>7, <1>8

(***************************************************************************)
(* A suspended turn goes on.                                               *)
(***************************************************************************)
LEMMA ReopenOf ==
  ASSUME Inv, NEW t \in Turns, NEW up, rec[t].status # "gone", Owned(Stores, t, up)
  PROVE  Closes(Stores, [Stores EXCEPT !.row[t].status = "stage1_active",
                                       !.rec[t].status = "stage1_active"], t)
<1> DEFINE s == "stage1_active"
           v == [Stores EXCEPT !.row[t].status = s]
           w == [Stores EXCEPT !.row[t].status = s, !.rec[t].status = s]
<1>1. Stores \in StoreType /\ Stores.row = row /\ Stores.rec = rec
  BY StoresTyped DEF Inv
<1>2. Closing(Stores.row[t].status, s)
  BY DEF Owned, Closing, Open
<1>3. s \in Open \cup Distilling \cup Ended
  BY DEF Open
<1>4. w = Noted(v, t, s)
  BY DEF Noted, Stores
<1> HIDE DEF s
<1>5. Closes(Stores, v, t) /\ v.rec = rec
  BY <1>1, <1>2, RowCloses
<1> HIDE DEF v, w
<1>6. v \in StoreType /\ v.rec[t].status # "gone"
  BY <1>5 DEF Closes
<1>7. Closes(v, w, t)
  BY <1>3, <1>4, <1>6, NotedOf
<1>8. Closes(Stores, w, t)
  BY <1>5, <1>7, ClosesTwice
<1> QED
  BY <1>8 DEF w, s

(***************************************************************************)
(* A claimed turn goes on, without the journal when its record is gone.    *)
(***************************************************************************)
LEMMA BeginResumedStep ==
  ASSUME Inv, NEW r \in Requests, BeginResumed(r)
  PROVE  Stepped(r)
<1> DEFINE t == cp[own[r]].turn
           x == [Stores EXCEPT !.row[t].status = "stage1_active", !.rec[t].status = "stage1_active"]
<1>1. place[r] = "claimed" /\ UNCHANGED <<minted, transport, own, held, released, crashes>>
  BY DEF BeginResumed
<1>2. PICK up \in BOOLEAN :
        /\ Journal(up)
        /\ \/ ~Known(Stores, t) /\ Become(Stores) /\ Goto(r, "stage1") /\ UNCHANGED active
           \/ /\ rec[t].status = "stage1_active"
              /\ Become(Stores) /\ Goto(r, "stage1")
              /\ active' = [active EXCEPT ![r] = t]
           \/ /\ Known(Stores, t) /\ Owned(Stores, t, up)
              /\ Become(x) /\ Goto(r, "stage1")
              /\ active' = [active EXCEPT ![r] = t]
           \/ Raise(r, Stores, up) /\ UNCHANGED active
  BY DEF BeginResumed
<1>3. own[r] # NoCheckpoint /\ active[r] = NoTurn /\ cp[own[r]].state # "unused"
  BY <1>1 DEF Inv, RequestInv, Engaged
<1>4. t = TurnOf(r) /\ t \in Turns \cup {NoTurn}
  BY <1>3, TurnOfRequest DEF TurnOf
<1>5. Stores \in StoreType /\ Stores.rec = rec
  BY StoresTyped DEF Inv
<1>6. Closes(Stores, Stores, t)
  BY <1>5, ClosesSelf
<1>7. Engaged("stage1", t, own[r], held[r], row, cp) /\ "stage1" \in Places /\ "stage1" \in Over
  BY <1>3 DEF Engaged, Places, Holding, Over
<1>8. /\ own' = [own EXCEPT ![r] = own[r]] /\ held' = [held EXCEPT ![r] = held[r]]
      /\ own[r] \in Checkpoints \cup {NoCheckpoint} /\ held[r] \in Answers \cup {NoAnswer}
  BY <1>1, AsTheyWere
<1>9. outages' \in 0..MaxOutages
  BY <1>2, JournalOf
<1> HIDE DEF t, x
<1>10. ASSUME NEW w, Closes(Stores, w, t), Become(w), Goto(r, "stage1"),
              active' = [active EXCEPT ![r] = t]
       PROVE  Stepped(r)
  <2>1. place' = [place EXCEPT ![r] = "stage1"]
    BY <1>10 DEF Goto
  <2> QED
    BY <1>1, <1>4, <1>7, <1>8, <1>9, <1>10, <2>1, QuietStep
<1>11. CASE ~Known(Stores, t) /\ Become(Stores) /\ Goto(r, "stage1") /\ UNCHANGED active
  <2>1. Still
    BY <1>1, <1>11 DEF Still
  <2> QED
    BY <1>2, <1>4, <1>6, <1>7, <1>11, <2>1, BecomeStep
<1>12. CASE Become(Stores) /\ Goto(r, "stage1") /\ active' = [active EXCEPT ![r] = t]
  BY <1>6, <1>10, <1>12
<1>13. CASE /\ Known(Stores, t) /\ Owned(Stores, t, up)
            /\ Become(x) /\ Goto(r, "stage1")
            /\ active' = [active EXCEPT ![r] = t]
  <2>1. t \in Turns /\ rec[t].status # "gone"
    BY <1>4, <1>5, <1>13 DEF Known
  <2>2. Closes(Stores, x, t)
    BY <1>13, <2>1, ReopenOf DEF x
  <2> QED
    BY <1>10, <1>13, <2>2
<1>14. CASE Raise(r, Stores, up) /\ UNCHANGED active
  <2>1. Still
    BY <1>1, <1>14 DEF Still
  <2> QED
    BY <1>2, <1>4, <1>6, <1>14, <2>1, RaiseStep
<1> QED
  BY <1>2, <1>11, <1>12, <1>13, <1>14

(***************************************************************************)
(* Stage 1 stops at tool calls.                                            *)
(***************************************************************************)
LEMMA AskToolsStep ==
  ASSUME Inv, NEW r \in Requests, AskTools(r)
  PROVE  Stepped(r)
<1> DEFINE t == TurnOf(r)
           w == IF Known(Stores, t) THEN Await(Stores, t) ELSE Stores
           Asked(c) == [w EXCEPT !.cp[c].turn = t, !.cp[c].state = "live"]
<1>1. PICK up \in BOOLEAN :
        /\ Step(r, "stage1", up)
        /\ \/ Raise(r, Stores, up)
           \/ /\ ~Known(Stores, t) \/ Owned(Stores, t, up)
              /\ \/ Raise(r, w, up)
                 \/ \E c \in Checkpoints :
                      /\ cp[c].state = "unused"
                      /\ Send(r, Retire(Asked(c), own[r]), up, "sending")
  BY DEF AskTools, TurnOf
<1>2. Still
  BY DEF AskTools, Rest, Still
<1>3. Journal(up)
  BY <1>1 DEF Step
<1>4. t \in Turns \cup {NoTurn} /\ own[r] \in Checkpoints \cup {NoCheckpoint}
  BY AsTheyWere, TurnOfRequest
<1>5. Stores \in StoreType /\ Stores.rec = rec /\ Stores.cp = cp
  BY StoresTyped DEF Inv
<1>6. CASE Raise(r, Stores, up)
  <2>1. Closes(Stores, Stores, t)
    BY <1>5, ClosesSelf
  <2> QED
    BY <1>2, <1>3, <1>6, <2>1, RaiseStep
<1>7. CASE ~Known(Stores, t) \/ Owned(Stores, t, up)
  <2>1. Closes(Stores, w, t) /\ w.cp = cp
    <3>1. CASE ~Known(Stores, t)
      BY <1>5, <3>1, ClosesSelf
    <3>2. CASE Known(Stores, t) /\ Owned(Stores, t, up)
      <4>1. t \in Turns /\ Stores.rec[t].status # "gone" /\ w = Await(Stores, t)
        BY <1>4, <3>2 DEF Known
      <4> QED
        BY <1>5, <3>2, <4>1, AwaitOf
    <3> QED
      BY <1>7, <3>1, <3>2
  <2>2. CASE Raise(r, w, up)
    BY <1>2, <1>3, <2>1, <2>2, RaiseStep
  <2>3. ASSUME NEW c \in Checkpoints, cp[c].state = "unused",
               Send(r, Retire(Asked(c), own[r]), up, "sending")
        PROVE  Stepped(r)
    <3> DEFINE e == [cp[c] EXCEPT !.turn = t, !.state = "live"]
               x == Asked(c)
    <3>1. cp[c] \in Checkpoint /\ w \in StoreType
      BY <2>1 DEF Inv, TypeOK, Closes
    <3>2. e \in Checkpoint
      BY <1>4, <3>1 DEF Checkpoint
    <3>3. x = [w EXCEPT !.cp[c] = e]
      BY <2>1, <3>1, StoreFields DEF StoreType, Checkpoint
    <3>4. Send(r, Retire(x, own[r]), up, "sending")
      BY <2>3
    <3> HIDE DEF e, w, t
    <3>5. Closes(w, x, t)
      BY <2>1, <2>3, <3>1, <3>2, <3>3, CpChanges
    <3> HIDE DEF x
    <3>6. x \in StoreType
      BY <3>5 DEF Closes
    <3> DEFINE y == Retire(x, own[r])
    <3>7. Closes(x, y, t)
      BY <1>4, <3>6, RetireOf
    <3> HIDE DEF y
    <3>8. Closes(Stores, x, t)
      BY <2>1, <3>5, ClosesTwice
    <3>9. Closes(Stores, y, t)
      BY <3>7, <3>8, ClosesTwice
    <3>10. Closes(Stores, y, TurnOf(r)) /\ Send(r, y, up, "sending")
      BY <3>4, <3>9 DEF t, y
    <3> QED
      BY <1>2, <1>3, <3>10, SendStep
  <2> HIDE DEF t, w, Asked
  <2>4. CASE Raise(r, Stores, up)
    BY <1>6, <2>4
  <2> QED
    BY <1>1, <2>2, <2>3, <2>4
<1> HIDE DEF w, t, Asked
<1> QED
  BY <1>1, <1>6, <1>7

(***************************************************************************)
(* Stage 1 fails.                                                          *)
(***************************************************************************)
LEMMA Stage1FailsStep ==
  ASSUME Inv, NEW r \in Requests, Stage1Fails(r)
  PROVE  Stepped(r)
<1>1. PICK up \in BOOLEAN : Step(r, "stage1", up) /\ Raise(r, Stores, up)
  BY DEF Stage1Fails
<1>2. Still /\ Journal(up)
  BY <1>1 DEF Stage1Fails, Rest, Still, Step
<1>3. Closes(Stores, Stores, TurnOf(r))
  BY StoresTyped, ClosesSelf DEF Inv
<1> QED
  BY <1>1, <1>2, <1>3, RaiseStep

(***************************************************************************)
(* Stage 1 ends without an answer.                                         *)
(***************************************************************************)
LEMMA NoAnswerGivenStep ==
  ASSUME Inv, NEW r \in Requests, NoAnswerGiven(r)
  PROVE  Stepped(r)
<1>1. PICK up \in BOOLEAN : Step(r, "stage1", up) /\ Raise(r, Mark(Stores, r, up), up)
  BY DEF NoAnswerGiven
<1>2. Still /\ Journal(up)
  BY <1>1 DEF NoAnswerGiven, Rest, Still, Step
<1>3. Closes(Stores, Mark(Stores, r, up), TurnOf(r))
  BY StoresTyped, TurnOfRequest, MarkOf DEF Inv
<1> QED
  BY <1>1, <1>2, <1>3, RaiseStep

(***************************************************************************)
(* run() cleans up after the generation budget.                            *)
(***************************************************************************)
LEMMA SpentOf ==
  ASSUME Inv, NEW r \in Requests, NEW up
  PROVE  Closes(Stores, Close(Rearm(Stores, own[r]), r, up), TurnOf(r))
<1> DEFINE t == TurnOf(r)
           x == Rearm(Stores, own[r])
           y == Close(x, r, up)
<1>1. /\ Stores \in StoreType /\ own[r] \in Checkpoints \cup {NoCheckpoint}
      /\ t \in Turns \cup {NoTurn} /\ WorksFor(r, t, Stores)
  BY StoresTyped, AsTheyWere, TurnOfRequest DEF Inv
<1> HIDE DEF t
<1>2. Closes(Stores, x, t)
  BY <1>1, RearmOf
<1> HIDE DEF x
<1>3. x \in StoreType /\ WorksFor(r, t, x)
  BY <1>1, <1>2, WorksOn DEF Closes
<1>4. Closes(x, y, t)
  BY <1>1, <1>3, CloseOf
<1> HIDE DEF y
<1>5. Closes(Stores, y, t)
  BY <1>2, <1>4, ClosesTwice
<1> QED
  BY <1>5 DEF t, x, y

(***************************************************************************)
(* The generation budget is spent in Stage 1.                              *)
(***************************************************************************)
LEMMA Stage1BudgetStep ==
  ASSUME Inv, NEW r \in Requests, Stage1Budget(r)
  PROVE  Stepped(r)
<1>1. PICK up \in BOOLEAN :
       /\ Step(r, "stage1", up)
       /\ \/ Become(Close(Rearm(Stores, own[r]), r, up)) /\ Goto(r, "spent")
          \/ Become(Mark(Stores, r, up)) /\ Goto(r, "budget")
          \/ Raise(r, Stores, up)
  BY DEF Stage1Budget
<1>2. Still /\ Journal(up)
  BY <1>1 DEF Stage1Budget, Rest, Still, Step
<1>3. CASE Become(Close(Rearm(Stores, own[r]), r, up)) /\ Goto(r, "spent")
  <2>1. Closes(Stores, Close(Rearm(Stores, own[r]), r, up), TurnOf(r)) /\ "spent" \in Over
    BY SpentOf DEF Over
  <2> QED
    BY <1>2, <1>3, <2>1, BecomeStep
<1>4. CASE Become(Mark(Stores, r, up)) /\ Goto(r, "budget")
  <2>1. Closes(Stores, Mark(Stores, r, up), TurnOf(r)) /\ "budget" \in Over
    BY StoresTyped, TurnOfRequest, MarkOf DEF Inv, Over
  <2> QED
    BY <1>2, <1>4, <2>1, BecomeStep
<1>5. CASE Raise(r, Stores, up)
  <2>1. Closes(Stores, Stores, TurnOf(r))
    BY StoresTyped, ClosesSelf DEF Inv
  <2> QED
    BY <1>2, <1>5, <2>1, RaiseStep
<1> QED
  BY <1>1, <1>3, <1>4, <1>5

(***************************************************************************)
(* A detected loop: the attempts of row and record are counted together.   *)
(***************************************************************************)
LEMMA LoopRetryStep ==
  ASSUME Inv, NEW r \in Requests, LoopRetry(r)
  PROVE  Stepped(r)
<1> DEFINE t == active[r]
           w == [row |-> [row EXCEPT ![t].first = @ + 1, ![t].second = FALSE],
                 rec |-> [rec EXCEPT ![t].first = @ + 1], cp |-> cp]
<1>1. PICK up \in BOOLEAN :
        /\ Step(r, "stage1", up)
        /\ \/ Become(w) /\ UNCHANGED place
           \/ Raise(r, Stores, up)
           \/ Raise(r, Fail(Stores, t, "stage1_failed", TRUE), up)
  BY DEF LoopRetry, Become
<1>2. Still /\ Journal(up)
  BY <1>1 DEF LoopRetry, Rest, Still, Step
<1>3. /\ t = TurnOf(r) /\ t \in Turns /\ rec[t].status # "gone" /\ rec[t].first < MaxAttempt
  BY TurnOfRequest DEF LoopRetry
<1>4. Stores \in StoreType /\ Stores.rec = rec /\ Stores.row = row /\ Stores.cp = cp
  BY StoresTyped DEF Inv
<1>5. CASE Become(w) /\ UNCHANGED place
  <2>1. row \in [Turns -> Row] /\ rec \in [Turns -> Rec] /\ cp \in [Checkpoints -> Checkpoint]
    BY <1>4, StoreFields
  <2>2. row[t] \in Row /\ rec[t] \in Rec /\ row[t].first = rec[t].first
    BY <1>3, <2>1 DEF Inv, RowInv
  <2> DEFINE n == row[t].first + 1
             e == [row[t] EXCEPT !.first = n, !.second = FALSE]
             g == [rec[t] EXCEPT !.first = n]
  <2>3. n \in 1..MaxAttempt
    <3>1. row[t].first \in 1..MaxAttempt /\ row[t].first < MaxAttempt
      BY <1>3, <2>2, LifeFields
    <3> QED
      BY <3>1, AgenticConstants
  <2> HIDE DEF n
  <2>4. /\ e \in Row /\ e.status = row[t].status /\ e.answer = row[t].answer /\ e.first = n
        /\ g \in Rec /\ g.status = rec[t].status /\ g.first = n
    BY <2>2, <2>3 DEF Row, Rec, Life
  <2>5. w = [row |-> [row EXCEPT ![t] = e], rec |-> [rec EXCEPT ![t] = g], cp |-> cp]
    BY <2>1, <2>2 DEF n, Row, Rec, Life
  <2> HIDE DEF e, g
  <2>6. [row EXCEPT ![t] = e] \in [Turns -> Row] /\ [rec EXCEPT ![t] = g] \in [Turns -> Rec]
    BY <2>1, <2>4
  <2>7. /\ w \in StoreType /\ w.row = [row EXCEPT ![t] = e] /\ w.rec = [rec EXCEPT ![t] = g]
        /\ w.cp = cp
    BY <2>1, <2>5, <2>6 DEF StoreType
  <2> HIDE DEF w
  <2>8. ASSUME NEW u \in Turns
        PROVE  /\ w.row[u].answer = row[u].answer /\ w.row[u].status = row[u].status
               /\ row[u].first = rec[u].first => w.row[u].first = w.rec[u].first
               /\ w.rec[u].status = rec[u].status
    <3>1. CASE u = t
      BY <1>3, <2>1, <2>4, <2>7, <3>1
    <3>2. CASE u # t
      <4>1. w.row[u] = row[u] /\ w.rec[u] = rec[u]
        BY <1>3, <2>1, <2>7, <3>2
      <4> QED
        BY <4>1
    <3> QED
      BY <3>1, <3>2
  <2>9. Closes(Stores, w, t)
    BY <1>4, <2>7, <2>8 DEF Closes, Closing
  <2>10. Goto(r, "stage1") /\ "stage1" \in Over
    <3>1. place[r] = "stage1" /\ place' = place /\ place \in [Requests -> Places]
      BY <1>1, <1>5 DEF Step, Inv, TypeOK
    <3> QED
      BY <3>1 DEF Goto, Over
  <2>11. Closes(Stores, w, TurnOf(r))
    BY <1>3, <2>9
  <2> QED
    BY <1>2, <1>5, <2>10, <2>11, BecomeStep
<1> HIDE DEF w
<1>6. CASE Raise(r, Stores, up)
  <2>1. Closes(Stores, Stores, TurnOf(r))
    BY <1>4, ClosesSelf
  <2> QED
    BY <1>2, <1>6, <2>1, RaiseStep
<1>7. CASE Raise(r, Fail(Stores, t, "stage1_failed", TRUE), up)
  <2>1. "stage1_failed" \in Open \cup Distilling \cup Ended
    BY DEF Ended
  <2>2. Closes(Stores, Fail(Stores, t, "stage1_failed", TRUE), t)
    BY <1>3, <1>4, <2>1, FailOf
  <2>3. Closes(Stores, Fail(Stores, t, "stage1_failed", TRUE), TurnOf(r))
    BY <1>3, <2>2
  <2> QED
    BY <1>2, <1>7, <2>3, RaiseStep
<1> QED
  BY <1>1, <1>5, <1>6, <1>7

(***************************************************************************)
(* A step that writes a row between two closings.                          *)
(***************************************************************************)
LEMMA WriteOnward ==
  ASSUME Inv, NEW t \in Turns, NEW u, Closes(Stores, u, t),
         u.row[t].status \notin {"none", "complete"},
         NEW e \in Row, e.first = u.row[t].first,
         NEW v, v = [u EXCEPT !.row[t] = e], NEW w, Closes(v, w, t), Become(w), minted' = minted
  PROVE  /\ Onward /\ RowInv' /\ w \in StoreType
         /\ v \in StoreType /\ v.rec = u.rec /\ v.cp = u.cp
         /\ \A s \in Turns :
              s # t => row'[s].status = row[s].status /\ row'[s].answer = row[s].answer
         /\ row'[t].answer = e.answer /\ Closing(e.status, row'[t].status)
<1>1. /\ Stores.row = row /\ Stores.rec = rec /\ Stores.cp = cp
      /\ u \in StoreType /\ w \in StoreType
      /\ row' = w.row /\ rec' = w.rec /\ cp' = w.cp
  BY DEF Stores, Closes, Become
<1>2. u.row \in [Turns -> Row] /\ u.rec \in [Turns -> Rec] /\ u.cp \in [Checkpoints -> Checkpoint]
  BY <1>1, StoreFields
<1>3. v = [row |-> [u.row EXCEPT ![t] = e], rec |-> u.rec, cp |-> u.cp]
  BY <1>1 DEF StoreType
<1>4. [u.row EXCEPT ![t] = e] \in [Turns -> Row]
  BY <1>2
<1>5. /\ v \in StoreType /\ v.rec = u.rec /\ v.cp = u.cp /\ v.row = [u.row EXCEPT ![t] = e]
  BY <1>2, <1>3, <1>4 DEF StoreType
<1>6. v.row[t] = e /\ \A s \in Turns : s # t => v.row[s] = u.row[s]
  BY <1>2, <1>5
<1>7. ASSUME NEW s \in Turns
      PROVE  /\ row[s].first = rec[s].first => row'[s].first = rec'[s].first
             /\ rec'[s].status = "gone" <=> rec[s].status = "gone"
  <2>1. /\ row[s].first = rec[s].first => u.row[s].first = u.rec[s].first
        /\ u.rec[s].status = "gone" <=> rec[s].status = "gone"
    BY <1>1 DEF Closes
  <2>2. /\ v.row[s].first = v.rec[s].first => row'[s].first = rec'[s].first
        /\ rec'[s].status = "gone" <=> v.rec[s].status = "gone"
    BY <1>1 DEF Closes
  <2>3. v.row[s].first = u.row[s].first
    BY <1>6
  <2> QED
    BY <1>5, <2>1, <2>2, <2>3
<1>8. ASSUME NEW s \in Turns, s # t
      PROVE  row'[s].status = row[s].status /\ row'[s].answer = row[s].answer
  <2>1. u.row[s].status = row[s].status /\ u.row[s].answer = row[s].answer
    BY <1>1, <1>8 DEF Closes
  <2>2. row'[s].status = v.row[s].status /\ row'[s].answer = v.row[s].answer
    BY <1>1, <1>8 DEF Closes
  <2> QED
    BY <1>6, <1>8, <2>1, <2>2
<1>9. row'[t].answer = e.answer /\ Closing(e.status, row'[t].status)
  BY <1>1, <1>6 DEF Closes
<1>10. row[t].status \notin {"none", "complete"}
  <2>1. Closing(row[t].status, u.row[t].status)
    BY <1>1 DEF Closes
  <2> QED
    BY <2>1 DEF Closing, Open, Unfinished
<1>11. Onward
  <2>1. ASSUME NEW c \in Checkpoints, cp[c].state # "unused"
        PROVE  cp'[c].state # "unused" /\ cp'[c].turn = cp[c].turn
    <3>1. u.cp[c].state # "unused" /\ u.cp[c].turn = cp[c].turn
      BY <1>1, <2>1 DEF Closes
    <3> QED
      BY <1>1, <1>5, <3>1 DEF Closes
  <2>2. ASSUME NEW s \in Turns, row[s].status = "complete"
        PROVE  row'[s].status = "complete" /\ row'[s].answer = row[s].answer
    BY <1>8, <1>10, <2>2
  <2> QED
    BY <2>1, <2>2 DEF Onward
<1>12. RowInv'
  <2>1. ASSUME NEW s \in Turns, s > minted
        PROVE  row'[s].status = "none" /\ row'[s].answer = NoAnswer
    <3>1. row[s].status = "none" /\ row[s].answer = NoAnswer
      BY <2>1 DEF Inv, RowInv
    <3>2. s # t
      BY <1>10, <3>1
    <3> QED
      BY <1>8, <3>1, <3>2
  <2>2. ASSUME NEW s \in Turns, rec'[s].status # "gone" PROVE row'[s].first = rec'[s].first
    BY <1>7, <2>2 DEF Inv, RowInv
  <2> QED
    BY <2>1, <2>2 DEF RowInv
<1> QED
  BY <1>1, <1>5, <1>8, <1>9, <1>11, <1>12

(***************************************************************************)
(* A step of a request in its turn that goes on to p with h.               *)
(***************************************************************************)
LEMMA GoesOn ==
  ASSUME Inv, NEW r \in Requests, Onward, RowInv', NEW w \in StoreType, Become(w), Promised,
         NEW p \in Places, NEW h \in Answers \cup {NoAnswer}, NEW up, Journal(up),
         Engaged(p, active[r], own[r], h, row', cp'),
         Goto(r, p), held' = [held EXCEPT ![r] = h],
         minted' = minted, transport' = transport, active' = active, own' = own,
         released' = released, crashes' = crashes
  PROVE  Stepped(r)
<1>1. /\ minted' \in 0..MaxTurns /\ released' \in [Turns -> SUBSET Answers]
      /\ crashes' \in 0..MaxCrashes /\ outages' \in 0..MaxOutages
  BY JournalOf DEF Inv, TypeOK
<1>2. /\ active' = [active EXCEPT ![r] = active[r]] /\ own' = [own EXCEPT ![r] = own[r]]
      /\ active[r] \in Turns \cup {NoTurn} /\ own[r] \in Checkpoints \cup {NoCheckpoint}
  BY AsTheyWere
<1>3. place' = [place EXCEPT ![r] = p]
  BY DEF Goto
<1> QED
  BY <1>1, <1>2, <1>3 DEF Stepped

(***************************************************************************)
(* The checkpoint of a resumed stream keeps the answer.                    *)
(***************************************************************************)
LEMMA KeepOf ==
  ASSUME NEW v \in StoreType, NEW r, NEW a \in Answers,
         own[r] \in Checkpoints \cup {NoCheckpoint}, NEW t
  PROVE  Closes(v, Keep(v, r, a), t) /\ Keep(v, r, a).row = v.row /\ Keep(v, r, a).rec = v.rec
<1>1. CASE own[r] # NoCheckpoint /\ transport[r] = "stream"
  <2> DEFINE c == own[r]
             e == [v.cp[c] EXCEPT !.answer = a]
  <2>1. c \in Checkpoints /\ v.cp[c] \in Checkpoint
    BY <1>1, StoreFields
  <2>2. e \in Checkpoint /\ e.turn = v.cp[c].turn /\ e.state = v.cp[c].state
    BY <2>1 DEF Checkpoint
  <2>3. Keep(v, r, a) = [v EXCEPT !.cp[c] = e]
    BY <1>1 DEF Keep
  <2> HIDE DEF e, c
  <2> QED
    BY <2>1, <2>2, <2>3, CpChanges
<1>2. CASE ~(own[r] # NoCheckpoint /\ transport[r] = "stream")
  BY <1>2, ClosesSelf DEF Keep
<1> QED
  BY <1>1, <1>2

(***************************************************************************)
(* The answer of Stage 1 is frozen, once.                                  *)
(***************************************************************************)
LEMMA FreezeStep ==
  ASSUME Inv, NEW r \in Requests, Freeze(r)
  PROVE  Stepped(r)
<1> DEFINE t == active[r]
<1>1. PICK up \in BOOLEAN, a \in Answers :
       /\ Step(r, "stage1", up)
       /\ IF Known(Stores, t) /\ ~Owned(Stores, t, up)
          THEN Raise(r, Stores, up) /\ UNCHANGED held
          ELSE /\ held' = [held EXCEPT ![r] = a]
               /\ Become(Keep(IF Known(Stores, t) THEN FreezeTurn(Stores, t, a) ELSE Stores,
                              r, a))
               /\ Goto(r, "frozen")
  BY DEF Freeze
<1>2. Rest /\ Journal(up) /\ place[r] = "stage1"
  BY <1>1 DEF Freeze, Step
<1>3. /\ minted' = minted /\ transport' = transport /\ active' = active /\ own' = own
      /\ released' = released /\ crashes' = crashes
  BY <1>2 DEF Rest
<1>4. Stores \in StoreType /\ Stores.rec = rec /\ Stores.row = row /\ Stores.cp = cp
  BY StoresTyped DEF Inv
<1>5. /\ own[r] \in Checkpoints \cup {NoCheckpoint} /\ active[r] \in Turns \cup {NoTurn}
      /\ "frozen" \in Places /\ a \in Answers \cup {NoAnswer} /\ a # NoAnswer
  BY AsTheyWere, AgenticConstants DEF Places, Holding
<1>6. Engaged("frozen", active[r], own[r], a, row, cp)
  BY <1>2, <1>5, AsTheyWere DEF Engaged
<1>7. CASE Known(Stores, t) /\ ~Owned(Stores, t, up)
  <2>1. Raise(r, Stores, up) /\ Still
    BY <1>1, <1>3, <1>7 DEF Still
  <2>2. Closes(Stores, Stores, TurnOf(r))
    BY <1>4, ClosesSelf
  <2> QED
    BY <1>2, <2>1, <2>2, RaiseStep
<1>8. CASE ~Known(Stores, t)
  <2> DEFINE w == Keep(Stores, r, a)
  <2>1. Become(w) /\ Goto(r, "frozen") /\ held' = [held EXCEPT ![r] = a]
    BY <1>1, <1>8
  <2>2. Closes(Stores, w, NoTurn)
    BY <1>4, <1>5, KeepOf
  <2> HIDE DEF w
  <2>3. Onward /\ RowInv' /\ w \in StoreType
    BY <1>3, <2>1, <2>2, ClosesOnward
  <2>4. Promised
    BY <1>3, <2>1, <2>2, ClosesPromised
  <2>5. Engaged("frozen", active[r], own[r], a, row', cp')
    BY <1>5, <1>6, <2>3, StaysEngaged
  <2> QED
    BY <1>2, <1>3, <1>5, <2>1, <2>3, <2>4, <2>5, GoesOn
<1>9. CASE Known(Stores, t) /\ Owned(Stores, t, up)
  <2> DEFINE v == FreezeTurn(Stores, t, a)
             w == Keep(v, r, a)
             e == [row[t] EXCEPT !.status = "stage1_frozen", !.answer = a]
             g == [rec[t] EXCEPT !.status = "response_frozen", !.answer = a]
             z == [Stores EXCEPT !.row[t] = e]
  <2>1. Become(w) /\ Goto(r, "frozen") /\ held' = [held EXCEPT ![r] = a]
    BY <1>1, <1>9
  <2>2. t \in Turns /\ rec[t].status # "gone"
    BY <1>9, TurnOfRequest
  <2>3. row[t] \in Row /\ rec[t] \in Rec /\ row[t].status \in Open
    BY <1>4, <1>9, <2>2, StoreFields DEF Owned
  <2>4. /\ e \in Row /\ e.status = "stage1_frozen" /\ e.answer = a /\ e.first = row[t].first
        /\ g \in Rec /\ g.first = rec[t].first /\ g.status # "gone"
    BY <2>3 DEF Row, Rec, Life, Distilling
  <2>5. v = [z EXCEPT !.rec[t] = g]
    <3>1. row \in [Turns -> Row] /\ rec \in [Turns -> Rec]
      BY <1>4, StoreFields
    <3>2. FreezeRow(Stores, t, a) = z
      BY <2>2, <2>3, <3>1 DEF FreezeRow, Stores, Row, Life
    <3>3. v = [FreezeRow(Stores, t, a) EXCEPT !.rec[t].status = "response_frozen",
                                              !.rec[t].answer = a]
      BY DEF FreezeTurn
    <3>4. z.rec = rec
      BY DEF Stores
    <3> HIDE DEF z
    <3> QED
      BY <2>2, <2>3, <3>1, <3>2, <3>3, <3>4 DEF Rec, Life
  <2> HIDE DEF e, g
  <2>6. z \in StoreType /\ z.rec = rec
    <3>1. z = [row |-> [row EXCEPT ![t] = e], rec |-> rec, cp |-> cp]
      BY DEF Stores
    <3>2. row \in [Turns -> Row] /\ rec \in [Turns -> Rec] /\ cp \in [Checkpoints -> Checkpoint]
      BY <1>4, StoreFields
    <3>3. [row EXCEPT ![t] = e] \in [Turns -> Row]
      BY <2>4, <3>2
    <3> QED
      BY <3>1, <3>2, <3>3 DEF StoreType
  <2>7. z = [Stores EXCEPT !.row[t] = e]
    OBVIOUS
  <2> HIDE DEF z, v
  <2>8. Closes(z, v, t)
    BY <2>2, <2>4, <2>5, <2>6, RecChanges
  <2>9. v \in StoreType
    BY <2>8 DEF Closes
  <2>10. Closes(v, w, t)
    BY <1>5, <2>9, KeepOf
  <2> HIDE DEF w
  <2>11. Closes(z, w, t)
    BY <2>8, <2>10, ClosesTwice
  <2>12. Closes(Stores, Stores, t)
    BY <1>4, ClosesSelf
  <2>13. Stores.row[t].status \notin {"none", "complete"} /\ e.first = Stores.row[t].first
    BY <1>4, <2>3, <2>4 DEF Open
  <2>14. /\ Onward /\ RowInv' /\ w \in StoreType
         /\ \A s \in Turns :
              s # t => row'[s].status = row[s].status /\ row'[s].answer = row[s].answer
         /\ row'[t].answer = e.answer /\ Closing(e.status, row'[t].status)
    BY <1>3, <2>1, <2>2, <2>4, <2>7, <2>11, <2>12, <2>13, WriteOnward
  <2>15. row'[t].answer = a /\ OutcomeOf(row'[t].status) = "frozen" /\ OutcomeOf(row[t].status) = "open"
    <3>1. row'[t].status = "stage1_frozen"
      <4>1. row' = w.row /\ w.row = v.row /\ v.row = z.row /\ z.row[t] = e
        <5>1. w.row = v.row
          BY <1>5, <2>9, KeepOf DEF w
        <5>2. v.row = z.row
          BY <2>2, <2>4, <2>5, <2>6, RecChanges
        <5>3. z.row[t] = e
          BY <1>4, <2>2, <2>7, StoreFields DEF StoreType
        <5>4. row' = w.row
          BY <2>1 DEF Become
        <5> QED
          BY <5>1, <5>2, <5>3, <5>4
      <4> QED
        BY <2>4, <4>1
    <3> QED
      BY <2>3, <2>4, <2>14, <3>1, OutcomeCases DEF Unfinished
  <2>16. Promised
    <3>1. \A s \in Turns :
            s # t => row'[s].status = row[s].status /\ row'[s].answer = row[s].answer
      BY <2>14
    <3> QED
      BY <1>3, <2>2, <2>15, <3>1, FreezePromised
  <2>17. Engaged("frozen", active[r], own[r], a, row', cp')
    BY <1>5, <1>6, <2>14, StaysEngaged
  <2> QED
    BY <1>2, <1>3, <1>5, <2>1, <2>14, <2>16, <2>17, GoesOn
<1> QED
  BY <1>7, <1>8, <1>9

(***************************************************************************)
(* Stage 2 begins, or the turn is left without a memory.                   *)
(***************************************************************************)
LEMMA StartStage2Step ==
  ASSUME Inv, NEW r \in Requests, StartStage2(r)
  PROVE  Stepped(r)
<1> DEFINE t == active[r]
           u == [Stores EXCEPT !.rec[t].second = TRUE]
           v == StartRow(u, t)
           w == Noted(v, t, "stage2_active")
<1>1. PICK up \in BOOLEAN :
        /\ Step(r, "frozen", up)
        /\ IF ~Known(Stores, t) THEN Goto(r, "stage2") /\ UNCHANGED stores
           ELSE IF up /\ MayStart(u, t)
           THEN Become(w) /\ Goto(r, "stage2")
           ELSE Degrade(r, u, up)
  BY DEF StartStage2
<1>2. Rest /\ held' = held /\ Still /\ Journal(up) /\ place[r] = "frozen"
  BY <1>1 DEF StartStage2, Step, Rest, Still
<1>3. /\ minted' = minted /\ transport' = transport /\ active' = active /\ own' = own
      /\ released' = released /\ crashes' = crashes /\ held' = [held EXCEPT ![r] = held[r]]
      /\ held[r] \in Answers \cup {NoAnswer}
  BY <1>2, AsTheyWere DEF Rest
<1>4. Stores \in StoreType /\ Stores.rec = rec /\ Stores.row = row /\ Stores.cp = cp
  BY StoresTyped DEF Inv
<1>5. "stage2" \in Places /\ Engaged("stage2", active[r], own[r], held[r], row, cp)
  BY <1>2, AsTheyWere DEF Places, Holding, Engaged
<1>6. active[r] \in Turns \cup {NoTurn} /\ own[r] \in Checkpoints \cup {NoCheckpoint}
  BY AsTheyWere
<1>7. CASE ~Known(Stores, t)
  <2>1. Goto(r, "stage2") /\ row' = row /\ rec' = rec /\ cp' = cp
    BY <1>1, <1>7 DEF stores
  <2>2. Become(Stores)
    BY <1>4, <2>1 DEF Become
  <2>3. Closes(Stores, Stores, NoTurn)
    BY <1>4, ClosesSelf
  <2>4. Onward /\ RowInv'
    BY <1>3, <2>2, <2>3, ClosesOnward
  <2>5. Promised
    BY <1>3, <2>2, <2>3, ClosesPromised
  <2>6. Engaged("stage2", active[r], own[r], held[r], row', cp')
    BY <1>5, <1>6, <2>4, StaysEngaged
  <2> QED
    BY <1>2, <1>3, <1>4, <1>5, <2>1, <2>2, <2>4, <2>5, <2>6, GoesOn
<1>8. CASE Known(Stores, t)
  <2> DEFINE g == [rec[t] EXCEPT !.second = TRUE]
             e == [row[t] EXCEPT !.status = "stage2_active", !.second = TRUE]
  <2>1. t \in Turns /\ rec[t].status # "gone" /\ t = TurnOf(r)
    BY <1>8, TurnOfRequest
  <2>2. /\ row \in [Turns -> Row] /\ rec \in [Turns -> Rec]
        /\ row[t] \in Row /\ rec[t] \in Rec
    BY <1>4, <2>1, StoreFields
  <2>3. /\ g \in Rec /\ g.first = rec[t].first /\ g.status = rec[t].status
        /\ e \in Row /\ e.first = row[t].first /\ e.status = "stage2_active"
        /\ e.answer = row[t].answer
    BY <2>2 DEF Rec, Row, Life
  <2>4. u = [Stores EXCEPT !.rec[t] = g]
    BY <1>4
  <2>5. Closes(Stores, u, t) /\ u.row = row /\ u.cp = cp /\ u.rec = [rec EXCEPT ![t] = g]
    <3> HIDE DEF g, u
    <3> QED
      BY <1>4, <2>1, <2>3, <2>4, RecChanges
  <2>6. CASE up /\ MayStart(u, t)
    <3>1. row[t].status \in {"stage1_frozen", "stage2_active", "memory_failed"}
      BY <2>5, <2>6 DEF MayStart
    <3>2. v = [u EXCEPT !.row[t] = e]
      <4>1. v = [u EXCEPT !.row[t].status = "stage2_active", !.row[t].second = TRUE]
        BY DEF StartRow
      <4>2. u \in StoreType
        BY <2>5 DEF Closes
      <4> HIDE DEF u, v
      <4> QED
        BY <2>1, <2>2, <2>5, <4>1, <4>2 DEF StoreType, Row, Life
    <3>3. u.row[t].status \notin {"none", "complete"} /\ e.first = u.row[t].first
      BY <2>3, <2>5, <3>1
    <3>4. v \in StoreType /\ v.rec = u.rec
      <4>1. u \in StoreType
        BY <2>5 DEF Closes
      <4>2. v = [row |-> [row EXCEPT ![t] = e], rec |-> u.rec, cp |-> u.cp]
        BY <2>5, <3>2, <4>1 DEF StoreType
      <4>3. [row EXCEPT ![t] = e] \in [Turns -> Row]
        BY <2>2, <2>3
      <4> HIDE DEF u, v, e
      <4> QED
        BY <4>1, <4>2, <4>3 DEF StoreType
    <3>5. v.rec[t].status # "gone" /\ "stage2_active" \in Open \cup Distilling \cup Ended
      BY <2>1, <2>2, <2>3, <2>5, <3>4 DEF Distilling
    <3> HIDE DEF v, u, e, g
    <3>6. Closes(v, w, t) /\ w.row = v.row
      BY <2>1, <3>4, <3>5, NotedOf
    <3>7. Become(w) /\ Goto(r, "stage2")
      BY <1>1, <1>8, <2>6 DEF u, v
    <3> HIDE DEF w
    <3>8. /\ Onward /\ RowInv' /\ w \in StoreType
          /\ \A s \in Turns :
               s # t => row'[s].status = row[s].status /\ row'[s].answer = row[s].answer
          /\ row'[t].answer = e.answer
      BY <1>3, <2>1, <2>3, <2>5, <3>2, <3>3, <3>6, <3>7, WriteOnward
    <3>9. row'[t].status = "stage2_active"
      <4>1. row' = v.row
        BY <3>6, <3>7 DEF Become
      <4>2. v.row[t] = e
        <5>1. u \in StoreType
          BY <2>5 DEF Closes
        <5> QED
          BY <2>1, <2>2, <2>5, <3>2, <5>1 DEF StoreType
      <4> QED
        BY <2>3, <4>1, <4>2
    <3>10. Promised
      <4>1. OutcomeOf(row'[t].status) = "frozen"
        BY <3>9, OutcomeCases DEF Unfinished
      <4>2. OutcomeOf(row[t].status) \in {"frozen", "unremembered"}
        BY <3>1, OutcomeCases DEF Unfinished
      <4>3. \A s \in Turns : row'[s].answer = row[s].answer
        BY <2>3, <3>8
      <4>4. \A s \in Turns : s # t => row'[s].status = row[s].status
        BY <3>8
      <4> HIDE DEF t
      <4> QED
        BY <1>3, <2>1, <4>1, <4>2, <4>3, <4>4, MovesPromised
    <3>11. Engaged("stage2", active[r], own[r], held[r], row', cp')
      BY <1>5, <1>6, <3>8, StaysEngaged
    <3> QED
      BY <1>2, <1>3, <1>5, <3>7, <3>8, <3>10, <3>11, GoesOn
  <2>7. CASE ~(up /\ MayStart(u, t))
    <3>1. Degrade(r, u, up)
      BY <1>1, <1>8, <2>7
    <3>2. Closes(Stores, u, TurnOf(r))
      BY <2>1, <2>5
    <3> HIDE DEF u
    <3> QED
      BY <1>2, <3>1, <3>2, DegradeStep
  <2> QED
    BY <2>6, <2>7
<1> QED
  BY <1>7, <1>8

(***************************************************************************)
(* Stage 2 fails.                                                          *)
(***************************************************************************)
LEMMA Stage2FailsStep ==
  ASSUME Inv, NEW r \in Requests, Stage2Fails(r)
  PROVE  Stepped(r)
<1>1. PICK up \in BOOLEAN : Step(r, "stage2", up) /\ Degrade(r, Stores, up)
  BY DEF Stage2Fails
<1>2. Still /\ Journal(up)
  BY <1>1 DEF Stage2Fails, Rest, Still, Step
<1>3. Closes(Stores, Stores, TurnOf(r))
  BY StoresTyped, ClosesSelf DEF Inv
<1> QED
  BY <1>1, <1>2, <1>3, DegradeStep

(***************************************************************************)
(* The generation budget is spent in Stage 2.                              *)
(***************************************************************************)
LEMMA Stage2BudgetStep ==
  ASSUME Inv, NEW r \in Requests, Stage2Budget(r)
  PROVE  Stepped(r)
<1> DEFINE t == active[r]
<1>1. PICK up \in BOOLEAN :
       /\ Step(r, "stage2", up)
       /\ \/ Become(Close(Rearm(Stores, own[r]), r, up)) /\ Goto(r, "spent")
          \/ Goto(r, "budget") /\ UNCHANGED stores
          \/ /\ Known(Stores, t)
             /\ Become(Fail(Stores, t, "memory_failed", up)) /\ Goto(r, "budget")
          \/ Raise(r, Stores, up)
  BY DEF Stage2Budget
<1>2. Still /\ Journal(up)
  BY <1>1 DEF Stage2Budget, Rest, Still, Step
<1>3. Closes(Stores, Stores, TurnOf(r)) /\ "budget" \in Over /\ "spent" \in Over
  BY StoresTyped, ClosesSelf DEF Inv, Over
<1>4. CASE Become(Close(Rearm(Stores, own[r]), r, up)) /\ Goto(r, "spent")
  <2>1. Closes(Stores, Close(Rearm(Stores, own[r]), r, up), TurnOf(r))
    BY SpentOf
  <2> QED
    BY <1>2, <1>3, <1>4, <2>1, BecomeStep
<1>5. CASE Goto(r, "budget") /\ UNCHANGED stores
  <2>1. Become(Stores)
    BY <1>5 DEF stores, Stores, Become
  <2> QED
    BY <1>2, <1>3, <1>5, <2>1, BecomeStep
<1>6. CASE /\ Known(Stores, t)
           /\ Become(Fail(Stores, t, "memory_failed", up)) /\ Goto(r, "budget")
  <2>1. t \in Turns /\ Stores.rec[t].status # "gone" /\ t = TurnOf(r)
    BY <1>6, TurnOfRequest DEF Stores
  <2>2. "memory_failed" \in Open \cup Distilling \cup Ended /\ Stores \in StoreType
    BY StoresTyped DEF Ended, Inv
  <2>3. Closes(Stores, Fail(Stores, t, "memory_failed", up), t)
    BY <2>1, <2>2, FailOf
  <2>4. Closes(Stores, Fail(Stores, t, "memory_failed", up), TurnOf(r))
    BY <2>1, <2>3
  <2> QED
    BY <1>2, <1>3, <1>6, <2>4, BecomeStep
<1>7. CASE Raise(r, Stores, up)
  BY <1>2, <1>3, <1>7, RaiseStep
<1> QED
  BY <1>1, <1>4, <1>5, <1>6, <1>7

(***************************************************************************)
(* Stage 2 has a memory: the turn is complete with the answer held.        *)
(***************************************************************************)
LEMMA CommitStep ==
  ASSUME Inv, NEW r \in Requests, Commit(r)
  PROVE  Stepped(r)
<1> DEFINE t == active[r]
           v == CommitRow(Stores, t)
           n == Noted(v, t, "complete")
<1>1. PICK up \in BOOLEAN :
        /\ Step(r, "stage2", up)
        /\ IF ~Known(Stores, t)
           THEN Send(r, Retire(Stores, own[r]), up, "sending")
           ELSE IF up /\ MayCommit(Stores, t, held[r])
           THEN \/ Send(r, Retire(v, own[r]), up, "committed")
                \/ Send(r, Retire(n, own[r]), up, "committed")
           ELSE Degrade(r, Stores, up)
  BY DEF Commit
<1>2. Rest /\ held' = held /\ Still /\ Journal(up) /\ place[r] = "stage2"
  BY <1>1 DEF Commit, Step, Rest, Still
<1>3. /\ minted' = minted /\ transport' = transport /\ active' = active /\ own' = own
      /\ released' = released /\ crashes' = crashes /\ held' = [held EXCEPT ![r] = held[r]]
      /\ held[r] \in Answers \cup {NoAnswer}
  BY <1>2, AsTheyWere DEF Rest
<1>4. Stores \in StoreType /\ Stores.rec = rec /\ Stores.row = row /\ Stores.cp = cp
  BY StoresTyped DEF Inv
<1>5. active[r] \in Turns \cup {NoTurn} /\ own[r] \in Checkpoints \cup {NoCheckpoint}
  BY AsTheyWere
<1>6. Closes(Stores, Stores, TurnOf(r))
  BY <1>4, ClosesSelf
<1>7. CASE ~Known(Stores, t)
  <2> DEFINE x == Retire(Stores, own[r])
  <2>1. Send(r, x, up, "sending") /\ Closes(Stores, x, TurnOf(r))
    BY <1>1, <1>4, <1>5, <1>7, RetireOf
  <2> HIDE DEF x
  <2> QED
    BY <1>2, <2>1, SendStep
<1>8. CASE Known(Stores, t) /\ ~(up /\ MayCommit(Stores, t, held[r]))
  <2>1. Degrade(r, Stores, up)
    BY <1>1, <1>8
  <2> QED
    BY <1>2, <1>6, <2>1, DegradeStep
<1>9. CASE Known(Stores, t) /\ up /\ MayCommit(Stores, t, held[r])
  <2> DEFINE e == [row[t] EXCEPT !.status = "complete"]
  <2>1. t \in Turns /\ rec[t].status # "gone" /\ t = TurnOf(r)
    BY <1>9, TurnOfRequest
  <2>2. row \in [Turns -> Row] /\ rec \in [Turns -> Rec] /\ row[t] \in Row
    BY <1>4, <2>1, StoreFields
  <2>3. row[t].status = "stage2_active" /\ row[t].answer = held[r]
    BY <1>4, <1>9 DEF MayCommit
  <2>4. e \in Row /\ e.first = row[t].first /\ e.status = "complete" /\ e.answer = held[r]
    BY <2>2, <2>3 DEF Row, Life, Ended
  <2>5. v = [Stores EXCEPT !.row[t] = e]
    BY <1>4 DEF CommitRow
  <2> HIDE DEF e
  <2>6. v \in StoreType /\ v.rec = rec /\ v.cp = cp
    <3>1. v = [row |-> [row EXCEPT ![t] = e], rec |-> rec, cp |-> cp]
      BY <2>5 DEF Stores
    <3>2. [row EXCEPT ![t] = e] \in [Turns -> Row] /\ cp \in [Checkpoints -> Checkpoint]
      BY <1>4, <2>2, <2>4, StoreFields
    <3> HIDE DEF v
    <3> QED
      BY <2>2, <3>1, <3>2 DEF StoreType
  <2>7. WorksFor(r, t, v)
    <3>1. WorksFor(r, t, Stores)
      BY <2>1, TurnOfRequest
    <3> QED
      BY <1>4, <2>6, <3>1 DEF WorksFor
  <2> HIDE DEF v
  <2>8. Closes(v, v, t) /\ Closes(v, n, t)
    <3>1. "complete" \in Open \cup Distilling \cup Ended
      BY DEF Ended
    <3>2. v.rec[t].status # "gone"
      BY <2>1, <2>6
    <3> QED
      BY <2>1, <2>6, <3>1, <3>2, ClosesSelf, NotedOf
  <2> HIDE DEF n
  <2>9. PICK m \in {v, n} : Send(r, Retire(m, own[r]), up, "committed")
    BY <1>1, <1>9
  <2> DEFINE x == Retire(m, own[r])
             p == "committed"
             places == {p, "answered"} \cup (IF p = "committed" THEN {"responding"} ELSE {})
  <2>10. Closes(v, m, t) /\ m \in StoreType
    BY <2>8, <2>9 DEF Closes
  <2>11. Closes(v, x, t)
    <3>1. Closes(m, x, t)
      BY <1>5, <2>10, RetireOf
    <3> HIDE DEF x
    <3> QED
      BY <2>10, <3>1, ClosesTwice
  <2>12. Send(r, x, up, p)
    BY <2>9
  <2> HIDE DEF x, p
  <2>13. Leaves(r, t, v, places)
    <3>1. x \in StoreType /\ WorksFor(r, t, x)
      BY <2>7, <2>11, WorksOn DEF Closes
    <3>2. Leaves(r, t, x, places)
      BY <2>1, <2>12, <3>1, SendOf
    <3> QED
      BY <2>11, <3>2, LeavesAfter
  <2>14. PICK w \in StoreType : Closes(v, w, t) /\ Become(w)
    BY <2>13 DEF Leaves
  <2>15. PICK q \in places : place' = [place EXCEPT ![r] = q]
    BY <2>13 DEF Leaves
  <2>16. q \in {"committed", "responding", "answered"} /\ Goto(r, q)
    BY <2>15 DEF p, Goto
  <2>17. q \in Places
    BY <2>16 DEF Places, Holding, Ending
  <2>18. /\ Onward /\ RowInv'
         /\ \A s \in Turns :
              s # t => row'[s].status = row[s].status /\ row'[s].answer = row[s].answer
         /\ row'[t].answer = e.answer /\ Closing(e.status, row'[t].status)
    <3>1. Closes(Stores, Stores, t)
      BY <2>1, <1>6
    <3>2. Stores.row[t].status \notin {"none", "complete"} /\ e.first = Stores.row[t].first
      BY <1>4, <2>3, <2>4
    <3> HIDE DEF t, places
    <3> QED
      BY <1>3, <2>1, <2>4, <2>5, <2>14, <3>1, <3>2, WriteOnward
  <2>19. row'[t].status = "complete" /\ row'[t].answer = held[r]
    BY <2>4, <2>18 DEF Closing, Open, Unfinished
  <2>20. Promised
    <3>1. OutcomeOf(row'[t].status) = "complete" /\ OutcomeOf(row[t].status) = "frozen"
      BY <2>3, <2>19, OutcomeCases DEF Unfinished
    <3>2. \A s \in Turns : row'[s].answer = row[s].answer
      BY <2>3, <2>18, <2>19
    <3>3. \A s \in Turns : s # t => row'[s].status = row[s].status
      BY <2>18
    <3> HIDE DEF t, places
    <3> QED
      BY <1>3, <2>1, <3>1, <3>2, <3>3, MovesPromised
  <2>21. Engaged(q, active[r], own[r], held[r], row', cp')
    <3>1. Engaged("stage2", active[r], own[r], held[r], row, cp)
      BY <1>2, AsTheyWere
    <3>2. Engaged("stage2", active[r], own[r], held[r], row', cp')
      BY <1>5, <2>18, <3>1, StaysEngaged
    <3>3. active[r] # NoTurn
      BY <1>9 DEF Known
    <3> HIDE DEF places
    <3> QED
      BY <2>16, <2>19, <3>2, <3>3 DEF Engaged
  <2> QED
    BY <1>2, <1>3, <2>14, <2>16, <2>17, <2>18, <2>20, <2>21, GoesOn
<1> QED
  BY <1>7, <1>8, <1>9

(***************************************************************************)
(* What is left to clean up closes the turn.                               *)
(***************************************************************************)
LEMMA ExitOf ==
  ASSUME Inv, NEW r \in Requests, NEW up
  PROVE  Closes(Stores, Exit(r, up), TurnOf(r))
<1>1. /\ Stores \in StoreType /\ own[r] \in Checkpoints \cup {NoCheckpoint}
      /\ TurnOf(r) \in Turns \cup {NoTurn} /\ WorksFor(r, TurnOf(r), Stores)
  BY StoresTyped, AsTheyWere, TurnOfRequest DEF Inv
<1>2. CASE place[r] = "failing"
  <2>1. Exit(r, up) = Rearm(Stores, own[r])
    BY <1>2, Zenon DEF Exit
  <2> QED
    BY <1>1, <2>1, RearmOf
<1>3. CASE place[r] = "responding"
  <2>1. Exit(r, up) = Stores
    BY <1>3, Zenon DEF Exit
  <2> QED
    BY <1>1, <2>1, ClosesSelf
<1>4. CASE place[r] \notin {"failing", "responding"}
  <2>1. place[r] # "failing" /\ place[r] # "responding"
    BY <1>4
  <2>2. Exit(r, up) = Left(Stores, r, up)
    BY <2>1, Zenon DEF Exit
  <2> QED
    BY <1>1, <2>2, CloseOf
<1> QED
  BY <1>2, <1>3, <1>4

(***************************************************************************)
(* The client of a stream goes away.                                       *)
(***************************************************************************)
LEMMA DisconnectStep ==
  ASSUME Inv, NEW r \in Requests, Disconnect(r)
  PROVE  Stepped(r)
<1>1. PICK up \in BOOLEAN : Journal(up) /\ Become(Exit(r, up))
  BY DEF Disconnect
<1>2. Still /\ Goto(r, "left")
  BY DEF Disconnect, Rest, Still
<1>3. Closes(Stores, Exit(r, up), TurnOf(r)) /\ "left" \in Over
  BY ExitOf DEF Over
<1> QED
  BY <1>1, <1>2, <1>3, BecomeStep

(***************************************************************************)
(* An answer is released beside the memory of a complete turn.             *)
(***************************************************************************)
LEMMA ReleasePromised ==
  ASSUME NEW t \in Turns, row[t].status = "complete",
         \A u \in Turns : row'[u].answer = row[u].answer /\ row'[u].status = row[u].status,
         released' = [released EXCEPT ![t] = @ \cup {row[t].answer}]
  PROVE  Promised
<1>1. Outcomes(row') = Outcomes(row) /\ AnswersOf(row') = AnswersOf(row)
  BY DEF Outcomes, AnswersOf
<1>2. Outcomes(row)[t] = "complete" /\ AnswersOf(row)[t] = row[t].answer
  BY OutcomeCases DEF Outcomes, AnswersOf
<1>3. Outcome!Release(t)
  BY <1>1, <1>2 DEF Outcome!Release, Outcomes, AnswersOf
<1> QED
  BY <1>3 DEF Promised, Outcome!Next

(***************************************************************************)
(* The last event of a stream, or the response.                            *)
(***************************************************************************)
LEMMA LeaveStep ==
  ASSUME Inv, NEW r \in Requests, Leave(r)
  PROVE  Stepped(r)
<1>1. PICK up \in BOOLEAN : Journal(up) /\ Become(Exit(r, up))
  BY DEF Leave
<1>2. /\ minted' = minted /\ transport' = transport /\ active' = active /\ own' = own
      /\ held' = held /\ crashes' = crashes
  BY DEF Leave
<1>3. PICK p \in {"spent", "error", "answered"} : Goto(r, p)
  <2> DEFINE q == CASE place[r] = "budget" -> "spent" [] place[r] = "failing" -> "error"
                    [] OTHER -> "answered"
  <2>1. Goto(r, q)
    BY DEF Leave
  <2>2. CASE place[r] = "budget"
    <3>1. q = "spent"
      BY <2>2, Zenon
    <3> QED
      BY <2>1, <3>1
  <2>3. CASE place[r] = "failing"
    <3>1. q = "error"
      BY <2>3, Zenon
    <3> QED
      BY <2>1, <3>1
  <2>4. CASE place[r] # "budget" /\ place[r] # "failing"
    <3>1. q = "answered"
      BY <2>4, Zenon
    <3> QED
      BY <2>1, <3>1
  <2> QED
    BY <2>2, <2>3, <2>4
<1> DEFINE w == Exit(r, up)
<1>4. Closes(Stores, w, TurnOf(r)) /\ Become(w) /\ p \in Over
  BY <1>1, <1>3, ExitOf DEF Over
<1> HIDE DEF w
<1>5. CASE place[r] \notin {"committed", "responding"}
  <2>1. Still
    BY <1>2, <1>5 DEF Leave, Still
  <2> QED
    BY <1>1, <1>3, <1>4, <2>1, BecomeStep
<1>6. CASE place[r] \in {"committed", "responding"}
  <2> DEFINE t == active[r]
  <2>1. released' = [released EXCEPT ![t] = @ \cup {held[r]}]
    BY <1>6 DEF Leave
  <2>2. /\ t # NoTurn /\ row[t].status = "complete" /\ row[t].answer = held[r]
        /\ held[r] # NoAnswer
    BY <1>6, AsTheyWere DEF Engaged
  <2>3. t \in Turns /\ held[r] \in Answers
    BY <2>2, AsTheyWere
  <2>4. t = TurnOf(r)
    BY <2>2, TurnOfRequest DEF WorksFor
  <2>5. Onward /\ RowInv' /\ w \in StoreType
    BY <1>2, <1>4, ClosesOnward
  <2>6. ASSUME NEW u \in Turns
        PROVE  row'[u].answer = row[u].answer /\ row'[u].status = row[u].status
    <3>1. /\ row'[u].answer = row[u].answer
          /\ u # t => row'[u].status = row[u].status
      BY <1>4, <2>4 DEF Closes, Become, Stores
    <3>2. row'[t].status = row[t].status
      BY <2>2, <2>3, <2>5 DEF Onward
    <3> QED
      BY <3>1, <3>2
  <2>7. Promised
    <3>1. released' = [released EXCEPT ![t] = @ \cup {row[t].answer}]
      BY <2>1, <2>2
    <3>2. row[t].status = "complete"
      BY <2>2
    <3> HIDE DEF t
    <3> QED
      BY <2>3, <2>6, <3>1, <3>2, ReleasePromised
  <2>8. /\ released' \in [Turns -> SUBSET Answers] /\ minted' \in 0..MaxTurns
        /\ crashes' \in 0..MaxCrashes
    BY <1>2, <2>1, <2>3 DEF Inv, TypeOK
  <2>9. outages' \in 0..MaxOutages
    BY <1>1, JournalOf
  <2>10. /\ place' = [place EXCEPT ![r] = p] /\ active' = [active EXCEPT ![r] = active[r]]
         /\ own' = [own EXCEPT ![r] = own[r]] /\ held' = [held EXCEPT ![r] = held[r]]
    BY <1>2, <1>3, AsTheyWere DEF Goto
  <2>11. /\ active[r] \in Turns \cup {NoTurn} /\ own[r] \in Checkpoints \cup {NoCheckpoint}
         /\ held[r] \in Answers \cup {NoAnswer} /\ p \in Places
    BY <1>3, AsTheyWere DEF Places, Holding, Ending
  <2>12. Engaged(p, active[r], own[r], held[r], row', cp')
    BY <1>4, <2>5, <2>11, AsTheyWere, StaysEngaged
  <2> HIDE DEF t
  <2> QED
    BY <1>2, <1>4, <2>5, <2>7, <2>8, <2>9, <2>10, <2>11, <2>12 DEF Stepped
<1> QED
  BY <1>5, <1>6

(***************************************************************************)
(* A user turn begins, or the journal refuses it.                          *)
(***************************************************************************)
LEMMA BeginFreshStep ==
  ASSUME Inv, NEW r \in Requests, BeginFresh(r)
  PROVE  Stepped(r)
<1> DEFINE t == minted + 1
<1>1. PICK up \in BOOLEAN :
       /\ Journal(up)
       /\ IF up
          THEN /\ row' = [row EXCEPT ![t] = Blank("stage1_active")]
               /\ rec' = Remember(t)
               /\ minted' = t
               /\ active' = [active EXCEPT ![r] = t]
               /\ Goto(r, "stage1")
               /\ UNCHANGED cp
          ELSE Raise(r, Stores, up) /\ UNCHANGED <<minted, active>>
  BY DEF BeginFresh
<1>2. /\ place[r] = "idle" /\ minted < MaxTurns
      /\ UNCHANGED <<transport, own, held, released, crashes>>
  BY DEF BeginFresh
<1>3. minted \in 0..MaxTurns /\ MaxTurns \in Nat
  BY AgenticConstants DEF Inv, TypeOK
<1>4. t \in Turns /\ t \in 0..MaxTurns /\ t # NoTurn /\ t > minted
  BY <1>2, <1>3 DEF Turns, NoTurn
<1>5. Stores \in StoreType /\ Stores.rec = rec /\ Stores.row = row /\ Stores.cp = cp
  BY StoresTyped DEF Inv
<1>6. row \in [Turns -> Row] /\ rec \in [Turns -> Rec] /\ cp \in [Checkpoints -> Checkpoint]
  BY <1>5, StoreFields
<1> HIDE DEF t
<1>7. CASE ~up
  <2>1. Raise(r, Stores, up) /\ Still
    BY <1>1, <1>2, <1>7 DEF Still
  <2>2. Closes(Stores, Stores, TurnOf(r))
    BY <1>5, ClosesSelf
  <2> QED
    BY <1>1, <2>1, <2>2, RaiseStep
<1>8. CASE up
  <2> DEFINE b == Blank("stage1_active")
             x == Blank("gone")
  <2>1. /\ row' = [row EXCEPT ![t] = b] /\ rec' = Remember(t) /\ minted' = t /\ cp' = cp
        /\ active' = [active EXCEPT ![r] = t] /\ place' = [place EXCEPT ![r] = "stage1"]
    BY <1>1, <1>8 DEF Goto
  <2>2. /\ b \in Row /\ b \in Rec /\ x \in Rec /\ b.status = "stage1_active" /\ b.first = 1
        /\ b.answer = NoAnswer /\ x.status = "gone"
    <3>1. 1 \in 1..MaxAttempt
      BY AgenticConstants
    <3> QED
      BY <3>1 DEF Blank, Row, Rec, Life, Open
  <2> HIDE DEF b, x
  <2>3. row[t].status = "none" /\ row[t].answer = NoAnswer
    BY <1>4 DEF Inv, RowInv
  <2>4. /\ row' \in [Turns -> Row] /\ row'[t] = b
        /\ \A u \in Turns : u # t => row'[u] = row[u]
    BY <1>4, <1>6, <2>1, <2>2
  <2>5. /\ rec' \in [Turns -> Rec] /\ rec'[t] = b
        /\ \A u \in Turns : u # t => rec'[u] \in {rec[u], x}
    <3> DEFINE known == {u \in Turns : rec[u].status # "gone"}
               oldest == CHOOSE u \in known : \A s \in known : u <= s
               drop(u) == Cardinality(known) >= Limit /\ u = oldest
    <3>1. rec' = [u \in Turns |-> IF u = t THEN b ELSE IF drop(u) THEN x ELSE rec[u]]
      BY <2>1 DEF Remember, b, x
    <3> HIDE DEF drop
    <3>2. rec'[t] = b
      BY <1>4, <3>1
    <3>3. \A u \in Turns : u # t => rec'[u] \in {rec[u], x}
      BY <3>1
    <3>4. rec' \in [Turns -> Rec]
      BY <1>6, <2>2, <3>1
    <3> QED
      BY <3>2, <3>3, <3>4
  <2>6. Onward
    <3>1. ASSUME NEW u \in Turns, row[u].status = "complete"
          PROVE  row'[u].status = "complete" /\ row'[u].answer = row[u].answer
      BY <2>3, <2>4, <3>1
    <3> QED
      BY <2>1, <3>1 DEF Onward
  <2>7. RowInv'
    <3>1. ASSUME NEW u \in Turns, u > minted'
          PROVE  row'[u].status = "none" /\ row'[u].answer = NoAnswer
      <4>1. u # t /\ u > minted
        BY <1>3, <1>4, <2>1, <3>1 DEF Turns
      <4> QED
        BY <2>4, <4>1 DEF Inv, RowInv
    <3>2. ASSUME NEW u \in Turns, rec'[u].status # "gone" PROVE row'[u].first = rec'[u].first
      <4>1. CASE u = t
        BY <2>4, <2>5, <4>1
      <4>2. CASE u # t
        <5>1. rec'[u] = rec[u] /\ row'[u] = row[u]
          BY <2>2, <2>4, <2>5, <3>2, <4>2
        <5> QED
          BY <3>2, <5>1 DEF Inv, RowInv
      <4> QED
        BY <4>1, <4>2
    <3> QED
      BY <3>1, <3>2 DEF RowInv
  <2>8. Promised
    <3>1. OutcomeOf(row[t].status) = "none" /\ OutcomeOf(row'[t].status) = "open"
      BY <2>2, <2>3, <2>4, OutcomeCases DEF Open
    <3>2. \A u \in Turns : row'[u].answer = row[u].answer
      BY <2>2, <2>3, <2>4
    <3>3. \A u \in Turns : u # t => row'[u].status = row[u].status
      BY <2>4
    <3> QED
      BY <1>2, <1>4, <3>1, <3>2, <3>3, MovesPromised
  <2>9. \E w \in StoreType : Become(w)
    <3> DEFINE w == [row |-> row', rec |-> rec', cp |-> cp']
    <3>1. w \in StoreType
      BY <1>6, <2>1, <2>4, <2>5 DEF StoreType
    <3>2. Become(w)
      BY DEF Become
    <3> QED
      BY <3>1, <3>2
  <2>10. /\ own[r] = NoCheckpoint
    BY <1>2, AsTheyWere DEF Engaged
  <2>11. Engaged("stage1", t, own[r], held[r], row', cp') /\ "stage1" \in Places
    BY <2>10 DEF Engaged, Places, Holding
  <2>12. /\ own' = [own EXCEPT ![r] = own[r]] /\ held' = [held EXCEPT ![r] = held[r]]
         /\ own[r] \in Checkpoints \cup {NoCheckpoint} /\ held[r] \in Answers \cup {NoAnswer}
         /\ t \in Turns \cup {NoTurn}
    BY <1>2, <1>4, AsTheyWere
  <2>13. /\ outages' \in 0..MaxOutages /\ crashes' \in 0..MaxCrashes
         /\ released' \in [Turns -> SUBSET Answers] /\ minted' \in 0..MaxTurns
         /\ transport' = transport
    BY <1>1, <1>2, <1>4, <2>1, JournalOf DEF Inv, TypeOK
  <2> QED
    BY <2>1, <2>6, <2>7, <2>8, <2>9, <2>11, <2>12, <2>13 DEF Stepped
<1> QED
  BY <1>7, <1>8

-----------------------------------------------------------------------------
(* The steps of nobody.                                                     *)

(***************************************************************************)
(* A step that only changes checkpoints, records and handlers that ended.  *)
(***************************************************************************)
LEMMA OthersKeep ==
  ASSUME Inv, row' = row, \A u \in Turns : rec'[u].status # "gone" => rec'[u] = rec[u],
         rec' \in [Turns -> Rec], cp' \in [Checkpoints -> Checkpoint],
         \A c \in Checkpoints :
           cp[c].state # "unused" => cp'[c].state # "unused" /\ cp'[c].turn = cp[c].turn,
         place' \in [Requests -> Places],
         \A r \in Requests : place'[r] \in {place[r], "left"},
         crashes' \in 0..MaxCrashes,
         UNCHANGED <<minted, transport, active, own, held, released, outages>>
  PROVE  Inv' /\ Promised
<1>1. TypeOK'
  BY DEF Inv, TypeOK, Row, Rec
<1>2. RowInv'
  BY DEF Inv, RowInv
<1>3. Onward
  BY DEF Onward
<1>4. ASSUME NEW r \in Requests
      PROVE  Engaged(place'[r], active'[r], own'[r], held'[r], row', cp')
  <2>1. Engaged(place[r], active[r], own[r], held[r], row', cp')
    BY <1>3, AsTheyWere, StaysEngaged
  <2>2. active' = active /\ own' = own /\ held' = held /\ place'[r] \in {place[r], "left"}
    OBVIOUS
  <2> QED
    BY <2>1, <2>2 DEF Engaged
<1>5. Promised
  BY StaysPromised
<1> QED
  BY <1>1, <1>2, <1>4, <1>5 DEF Inv, RequestInv

(***************************************************************************)
(* A claim is given back, or a checkpoint expires.                         *)
(***************************************************************************)
LEMMA CheckpointSteps ==
  ASSUME Inv, NEW c \in Checkpoints, Unclaim(c) \/ Expire(c)
  PROVE  Inv' /\ Promised
<1>1. cp[c] \in Checkpoint /\ cp \in [Checkpoints -> Checkpoint] /\ rec \in [Turns -> Rec]
      /\ place \in [Requests -> Places] /\ crashes \in 0..MaxCrashes
  BY DEF Inv, TypeOK, Rec
<1>2. PICK e \in Checkpoint :
        cp' = [cp EXCEPT ![c] = e] /\ e.state # "unused" /\ e.turn = cp[c].turn
  <2>1. CASE Unclaim(c)
    <3> DEFINE e == [cp[c] EXCEPT !.inFlight = FALSE]
    <3>1. e \in Checkpoint /\ e.state = "live" /\ e.turn = cp[c].turn
      BY <1>1, <2>1 DEF Unclaim, Checkpoint
    <3>2. cp' = [cp EXCEPT ![c] = e]
      BY <2>1 DEF Unclaim
    <3> HIDE DEF e
    <3> QED
      BY <3>1, <3>2
  <2>2. CASE Expire(c)
    <3> DEFINE e == [cp[c] EXCEPT !.state = "expired"]
    <3>1. e \in Checkpoint /\ e.state = "expired" /\ e.turn = cp[c].turn
      BY <1>1, <2>2 DEF Expire, Checkpoint
    <3>2. cp' = [cp EXCEPT ![c] = e]
      BY <2>2 DEF Expire
    <3> HIDE DEF e
    <3> QED
      BY <3>1, <3>2
  <2> QED
    BY <2>1, <2>2
<1>3. UNCHANGED <<row, rec, minted, requestVars, released, outages, crashes>>
  BY DEF Unclaim, Expire
<1>4. cp' \in [Checkpoints -> Checkpoint]
  BY <1>1, <1>2
<1>5. \A d \in Checkpoints :
        cp[d].state # "unused" => cp'[d].state # "unused" /\ cp'[d].turn = cp[d].turn
  BY <1>1, <1>2
<1>6. UNCHANGED <<row, rec, place, crashes, minted, transport, active, own, held, released, outages>>
  BY <1>3 DEF requestVars
<1> QED
  BY <1>1, <1>4, <1>5, <1>6, OthersKeep

(***************************************************************************)
(* The kernel is killed: the rows stay as they are.                        *)
(***************************************************************************)
LEMMA CrashStep ==
  ASSUME Inv, Crash
  PROVE  Inv' /\ Promised
<1>1. cp \in [Checkpoints -> Checkpoint] /\ place \in [Requests -> Places]
      /\ crashes \in 0..MaxCrashes /\ MaxCrashes \in Nat
  BY AgenticConstants DEF Inv, TypeOK
<1>2. rec' \in [Turns -> Rec] /\ \A u \in Turns : rec'[u].status = "gone"
  <2>1. Blank("gone") \in Rec /\ Blank("gone").status = "gone"
    <3>1. 1 \in 1..MaxAttempt
      BY AgenticConstants
    <3> QED
      BY <3>1 DEF Blank, Rec, Life
  <2> QED
    BY <2>1 DEF Crash
<1>3. ASSUME NEW c \in Checkpoints
      PROVE  /\ cp'[c] \in Checkpoint
             /\ cp[c].state # "unused" => cp'[c].state # "unused" /\ cp'[c].turn = cp[c].turn
  <2> DEFINE s == IF cp[c].state = "live" THEN "lost" ELSE cp[c].state
  <2>1. cp[c] \in Checkpoint
    BY <1>1
  <2>2. s \in {"unused", "live", "retired", "expired", "lost"} /\ (s = "unused" => cp[c].state = "unused")
    BY <2>1, CheckpointFields
  <2>3. cp'[c] = [cp[c] EXCEPT !.state = s, !.inFlight = FALSE]
    BY <2>1 DEF Crash, Checkpoint
  <2> HIDE DEF s
  <2>4. cp'[c] \in Checkpoint /\ cp'[c].state = s /\ cp'[c].turn = cp[c].turn
    BY <2>1, <2>2, <2>3 DEF Checkpoint
  <2> QED
    BY <2>2, <2>4
<1>4. cp' \in [Checkpoints -> Checkpoint]
  <2>1. cp' = [c \in Checkpoints |->
                 [cp[c] EXCEPT !.state = IF @ = "live" THEN "lost" ELSE @, !.inFlight = FALSE]]
    BY DEF Crash
  <2>2. \A c \in Checkpoints : cp'[c] \in Checkpoint
    BY <1>3
  <2> QED
    BY <2>1, <2>2
<1>5. place' \in [Requests -> Places] /\ \A r \in Requests : place'[r] \in {place[r], "left"}
  BY <1>1 DEF Crash, Places
<1>6. /\ crashes' \in 0..MaxCrashes /\ row' = row
      /\ UNCHANGED <<minted, transport, active, own, held, released, outages>>
  <2>1. /\ crashes < MaxCrashes /\ crashes' = crashes + 1 /\ row' = row
        /\ UNCHANGED <<minted, transport, active, own, held, released, outages>>
    BY DEF Crash
  <2>2. crashes' \in 0..MaxCrashes
    BY <1>1, <2>1
  <2> QED
    BY <2>1, <2>2
<1> QED
  BY <1>2, <1>3, <1>4, <1>5, <1>6, OthersKeep

-----------------------------------------------------------------------------
(* The theorems.                                                            *)

(***************************************************************************)
(* The invariant holds at the start, and the promise has not been used.    *)
(***************************************************************************)
LEMMA InitHolds ==
  ASSUME Init
  PROVE  Inv /\ Outcome!Init
<1>1. 1 \in 1..MaxAttempt /\ 0 \in 0..MaxTurns /\ 0 \in 0..MaxOutages /\ 0 \in 0..MaxCrashes
  BY AgenticConstants
<1>2. /\ Blank("none") \in Row /\ Blank("gone") \in Rec
      /\ Blank("none").status = "none" /\ Blank("none").answer = NoAnswer
      /\ Blank("gone").status = "gone"
  BY <1>1 DEF Blank, Row, Rec, Life
<1>3. row \in [Turns -> Row] /\ rec \in [Turns -> Rec]
  BY <1>2 DEF Init
<1>4. cp \in [Checkpoints -> Checkpoint]
  BY DEF Init, Checkpoint
<1>5. TypeOK
  BY <1>1, <1>3, <1>4 DEF Init, TypeOK, Row, Rec, Places
<1>6. \A u \in Turns :
        row[u].status = "none" /\ row[u].answer = NoAnswer /\ rec[u].status = "gone"
  BY <1>2 DEF Init
<1>7. RowInv
  BY <1>6 DEF RowInv
<1>8. RequestInv
  BY DEF Init, RequestInv, Engaged
<1>9. Outcome!Init
  <2>1. [t \in Turns |-> OutcomeOf(row[t].status)] = [t \in Turns |-> "none"]
    BY <1>6, OutcomeCases
  <2>2. [t \in Turns |-> row[t].answer] = [t \in Turns |-> NoAnswer]
    BY <1>6
  <2>3. released = [t \in Turns |-> {}]
    BY DEF Init
  <2> QED
    BY <2>1, <2>2, <2>3 DEF Outcome!Init
<1> QED
  BY <1>5, <1>7, <1>8, <1>9 DEF Inv

(***************************************************************************)
(* Every step keeps the invariant and the promise.                         *)
(***************************************************************************)
LEMMA StepHolds ==
  ASSUME Inv, [Next]_vars
  PROVE  Inv' /\ Promised
<1>1. ASSUME NEW r \in Requests, Stepped(r)
      PROVE  Inv' /\ Promised
  <2>1. Inv'
    BY <1>1, SteppedKeeps
  <2> QED
    BY <1>1, <2>1 DEF Stepped
<1>2. ASSUME NEW r \in Requests,
             \/ BeginFresh(r) \/ Claim(r) \/ ClaimFrozen(r) \/ BeginResumed(r)
             \/ AskTools(r) \/ Stage1Fails(r) \/ NoAnswerGiven(r) \/ Stage1Budget(r)
             \/ LoopRetry(r) \/ Freeze(r)
             \/ StartStage2(r) \/ Stage2Fails(r) \/ Stage2Budget(r) \/ Commit(r)
             \/ Leave(r) \/ Disconnect(r)
      PROVE  Stepped(r)
  BY <1>2, BeginFreshStep, ClaimStep, ClaimFrozenStep, BeginResumedStep, AskToolsStep,
     Stage1FailsStep, NoAnswerGivenStep, Stage1BudgetStep, LoopRetryStep, FreezeStep,
     StartStage2Step, Stage2FailsStep, Stage2BudgetStep, CommitStep, LeaveStep, DisconnectStep
<1>3. CASE UNCHANGED vars
  <2>1. UNCHANGED <<row, rec, cp, minted, place, transport, active, own, held, released,
                    outages, crashes>>
    BY <1>3 DEF vars, stores, requestVars
  <2>2. Inv'
    BY <2>1 DEF Inv, TypeOK, RowInv, RequestInv, Engaged
  <2>3. Promised
    BY <2>1, StaysPromised
  <2> QED
    BY <2>2, <2>3
<1>4. CASE \E r \in Requests :
             \/ BeginFresh(r) \/ Claim(r) \/ ClaimFrozen(r) \/ BeginResumed(r)
             \/ AskTools(r) \/ Stage1Fails(r) \/ NoAnswerGiven(r) \/ Stage1Budget(r)
             \/ LoopRetry(r) \/ Freeze(r)
             \/ StartStage2(r) \/ Stage2Fails(r) \/ Stage2Budget(r) \/ Commit(r)
             \/ Leave(r) \/ Disconnect(r)
  BY <1>1, <1>2, <1>4
<1>5. CASE \E c \in Checkpoints : Unclaim(c) \/ Expire(c)
  BY <1>5, CheckpointSteps
<1>6. CASE Crash
  BY <1>6, CrashStep
<1> QED
  BY <1>3, <1>4, <1>5, <1>6 DEF Next

(***************************************************************************)
(* The invariant: rows, records and handlers agree on whose turn it is and *)
(* which attempt it is at.                                                 *)
(***************************************************************************)
THEOREM TurnInvariant == Spec => []Inv
BY InitHolds, StepHolds, PTL DEF Spec

(***************************************************************************)
(* Type correctness.                                                       *)
(***************************************************************************)
THEOREM TurnTypes == Spec => []TypeOK
<1>1. Inv => TypeOK
  BY DEF Inv
<1> QED
  BY <1>1, TurnInvariant, PTL

(***************************************************************************)
(* The turn keeps its promise whatever fails: one answer, never replaced,  *)
(* and a memory released only of a complete turn, beside that answer.      *)
(***************************************************************************)
THEOREM PromiseTheorem == Spec => ImplementsPromise
<1>1. Init => Outcome!Init
  BY InitHolds
<1>2. Inv /\ [Next]_vars => Promised
  BY StepHolds
<1> QED
  BY <1>1, <1>2, TurnInvariant, PTL DEF Spec, ImplementsPromise, Outcome!Spec, Promised

-----------------------------------------------------------------------------
(* One permit and a journal that works.                                     *)

\* The record of a turn is gone or says that the turn is over; the turn is
\* over in the journal, or has no record.
Shut(v, t) == v.rec[t].status \in {"gone"} \cup Ended
Closed(v, t) == v.rec[t].status = "gone" \/ v.row[t].status \in Ended

\* What a record at k and its row at s may be at the same time: the row may
\* be ahead of the record, never behind it.
Agree(k, s) ==
  \/ s \in Ended
  \/ k \in Open /\ s \in Open
  \/ k \in Distilling /\ s \in Unfinished

\* A record and its row are of the same attempts and the same answer.
Fits(v, t) ==
  v.rec[t].status # "gone" =>
    /\ v.row[t].first = v.rec[t].first /\ v.row[t].answer = v.rec[t].answer
    /\ Agree(v.rec[t].status, v.row[t].status)
    /\ v.row[t].status = "stage2_active" => v.row[t].second
    /\ v.row[t].status \in Open => ~v.rec[t].second
    /\ v.row[t].status \in Open \cup Unfinished => v.row[t].second = v.rec[t].second

\* A checkpoint waits for its turn to go on, or has expired unclaimed.
Waits(e, t) == e.turn = t /\ (e.state = "expired" \/ (e.state = "live" /\ ~e.inFlight))
Waiting(v, t) == \E c \in Checkpoints : Waits(v.cp[c], t)
Settled(v, t) == Closed(v, t) \/ Waiting(v, t)

\* A claimed checkpoint is in the store, and a used one has its turn.
StoreFits(v) ==
  \A c \in Checkpoints :
    /\ v.cp[c].inFlight => v.cp[c].state = "live"
    /\ v.cp[c].state # "unused" => v.cp[c].turn \in 1..minted

Sound(v, t) == v \in StoreType /\ Fits(v, t) /\ StoreFits(v)

\* From v to w only turn t and its checkpoints have changed.
OnlyOf(v, w, t) ==
  /\ \A u \in Turns : u # t => w.row[u] = v.row[u] /\ w.rec[u] = v.rec[u]
  /\ \A d \in Checkpoints :
       w.cp[d] # v.cp[d] => w.cp[d].turn = t /\ (v.cp[d].state = "unused" \/ v.cp[d].turn = t)

\* Turn t has been cleaned up after, or closed, and no more.
Cleans(v, w, t) ==
  /\ Closes(v, w, t) /\ Sound(w, t) /\ OnlyOf(v, w, t)
  /\ Shut(v, t) => Shut(w, t)
  /\ Closed(v, t) => Closed(w, t)
  /\ w.rec[t].status \in Distilling => v.rec[t].status \in Distilling

\* What request r works for in the stores v is turn t.
At(v, r, t) ==
  /\ active[r] \in {NoTurn, t}
  /\ own[r] \in Checkpoints \cup {NoCheckpoint}
  /\ own[r] # NoCheckpoint => v.cp[own[r]].state # "unused" /\ v.cp[own[r]].turn = t

(***************************************************************************)
(* Nothing at all is a cleanup.                                            *)
(***************************************************************************)
LEMMA CleansSelf ==
  ASSUME NEW v, NEW t, Sound(v, t)
  PROVE  Cleans(v, v, t)
BY ClosesSelf DEF Cleans, Sound, OnlyOf

(***************************************************************************)
(* Two cleanups after one another are one.                                 *)
(***************************************************************************)
LEMMA CleansTwice ==
  ASSUME NEW v, NEW w, NEW x, NEW t, Cleans(v, w, t), Cleans(w, x, t)
  PROVE  Cleans(v, x, t)
<1>1. Closes(v, x, t)
  BY ClosesTwice DEF Cleans
<1>2. OnlyOf(v, x, t)
  <2>1. \A u \in Turns : u # t => x.row[u] = v.row[u] /\ x.rec[u] = v.rec[u]
    BY DEF Cleans, OnlyOf
  <2>2. ASSUME NEW d \in Checkpoints, x.cp[d] # v.cp[d]
        PROVE  x.cp[d].turn = t /\ (v.cp[d].state = "unused" \/ v.cp[d].turn = t)
    <3>1. w.cp[d] # v.cp[d] => w.cp[d].turn = t /\ (v.cp[d].state = "unused" \/ v.cp[d].turn = t)
      BY DEF Cleans, OnlyOf
    <3>2. x.cp[d] # w.cp[d] => x.cp[d].turn = t /\ (w.cp[d].state = "unused" \/ w.cp[d].turn = t)
      BY DEF Cleans, OnlyOf
    <3> QED
      BY <2>2, <3>1, <3>2
  <2> QED
    BY <2>1, <2>2 DEF OnlyOf
<1> QED
  BY <1>1, <1>2 DEF Cleans

(***************************************************************************)
(* A cleanup leaves a request at its turn.                                 *)
(***************************************************************************)
LEMMA AtOn ==
  ASSUME NEW v, NEW w, NEW r, NEW t, At(v, r, t), Cleans(v, w, t)
  PROVE  At(w, r, t)
BY DEF At, Cleans, Closes

(***************************************************************************)
(* A request at its turn works for it.                                     *)
(***************************************************************************)
LEMMA AtWorks ==
  ASSUME NEW v, NEW r, NEW t, At(v, r, t)
  PROVE  WorksFor(r, t, v)
BY DEF At, WorksFor

(***************************************************************************)
(* A turn whose record is shut is closed.                                  *)
(***************************************************************************)
LEMMA ShutIsClosed ==
  ASSUME NEW v, NEW t, Fits(v, t), Shut(v, t)
  PROVE  Closed(v, t)
BY DEF Fits, Shut, Closed, Agree, Open, Distilling, Ended

(***************************************************************************)
(* Giving a checkpoint back makes it wait.                                 *)
(***************************************************************************)
LEMMA RearmCleans ==
  ASSUME NEW t \in Turns, NEW v, Sound(v, t), NEW c \in Checkpoints \cup {NoCheckpoint},
         c # NoCheckpoint => v.cp[c].state # "unused" /\ v.cp[c].turn = t
  PROVE  /\ Cleans(v, Rearm(v, c), t)
         /\ Rearm(v, c).row = v.row /\ Rearm(v, c).rec = v.rec
         /\ Waiting(v, t) => Waiting(Rearm(v, c), t)
         /\ c # NoCheckpoint =>
              /\ Rearm(v, c).cp[c].answer = v.cp[c].answer /\ ~Rearm(v, c).cp[c].inFlight
              /\ Rearm(v, c).cp[c].state = v.cp[c].state
              /\ v.cp[c].state \in {"live", "expired"} => Waiting(Rearm(v, c), t)
<1>0. v \in StoreType
  BY DEF Sound
<1>1. CASE c # NoCheckpoint /\ v.cp[c].state = "live"
  <2> DEFINE e == [v.cp[c] EXCEPT !.inFlight = FALSE]
             w == Rearm(v, c)
  <2>1. c \in Checkpoints /\ v.cp[c] \in Checkpoint
    BY <1>0, <1>1, StoreFields
  <2>2. /\ e \in Checkpoint /\ e.turn = v.cp[c].turn /\ e.state = v.cp[c].state
        /\ e.answer = v.cp[c].answer /\ ~e.inFlight
    BY <2>1 DEF Checkpoint
  <2>3. w = [v EXCEPT !.cp[c] = e]
    BY <1>1 DEF Rearm
  <2> HIDE DEF e, w
  <2>4. Closes(v, w, t) /\ w.row = v.row /\ w.rec = v.rec /\ w.cp = [v.cp EXCEPT ![c] = e]
    BY <1>0, <2>1, <2>2, <2>3, CpChanges
  <2>5. w.cp[c] = e /\ \A d \in Checkpoints : d # c => w.cp[d] = v.cp[d]
    BY <1>0, <2>1, <2>4, StoreFields
  <2>6. Sound(w, t)
    <3>1. w \in StoreType
      BY <2>4 DEF Closes
    <3>2. StoreFits(w)
      BY <2>2, <2>5 DEF Sound, StoreFits
    <3> QED
      BY <2>4, <3>1, <3>2 DEF Sound, Fits
  <2>7. OnlyOf(v, w, t)
    BY <1>1, <2>2, <2>4, <2>5 DEF OnlyOf
  <2>8. Cleans(v, w, t)
    BY <2>4, <2>6, <2>7 DEF Cleans, Shut, Closed
  <2>9. Waits(e, t)
    BY <1>1, <2>2 DEF Waits
  <2>10. Waiting(w, t)
    BY <2>1, <2>5, <2>9 DEF Waiting
  <2> QED
    BY <2>2, <2>4, <2>5, <2>8, <2>10 DEF w
<1>2. CASE ~(c # NoCheckpoint /\ v.cp[c].state = "live")
  <2>1. Rearm(v, c) = v
    BY <1>2 DEF Rearm
  <2>2. Cleans(v, v, t)
    BY CleansSelf
  <2>3. c # NoCheckpoint => ~v.cp[c].inFlight
    BY <1>2 DEF Sound, StoreFits
  <2>4. c # NoCheckpoint /\ v.cp[c].state \in {"live", "expired"} => Waiting(v, t)
    BY <1>2 DEF Waiting, Waits
  <2> QED
    BY <2>1, <2>2, <2>3, <2>4
<1> QED
  BY <1>1, <1>2

(***************************************************************************)
(* Retiring a checkpoint leaves its turn to somebody else.                 *)
(***************************************************************************)
LEMMA RetireCleans ==
  ASSUME NEW t \in Turns, NEW v, Sound(v, t), NEW c \in Checkpoints \cup {NoCheckpoint},
         c # NoCheckpoint => v.cp[c].state # "unused" /\ v.cp[c].turn = t
  PROVE  /\ Cleans(v, Retire(v, c), t)
         /\ Retire(v, c).row = v.row /\ Retire(v, c).rec = v.rec
         /\ c # NoCheckpoint => Retire(v, c).cp[c].answer = v.cp[c].answer
         /\ \A d \in Checkpoints : d # c => Retire(v, c).cp[d] = v.cp[d]
<1>0. v \in StoreType
  BY DEF Sound
<1>1. CASE c # NoCheckpoint
  <2> DEFINE s == IF v.cp[c].state = "live" THEN "retired" ELSE v.cp[c].state
             e == [v.cp[c] EXCEPT !.inFlight = FALSE, !.state = s]
             w == Retire(v, c)
  <2>1. c \in Checkpoints /\ v.cp[c] \in Checkpoint
    BY <1>0, <1>1, StoreFields
  <2>2. s \in {"unused", "live", "retired", "expired", "lost"}
    BY <2>1, CheckpointFields
  <2>3. s = "unused" <=> v.cp[c].state = "unused"
    OBVIOUS
  <2>4. w = [v EXCEPT !.cp[c] = e]
    BY <1>0, <1>1, <2>1 DEF Retire, Checkpoint
  <2> HIDE DEF s
  <2>5. /\ e \in Checkpoint /\ e.turn = v.cp[c].turn /\ e.state = s /\ ~e.inFlight
        /\ e.answer = v.cp[c].answer
    BY <2>1, <2>2 DEF Checkpoint
  <2> HIDE DEF e, w
  <2>6. Closes(v, w, t) /\ w.row = v.row /\ w.rec = v.rec /\ w.cp = [v.cp EXCEPT ![c] = e]
    BY <1>0, <2>1, <2>3, <2>4, <2>5, CpChanges
  <2>7. w.cp[c] = e /\ \A d \in Checkpoints : d # c => w.cp[d] = v.cp[d]
    BY <1>0, <2>1, <2>6, StoreFields
  <2>8. Sound(w, t)
    <3>1. w \in StoreType
      BY <2>6 DEF Closes
    <3>2. StoreFits(w)
      BY <2>1, <2>3, <2>5, <2>7 DEF Sound, StoreFits
    <3> QED
      BY <2>6, <3>1, <3>2 DEF Sound, Fits
  <2>9. OnlyOf(v, w, t)
    BY <1>1, <2>5, <2>6, <2>7 DEF OnlyOf
  <2>10. Cleans(v, w, t)
    BY <2>6, <2>8, <2>9 DEF Cleans, Shut, Closed
  <2> QED
    BY <2>5, <2>6, <2>7, <2>10 DEF w
<1>2. CASE c = NoCheckpoint
  BY <1>2, CleansSelf DEF Retire
<1> QED
  BY <1>1, <1>2

(***************************************************************************)
(* One turn with a new row and a new record.                               *)
(***************************************************************************)
LEMMA TurnCleans ==
  ASSUME NEW t \in Turns, NEW v, Sound(v, t), NEW w, Closes(v, w, t), w.cp = v.cp, Fits(w, t),
         \A u \in Turns : u # t => w.row[u] = v.row[u] /\ w.rec[u] = v.rec[u],
         Shut(v, t) => Shut(w, t), Closed(v, t) => Closed(w, t),
         w.rec[t].status \in Distilling => v.rec[t].status \in Distilling
  PROVE  Cleans(v, w, t)
<1>1. w \in StoreType
  BY DEF Closes
<1>2. StoreFits(w) /\ OnlyOf(v, w, t)
  BY DEF Sound, StoreFits, OnlyOf
<1> QED
  BY <1>1, <1>2 DEF Cleans, Sound

(***************************************************************************)
(* The journal fails a turn whose record it has.                           *)
(***************************************************************************)
LEMMA MayFailIt ==
  ASSUME NEW t \in Turns, NEW v, Sound(v, t), v.rec[t].status # "gone"
  PROVE  MayFail(v, t)
<1>1. v.row[t].status \in Open \cup Unfinished \cup Ended
  BY DEF Sound, Fits, Agree
<1>2. v.row[t].first = v.rec[t].first
  BY DEF Sound, Fits
<1>3. v.row[t].status \in Open => ~v.rec[t].second
  BY DEF Sound, Fits
<1>4. v.row[t].status \in Unfinished => v.row[t].second = v.rec[t].second
  BY DEF Sound, Fits
<1> QED
  BY <1>1, <1>2, <1>3, <1>4 DEF MayFail, Unfinished

(***************************************************************************)
(* Its row is closed, whether or not this is noted in the record.          *)
(***************************************************************************)
LEMMA FailRowCleans ==
  ASSUME NEW t \in Turns, NEW v, Sound(v, t), v.rec[t].status # "gone"
  PROVE  /\ Cleans(v, FailRow(v, t), t) /\ FailRow(v, t).cp = v.cp
         /\ FailRow(v, t).rec = v.rec /\ FailRow(v, t).row[t].status \in Ended
<1> DEFINE s == IF v.row[t].status \in Open THEN "stage1_failed"
                ELSE IF v.row[t].status \in Ended THEN v.row[t].status ELSE "memory_failed"
           w == [v EXCEPT !.row[t].status = s]
<1>0. v \in StoreType /\ v.row \in [Turns -> Row] /\ v.row[t] \in Row
  BY StoreFields DEF Sound
<1>1. v.row[t].status \in Ended \cup Open \cup Unfinished
  BY DEF Sound, Fits, Agree
<1>2. Closing(v.row[t].status, s) /\ s \in Ended
  BY <1>1 DEF Closing, Ended
<1>3. FailRow(v, t) = w
  BY DEF FailRow
<1> HIDE DEF s
<1>4. /\ Closes(v, w, t) /\ w.rec = v.rec /\ w.cp = v.cp /\ w.row[t].status = s
      /\ w.row = [v.row EXCEPT ![t] = [v.row[t] EXCEPT !.status = s]]
  BY <1>0, <1>2, RowCloses
<1> HIDE DEF w
<1>5. /\ w.row[t].first = v.row[t].first /\ w.row[t].answer = v.row[t].answer
      /\ w.row[t].second = v.row[t].second
      /\ \A u \in Turns : u # t => w.row[u] = v.row[u]
  BY <1>0, <1>4 DEF Row, Life
<1>6. s \notin Open \cup Unfinished /\ s # "stage2_active"
  BY <1>2 DEF Ended, Open, Unfinished
<1>7. Fits(w, t)
  BY <1>2, <1>4, <1>5, <1>6 DEF Sound, Fits, Agree
<1>8. Cleans(v, w, t)
  <2>1. Shut(v, t) => Shut(w, t)
    BY <1>4 DEF Shut
  <2>2. Closed(w, t)
    BY <1>2, <1>4 DEF Closed
  <2> QED
    BY <1>4, <1>5, <1>7, <2>1, <2>2, TurnCleans
<1> QED
  BY <1>2, <1>3, <1>4, <1>8

(***************************************************************************)
(* fail() and its note shut the turn.                                      *)
(***************************************************************************)
LEMMA NotedCleans ==
  ASSUME NEW t \in Turns, NEW v, Sound(v, t), v.rec[t].status # "gone",
         v.row[t].status \in Ended, NEW s \in Ended
  PROVE  Cleans(v, Noted(v, t, s), t) /\ Shut(Noted(v, t, s), t) /\ Noted(v, t, s).cp = v.cp
<1> DEFINE e == [v.rec[t] EXCEPT !.status = s]
           w == Noted(v, t, s)
<1>0. v \in StoreType /\ v.rec \in [Turns -> Rec] /\ v.rec[t] \in Rec
  BY StoreFields DEF Sound
<1>1. s # "gone" /\ s \notin Open \cup Distilling
  BY DEF Open, Distilling, Ended
<1>2. /\ e \in Rec /\ e.first = v.rec[t].first /\ e.status = s /\ e.answer = v.rec[t].answer
      /\ e.second = v.rec[t].second
  BY <1>0 DEF Rec, Life
<1>3. w = [v EXCEPT !.rec[t] = e]
  BY DEF Noted
<1> HIDE DEF e, w
<1>4. Closes(v, w, t) /\ w.row = v.row /\ w.cp = v.cp /\ w.rec = [v.rec EXCEPT ![t] = e]
  BY <1>0, <1>1, <1>2, <1>3, RecChanges
<1>5. w.rec[t] = e /\ \A u \in Turns : u # t => w.rec[u] = v.rec[u]
  BY <1>0, <1>4
<1>6. v.row[t].status \notin Open \cup Unfinished /\ v.row[t].status # "stage2_active"
  BY DEF Ended, Open, Unfinished
<1>7. Fits(w, t)
  BY <1>2, <1>4, <1>5, <1>6 DEF Sound, Fits, Agree
<1>8. Shut(w, t) /\ Closed(w, t) /\ w.rec[t].status \notin Distilling
  BY <1>1, <1>2, <1>4, <1>5 DEF Shut, Closed
<1>9. Cleans(v, w, t)
  BY <1>4, <1>5, <1>7, <1>8, TurnCleans
<1> QED
  BY <1>4, <1>8, <1>9 DEF w

(***************************************************************************)
(* fail() of the journal and of the record.                                *)
(***************************************************************************)
LEMMA FailCleans ==
  ASSUME NEW t \in Turns, NEW v, Sound(v, t), v.rec[t].status # "gone", NEW s \in Ended
  PROVE  /\ Cleans(v, Fail(v, t, s, TRUE), t) /\ Shut(Fail(v, t, s, TRUE), t)
         /\ Fail(v, t, s, TRUE).cp = v.cp
<1> DEFINE w == FailRow(v, t)
           x == Noted(w, t, s)
<1>1. Fail(v, t, s, TRUE) = x
  BY MayFailIt DEF Fail
<1>2. /\ Cleans(v, w, t) /\ w.cp = v.cp
      /\ w.rec = v.rec /\ w.row[t].status \in Ended
  BY FailRowCleans
<1> HIDE DEF w
<1>3. Sound(w, t) /\ w.rec[t].status # "gone"
  BY <1>2 DEF Cleans
<1>4. Cleans(w, x, t) /\ Shut(x, t) /\ x.cp = w.cp
  BY <1>2, <1>3, NotedCleans
<1> HIDE DEF x
<1> QED
  BY <1>1, <1>2, <1>4, CleansTwice

(***************************************************************************)
(* A turn that is open is suspended.                                       *)
(***************************************************************************)
LEMMA AwaitCleans ==
  ASSUME NEW t \in Turns, NEW v, Sound(v, t), v.rec[t].status # "gone", v.row[t].status \in Open
  PROVE  /\ Cleans(v, Await(v, t), t) /\ Await(v, t).cp = v.cp
         /\ Await(v, t).rec[t].status = "awaiting_tool" /\ Await(v, t).row[t].status \in Open
<1> DEFINE s == "awaiting_tool"
           e == [v.row[t] EXCEPT !.status = s]
           g == [v.rec[t] EXCEPT !.status = s]
           w == Await(v, t)
<1>0. /\ v \in StoreType /\ v.row \in [Turns -> Row] /\ v.row[t] \in Row
      /\ v.rec \in [Turns -> Rec] /\ v.rec[t] \in Rec /\ v.cp \in [Checkpoints -> Checkpoint]
  BY StoreFields DEF Sound
<1>1. Owned(v, t, TRUE)
  BY DEF Owned, Sound, Fits
<1>2. Closes(v, w, t) /\ w.cp = v.cp
  BY <1>0, <1>1, AwaitOf
<1>3. s \in Open /\ s \notin Ended \cup Distilling \cup Unfinished /\ s # "gone" /\ s # "stage2_active"
  BY DEF Open, Ended, Distilling, Unfinished
<1>4. w = [row |-> [v.row EXCEPT ![t] = e], rec |-> [v.rec EXCEPT ![t] = g], cp |-> v.cp]
  <2>1. Await(v, t) = [v EXCEPT !.row[t].status = s, !.rec[t].status = s]
    BY DEF Await
  <2>2. v = [row |-> v.row, rec |-> v.rec, cp |-> v.cp]
    BY <1>0 DEF StoreType
  <2> HIDE DEF s
  <2> QED
    BY <2>1, <2>2
<1> HIDE DEF w
<1>5. /\ e.status = s /\ e.first = v.row[t].first /\ e.answer = v.row[t].answer
      /\ e.second = v.row[t].second
      /\ g.status = s /\ g.first = v.rec[t].first /\ g.answer = v.rec[t].answer
      /\ g.second = v.rec[t].second
  BY <1>0 DEF Row, Rec, Life
<1> HIDE DEF e, g, s
<1>6. /\ w.row[t] = e /\ w.rec[t] = g
      /\ \A u \in Turns : u # t => w.row[u] = v.row[u] /\ w.rec[u] = v.rec[u]
  BY <1>0, <1>4
<1>7. Fits(w, t)
  BY <1>3, <1>5, <1>6 DEF Sound, Fits, Agree
<1>8. v.row[t].status \notin Ended
  BY DEF Open, Ended
<1>9. ~Closed(v, t) /\ ~Shut(v, t)
  BY <1>8, ShutIsClosed DEF Closed, Sound
<1>10. Cleans(v, w, t)
  BY <1>2, <1>3, <1>5, <1>6, <1>7, <1>9, TurnCleans
<1> QED
  BY <1>2, <1>3, <1>5, <1>6, <1>10 DEF w, s

(***************************************************************************)
(* _agentic_mark_stage1_failure ends an open turn that nobody waits with.  *)
(***************************************************************************)
LEMMA MarkCleans ==
  ASSUME NEW t \in Turns, NEW v, Sound(v, t), NEW r, At(v, r, t)
  PROVE  /\ Cleans(v, Mark(v, r, TRUE), t) /\ Mark(v, r, TRUE).cp = v.cp
         /\ active[r] = t /\ v.rec[t].status \in Open \cup Ended =>
              Settled(Mark(v, r, TRUE), t)
         /\ active[r] = t /\ v.rec[t].status = "stage1_active" => Shut(Mark(v, r, TRUE), t)
         /\ active[r] = NoTurn => Mark(v, r, TRUE) = v
<1> DEFINE w == Mark(v, r, TRUE)
<1>1. active[r] \in {NoTurn, t} /\ t # NoTurn
  BY DEF At, Turns, NoTurn
<1>2. "stage1_failed" \in Ended
  BY DEF Ended
<1>3. CASE /\ active[r] = t /\ v.rec[t].status \in Open
           /\ ~(v.rec[t].status = "awaiting_tool" /\ Retained(v, t))
  <2>1. v.rec[t].status # "gone"
    BY <1>3 DEF Open
  <2>2. w = Fail(v, t, "stage1_failed", TRUE)
    BY <1>1, <1>3, <2>1 DEF Mark, Known
  <2>3. Cleans(v, w, t) /\ Shut(w, t) /\ w.cp = v.cp
    BY <1>2, <2>1, <2>2, FailCleans
  <2>4. Closed(w, t)
    BY <2>3, ShutIsClosed DEF Cleans, Sound
  <2> QED
    BY <1>1, <1>3, <2>3, <2>4 DEF Settled
<1>4. CASE ~(/\ active[r] = t /\ v.rec[t].status \in Open
             /\ ~(v.rec[t].status = "awaiting_tool" /\ Retained(v, t)))
  <2>1. w = v
    BY <1>1, <1>4 DEF Mark, Known
  <2>2. Cleans(v, v, t)
    BY CleansSelf
  <2>3. Retained(v, t) => Waiting(v, t)
    BY DEF Retained, Waiting, Waits
  <2>4. v.rec[t].status \in Ended => Closed(v, t)
    BY ShutIsClosed DEF Shut, Sound
  <2>5. "stage1_active" \in Open /\ "stage1_active" # "awaiting_tool"
    BY DEF Open
  <2> QED
    BY <1>4, <2>1, <2>2, <2>3, <2>4, <2>5 DEF Settled
<1> QED
  BY <1>3, <1>4

(***************************************************************************)
(* _agentic_phase3g_close_scope.                                           *)
(***************************************************************************)
LEMMA CloseScopeCleans ==
  ASSUME NEW t \in Turns, NEW v, Sound(v, t), NEW r, At(v, r, t)
  PROVE  LET c == own[r]
             w == CloseScope(v, r, TRUE)
         IN /\ Cleans(v, w, t)
            /\ c = NoCheckpoint => w = v
            /\ held[r] = NoAnswer /\ Waiting(v, t) => Settled(w, t)
            /\ held[r] = NoAnswer /\ c # NoCheckpoint /\ v.rec[t].status # "gone" =>
                 /\ v.row[t].status \in Open /\ v.cp[c].state \in {"live", "expired"} =>
                      Waiting(w, t)
                 /\ v.row[t].status \in Unfinished => w = v
            /\ held[r] # NoAnswer /\ c # NoCheckpoint /\ v.rec[t].status \in Distilling =>
                 /\ w.rec = v.rec
                 /\ v.cp[c].answer = NoAnswer => w.cp[c].answer = NoAnswer
                 /\ v.cp[c].answer # NoAnswer /\ v.cp[c].state \in {"live", "expired"} =>
                      Waiting(w, t)
<1> DEFINE c == own[r]
           w == CloseScope(v, r, TRUE)
           goal == /\ Cleans(v, w, t)
                   /\ c = NoCheckpoint => w = v
                   /\ held[r] = NoAnswer /\ Waiting(v, t) => Settled(w, t)
                   /\ held[r] = NoAnswer /\ c # NoCheckpoint /\ v.rec[t].status # "gone" =>
                        /\ v.row[t].status \in Open /\ v.cp[c].state \in {"live", "expired"} =>
                             Waiting(w, t)
                        /\ v.row[t].status \in Unfinished => w = v
                   /\ held[r] # NoAnswer /\ c # NoCheckpoint /\ v.rec[t].status \in Distilling =>
                        /\ w.rec = v.rec
                        /\ v.cp[c].answer = NoAnswer => w.cp[c].answer = NoAnswer
                        /\ v.cp[c].answer # NoAnswer /\ v.cp[c].state \in {"live", "expired"} =>
                             Waiting(w, t)
<1> SUFFICES goal
  OBVIOUS
<1>1. /\ c \in Checkpoints \cup {NoCheckpoint} /\ t # NoTurn
      /\ c # NoCheckpoint => v.cp[c].state # "unused" /\ v.cp[c].turn = t
  BY DEF At, Turns, NoTurn
<1>2. /\ Cleans(v, v, t) /\ Cleans(v, Retire(v, c), t) /\ Cleans(v, Rearm(v, c), t)
      /\ Rearm(v, c).rec = v.rec /\ Retire(v, c).rec = v.rec
      /\ Waiting(v, t) => Waiting(Rearm(v, c), t)
      /\ c # NoCheckpoint /\ v.cp[c].state \in {"live", "expired"} => Waiting(Rearm(v, c), t)
      /\ c # NoCheckpoint => Retire(v, c).cp[c].answer = v.cp[c].answer
      /\ c # NoCheckpoint => Rearm(v, c).cp[c].answer = v.cp[c].answer
  BY <1>1, CleansSelf, RearmCleans, RetireCleans
<1>3. /\ Fits(v, t)
      /\ v.rec[t].status \in Ended => v.row[t].status \in Ended
      /\ v.row[t].status \in Open => v.row[t].first = v.rec[t].first \/ v.rec[t].status = "gone"
  BY DEF Sound, Fits, Agree, Open, Distilling, Ended
<1>4. /\ \A s \in Ended : s \notin Open \cup Unfinished \cup Distilling /\ s # "gone"
      /\ \A s \in Open : s \notin Unfinished \cup Distilling /\ s # "gone"
      /\ \A s \in Distilling : s # "gone"
  BY DEF Open, Ended, Unfinished, Distilling
<1> HIDE DEF c, w
<1>5. CASE c = NoCheckpoint
  <2>1. w = v
    BY <1>5 DEF CloseScope, c, w
  <2> QED
    BY <1>2, <1>5, <2>1 DEF Settled
<1>6. CASE c # NoCheckpoint /\ held[r] # NoAnswer
  <2>1. w = IF v.cp[c].answer # NoAnswer /\ v.rec[t].status \in Distilling
            THEN Rearm(v, c) ELSE Retire(v, c)
    BY <1>1, <1>6 DEF CloseScope, c, w
  <2> QED
    BY <1>2, <1>6, <2>1
<1>7. CASE c # NoCheckpoint /\ held[r] = NoAnswer /\ v.rec[t].status \in Ended
  <2>1. w = Retire(v, c)
    BY <1>1, <1>7 DEF CloseScope, c, w
  <2>2. Closed(v, t)
    BY <1>3, <1>7 DEF Closed
  <2>3. Closed(w, t)
    BY <1>2, <2>1, <2>2 DEF Cleans
  <2>4. v.row[t].status \notin Open \cup Unfinished
    BY <1>3, <1>4, <1>7
  <2> QED
    BY <1>2, <1>7, <2>1, <2>3, <2>4 DEF Settled
<1>8. CASE c # NoCheckpoint /\ held[r] = NoAnswer /\ v.rec[t].status = "gone"
  <2>1. w = Rearm(v, c)
    BY <1>1, <1>4, <1>8 DEF CloseScope, Known, c, w
  <2> QED
    BY <1>2, <1>8, <2>1 DEF Settled
<1>9. CASE /\ c # NoCheckpoint /\ held[r] = NoAnswer /\ v.rec[t].status \notin Ended \cup {"gone"}
           /\ v.row[t].status \in Open
  <2> DEFINE x == Await(v, t)
  <2>1. Owned(v, t, TRUE)
    BY <1>3, <1>9 DEF Owned
  <2>2. w = Rearm(x, c)
    BY <1>1, <1>9, <2>1 DEF CloseScope, Known, c, w
  <2>3. Cleans(v, x, t) /\ x.cp = v.cp
    BY <1>9, AwaitCleans
  <2> HIDE DEF x
  <2>4. Sound(x, t) /\ (c # NoCheckpoint => x.cp[c].state # "unused" /\ x.cp[c].turn = t)
    BY <1>1, <2>3 DEF Cleans
  <2>5. /\ Cleans(x, w, t)
        /\ Waiting(x, t) => Waiting(w, t)
        /\ x.cp[c].state \in {"live", "expired"} => Waiting(w, t)
    BY <1>1, <1>9, <2>2, <2>4, RearmCleans
  <2>6. Cleans(v, w, t)
    BY <2>3, <2>5, CleansTwice
  <2>7. Waiting(v, t) => Waiting(x, t)
    BY <2>3 DEF Waiting
  <2> QED
    BY <1>4, <1>9, <2>3, <2>5, <2>6, <2>7 DEF Settled
<1>10. CASE /\ c # NoCheckpoint /\ held[r] = NoAnswer
            /\ v.rec[t].status \notin Ended \cup {"gone"} /\ v.row[t].status \notin Open
  <2>1. w = v
    BY <1>1, <1>10 DEF CloseScope, Known, Owned, c, w
  <2> QED
    BY <1>2, <1>10, <2>1 DEF Settled
<1> QED
  BY <1>5, <1>6, <1>7, <1>8, <1>9, <1>10

(***************************************************************************)
(* _agentic_forensic_close_request.                                        *)
(***************************************************************************)
LEMMA CloseRequestCleans ==
  ASSUME NEW t \in Turns, NEW v, Sound(v, t), NEW r, At(v, r, t)
  PROVE  LET c == own[r]
             w == CloseRequest(v, r, TRUE)
         IN /\ Cleans(v, w, t) /\ w.cp = v.cp
            /\ active[r] = NoTurn => w = v
            /\ active[r] = t /\ v.rec[t].status = "stage1_active" => Shut(w, t)
            /\ active[r] = t /\ v.rec[t].status \in Distilling =>
                 Shut(w, t) \/ (c # NoCheckpoint /\ v.cp[c].answer # NoAnswer)
<1> DEFINE c == own[r]
           w == CloseRequest(v, r, TRUE)
           keeps == /\ c # NoCheckpoint /\ v.cp[c].answer # NoAnswer /\ ~v.cp[c].inFlight
                    /\ v.rec[t].status \in Distilling
           works == active[r] = t /\ v.rec[t].status \in {"stage1_active"} \cup Distilling
<1>1. active[r] \in {NoTurn, t} /\ t # NoTurn
  BY DEF At, Turns, NoTurn
<1>2. "stage1_active" \notin Distilling /\ "gone" \notin Distilling
  BY DEF Distilling
<1>3. CASE works /\ ~keeps
  <2>1. v.rec[t].status # "gone"
    BY <1>2, <1>3
  <2>2. \E s \in {"stage1_failed", "memory_failed"} : w = Fail(v, t, s, TRUE)
    BY <1>1, <1>3, <2>1 DEF CloseRequest, Known
  <2>3. PICK s \in Ended : w = Fail(v, t, s, TRUE)
    BY <2>2 DEF Ended
  <2>4. Cleans(v, w, t) /\ Shut(w, t) /\ w.cp = v.cp
    BY <2>1, <2>3, FailCleans
  <2> QED
    BY <1>1, <1>3, <2>4
<1>4. CASE ~works \/ keeps
  <2>1. w = v
    BY <1>1, <1>4 DEF CloseRequest, Known
  <2> QED
    BY <1>2, <1>4, <2>1, CleansSelf
<1> QED
  BY <1>3, <1>4

(***************************************************************************)
(* The end of run() and of stream() cleans up after its turn, and leaves   *)
(* one that was settled without an answer settled.                         *)
(***************************************************************************)
LEMMA CloseCleans ==
  ASSUME NEW t \in Turns, NEW v, Sound(v, t), NEW r, At(v, r, t)
  PROVE  /\ Cleans(v, Close(v, r, TRUE), t)
         /\ Closed(v, t) \/ (held[r] = NoAnswer /\ Waiting(v, t)) =>
              Settled(Close(v, r, TRUE), t)
<1> DEFINE w == CloseScope(v, r, TRUE)
           x == CloseRequest(w, r, TRUE)
<1>1. /\ Cleans(v, w, t)
      /\ held[r] = NoAnswer /\ Waiting(v, t) => Settled(w, t)
  BY CloseScopeCleans
<1>2. Close(v, r, TRUE) = x
  BY DEF Close
<1> HIDE DEF w
<1>3. Sound(w, t) /\ At(w, r, t)
  BY <1>1, AtOn DEF Cleans
<1>4. Cleans(w, x, t) /\ x.cp = w.cp
  BY <1>3, CloseRequestCleans
<1> HIDE DEF x
<1>5. Cleans(v, x, t)
  BY <1>1, <1>4, CleansTwice
<1>6. Settled(w, t) => Settled(x, t)
  BY <1>4 DEF Cleans, Settled, Waiting
<1>7. Closed(v, t) => Settled(x, t)
  BY <1>5 DEF Cleans, Settled
<1> QED
  BY <1>1, <1>2, <1>5, <1>6, <1>7

(***************************************************************************)
(* What is settled stays settled when a checkpoint is given back.          *)
(***************************************************************************)
LEMMA RearmSettles ==
  ASSUME NEW t \in Turns, NEW v, Sound(v, t), NEW r, At(v, r, t)
  PROVE  /\ Cleans(v, Rearm(v, own[r]), t)
         /\ Settled(v, t) => Settled(Rearm(v, own[r]), t)
<1>1. Cleans(v, Rearm(v, own[r]), t) /\ (Waiting(v, t) => Waiting(Rearm(v, own[r]), t))
  BY RearmCleans DEF At
<1> QED
  BY <1>1 DEF Settled, Cleans

(***************************************************************************)
(* A request that leaves in the middle of a stage settles its turn.        *)
(***************************************************************************)
LEMMA BusySettles ==
  ASSUME NEW t \in Turns, NEW v, Sound(v, t), NEW r, At(v, r, t), active[r] = t,
         \/ held[r] = NoAnswer /\ v.rec[t].status = "stage1_active"
         \/ held[r] # NoAnswer /\ v.rec[t].status \in Distilling,
         own[r] # NoCheckpoint => v.cp[own[r]].state \in {"live", "expired"}
  PROVE  Settled(Close(v, r, TRUE), t)
<1> DEFINE c == own[r]
           w == CloseScope(v, r, TRUE)
           x == CloseRequest(w, r, TRUE)
<1>1. /\ Cleans(v, w, t)
      /\ c = NoCheckpoint => w = v
      /\ held[r] = NoAnswer /\ c # NoCheckpoint /\ v.rec[t].status # "gone" =>
           (v.row[t].status \in Open /\ v.cp[c].state \in {"live", "expired"} => Waiting(w, t))
      /\ held[r] # NoAnswer /\ c # NoCheckpoint /\ v.rec[t].status \in Distilling =>
           /\ w.rec = v.rec
           /\ v.cp[c].answer = NoAnswer => w.cp[c].answer = NoAnswer
           /\ v.cp[c].answer # NoAnswer /\ v.cp[c].state \in {"live", "expired"} => Waiting(w, t)
  BY CloseScopeCleans
<1>2. Close(v, r, TRUE) = x
  BY DEF Close
<1> HIDE DEF w
<1>3. Sound(w, t) /\ At(w, r, t)
  BY <1>1, AtOn DEF Cleans
<1>4. /\ Cleans(w, x, t) /\ x.cp = w.cp
      /\ w.rec[t].status = "stage1_active" => Shut(x, t)
      /\ w.rec[t].status \in Distilling =>
           Shut(x, t) \/ (c # NoCheckpoint /\ w.cp[c].answer # NoAnswer)
  BY <1>3, CloseRequestCleans
<1> HIDE DEF x
<1>5. Waiting(w, t) => Settled(x, t)
  BY <1>4 DEF Settled, Waiting
<1>6. Shut(x, t) => Settled(x, t)
  BY <1>4, ShutIsClosed DEF Settled, Cleans, Sound
<1>7. CASE held[r] = NoAnswer /\ v.rec[t].status = "stage1_active" /\ c # NoCheckpoint
  <2>1. v.row[t].status \in Open \cup Ended
    BY <1>7 DEF Sound, Fits, Agree, Distilling
  <2>2. v.row[t].status \in Ended => Settled(x, t)
    <3>1. v.row[t].status \in Ended => Closed(x, t)
      BY <1>1, <1>4 DEF Cleans, Closed
    <3> QED
      BY <3>1 DEF Settled
  <2> QED
    BY <1>1, <1>2, <1>5, <1>7, <2>1, <2>2
<1> QED
  BY <1>1, <1>2, <1>4, <1>5, <1>6, <1>7

(***************************************************************************)
(* So does one that has claimed a checkpoint and not begun.                *)
(***************************************************************************)
LEMMA ClaimedSettles ==
  ASSUME NEW t \in Turns, NEW v, Sound(v, t), NEW r, At(v, r, t), active[r] = NoTurn,
         held[r] = NoAnswer, own[r] # NoCheckpoint,
         Shut(v, t) \/ v.cp[own[r]].state \in {"live", "expired"}
  PROVE  /\ Settled(Rearm(Close(v, r, TRUE), own[r]), t)
         /\ Settled(Close(Rearm(v, own[r]), r, TRUE), t)
<1> DEFINE c == own[r]
           w == CloseScope(v, r, TRUE)
           x == CloseRequest(w, r, TRUE)
           y == Rearm(v, c)
<1>0. Shut(v, t) => Closed(v, t)
  BY ShutIsClosed DEF Sound
<1>1. /\ Cleans(v, w, t)
      /\ v.rec[t].status # "gone" =>
           /\ v.row[t].status \in Open /\ v.cp[c].state \in {"live", "expired"} => Waiting(w, t)
           /\ v.row[t].status \in Unfinished => w = v
  <2>1. /\ Cleans(v, w, t)
        /\ held[r] = NoAnswer /\ c # NoCheckpoint /\ v.rec[t].status # "gone" =>
             /\ v.row[t].status \in Open /\ v.cp[c].state \in {"live", "expired"} => Waiting(w, t)
             /\ v.row[t].status \in Unfinished => w = v
    BY CloseScopeCleans
  <2> HIDE DEF w
  <2> QED
    BY <2>1
<1>2. Close(v, r, TRUE) = x
  BY DEF Close
<1> HIDE DEF w
<1>3. Sound(w, t) /\ At(w, r, t)
  BY <1>1, AtOn DEF Cleans
<1>4. x = w
  BY <1>3, CloseRequestCleans
<1>5. /\ Cleans(v, y, t)
      /\ v.cp[c].state \in {"live", "expired"} => Waiting(y, t)
  BY RearmCleans DEF At
<1>6. Settled(Rearm(x, c), t)
  <2>1. CASE Closed(v, t)
    <3>1. Settled(w, t)
      BY <1>1, <2>1 DEF Cleans, Settled
    <3> QED
      BY <1>3, <1>4, <3>1, RearmSettles
  <2>2. CASE ~Closed(v, t)
    <3>1. v.rec[t].status # "gone" /\ v.row[t].status \in Open \cup Unfinished
      BY <2>2 DEF Closed, Sound, Fits, Agree
    <3>2. v.cp[c].state \in {"live", "expired"}
      BY <1>0, <2>2
    <3>3. CASE v.row[t].status \in Open
      <4>1. Settled(w, t)
        BY <1>1, <3>1, <3>2, <3>3 DEF Settled
      <4> QED
        BY <1>3, <1>4, <4>1, RearmSettles
    <3>4. CASE v.row[t].status \in Unfinished
      BY <1>1, <1>4, <1>5, <3>1, <3>2, <3>4 DEF Settled
    <3> QED
      BY <3>1, <3>3, <3>4
  <2> QED
    BY <2>1, <2>2
<1> HIDE DEF x, y
<1>7. Settled(Close(y, r, TRUE), t)
  <2>1. Sound(y, t) /\ At(y, r, t)
    BY <1>5, AtOn DEF Cleans
  <2>2. Closed(y, t) \/ Waiting(y, t)
    BY <1>0, <1>5 DEF Cleans
  <2> QED
    BY <2>1, <2>2, CloseCleans
<1> QED
  BY <1>2, <1>6, <1>7 DEF y

-----------------------------------------------------------------------------
(* How the steps of one request end, when the journal works.                *)

\* The stores become what v is after a cleanup that settles the turn t, and
\* the request goes to one of places.
Ends(r, t, v, places) ==
  \E w : /\ Become(w) /\ Cleans(v, w, t) /\ Settled(w, t)
         /\ \E p \in places : Goto(r, p)

(***************************************************************************)
(* An exception settles the turn of its request.                           *)
(***************************************************************************)
LEMMA RaiseEnds ==
  ASSUME NEW t \in Turns, NEW v, Sound(v, t), NEW r, At(v, r, t), Raise(r, v, TRUE),
         transport[r] \in {"stream", "nonstream"},
         \/ v.rec[t].status = "gone"
         \/ active[r] = t /\ v.rec[t].status \in Open \cup Ended
         \/ /\ active[r] = NoTurn /\ held[r] = NoAnswer /\ own[r] # NoCheckpoint
            /\ Shut(v, t) \/ v.cp[own[r]].state \in {"live", "expired"}
  PROVE  Ends(r, t, v, {"failing", "error"})
<1> DEFINE u == IF transport[r] = "nonstream" THEN Rearm(v, own[r]) ELSE v
           w == Close(u, r, TRUE)
           x == Mark(w, r, TRUE)
           y == Rearm(x, own[r])
<1>1. Cleans(v, u, t) /\ Sound(u, t) /\ At(u, r, t)
  <2>1. Cleans(v, u, t)
    BY RearmSettles, CleansSelf
  <2> HIDE DEF u
  <2> QED
    BY <2>1, AtOn DEF Cleans
<1>2. \/ Become(y) /\ Goto(r, "failing") /\ transport[r] = "stream"
      \/ Become(x) /\ Goto(r, "error") /\ transport[r] = "nonstream"
  BY DEF Raise
<1>4. ASSUME active[r] = NoTurn, v.rec[t].status # "gone"
      PROVE  /\ transport[r] = "stream" => Settled(Rearm(w, own[r]), t)
             /\ transport[r] = "nonstream" => Settled(w, t)
  <2>1. /\ held[r] = NoAnswer /\ own[r] # NoCheckpoint
        /\ Shut(v, t) \/ v.cp[own[r]].state \in {"live", "expired"}
    BY <1>4 DEF Turns, NoTurn
  <2> QED
    BY <1>4, <2>1, ClaimedSettles
<1> HIDE DEF u
<1>5. Cleans(u, w, t)
  BY <1>1, CloseCleans
<1> HIDE DEF w
<1>6. Cleans(v, w, t) /\ Sound(w, t) /\ At(w, r, t)
  <2>1. Cleans(v, w, t)
    BY <1>1, <1>5, CleansTwice
  <2> QED
    BY <2>1, AtOn DEF Cleans
<1>7. /\ Cleans(w, x, t)
      /\ active[r] = t /\ w.rec[t].status \in Open \cup Ended => Settled(x, t)
      /\ active[r] = NoTurn => x = w
  BY <1>6, MarkCleans
<1> HIDE DEF x
<1>8. Cleans(v, x, t) /\ Sound(x, t) /\ At(x, r, t)
  <2>1. Cleans(v, x, t)
    BY <1>6, <1>7, CleansTwice
  <2> QED
    BY <2>1, AtOn DEF Cleans
<1>9. Cleans(x, y, t) /\ (Settled(x, t) => Settled(y, t))
  BY <1>8, RearmSettles
<1>10. Cleans(v, y, t)
  BY <1>8, <1>9, CleansTwice
<1>11. /\ transport[r] = "stream" => Settled(y, t)
       /\ transport[r] = "nonstream" => Settled(x, t)
  <2>1. CASE v.rec[t].status = "gone"
    <3>1. Closed(v, t)
      BY <2>1 DEF Closed
    <3>2. Settled(x, t)
      BY <1>8, <3>1 DEF Cleans, Settled
    <3> QED
      BY <1>9, <3>2
  <2>2. CASE v.rec[t].status # "gone" /\ active[r] = t
    <3>1. v.rec[t].status \in Open \cup Ended
      BY <2>2 DEF Turns, NoTurn
    <3>2. v.rec[t].status \notin Distilling
      BY <3>1 DEF Open, Ended, Distilling
    <3>3. w.rec[t].status \in Open \cup Ended
      <4>1. w.rec[t].status \notin Distilling
        BY <1>6, <3>2 DEF Cleans
      <4>2. w.rec[t].status # "gone"
        BY <1>6, <2>2 DEF Cleans, Closes
      <4>3. w.rec[t] \in Rec
        BY <1>6, StoreFields DEF Sound
      <4> QED
        BY <4>1, <4>2, <4>3, LifeFields
    <3> QED
      BY <1>7, <1>9, <2>2, <3>3
  <2>3. CASE v.rec[t].status # "gone" /\ active[r] = NoTurn
    BY <1>4, <1>7, <1>9, <2>3 DEF y
  <2> QED
    BY <2>1, <2>2, <2>3 DEF At
<1>12. CASE Become(y) /\ Goto(r, "failing") /\ transport[r] = "stream"
  <2>1. Settled(y, t)
    BY <1>11, <1>12
  <2> HIDE DEF y
  <2>2. \E p \in {"failing", "error"} : Goto(r, p)
    BY <1>12
  <2> QED
    BY <1>10, <1>12, <2>1, <2>2 DEF Ends
<1>13. CASE Become(x) /\ Goto(r, "error") /\ transport[r] = "nonstream"
  <2>1. Settled(x, t)
    BY <1>11, <1>13
  <2>2. \E p \in {"failing", "error"} : Goto(r, p)
    BY <1>13
  <2> QED
    BY <1>8, <1>13, <2>1, <2>2 DEF Ends
<1> QED
  BY <1>2, <1>12, <1>13

\* A result goes out at p, or has gone out, and the turn is closed or waits
\* for its tools.
Sends(r, t, v, p) ==
  \E w : /\ Become(w) /\ Cleans(v, w, t)
         /\ \/ Goto(r, p) /\ (Closed(w, t) \/ (held[r] = NoAnswer /\ Waiting(w, t)))
            \/ Settled(w, t) /\ \E q \in {"answered", "responding"} : Goto(r, q)

(***************************************************************************)
(* What follows a cleanup.                                                 *)
(***************************************************************************)
LEMMA SendsAfter ==
  ASSUME NEW r, NEW t, NEW v, NEW w, NEW p, Cleans(v, w, t), Sends(r, t, w, p)
  PROVE  Sends(r, t, v, p)
<1>1. PICK x : /\ Become(x) /\ Cleans(w, x, t)
               /\ \/ Goto(r, p) /\ (Closed(x, t) \/ (held[r] = NoAnswer /\ Waiting(x, t)))
                  \/ Settled(x, t) /\ \E q \in {"answered", "responding"} : Goto(r, q)
  BY DEF Sends
<1>2. Cleans(v, x, t)
  BY <1>1, CleansTwice
<1> QED
  BY <1>1, <1>2 DEF Sends

(***************************************************************************)
(* A result of a turn that is over, or waits for its tools.                *)
(***************************************************************************)
LEMMA SendEnds ==
  ASSUME NEW t \in Turns, NEW v, Sound(v, t), NEW r, At(v, r, t), NEW p, Send(r, v, TRUE, p),
         Closed(v, t) \/ (held[r] = NoAnswer /\ Waiting(v, t))
  PROVE  Sends(r, t, v, p)
<1>1. CASE transport[r] = "stream"
  <2>1. Become(v) /\ Goto(r, p) /\ Cleans(v, v, t)
    BY <1>1, CleansSelf DEF Send
  <2> QED
    BY <2>1 DEF Sends
<1>2. CASE transport[r] # "stream"
  <2> DEFINE w == Close(v, r, TRUE)
  <2>1. Become(w) /\ Goto(r, IF p = "committed" THEN "responding" ELSE "answered")
    BY <1>2 DEF Send, Left
  <2>2. Cleans(v, w, t) /\ Settled(w, t)
    BY CloseCleans
  <2> HIDE DEF w
  <2>3. \E q \in {"answered", "responding"} : Goto(r, q)
    BY <2>1
  <2> QED
    BY <2>1, <2>2, <2>3 DEF Sends
<1> QED
  BY <1>1, <1>2

(***************************************************************************)
(* Giving up Stage 2 closes the turn and never raises.                     *)
(***************************************************************************)
LEMMA DegradeEnds ==
  ASSUME NEW t \in Turns, NEW v, Sound(v, t), NEW r, At(v, r, t), Degrade(r, v, TRUE),
         v.rec[t].status = "gone" \/ active[r] = t
  PROVE  Sends(r, t, v, "sending")
<1>1. ASSUME NEW w, Cleans(v, w, t), Closed(w, t), Send(r, Retire(w, own[r]), TRUE, "sending")
      PROVE  Sends(r, t, v, "sending")
  <2> DEFINE x == Retire(w, own[r])
  <2>1. Sound(w, t) /\ At(w, r, t)
    BY <1>1, AtOn DEF Cleans
  <2>2. Cleans(w, x, t)
    BY <2>1, RetireCleans DEF At
  <2>3. Send(r, x, TRUE, "sending")
    BY <1>1
  <2> HIDE DEF x
  <2>4. Sound(x, t) /\ At(x, r, t) /\ Closed(x, t)
    BY <1>1, <2>1, <2>2, AtOn DEF Cleans
  <2>5. Sends(r, t, x, "sending")
    BY <2>3, <2>4, SendEnds
  <2>6. Cleans(v, x, t)
    BY <1>1, <2>2, CleansTwice
  <2> QED
    BY <2>5, <2>6, SendsAfter
<1>2. active[r] \in {NoTurn, t} /\ t # NoTurn
  BY DEF At, Turns, NoTurn
<1>3. CASE v.rec[t].status = "gone"
  <2>1. Send(r, Retire(v, own[r]), TRUE, "sending")
    BY <1>2, <1>3 DEF Degrade, Known
  <2>2. Closed(v, t)
    BY <1>3 DEF Closed
  <2> QED
    BY <1>1, <2>1, <2>2, CleansSelf
<1>4. CASE v.rec[t].status # "gone"
  <2> DEFINE w == FailRow(v, t)
             n == Noted(w, t, "memory_failed")
  <2>1. active[r] = t /\ Known(v, t) /\ MayFail(v, t)
    BY <1>2, <1>4, MayFailIt DEF Known
  <2>2. \/ Send(r, Retire(w, own[r]), TRUE, "sending")
        \/ Send(r, Retire(n, own[r]), TRUE, "sending")
    BY <2>1 DEF Degrade
  <2>3. Cleans(v, w, t) /\ w.rec = v.rec /\ w.row[t].status \in Ended
    BY <1>4, FailRowCleans
  <2> HIDE DEF w
  <2>4. Cleans(w, n, t)
    <3>1. Sound(w, t) /\ w.rec[t].status # "gone" /\ "memory_failed" \in Ended
      BY <1>4, <2>3 DEF Cleans, Ended
    <3> QED
      BY <2>3, <3>1, NotedCleans
  <2>5. Closed(w, t)
    BY <2>3 DEF Closed
  <2> HIDE DEF n
  <2>6. Cleans(v, n, t) /\ Closed(n, t)
    BY <2>3, <2>4, <2>5, CleansTwice DEF Cleans
  <2> QED
    BY <1>1, <2>2, <2>3, <2>5, <2>6
<1> QED
  BY <1>3, <1>4

-----------------------------------------------------------------------------
(* The inductive invariant of one permit.                                   *)

Working == Holding \cup {"budget"}

\* What a request at p, bound to turn a and to the checkpoint o, with the
\* answer h, has made of its turn t.
Stands(v, p, a, o, h, t) ==
  /\ p \in {"idle", "claimed", "stage1"} => h = NoAnswer
  /\ h # NoAnswer => p \notin {"failing", "error"}
  /\ p \in {"stage1", "frozen", "stage2", "sending", "committed", "budget"} =>
       a = t \/ v.rec[t].status = "gone"
  /\ p = "stage1" => v.rec[t].status \in {"gone", "stage1_active"}
  /\ p \in {"frozen", "stage2"} => v.rec[t].status \in {"gone"} \cup Distilling
  /\ p \in {"claimed", "stage1", "frozen", "stage2"} /\ o # NoCheckpoint =>
       Shut(v, t) \/ v.cp[o].state \in {"live", "expired"}
  /\ p = "budget" => Shut(v, t)
  /\ p \in {"sending", "committed"} => Closed(v, t) \/ (h = NoAnswer /\ Waiting(v, t))

\* At most one request is at work, on a turn of its own, and whatever is not
\* closed waits or is worked on.
Alone == \A q, r \in Requests : place[q] \in Holding /\ place[r] \in Holding => q = r
Placed == \A r \in Requests : place[r] \in Working => TurnOf(r) \in 1..minted
Standing ==
  \A r \in Requests : Stands(Stores, place[r], active[r], own[r], held[r], TurnOf(r))
Heirs ==
  \A t \in Turns :
    Settled(Stores, t) \/ \E r \in Requests : place[r] \in Working /\ TurnOf(r) = t

Lone ==
  /\ \A t \in Turns : Fits(Stores, t)
  /\ StoreFits(Stores) /\ Alone /\ Placed /\ Standing /\ Heirs

(***************************************************************************)
(* The stores after a step.                                                *)
(***************************************************************************)
LEMMA StoresNext ==
  ASSUME NEW w \in StoreType, Become(w)
  PROVE  Stores' = w
BY DEF StoreType, Become, Stores

(***************************************************************************)
(* A request whose turn is not touched stands as it stood.                 *)
(***************************************************************************)
LEMMA StandsStill ==
  ASSUME NEW v, NEW w, NEW p, NEW a, NEW o, NEW h, NEW t, Stands(v, p, a, o, h, t),
         p \notin Holding, Shut(v, t) => Shut(w, t),
         w.rec[t].status = "gone" <=> v.rec[t].status = "gone"
  PROVE  Stands(w, p, a, o, h, t)
BY DEF Stands, Holding

(***************************************************************************)
(* What waits goes on waiting when another turn changes.                   *)
(***************************************************************************)
LEMMA OthersSettled ==
  ASSUME NEW v, NEW w, NEW t, NEW u \in Turns, u # t, OnlyOf(v, w, t)
  PROVE  /\ Closed(v, u) => Closed(w, u)
         /\ Waiting(v, u) => Waiting(w, u)
         /\ Settled(v, u) => Settled(w, u)
<1>1. Closed(v, u) => Closed(w, u)
  BY DEF OnlyOf, Closed
<1>2. ASSUME NEW d \in Checkpoints, Waits(v.cp[d], u) PROVE Waits(w.cp[d], u)
  <2>1. v.cp[d].turn # t /\ v.cp[d].state # "unused"
    BY <1>2 DEF Waits
  <2>2. w.cp[d] = v.cp[d]
    BY <2>1 DEF OnlyOf
  <2> QED
    BY <1>2, <2>2
<1> QED
  BY <1>1, <1>2 DEF Settled, Waiting

(***************************************************************************)
(* A request that does not move stays with its turn.                       *)
(***************************************************************************)
LEMMA TurnStays ==
  ASSUME Inv, NEW q \in Requests, own'[q] = own[q], active'[q] = active[q],
         \A c \in Checkpoints : cp[c].state # "unused" => cp'[c].turn = cp[c].turn
  PROVE  TurnOf(q)' = TurnOf(q)
<1>1. own[q] \in Checkpoints \cup {NoCheckpoint}
  BY DEF Inv, TypeOK
<1>2. own[q] # NoCheckpoint => cp[own[q]].state # "unused"
  BY DEF Inv, RequestInv, Engaged
<1> QED
  BY <1>1, <1>2 DEF TurnOf

(***************************************************************************)
(* One request moves, and changes no turn but its own.                     *)
(***************************************************************************)
LEMMA OneMoves ==
  ASSUME Inv, Lone, NEW r \in Requests, NEW t \in Turns, t \in 1..minted, minted' = minted,
         NEW w, Become(w), Sound(w, t), OnlyOf(Stores, w, t),
         Shut(Stores, t) => Shut(w, t), w.rec[t].status = "gone" <=> rec[t].status = "gone",
         \A c \in Checkpoints :
           cp[c].state # "unused" => w.cp[c].state # "unused" /\ w.cp[c].turn = cp[c].turn,
         place[r] \in Working => TurnOf(r) = t,
         NEW p, NEW a, NEW o, NEW h, Stands(w, p, a, o, h, t),
         place' = [place EXCEPT ![r] = p], active' = [active EXCEPT ![r] = a],
         own' = [own EXCEPT ![r] = o], held' = [held EXCEPT ![r] = h],
         (IF o = NoCheckpoint THEN a ELSE w.cp[o].turn) = t,
         \A q \in Requests \ {r} :
           place[q] \in Holding =>
             p \notin Holding /\ Stands(w, place[q], active[q], own[q], held[q], TurnOf(q)),
         p \in Working \/ Settled(w, t)
  PROVE  Lone'
<1>1. /\ place \in [Requests -> Places] /\ active \in [Requests -> Turns \cup {NoTurn}]
      /\ own \in [Requests -> Checkpoints \cup {NoCheckpoint}]
      /\ held \in [Requests -> Answers \cup {NoAnswer}]
  BY DEF Inv, TypeOK
<1>2. w \in StoreType /\ Fits(w, t) /\ StoreFits(w)
  BY DEF Sound
<1>3. Stores' = w /\ row' = w.row /\ rec' = w.rec /\ cp' = w.cp
  BY <1>2, StoresNext DEF Become
<1>4. Stores.row = row /\ Stores.rec = rec /\ Stores.cp = cp
  BY DEF Stores
<1>5. /\ place'[r] = p /\ active'[r] = a /\ own'[r] = o /\ held'[r] = h
      /\ \A q \in Requests \ {r} : /\ place'[q] = place[q] /\ active'[q] = active[q]
                                   /\ own'[q] = own[q] /\ held'[q] = held[q]
  BY <1>1
<1>6. TurnOf(r)' = t
  BY <1>3, <1>5 DEF TurnOf
<1>7. \A q \in Requests \ {r} : TurnOf(q)' = TurnOf(q)
  BY <1>3, <1>5, TurnStays
<1>8. \A u \in Turns : Fits(w, u)
  <2>1. \A u \in Turns : u # t => Fits(Stores, u) /\ w.row[u] = Stores.row[u] /\ w.rec[u] = Stores.rec[u]
    BY DEF Lone, OnlyOf
  <2>2. \A u \in Turns : u # t => Fits(w, u)
    BY <2>1 DEF Fits
  <2> QED
    BY <1>2, <2>2
<1>9. StoreFits(Stores)'
  BY <1>2, <1>3 DEF StoreFits
<1>10. Alone'
  BY <1>5 DEF Lone, Alone
<1>11. Placed'
  <2>1. ASSUME NEW q \in Requests, place'[q] \in Working
        PROVE  TurnOf(q)' \in 1..minted
    <3>1. CASE q = r
      BY <1>6, <3>1
    <3>2. CASE q # r
      BY <1>5, <1>7, <2>1, <3>2 DEF Lone, Placed
    <3> QED
      BY <3>1, <3>2
  <2> QED
    BY <2>1 DEF Placed
<1>12. ASSUME NEW q \in Requests
       PROVE  Stands(w, place'[q], active'[q], own'[q], held'[q], TurnOf(q)')
  <2>1. CASE q = r
    BY <1>5, <1>6, <2>1
  <2>2. CASE q # r /\ place[q] \in Holding
    BY <1>5, <1>7, <2>2
  <2>3. CASE q # r /\ place[q] \notin Holding
    <3>1. Stands(Stores, place[q], active[q], own[q], held[q], TurnOf(q))
      BY DEF Lone, Standing
    <3>2. CASE TurnOf(q) = t
      <4>1. Stands(w, place[q], active[q], own[q], held[q], t)
        BY <1>4, <2>3, <3>1, <3>2, StandsStill
      <4> QED
        BY <1>5, <1>7, <2>3, <3>2, <4>1
    <3>3. CASE TurnOf(q) # t /\ TurnOf(q) \in Turns
      <4>1. w.rec[TurnOf(q)] = rec[TurnOf(q)]
        BY <1>4, <3>3 DEF OnlyOf
      <4>2. Shut(Stores, TurnOf(q)) => Shut(w, TurnOf(q))
        BY <1>4, <4>1 DEF Shut
      <4>3. Stands(w, place[q], active[q], own[q], held[q], TurnOf(q))
        BY <1>4, <2>3, <3>1, <4>1, <4>2, StandsStill
      <4> QED
        BY <1>5, <1>7, <2>3, <4>3
    <3>4. CASE TurnOf(q) \notin Turns
      <4>1. place[q] \notin Working
        <5>1. minted \in 0..MaxTurns
          BY DEF Inv, TypeOK
        <5>2. 1..minted \subseteq Turns
          BY <5>1, AgenticConstants DEF Turns
        <5> QED
          BY <3>4, <5>2 DEF Lone, Placed
      <4>2. Stands(w, place[q], active[q], own[q], held[q], TurnOf(q))
        BY <2>3, <3>1, <4>1 DEF Stands, Working, Holding
      <4> QED
        BY <1>5, <1>7, <2>3, <4>2
    <3> QED
      BY <3>2, <3>3, <3>4
  <2> QED
    BY <2>1, <2>2, <2>3
<1>13. ASSUME NEW u \in Turns
       PROVE  Settled(w, u) \/ \E q \in Requests : place'[q] \in Working /\ TurnOf(q)' = u
  <2>1. CASE u = t
    BY <1>5, <1>6, <2>1
  <2>2. CASE u # t /\ Settled(Stores, u)
    BY <2>2, OthersSettled
  <2>3. CASE u # t /\ ~Settled(Stores, u)
    <3>1. PICK q \in Requests : place[q] \in Working /\ TurnOf(q) = u
      BY <2>3 DEF Lone, Heirs
    <3>2. q # r
      BY <2>3, <3>1
    <3> QED
      BY <1>5, <1>7, <3>1, <3>2
  <2> QED
    BY <2>1, <2>2, <2>3
<1>14. Standing' /\ Heirs'
  BY <1>3, <1>12, <1>13 DEF Standing, Heirs
<1>15. \A u \in Turns : Fits(Stores, u)'
  BY <1>3, <1>8
<1> QED
  BY <1>9, <1>10, <1>11, <1>14, <1>15 DEF Lone

(***************************************************************************)
(* What the invariant says of a request at work.                           *)
(***************************************************************************)
LEMMA LoneRequest ==
  ASSUME Inv, Lone, NEW r \in Requests
  PROVE  /\ Stands(Stores, place[r], active[r], own[r], held[r], TurnOf(r))
         /\ transport[r] \in {"stream", "nonstream"}
         /\ place[r] \in Working =>
              /\ TurnOf(r) \in Turns /\ TurnOf(r) \in 1..minted
              /\ Sound(Stores, TurnOf(r)) /\ At(Stores, r, TurnOf(r))
         /\ place[r] \in Holding =>
              place[r] \in Working /\ \A q \in Requests \ {r} : place[q] \notin Holding
<1>1. /\ transport[r] \in {"stream", "nonstream"} /\ minted \in 0..MaxTurns
      /\ own[r] \in Checkpoints \cup {NoCheckpoint} /\ active[r] \in Turns \cup {NoTurn}
  BY AgenticConstants DEF Inv, TypeOK
<1>2. 1..minted \subseteq Turns
  BY <1>1, AgenticConstants DEF Turns
<1>3. own[r] # NoCheckpoint =>
        cp[own[r]].state # "unused" /\ active[r] \in {NoTurn, cp[own[r]].turn}
  BY DEF Inv, RequestInv, Engaged
<1>4. Stores \in StoreType /\ Stores.cp = cp
  BY StoresTyped DEF Inv
<1>5. Stands(Stores, place[r], active[r], own[r], held[r], TurnOf(r))
  BY DEF Lone, Standing
<1>6. At(Stores, r, TurnOf(r))
  BY <1>1, <1>3, <1>4 DEF At, TurnOf
<1>7. place[r] \in Working => TurnOf(r) \in 1..minted
  BY DEF Lone, Placed
<1>8. place[r] \in Working => Sound(Stores, TurnOf(r))
  BY <1>2, <1>4, <1>7 DEF Lone, Sound
<1>9. place[r] \in Holding => \A q \in Requests \ {r} : place[q] \notin Holding
  BY DEF Lone, Alone
<1> QED
  BY <1>1, <1>2, <1>5, <1>6, <1>7, <1>8, <1>9 DEF Working

(***************************************************************************)
(* A request at work stands while one that is over cleans up after a turn  *)
(* that is shut.                                                           *)
(***************************************************************************)
LEMMA HolderStands ==
  ASSUME Inv, Lone, NEW q \in Requests, place[q] \in Holding, NEW t \in Turns, NEW w,
         Shut(Stores, t), Cleans(Stores, w, t)
  PROVE  Stands(w, place[q], active[q], own[q], held[q], TurnOf(q))
<1> DEFINE p == place[q]
           u == TurnOf(q)
<1>1. /\ Stands(Stores, p, active[q], own[q], held[q], u) /\ u \in Turns
      /\ own[q] \in Checkpoints \cup {NoCheckpoint}
      /\ own[q] # NoCheckpoint => Stores.cp[own[q]].turn = u /\ Stores.cp[own[q]].state # "unused"
  BY LoneRequest DEF At
<1>2. \A s \in Turns : w.rec[s].status = "gone" <=> Stores.rec[s].status = "gone"
  BY DEF Cleans, Closes
<1> HIDE DEF p, u
<1>3. CASE u = t
  <2>1. Shut(w, t) /\ (Closed(Stores, t) => Closed(w, t)) /\ Closed(Stores, t)
    BY ShutIsClosed DEF Cleans, Lone
  <2>2. p \in {"stage1", "frozen", "stage2"} => w.rec[t].status = "gone"
    <3>1. p \in {"stage1", "frozen", "stage2"} =>
            Stores.rec[t].status \in {"gone", "stage1_active"} \cup Distilling
      BY <1>1, <1>3 DEF Stands
    <3>2. Stores.rec[t].status \in {"gone"} \cup Ended
      BY DEF Shut
    <3>3. p \in {"stage1", "frozen", "stage2"} => Stores.rec[t].status = "gone"
      BY <3>1, <3>2 DEF Ended, Distilling
    <3> QED
      BY <1>2, <3>3
  <2>3. p \notin {"budget"}
    BY DEF p, Holding
  <2> QED
    BY <1>1, <1>2, <1>3, <2>1, <2>2, <2>3 DEF Stands, p, u
<1>4. CASE u # t
  <2>1. w.rec[u] = Stores.rec[u] /\ (Closed(Stores, u) => Closed(w, u))
        /\ (Waiting(Stores, u) => Waiting(w, u))
    BY <1>1, <1>4, OthersSettled DEF Cleans, OnlyOf
  <2>2. own[q] # NoCheckpoint => w.cp[own[q]] = Stores.cp[own[q]]
    BY <1>1, <1>4 DEF Cleans, OnlyOf
  <2>3. Shut(Stores, u) <=> Shut(w, u)
    BY <2>1 DEF Shut
  <2> QED
    BY <1>1, <2>1, <2>2, <2>3 DEF Stands, p, u
<1> QED
  BY <1>3, <1>4

\* From v to w only turn t has changed, and what was shut stays shut.
Touches(v, w, t) ==
  /\ Sound(w, t) /\ OnlyOf(v, w, t)
  /\ Shut(v, t) => Shut(w, t)
  /\ w.rec[t].status = "gone" <=> v.rec[t].status = "gone"
  /\ \A c \in Checkpoints :
       v.cp[c].state # "unused" => w.cp[c].state # "unused" /\ w.cp[c].turn = v.cp[c].turn

(***************************************************************************)
(* So does a cleanup.                                                      *)
(***************************************************************************)
LEMMA CleansTouches ==
  ASSUME NEW v, NEW w, NEW t \in Turns, Cleans(v, w, t)
  PROVE  Touches(v, w, t)
BY DEF Cleans, Closes, Touches

(***************************************************************************)
(* A cleanup after a turn was written.                                     *)
(***************************************************************************)
LEMMA TouchesThen ==
  ASSUME NEW t \in Turns, NEW v, NEW w, NEW x, Touches(v, w, t), Cleans(w, x, t)
  PROVE  Touches(v, x, t)
<1>1. Touches(w, x, t)
  BY CleansTouches
<1>2. OnlyOf(v, x, t)
  <2>1. \A u \in Turns : u # t => x.row[u] = v.row[u] /\ x.rec[u] = v.rec[u]
    BY <1>1 DEF Touches, OnlyOf
  <2>2. ASSUME NEW d \in Checkpoints, x.cp[d] # v.cp[d]
        PROVE  x.cp[d].turn = t /\ (v.cp[d].state = "unused" \/ v.cp[d].turn = t)
    <3>1. w.cp[d] # v.cp[d] => w.cp[d].turn = t /\ (v.cp[d].state = "unused" \/ v.cp[d].turn = t)
      BY DEF Touches, OnlyOf
    <3>2. x.cp[d] # w.cp[d] => x.cp[d].turn = t /\ (w.cp[d].state = "unused" \/ w.cp[d].turn = t)
      BY <1>1 DEF Touches, OnlyOf
    <3> QED
      BY <2>2, <3>1, <3>2
  <2> QED
    BY <2>1, <2>2 DEF OnlyOf
<1> QED
  BY <1>1, <1>2 DEF Touches

(***************************************************************************)
(* The request at work goes on with its turn, or leaves it settled; one    *)
(* that sends its last events may clean up after it.                       *)
(***************************************************************************)
LEMMA HolderMoves ==
  ASSUME Inv, Lone, NEW r \in Requests, place[r] \in Working, NEW w, Become(w),
         Touches(Stores, w, TurnOf(r)), NEW p, NEW a, NEW h, Goto(r, p),
         place[r] \in Holding \/ (p \notin Working /\ Cleans(Stores, w, TurnOf(r))),
         Stands(w, p, a, own[r], h, TurnOf(r)),
         active' = [active EXCEPT ![r] = a], held' = [held EXCEPT ![r] = h], own' = own,
         minted' = minted, own[r] = NoCheckpoint => a = active[r],
         p \in Working \/ Settled(w, TurnOf(r))
  PROVE  Lone'
<1> DEFINE t == TurnOf(r)
           o == own[r]
<1>1. /\ t \in Turns /\ t \in 1..minted
      /\ o \in Checkpoints \cup {NoCheckpoint}
      /\ o # NoCheckpoint => Stores.cp[o].state # "unused" /\ Stores.cp[o].turn = t
  BY LoneRequest DEF At
<1>2. /\ Sound(w, t) /\ OnlyOf(Stores, w, t) /\ (Shut(Stores, t) => Shut(w, t))
      /\ w.rec[t].status = "gone" <=> rec[t].status = "gone"
      /\ \A c \in Checkpoints :
           cp[c].state # "unused" => w.cp[c].state # "unused" /\ w.cp[c].turn = cp[c].turn
  BY DEF Touches, Stores
<1>3. own' = [own EXCEPT ![r] = o] /\ place' = [place EXCEPT ![r] = p]
  BY AsTheyWere DEF Goto
<1>4. (IF o = NoCheckpoint THEN a ELSE w.cp[o].turn) = t
  <2>1. o = NoCheckpoint => a = t
    BY DEF TurnOf
  <2>2. o # NoCheckpoint => w.cp[o].turn = t
    BY <1>1 DEF Touches
  <2> QED
    BY <2>1, <2>2
<1>5. Stands(w, p, a, o, h, t) /\ TurnOf(r) = t /\ (p \in Working \/ Settled(w, t))
  OBVIOUS
<1>6. \A q \in Requests \ {r} :
        place[q] \in Holding =>
          p \notin Holding /\ Stands(w, place[q], active[q], own[q], held[q], TurnOf(q))
  <2>1. CASE place[r] \in Holding
    BY <2>1, LoneRequest
  <2>2. CASE place[r] \notin Holding
    <3>1. Stands(Stores, place[r], active[r], own[r], held[r], t)
      BY LoneRequest
    <3>2. Shut(Stores, t)
      BY <2>2, <3>1 DEF Stands, Working
    <3>3. p \notin Holding /\ Cleans(Stores, w, t)
      BY <2>2 DEF Working
    <3> HIDE DEF t
    <3> QED
      BY <1>1, <3>2, <3>3, HolderStands
  <2> QED
    BY <2>1, <2>2
<1> HIDE DEF t, o
<1> QED
  BY <1>1, <1>2, <1>3, <1>4, <1>5, <1>6, OneMoves

(***************************************************************************)
(* A request that is over stands, whatever the stores.                     *)
(***************************************************************************)
LEMMA OverStands ==
  ASSUME NEW v, NEW a, NEW o, NEW h, NEW t
  PROVE  /\ \A p \in {"answered", "responding", "left", "spent"} : Stands(v, p, a, o, h, t)
         /\ h = NoAnswer => \A p \in {"failing", "error"} : Stands(v, p, a, o, h, t)
BY DEF Stands

(***************************************************************************)
(* A step that leaves a turn settled.                                      *)
(***************************************************************************)
LEMMA EndsKeeps ==
  ASSUME Inv, Lone, NEW r \in Requests, place[r] \in Working, NEW v,
         Cleans(Stores, v, TurnOf(r)), NEW places, Ends(r, TurnOf(r), v, places),
         \/ places \subseteq {"answered", "responding", "left", "spent"}
         \/ held[r] = NoAnswer /\ places \subseteq {"failing", "error"},
         UNCHANGED <<minted, active, own, held>>
  PROVE  Lone'
<1> DEFINE t == TurnOf(r)
<1>1. PICK w : /\ Become(w) /\ Cleans(v, w, t) /\ Settled(w, t)
               /\ \E p \in places : Goto(r, p)
  BY DEF Ends
<1>2. PICK p \in places : Goto(r, p)
  BY <1>1
<1>3. Stands(w, p, active[r], own[r], held[r], t)
  BY OverStands
<1>4. Cleans(Stores, w, t)
  BY <1>1, CleansTwice
<1>5. t \in Turns /\ t \in 1..minted /\ At(Stores, r, t)
  BY LoneRequest
<1> HIDE DEF t
<1>6. Touches(Stores, w, t)
  BY <1>4, <1>5, CleansTouches
<1>7. active' = [active EXCEPT ![r] = active[r]] /\ held' = [held EXCEPT ![r] = held[r]]
  BY AsTheyWere
<1>8. p \notin Working
  BY DEF Working, Holding
<1> QED
  BY <1>1, <1>2, <1>3, <1>4, <1>6, <1>7, <1>8, HolderMoves DEF t

(***************************************************************************)
(* A step that ends in a result.                                           *)
(***************************************************************************)
LEMMA SendsKeeps ==
  ASSUME Inv, Lone, NEW r \in Requests, place[r] \in Holding,
         active[r] = TurnOf(r) \/ rec[TurnOf(r)].status = "gone", NEW p \in {"sending", "committed"},
         NEW v, Touches(Stores, v, TurnOf(r)), Sends(r, TurnOf(r), v, p), UNCHANGED <<minted, active, own, held>>
  PROVE  Lone'
<1> DEFINE t == TurnOf(r)
<1>1. PICK w : /\ Become(w) /\ Cleans(v, w, t)
               /\ \/ Goto(r, p) /\ (Closed(w, t) \/ (held[r] = NoAnswer /\ Waiting(w, t)))
                  \/ Settled(w, t) /\ \E q \in {"answered", "responding"} : Goto(r, q)
  BY DEF Sends
<1>2. /\ t \in Turns /\ (active[r] = t \/ Stores.rec[t].status = "gone")
      /\ place[r] \in Working
  BY LoneRequest DEF Working, Stores
<1> HIDE DEF t
<1>3. Touches(Stores, w, t)
  BY <1>1, <1>2, TouchesThen DEF t
<1>4. active' = [active EXCEPT ![r] = active[r]] /\ held' = [held EXCEPT ![r] = held[r]]
  BY AsTheyWere
<1>5. CASE Goto(r, p) /\ (Closed(w, t) \/ (held[r] = NoAnswer /\ Waiting(w, t)))
  <2>1. active[r] = t \/ w.rec[t].status = "gone"
    BY <1>2, <1>3 DEF Touches
  <2>2. Stands(w, p, active[r], own[r], held[r], t)
    BY <1>5, <2>1 DEF Stands
  <2>3. p \in Working
    BY DEF Working, Holding
  <2> QED
    BY <1>1, <1>2, <1>3, <1>4, <1>5, <2>2, <2>3, HolderMoves DEF t
<1>6. CASE Settled(w, t) /\ \E q \in {"answered", "responding"} : Goto(r, q)
  <2>1. PICK q \in {"answered", "responding"} : Goto(r, q)
    BY <1>6
  <2>2. Stands(w, q, active[r], own[r], held[r], t)
    BY OverStands
  <2> QED
    BY <1>1, <1>2, <1>3, <1>4, <1>6, <2>1, <2>2, HolderMoves DEF t
<1> QED
  BY <1>1, <1>5, <1>6

\* Checkpoints that are given back or expire go on waiting.
Lasts(d, e) ==
  /\ e.turn = d.turn /\ (e.inFlight => e.state = "live")
  /\ e.state = "unused" <=> d.state = "unused"
  /\ d.state \in {"live", "expired"} => e.state \in {"live", "expired"}
  /\ d.state = "expired" => e.state = "expired"
  /\ d.state = "live" /\ ~d.inFlight => ~e.inFlight

(***************************************************************************)
(* A step that gives a checkpoint back or lets it expire, and in which     *)
(* a request that is over may answer.                                      *)
(***************************************************************************)
LEMMA CheckpointMoves ==
  ASSUME Inv, Lone, row' = row, rec' = rec, minted' = minted, active' = active, own' = own,
         held' = held, \A c \in Checkpoints : Lasts(cp[c], cp'[c]),
         \A q \in Requests :
           \/ place'[q] = place[q]
           \/ place[q] \notin Working /\ place'[q] \in {"answered", "left"}
           \/ place[q] = "failing" /\ place'[q] = "error"
  PROVE  Lone'
<1>1. /\ Stores.row = row /\ Stores.rec = rec /\ Stores.cp = cp
      /\ Stores'.row = row /\ Stores'.rec = rec /\ Stores'.cp = cp'
  BY DEF Stores
<1>2. \A q \in Requests : TurnOf(q)' = TurnOf(q)
  BY TurnStays DEF Lasts
<1>3. \A d, e, t : Lasts(d, e) /\ Waits(d, t) => Waits(e, t)
  BY DEF Lasts, Waits
<1>4. \A t : Waiting(Stores, t) => Waiting(Stores', t)
  BY <1>1, <1>3 DEF Waiting
<1>5. \A t : Closed(Stores', t) <=> Closed(Stores, t)
  BY <1>1 DEF Closed
<1>6. \A t : Shut(Stores', t) <=> Shut(Stores, t)
  BY <1>1 DEF Shut
<1>7. \A q \in Requests :
        /\ place'[q] \in Working <=> place[q] \in Working
        /\ place'[q] \in Holding => place[q] \in Holding
  BY DEF Working, Holding
<1>8. \A t \in Turns : Fits(Stores', t)
  BY <1>1 DEF Lone, Fits
<1>9. StoreFits(Stores)'
  BY <1>1 DEF Lone, StoreFits, Lasts
<1>10. Alone' /\ Placed'
  BY <1>2, <1>7 DEF Lone, Alone, Placed
<1>11. ASSUME NEW q \in Requests
       PROVE  Stands(Stores', place'[q], active[q], own[q], held[q], TurnOf(q))
  <2>1. Stands(Stores, place[q], active[q], own[q], held[q], TurnOf(q))
    BY DEF Lone, Standing
  <2>2. own[q] # NoCheckpoint /\ Stores.cp[own[q]].state \in {"live", "expired"} =>
          Stores'.cp[own[q]].state \in {"live", "expired"}
    BY <1>1 DEF Inv, TypeOK, Lasts
  <2>3. CASE place'[q] = place[q]
    BY <1>1, <1>4, <1>5, <1>6, <2>1, <2>2, <2>3 DEF Stands
  <2>4. CASE place'[q] \in {"answered", "left"}
    BY <2>4, OverStands
  <2>5. CASE place[q] = "failing" /\ place'[q] = "error"
    BY <2>1, <2>5 DEF Stands
  <2> QED
    BY <2>3, <2>4, <2>5
<1>12. \A t \in Turns :
         Settled(Stores', t) \/ \E q \in Requests : place'[q] \in Working /\ TurnOf(q) = t
  BY <1>4, <1>5, <1>7 DEF Lone, Heirs, Settled
<1>13. Standing' /\ Heirs'
  BY <1>2, <1>11, <1>12 DEF Standing, Heirs
<1>14. \A t \in Turns : Fits(Stores, t)'
  BY <1>8
<1> QED
  BY <1>9, <1>10, <1>13, <1>14 DEF Lone

(***************************************************************************)
(* Duplicates that rearm a checkpoint, and six hours that pass.            *)
(***************************************************************************)
LEMMA LoneCheckpoints ==
  ASSUME Inv, Lone, NEW c \in Checkpoints, Unclaim(c) \/ Expire(c)
  PROVE  Lone'
<1>1. cp \in [Checkpoints -> Checkpoint] /\ cp[c] \in Checkpoint
  BY DEF Inv, TypeOK
<1>2. \A d \in Checkpoints : cp[d].inFlight => cp[d].state = "live"
  BY DEF Lone, StoreFits, Stores
<1>3. \A d \in Checkpoints : Lasts(cp[d], cp[d])
  BY <1>2 DEF Lasts
<1>4. /\ row' = row /\ rec' = rec /\ minted' = minted /\ active' = active /\ own' = own
      /\ held' = held /\ place' = place
  BY DEF Unclaim, Expire, requestVars
<1>5. CASE Unclaim(c)
  <2> DEFINE e == [cp[c] EXCEPT !.inFlight = FALSE]
  <2>1. e.turn = cp[c].turn /\ e.state = cp[c].state /\ ~e.inFlight
    BY <1>1 DEF Checkpoint
  <2>2. cp' = [cp EXCEPT ![c] = e]
    BY <1>5 DEF Unclaim
  <2> HIDE DEF e
  <2>3. Lasts(cp[c], e)
    BY <2>1 DEF Lasts
  <2>4. \A d \in Checkpoints : Lasts(cp[d], cp'[d])
    BY <1>1, <1>3, <2>2, <2>3
  <2> QED
    BY <1>4, <2>4, CheckpointMoves
<1>6. CASE Expire(c)
  <2> DEFINE e == [cp[c] EXCEPT !.state = "expired"]
  <2>1. e.turn = cp[c].turn /\ e.state = "expired" /\ e.inFlight = cp[c].inFlight
    BY <1>1 DEF Checkpoint
  <2>2. cp' = [cp EXCEPT ![c] = e] /\ cp[c].state = "live" /\ ~cp[c].inFlight
    BY <1>6 DEF Expire
  <2> HIDE DEF e
  <2>3. Lasts(cp[c], e)
    BY <2>1, <2>2 DEF Lasts
  <2>4. \A d \in Checkpoints : Lasts(cp[d], cp'[d])
    BY <1>1, <1>3, <2>2, <2>3
  <2> QED
    BY <1>4, <2>4, CheckpointMoves
<1> QED
  BY <1>5, <1>6

(***************************************************************************)
(* A journal that has never been out of order works in a step after which  *)
(* this is still so.                                                       *)
(***************************************************************************)
LEMMA JournalWorks ==
  ASSUME Inv, outages = 0, outages' = 0, NEW up \in BOOLEAN, Journal(up)
  PROVE  up = TRUE
BY DEF Journal

-----------------------------------------------------------------------------
(* The steps of a request, with one permit and a journal that works.        *)

(***************************************************************************)
(* An exception before there is an answer.                                 *)
(***************************************************************************)
LEMMA RaiseKeeps ==
  ASSUME Inv, Lone, NEW r \in Requests, place[r] \in Holding, held[r] = NoAnswer, NEW v,
         Cleans(Stores, v, TurnOf(r)), Raise(r, v, TRUE), UNCHANGED <<minted, active, own, held>>,
         \/ v.rec[TurnOf(r)].status = "gone"
         \/ active[r] = TurnOf(r) /\ v.rec[TurnOf(r)].status \in Open \cup Ended
         \/ /\ active[r] = NoTurn /\ own[r] # NoCheckpoint
            /\ Shut(v, TurnOf(r)) \/ v.cp[own[r]].state \in {"live", "expired"}
  PROVE  Lone'
<1> DEFINE t == TurnOf(r)
<1>1. /\ t \in Turns /\ At(Stores, r, t) /\ place[r] \in Working
      /\ transport[r] \in {"stream", "nonstream"}
  BY LoneRequest
<1>2. Sound(v, t) /\ At(v, r, t)
  BY <1>1, AtOn DEF Cleans
<1>3. Ends(r, t, v, {"failing", "error"})
  <2> HIDE DEF t
  <2> QED
    BY <1>1, <1>2, RaiseEnds DEF t
<1> HIDE DEF t
<1> QED
  BY <1>1, <1>3, EndsKeeps DEF t

(***************************************************************************)
(* What the invariant says of a request in Stage 1.                        *)
(***************************************************************************)
LEMMA InStage1 ==
  ASSUME Inv, Lone, NEW r \in Requests, place[r] = "stage1"
  PROVE  /\ place[r] \in Holding /\ held[r] = NoAnswer
         /\ TurnOf(r) \in Turns /\ Sound(Stores, TurnOf(r)) /\ At(Stores, r, TurnOf(r))
         /\ Cleans(Stores, Stores, TurnOf(r))
         /\ \/ rec[TurnOf(r)].status = "gone"
            \/ /\ active[r] = TurnOf(r) /\ rec[TurnOf(r)].status = "stage1_active"
               /\ own[r] # NoCheckpoint => cp[own[r]].state \in {"live", "expired"}
<1>1. place[r] \in Holding /\ place[r] \in Working
  BY DEF Holding, Working
<1>2. /\ Stands(Stores, "stage1", active[r], own[r], held[r], TurnOf(r))
      /\ TurnOf(r) \in Turns /\ Sound(Stores, TurnOf(r)) /\ At(Stores, r, TurnOf(r))
  BY <1>1, LoneRequest
<1>3. Cleans(Stores, Stores, TurnOf(r))
  BY <1>2, CleansSelf
<1>4. "stage1_active" \notin {"gone"} \cup Ended
  BY DEF Ended
<1> QED
  BY <1>1, <1>2, <1>3, <1>4 DEF Stands, Shut, Stores

(***************************************************************************)
(* The backend fails.                                                      *)
(***************************************************************************)
LEMMA LoneStage1Fails ==
  ASSUME Inv, Lone, outages = 0, outages' = 0, NEW r \in Requests, Stage1Fails(r)
  PROVE  Lone'
<1>1. /\ place[r] = "stage1" /\ Raise(r, Stores, TRUE)
      /\ UNCHANGED <<minted, active, own, held>>
  BY JournalWorks DEF Stage1Fails, Step, Rest
<1> QED
  BY <1>1, InStage1, RaiseKeeps DEF Stores, Open

(***************************************************************************)
(* Stage 1 ends without an answer.                                         *)
(***************************************************************************)
LEMMA LoneNoAnswerGiven ==
  ASSUME Inv, Lone, outages = 0, outages' = 0, NEW r \in Requests, NoAnswerGiven(r)
  PROVE  Lone'
<1> DEFINE t == TurnOf(r)
           v == Mark(Stores, r, TRUE)
<1>1. /\ place[r] = "stage1" /\ Raise(r, v, TRUE)
      /\ UNCHANGED <<minted, active, own, held>>
  BY JournalWorks DEF NoAnswerGiven, Step, Rest
<1>2. /\ Cleans(Stores, v, t)
      /\ active[r] = t /\ Stores.rec[t].status = "stage1_active" => Shut(v, t)
  BY <1>1, InStage1, MarkCleans
<1> HIDE DEF v
<1>3. \/ v.rec[t].status = "gone"
      \/ active[r] = t /\ v.rec[t].status \in Open \cup Ended
  <2>1. rec[t].status = "gone" => v.rec[t].status = "gone"
    BY <1>1, <1>2, InStage1 DEF Cleans, Closes, Stores
  <2> QED
    BY <1>1, <1>2, <2>1, InStage1 DEF Shut, Stores
<1> QED
  BY <1>1, <1>2, <1>3, InStage1, RaiseKeeps

(***************************************************************************)
(* However a request leaves in the middle of a stage, its turn is settled. *)
(***************************************************************************)
LEMMA BusyEnds ==
  ASSUME NEW t \in Turns, NEW v, Sound(v, t), NEW r, At(v, r, t),
         \/ v.rec[t].status = "gone"
         \/ /\ active[r] = t
            /\ \/ held[r] = NoAnswer /\ v.rec[t].status = "stage1_active"
               \/ held[r] # NoAnswer /\ v.rec[t].status \in Distilling
            /\ own[r] # NoCheckpoint => v.cp[own[r]].state \in {"live", "expired"}
  PROVE  /\ Cleans(v, Close(Rearm(v, own[r]), r, TRUE), t)
         /\ Settled(Close(Rearm(v, own[r]), r, TRUE), t)
         /\ Cleans(v, Left(v, r, TRUE), t) /\ Settled(Left(v, r, TRUE), t)
<1>1. ASSUME NEW u, Cleans(v, u, t), u.rec = v.rec,
             own[r] # NoCheckpoint => u.cp[own[r]].state = v.cp[own[r]].state
      PROVE  Cleans(v, Close(u, r, TRUE), t) /\ Settled(Close(u, r, TRUE), t)
  <2>1. Sound(u, t) /\ At(u, r, t)
    BY <1>1, AtOn DEF Cleans
  <2>2. Cleans(u, Close(u, r, TRUE), t)
    BY <2>1, CloseCleans
  <2>3. CASE v.rec[t].status = "gone"
    <3>1. Closed(u, t)
      BY <1>1, <2>3 DEF Closed
    <3> QED
      BY <1>1, <2>2, <3>1, CleansTwice DEF Cleans, Settled
  <2>4. CASE v.rec[t].status # "gone"
    <3>1. Settled(Close(u, r, TRUE), t)
      BY <1>1, <2>1, <2>4, BusySettles
    <3> QED
      BY <1>1, <2>2, <3>1, CleansTwice
  <2> QED
    BY <2>3, <2>4
<1> DEFINE u == Rearm(v, own[r])
           w == Close(v, r, TRUE)
           x == Rearm(w, own[r])
<1>2. /\ Cleans(v, u, t) /\ u.rec = v.rec
      /\ own[r] # NoCheckpoint => u.cp[own[r]].state = v.cp[own[r]].state
  BY RearmCleans DEF At
<1>3. Cleans(v, v, t)
  BY CleansSelf
<1>4. Cleans(v, w, t) /\ Settled(w, t)
  BY <1>1, <1>3
<1>5. Cleans(v, Close(u, r, TRUE), t) /\ Settled(Close(u, r, TRUE), t)
  <2> HIDE DEF u
  <2> QED
    BY <1>1, <1>2
<1> HIDE DEF w
<1>6. Sound(w, t) /\ At(w, r, t)
  BY <1>4, AtOn DEF Cleans
<1>7. Cleans(w, x, t) /\ Settled(x, t)
  BY <1>4, <1>6, RearmSettles
<1>8. Left(v, r, TRUE) = IF transport[r] = "stream" THEN x ELSE w
  BY DEF Left, w
<1> HIDE DEF x
<1>9. Cleans(v, x, t)
  BY <1>4, <1>7, CleansTwice
<1> QED
  BY <1>4, <1>5, <1>7, <1>8, <1>9 DEF u

(***************************************************************************)
(* The generation budget is spent in Stage 1.                              *)
(***************************************************************************)
LEMMA LoneStage1Budget ==
  ASSUME Inv, Lone, outages = 0, outages' = 0, NEW r \in Requests, Stage1Budget(r)
  PROVE  Lone'
<1> DEFINE t == TurnOf(r)
           w == Close(Rearm(Stores, own[r]), r, TRUE)
           m == Mark(Stores, r, TRUE)
<1>1. /\ place[r] = "stage1" /\ UNCHANGED <<minted, active, own, held>>
      /\ \/ Become(w) /\ Goto(r, "spent")
         \/ Become(m) /\ Goto(r, "budget")
  BY JournalWorks DEF Stage1Budget, Step, Rest
<1>2. /\ place[r] \in Holding /\ held[r] = NoAnswer /\ t \in Turns
      /\ Sound(Stores, t) /\ At(Stores, r, t) /\ Cleans(Stores, Stores, t)
      /\ \/ Stores.rec[t].status = "gone"
         \/ /\ active[r] = t /\ Stores.rec[t].status = "stage1_active"
            /\ own[r] # NoCheckpoint => Stores.cp[own[r]].state \in {"live", "expired"}
  BY <1>1, InStage1 DEF Stores
<1>3. place[r] \in Working
  BY <1>2 DEF Working
<1>4. CASE Become(w) /\ Goto(r, "spent")
  <2>1. Cleans(Stores, w, t) /\ Settled(w, t)
    BY <1>2, BusyEnds
  <2> HIDE DEF w, t
  <2>2. \E p \in {"spent"} : Goto(r, p)
    BY <1>4
  <2>3. Ends(r, t, Stores, {"spent"})
    BY <1>4, <2>1, <2>2 DEF Ends
  <2> DEFINE places == {"spent"}
  <2>4. places \subseteq {"answered", "responding", "left", "spent"}
    OBVIOUS
  <2>5. Ends(r, t, Stores, places)
    BY <2>3
  <2> HIDE DEF places
  <2> QED
    BY <1>1, <1>2, <1>3, <2>4, <2>5, EndsKeeps DEF t
<1>5. CASE Become(m) /\ Goto(r, "budget")
  <2>1. /\ Cleans(Stores, m, t)
        /\ active[r] = t /\ Stores.rec[t].status = "stage1_active" => Shut(m, t)
    BY <1>2, MarkCleans
  <2> HIDE DEF m, t
  <2>2. Touches(Stores, m, t)
    BY <1>2, <2>1, CleansTouches
  <2>3. /\ Shut(m, t)
        /\ active[r] = t \/ m.rec[t].status = "gone"
    BY <1>2, <2>1, <2>2 DEF Touches, Shut
  <2>4. Stands(m, "budget", active[r], own[r], held[r], t)
    BY <2>3 DEF Stands
  <2>5. active' = [active EXCEPT ![r] = active[r]] /\ held' = [held EXCEPT ![r] = held[r]]
    BY <1>1, AsTheyWere
  <2>6. "budget" \in Working
    BY DEF Working
  <2> QED
    BY <1>1, <1>2, <1>3, <1>5, <2>2, <2>4, <2>5, <2>6, HolderMoves DEF t
<1> QED
  BY <1>1, <1>4, <1>5

(***************************************************************************)
(* A successor is registered: its turn waits.                              *)
(***************************************************************************)
LEMMA RegisterCleans ==
  ASSUME NEW t \in Turns, t \in 1..minted, NEW v, Sound(v, t), NEW c \in Checkpoints,
         v.cp[c].state = "unused"
  PROVE  LET w == [v EXCEPT !.cp[c].turn = t, !.cp[c].state = "live"]
         IN  Cleans(v, w, t) /\ w.rec = v.rec /\ Waits(w.cp[c], t)
<1> DEFINE e == [v.cp[c] EXCEPT !.turn = t, !.state = "live"]
           w == [v EXCEPT !.cp[c].turn = t, !.cp[c].state = "live"]
<1>0. v \in StoreType /\ v.cp \in [Checkpoints -> Checkpoint] /\ v.cp[c] \in Checkpoint
  BY StoreFields DEF Sound
<1>1. ~v.cp[c].inFlight
  BY DEF Sound, StoreFits
<1>2. e \in Checkpoint /\ e.turn = t /\ e.state = "live" /\ e.inFlight = v.cp[c].inFlight
  BY <1>0 DEF Checkpoint
<1>3. w = [v EXCEPT !.cp[c] = e]
  BY <1>0 DEF StoreType
<1> HIDE DEF e, w
<1>4. Closes(v, w, t) /\ w.row = v.row /\ w.rec = v.rec /\ w.cp = [v.cp EXCEPT ![c] = e]
  BY <1>0, <1>2, <1>3, CpChanges
<1>5. w.cp[c] = e /\ \A d \in Checkpoints : d # c => w.cp[d] = v.cp[d]
  BY <1>0, <1>4
<1>6. Sound(w, t)
  <2>1. w \in StoreType
    BY <1>4 DEF Closes
  <2>2. StoreFits(w)
    BY <1>2, <1>5 DEF Sound, StoreFits
  <2> QED
    BY <1>4, <2>1, <2>2 DEF Sound, Fits
<1>7. OnlyOf(v, w, t)
  BY <1>2, <1>4, <1>5 DEF OnlyOf
<1>8. Cleans(v, w, t)
  BY <1>4, <1>6, <1>7 DEF Cleans, Shut, Closed
<1> QED
  BY <1>1, <1>2, <1>4, <1>5, <1>8 DEF Waits, w

(***************************************************************************)
(* Stage 1 stops at tool calls.                                            *)
(***************************************************************************)
LEMMA LoneAskTools ==
  ASSUME Inv, Lone, outages = 0, outages' = 0, NEW r \in Requests, AskTools(r)
  PROVE  Lone'
<1> DEFINE t == TurnOf(r)
           w == IF Known(Stores, t) THEN Await(Stores, t) ELSE Stores
           Live(c) == [w EXCEPT !.cp[c].turn = t, !.cp[c].state = "live"]
<1>1. /\ place[r] = "stage1" /\ UNCHANGED <<minted, active, own, held>>
      /\ \/ Known(Stores, t) /\ ~Owned(Stores, t, TRUE) /\ Raise(r, Stores, TRUE)
         \/ /\ ~Known(Stores, t) \/ Owned(Stores, t, TRUE)
            /\ \/ Raise(r, w, TRUE)
               \/ \E c \in Checkpoints :
                    /\ cp[c].state = "unused"
                    /\ Send(r, Retire(Live(c), own[r]), TRUE, "sending")
  BY JournalWorks DEF AskTools, Step, Rest, TurnOf
<1>2. /\ place[r] \in Holding /\ held[r] = NoAnswer /\ t \in Turns
      /\ Sound(Stores, t) /\ At(Stores, r, t) /\ Cleans(Stores, Stores, t)
      /\ Stores.rec[t].status = "gone" \/ (active[r] = t /\ Stores.rec[t].status = "stage1_active")
  BY <1>1, InStage1 DEF Stores
<1>3. t \in 1..minted
  BY <1>2, LoneRequest DEF Working
<1>4. t # NoTurn
  BY <1>2 DEF Turns, NoTurn
<1> HIDE DEF t
<1>5. ASSUME ~Known(Stores, t) \/ Owned(Stores, t, TRUE)
      PROVE  /\ Cleans(Stores, w, t) /\ w.cp = Stores.cp
             /\ w.rec[t].status = "gone" \/ (active[r] = t /\ w.rec[t].status \in Open)
  <2>1. CASE Known(Stores, t)
    <3>1. Stores.rec[t].status # "gone" /\ Stores.row[t].status \in Open
      BY <1>5, <2>1 DEF Known, Owned
    <3>2. w = Await(Stores, t)
      BY <2>1
    <3>3. Cleans(Stores, w, t) /\ w.cp = Stores.cp /\ w.rec[t].status = "awaiting_tool"
      BY <1>2, <3>1, <3>2, AwaitCleans
    <3> QED
      BY <1>2, <3>1, <3>3 DEF Open
  <2>2. CASE ~Known(Stores, t)
    BY <1>2, <1>4, <2>2 DEF Known
  <2> QED
    BY <2>1, <2>2
<1>6. CASE Known(Stores, t) /\ Raise(r, Stores, TRUE)
  BY <1>1, <1>2, <1>6, RaiseKeeps DEF Open, t
<1>7. CASE (~Known(Stores, t) \/ Owned(Stores, t, TRUE)) /\ Raise(r, w, TRUE)
  <2>1. /\ Cleans(Stores, w, t)
        /\ w.rec[t].status = "gone" \/ (active[r] = t /\ w.rec[t].status \in Open)
    BY <1>5, <1>7
  <2>2. Raise(r, w, TRUE)
    BY <1>7
  <2> HIDE DEF w
  <2> QED
    BY <1>1, <1>2, <2>1, <2>2, RaiseKeeps DEF t
<1>8. ASSUME ~Known(Stores, t) \/ Owned(Stores, t, TRUE), NEW c \in Checkpoints,
             cp[c].state = "unused", Send(r, Retire(Live(c), own[r]), TRUE, "sending")
      PROVE  Lone'
  <2> DEFINE x == Live(c)
             y == Retire(x, own[r])
  <2>1. Cleans(Stores, w, t) /\ w.cp = Stores.cp /\ Send(r, y, TRUE, "sending")
    BY <1>5, <1>8
  <2>2. Cleans(w, x, t) /\ Waits(x.cp[c], t)
    <3> HIDE DEF w
    <3>1. Sound(w, t) /\ w.cp[c].state = "unused"
      BY <1>8, <2>1 DEF Cleans, Stores
    <3> QED
      BY <1>2, <1>3, <3>1, RegisterCleans
  <2>3. c # own[r]
    BY <1>2, <1>8, AgenticConstants DEF At, Stores
  <2> HIDE DEF w, Live, x
  <2>4. At(w, r, t)
    BY <1>2, <2>1, AtOn
  <2>5. Sound(x, t) /\ At(x, r, t)
    BY <2>2, <2>4, AtOn DEF Cleans
  <2>6. Cleans(x, y, t) /\ y.cp[c] = x.cp[c]
    BY <1>2, <2>3, <2>5, RetireCleans DEF At
  <2> HIDE DEF y
  <2>7. Sound(y, t) /\ At(y, r, t)
    BY <2>5, <2>6, AtOn DEF Cleans
  <2>8. Waiting(y, t)
    BY <2>2, <2>6 DEF Waiting
  <2> DEFINE p == "sending"
  <2>9. Send(r, y, TRUE, p) /\ p \in {"sending", "committed"}
    BY <2>1
  <2> HIDE DEF p
  <2>10. Sends(r, t, y, p)
    BY <1>2, <2>7, <2>8, <2>9, SendEnds
  <2>11. Cleans(Stores, y, t)
    BY <2>1, <2>2, <2>6, CleansTwice
  <2>12. Touches(Stores, y, t)
    BY <1>2, <2>11, CleansTouches
  <2>13. active[r] = t \/ rec[t].status = "gone"
    BY <1>2 DEF Stores
  <2> QED
    BY <1>1, <1>2, <2>9, <2>10, <2>12, <2>13, SendsKeeps DEF t
<1> QED
  BY <1>1, <1>6, <1>7, <1>8

\* The stores with a new row and a new record of one turn.
Wrote(v, t, e, g) ==
  [row |-> [v.row EXCEPT ![t] = e], rec |-> [v.rec EXCEPT ![t] = g], cp |-> v.cp]

(***************************************************************************)
(* A turn that is written, and fits.                                       *)
(***************************************************************************)
LEMMA TurnTouches ==
  ASSUME NEW t \in Turns, NEW v, Sound(v, t), NEW e \in Row, NEW g \in Rec,
         g.status = "gone" <=> v.rec[t].status = "gone"
  PROVE  LET w == Wrote(v, t, e, g)
         IN  /\ w.row[t] = e /\ w.rec[t] = g /\ w.cp = v.cp
             /\ Fits(w, t) /\ (Shut(v, t) => Shut(w, t)) => Touches(v, w, t)
<1> DEFINE w == Wrote(v, t, e, g)
<1>1. /\ v.row \in [Turns -> Row] /\ v.rec \in [Turns -> Rec]
      /\ v.cp \in [Checkpoints -> Checkpoint]
  BY StoreFields DEF Sound
<1>2. [v.row EXCEPT ![t] = e] \in [Turns -> Row] /\ [v.rec EXCEPT ![t] = g] \in [Turns -> Rec]
  BY <1>1
<1>3. /\ w \in StoreType /\ w.row = [v.row EXCEPT ![t] = e]
      /\ w.rec = [v.rec EXCEPT ![t] = g] /\ w.cp = v.cp
  BY <1>1, <1>2 DEF StoreType, Wrote
<1> HIDE DEF w
<1>4. /\ w.row[t] = e /\ w.rec[t] = g
      /\ \A u \in Turns : u # t => w.row[u] = v.row[u] /\ w.rec[u] = v.rec[u]
  BY <1>1, <1>3
<1>5. StoreFits(w) /\ OnlyOf(v, w, t)
  BY <1>3, <1>4 DEF Sound, StoreFits, OnlyOf
<1> QED
  BY <1>3, <1>4, <1>5 DEF Touches, Sound, w

(***************************************************************************)
(* A detected loop: the turn goes on with a new attempt.                   *)
(***************************************************************************)
LEMMA LoneLoopRetry ==
  ASSUME Inv, Lone, outages = 0, outages' = 0, NEW r \in Requests, LoopRetry(r)
  PROVE  Lone'
<1> DEFINE t == TurnOf(r)
           w == [row |-> [row EXCEPT ![t].first = @ + 1, ![t].second = FALSE],
                 rec |-> [rec EXCEPT ![t].first = @ + 1], cp |-> cp]
           f == Fail(Stores, t, "stage1_failed", TRUE)
<1>1. /\ place[r] = "stage1" /\ UNCHANGED <<minted, active, own, held>>
      /\ active[r] = t /\ rec[t].status # "gone" /\ rec[t].first < MaxAttempt
      /\ \/ Become(w) /\ UNCHANGED place
         \/ Raise(r, Stores, TRUE)
         \/ Raise(r, f, TRUE)
  <2>1. active[r] = t /\ rec[t].status # "gone" /\ rec[t].first < MaxAttempt
    BY TurnOfRequest DEF LoopRetry
  <2>2. PICK up \in BOOLEAN :
          /\ Step(r, "stage1", up)
          /\ \/ Become(w) /\ UNCHANGED place
             \/ Raise(r, Stores, up)
             \/ Raise(r, f, up)
    BY <2>1 DEF LoopRetry, Become
  <2>3. up = TRUE
    BY <2>2, JournalWorks DEF Step
  <2> QED
    BY <2>1, <2>2, <2>3 DEF LoopRetry, Step, Rest
<1>2. /\ place[r] \in Holding /\ held[r] = NoAnswer /\ t \in Turns
      /\ Sound(Stores, t) /\ At(Stores, r, t) /\ Cleans(Stores, Stores, t)
      /\ rec[t].status = "stage1_active"
      /\ own[r] # NoCheckpoint => cp[own[r]].state \in {"live", "expired"}
  BY <1>1, InStage1
<1>3. Stores.row = row /\ Stores.rec = rec /\ Stores.cp = cp /\ place[r] \in Working
  BY <1>2 DEF Stores, Working
<1> HIDE DEF t
<1>4. CASE Become(w) /\ UNCHANGED place
  <2>1. row \in [Turns -> Row] /\ rec \in [Turns -> Rec] /\ cp \in [Checkpoints -> Checkpoint]
    BY <1>2, <1>3, StoreFields DEF Sound
  <2>2. /\ row[t] \in Row /\ rec[t] \in Rec /\ row[t].first = rec[t].first
        /\ row[t].answer = rec[t].answer
    BY <1>1, <1>2, <1>3, <2>1 DEF Sound, Fits
  <2> DEFINE n == row[t].first + 1
             e == [row[t] EXCEPT !.first = n, !.second = FALSE]
             g == [rec[t] EXCEPT !.first = n]
  <2>3. n \in 1..MaxAttempt
    <3>1. row[t].first \in 1..MaxAttempt /\ row[t].first < MaxAttempt
      BY <1>1, <2>2, LifeFields
    <3> QED
      BY <3>1, AgenticConstants
  <2> HIDE DEF n
  <2>4. /\ e \in Row /\ e.status = row[t].status /\ e.answer = row[t].answer /\ e.first = n
        /\ e.second = FALSE
        /\ g \in Rec /\ g.status = rec[t].status /\ g.first = n /\ g.answer = rec[t].answer
        /\ g.second = rec[t].second
    BY <2>2, <2>3 DEF Row, Rec, Life
  <2>5. w = [row |-> [row EXCEPT ![t] = e], rec |-> [rec EXCEPT ![t] = g], cp |-> cp]
    BY <2>1, <2>2 DEF n, Row, Rec, Life
  <2> HIDE DEF e, g, w
  <2>6. /\ w.row[t] = e /\ w.rec[t] = g /\ w.cp = cp
        /\ Fits(w, t) /\ (Shut(Stores, t) => Shut(w, t)) => Touches(Stores, w, t)
    <3>1. w = Wrote(Stores, t, e, g)
      BY <1>3, <2>5 DEF Wrote
    <3>2. g.status = "gone" <=> Stores.rec[t].status = "gone"
      BY <1>3, <2>4
    <3>3. /\ w.row[t] = e /\ w.rec[t] = g /\ w.cp = Stores.cp
          /\ Fits(w, t) /\ (Shut(Stores, t) => Shut(w, t)) => Touches(Stores, w, t)
      BY <1>2, <2>4, <3>1, <3>2, TurnTouches
    <3> QED
      BY <1>3, <3>3
  <2>7. /\ row[t].status \in Open \cup Ended
        /\ row[t].status \in Open => rec[t].second = FALSE
    <3>1. Agree("stage1_active", row[t].status)
      BY <1>1, <1>2, <1>3 DEF Sound, Fits
    <3>2. row[t].status \in Open => ~rec[t].second
      BY <1>1, <1>2, <1>3 DEF Sound, Fits
    <3>3. rec[t].second \in BOOLEAN
      BY <2>2, LifeFields
    <3> QED
      BY <3>1, <3>2, <3>3 DEF Agree, Distilling
  <2>8. row[t].status \notin Unfinished /\ row[t].status # "stage2_active"
    BY <2>7 DEF Open, Ended, Unfinished
  <2>9. Fits(w, t)
    <3>1. Agree(g.status, e.status)
      BY <1>2, <2>4, <2>7 DEF Agree, Open
    <3>2. e.status \in Open => ~g.second /\ e.second = g.second
      BY <2>4, <2>7
    <3> QED
      BY <2>2, <2>4, <2>6, <2>8, <3>1, <3>2 DEF Fits
  <2>10. w.rec[t].status = "stage1_active"
    BY <1>2, <2>4, <2>6
  <2>11. Touches(Stores, w, t)
    BY <1>2, <1>3, <2>4, <2>6, <2>9 DEF Shut
  <2>12. Stands(w, "stage1", active[r], own[r], held[r], t)
    BY <1>1, <1>2, <2>6, <2>10 DEF Stands
  <2>13. Goto(r, "stage1") /\ "stage1" \in Working
    <3>1. place[r] = "stage1" /\ place' = place /\ place \in [Requests -> Places]
      BY <1>1, <1>4 DEF Inv, TypeOK
    <3> QED
      BY <3>1 DEF Goto, Working, Holding
  <2>14. active' = [active EXCEPT ![r] = active[r]] /\ held' = [held EXCEPT ![r] = held[r]]
    BY <1>1, AsTheyWere
  <2> QED
    BY <1>1, <1>2, <1>3, <1>4, <2>11, <2>12, <2>13, <2>14, HolderMoves DEF t
<1> HIDE DEF w
<1>5. CASE Raise(r, Stores, TRUE)
  BY <1>1, <1>2, <1>3, <1>5, RaiseKeeps DEF Open, t
<1>6. CASE Raise(r, f, TRUE)
  <2>1. Cleans(Stores, f, t) /\ Shut(f, t)
    BY <1>1, <1>2, <1>3, FailCleans DEF Ended
  <2> HIDE DEF f
  <2>2. f.rec[t].status \in {"gone"} \cup Ended
    BY <2>1 DEF Shut
  <2> QED
    BY <1>1, <1>2, <1>6, <2>1, <2>2, RaiseKeeps DEF t
<1> QED
  BY <1>1, <1>4, <1>5, <1>6

(***************************************************************************)
(* The checkpoint of a resumed stream keeps the answer, and its state.     *)
(***************************************************************************)
LEMMA KeepCleans ==
  ASSUME NEW t \in Turns, NEW v, Sound(v, t), NEW r, At(v, r, t), NEW a \in Answers
  PROVE  /\ Cleans(v, Keep(v, r, a), t) /\ Keep(v, r, a).rec = v.rec
         /\ own[r] # NoCheckpoint => Keep(v, r, a).cp[own[r]].state = v.cp[own[r]].state
<1> DEFINE c == own[r]
<1>0. v \in StoreType /\ c \in Checkpoints \cup {NoCheckpoint}
  BY DEF Sound, At
<1>1. CASE c # NoCheckpoint /\ transport[r] = "stream"
  <2> DEFINE e == [v.cp[c] EXCEPT !.answer = a]
             w == Keep(v, r, a)
  <2>1. c \in Checkpoints /\ v.cp[c] \in Checkpoint /\ v.cp[c].turn = t
    BY <1>0, <1>1, StoreFields DEF At
  <2>2. /\ e \in Checkpoint /\ e.turn = v.cp[c].turn /\ e.state = v.cp[c].state
        /\ e.inFlight = v.cp[c].inFlight
    BY <2>1 DEF Checkpoint
  <2>3. w = [v EXCEPT !.cp[c] = e]
    BY <1>1 DEF Keep
  <2> HIDE DEF e, w, c
  <2>4. Closes(v, w, t) /\ w.row = v.row /\ w.rec = v.rec /\ w.cp = [v.cp EXCEPT ![c] = e]
    BY <1>0, <2>1, <2>2, <2>3, CpChanges
  <2>5. w.cp[c] = e /\ \A d \in Checkpoints : d # c => w.cp[d] = v.cp[d]
    BY <1>0, <2>1, <2>4, StoreFields
  <2>6. Sound(w, t)
    <3>1. w \in StoreType
      BY <2>4 DEF Closes
    <3>2. StoreFits(w)
      BY <2>1, <2>2, <2>5 DEF Sound, StoreFits
    <3> QED
      BY <2>4, <3>1, <3>2 DEF Sound, Fits
  <2>7. OnlyOf(v, w, t)
    BY <2>1, <2>2, <2>4, <2>5 DEF OnlyOf
  <2>8. Cleans(v, w, t)
    BY <2>4, <2>6, <2>7 DEF Cleans, Shut, Closed
  <2> QED
    BY <2>2, <2>4, <2>5, <2>8 DEF c, w
<1>2. CASE ~(c # NoCheckpoint /\ transport[r] = "stream")
  BY <1>2, CleansSelf DEF Keep
<1> QED
  BY <1>1, <1>2

(***************************************************************************)
(* The answer is frozen in the row and in the record of an open turn.      *)
(***************************************************************************)
LEMMA FreezeTouches ==
  ASSUME NEW t \in Turns, NEW v, Sound(v, t), v.rec[t].status = "stage1_active",
         Owned(v, t, TRUE), NEW a \in Answers
  PROVE  LET w == FreezeTurn(v, t, a)
         IN  Touches(v, w, t) /\ w.cp = v.cp /\ w.rec[t].status = "response_frozen"
<1> DEFINE e == [v.row[t] EXCEPT !.status = "stage1_frozen", !.answer = a]
           g == [v.rec[t] EXCEPT !.status = "response_frozen", !.answer = a]
           w == FreezeTurn(v, t, a)
<1>0. /\ v \in StoreType /\ v.row \in [Turns -> Row] /\ v.row[t] \in Row
      /\ v.rec \in [Turns -> Rec] /\ v.rec[t] \in Rec /\ v.cp \in [Checkpoints -> Checkpoint]
  BY StoreFields DEF Sound
<1>1. /\ e \in Row /\ e.status = "stage1_frozen" /\ e.answer = a /\ e.first = v.row[t].first
      /\ e.second = v.row[t].second
      /\ g \in Rec /\ g.status = "response_frozen" /\ g.answer = a /\ g.first = v.rec[t].first
      /\ g.second = v.rec[t].second
  BY <1>0 DEF Row, Rec, Life, Distilling
<1>2. w = Wrote(v, t, e, g)
  <2> DEFINE z == [row |-> [v.row EXCEPT ![t] = e], rec |-> v.rec, cp |-> v.cp]
  <2>1. v = [row |-> v.row, rec |-> v.rec, cp |-> v.cp]
    BY <1>0 DEF StoreType
  <2>2. FreezeRow(v, t, a) = z
    <3>1. FreezeRow(v, t, a) = [v EXCEPT !.row[t].status = "stage1_frozen", !.row[t].answer = a]
      BY DEF FreezeRow
    <3> QED
      BY ZenonT(60), <1>0, <2>1, <3>1 DEF Row, Life
  <2>3. w = [z EXCEPT !.rec[t].status = "response_frozen", !.rec[t].answer = a]
    BY <2>2 DEF FreezeTurn
  <2> HIDE DEF e, w
  <2> QED
    BY <1>0, <2>3 DEF Wrote, Rec, Life
<1> HIDE DEF e, g, w
<1>3. /\ w.row[t] = e /\ w.rec[t] = g /\ w.cp = v.cp
      /\ Fits(w, t) /\ (Shut(v, t) => Shut(w, t)) => Touches(v, w, t)
  BY <1>1, <1>2, TurnTouches
<1>4. v.row[t].status \in Open /\ v.rec[t].status # "gone"
  BY DEF Owned
<1>5. v.row[t].first = v.rec[t].first /\ v.row[t].second = v.rec[t].second
  BY <1>4 DEF Sound, Fits
<1>6. Fits(w, t)
  BY <1>1, <1>3, <1>5 DEF Fits, Agree, Open, Distilling, Unfinished
<1>7. ~Shut(v, t)
  BY DEF Shut, Ended
<1> QED
  BY <1>1, <1>3, <1>6, <1>7 DEF w

(***************************************************************************)
(* Stage 1 has answered.                                                   *)
(***************************************************************************)
LEMMA LoneFreeze ==
  ASSUME Inv, Lone, outages = 0, outages' = 0, NEW r \in Requests, Freeze(r)
  PROVE  Lone'
<1> DEFINE t == TurnOf(r)
           w(a) == IF Known(Stores, active[r]) THEN FreezeTurn(Stores, active[r], a) ELSE Stores
<1>1. PICK a \in Answers :
        /\ place[r] = "stage1" /\ UNCHANGED <<minted, active, own>>
        /\ \/ Known(Stores, active[r]) /\ Raise(r, Stores, TRUE) /\ UNCHANGED held
           \/ /\ ~Known(Stores, active[r]) \/ Owned(Stores, active[r], TRUE)
              /\ held' = [held EXCEPT ![r] = a] /\ Become(Keep(w(a), r, a)) /\ Goto(r, "frozen")
  BY JournalWorks DEF Freeze, Step, Rest
<1>2. /\ place[r] \in Holding /\ held[r] = NoAnswer /\ t \in Turns
      /\ Sound(Stores, t) /\ At(Stores, r, t) /\ Cleans(Stores, Stores, t)
      /\ \/ Stores.rec[t].status = "gone"
         \/ /\ active[r] = t /\ Stores.rec[t].status = "stage1_active"
            /\ own[r] # NoCheckpoint => Stores.cp[own[r]].state \in {"live", "expired"}
  BY <1>1, InStage1 DEF Stores
<1>3. /\ place[r] \in Working /\ "frozen" \in Working
      /\ Known(Stores, active[r]) <=> Stores.rec[t].status # "gone"
      /\ Known(Stores, active[r]) => active[r] = t
  <2>1. Known(Stores, active[r]) => active[r] = t /\ Stores.rec[t].status # "gone"
    BY TurnOfRequest DEF Stores
  <2>2. Stores.rec[t].status # "gone" => Known(Stores, active[r])
    BY <1>2 DEF Known, Turns, NoTurn
  <2> QED
    BY <1>2, <2>1, <2>2 DEF Working, Holding
<1> HIDE DEF t
<1>4. CASE Known(Stores, active[r]) /\ Raise(r, Stores, TRUE) /\ UNCHANGED held
  BY <1>1, <1>2, <1>3, <1>4, RaiseKeeps DEF Open, t
<1>5. CASE /\ ~Known(Stores, active[r]) \/ Owned(Stores, active[r], TRUE)
           /\ held' = [held EXCEPT ![r] = a] /\ Become(Keep(w(a), r, a)) /\ Goto(r, "frozen")
  <2> DEFINE v == w(a)
             x == Keep(v, r, a)
  <2>1. /\ Touches(Stores, v, t) /\ v.cp = Stores.cp
        /\ v.rec[t].status \in {"gone"} \cup Distilling
    <3>1. CASE Stores.rec[t].status = "gone"
      BY <1>2, <1>3, <3>1, CleansTouches
    <3>2. CASE Stores.rec[t].status # "gone"
      <4>1. v = FreezeTurn(Stores, t, a) /\ Owned(Stores, t, TRUE)
        BY <1>3, <1>5, <3>2
      <4> HIDE DEF v
      <4> QED
        <5>1. Touches(Stores, v, t) /\ v.cp = Stores.cp /\ v.rec[t].status = "response_frozen"
          BY <1>2, <3>2, <4>1, FreezeTouches
        <5> QED
          BY <5>1 DEF Distilling
    <3> QED
      BY <3>1, <3>2
  <2> HIDE DEF w, v
  <2>2. Sound(v, t) /\ At(v, r, t)
    BY <1>2, <2>1 DEF Touches, At
  <2>3. /\ Cleans(v, x, t) /\ x.rec = v.rec
        /\ own[r] # NoCheckpoint => x.cp[own[r]].state = v.cp[own[r]].state
    BY <1>2, <2>2, KeepCleans
  <2>4. Become(x)
    BY <1>5 DEF v
  <2> HIDE DEF x
  <2>5. Touches(Stores, x, t)
    BY <1>2, <2>1, <2>3, TouchesThen
  <2>6. active[r] = t \/ x.rec[t].status = "gone"
    BY <1>2, <2>5 DEF Touches
  <2>7. own[r] # NoCheckpoint => Shut(x, t) \/ x.cp[own[r]].state \in {"live", "expired"}
    BY <1>2, <2>1, <2>3, <2>5 DEF Touches, Shut
  <2>8. Stands(x, "frozen", active[r], own[r], a, t)
    BY <2>1, <2>3, <2>6, <2>7 DEF Stands
  <2>9. active' = [active EXCEPT ![r] = active[r]]
    BY <1>1, AsTheyWere
  <2> QED
    BY <1>1, <1>2, <1>3, <1>5, <2>4, <2>5, <2>8, <2>9, HolderMoves DEF t
<1> QED
  BY <1>1, <1>4, <1>5

(***************************************************************************)
(* What the invariant says of a request that has frozen its answer.        *)
(***************************************************************************)
LEMMA InStage2 ==
  ASSUME Inv, Lone, NEW r \in Requests, place[r] \in {"frozen", "stage2"}
  PROVE  /\ place[r] \in Holding /\ place[r] \in Working /\ held[r] # NoAnswer
         /\ TurnOf(r) \in Turns /\ Sound(Stores, TurnOf(r)) /\ At(Stores, r, TurnOf(r))
         /\ Cleans(Stores, Stores, TurnOf(r))
         /\ \/ Stores.rec[TurnOf(r)].status = "gone"
            \/ /\ active[r] = TurnOf(r) /\ Stores.rec[TurnOf(r)].status \in Distilling
               /\ own[r] # NoCheckpoint => Stores.cp[own[r]].state \in {"live", "expired"}
         /\ Known(Stores, active[r]) <=> Stores.rec[TurnOf(r)].status # "gone"
         /\ Known(Stores, active[r]) => active[r] = TurnOf(r)
<1>1. place[r] \in Holding /\ place[r] \in Working
  BY DEF Holding, Working
<1>2. /\ Stands(Stores, place[r], active[r], own[r], held[r], TurnOf(r))
      /\ TurnOf(r) \in Turns /\ Sound(Stores, TurnOf(r)) /\ At(Stores, r, TurnOf(r))
  BY <1>1, LoneRequest
<1>3. Cleans(Stores, Stores, TurnOf(r))
  BY <1>2, CleansSelf
<1>4. Distilling \cap ({"gone"} \cup Ended) = {}
  BY DEF Ended, Distilling
<1>5. held[r] # NoAnswer
  BY DEF Inv, RequestInv, Engaged
<1>6. \/ Stores.rec[TurnOf(r)].status = "gone"
      \/ /\ active[r] = TurnOf(r) /\ Stores.rec[TurnOf(r)].status \in Distilling
         /\ own[r] # NoCheckpoint => Stores.cp[own[r]].state \in {"live", "expired"}
  BY <1>2, <1>4 DEF Stands, Shut
<1>7. /\ Known(Stores, active[r]) => active[r] = TurnOf(r) /\ Stores.rec[TurnOf(r)].status # "gone"
      /\ Stores.rec[TurnOf(r)].status # "gone" => Known(Stores, active[r])
  BY <1>2, <1>6, TurnOfRequest DEF Stores, Known, Turns, NoTurn
<1> QED
  BY <1>1, <1>2, <1>3, <1>5, <1>6, <1>7

(***************************************************************************)
(* Stage 2 is given up.                                                    *)
(***************************************************************************)
LEMMA DegradeKeeps ==
  ASSUME Inv, Lone, NEW r \in Requests, place[r] \in {"frozen", "stage2"}, NEW v,
         Cleans(Stores, v, TurnOf(r)), Degrade(r, v, TRUE), UNCHANGED <<minted, active, own, held>>
  PROVE  Lone'
<1> DEFINE t == TurnOf(r)
           p == "sending"
<1>1. /\ place[r] \in Holding /\ t \in Turns /\ At(Stores, r, t)
      /\ Stores.rec[t].status = "gone" \/ active[r] = t
  BY InStage2
<1>2. Sound(v, t) /\ At(v, r, t) /\ (v.rec[t].status = "gone" \/ active[r] = t)
  BY <1>1, AtOn DEF Cleans, Closes
<1> HIDE DEF t
<1>3. Sends(r, t, v, "sending")
  BY <1>1, <1>2, DegradeEnds
<1>4. Sends(r, t, v, p) /\ p \in {"sending", "committed"}
  BY <1>3
<1> HIDE DEF p
<1>5. Touches(Stores, v, t)
  BY <1>1, CleansTouches DEF t
<1>6. active[r] = t \/ rec[t].status = "gone"
  BY <1>1 DEF Stores
<1> QED
  BY <1>1, <1>4, <1>5, <1>6, SendsKeeps DEF t

(***************************************************************************)
(* Stage 2 fails.                                                          *)
(***************************************************************************)
LEMMA LoneStage2Fails ==
  ASSUME Inv, Lone, outages = 0, outages' = 0, NEW r \in Requests, Stage2Fails(r)
  PROVE  Lone'
<1>1. /\ place[r] = "stage2" /\ Degrade(r, Stores, TRUE)
      /\ UNCHANGED <<minted, active, own, held>>
  BY JournalWorks DEF Stage2Fails, Step, Rest
<1>2. Cleans(Stores, Stores, TurnOf(r))
  BY <1>1, InStage2
<1> QED
  BY <1>1, <1>2, DegradeKeeps

(***************************************************************************)
(* A step that changes nothing but the place of a request whose record is  *)
(* gone.                                                                   *)
(***************************************************************************)
LEMMA GoneMoves ==
  ASSUME Inv, Lone, NEW r \in Requests, place[r] \in {"frozen", "stage2"},
         Stores.rec[TurnOf(r)].status = "gone", NEW p \in {"stage2", "budget"}, Goto(r, p),
         UNCHANGED stores, UNCHANGED <<minted, active, own, held>>
  PROVE  Lone'
<1> DEFINE t == TurnOf(r)
<1>1. /\ place[r] \in Holding /\ place[r] \in Working /\ t \in Turns /\ Cleans(Stores, Stores, t)
      /\ Stores.rec[t].status = "gone"
  BY InStage2
<1> HIDE DEF t
<1>2. Touches(Stores, Stores, t) /\ Become(Stores)
  BY <1>1, CleansTouches DEF Become, stores, Stores
<1>3. Shut(Stores, t)
  BY <1>1 DEF Shut
<1>4. Stands(Stores, p, active[r], own[r], held[r], t)
  BY <1>1, <1>3 DEF Stands
<1>5. active' = [active EXCEPT ![r] = active[r]] /\ held' = [held EXCEPT ![r] = held[r]]
  BY AsTheyWere
<1>6. p \in Working
  BY DEF Working, Holding
<1> QED
  BY <1>1, <1>2, <1>4, <1>5, <1>6, HolderMoves DEF t

(***************************************************************************)
(* The generation budget is spent in Stage 2.                              *)
(***************************************************************************)
LEMMA LoneStage2Budget ==
  ASSUME Inv, Lone, outages = 0, outages' = 0, NEW r \in Requests, Stage2Budget(r)
  PROVE  Lone'
<1> DEFINE t == TurnOf(r)
           w == Close(Rearm(Stores, own[r]), r, TRUE)
           f == Fail(Stores, t, "memory_failed", TRUE)
<1>1. /\ place[r] = "stage2" /\ UNCHANGED <<minted, active, own, held>>
      /\ \/ Become(w) /\ Goto(r, "spent")
         \/ ~Known(Stores, active[r]) /\ Goto(r, "budget") /\ UNCHANGED stores
         \/ /\ Known(Stores, active[r]) /\ MayFail(Stores, active[r])
            /\ Become(Fail(Stores, active[r], "memory_failed", TRUE)) /\ Goto(r, "budget")
         \/ Known(Stores, active[r]) /\ ~MayFail(Stores, active[r])
  BY JournalWorks DEF Stage2Budget, Step, Rest
<1>2. /\ place[r] \in Holding /\ place[r] \in Working /\ held[r] # NoAnswer /\ t \in Turns
      /\ Sound(Stores, t) /\ At(Stores, r, t) /\ Cleans(Stores, Stores, t)
      /\ \/ Stores.rec[t].status = "gone"
         \/ /\ active[r] = t /\ Stores.rec[t].status \in Distilling
            /\ own[r] # NoCheckpoint => Stores.cp[own[r]].state \in {"live", "expired"}
      /\ Known(Stores, active[r]) <=> Stores.rec[t].status # "gone"
      /\ Known(Stores, active[r]) => active[r] = t
  BY <1>1, InStage2
<1> HIDE DEF t
<1>3. CASE Become(w) /\ Goto(r, "spent")
  <2>1. Cleans(Stores, w, t) /\ Settled(w, t)
    BY <1>2, BusyEnds
  <2> HIDE DEF w
  <2>2. \E p \in {"spent"} : Goto(r, p)
    BY <1>3
  <2> DEFINE places == {"spent"}
  <2>3. Ends(r, t, Stores, places) /\ places \subseteq {"answered", "responding", "left", "spent"}
    BY <1>3, <2>1, <2>2 DEF Ends
  <2> HIDE DEF places
  <2> QED
    BY <1>1, <1>2, <2>3, EndsKeeps DEF t
<1>4. CASE ~Known(Stores, active[r]) /\ Goto(r, "budget") /\ UNCHANGED stores
  BY <1>1, <1>2, <1>4, GoneMoves DEF t
<1>5. CASE Known(Stores, active[r])
  <2>1. active[r] = t /\ Stores.rec[t].status # "gone" /\ MayFail(Stores, t)
    BY <1>2, <1>5, MayFailIt
  <2>2. CASE Become(f) /\ Goto(r, "budget")
    <3>1. Cleans(Stores, f, t) /\ Shut(f, t)
      BY <1>2, <2>1, FailCleans DEF Ended
    <3> HIDE DEF f
    <3>2. Touches(Stores, f, t)
      BY <1>2, <3>1, CleansTouches
    <3>3. Stands(f, "budget", active[r], own[r], held[r], t)
      BY <2>1, <3>1 DEF Stands
    <3>4. active' = [active EXCEPT ![r] = active[r]] /\ held' = [held EXCEPT ![r] = held[r]]
      BY <1>1, AsTheyWere
    <3>5. "budget" \in Working
      BY DEF Working
    <3> QED
      BY <1>1, <1>2, <2>2, <3>2, <3>3, <3>4, <3>5, HolderMoves DEF t
  <2> QED
    BY <1>1, <1>3, <1>5, <2>1, <2>2
<1> QED
  BY <1>1, <1>3, <1>4, <1>5

(***************************************************************************)
(* The record gets its second attempt before the row, unless the turn is   *)
(* over.                                                                   *)
(***************************************************************************)
LEMMA StartTouches ==
  ASSUME NEW t \in Turns, NEW v, Sound(v, t), v.rec[t].status \in Distilling
  PROVE  LET u == [v EXCEPT !.rec[t].second = TRUE]
             w == Noted(StartRow(u, t), t, "stage2_active")
         IN  /\ MayStart(u, t) => Touches(v, w, t) /\ w.cp = v.cp /\ w.rec[t].status = "stage2_active"
             /\ ~MayStart(u, t) => Cleans(v, u, t)
<1> DEFINE g == [v.rec[t] EXCEPT !.second = TRUE]
           e == [v.row[t] EXCEPT !.status = "stage2_active", !.second = TRUE]
           h == [g EXCEPT !.status = "stage2_active"]
           u == [v EXCEPT !.rec[t].second = TRUE]
           w == Noted(StartRow(u, t), t, "stage2_active")
<1>0. /\ v \in StoreType /\ v.row \in [Turns -> Row] /\ v.row[t] \in Row
      /\ v.rec \in [Turns -> Rec] /\ v.rec[t] \in Rec /\ v.cp \in [Checkpoints -> Checkpoint]
  BY StoreFields DEF Sound
<1>1. /\ g \in Rec /\ g.status = v.rec[t].status /\ g.answer = v.rec[t].answer
      /\ g.first = v.rec[t].first /\ g.second = TRUE
      /\ e \in Row /\ e.status = "stage2_active" /\ e.answer = v.row[t].answer
      /\ e.first = v.row[t].first /\ e.second = TRUE
      /\ h \in Rec /\ h.status = "stage2_active" /\ h.answer = v.rec[t].answer
      /\ h.first = v.rec[t].first /\ h.second = TRUE
  BY <1>0 DEF Row, Rec, Life, Distilling
<1>2. u = [v EXCEPT !.rec[t] = g]
  BY <1>0
<1>3. v.rec[t].status # "gone" /\ ~Shut(v, t)
  BY DEF Shut, Distilling, Ended
<1>4. v = [row |-> v.row, rec |-> v.rec, cp |-> v.cp]
  BY <1>0 DEF StoreType
<1>5. u = [row |-> v.row, rec |-> [v.rec EXCEPT ![t] = g], cp |-> v.cp]
  <2> HIDE DEF g, u
  <2> QED
    BY <1>2, <1>4
<1>6. w = Wrote(v, t, e, h)
  <2> DEFINE s == StartRow(u, t)
  <2>1. s = [u EXCEPT !.row[t].status = "stage2_active", !.row[t].second = TRUE]
    BY DEF StartRow
  <2> HIDE DEF g, u, s
  <2>2. s = [row |-> [v.row EXCEPT ![t] = e], rec |-> [v.rec EXCEPT ![t] = g], cp |-> v.cp]
    BY <1>0, <1>5, <2>1 DEF Row, Life
  <2>3. w = [s EXCEPT !.rec[t].status = "stage2_active"]
    BY DEF Noted, s
  <2> HIDE DEF w, e
  <2>4. w = [row |-> [v.row EXCEPT ![t] = e], rec |-> [v.rec EXCEPT ![t] = h], cp |-> v.cp]
    BY <1>0, <2>2, <2>3
  <2> QED
    BY <2>4 DEF Wrote
<1>7. Closes(v, u, t) /\ u.row = v.row /\ u.cp = v.cp /\ u.rec = [v.rec EXCEPT ![t] = g]
  <2> HIDE DEF g, u
  <2> QED
    BY <1>0, <1>1, <1>2, RecChanges
<1> HIDE DEF e, g, h, u, w
<1>8. u.rec[t] = g /\ \A s \in Turns : s # t => u.rec[s] = v.rec[s]
  BY <1>0, <1>7
<1>9. /\ v.row[t].first = v.rec[t].first /\ v.row[t].answer = v.rec[t].answer
      /\ Agree(v.rec[t].status, v.row[t].status)
      /\ v.row[t].status = "stage2_active" => v.row[t].second
  BY <1>3 DEF Sound, Fits
<1>10. ASSUME MayStart(u, t)
       PROVE  Touches(v, w, t) /\ w.cp = v.cp /\ w.rec[t].status = "stage2_active"
  <2>1. /\ w.row[t] = e /\ w.rec[t] = h /\ w.cp = v.cp
        /\ Fits(w, t) /\ (Shut(v, t) => Shut(w, t)) => Touches(v, w, t)
    BY <1>1, <1>3, <1>6, TurnTouches
  <2>2. Fits(w, t)
    BY <1>1, <1>9, <2>1 DEF Fits, Agree, Open, Distilling, Unfinished
  <2> QED
    BY <1>1, <1>3, <2>1, <2>2
<1>11. ASSUME ~MayStart(u, t)
       PROVE  Cleans(v, u, t)
  <2>1. v.row[t].status \in Ended
    <3>1. v.row[t].status \notin {"stage1_frozen", "stage2_active"}
      BY <1>1, <1>7, <1>8, <1>9, <1>11 DEF MayStart
    <3>2. v.rec[t].status \notin Open
      BY DEF Open, Distilling
    <3> QED
      BY <1>9, <3>1, <3>2 DEF Agree, Unfinished
  <2>2. v.row[t].status \notin Open \cup Unfinished /\ v.row[t].status # "stage2_active"
    BY <2>1 DEF Ended, Open, Unfinished
  <2>3. Fits(u, t)
    BY <1>1, <1>7, <1>8, <1>9, <2>1, <2>2 DEF Fits, Agree
  <2>4. Closed(u, t)
    BY <1>7, <2>1 DEF Closed
  <2> QED
    BY <1>1, <1>3, <1>7, <1>8, <2>3, <2>4, TurnCleans
<1> QED
  BY <1>10, <1>11 DEF u, w

(***************************************************************************)
(* Stage 2 is started, or given up.                                        *)
(***************************************************************************)
LEMMA LoneStartStage2 ==
  ASSUME Inv, Lone, outages = 0, outages' = 0, NEW r \in Requests, StartStage2(r)
  PROVE  Lone'
<1> DEFINE t == TurnOf(r)
           u == [Stores EXCEPT !.rec[t].second = TRUE]
           w == Noted(StartRow(u, t), t, "stage2_active")
           k == Known(Stores, active[r])
<1>1. /\ place[r] = "frozen" /\ UNCHANGED <<minted, active, own, held>>
      /\ \/ ~k /\ Goto(r, "stage2") /\ UNCHANGED stores
         \/ k /\ MayStart(u, t) /\ Become(w) /\ Goto(r, "stage2")
         \/ k /\ ~MayStart(u, t) /\ Degrade(r, u, TRUE)
  <2>1. k => active[r] = t
    BY TurnOfRequest
  <2>2. PICK up \in BOOLEAN :
          /\ Step(r, "frozen", up)
          /\ \/ ~k /\ Goto(r, "stage2") /\ UNCHANGED stores
             \/ k /\ up /\ MayStart(u, t) /\ Become(w) /\ Goto(r, "stage2")
             \/ k /\ ~(up /\ MayStart(u, t)) /\ Degrade(r, u, up)
    BY <2>1 DEF StartStage2
  <2>3. up = TRUE
    BY <2>2, JournalWorks DEF Step
  <2> HIDE DEF k, u, w
  <2> QED
    BY <2>2, <2>3 DEF StartStage2, Step, Rest
<1>2. /\ place[r] \in Holding /\ place[r] \in Working /\ held[r] # NoAnswer /\ t \in Turns
      /\ Sound(Stores, t) /\ At(Stores, r, t)
      /\ \/ Stores.rec[t].status = "gone"
         \/ /\ active[r] = t /\ Stores.rec[t].status \in Distilling
            /\ own[r] # NoCheckpoint => Stores.cp[own[r]].state \in {"live", "expired"}
      /\ k <=> Stores.rec[t].status # "gone"
  BY <1>1, InStage2
<1> HIDE DEF t, k
<1>3. CASE ~k /\ Goto(r, "stage2") /\ UNCHANGED stores
  BY <1>1, <1>2, <1>3, GoneMoves DEF t
<1>4. CASE k /\ MayStart(u, t) /\ Become(w) /\ Goto(r, "stage2")
  <2>1. Touches(Stores, w, t) /\ w.cp = Stores.cp /\ w.rec[t].status = "stage2_active"
    BY <1>2, <1>4, StartTouches
  <2> HIDE DEF u, w
  <2>2. Stands(w, "stage2", active[r], own[r], held[r], t)
    BY <1>2, <1>4, <2>1 DEF Stands, Distilling
  <2>3. active' = [active EXCEPT ![r] = active[r]] /\ held' = [held EXCEPT ![r] = held[r]]
    BY <1>1, AsTheyWere
  <2>4. "stage2" \in Working
    BY DEF Working, Holding
  <2> QED
    BY <1>1, <1>2, <1>4, <2>1, <2>2, <2>3, <2>4, HolderMoves DEF t
<1>5. CASE k /\ ~MayStart(u, t) /\ Degrade(r, u, TRUE)
  <2>1. Cleans(Stores, u, t)
    BY <1>2, <1>5, StartTouches
  <2> HIDE DEF u
  <2> QED
    BY <1>1, <1>5, <2>1, DegradeKeeps DEF t
<1> HIDE DEF u, w
<1> QED
  BY <1>1, <1>3, <1>4, <1>5

(***************************************************************************)
(* The row of a turn is committed.                                         *)
(***************************************************************************)
LEMMA CommitRowCleans ==
  ASSUME NEW t \in Turns, NEW v, Sound(v, t), v.rec[t].status \in Distilling
  PROVE  LET w == CommitRow(v, t)
         IN  /\ Touches(v, w, t) /\ Closed(w, t) /\ w.row[t].status \in Ended /\ w.cp = v.cp
             /\ w.rec[t].status # "gone"
<1> DEFINE e == [v.row[t] EXCEPT !.status = "complete"]
           g == v.rec[t]
           w == CommitRow(v, t)
<1>0. /\ v \in StoreType /\ v.row \in [Turns -> Row] /\ v.row[t] \in Row
      /\ v.rec \in [Turns -> Rec] /\ g \in Rec /\ v.cp \in [Checkpoints -> Checkpoint]
  BY StoreFields DEF Sound
<1>1. /\ e \in Row /\ e.status = "complete" /\ e.answer = v.row[t].answer
      /\ e.first = v.row[t].first /\ e.second = v.row[t].second
  BY <1>0 DEF Row, Life, Ended
<1>2. w = Wrote(v, t, e, g)
  <2>1. v = [row |-> v.row, rec |-> v.rec, cp |-> v.cp]
    BY <1>0 DEF StoreType
  <2>2. w = [v EXCEPT !.row[t].status = "complete"]
    BY DEF CommitRow
  <2>3. [v.rec EXCEPT ![t] = g] = v.rec
    BY <1>0
  <2> HIDE DEF w, g
  <2> QED
    BY <2>1, <2>2, <2>3 DEF Wrote
<1>3. v.rec[t].status # "gone" /\ ~Shut(v, t)
  BY DEF Shut, Distilling, Ended
<1>4. "complete" \in Ended /\ "complete" \notin Open \cup Unfinished
  BY DEF Ended, Open, Unfinished
<1>5. v.row[t].first = v.rec[t].first /\ v.row[t].answer = v.rec[t].answer
  BY <1>3 DEF Sound, Fits
<1> HIDE DEF e, w
<1>6. /\ w.row[t] = e /\ w.rec[t] = g /\ w.cp = v.cp
      /\ Fits(w, t) /\ (Shut(v, t) => Shut(w, t)) => Touches(v, w, t)
  BY <1>0, <1>1, <1>2, TurnTouches
<1>7. Fits(w, t)
  BY <1>1, <1>4, <1>5, <1>6 DEF Fits, Agree
<1> QED
  BY <1>1, <1>3, <1>4, <1>6, <1>7 DEF Closed, w

(***************************************************************************)
(* Stage 2 has a memory.                                                   *)
(***************************************************************************)
LEMMA LoneCommit ==
  ASSUME Inv, Lone, outages = 0, outages' = 0, NEW r \in Requests, Commit(r)
  PROVE  Lone'
<1> DEFINE t == TurnOf(r)
           k == Known(Stores, active[r])
           w == CommitRow(Stores, t)
           n == Noted(w, t, "complete")
           Out(x, p) == Send(r, Retire(x, own[r]), TRUE, p)
<1>1. /\ place[r] = "stage2" /\ UNCHANGED <<minted, active, own, held>>
      /\ \/ ~k /\ Out(Stores, "sending")
         \/ k /\ (Out(w, "committed") \/ Out(n, "committed"))
         \/ k /\ Degrade(r, Stores, TRUE)
  <2>1. k => active[r] = t
    BY TurnOfRequest
  <2>2. PICK up \in BOOLEAN :
          /\ Step(r, "stage2", up)
          /\ \/ ~k /\ Send(r, Retire(Stores, own[r]), up, "sending")
             \/ /\ k
                /\ \/ Send(r, Retire(w, own[r]), up, "committed")
                   \/ Send(r, Retire(n, own[r]), up, "committed")
             \/ k /\ Degrade(r, Stores, up)
    BY <2>1 DEF Commit
  <2>3. up = TRUE
    BY <2>2, JournalWorks DEF Step
  <2> HIDE DEF k, w, n
  <2> QED
    BY <2>2, <2>3 DEF Commit, Step, Rest
<1>2. /\ place[r] \in Holding /\ t \in Turns
      /\ Sound(Stores, t) /\ At(Stores, r, t) /\ Cleans(Stores, Stores, t)
      /\ Stores.rec[t].status = "gone" \/ (active[r] = t /\ Stores.rec[t].status \in Distilling)
      /\ k <=> Stores.rec[t].status # "gone"
  BY <1>1, InStage2
<1>3. active[r] = t \/ rec[t].status = "gone"
  BY <1>2 DEF Stores
<1> HIDE DEF t, k
<1>4. ASSUME NEW x, Touches(Stores, x, t), Closed(x, t), NEW p \in {"sending", "committed"}, Out(x, p)
      PROVE  Lone'
  <2> DEFINE y == Retire(x, own[r])
  <2>1. Sound(x, t) /\ At(x, r, t)
    BY <1>2, <1>4 DEF Touches, At
  <2>2. Cleans(x, y, t)
    BY <1>2, <2>1, RetireCleans DEF At
  <2>3. Send(r, y, TRUE, p)
    BY <1>4
  <2> HIDE DEF y, Out
  <2>4. Sound(y, t) /\ At(y, r, t) /\ Closed(y, t)
    BY <1>4, <2>1, <2>2, AtOn DEF Cleans
  <2>5. Sends(r, t, y, p)
    BY <1>2, <2>3, <2>4, SendEnds
  <2>6. Touches(Stores, y, t)
    BY <1>2, <1>4, <2>2, TouchesThen
  <2> QED
    BY <1>1, <1>2, <1>3, <2>5, <2>6, SendsKeeps DEF t
<1>5. CASE ~k /\ Out(Stores, "sending")
  <2>1. Touches(Stores, Stores, t) /\ Closed(Stores, t)
    BY <1>2, <1>5, CleansTouches DEF Closed
  <2> HIDE DEF Out
  <2> QED
    BY <1>4, <1>5, <2>1
<1>6. CASE k /\ (Out(w, "committed") \/ Out(n, "committed"))
  <2>1. /\ Touches(Stores, w, t) /\ Closed(w, t) /\ w.row[t].status \in Ended
        /\ w.rec[t].status # "gone"
    BY <1>2, <1>6, CommitRowCleans
  <2> HIDE DEF w
  <2>2. Cleans(w, n, t)
    BY <1>2, <2>1, NotedCleans DEF Touches, Ended
  <2> HIDE DEF n
  <2>3. Touches(Stores, n, t) /\ Closed(n, t)
    BY <1>2, <2>1, <2>2, TouchesThen DEF Cleans
  <2> HIDE DEF Out
  <2> QED
    BY <1>4, <1>6, <2>1, <2>3
<1>7. CASE Degrade(r, Stores, TRUE)
  BY <1>1, <1>2, <1>7, DegradeKeeps DEF t
<1> HIDE DEF Out, w, n
<1> QED
  BY <1>1, <1>5, <1>6, <1>7

(***************************************************************************)
(* With one permit, nobody else is at work when one is given.              *)
(***************************************************************************)
LEMMA NoHolder ==
  ASSUME MaxConcurrent = 1, Permit
  PROVE  \A q \in Requests : place[q] \notin Holding
<1> DEFINE S == {q \in Requests : place[q] \in Holding}
<1>1. IsFiniteSet(S)
  BY AgenticConstants, FS_Subset
<1>2. Cardinality(S) \in Nat /\ Cardinality(S) < 1
  BY <1>1, FS_CardinalityType DEF Permit
<1>3. S = {}
  BY <1>1, <1>2, FS_EmptySet
<1> QED
  BY <1>3

(***************************************************************************)
(* A checkpoint that is claimed: nothing else changes.                     *)
(***************************************************************************)
LEMMA ClaimCleans ==
  ASSUME Inv, Lone, NEW c \in Checkpoints, cp[c].state = "live"
  PROVE  LET w == [Stores EXCEPT !.cp = Claimed(c)]
             t == cp[c].turn
         IN  /\ t \in Turns /\ t \in 1..minted /\ Sound(Stores, t) /\ Cleans(Stores, w, t)
             /\ w.row = row /\ w.rec = rec /\ w.cp = Claimed(c)
             /\ w.cp[c].state = "live" /\ w.cp[c].turn = t /\ w.cp[c].answer = cp[c].answer
<1> DEFINE w == [Stores EXCEPT !.cp = Claimed(c)]
           t == cp[c].turn
           e == [cp[c] EXCEPT !.inFlight = TRUE, !.accepted = TRUE]
<1>1. /\ Stores \in StoreType /\ Stores.row = row /\ Stores.rec = rec /\ Stores.cp = cp
      /\ cp \in [Checkpoints -> Checkpoint] /\ cp[c] \in Checkpoint /\ minted \in 0..MaxTurns
  BY StoresTyped DEF Inv, TypeOK
<1>2. t \in 1..minted
  BY <1>1 DEF Lone, StoreFits
<1>3. t \in Turns
  BY <1>1, <1>2, AgenticConstants DEF Turns
<1>4. Sound(Stores, t)
  BY <1>1, <1>3 DEF Lone, Sound
<1>5. Closes(Stores, w, t) /\ w.row = row /\ w.rec = rec /\ w.cp = Claimed(c)
  BY ClaimedOf
<1>6. /\ e \in Checkpoint /\ e.turn = t /\ e.state = "live" /\ e.answer = cp[c].answer
  BY <1>1 DEF Checkpoint
<1>7. Claimed(c) = [cp EXCEPT ![c] = e]
  BY <1>1 DEF Claimed, Checkpoint
<1> HIDE DEF w, e, t
<1>8. w.cp[c] = e /\ \A d \in Checkpoints : d # c => w.cp[d] = cp[d]
  BY <1>1, <1>5, <1>7
<1>9. StoreFits(w)
  BY <1>1, <1>2, <1>6, <1>8 DEF Lone, StoreFits
<1>10. Sound(w, t)
  BY <1>1, <1>4, <1>5, <1>9 DEF Sound, Fits, Closes
<1>11. OnlyOf(Stores, w, t)
  <2>1. \A d \in Checkpoints : w.cp[d] # cp[d] => w.cp[d].turn = t /\ cp[d].turn = t
    BY <1>6, <1>8 DEF t
  <2> QED
    BY <1>1, <1>5, <2>1 DEF OnlyOf
<1>12. Cleans(Stores, w, t)
  BY <1>1, <1>5, <1>10, <1>11 DEF Cleans, Shut, Closed
<1> QED
  BY <1>2, <1>3, <1>4, <1>5, <1>6, <1>8, <1>12 DEF w, t

(***************************************************************************)
(* An idle request that claims a checkpoint goes on with the turn of it.   *)
(***************************************************************************)
LEMMA IdleMoves ==
  ASSUME Inv, Lone, NEW r \in Requests, place[r] = "idle", NEW c \in Checkpoints,
         cp[c].state = "live", \A q \in Requests : place[q] \notin Holding,
         NEW w, Become(w), Cleans(Stores, w, cp[c].turn), NEW p, NEW a, NEW h, Goto(r, p),
         Stands(w, p, a, c, h, cp[c].turn), own' = [own EXCEPT ![r] = c],
         active' = [active EXCEPT ![r] = a], held' = [held EXCEPT ![r] = h],
         minted' = minted, p \in Working \/ Settled(w, cp[c].turn)
  PROVE  Lone'
<1> DEFINE t == cp[c].turn
<1>1. t \in Turns /\ t \in 1..minted /\ Stores.cp = cp /\ Stores.rec = rec
  BY ClaimCleans DEF Stores
<1>2. /\ Sound(w, t) /\ OnlyOf(Stores, w, t) /\ (Shut(Stores, t) => Shut(w, t))
      /\ w.rec[t].status = "gone" <=> rec[t].status = "gone"
      /\ \A d \in Checkpoints :
           cp[d].state # "unused" => w.cp[d].state # "unused" /\ w.cp[d].turn = cp[d].turn
  BY <1>1 DEF Cleans, Closes
<1>3. c # NoCheckpoint /\ w.cp[c].turn = t
  BY <1>2, AgenticConstants
<1>4. place' = [place EXCEPT ![r] = p] /\ place[r] \notin Working
  BY DEF Goto, Working, Holding
<1>5. /\ (IF c = NoCheckpoint THEN a ELSE w.cp[c].turn) = t
      /\ Stands(w, p, a, c, h, t) /\ (p \in Working \/ Settled(w, t))
      /\ place[r] \in Working => TurnOf(r) = t
  BY <1>3, <1>4
<1>6. \A q \in Requests \ {r} :
        place[q] \in Holding =>
          p \notin Holding /\ Stands(w, place[q], active[q], own[q], held[q], TurnOf(q))
  OBVIOUS
<1> HIDE DEF t
<1> QED
  BY <1>1, <1>2, <1>4, <1>5, <1>6, OneMoves

(***************************************************************************)
(* An idle request has nothing yet.                                        *)
(***************************************************************************)
LEMMA IdleHas ==
  ASSUME Inv, Lone, NEW r \in Requests, place[r] = "idle"
  PROVE  active[r] = NoTurn /\ own[r] = NoCheckpoint /\ held[r] = NoAnswer
<1>1. Stands(Stores, "idle", active[r], own[r], held[r], TurnOf(r))
  BY LoneRequest
<1>2. Engaged("idle", active[r], own[r], held[r], row, cp)
  BY DEF Inv, RequestInv
<1> QED
  BY <1>1, <1>2 DEF Stands, Engaged

(***************************************************************************)
(* A claim.                                                                *)
(***************************************************************************)
LEMMA LoneClaim ==
  ASSUME MaxConcurrent = 1, Inv, Lone, NEW r \in Requests, Claim(r)
  PROVE  Lone'
<1>1. PICK c \in Checkpoints :
        /\ Claimable(r, c) /\ cp' = Claimed(c) /\ own' = [own EXCEPT ![r] = c]
  BY DEF Claim
<1> DEFINE w == [Stores EXCEPT !.cp = Claimed(c)]
           t == cp[c].turn
<1>2. /\ Goto(r, "claimed") /\ UNCHANGED <<row, rec, minted, active, held>>
      /\ place[r] = "idle" /\ cp[c].state = "live"
  BY <1>1 DEF Claim, Claimable
<1>3. \A q \in Requests : place[q] \notin Holding
  BY <1>1, NoHolder DEF Claimable
<1>4. /\ Cleans(Stores, w, t) /\ w.row = row /\ w.rec = rec /\ w.cp = Claimed(c)
      /\ w.cp[c].state = "live"
  BY <1>2, ClaimCleans
<1> HIDE DEF w, t
<1>5. Become(w)
  BY <1>1, <1>2, <1>4 DEF Become
<1>6. active' = [active EXCEPT ![r] = active[r]] /\ held' = [held EXCEPT ![r] = held[r]]
  BY <1>2, AsTheyWere
<1>7. Stands(w, "claimed", active[r], c, held[r], t)
  BY <1>2, <1>4, IdleHas DEF Stands
<1>8. "claimed" \in Working
  BY DEF Working, Holding
<1> QED
  BY <1>1, <1>2, <1>3, <1>4, <1>5, <1>6, <1>7, <1>8, IdleMoves DEF t

(***************************************************************************)
(* A claim of a turn whose answer is frozen, or its refusal.               *)
(***************************************************************************)
LEMMA LoneClaimFrozen ==
  ASSUME MaxConcurrent = 1, Inv, Lone, NEW r \in Requests, ClaimFrozen(r)
  PROVE  Lone'
<1>1. PICK c \in Checkpoints :
       LET t == cp[c].turn
           w == [Stores EXCEPT !.cp = Claimed(c)]
       IN /\ Claimable(r, c) /\ Frozen(r, c)
          /\ own' = [own EXCEPT ![r] = c]
          /\ IF rec[t].status \in Distilling
             THEN /\ Become(w)
                  /\ active' = [active EXCEPT ![r] = t]
                  /\ held' = [held EXCEPT ![r] = cp[c].answer]
                  /\ Goto(r, "frozen")
             ELSE /\ Become(IF rec[t].status \in Ended THEN Retire(w, c) ELSE Rearm(w, c))
                  /\ Goto(r, "failing")
                  /\ UNCHANGED <<active, held>>
  BY DEF ClaimFrozen
<1> DEFINE t == cp[c].turn
           w == [Stores EXCEPT !.cp = Claimed(c)]
<1>2. /\ place[r] = "idle" /\ cp[c].state = "live" /\ minted' = minted
      /\ own' = [own EXCEPT ![r] = c] /\ c # NoCheckpoint
  BY <1>1, AgenticConstants DEF ClaimFrozen, Claimable
<1>3. \A q \in Requests : place[q] \notin Holding
  BY <1>1, NoHolder DEF Claimable
<1>4. /\ t \in Turns /\ Cleans(Stores, w, t) /\ w.rec = rec
      /\ w.cp[c].state = "live" /\ w.cp[c].turn = t
  BY <1>2, ClaimCleans
<1>5. CASE rec[t].status \in Distilling
  <2>1. /\ Become(w) /\ active' = [active EXCEPT ![r] = t]
        /\ held' = [held EXCEPT ![r] = cp[c].answer] /\ Goto(r, "frozen")
    BY <1>1, <1>5
  <2> HIDE DEF w, t
  <2>2. Stands(w, "frozen", t, c, cp[c].answer, t)
    BY <1>4, <1>5 DEF Stands
  <2>3. "frozen" \in Working
    BY DEF Working, Holding
  <2> QED
    BY <1>2, <1>3, <1>4, <2>1, <2>2, <2>3, IdleMoves DEF t
<1>6. CASE rec[t].status \notin Distilling
  <2> DEFINE x == IF rec[t].status \in Ended THEN Retire(w, c) ELSE Rearm(w, c)
  <2>1. Become(x) /\ active' = active /\ held' = held /\ Goto(r, "failing")
    BY <1>1, <1>6
  <2> HIDE DEF w, t
  <2>2. Sound(w, t)
    BY <1>4 DEF Cleans
  <2>3. Cleans(w, x, t) /\ Settled(x, t)
    <3>1. CASE rec[t].status \in Ended
      <4>1. x = Retire(w, c) /\ Shut(w, t)
        BY <1>4, <3>1 DEF Shut
      <4>2. Cleans(w, Retire(w, c), t)
        BY <1>2, <1>4, <2>2, <4>1, RetireCleans
      <4>3. Closed(w, t)
        BY <2>2, <4>1, ShutIsClosed DEF Sound
      <4> QED
        BY <4>1, <4>2, <4>3 DEF Cleans, Settled
    <3>2. CASE rec[t].status \notin Ended
      <4>1. x = Rearm(w, c)
        BY <3>2
      <4>2. Cleans(w, Rearm(w, c), t) /\ Waiting(Rearm(w, c), t)
        BY <1>2, <1>4, <2>2, RearmCleans
      <4> QED
        BY <4>1, <4>2 DEF Settled
    <3> QED
      BY <3>1, <3>2
  <2> HIDE DEF x
  <2>4. Cleans(Stores, x, t)
    BY <1>4, <2>3, CleansTwice
  <2>5. active' = [active EXCEPT ![r] = active[r]] /\ held' = [held EXCEPT ![r] = held[r]]
    BY <2>1, AsTheyWere
  <2>6. Stands(x, "failing", active[r], c, held[r], t)
    BY <1>2, IdleHas, OverStands
  <2> QED
    BY <1>2, <1>3, <2>1, <2>3, <2>4, <2>5, <2>6, IdleMoves DEF t
<1> QED
  BY <1>5, <1>6

(***************************************************************************)
(* What the invariant says of a request that has claimed a checkpoint.     *)
(***************************************************************************)
LEMMA HasClaimed ==
  ASSUME Inv, Lone, NEW r \in Requests, place[r] = "claimed"
  PROVE  /\ place[r] \in Holding /\ place[r] \in Working /\ held[r] = NoAnswer
         /\ active[r] = NoTurn /\ own[r] # NoCheckpoint /\ TurnOf(r) = cp[own[r]].turn
         /\ TurnOf(r) \in Turns /\ Sound(Stores, TurnOf(r)) /\ At(Stores, r, TurnOf(r))
         /\ Cleans(Stores, Stores, TurnOf(r)) /\ Touches(Stores, Stores, TurnOf(r))
         /\ Shut(Stores, TurnOf(r)) \/ Stores.cp[own[r]].state \in {"live", "expired"}
<1>1. place[r] \in Holding /\ place[r] \in Working
  BY DEF Holding, Working
<1>2. /\ Stands(Stores, "claimed", active[r], own[r], held[r], TurnOf(r))
      /\ TurnOf(r) \in Turns /\ Sound(Stores, TurnOf(r)) /\ At(Stores, r, TurnOf(r))
  BY <1>1, LoneRequest
<1>3. active[r] = NoTurn /\ own[r] # NoCheckpoint
  BY DEF Inv, RequestInv, Engaged
<1>4. TurnOf(r) = cp[own[r]].turn
  BY <1>3 DEF TurnOf
<1>5. held[r] = NoAnswer
      /\ (Shut(Stores, TurnOf(r)) \/ Stores.cp[own[r]].state \in {"live", "expired"})
  BY <1>2, <1>3 DEF Stands
<1>6. Cleans(Stores, Stores, TurnOf(r)) /\ Touches(Stores, Stores, TurnOf(r))
  BY <1>2, CleansSelf, CleansTouches
<1> QED
  BY <1>1, <1>2, <1>3, <1>4, <1>5, <1>6

(***************************************************************************)
(* A claimed turn that was suspended is open again.                        *)
(***************************************************************************)
LEMMA ReopenTouches ==
  ASSUME Inv, NEW t \in Turns, Sound(Stores, t), rec[t].status = "awaiting_tool",
         Owned(Stores, t, TRUE)
  PROVE  LET w == [Stores EXCEPT !.row[t].status = "stage1_active",
                                 !.rec[t].status = "stage1_active"]
         IN  Touches(Stores, w, t) /\ w.rec[t].status = "stage1_active" /\ w.cp = cp
<1> DEFINE e == [row[t] EXCEPT !.status = "stage1_active"]
           g == [rec[t] EXCEPT !.status = "stage1_active"]
           w == [Stores EXCEPT !.row[t].status = "stage1_active",
                               !.rec[t].status = "stage1_active"]
<1>1. /\ Stores \in StoreType /\ Stores.row = row /\ Stores.rec = rec /\ Stores.cp = cp
      /\ row \in [Turns -> Row] /\ rec \in [Turns -> Rec] /\ row[t] \in Row /\ rec[t] \in Rec
  BY StoresTyped, StoreFields DEF Inv
<1>2. /\ e \in Row /\ e.status = "stage1_active" /\ e.first = row[t].first
      /\ e.answer = row[t].answer /\ e.second = row[t].second
      /\ g \in Rec /\ g.status = "stage1_active" /\ g.first = rec[t].first
      /\ g.answer = rec[t].answer /\ g.second = rec[t].second
  BY <1>1 DEF Row, Rec, Life, Open
<1>3. w = Wrote(Stores, t, e, g)
  <2> DEFINE z == [row |-> [row EXCEPT ![t] = e], rec |-> rec, cp |-> cp]
  <2>1. [Stores EXCEPT !.row[t].status = "stage1_active"] = z
    BY SMTT(30), <1>1 DEF Stores, Row, Life
  <2>2. w = [z EXCEPT !.rec[t].status = "stage1_active"]
    BY <2>1
  <2> HIDE DEF e, w
  <2> QED
    BY <1>1, <2>2 DEF Wrote, Rec, Life
<1> HIDE DEF e, g, w
<1>4. g.status = "gone" <=> Stores.rec[t].status = "gone"
  BY <1>1, <1>2
<1>5. /\ w.row[t] = e /\ w.rec[t] = g /\ w.cp = Stores.cp
      /\ Fits(w, t) /\ (Shut(Stores, t) => Shut(w, t)) => Touches(Stores, w, t)
  BY <1>2, <1>3, <1>4, TurnTouches
<1>6. /\ row[t].first = rec[t].first /\ row[t].answer = rec[t].answer
      /\ ~rec[t].second /\ row[t].second = rec[t].second
  BY <1>1 DEF Sound, Fits, Owned
<1>7. Fits(w, t)
  <2>1. Agree("stage1_active", "stage1_active")
    BY DEF Agree, Open
  <2> QED
    BY <1>2, <1>5, <1>6, <2>1 DEF Fits
<1>8. ~Shut(Stores, t)
  BY <1>1 DEF Shut, Ended
<1> QED
  BY <1>1, <1>2, <1>5, <1>7, <1>8 DEF w

(***************************************************************************)
(* A claimed turn goes on, or is refused.                                  *)
(***************************************************************************)
LEMMA LoneBeginResumed ==
  ASSUME Inv, Lone, outages = 0, outages' = 0, NEW r \in Requests, BeginResumed(r)
  PROVE  Lone'
<1> DEFINE t == TurnOf(r)
           x == [Stores EXCEPT !.row[t].status = "stage1_active",
                               !.rec[t].status = "stage1_active"]
<1>1. place[r] = "claimed" /\ UNCHANGED <<minted, own, held>>
  BY DEF BeginResumed
<1>2. /\ place[r] \in Holding /\ place[r] \in Working /\ held[r] = NoAnswer
      /\ active[r] = NoTurn /\ own[r] # NoCheckpoint /\ t = cp[own[r]].turn
      /\ t \in Turns /\ Sound(Stores, t) /\ At(Stores, r, t)
      /\ Cleans(Stores, Stores, t) /\ Touches(Stores, Stores, t)
      /\ Shut(Stores, t) \/ Stores.cp[own[r]].state \in {"live", "expired"}
  BY <1>1, HasClaimed
<1>3. \/ ~Known(Stores, t) /\ Become(Stores) /\ Goto(r, "stage1") /\ UNCHANGED active
      \/ /\ rec[t].status = "stage1_active"
         /\ Become(Stores) /\ Goto(r, "stage1")
         /\ active' = [active EXCEPT ![r] = t]
      \/ /\ rec[t].status = "awaiting_tool" /\ Owned(Stores, t, TRUE)
         /\ Become(x) /\ Goto(r, "stage1")
         /\ active' = [active EXCEPT ![r] = t]
      \/ Raise(r, Stores, TRUE) /\ UNCHANGED active
  <2>1. PICK up \in BOOLEAN :
          /\ Journal(up)
          /\ \/ ~Known(Stores, t) /\ Become(Stores) /\ Goto(r, "stage1") /\ UNCHANGED active
             \/ /\ rec[t].status = "stage1_active"
                /\ Become(Stores) /\ Goto(r, "stage1")
                /\ active' = [active EXCEPT ![r] = t]
             \/ /\ rec[t].status = "awaiting_tool" /\ Owned(Stores, t, up)
                /\ Become(x) /\ Goto(r, "stage1")
                /\ active' = [active EXCEPT ![r] = t]
             \/ Raise(r, Stores, up) /\ UNCHANGED active
    BY <1>2 DEF BeginResumed
  <2>2. up = TRUE
    BY <2>1, JournalWorks
  <2> QED
    BY <2>1, <2>2
<1>4. Stores.rec = rec /\ Stores.cp = cp /\ "stage1" \in Working /\ t # NoTurn
  BY <1>2 DEF Stores, Working, Holding, Turns, NoTurn
<1>5. held' = [held EXCEPT ![r] = held[r]] /\ active = [active EXCEPT ![r] = active[r]]
  BY <1>1, AsTheyWere
<1> HIDE DEF t, x
<1>6. CASE ~Known(Stores, t) /\ Become(Stores) /\ Goto(r, "stage1") /\ UNCHANGED active
  <2>1. Stores.rec[t].status = "gone"
    BY <1>4, <1>6 DEF Known
  <2>2. Stands(Stores, "stage1", active[r], own[r], held[r], t)
    BY <1>2, <2>1 DEF Stands
  <2>3. active' = [active EXCEPT ![r] = active[r]]
    BY <1>5, <1>6
  <2> QED
    BY <1>1, <1>2, <1>4, <1>5, <1>6, <2>2, <2>3, HolderMoves DEF t
<1>7. CASE /\ rec[t].status = "stage1_active"
           /\ Become(Stores) /\ Goto(r, "stage1")
           /\ active' = [active EXCEPT ![r] = t]
  <2>1. Stands(Stores, "stage1", t, own[r], held[r], t)
    BY <1>2, <1>4, <1>7 DEF Stands
  <2> QED
    BY <1>1, <1>2, <1>4, <1>5, <1>7, <2>1, HolderMoves DEF t
<1>8. CASE /\ rec[t].status = "awaiting_tool" /\ Owned(Stores, t, TRUE)
           /\ Become(x) /\ Goto(r, "stage1")
           /\ active' = [active EXCEPT ![r] = t]
  <2>1. Touches(Stores, x, t) /\ x.rec[t].status = "stage1_active" /\ x.cp = cp
    BY <1>2, <1>8, ReopenTouches DEF x
  <2>2. ~Shut(Stores, t)
    BY <1>4, <1>8 DEF Shut, Ended
  <2>3. Stands(x, "stage1", t, own[r], held[r], t)
    BY <1>2, <1>4, <2>1, <2>2 DEF Stands
  <2> QED
    BY <1>1, <1>2, <1>4, <1>5, <1>8, <2>1, <2>3, HolderMoves DEF t
<1>9. CASE Raise(r, Stores, TRUE) /\ UNCHANGED active
  BY <1>1, <1>2, <1>9, RaiseKeeps DEF t
<1> QED
  BY <1>3, <1>6, <1>7, <1>8, <1>9

(***************************************************************************)
(* A user turn begins, beside requests that are over.                      *)
(***************************************************************************)
LEMMA LoneBeginFresh ==
  ASSUME MaxConcurrent = 1, Inv, Lone, outages = 0, outages' = 0, NEW r \in Requests,
         BeginFresh(r)
  PROVE  Lone'
<1> DEFINE t == minted + 1
           b == Blank("stage1_active")
           x == Blank("gone")
<1>1. /\ place[r] = "idle" /\ Permit /\ minted < MaxTurns /\ own' = own /\ held' = held
      /\ row' = [row EXCEPT ![t] = b] /\ rec' = Remember(t) /\ minted' = t /\ cp' = cp
      /\ active' = [active EXCEPT ![r] = t] /\ place' = [place EXCEPT ![r] = "stage1"]
  <2>1. PICK up \in BOOLEAN :
          /\ Journal(up)
          /\ up => /\ row' = [row EXCEPT ![t] = b]
                   /\ rec' = Remember(t)
                   /\ minted' = t
                   /\ active' = [active EXCEPT ![r] = t]
                   /\ Goto(r, "stage1")
                   /\ UNCHANGED cp
    BY DEF BeginFresh
  <2>2. up = TRUE
    BY <2>1, JournalWorks
  <2> QED
    BY <2>1, <2>2 DEF BeginFresh, Goto
<1>2. t \in Turns /\ t \notin 1..minted /\ t \in 1..minted' /\ 1..minted \subseteq 1..minted'
      /\ 1..minted \subseteq Turns
  <2>1. minted \in 0..MaxTurns /\ MaxTurns \in Nat
    BY AgenticConstants DEF Inv, TypeOK
  <2> QED
    BY <1>1, <2>1 DEF Turns
<1>3. /\ row \in [Turns -> Row] /\ rec \in [Turns -> Rec] /\ cp \in [Checkpoints -> Checkpoint]
      /\ place \in [Requests -> Places] /\ active \in [Requests -> Turns \cup {NoTurn}]
  BY DEF Inv, TypeOK, Row, Rec
<1>4. /\ b.status = "stage1_active" /\ b.first = 1 /\ b.answer = NoAnswer /\ b.second = FALSE
      /\ x.status = "gone"
  BY DEF Blank
<1>5. rec'[t] = b /\ \A u \in Turns : u # t => rec'[u] \in {rec[u], x}
  <2> DEFINE known == {u \in Turns : rec[u].status # "gone"}
             oldest == CHOOSE u \in known : \A s \in known : u <= s
             drop(u) == Cardinality(known) >= Limit /\ u = oldest
  <2>1. rec' = [u \in Turns |-> IF u = t THEN b ELSE IF drop(u) THEN x ELSE rec[u]]
    BY <1>1 DEF Remember
  <2> HIDE DEF drop, t, b, x
  <2> QED
    BY <1>2, <2>1
<1> HIDE DEF t, b, x
<1>6. row'[t] = b /\ \A u \in Turns : u # t => row'[u] = row[u]
  BY <1>1, <1>2, <1>3
<1>7. /\ place'[r] = "stage1" /\ active'[r] = t
      /\ \A q \in Requests \ {r} : place'[q] = place[q] /\ active'[q] = active[q]
  BY <1>1, <1>3
<1>8. \A q \in Requests : place[q] \notin Holding
  BY <1>1, NoHolder
<1>9. own[r] = NoCheckpoint /\ held[r] = NoAnswer
  BY <1>1, IdleHas
<1>10. /\ Stores.row = row /\ Stores.rec = rec /\ Stores.cp = cp
       /\ Stores'.row = row' /\ Stores'.rec = rec' /\ Stores'.cp = cp
  BY <1>1 DEF Stores
<1>11. TurnOf(r)' = t
  BY <1>1, <1>7, <1>9 DEF TurnOf
<1>12. \A q \in Requests \ {r} : TurnOf(q)' = TurnOf(q)
  BY <1>1, <1>7, TurnStays
<1>13. ASSUME NEW u \in Turns
       PROVE  Fits(Stores', u)
  <2>1. CASE u = t
    <3>1. Agree("stage1_active", "stage1_active")
      BY DEF Agree, Open
    <3> QED
      BY <1>4, <1>5, <1>6, <1>10, <2>1, <3>1 DEF Fits
  <2>2. CASE u # t /\ rec'[u] = rec[u]
    BY <1>6, <1>10, <2>2 DEF Lone, Fits
  <2>3. CASE u # t /\ rec'[u] = x
    BY <1>4, <1>10, <2>3 DEF Fits
  <2> QED
    BY <1>5, <2>1, <2>2, <2>3
<1>14. StoreFits(Stores)'
  <2>1. \A c \in Checkpoints :
          /\ cp[c].inFlight => cp[c].state = "live"
          /\ cp[c].state # "unused" => cp[c].turn \in 1..minted'
    BY <1>2, <1>10 DEF Lone, StoreFits
  <2> QED
    BY <1>10, <2>1 DEF StoreFits
<1>15. Alone'
  BY <1>7, <1>8 DEF Alone
<1>16. Placed'
  <2>1. ASSUME NEW q \in Requests, place'[q] \in Working
        PROVE  TurnOf(q)' \in 1..minted'
    <3>1. CASE q = r
      BY <1>2, <1>11, <3>1
    <3>2. CASE q # r
      BY <1>2, <1>7, <1>12, <2>1, <3>2 DEF Lone, Placed
    <3> QED
      BY <3>1, <3>2
  <2> QED
    BY <2>1 DEF Placed
<1>17. ASSUME NEW q \in Requests
       PROVE  Stands(Stores', place'[q], active'[q], own'[q], held'[q], TurnOf(q)')
  <2>1. CASE q = r
    <3>1. Stores'.rec[t].status = "stage1_active"
      BY <1>4, <1>5, <1>10
    <3>2. Stands(Stores', "stage1", t, NoCheckpoint, NoAnswer, t)
      BY <3>1 DEF Stands
    <3> QED
      BY <1>1, <1>7, <1>9, <1>11, <2>1, <3>2
  <2>2. CASE q # r
    <3> DEFINE u == TurnOf(q)
    <3>1. Stands(Stores, place[q], active[q], own[q], held[q], u) /\ place[q] \notin Holding
      BY <1>8, LoneRequest
    <3>2. place[q] = "budget" => u \in Turns /\ u # t
      BY <1>2 DEF Lone, Placed, Working
    <3> HIDE DEF u
    <3>3. place[q] = "budget" =>
            /\ Stores.rec[u].status = "gone" => Stores'.rec[u].status = "gone"
            /\ Shut(Stores, u) => Shut(Stores', u)
      BY <1>4, <1>5, <1>10, <3>2 DEF Shut
    <3>4. Stands(Stores', place[q], active[q], own[q], held[q], u)
      BY <3>1, <3>3 DEF Stands, Holding
    <3> QED
      BY <1>1, <1>7, <1>12, <2>2, <3>4 DEF u
  <2> QED
    BY <2>1, <2>2
<1>18. ASSUME NEW u \in Turns
       PROVE  Settled(Stores', u) \/ \E q \in Requests : place'[q] \in Working /\ TurnOf(q)' = u
  <2>1. "stage1" \in Working /\ place[r] \notin Working
    BY <1>1 DEF Working, Holding
  <2>2. CASE u = t
    BY <1>7, <1>11, <2>1, <2>2
  <2>3. CASE u # t /\ Settled(Stores, u)
    <3>1. Closed(Stores, u) => Closed(Stores', u)
      BY <1>4, <1>5, <1>6, <1>10, <2>3 DEF Closed
    <3>2. Waiting(Stores, u) => Waiting(Stores', u)
      BY <1>10 DEF Waiting
    <3> QED
      BY <2>3, <3>1, <3>2 DEF Settled
  <2>4. CASE u # t /\ ~Settled(Stores, u)
    <3>1. PICK q \in Requests : place[q] \in Working /\ TurnOf(q) = u
      BY <2>4 DEF Lone, Heirs
    <3>2. q # r
      BY <2>1, <3>1
    <3> QED
      BY <1>7, <1>12, <3>1, <3>2
  <2> QED
    BY <2>2, <2>3, <2>4
<1>19. Standing' /\ Heirs'
  BY <1>17, <1>18 DEF Standing, Heirs
<1>20. \A u \in Turns : Fits(Stores, u)'
  BY <1>13
<1> QED
  BY <1>14, <1>15, <1>16, <1>19, <1>20 DEF Lone

(***************************************************************************)
(* The kernel is killed: no record is left, and nobody at work.            *)
(***************************************************************************)
LEMMA LoneCrash ==
  ASSUME Inv, Lone, Crash
  PROVE  Lone'
<1>1. /\ cp \in [Checkpoints -> Checkpoint] /\ place \in [Requests -> Places]
      /\ minted' = minted /\ held' = held
  BY DEF Inv, TypeOK, Crash
<1>2. \A t \in Turns : Stores'.rec[t].status = "gone"
  BY DEF Crash, Blank, Stores
<1>3. ASSUME NEW c \in Checkpoints
      PROVE  /\ ~Stores'.cp[c].inFlight /\ Stores'.cp[c].turn = cp[c].turn
             /\ Stores'.cp[c].state = "unused" <=> cp[c].state = "unused"
  <2> DEFINE s == IF cp[c].state = "live" THEN "lost" ELSE cp[c].state
  <2>1. cp[c] \in Checkpoint
    BY <1>1
  <2>2. Stores'.cp[c] = [cp[c] EXCEPT !.state = s, !.inFlight = FALSE]
    BY <2>1 DEF Crash, Checkpoint, Stores
  <2>3. s = "unused" <=> cp[c].state = "unused"
    OBVIOUS
  <2> HIDE DEF s
  <2> QED
    BY <2>1, <2>2, <2>3 DEF Checkpoint
<1>4. ASSUME NEW q \in Requests
      PROVE  /\ place'[q] \in {"idle", "answered", "spent", "error", "left"}
             /\ place'[q] \in {place[q], "left"}
  BY <1>1 DEF Crash, Places
<1>5. \A t \in Turns : Fits(Stores', t) /\ Closed(Stores', t)
  BY <1>2 DEF Fits, Closed
<1>6. StoreFits(Stores)'
  <2>1. \A c \in Checkpoints : cp[c].state # "unused" => cp[c].turn \in 1..minted
    BY DEF Lone, StoreFits, Stores
  <2> QED
    BY <1>1, <1>3, <2>1 DEF StoreFits
<1>7. \A q \in Requests : place'[q] \notin Working /\ place'[q] \notin Holding
  BY <1>4 DEF Working, Holding
<1>8. Alone' /\ Placed'
  BY <1>7 DEF Alone, Placed
<1>9. Heirs'
  BY <1>5 DEF Heirs, Settled
<1>10. Standing'
  <2>1. ASSUME NEW q \in Requests
        PROVE  Stands(Stores', place'[q], active'[q], own'[q], held[q], TurnOf(q)')
    <3>1. Stands(Stores, place[q], active[q], own[q], held[q], TurnOf(q))
      BY LoneRequest
    <3>2. place'[q] = "idle" => held[q] = NoAnswer
      BY <1>4, <3>1 DEF Stands
    <3>3. held[q] # NoAnswer => place'[q] # "error"
      BY <1>4, <3>1 DEF Stands
    <3> QED
      BY <1>4, <3>2, <3>3 DEF Stands
  <2> QED
    BY <1>1, <2>1 DEF Standing
<1>11. \A t \in Turns : Fits(Stores, t)'
  BY <1>5
<1> QED
  BY <1>6, <1>8, <1>9, <1>10, <1>11 DEF Lone

(***************************************************************************)
(* The end of run() and of stream() keeps what was settled.                *)
(***************************************************************************)
LEMMA LeftCleans ==
  ASSUME NEW t \in Turns, NEW v, Sound(v, t), NEW r, At(v, r, t)
  PROVE  /\ Cleans(v, Left(v, r, TRUE), t)
         /\ Closed(v, t) \/ (held[r] = NoAnswer /\ Waiting(v, t)) =>
              Settled(Left(v, r, TRUE), t)
<1> DEFINE w == Close(v, r, TRUE)
           x == Rearm(w, own[r])
<1>1. /\ Cleans(v, w, t)
      /\ Closed(v, t) \/ (held[r] = NoAnswer /\ Waiting(v, t)) => Settled(w, t)
  BY CloseCleans
<1>2. Left(v, r, TRUE) = IF transport[r] = "stream" THEN x ELSE w
  BY DEF Left
<1> HIDE DEF w
<1>3. Sound(w, t) /\ At(w, r, t)
  BY <1>1, AtOn DEF Cleans
<1>4. Cleans(w, x, t) /\ (Settled(w, t) => Settled(x, t))
  BY <1>3, RearmSettles
<1> HIDE DEF x
<1>5. Cleans(v, x, t)
  BY <1>1, <1>4, CleansTwice
<1> QED
  BY <1>1, <1>2, <1>4, <1>5

(***************************************************************************)
(* However a request leaves while it works, its turn is settled.           *)
(***************************************************************************)
LEMMA LeftSettles ==
  ASSUME Inv, Lone, NEW r \in Requests, place[r] \in Working,
         place[r] = "claimed" => transport[r] = "stream"
  PROVE  LET w == Left(Stores, r, TRUE)
         IN  Cleans(Stores, w, TurnOf(r)) /\ Settled(w, TurnOf(r))
<1> DEFINE t == TurnOf(r)
           w == Left(Stores, r, TRUE)
<1>1. /\ t \in Turns /\ Sound(Stores, t) /\ At(Stores, r, t)
      /\ Stands(Stores, place[r], active[r], own[r], held[r], t)
  BY LoneRequest
<1>2. /\ Cleans(Stores, w, t)
      /\ Closed(Stores, t) \/ (held[r] = NoAnswer /\ Waiting(Stores, t)) => Settled(w, t)
  BY <1>1, LeftCleans
<1>3. CASE place[r] = "claimed"
  <2>1. /\ active[r] = NoTurn /\ held[r] = NoAnswer /\ own[r] # NoCheckpoint
        /\ Shut(Stores, t) \/ Stores.cp[own[r]].state \in {"live", "expired"}
    BY <1>3, HasClaimed
  <2>2. Settled(Rearm(Close(Stores, r, TRUE), own[r]), t)
    BY <1>1, <2>1, ClaimedSettles
  <2> QED
    BY <1>2, <1>3, <2>2 DEF Left
<1>4. CASE place[r] \in {"stage1", "frozen", "stage2"}
  <2>1. \/ Stores.rec[t].status = "gone"
        \/ /\ active[r] = t
           /\ \/ held[r] = NoAnswer /\ Stores.rec[t].status = "stage1_active"
              \/ held[r] # NoAnswer /\ Stores.rec[t].status \in Distilling
           /\ own[r] # NoCheckpoint => Stores.cp[own[r]].state \in {"live", "expired"}
    BY <1>4, InStage1, InStage2 DEF Stores
  <2> QED
    BY <1>1, <2>1, BusyEnds
<1>5. CASE place[r] \in {"sending", "committed"}
  BY <1>1, <1>2, <1>5 DEF Stands
<1>6. CASE place[r] = "budget"
  <2>1. Closed(Stores, t)
    BY <1>1, <1>6, ShutIsClosed DEF Stands, Sound
  <2> QED
    BY <1>2, <2>1
<1> QED
  BY <1>3, <1>4, <1>5, <1>6 DEF Working, Holding

(***************************************************************************)
(* A request ends, or its client goes away.                                *)
(***************************************************************************)
LEMMA ExitKeeps ==
  ASSUME Inv, Lone, NEW r \in Requests, place[r] \in Holding \cup Ending,
         place[r] = "claimed" => transport[r] = "stream", Become(Exit(r, TRUE)),
         NEW p \in {"answered", "spent", "error", "left"}, Goto(r, p),
         p = "error" <=> place[r] = "failing" /\ p # "left",
         place[r] = "responding" => p # "spent", UNCHANGED <<minted, active, own, held>>
  PROVE  Lone'
<1>1. place \in [Requests -> Places] /\ cp \in [Checkpoints -> Checkpoint]
      /\ own[r] \in Checkpoints \cup {NoCheckpoint}
  BY DEF Inv, TypeOK
<1>2. place'[r] = p /\ \A q \in Requests \ {r} : place'[q] = place[q]
  BY <1>1 DEF Goto
<1>3. \A c \in Checkpoints : cp[c].inFlight => cp[c].state = "live"
  BY DEF Lone, StoreFits, Stores
<1>4. \A c \in Checkpoints : Lasts(cp[c], cp[c])
  BY <1>3 DEF Lasts
<1>5. Stores.row = row /\ Stores.rec = rec /\ Stores.cp = cp
  BY DEF Stores
<1>6. CASE place[r] = "failing"
  <2> DEFINE w == Rearm(Stores, own[r])
  <2>1. Become(w)
    BY <1>6 DEF Exit
  <2>2. w.row = row /\ w.rec = rec /\ \A c \in Checkpoints : Lasts(cp[c], w.cp[c])
    <3>1. CASE own[r] # NoCheckpoint /\ cp[own[r]].state = "live"
      <4> DEFINE c == own[r]
                 e == [cp[c] EXCEPT !.inFlight = FALSE]
      <4>1. c \in Checkpoints /\ cp[c] \in Checkpoint
        BY <1>1, <3>1
      <4>2. e.turn = cp[c].turn /\ e.state = cp[c].state /\ ~e.inFlight
        BY <4>1 DEF Checkpoint
      <4>3. w = [row |-> row, rec |-> rec, cp |-> [cp EXCEPT ![c] = e]]
        BY <3>1 DEF Rearm, Stores
      <4> HIDE DEF e, w, c
      <4>4. w.row = row /\ w.rec = rec /\ w.cp = [cp EXCEPT ![c] = e]
        BY <4>3
      <4>5. Lasts(cp[c], e)
        BY <4>2 DEF Lasts
      <4> QED
        BY <1>1, <1>4, <4>1, <4>4, <4>5
    <3>2. CASE ~(own[r] # NoCheckpoint /\ cp[own[r]].state = "live")
      <4>1. w = Stores
        BY <1>5, <3>2 DEF Rearm
      <4> QED
        BY <1>4, <1>5, <4>1
    <3> QED
      BY <3>1, <3>2
  <2> HIDE DEF w
  <2>3. row' = row /\ rec' = rec /\ \A c \in Checkpoints : Lasts(cp[c], cp'[c])
    BY <2>1, <2>2 DEF Become
  <2>4. "failing" \notin Working /\ p \in {"error", "left"}
    BY <1>6 DEF Working, Holding
  <2>5. \A q \in Requests :
          \/ place'[q] = place[q]
          \/ place[q] \notin Working /\ place'[q] \in {"answered", "left"}
          \/ place[q] = "failing" /\ place'[q] = "error"
    BY <1>2, <1>6, <2>4
  <2> QED
    BY <2>3, <2>5, CheckpointMoves
<1>7. CASE place[r] = "responding"
  <2>1. Become(Stores)
    BY <1>7 DEF Exit
  <2>2. row' = row /\ rec' = rec /\ \A c \in Checkpoints : Lasts(cp[c], cp'[c])
    BY <1>4, <1>5, <2>1 DEF Become
  <2>3. "responding" \notin Working /\ p \in {"answered", "left"}
    BY <1>7 DEF Working, Holding
  <2>4. \A q \in Requests :
          \/ place'[q] = place[q]
          \/ place[q] \notin Working /\ place'[q] \in {"answered", "left"}
          \/ place[q] = "failing" /\ place'[q] = "error"
    BY <1>2, <1>7, <2>3
  <2> QED
    BY <2>2, <2>4, CheckpointMoves
<1>8. CASE place[r] \notin {"failing", "responding"}
  <2> DEFINE t == TurnOf(r)
             w == Left(Stores, r, TRUE)
             places == {p}
  <2>1. place[r] \in Working
    BY <1>8 DEF Working, Ending
  <2>2. Become(w)
    BY <1>8 DEF Exit
  <2>3. Cleans(Stores, w, t) /\ Settled(w, t)
    BY <2>1, LeftSettles
  <2>4. Cleans(Stores, Stores, t)
    BY <2>1, LoneRequest, CleansSelf
  <2> HIDE DEF w, t
  <2>5. \E s \in places : Goto(r, s)
    OBVIOUS
  <2>6. places \subseteq {"answered", "responding", "left", "spent"}
    BY <1>8
  <2> HIDE DEF places
  <2>7. Ends(r, t, Stores, places)
    BY <2>2, <2>3, <2>5 DEF Ends
  <2> QED
    BY <2>1, <2>4, <2>6, <2>7, EndsKeeps DEF t
<1> QED
  BY <1>6, <1>7, <1>8

(***************************************************************************)
(* The last event has gone out, or the response.                           *)
(***************************************************************************)
LEMMA LoneLeave ==
  ASSUME Inv, Lone, outages = 0, outages' = 0, NEW r \in Requests, Leave(r)
  PROVE  Lone'
<1> DEFINE p == CASE place[r] = "budget" -> "spent" [] place[r] = "failing" -> "error"
                  [] OTHER -> "answered"
<1>1. /\ place[r] \in {"sending", "committed"} \cup Ending /\ Become(Exit(r, TRUE))
      /\ Goto(r, p) /\ UNCHANGED <<minted, active, own, held>>
  BY JournalWorks DEF Leave
<1>2. /\ place[r] = "budget" => p = "spent"
      /\ place[r] = "failing" => p = "error"
      /\ place[r] \notin {"budget", "failing"} => p = "answered"
  OBVIOUS
<1>3. place[r] \in Holding \cup Ending /\ place[r] # "claimed"
  BY <1>1 DEF Holding, Ending
<1> HIDE DEF p
<1>4. /\ p \in {"answered", "spent", "error", "left"}
      /\ p = "error" <=> place[r] = "failing" /\ p # "left"
      /\ place[r] = "responding" => p # "spent"
  BY <1>2
<1> QED
  BY <1>1, <1>3, <1>4, ExitKeeps

(***************************************************************************)
(* The client of a stream goes away.                                       *)
(***************************************************************************)
LEMMA LoneDisconnect ==
  ASSUME Inv, Lone, outages = 0, outages' = 0, NEW r \in Requests, Disconnect(r)
  PROVE  Lone'
<1> DEFINE p == "left"
<1>1. /\ place[r] \in Holding \cup Ending /\ transport[r] = "stream" /\ Become(Exit(r, TRUE))
      /\ Goto(r, p) /\ UNCHANGED <<minted, active, own, held>>
  BY JournalWorks DEF Disconnect, Rest
<1>2. /\ p \in {"answered", "spent", "error", "left"} /\ p # "spent"
      /\ p = "error" <=> place[r] = "failing" /\ p # "left"
  OBVIOUS
<1> HIDE DEF p
<1> QED
  BY <1>1, <1>2, ExitKeeps

(***************************************************************************)
(* Nothing has begun.                                                      *)
(***************************************************************************)
LEMMA LoneInit ==
  ASSUME Init
  PROVE  Lone
<1>1. \A t \in Turns : Stores.rec[t].status = "gone"
  BY DEF Init, Blank, Stores
<1>2. \A c \in Checkpoints : Stores.cp[c].state = "unused" /\ ~Stores.cp[c].inFlight
  BY DEF Init, Stores
<1>3. \A r \in Requests : place[r] = "idle" /\ held[r] = NoAnswer
  BY DEF Init
<1>4. (\A t \in Turns : Fits(Stores, t)) /\ Heirs
  BY <1>1 DEF Fits, Heirs, Settled, Closed
<1>5. StoreFits(Stores)
  BY <1>2 DEF StoreFits
<1>6. Alone /\ Placed
  BY <1>3 DEF Alone, Placed, Working, Holding
<1>7. Standing
  BY <1>3 DEF Standing, Stands
<1> QED
  BY <1>4, <1>5, <1>6, <1>7 DEF Lone

(***************************************************************************)
(* Every step keeps it, as long as the journal works.                      *)
(***************************************************************************)
LEMMA LoneStep ==
  ASSUME MaxConcurrent = 1, Inv, outages = 0 => Lone, [Next]_vars
  PROVE  (outages = 0 => Lone)'
<1> SUFFICES ASSUME outages' = 0
             PROVE  Lone'
  OBVIOUS
<1>1. CASE UNCHANGED vars
  <2>1. UNCHANGED <<row, rec, cp, minted, place, transport, active, own, held, released,
                    outages, crashes>>
    BY <1>1 DEF vars, stores, requestVars
  <2>2. /\ Stores' = Stores /\ minted' = minted /\ place' = place
        /\ \A r \in Requests : TurnOf(r)' = TurnOf(r)
    BY <2>1 DEF Stores, TurnOf
  <2>3. Lone
    BY <2>1
  <2>4. (\A t \in Turns : Fits(Stores, t)') /\ StoreFits(Stores)'
    BY <2>2, <2>3 DEF Lone, StoreFits
  <2>5. Alone' /\ Placed'
    BY <2>2, <2>3 DEF Lone, Alone, Placed
  <2>6. Standing' /\ Heirs'
    BY <2>1, <2>2, <2>3 DEF Lone, Standing, Heirs
  <2> QED
    BY <2>4, <2>5, <2>6 DEF Lone
<1>2. ASSUME NEW r \in Requests,
             \/ BeginFresh(r) \/ Claim(r) \/ ClaimFrozen(r) \/ BeginResumed(r)
             \/ AskTools(r) \/ Stage1Fails(r) \/ NoAnswerGiven(r) \/ Stage1Budget(r)
             \/ LoopRetry(r) \/ Freeze(r)
             \/ StartStage2(r) \/ Stage2Fails(r) \/ Stage2Budget(r) \/ Commit(r)
             \/ Leave(r) \/ Disconnect(r)
      PROVE  Lone'
  <2>1. outages = 0
    <3>1. outages \in Nat
      BY AgenticConstants DEF Inv, TypeOK
    <3>2. outages' = outages \/ \E up \in BOOLEAN : Journal(up)
      <4>1. CASE Claim(r) \/ ClaimFrozen(r)
        BY <4>1 DEF Claim, ClaimFrozen
      <4>2. CASE BeginFresh(r) \/ BeginResumed(r) \/ Leave(r) \/ Disconnect(r)
        BY <4>2 DEF BeginFresh, BeginResumed, Leave, Disconnect
      <4>3. CASE AskTools(r) \/ Stage1Fails(r) \/ NoAnswerGiven(r) \/ Stage1Budget(r)
                 \/ LoopRetry(r) \/ Freeze(r)
        BY <4>3 DEF AskTools, Stage1Fails, NoAnswerGiven, Stage1Budget, LoopRetry, Freeze, Step
      <4>4. CASE StartStage2(r) \/ Stage2Fails(r) \/ Stage2Budget(r) \/ Commit(r)
        BY <4>4 DEF StartStage2, Stage2Fails, Stage2Budget, Commit, Step
      <4> QED
        BY <1>2, <4>1, <4>2, <4>3, <4>4
    <3>3. outages' = outages \/ outages' = outages + 1
      BY <3>2 DEF Journal
    <3> QED
      BY <3>1, <3>3
  <2> QED
    BY <1>2, <2>1, LoneBeginFresh, LoneClaim, LoneClaimFrozen, LoneBeginResumed, LoneAskTools,
       LoneStage1Fails, LoneNoAnswerGiven, LoneStage1Budget, LoneLoopRetry, LoneFreeze,
       LoneStartStage2, LoneStage2Fails, LoneStage2Budget, LoneCommit, LoneLeave,
       LoneDisconnect
<1>3. CASE \E r \in Requests :
             \/ BeginFresh(r) \/ Claim(r) \/ ClaimFrozen(r) \/ BeginResumed(r)
             \/ AskTools(r) \/ Stage1Fails(r) \/ NoAnswerGiven(r) \/ Stage1Budget(r)
             \/ LoopRetry(r) \/ Freeze(r)
             \/ StartStage2(r) \/ Stage2Fails(r) \/ Stage2Budget(r) \/ Commit(r)
             \/ Leave(r) \/ Disconnect(r)
  BY <1>2, <1>3
<1>4. CASE \E c \in Checkpoints : Unclaim(c) \/ Expire(c)
  <2>1. outages' = outages
    BY <1>4 DEF Unclaim, Expire
  <2> QED
    BY <1>4, <2>1, LoneCheckpoints
<1>5. CASE Crash
  <2>1. outages' = outages
    BY <1>5 DEF Crash
  <2> QED
    BY <1>5, <2>1, LoneCrash
<1> QED
  BY <1>1, <1>3, <1>4, <1>5 DEF Next

(***************************************************************************)
(* One permit: whatever ends a request, in either stage and on either      *)
(* transport, no turn whose record the process has is forgotten while its  *)
(* row is open.                                                            *)
(***************************************************************************)
THEOREM NoTurnForgotten ==
  ASSUME MaxConcurrent = 1
  PROVE  Spec => []OpenRowHasHeir
<1>1. Init => (outages = 0 => Lone)
  BY LoneInit
<1>2. Inv /\ (outages = 0 => Lone) /\ [Next]_vars => (outages = 0 => Lone)'
  BY LoneStep
<1>3. Inv /\ (outages = 0 => Lone) => OpenRowHasHeir
  <2> SUFFICES ASSUME Inv, Lone, NEW t \in Turns, rec[t].status # "gone",
                      row[t].status \notin {"none"} \cup Ended
               PROVE  \/ \E r \in Requests : place[r] \in Holding \cup {"budget"} /\ TurnOf(r) = t
                      \/ \E c \in Checkpoints :
                           /\ cp[c].turn = t
                           /\ cp[c].state = "expired" \/ (cp[c].state = "live" /\ ~cp[c].inFlight)
    BY DEF OpenRowHasHeir
  <2>1. ~Closed(Stores, t)
    BY DEF Closed, Stores
  <2>2. Settled(Stores, t) \/ \E r \in Requests : place[r] \in Working /\ TurnOf(r) = t
    BY DEF Lone, Heirs
  <2>3. Settled(Stores, t) =>
          \E c \in Checkpoints :
            /\ cp[c].turn = t
            /\ cp[c].state = "expired" \/ (cp[c].state = "live" /\ ~cp[c].inFlight)
    BY <2>1 DEF Settled, Waiting, Waits, Stores
  <2> QED
    BY <2>2, <2>3 DEF Working
<1> QED
  BY <1>1, <1>2, <1>3, TurnInvariant, PTL DEF Spec

(***************************************************************************)
(* One permit: a request that has frozen an answer, or resumes from one,   *)
(* does not end in an error, whatever becomes of the memory.               *)
(***************************************************************************)
THEOREM AnswersSurvive ==
  ASSUME MaxConcurrent = 1
  PROVE  Spec => []AnswerSurvives
<1>1. Init => (outages = 0 => Lone)
  BY LoneInit
<1>2. Inv /\ (outages = 0 => Lone) /\ [Next]_vars => (outages = 0 => Lone)'
  BY LoneStep
<1>3. (outages = 0 => Lone) => AnswerSurvives
  BY DEF AnswerSurvives, Lone, Standing, Stands
<1> QED
  BY <1>1, <1>2, <1>3, TurnInvariant, PTL DEF Spec

=============================================================================
