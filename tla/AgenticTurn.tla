---------------------------- MODULE AgenticTurn ----------------------------
(***************************************************************************)
(* An agentic turn: Stage 1 answers, its answer A1 is frozen, Stage 2      *)
(* distils a memory, and the pair is committed.  The life of the turn is   *)
(* written down three times: in a row of the SQLite journal                *)
(* (jack_agentic_forensics.py), in an AgenticTurnLifecycle record, and in  *)
(* the checkpoint of a turn that waits for tool results (jack_kernel.py).  *)
(* The row outlives the process, the other two do not.                     *)
(*                                                                         *)
(* Steps end where the handler awaits the backend or its client.  The      *)
(* journal may be out of order for the whole of a step; then every         *)
(* operation on it in that step raises.  The store of checkpoints is the   *)
(* one of ToolResume, reduced to one id and one set of results each.       *)
(***************************************************************************)
EXTENDS Naturals, FiniteSets

CONSTANTS Requests,       \* requests to /v1/chat/completions
          Checkpoints,    \* PendingToolResume objects
          Answers,        \* what Stage 1 may answer
          NoAnswer, NoCheckpoint,
          Transports,     \* which of "stream" and "nonstream" clients use
          MaxConcurrent,  \* JACK_MAX_CONCURRENT
          MaxTurns,       \* bound: turns begun
          MaxAttempt,     \* bound: Stage-1 attempts of a turn
          Limit,          \* _AGENTIC_SHADOW_LIMIT
          HintsReused,    \* whether a client uses a transport hint twice
          MaxOutages,     \* bound: steps in which the journal is out of order
          MaxCrashes      \* bound: restarts of the kernel

ASSUME AgenticConstants ==
  /\ NoAnswer \notin Answers /\ NoCheckpoint \notin Checkpoints
  /\ IsFiniteSet(Requests)
  /\ Transports \subseteq {"stream", "nonstream"}
  /\ MaxConcurrent \in Nat \ {0} /\ MaxTurns \in Nat /\ MaxAttempt \in Nat \ {0}
  /\ Limit \in Nat \ {0} /\ HintsReused \in BOOLEAN
  /\ MaxOutages \in Nat /\ MaxCrashes \in Nat

Turns == 1..MaxTurns
NoTurn == 0

VARIABLES
  row,         \* the turns table
  rec,         \* _AGENTIC_TURN_LIFECYCLES
  cp,          \* _pending_tool_resumes
  minted,      \* turn ids handed out
  \* the requests
  place,       \* where the handler is
  transport,
  active,      \* _AGENTIC_ACTIVE_TURN
  own,         \* the scope's pending_state
  held,        \* the answer this request has frozen, or resumes from
  released,    \* answers sent beside a labelled memory
  outages, crashes

stores == <<row, rec, cp>>
requestVars == <<place, transport, active, own, held>>
vars == <<stores, minted, requestVars, released, outages, crashes>>

Open == {"stage1_active", "awaiting_tool"}
Ended == {"complete", "stage1_failed", "memory_failed"}
Distilling == {"response_frozen", "stage2_active"}

\* first, second: the attempt ids; second is minted once per record.
Life(statuses) == [status : statuses, answer : Answers \cup {NoAnswer},
                   first : 1..MaxAttempt, second : BOOLEAN]
Blank(s) == [status |-> s, answer |-> NoAnswer, first |-> 1, second |-> FALSE]

Checkpoint ==
  [turn : Turns \cup {NoTurn}, state : {"unused", "live", "retired", "expired", "lost"},
   inFlight : BOOLEAN, accepted : BOOLEAN, answer : Answers \cup {NoAnswer}]

Holding == {"claimed", "stage1", "frozen", "stage2", "sending", "committed"}
Ending == {"budget", "failing", "responding"}
Places == {"idle"} \cup Holding
          \cup Ending                                 \* the last events, the response
          \cup {"answered", "spent", "error", "left"} \* over

TypeOK ==
  /\ row \in [Turns -> Life({"none", "stage1_frozen", "stage2_active"} \cup Open \cup Ended)]
  /\ rec \in [Turns -> Life({"gone"} \cup Open \cup Distilling \cup Ended)]
  /\ cp \in [Checkpoints -> Checkpoint]
  /\ minted \in 0..MaxTurns
  /\ place \in [Requests -> Places]
  /\ transport \in [Requests -> Transports]
  /\ active \in [Requests -> Turns \cup {NoTurn}]
  /\ own \in [Requests -> Checkpoints \cup {NoCheckpoint}]
  /\ held \in [Requests -> Answers \cup {NoAnswer}]
  /\ released \in [Turns -> SUBSET Answers]
  /\ outages \in 0..MaxOutages /\ crashes \in 0..MaxCrashes

Init ==
  /\ row = [t \in Turns |-> Blank("none")]
  /\ rec = [t \in Turns |-> Blank("gone")]
  /\ cp = [c \in Checkpoints |-> [turn |-> NoTurn, state |-> "unused", inFlight |-> FALSE,
                                  accepted |-> FALSE, answer |-> NoAnswer]]
  /\ minted = 0
  /\ place = [r \in Requests |-> "idle"]
  /\ transport \in [Requests -> Transports]
  /\ active = [r \in Requests |-> NoTurn]
  /\ own = [r \in Requests |-> NoCheckpoint]
  /\ held = [r \in Requests |-> NoAnswer]
  /\ released = [t \in Turns |-> {}]
  /\ outages = 0 /\ crashes = 0

-----------------------------------------------------------------------------
(* Operations on the three stores w = [row, rec, cp]; up says whether the   *)
(* journal works.  An operation that raises leaves w as it is.              *)

Stores == [row |-> row, rec |-> rec, cp |-> cp]
Become(w) == row' = w.row /\ rec' = w.rec /\ cp' = w.cp

Known(w, t) == t # NoTurn /\ w.rec[t].status # "gone"
Noted(w, t, s) == [w EXCEPT !.rec[t].status = s]

Rearm(w, c) ==
  IF c # NoCheckpoint /\ w.cp[c].state = "live"
  THEN [w EXCEPT !.cp[c].inFlight = FALSE] ELSE w

Retire(w, c) ==
  IF c = NoCheckpoint THEN w
  ELSE [w EXCEPT !.cp[c].inFlight = FALSE,
                 !.cp[c].state = IF @ = "live" THEN "retired" ELSE @]

\* Mutant: a memory is failed with the attempt of Stage 1.
MayFailAsStage1(w, t) ==
  \/ w.row[t].status \in Ended
  \/ w.row[t].first = w.rec[t].first /\ ~w.row[t].second

\* Whether the journal's fail() lets the record's attempt fail the row.
MayFail(w, t) ==
  \/ w.row[t].status \in Ended
  \/ w.row[t].status \in Open /\ w.row[t].first = w.rec[t].first /\ ~w.rec[t].second
  \/ /\ w.row[t].status \in {"stage1_frozen", "stage2_active"}
     /\ w.row[t].first = w.rec[t].first /\ w.row[t].second = w.rec[t].second

FailRow(w, t) ==
  [w EXCEPT !.row[t].status =
     IF @ \in Open THEN "stage1_failed"
     ELSE IF @ \in Ended THEN @ ELSE "memory_failed"]

\* fail() and the new status of the record.
Fail(w, t, s, up) ==
  IF up /\ MayFail(w, t) THEN Noted(FailRow(w, t), t, s) ELSE w

\* What the journal's begin(), awaiting_tool() and freeze() ask of the row.
Owned(w, t, up) ==
  up /\ w.row[t].status \in Open /\ w.row[t].first = w.rec[t].first

\* freeze(), stage2() and commit() as far as the row goes.
FreezeRow(w, t, a) == [w EXCEPT !.row[t].status = "stage1_frozen", !.row[t].answer = a]

MayStart(w, t) ==
  /\ w.row[t].first = w.rec[t].first /\ w.row[t].answer = w.rec[t].answer
  /\ \/ w.row[t].status = "stage2_active" /\ w.row[t].second
     \/ w.row[t].status \in {"stage1_frozen", "memory_failed"}
StartRow(w, t) == [w EXCEPT !.row[t].status = "stage2_active", !.row[t].second = TRUE]

MayCommit(w, t, a) ==
  /\ w.row[t].status = "stage2_active" /\ w.row[t].second /\ w.rec[t].second
  /\ w.row[t].answer = a
CommitRow(w, t) == [w EXCEPT !.row[t].status = "complete"]

\* _agentic_turn_status(history, "awaiting_tool")
Await(w, t) == [w EXCEPT !.row[t].status = "awaiting_tool",
                         !.rec[t].status = "awaiting_tool"]

Retained(w, t) ==
  \E c \in Checkpoints :
    w.cp[c].state = "live" /\ w.cp[c].accepted /\ ~w.cp[c].inFlight /\ w.cp[c].turn = t

\* _agentic_mark_stage1_failure
Mark(w, r, up) ==
  LET t == active[r] IN
  IF /\ Known(w, t) /\ w.rec[t].status \in Open
     /\ ~(w.rec[t].status = "awaiting_tool" /\ Retained(w, t))
  THEN Fail(w, t, "stage1_failed", up) ELSE w

\* _agentic_phase3g_close_scope without its finally.
CloseScope(w, r, up) ==
  LET c == own[r]
      t == w.cp[c].turn
  IN IF c = NoCheckpoint THEN w
     ELSE IF held[r] # NoAnswer
     THEN IF w.cp[c].answer # NoAnswer /\ w.rec[t].status \in Distilling
          THEN Rearm(w, c) ELSE Retire(w, c)
     ELSE IF w.rec[t].status \in Ended THEN Retire(w, c)
     ELSE IF ~Known(w, t) THEN Rearm(w, c)
     ELSE IF Owned(w, t, up) THEN Rearm(Await(w, t), c) ELSE w

\* Mutant: only Stage 1 is closed.
CloseStage1(w, r, up) ==
  IF Known(w, active[r]) /\ w.rec[active[r]].status = "stage1_active"
  THEN Fail(w, active[r], "stage1_failed", up) ELSE w

\* _agentic_forensic_close_request
CloseRequest(w, r, up) ==
  LET t == active[r]
      c == own[r]
  IN IF ~Known(w, t) \/ w.rec[t].status \notin {"stage1_active"} \cup Distilling THEN w
     ELSE IF /\ c # NoCheckpoint /\ w.cp[c].answer # NoAnswer /\ ~w.cp[c].inFlight
             /\ w.rec[t].status \in Distilling
     THEN w
     ELSE Fail(w, t, IF w.rec[t].answer = NoAnswer THEN "stage1_failed" ELSE "memory_failed",
               up)

\* The end of run() and of stream(), and the rearm of the public stream.
Close(w, r, up) == CloseRequest(CloseScope(w, r, up), r, up)
Left(w, r, up) ==
  IF transport[r] = "stream" THEN Rearm(Close(w, r, up), own[r]) ELSE Close(w, r, up)

-----------------------------------------------------------------------------
(* How a step of a request ends.                                            *)

Journal(up) ==
  /\ up \/ outages < MaxOutages
  /\ outages' = IF up THEN outages ELSE outages + 1

Goto(r, p) == place' = [place EXCEPT ![r] = p]

\* An exception: run() and stream() clean up, then the transport's handler
\* marks a failure of Stage 1.
Raise(r, w, up) ==
  LET v == Close(IF transport[r] = "nonstream" THEN Rearm(w, own[r]) ELSE w, r, up)
      x == Mark(v, r, up)
  IN IF transport[r] = "stream"
     THEN Become(Rearm(x, own[r])) /\ Goto(r, "failing")
     ELSE Become(x) /\ Goto(r, "error")

\* A result: a stream sends it under the semaphore, nonstream has cleaned up
\* before its response goes out.
Send(r, w, up, p) ==
  IF transport[r] = "stream" THEN Become(w) /\ Goto(r, p)
  ELSE /\ Become(Left(w, r, up))
       /\ Goto(r, IF p = "committed" THEN "responding" ELSE "answered")

\* Stage 2 is given up: _agentic_degraded_result, unless its journal entry
\* raises.
Degrade(r, w, up) ==
  LET t == active[r] IN
  IF ~Known(w, t) THEN Send(r, Retire(w, own[r]), up, "sending")
  ELSE IF ~(up /\ MayFail(w, t)) THEN Raise(r, w, up)
  ELSE \E noted \in {TRUE, ~HintsReused} :
         Send(r, Retire(IF noted THEN Noted(FailRow(w, t), t, "memory_failed")
                        ELSE FailRow(w, t), own[r]), up, "sending")

-----------------------------------------------------------------------------
(* Requests.                                                                *)

Permit == Cardinality({r \in Requests : place[r] \in Holding}) < MaxConcurrent

\* The record made for turn t, and the oldest one dropped beyond the limit.
Remember(t) ==
  LET known == {u \in Turns : rec[u].status # "gone"}
      oldest == CHOOSE u \in known : \A v \in known : u <= v
  IN [u \in Turns |->
        IF u = t THEN Blank("stage1_active")
        ELSE IF Cardinality(known) >= Limit /\ u = oldest THEN Blank("gone")
        ELSE rec[u]]

\* A user turn: _agentic_begin_turn(fresh=True) before Stage 1.
BeginFresh(r) ==
  /\ place[r] = "idle" /\ Permit
  /\ minted < MaxTurns
  /\ \E up \in BOOLEAN :
       /\ Journal(up)
       /\ IF up
          THEN LET t == minted + 1 IN
               /\ row' = [row EXCEPT ![t] = Blank("stage1_active")]
               /\ rec' = Remember(t)
               /\ minted' = t
               /\ active' = [active EXCEPT ![r] = t]
               /\ Goto(r, "stage1")
               /\ UNCHANGED cp
          ELSE Raise(r, Stores, up) /\ UNCHANGED <<minted, active>>
  /\ UNCHANGED <<transport, own, held, released, crashes>>

Claimed(c) == [cp EXCEPT ![c].inFlight = TRUE, ![c].accepted = TRUE]
Claimable(r, c) ==
  place[r] = "idle" /\ Permit /\ cp[c].state = "live" /\ ~cp[c].inFlight
Frozen(r, c) == transport[r] = "stream" /\ cp[c].answer # NoAnswer

\* A tool-result turn claims a checkpoint whose Stage 1 is still to be run.
Claim(r) ==
  /\ \E c \in Checkpoints :
       /\ Claimable(r, c) /\ ~Frozen(r, c)
       /\ cp' = Claimed(c)
       /\ own' = [own EXCEPT ![r] = c]
  /\ Goto(r, "claimed")
  /\ UNCHANGED <<row, rec, minted, transport, active, held, released, outages, crashes>>

\* A stream claims a checkpoint with a frozen answer: Stage 2 only, or 409.
ClaimFrozen(r) ==
  /\ \E c \in Checkpoints :
       LET t == cp[c].turn
           w == [Stores EXCEPT !.cp = Claimed(c)]
       IN /\ Claimable(r, c) /\ Frozen(r, c)
          /\ own' = [own EXCEPT ![r] = c]
          /\ IF rec[t].status \in Distilling
             THEN /\ Become(w)
                  /\ active' = [active EXCEPT ![r] = t]
                  /\ held' = [held EXCEPT ![r] = cp[c].answer]
                  /\ Goto(r, "frozen")
             ELSE /\ Become(IF rec[t].status \in Ended THEN Retire(w, c) ELSE Rearm(w, c))
                  /\ Goto(r, "failing")
                  /\ UNCHANGED <<active, held>>
  /\ UNCHANGED <<minted, transport, released, outages, crashes>>

\* _agentic_begin_turn(fresh=False): a turn whose record is gone goes on
\* without the journal.
BeginResumed(r) ==
  LET t == cp[own[r]].turn
      Run(w) == Become(w) /\ Goto(r, "stage1")
  IN /\ place[r] = "claimed"
     /\ \E up \in BOOLEAN :
          /\ Journal(up)
          /\ IF ~Known(Stores, t) THEN Run(Stores) /\ UNCHANGED active
             ELSE \/ /\ rec[t].status = "stage1_active"
                     /\ Run(Stores)
                     /\ active' = [active EXCEPT ![r] = t]
                  \/ /\ rec[t].status = "awaiting_tool" /\ Owned(Stores, t, up)
                     /\ Run([Stores EXCEPT !.row[t].status = "stage1_active",
                                           !.rec[t].status = "stage1_active"])
                     /\ active' = [active EXCEPT ![r] = t]
                  \/ /\ \/ rec[t].status \in Distilling \cup Ended
                        \/ rec[t].status = "awaiting_tool" /\ ~Owned(Stores, t, up)
                     /\ Raise(r, Stores, up)
                     /\ UNCHANGED active
     /\ UNCHANGED <<minted, transport, own, held, released, crashes>>

\* What a step of a request in Stage 1 or 2 leaves alone.
Rest == UNCHANGED <<minted, transport, active, own, released, crashes>>
Step(r, p, up) == place[r] = p /\ Journal(up)

\* Stage 1 stops at tool calls: the turn is suspended, the successor is
\* registered, or refused because its id is pending already, and the
\* predecessor retired.
AskTools(r) ==
  LET t == IF own[r] = NoCheckpoint THEN active[r] ELSE cp[own[r]].turn
      w == IF Known(Stores, t) THEN Await(Stores, t) ELSE Stores
  IN /\ \E up \in BOOLEAN :
          /\ Step(r, "stage1", up)
          /\ \/ /\ Known(Stores, t) /\ ~Owned(Stores, t, up)
                /\ Raise(r, Stores, up)
             \/ /\ ~Known(Stores, t) \/ Owned(Stores, t, up)
                /\ \/ /\ \E c \in Checkpoints : cp[c].state = "live"
                      /\ Raise(r, w, up)
                   \/ \E c \in Checkpoints :
                        /\ cp[c].state = "unused"
                        /\ Send(r, Retire([w EXCEPT !.cp[c].turn = t, !.cp[c].state = "live"],
                                          own[r]), up, "sending")
     /\ UNCHANGED held
     /\ Rest

\* The backend fails, or a loop is detected for the second time.
Stage1Fails(r) ==
  /\ \E up \in BOOLEAN : Step(r, "stage1", up) /\ Raise(r, Stores, up)
  /\ UNCHANGED held /\ Rest

\* Stage 1 ends without an answer.
NoAnswerGiven(r) ==
  /\ \E up \in BOOLEAN :
       Step(r, "stage1", up) /\ Raise(r, Mark(Stores, r, up), up)
  /\ UNCHANGED held /\ Rest

\* The generation budget is spent in Stage 1: a stream fails the turn before
\* it sends its last events, run() answers with the message.
Stage1Budget(r) ==
  /\ \E up \in BOOLEAN :
       /\ Step(r, "stage1", up)
       /\ IF transport[r] = "nonstream"
          THEN Become(Close(Rearm(Stores, own[r]), r, up)) /\ Goto(r, "spent")
          ELSE IF up THEN Become(Mark(Stores, r, up)) /\ Goto(r, "budget")
          ELSE Raise(r, Stores, up)
  /\ UNCHANGED held /\ Rest

\* A loop is detected in a stream's Stage 1: the attempt is failed and a new
\* one started; the journal may break down between the two.
LoopRetry(r) ==
  LET t == active[r] IN
  /\ transport[r] = "stream"
  /\ Known(Stores, t) /\ rec[t].first < MaxAttempt
  /\ \E up \in BOOLEAN :
       /\ Step(r, "stage1", up)
       /\ IF up /\ MayFail(Stores, t)
          THEN /\ row' = [row EXCEPT ![t].first = @ + 1, ![t].second = FALSE]
               /\ rec' = [rec EXCEPT ![t].first = @ + 1]
               /\ UNCHANGED <<cp, place>>
          ELSE \/ Raise(r, Stores, up)
               \/ MayFail(Stores, t) /\ Raise(r, Fail(Stores, t, "stage1_failed", TRUE), up)
  /\ UNCHANGED held /\ Rest

\* Stage 1 has answered: append_extended_candidate_response; the checkpoint of
\* a resumed stream keeps the answer.
FreezeTurn(w, t, a) ==
  [FreezeRow(w, t, a) EXCEPT !.rec[t].status = "response_frozen", !.rec[t].answer = a]
Keep(w, r, a) ==
  IF own[r] # NoCheckpoint /\ transport[r] = "stream"
  THEN [w EXCEPT !.cp[own[r]].answer = a] ELSE w
Freeze(r) ==
  LET t == active[r] IN
  /\ \E up \in BOOLEAN, a \in Answers :
       /\ Step(r, "stage1", up)
       /\ IF Known(Stores, t) /\ ~Owned(Stores, t, up)
          THEN Raise(r, Stores, up) /\ UNCHANGED held
          ELSE /\ held' = [held EXCEPT ![r] = a]
               /\ Become(Keep(IF Known(Stores, t) THEN FreezeTurn(Stores, t, a) ELSE Stores,
                              r, a))
               /\ Goto(r, "frozen")
  /\ Rest

\* _agentic_forensic_start_stage2: the record has its attempt before the row.
StartStage2(r) ==
  LET t == active[r]
      w == [Stores EXCEPT !.rec[t].second = TRUE]
  IN /\ \E up \in BOOLEAN :
          /\ Step(r, "frozen", up)
          /\ IF ~Known(Stores, t) THEN Goto(r, "stage2") /\ UNCHANGED stores
             ELSE IF up /\ MayStart(w, t)
             THEN /\ Become(Noted(StartRow(w, t), t, "stage2_active"))
                  /\ Goto(r, "stage2")
             ELSE Degrade(r, w, up)
     /\ UNCHANGED held
     /\ Rest

\* Stage 2 fails in any way but the budget: A1 goes out without a memory.
Stage2Fails(r) ==
  /\ \E up \in BOOLEAN : Step(r, "stage2", up) /\ Degrade(r, Stores, up)
  /\ UNCHANGED held /\ Rest

\* The budget is spent in Stage 2.
Stage2Budget(r) ==
  LET t == active[r] IN
  /\ \E up \in BOOLEAN :
       /\ Step(r, "stage2", up)
       /\ IF transport[r] = "nonstream"
          THEN Become(Close(Rearm(Stores, own[r]), r, up)) /\ Goto(r, "spent")
          ELSE IF ~Known(Stores, t) THEN Goto(r, "budget") /\ UNCHANGED stores
          ELSE IF up /\ MayFail(Stores, t)
          THEN Become(Fail(Stores, t, "memory_failed", up)) /\ Goto(r, "budget")
          ELSE Raise(r, Stores, up)
  /\ UNCHANGED held /\ Rest

\* Mutant: a failed journal commit is logged and the memory sent all the same.
CommitAnyway(r) ==
  LET t == active[r] IN
  /\ \E up \in BOOLEAN :
       /\ Step(r, "stage2", up)
       /\ Send(r, Retire(IF Known(Stores, t) /\ up
                         THEN Noted(CommitRow(Stores, t), t, "complete")
                         ELSE Stores, own[r]),
               up, IF Known(Stores, t) THEN "committed" ELSE "sending")
  /\ UNCHANGED held /\ Rest

\* Stage 2 has a memory: the journal's commit, then the record's, which a
\* reused hint keeps as it is.
Commit(r) ==
  LET t == active[r]
      Done == CommitRow(Stores, t)
  IN /\ \E up \in BOOLEAN :
          /\ Step(r, "stage2", up)
          /\ IF ~Known(Stores, t)
             THEN Send(r, Retire(Stores, own[r]), up, "sending")
             ELSE IF up /\ MayCommit(Stores, t, held[r])
             THEN \E noted \in {TRUE, ~HintsReused} :
                    Send(r, Retire(IF noted THEN Noted(Done, t, "complete") ELSE Done,
                                   own[r]), up, "committed")
             ELSE Degrade(r, Stores, up)
     /\ UNCHANGED held
     /\ Rest

\* What is left to clean up when the last event has gone out, or cannot.
Exit(r, up) ==
  CASE place[r] = "failing" -> Rearm(Stores, own[r])
    [] place[r] = "responding" -> Stores
    [] OTHER -> Left(Stores, r, up)

\* The last event of a stream, or the response, has been sent.
Leave(r) ==
  /\ place[r] \in {"sending", "committed"} \cup Ending
  /\ \E up \in BOOLEAN : Journal(up) /\ Become(Exit(r, up))
  /\ Goto(r, CASE place[r] = "budget" -> "spent" [] place[r] = "failing" -> "error"
               [] OTHER -> "answered")
  /\ released' = IF place[r] \in {"committed", "responding"}
                 THEN [released EXCEPT ![active[r]] = @ \cup {held[r]}] ELSE released
  /\ UNCHANGED <<minted, transport, active, own, held, crashes>>

\* The client of a stream goes away.
Disconnect(r) ==
  /\ transport[r] = "stream"
  /\ place[r] \in Holding \cup Ending
  /\ \E up \in BOOLEAN : Journal(up) /\ Become(Exit(r, up))
  /\ Goto(r, "left")
  /\ UNCHANGED held /\ Rest

\* A duplicate stream is refused, or goes away while it is queued: its end
\* rearms the checkpoint its messages name.
Unclaim(c) ==
  /\ "stream" \in Transports
  /\ cp[c].state = "live" /\ cp[c].inFlight
  /\ cp' = [cp EXCEPT ![c].inFlight = FALSE]
  /\ UNCHANGED <<row, rec, minted, requestVars, released, outages, crashes>>

\* Six hours have passed.
Expire(c) ==
  /\ cp[c].state = "live" /\ ~cp[c].inFlight
  /\ cp' = [cp EXCEPT ![c].state = "expired"]
  /\ UNCHANGED <<row, rec, minted, requestVars, released, outages, crashes>>

\* The kernel is killed and started again.
Crash ==
  /\ crashes < MaxCrashes
  /\ crashes' = crashes + 1
  /\ rec' = [t \in Turns |-> Blank("gone")]
  /\ cp' = [c \in Checkpoints |->
              [cp[c] EXCEPT !.state = IF @ = "live" THEN "lost" ELSE @, !.inFlight = FALSE]]
  /\ place' = [r \in Requests |->
                 IF place[r] \in Holding \cup Ending THEN "left" ELSE place[r]]
  /\ UNCHANGED <<row, minted, transport, active, own, held, released, outages>>

Next ==
  \/ \E r \in Requests :
       \/ BeginFresh(r) \/ Claim(r) \/ ClaimFrozen(r) \/ BeginResumed(r)
       \/ AskTools(r) \/ Stage1Fails(r) \/ NoAnswerGiven(r) \/ Stage1Budget(r)
       \/ LoopRetry(r) \/ Freeze(r)
       \/ StartStage2(r) \/ Stage2Fails(r) \/ Stage2Budget(r) \/ Commit(r)
       \/ Leave(r) \/ Disconnect(r)
  \/ \E c \in Checkpoints : Unclaim(c) \/ Expire(c)
  \/ Crash

Spec == Init /\ [][Next]_vars

-----------------------------------------------------------------------------
(* Properties *)

\* The turn a request works for.
TurnOf(r) == IF own[r] = NoCheckpoint THEN active[r] ELSE cp[own[r]].turn

\* While the journal works, a row is open only as long as somebody can still
\* end it: a request at work, a checkpoint that may be claimed, or one that
\* expired unclaimed.  No path through two stages, two transports and their
\* cleanups forgets a turn whose record the process still has.
OpenRowHasHeir ==
  outages = 0 =>
    \A t \in Turns :
      rec[t].status # "gone" /\ row[t].status \notin {"none"} \cup Ended =>
        \/ \E r \in Requests : place[r] \in Holding \cup {"budget"} /\ TurnOf(r) = t
        \/ \E c \in Checkpoints :
             /\ cp[c].turn = t
             /\ cp[c].state = "expired" \/ (cp[c].state = "live" /\ ~cp[c].inFlight)

\* As long as the journal works, a frozen A1 is not lost in an error: no request
\* that has frozen it, or resumes from it, ends in one, whatever becomes of its
\* memory (_agentic_degraded_result).  A stream whose memory spends its budget
\* ends in "budget" instead, the answer having been sent or not.
AnswerSurvives ==
  outages = 0 =>
    \A r \in Requests : held[r] # NoAnswer => place[r] \notin {"failing", "error"}

\* What stream() says of a spent generation budget: it is terminal, and no
\* accepted checkpoint is rearmed under it.  The code does not keep this: see
\* README, Divergences.
BudgetIsTerminal ==
  \A r \in Requests :
    place[r] = "spent" /\ own[r] # NoCheckpoint => cp[own[r]].state # "live"

OutcomeOf(status) ==
  CASE status \in Open -> "open"
    [] status \in {"stage1_frozen", "stage2_active"} -> "frozen"
    [] status = "memory_failed" -> "unremembered"
    [] status = "stage1_failed" -> "failed"
    [] OTHER -> status

Outcome ==
  INSTANCE TurnOutcome WITH
    outcome <- [t \in Turns |-> OutcomeOf(row[t].status)],
    answer  <- [t \in Turns |-> row[t].answer],
    told    <- released

\* The turn keeps its promise across outages and restarts: one answer, never
\* replaced, and a memory released only of a complete turn, beside its answer.
ImplementsPromise == Outcome!Spec
=============================================================================
