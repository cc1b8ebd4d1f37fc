---------------------------- MODULE DebuggingRun ----------------------------
(***************************************************************************)
(* The code-debugging lane: an intake dialogue is frozen as Pass 0, fresh  *)
(* passes 1..PassCount each leave a summary, a last stage writes the final *)
(* report.  A run lives in memory (DebuggingRunState) and in one report    *)
(* file.  A summary is pending until the file has it.  A request may pause *)
(* in an intake dialogue, at a question of a pass to the user, or at a     *)
(* tool checkpoint; the reply is matched by the text shown, the tool       *)
(* result by its id, and a request that failed by its exact body.          *)
(*                                                                         *)
(* Steps end where the handler awaits the backend or yields to its client. *)
(* In a stream that is also between two passes; for the other requests the *)
(* model allows steps of others there, which the code does not.            *)
(***************************************************************************)
EXTENDS Integers, Sequences, FiniteSets

CONSTANTS Requests,       \* client connections, used again and again
          Texts,          \* what an intake or a question shows to the user
          Report,         \* a conversation that contains a final report
          Summaries,      \* what a pass or the final stage may answer
          Carriage,       \* those with a carriage return, which reading drops
          None,
          Transports,     \* which of "stream" and "nonstream" clients use
          PauseKinds,     \* which of "intake", "question", "tool" stages use
          PassCount,      \* DEBUGGING_PASS_COUNT
          MaxConcurrent,  \* JACK_MAX_CONCURRENT
          MaxRuns,        \* bound: runs created
          MaxPauses,      \* bound: pauses registered
          MaxNames,       \* bound: of these texts, how many one conversation shows
          MaxUpsets       \* bound: steps in which the disk refuses to write,
                          \* and changes of a report by somebody else

ASSUME DebuggingConstants ==
  /\ None \notin Summaries /\ Carriage \subseteq Summaries
  /\ Report \notin Texts
  /\ Transports \subseteq {"stream", "nonstream"}
  /\ PauseKinds \subseteq {"intake", "question", "tool"}
  /\ PassCount \in Nat \ {0} /\ MaxConcurrent \in Nat \ {0}
  /\ MaxRuns \in Nat /\ MaxPauses \in Nat /\ MaxNames \in Nat /\ MaxUpsets \in Nat

RunIds == 1..MaxRuns
Pauses == 1..MaxPauses
Passes == 1..PassCount
Maybe == Summaries \cup {None}

\* A conversation that ends with a user message, or with the result of a tool.
\* What it says is told apart only where the code looks at it; one that asks
\* for a new run counts as one without a final report.
Body ==
  {b \in [kind : {"user"}, names : SUBSET (Texts \cup {Report}),
          say : {"more", "proceed"}, of : {0}] :
     /\ Cardinality(b.names) <= MaxNames
     /\ b.say = "proceed" => b.names \cap Texts # {}}
  \cup [kind : {"tool"}, names : {{}}, say : {"more"}, of : Pauses]

NoBody == [kind |-> "none", names |-> {}, say |-> "more", of |-> 0]

VARIABLES
  runs,      \* _DEBUGGING_RUNS
  file,      \* the report of each run
  pauses,    \* the three dicts of pauses, and what became of their entries
  req,       \* the handlers
  upsets,
  touched    \* runs whose report somebody else has changed

vars == <<runs, file, pauses, req, upsets, touched>>

RunState ==
  [live : BOOLEAN, turns : Nat, frozen : BOOLEAN, summaries : Seq(Summaries),
   pending : [Passes -> Maybe], finalPending : Maybe, final : Maybe,
   print : Body \cup {NoBody}]

\* A report is the open intake, Pass 0 with the summaries of some passes and
\* perhaps the final report, or something that is none of these.
ReportFile ==
  [form : {"none", "intake", "passes", "foreign"}, turns : Nat,
   passes : Seq(Summaries), final : Maybe]
Only(form) == [form |-> form, turns |-> 0, passes |-> <<>>, final |-> None]

Pause ==
  [state : {"unused", "live", "retired", "expired"}, kind : {"intake", "question", "tool"},
   run : 0..MaxRuns, pass : 0..PassCount, text : Texts \cup {None}, inFlight : BOOLEAN]

Request ==
  [at : {"idle", "queued", "intake", "head", "pass", "final", "followup"},
   stream : BOOLEAN, body : Body \cup {NoBody}, run : 0..MaxRuns,
   pass : 0..PassCount + 1, own : 0..MaxPauses, same : BOOLEAN]
Idle == [at |-> "idle", stream |-> FALSE, body |-> NoBody, run |-> 0,
         pass |-> 0, own |-> 0, same |-> FALSE]

TypeOK ==
  /\ runs \in [RunIds -> RunState]
  /\ file \in [RunIds -> ReportFile]
  /\ pauses \in [Pauses -> Pause]
  /\ req \in [Requests -> Request]
  /\ upsets \in 0..MaxUpsets
  /\ touched \subseteq RunIds

Init ==
  /\ runs = [R \in RunIds |->
       [live |-> FALSE, turns |-> 0, frozen |-> FALSE, summaries |-> <<>>,
        pending |-> [n \in Passes |-> None], finalPending |-> None, final |-> None,
        print |-> NoBody]]
  /\ file = [R \in RunIds |-> Only("none")]
  /\ pauses = [p \in Pauses |->
       [state |-> "unused", kind |-> "intake", run |-> 0, pass |-> 0,
        text |-> None, inFlight |-> FALSE]]
  /\ req = [r \in Requests |-> Idle]
  /\ upsets = 0
  /\ touched = {}

-----------------------------------------------------------------------------
(* A run and its report, x = [ok, m, f]; an operation that raises clears ok. *)
(* disk says what every write of the step meets: "up", "down" (nothing is    *)
(* written) or "torn" (a plain write stops half way).                        *)

Of(R) == [ok |-> TRUE, m |-> runs[R], f |-> file[R]]
Raised(x) == [x EXCEPT !.ok = FALSE]
Then(x, Op(_)) == IF x.ok THEN Op(x) ELSE x

WriteText(x, report, disk) ==
  IF disk = "up" THEN [x EXCEPT !.f = report]
  ELSE [x EXCEPT !.ok = FALSE, !.f = IF disk = "torn" THEN Only("foreign") ELSE @]

OpenReport(m) == [Only("intake") EXCEPT !.turns = m.turns]
Through(m, n) ==
  [form |-> "passes", turns |-> m.turns, passes |-> SubSeq(m.summaries, 1, n), final |-> None]

\* Reading turns a carriage return into a newline: such a report is never
\* equal to what it was rendered from.
Valid(x, n) ==
  /\ x.m.frozen /\ n <= Len(x.m.summaries)
  /\ x.f = Through(x.m, n)
  /\ \A i \in 1..n : x.m.summaries[i] \notin Carriage

Validated(x, n) == IF Valid(x, n) THEN x ELSE Raised(x)

AppendTurn(x, role, disk) ==
  IF x.m.frozen THEN Raised(x)
  ELSE LET m == IF role = "user" THEN [x.m EXCEPT !.turns = @ + 1] ELSE x.m
       IN WriteText([x EXCEPT !.m = m], OpenReport(m), disk)

Freeze(x, disk) ==
  IF x.m.frozen THEN x
  ELSE LET m == [x.m EXCEPT !.summaries = <<>>, !.frozen = TRUE]
       IN Then(WriteText([x EXCEPT !.m = m], Through(m, 0), disk), LAMBDA y : Validated(y, 0))

Conflict(x, n) == x.m.pending[n] \notin {None, x.m.summaries[n]}
Settled(x, n) == [x EXCEPT !.m.pending[n] = None]

\* Mutant: the summary is committed before the report has it.
PersistEarly(x, n, disk) ==
  LET m == [x.m EXCEPT !.summaries = Append(SubSeq(@, 1, n - 1), x.m.pending[n]),
                       !.pending[n] = None]
  IN IF disk = "up" THEN Validated([x EXCEPT !.m = m, !.f = Through(m, n)], n)
     ELSE Raised([x EXCEPT !.m = m])

\* Atomic replacement first; memory follows.
Persist(x, n, disk) ==
  LET m == [x.m EXCEPT !.summaries = Append(SubSeq(@, 1, n - 1), x.m.pending[n]),
                       !.pending[n] = None]
  IN IF disk = "up" THEN Validated([x EXCEPT !.m = m, !.f = Through(m, n)], n)
     ELSE Raised(x)

RetryPass(x, n, disk) ==
  IF ~Valid(x, n - 1) THEN Raised(x)
  ELSE IF n <= Len(x.m.summaries) THEN IF Conflict(x, n) THEN Raised(x) ELSE Settled(x, n)
  ELSE IF x.m.pending[n] = None THEN Raised(x)
  ELSE Persist(x, n, disk)

\* Mutant: a new answer takes the place of the one that is pending.
CommitPassOver(x, n, s, disk) ==
  IF ~Valid(x, n - 1) THEN Raised(x)
  ELSE IF n <= Len(x.m.summaries)
  THEN IF Conflict(x, n) \/ x.m.summaries[n] # s THEN Raised(x) ELSE Settled(x, n)
  ELSE RetryPass([x EXCEPT !.m.pending[n] = s], n, disk)

\* Mutant: the report on disk is not looked at before it is replaced.
CommitPassBlind(x, n, s, disk) ==
  IF n <= Len(x.m.summaries)
  THEN IF Conflict(x, n) \/ x.m.summaries[n] # s THEN Raised(x) ELSE Settled(x, n)
  ELSE IF x.m.pending[n] \notin {None, s} THEN Raised(x)
  ELSE Persist([x EXCEPT !.m.pending[n] = s], n, disk)

CommitPass(x, n, s, disk) ==
  IF ~Valid(x, n - 1) THEN Raised(x)
  ELSE IF n <= Len(x.m.summaries)
  THEN IF Conflict(x, n) \/ x.m.summaries[n] # s THEN Raised(x) ELSE Settled(x, n)
  ELSE IF x.m.pending[n] \notin {None, s} THEN Raised(x)
  ELSE RetryPass([x EXCEPT !.m.pending[n] = s], n, disk)

RetryFinal(x, disk) ==
  LET s == x.m.finalPending IN
  IF ~Valid(x, PassCount) THEN Raised(x)
  ELSE IF x.m.final # None
  THEN IF s \in {None, x.m.final} THEN [x EXCEPT !.m.finalPending = None] ELSE Raised(x)
  ELSE IF s = None \/ disk # "up" THEN Raised(x)
  ELSE [x EXCEPT !.m.final = s, !.m.finalPending = None, !.f.final = s]

CommitFinal(x, s, disk) ==
  IF ~Valid(x, PassCount) \/ x.m.finalPending \notin {None, s} THEN Raised(x)
  ELSE IF x.m.final # None
  THEN IF x.m.final # s THEN Raised(x) ELSE [x EXCEPT !.m.finalPending = None]
  ELSE RetryFinal([x EXCEPT !.m.finalPending = s], disk)

-----------------------------------------------------------------------------
(* The pauses.                                                              *)

Live(p) == pauses[p].state = "live"
NewPause == CHOOSE p \in Pauses :
  pauses[p].state = "unused" /\ \A q \in 1..(p - 1) : pauses[q].state # "unused"
CanPause == \E p \in Pauses : pauses[p].state = "unused"

Registered(ps, kind, R, n, text) ==
  [ps EXCEPT ![NewPause] = [state |-> "live", kind |-> kind, run |-> R, pass |-> n,
                            text |-> text, inFlight |-> FALSE]]

Retired(ps, p) ==
  IF p = 0 THEN ps
  ELSE [ps EXCEPT ![p].state = IF @ = "live" THEN "retired" ELSE @, ![p].inFlight = FALSE]

\* What a body names: by the text shown before its last user message, or, if
\* it ends with a tool result, by the id of the call.
Names(b, kind) ==
  {p \in Pauses : /\ Live(p) /\ pauses[p].kind = kind
                  /\ IF b.kind = "tool" THEN kind = "tool" /\ p = b.of
                     ELSE kind # "tool" /\ pauses[p].text \in b.names}

Named(b) == UNION {Names(b, k) : k \in {"intake", "question", "tool"}}

\* The first store that knows the body answers.
Matched(b) ==
  IF Names(b, "intake") # {} THEN Names(b, "intake")
  ELSE IF Names(b, "question") # {} THEN Names(b, "question")
  ELSE Names(b, "tool")

\* The end of a request: a stream rearms all its body names, the others what
\* they still hold.
Rearmed(ps, q) ==
  [p \in Pauses |->
     IF /\ ps[p].state = "live"
        /\ IF q.stream THEN p \in Named(q.body) ELSE p = q.own
     THEN [ps[p] EXCEPT !.inFlight = FALSE] ELSE ps[p]]

-----------------------------------------------------------------------------
(* The handler.                                                             *)

Become(R, x) == runs' = [runs EXCEPT ![R] = x.m] /\ file' = [file EXCEPT ![R] = x.f]
Go(r, q) == req' = [req EXCEPT ![r] = q]
Disk(disk) ==
  /\ disk # "up" => upsets < MaxUpsets
  /\ upsets' = upsets + (IF disk = "up" THEN 0 ELSE 1)

\* The request is over; ps are the pauses it leaves.
End(r, ps) == Go(r, Idle) /\ pauses' = Rearmed(ps, req[r])

Working == {r \in Requests : req[r].at \notin {"idle", "queued"}}

Arrive(r) ==
  /\ req[r].at = "idle"
  /\ \E b \in Body, t \in Transports :
       /\ b.kind = "tool" => pauses[b.of].state # "unused" /\ pauses[b.of].kind = "tool"
       /\ Go(r, [Idle EXCEPT !.at = "queued", !.stream = (t = "stream"), !.body = b])
  /\ UNCHANGED <<runs, file, pauses, upsets, touched>>

\* The request holds a permit and its body.
Admitted(r) == req[r].at = "queued" /\ Cardinality(Working) < MaxConcurrent

\* The paused stage goes on.  A reply that says "proceed" closes the intake
\* before any inference; a stream finds out first whether it is closed.
Proceeds(q, p) ==
  /\ pauses[p].kind = "intake" /\ q.body.say = "proceed"
  /\ q.stream => ~runs[pauses[p].run].frozen

\* Mutant: the intake pause is retired before the intake is frozen.
RetiredEarly(ps, p, ok) == Retired(ps, p)

\* A pause is retired once its work is safe.
RetiredIf(ps, p, ok) == IF ok THEN Retired(ps, p) ELSE ps

Claim(r) ==
  /\ Admitted(r)
  /\ \E p \in Matched(req[r].body) :
       LET R == pauses[p].run
           q == [req[r] EXCEPT !.run = R, !.own = p]
           x == [Of(R) EXCEPT !.m.print = q.body]
           claimed == [pauses EXCEPT ![p].inFlight = TRUE]
       IN
       /\ Cardinality(Matched(q.body)) = 1 /\ ~pauses[p].inFlight
       /\ \/ /\ Proceeds(q, p)
             /\ \E disk \in {"up", "down", "torn"} :
                  LET y == Then(AppendTurn(x, "user", disk), LAMBDA z : Freeze(z, disk)) IN
                  /\ Disk(disk) /\ Become(R, y)
                  /\ IF y.ok
                     THEN /\ Go(r, [q EXCEPT !.at = "head", !.pass = 1, !.own = 0])
                          /\ pauses' = RetiredIf(claimed, p, TRUE)
                     ELSE /\ Go(r, Idle)
                          /\ pauses' = Rearmed(RetiredIf(claimed, p, FALSE), q)
          \/ /\ ~Proceeds(q, p)
             /\ pauses' = claimed /\ Become(R, x) /\ UNCHANGED upsets
             /\ Go(r, CASE pauses[p].kind # "intake" ->
                             [q EXCEPT !.at = "head", !.pass = pauses[p].pass, !.same = TRUE]
                        [] pauses[p].kind = "intake" /\ q.stream /\ x.m.frozen ->
                             [q EXCEPT !.at = "head", !.pass = 1]
                        [] OTHER -> [q EXCEPT !.at = "intake"])
  /\ UNCHANGED touched

\* Runs that wait for this exact request.
Awaiting(b) == {R \in RunIds : runs[R].live /\ runs[R].print = b /\ runs[R].final = None}
PendingPass(b) == {R \in Awaiting(b) : \E n \in Passes : runs[R].pending[n] # None}
PendingFinal(b) == {R \in Awaiting(b) : runs[R].finalPending # None}
Guessing(b) ==
  \/ Cardinality(PendingPass(b)) > 1 \/ Cardinality(PendingFinal(b)) > 1
  \/ PendingPass(b) # {} /\ PendingFinal(b) # {}
FollowsUp(b) == Report \in b.names /\ \E R \in RunIds : runs[R].final # None

Refused(b) ==
  \/ Cardinality(Matched(b)) > 1
  \/ \E p \in Matched(b) : pauses[p].inFlight
  \/ Matched(b) = {} /\ (b.kind = "tool" \/ Guessing(b))

Refuse(r) ==
  /\ Admitted(r) /\ Refused(req[r].body)
  /\ End(r, pauses)
  /\ UNCHANGED <<runs, file, upsets, touched>>

\* No pause knows the body: an exact retry, a follow-up, or a new run.
Unmatched(r) == Admitted(r) /\ Matched(req[r].body) = {} /\ ~Refused(req[r].body)

Recover(r) ==
  /\ Unmatched(r)
  /\ \/ \E R \in PendingFinal(req[r].body) :
          Go(r, [req[r] EXCEPT !.at = "head", !.run = R, !.pass = PassCount + 1])
     \/ \E R \in PendingPass(req[r].body) : \E n \in Passes :
          /\ {n} = {k \in Passes : runs[R].pending[k] # None}
          /\ Go(r, [req[r] EXCEPT !.at = "head", !.run = R, !.pass = n])
  /\ UNCHANGED <<runs, file, pauses, upsets, touched>>

FollowUp(r) ==
  /\ Unmatched(r) /\ PendingFinal(req[r].body) \cup PendingPass(req[r].body) = {}
  /\ FollowsUp(req[r].body)
  /\ Go(r, [req[r] EXCEPT !.at = "followup"])
  /\ UNCHANGED <<runs, file, pauses, upsets, touched>>

\* The run is in the table before its report is written.
CreateRun(r) ==
  /\ Unmatched(r) /\ PendingFinal(req[r].body) \cup PendingPass(req[r].body) = {}
  /\ ~FollowsUp(req[r].body)
  /\ \E R \in RunIds, disk \in {"up", "down", "torn"} :
       /\ ~runs[R].live /\ \A S \in 1..(R - 1) : runs[S].live
       /\ LET x == AppendTurn([Of(R) EXCEPT !.m.live = TRUE, !.m.print = req[r].body],
                              "user", disk) IN
          /\ Disk(disk) /\ Become(R, x)
          /\ IF x.ok THEN Go(r, [req[r] EXCEPT !.at = "intake", !.run = R]) /\ UNCHANGED pauses
             ELSE End(r, pauses)
  /\ UNCHANGED touched

\* The intake stage answers: it asks on, or it is complete.
IntakeAnswers(r) ==
  /\ req[r].at = "intake"
  /\ LET q == req[r]
         Replied(x, disk) == IF q.own = 0 THEN x ELSE AppendTurn(x, "user", disk)
     IN
     \E disk \in {"up", "down", "torn"} :
       /\ Disk(disk)
       /\ \/ LET y == Then(Replied(Of(q.run), disk), LAMBDA z : Freeze(z, disk)) IN
             /\ Become(q.run, y)
             /\ IF y.ok
                THEN /\ Go(r, [q EXCEPT !.at = "head", !.pass = 1, !.own = 0])
                     /\ pauses' = RetiredIf(pauses, q.own, TRUE)
                ELSE End(r, RetiredIf(pauses, q.own, FALSE))
          \/ /\ "intake" \in PauseKinds /\ CanPause
             /\ \E t \in Texts :
                  LET y == Then(Replied(Of(q.run), disk),
                                LAMBDA z : AppendTurn(z, "assistant", disk)) IN
                  /\ Become(q.run, y)
                  /\ End(r, IF y.ok THEN Retired(Registered(pauses, "intake", q.run, 0, t), q.own)
                            ELSE pauses)
  /\ UNCHANGED touched

\* The head of the pass loop: what is pending is persisted, never inferred again.
NextPass(r) ==
  /\ req[r].at = "head" /\ req[r].pass <= PassCount
  /\ LET q == req[r]
         n == q.pass
         x == Of(q.run)
     IN
     IF x.m.pending[n] # None
     THEN \E disk \in {"up", "down"} :
            LET y == RetryPass(x, n, disk) IN
            /\ Disk(disk) /\ Become(q.run, y)
            /\ IF y.ok
               THEN /\ Go(r, [q EXCEPT !.pass = n + 1, !.same = FALSE,
                                       !.own = IF q.same THEN 0 ELSE @])
                    /\ pauses' = RetiredIf(pauses, IF q.same THEN q.own ELSE 0, TRUE)
               ELSE End(r, RetiredIf(pauses, q.own, FALSE))
     ELSE /\ UNCHANGED <<runs, file, upsets>>
          /\ IF q.same \/ Valid(x, n - 1)
             THEN Go(r, [q EXCEPT !.at = "pass"]) /\ UNCHANGED pauses
             ELSE End(r, pauses)
  /\ UNCHANGED touched

\* The loop is over: an old, a pending or a new final report.
AfterPasses(r) ==
  /\ req[r].at = "head" /\ req[r].pass = PassCount + 1
  /\ LET q == req[r]
         x == Of(q.run)
         returned == ~q.stream /\ x.m.final # None
     IN
     IF ~returned /\ x.m.finalPending # None
     THEN \E disk \in {"up", "down"} :
            Disk(disk) /\ Become(q.run, RetryFinal(x, disk)) /\ End(r, pauses)
     ELSE /\ UNCHANGED <<runs, file, upsets>>
          /\ IF ~returned /\ Valid(x, PassCount)
             THEN Go(r, [q EXCEPT !.at = "final"]) /\ UNCHANGED pauses
             ELSE End(r, pauses)
  /\ UNCHANGED touched

\* A pass stops at tool calls or at a question to the user.
PassPauses(r) ==
  /\ req[r].at = "pass" /\ CanPause
  /\ LET q == req[r] IN
     \E k \in PauseKinds \ {"intake"}, t \in Texts \cup {None} :
       /\ (k = "tool") = (t = None)
       /\ End(r, Retired(Registered(pauses, k, q.run, q.pass, t), IF q.same THEN q.own ELSE 0))
  /\ UNCHANGED <<runs, file, upsets, touched>>

PassAnswers(r) ==
  /\ req[r].at = "pass"
  /\ LET q == req[r] IN
     \E s \in Summaries, disk \in {"up", "down"} :
       LET y == CommitPass(Of(q.run), q.pass, s, disk) IN
       /\ Disk(disk) /\ Become(q.run, y)
       /\ IF y.ok
          THEN /\ Go(r, [q EXCEPT !.at = "head", !.pass = @ + 1, !.same = FALSE,
                                  !.own = IF q.same THEN 0 ELSE @])
               /\ pauses' = RetiredIf(pauses, IF q.same THEN q.own ELSE 0, TRUE)
          ELSE End(r, RetiredIf(pauses, q.own, FALSE))
  /\ UNCHANGED touched

FinalAnswers(r) ==
  /\ req[r].at = "final"
  /\ \E s \in Summaries, disk \in {"up", "down"} :
       /\ Disk(disk) /\ Become(req[r].run, CommitFinal(Of(req[r].run), s, disk))
       /\ End(r, pauses)
  /\ UNCHANGED touched

\* A follow-up is answered, a stage fails, or the client of a stream leaves.
Leave(r) ==
  /\ \/ req[r].at \in {"intake", "pass", "final", "followup"}
     \/ req[r].stream /\ req[r].at # "idle"
  /\ End(r, pauses)
  /\ UNCHANGED <<runs, file, upsets, touched>>

\* A pause of six hours that nobody works on is dropped by whoever comes next.
Expire(p) ==
  /\ Live(p) /\ ~pauses[p].inFlight
  /\ pauses' = [pauses EXCEPT ![p].state = "expired"]
  /\ UNCHANGED <<runs, file, req, upsets, touched>>

\* Somebody else edits a report, or puts back an older copy of it.
Touch(R) ==
  /\ runs[R].live /\ R \notin touched /\ upsets < MaxUpsets
  /\ upsets' = upsets + 1 /\ touched' = touched \cup {R}
  /\ \E f \in {Only("foreign")}
              \cup (IF runs[R].frozen THEN {Through(runs[R], n) : n \in 0..Len(runs[R].summaries)}
                    ELSE {}) :
       file' = [file EXCEPT ![R] = f]
  /\ UNCHANGED <<runs, pauses, req>>

Handle(r) ==
  \/ Arrive(r) \/ Claim(r) \/ Refuse(r) \/ Recover(r) \/ FollowUp(r) \/ CreateRun(r)
  \/ IntakeAnswers(r) \/ NextPass(r) \/ AfterPasses(r)
  \/ PassPauses(r) \/ PassAnswers(r) \/ FinalAnswers(r) \/ Leave(r)

Next ==
  \/ \E r \in Requests : Handle(r)
  \/ \E p \in Pauses : Expire(p)
  \/ \E R \in RunIds : Touch(R)

Spec == Init /\ [][Next]_vars

-----------------------------------------------------------------------------
(* Properties.                                                              *)

\* A report nobody else touched has every committed summary at its place and,
\* once committed, the final report: a summary is committed in memory only
\* after the report was replaced, whatever the disk does.
CommittedIsDurable ==
  \A R \in RunIds :
    R \notin touched /\ runs[R].summaries # <<>> =>
      /\ file[R].form = "passes" /\ file[R].turns = runs[R].turns
      /\ file[R].passes = runs[R].summaries
      /\ file[R].final = runs[R].final

Extends(new, old) == Len(old) <= Len(new) /\ SubSeq(new, 1, Len(old)) = old

\* From the freeze on, a report is only ever extended, also when two streams
\* work on the same pass, and one that was changed from outside is left as it
\* is (_debugging_validate_report_through).
ReportOnlyGrows ==
  [][\A R \in RunIds :
       runs[R].frozen /\ touched' = touched =>
         /\ file'[R].form = file[R].form /\ file'[R].turns = file[R].turns
         /\ Extends(file'[R].passes, file[R].passes)
         /\ file[R].final # None => file'[R].final = file[R].final]_vars

\* Completed cognition is never lost or replaced: what is pending stays so
\* until it is committed word for word, and what is committed stays.
CognitionKept ==
  [][\A R \in RunIds :
       /\ \A n \in Passes :
            LET s == runs[R].pending[n] IN
            s # None /\ runs'[R].pending[n] # s =>
              n <= Len(runs'[R].summaries) /\ runs'[R].summaries[n] = s
       /\ Extends(runs'[R].summaries, runs[R].summaries)
       /\ runs[R].finalPending \notin {None, runs'[R].finalPending} =>
            runs'[R].final = runs[R].finalPending
       /\ runs[R].final # None => runs'[R].final = runs[R].final]_vars

\* A pause that was retired has an heir: the intake it belongs to is frozen,
\* its pass is committed, or a later pause of the run took its place.  Nobody
\* else can carry the paused work on, for a reply cannot be matched again.
RetiredHasHeir ==
  \A p \in Pauses :
    pauses[p].state = "retired" =>
      LET R == pauses[p].run IN
      \/ \E q \in Pauses : q > p /\ pauses[q].run = R /\ pauses[q].state # "unused"
      \/ pauses[p].kind = "intake" /\ runs[R].frozen /\ (file[R].form = "passes" \/ R \in touched)
      \/ pauses[p].kind # "intake" /\ pauses[p].pass <= Len(runs[R].summaries)

\* Expected by the docstring of _debugging_pending_durability_run_for_request:
\* the exact request that failed is matched to the cognition it left.  Not so
\* for a request that ends with a tool result: see README, Divergences.
ExactRetryMatches ==
  \A R \in RunIds :
    (\E n \in Passes : runs[R].pending[n] # None) =>
      \/ \E r \in Requests : req[r].run = R
      \/ \E p \in Pauses : pauses[p].state \in {"live", "expired"} /\ pauses[p].run = R
      \/ ~Refused(runs[R].print) \/ Guessing(runs[R].print)
=============================================================================
