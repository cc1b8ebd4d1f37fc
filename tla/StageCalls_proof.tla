--------------------------- MODULE StageCalls_proof ---------------------------
(***************************************************************************)
(* Proofs about a stage and about the calls it comes back with.            *)
(*                                                                         *)
(* StageRunner: for every kind of stage, any budget, any detector and any  *)
(* number of repairs; what a backend sends is left open, so the proofs     *)
(* hold for every backend.                                                 *)
(*                                                                         *)
(* ToolAuthority: for every policy, every batch and every place where the  *)
(* executor may stand.  How a path is normalized is left open but for what *)
(* the decisions rest on: what does not normalize is no path, and an       *)
(* absolute path does not depend on the directory.                         *)
(***************************************************************************)
EXTENDS StageRunner, ToolAuthority, FiniteSetTheorems, TLAPS

\* While a stream is being closed, or waits for the finalizer, it may or may not
\* have been opened, and the tracker's flag is down before the message is looked at.
OneStream ==
  /\ at \in {"closing", "dropped"} => open \in {0, 1}
  /\ at = "decide" => ~active

\* Whether the one recovery of this inference may have been used: it comes
\* last, and what it brings is not empty.
MayHaveRecovered ==
  ~ \/ at \in {"connect", "stream"}
    \/ at = "closing" /\ why # "left"
    \/ at = "decide" /\ streaming /\ Empty(got)

\* What has been started is paid for: by the repairs, the retry, the recovery.
Paid ==
  /\ inferences <= 3 * repair + 1 + (IF retried THEN 1 ELSE 0)
                   + (IF MayHaveRecovered THEN 1 ELSE 0)
  /\ at = "closing" /\ why = "again" => ~retried

Inv == TypeOK /\ NothingLeftRunning /\ OneStream /\ Paid /\ ResultIsWhole

Message == [content : BOOLEAN, reasoning : BOOLEAN, calls : SUBSET Verdicts]
Meter == [{"reasoning", "output"} -> 0..MaxBytes]

-----------------------------------------------------------------------------
(* The meter and the message.                                               *)

(***************************************************************************)
(* The meter of a generation stays within its bound, whatever the size of  *)
(* the chunk (what the token budget of the stage runner is read from).     *)
(***************************************************************************)
LEMMA MeterType ==
  ASSUME NEW b \in Meter, NEW k \in {"reasoning", "output"}, NEW n \in Nat
  PROVE  Metered(b, k, n) \in Meter
<1>1. Capped(b[k] + n) \in 0..MaxBytes
  BY StageConstants DEF Capped, Meter
<1> QED
  BY <1>1 DEF Metered, Meter

(***************************************************************************)
(* A generation starts with an empty meter and an empty message.           *)
(***************************************************************************)
LEMMA FreshTypes ==
  NoBytes \in Meter /\ Nothing \in Message /\ <<>> \in Seq(Words)
BY StageConstants DEF NoBytes, Meter, Nothing, Message

(***************************************************************************)
(* The message a chunk leaves behind is a message.                         *)
(***************************************************************************)
LEMMA TakenType ==
  ASSUME got \in Message, NEW chunk \in {"reasoning", "content", "tool"},
         NEW v \in Verdicts
  PROVE  Taken(chunk, v) \in Message
<1>1. CASE chunk = "reasoning"
  BY <1>1 DEF Taken, Message
<1>2. CASE chunk = "content"
  BY <1>2 DEF Taken, Message
<1>3. CASE chunk = "tool"
  BY <1>3 DEF Taken, Message
<1> QED
  BY <1>1, <1>2, <1>3

-----------------------------------------------------------------------------
(* Types.                                                                   *)

(***************************************************************************)
(* Every step of the runner, of the backend and of the caller keeps the    *)
(* types; a stream is opened only when none is open.                       *)
(***************************************************************************)
LEMMA TypeStep ==
  TypeOK /\ NothingLeftRunning /\ OneStream /\ [Next]_vars => TypeOK'
<1> SUFFICES ASSUME TypeOK, NothingLeftRunning, OneStream, [Next]_vars
             PROVE  TypeOK'
  OBVIOUS
<1> USE DEF attempt, Over
<1>0. bytes \in Meter /\ got \in Message /\ words \in Seq(Words)
  BY DEF TypeOK, Meter, Message
<1>1. CASE Connect
  <2>1. PICK r \in {"ok", "optional", "bad", "busy", "down"} :
          CASE Response(r) = "ok" ->
                 at' = "stream" /\ open' = open + 1 /\ UNCHANGED <<post, why>>
            [] Response(r) = "failed" ->
                 at' = "closing" /\ why' = "failed" /\ UNCHANGED <<post, open>>
            [] OTHER -> post' = Response(r) /\ UNCHANGED <<at, open, why>>
    BY <1>1 DEF Connect
  <2>2. Response(r) \in {"ok", "failed", "plain", "last"}
    BY DEF Response
  <2>3. open' \in 0..2
    <3>1. open \in 0..2 /\ open = 0
      BY <1>1 DEF Connect, TypeOK, NothingLeftRunning
    <3> QED
      BY <2>1, <2>2, <3>1
  <2>4. at' \in {"connect", "stream", "closing"} /\ post' \in {"first", "plain", "last"}
        /\ why' \in {"end", "again", "failed", "left"}
    BY <1>1, <2>1, <2>2 DEF Connect, TypeOK
  <2> QED
    BY <1>1, <2>3, <2>4 DEF Connect, TypeOK
<1>2. CASE Close
  <2>1. CASE why = "again"
    <3>1. bytes' \in Meter /\ got' \in Message /\ words' \in Seq(Words)
          /\ finished' = FALSE /\ beat' = FALSE
      BY <1>2, <2>1, FreshTypes DEF Close, Generate, Fresh
    <3>2. at' = "connect" /\ post' = "first" /\ active' = TRUE /\ retried' = TRUE
          /\ inferences' = inferences + 1 /\ open' = 0
          /\ UNCHANGED <<kind, streaming, why, repair>>
      BY <1>2, <2>1 DEF Close, Closed, Generate
    <3>3. inferences' \in Nat /\ open' \in 0..2
      BY <3>2 DEF TypeOK
    <3> QED
      BY <3>1, <3>2, <3>3 DEF TypeOK, Meter, Message
  <2>2. CASE why # "again"
    <3>1. bytes' \in Meter /\ got' \in Message /\ words' \in Seq(Words)
      BY <1>0, <1>2, <2>2, FreshTypes DEF Close
    <3>2. active' = FALSE /\ at' \in {"decide", "failed", "left"} /\ open' = 0
          /\ beat' = FALSE
          /\ UNCHANGED <<kind, streaming, why, repair, post, retried, finished,
                         inferences>>
      BY <1>2, <2>2 DEF Close, Closed, TypeOK
    <3>3. open' \in 0..2
      BY <3>2
    <3> QED
      BY <3>1, <3>2, <3>3 DEF TypeOK, Meter, Message
  <2> QED
    BY <2>1, <2>2
<1>3. CASE Answered
  <2>1. got' \in Message /\ finished' \in BOOLEAN /\ active' \in BOOLEAN
        /\ at' \in {"connect", "recover", "decide", "failed"}
        /\ post' \in {"first", "plain", "last"}
    <3>1. PICK r \in {"ok", "optional", "bad", "busy", "down"} :
       CASE Response(r) = "ok" ->
              /\ \E c \in {0} \cup ChunkBytes, t \in {0} \cup ChunkBytes, cs \in SUBSET Verdicts :
                   LET m == [content |-> c > 0, reasoning |-> t > 0, calls |-> cs]
                       b == Metered(Metered(NoBytes, "output", c), "reasoning", t)
                       refused == IF streaming THEN Empty(m)
                                  ELSE OverBudget(b, "output") \/ OverBudget(b, "reasoning")
                   IN
                   /\ got' = m
                   /\ at' = IF refused THEN "failed" ELSE "decide"
              /\ finished' \in BOOLEAN /\ active' = FALSE /\ UNCHANGED post
         [] Response(r) = "failed" ->
              at' = "failed" /\ active' = FALSE /\ UNCHANGED <<post, got, finished>>
         [] OTHER -> post' = Response(r) /\ UNCHANGED <<at, got, finished, active>>
      BY <1>3 DEF Answered
    <3>2. Response(r) \in {"ok", "failed", "plain", "last"}
      BY DEF Response
    <3>3. CASE Response(r) = "ok"
      <4>1. PICK c \in {0} \cup ChunkBytes, t \in {0} \cup ChunkBytes,
                 cs \in SUBSET Verdicts :
              got' = [content |-> c > 0, reasoning |-> t > 0, calls |-> cs]
        BY <3>1, <3>3
      <4>2. (c > 0) \in BOOLEAN /\ (t > 0) \in BOOLEAN
        OBVIOUS
      <4>3. got' \in Message
        BY <4>1, <4>2 DEF Message
      <4>4. at' \in {"decide", "failed"}
        BY <3>1, <3>3
      <4> QED
        BY <3>1, <3>3, <4>3, <4>4 DEF TypeOK
    <3>4. CASE Response(r) = "failed"
      BY <3>1, <3>4, <1>0 DEF TypeOK
    <3>5. CASE Response(r) \in {"plain", "last"}
      BY <1>3, <3>1, <3>5, <1>0 DEF TypeOK, Answered
    <3> QED
      BY <3>2, <3>3, <3>4, <3>5
  <2> QED
    BY <1>3, <2>1 DEF Answered, TypeOK, Message
<1>4. CASE Recover
  <2>1. at' \in {"failed", "recover"} /\ post' \in {"first", "plain", "last"}
    BY <1>4 DEF Recover, TypeOK
  <2>2. active' \in BOOLEAN
    BY <1>4 DEF Recover, TypeOK
  <2>3. inferences' \in Nat
    <3>1. inferences' = inferences \/ inferences' = inferences + 1
      BY <1>4 DEF Recover
    <3> QED
      BY <3>1 DEF TypeOK
  <2> QED
    BY <1>4, <2>1, <2>2, <2>3 DEF Recover, TypeOK
<1>5. CASE Repair
  <2>1. bytes' \in Meter /\ got' \in Message /\ words' \in Seq(Words)
        /\ finished' = FALSE /\ beat' = FALSE
    BY <1>5, FreshTypes DEF Repair, Generate, Fresh
  <2>2. repair' \in 0..MaxRepair
    BY <1>5, StageConstants DEF Repair, Counted, TypeOK
  <2>3. at' = "connect" /\ post' = "first" /\ active' = TRUE /\ retried' = FALSE
        /\ inferences' = inferences + 1 /\ UNCHANGED <<kind, streaming, why, open>>
    BY <1>5 DEF Repair, Generate
  <2>4. inferences' \in Nat
    BY <2>3 DEF TypeOK
  <2> QED
    BY <2>1, <2>2, <2>3, <2>4 DEF TypeOK, Meter, Message
<1>6. CASE GiveUp
  BY <1>6 DEF GiveUp, TypeOK
<1>7. CASE Deliver
  <2>1. got' \in Message
    BY <1>7, <1>0 DEF Deliver, Message
  <2> QED
    BY <1>7, <2>1 DEF Deliver, TypeOK, Message
<1>8. CASE Chunk
  <2>1. PICK chunk \in {"reasoning", "content", "tool"}, n \in ChunkBytes,
             w \in Words, v \in Verdicts :
       LET b == Observed(bytes, chunk, n)
           ws == IF chunk = "reasoning" THEN Recorded(words, w) ELSE words
       IN
       /\ bytes' = b
       /\ IF OverBudget(b, MeterOf(chunk))
          THEN /\ at' = "closing" /\ why' = "failed" /\ UNCHANGED <<words, got>>
          ELSE /\ words' = ws /\ got' = Taken(chunk, v)
               /\ IF chunk = "reasoning" /\ Detected(ws)
                  THEN at' = "closing" /\ why' = AfterLoop
                  ELSE UNCHANGED <<at, why>>
    BY <1>8 DEF Chunk
  <2>2. bytes' \in Meter
    <3>1. MeterOf(chunk) \in {"reasoning", "output"} /\ n \in Nat
      BY StageConstants DEF MeterOf
    <3>2. bytes' = Metered(bytes, MeterOf(chunk), n)
      BY <2>1 DEF Observed
    <3> QED
      BY <1>0, <3>1, <3>2, MeterType
  <2>3. words' \in Seq(Words)
    <3>1. Recorded(words, w) \in Seq(Words)
      BY <1>0 DEF Recorded
    <3> QED
      BY <1>0, <2>1, <3>1
  <2>4. got' \in Message
    BY <1>0, <2>1, TakenType
  <2>5. at' \in {"stream", "closing"} /\ why' \in {"end", "again", "failed", "left"}
    <3>1. AfterLoop \in {"failed", "again"}
      BY DEF AfterLoop
    <3> QED
      BY <1>8, <2>1, <3>1 DEF Chunk, TypeOK
  <2> QED
    BY <1>8, <2>2, <2>3, <2>4, <2>5 DEF Chunk, TypeOK, Meter, Message
<1>9. CASE StreamEnds
  BY <1>9 DEF StreamEnds, TypeOK
<1>10. CASE CallerLeaves
  BY <1>10 DEF CallerLeaves, TypeOK
<1>11. CASE CallerDrops
  BY <1>11 DEF CallerDrops, TypeOK
<1>12. CASE LateConnect
  BY <1>12 DEF LateConnect, TypeOK
<1>13. CASE Finalize
  <2>1. bytes' \in Meter /\ words' \in Seq(Words) /\ got' \in Message
    BY <1>0, <1>13, FreshTypes DEF Finalize
  <2>2. at' = "left" /\ open' = 0 /\ active' = FALSE /\ beat' = FALSE
        /\ UNCHANGED <<kind, streaming, post, why, repair, retried, finished, inferences>>
    BY <1>13 DEF Finalize, Closed
  <2>3. open' \in 0..2
    BY <2>2
  <2> QED
    BY <2>1, <2>2, <2>3 DEF TypeOK, Meter, Message
<1>14. CASE UNCHANGED vars
  BY <1>14 DEF vars, TypeOK
<1> QED
  BY <1>1, <1>2, <1>3, <1>4, <1>5, <1>6, <1>7, <1>8, <1>9, <1>10, <1>11, <1>12,
     <1>13, <1>14
     DEF Next, Runner, Backend, Caller

-----------------------------------------------------------------------------
(* Streams and the tracker's flag.                                          *)

(***************************************************************************)
(* Every step keeps at most one stream open, closes it before the next     *)
(* generation, and ends the stage with neither a stream nor the flag.      *)
(***************************************************************************)
LEMMA StreamStep ==
  TypeOK /\ NothingLeftRunning /\ OneStream /\ [Next]_vars
    => NothingLeftRunning' /\ OneStream'
<1> SUFFICES ASSUME TypeOK, NothingLeftRunning, OneStream, [Next]_vars
             PROVE  NothingLeftRunning' /\ OneStream'
  OBVIOUS
<1> USE DEF attempt, Over, NothingLeftRunning, OneStream
<1>1. CASE Connect
  BY <1>1 DEF Connect, Response, TypeOK
<1>2. CASE Close
  BY <1>2 DEF Close, Closed, Generate, Fresh, TypeOK
<1>3. CASE Answered
  <2>1. \/ at' \in {"decide", "failed"} /\ ~active'
        \/ at' = at /\ active' = active
    BY <1>3 DEF Answered
  <2> QED
    BY <1>3, <2>1 DEF Answered, TypeOK
<1>4. CASE Recover
  BY <1>4 DEF Recover, TypeOK
<1>5. CASE Repair
  BY <1>5 DEF Repair, Complete, Generate, Fresh, TypeOK
<1>6. CASE GiveUp
  BY <1>6 DEF GiveUp, Complete, TypeOK
<1>7. CASE Deliver
  BY <1>7 DEF Deliver, Complete, TypeOK
<1>8. CASE Chunk
  <2>1. at' \in {"stream", "closing"}
    BY <1>8 DEF Chunk
  <2> QED
    BY <1>8, <2>1 DEF Chunk, TypeOK
<1>9. CASE StreamEnds
  BY <1>9 DEF StreamEnds, TypeOK
<1>10. CASE CallerLeaves
  BY <1>10 DEF CallerLeaves, TypeOK
<1>11. CASE CallerDrops
  BY <1>11 DEF CallerDrops, ClosedByCaller, Nested, Agentic, TypeOK
<1>12. CASE LateConnect
  BY <1>12 DEF LateConnect, Nested, Agentic, TypeOK
<1>13. CASE Finalize
  BY <1>13 DEF Finalize, Closed, TypeOK
<1>14. CASE UNCHANGED vars
  BY <1>14 DEF vars, Nested, Agentic
<1> QED
  BY <1>1, <1>2, <1>3, <1>4, <1>5, <1>6, <1>7, <1>8, <1>9, <1>10, <1>11, <1>12,
     <1>13, <1>14
     DEF Next, Runner, Backend, Caller

-----------------------------------------------------------------------------
(* The cost of a stage.                                                     *)

(***************************************************************************)
(* Whatever starts a generation pays for it: a repair counts, a retry      *)
(* after a loop is used up, a recovery comes once and last.                *)
(***************************************************************************)
LEMMA PaidStep == TypeOK /\ Paid /\ [Next]_vars => Paid'
<1> SUFFICES ASSUME TypeOK, Paid, [Next]_vars PROVE Paid'
  OBVIOUS
<1> DEFINE used(r) == IF r THEN 1 ELSE 0
<1>0. /\ inferences \in Nat /\ repair \in Nat /\ MaxRepair \in Nat
      /\ inferences <= 3 * repair + 1 + used(retried) + used(MayHaveRecovered)
      /\ at = "closing" /\ why = "again" => ~retried
  BY StageConstants DEF TypeOK, Paid
\* A step that starts nothing, and does not give a used recovery back.
<1>a. ASSUME inferences' = inferences, repair' = repair, retried' = retried,
             MayHaveRecovered => MayHaveRecovered',
             at' = "closing" /\ why' = "again" => ~retried
      PROVE  Paid'
  BY <1>0, <1>a DEF Paid
<1>1. CASE Connect
  <2>1. at' \in {"connect", "stream", "closing"} /\ (at' = "closing" => why' = "failed")
    BY <1>1 DEF Connect
  <2> QED
    BY <1>a, <1>1, <2>1 DEF Connect, MayHaveRecovered
<1>2. CASE Close
  <2>1. CASE why = "again"
    <3>1. ~MayHaveRecovered /\ ~retried
      BY <1>0, <1>2, <2>1 DEF Close, MayHaveRecovered
    <3>2. inferences' = inferences + 1 /\ repair' = repair /\ retried' = TRUE
          /\ at' = "connect"
      BY <1>2, <2>1 DEF Close, Generate
    <3>3. ~MayHaveRecovered'
      BY <3>2 DEF MayHaveRecovered
    <3> QED
      BY <1>0, <3>1, <3>2, <3>3 DEF Paid
  <2>2. CASE why # "again"
    <3>1. at' \in {"decide", "failed", "left"}
      BY <1>2, <2>2 DEF Close, TypeOK
    <3>2. MayHaveRecovered => MayHaveRecovered'
      BY <1>2, <2>2 DEF Close, MayHaveRecovered
    <3> QED
      BY <1>a, <1>2, <2>2, <3>1, <3>2 DEF Close
  <2> QED
    BY <2>1, <2>2
<1>3. CASE Answered
  <2>1. /\ at' \in {at, "decide", "failed"}
        /\ at' = "decide" => ~(streaming /\ Empty(got'))
        /\ at' = at => got' = got
    <3>1. PICK r \in {"ok", "optional", "bad", "busy", "down"} :
            \/ /\ \E c \in {0} \cup ChunkBytes, t \in {0} \cup ChunkBytes,
                     cs \in SUBSET Verdicts :
                    LET m == [content |-> c > 0, reasoning |-> t > 0, calls |-> cs]
                        b == Metered(Metered(NoBytes, "output", c), "reasoning", t)
                        refused == IF streaming THEN Empty(m)
                                   ELSE OverBudget(b, "output") \/ OverBudget(b, "reasoning")
                    IN got' = m /\ at' = IF refused THEN "failed" ELSE "decide"
            \/ at' = "failed"
            \/ UNCHANGED <<at, got>>
      BY <1>3 DEF Answered
    <3>2. ASSUME NEW c \in {0} \cup ChunkBytes, NEW t \in {0} \cup ChunkBytes,
                 NEW cs \in SUBSET Verdicts,
                 LET m == [content |-> c > 0, reasoning |-> t > 0, calls |-> cs]
                     b == Metered(Metered(NoBytes, "output", c), "reasoning", t)
                     refused == IF streaming THEN Empty(m)
                                ELSE OverBudget(b, "output") \/ OverBudget(b, "reasoning")
                 IN got' = m /\ at' = IF refused THEN "failed" ELSE "decide"
          PROVE  at' \in {"decide", "failed"}
                 /\ (at' = "decide" => ~(streaming /\ Empty(got')))
      BY <3>2
    <3>3. at \in {"recover", "connect"}
      BY <1>3 DEF Answered
    <3> QED
      BY <3>1, <3>2, <3>3
  <2>2. MayHaveRecovered => MayHaveRecovered'
    BY <1>3, <2>1 DEF Answered, MayHaveRecovered
  <2> QED
    BY <1>a, <1>3, <2>1, <2>2 DEF Answered
<1>4. CASE Recover
  <2>1. CASE Agentic
    BY <1>a, <1>4, <2>1 DEF Recover, MayHaveRecovered
  <2>2. CASE ~Agentic
    <3>1. ~MayHaveRecovered
      BY <1>4 DEF Recover, MayHaveRecovered
    <3>2. inferences' = inferences + 1 /\ repair' = repair /\ retried' = retried
          /\ at' = "recover"
      BY <1>4, <2>2 DEF Recover
    <3>3. MayHaveRecovered'
      BY <3>2 DEF MayHaveRecovered
    <3> QED
      BY <1>0, <3>1, <3>2, <3>3 DEF Paid
  <2> QED
    BY <2>1, <2>2
<1>5. CASE Repair
  <2>1. inferences' = inferences + 1 /\ repair' = repair + 1 /\ retried' = FALSE
        /\ at' = "connect"
    BY <1>5 DEF Repair, Counted, Generate
  <2>2. ~MayHaveRecovered'
    BY <2>1 DEF MayHaveRecovered
  <2> QED
    BY <1>0, <2>1, <2>2 DEF Paid
<1>6. CASE GiveUp
  BY <1>a, <1>6 DEF GiveUp, MayHaveRecovered
<1>7. CASE Deliver
  BY <1>a, <1>7 DEF Deliver, MayHaveRecovered
<1>8. CASE Chunk
  <2>1. \/ at' = "stream"
        \/ at' = "closing" /\ why' \in {"failed", AfterLoop}
    BY <1>8 DEF Chunk
  <2>2. AfterLoop \in {"failed", "again"} /\ (AfterLoop = "again" => ~retried)
    BY DEF AfterLoop
  <2>3. MayHaveRecovered' = MayHaveRecovered
    BY <1>8, <2>1, <2>2 DEF Chunk, MayHaveRecovered
  <2> QED
    BY <1>a, <1>8, <2>1, <2>2, <2>3 DEF Chunk
<1>9. CASE StreamEnds
  BY <1>a, <1>9 DEF StreamEnds, MayHaveRecovered
<1>10. CASE CallerLeaves
  BY <1>a, <1>10 DEF CallerLeaves, MayHaveRecovered
<1>11. CASE CallerDrops
  BY <1>a, <1>11 DEF CallerDrops, MayHaveRecovered
<1>12. CASE LateConnect
  BY <1>a, <1>12 DEF LateConnect, MayHaveRecovered
<1>13. CASE Finalize
  BY <1>a, <1>13 DEF Finalize, MayHaveRecovered
<1>14. CASE UNCHANGED vars
  BY <1>0, <1>a, <1>14 DEF vars, attempt, MayHaveRecovered, Empty
<1> QED
  BY <1>1, <1>2, <1>3, <1>4, <1>5, <1>6, <1>7, <1>8, <1>9, <1>10, <1>11, <1>12,
     <1>13, <1>14
     DEF Next, Runner, Backend, Caller

(***************************************************************************)
(* Paid generations are bounded, because at most MaxRepair repairs are.    *)
(***************************************************************************)
LEMMA PaidIsBounded == TypeOK /\ Paid => StageIsBounded
<1> SUFFICES ASSUME TypeOK, Paid PROVE StageIsBounded
  OBVIOUS
<1>1. inferences \in Nat /\ repair \in 0..MaxRepair /\ MaxRepair \in Nat
  BY StageConstants DEF TypeOK
<1>2. inferences <= 3 * repair + 3
  BY <1>1 DEF Paid
<1> QED
  BY <1>1, <1>2 DEF StageIsBounded

-----------------------------------------------------------------------------
(* The result.                                                              *)

(***************************************************************************)
(* Only Deliver makes a result, and the checks before it leave no denied,  *)
(* malformed or forbidden call and no empty message.                       *)
(***************************************************************************)
LEMMA WholeStep == TypeOK /\ ResultIsWhole /\ [Next]_vars => ResultIsWhole'
<1> SUFFICES ASSUME TypeOK, ResultIsWhole, [Next]_vars, at' = "result"
             PROVE  ResultIsWhole'
  BY DEF ResultIsWhole
<1>1. CASE Deliver
  <2>1. got \in Message
    BY DEF TypeOK, Message
  <2>2. got' = [got EXCEPT !.calls = @ \ {"denied"}]
        /\ UNCHANGED <<kind, streaming, finished>>
    BY <1>1 DEF Deliver
  <2>3. got'.calls = got.calls \ {"denied"} /\ got'.content = got.content
        /\ got'.reasoning = got.reasoning
    BY <2>1, <2>2 DEF Message
  <2>4. "never" \notin got.calls /\ ~Invalid /\ ~Denied
    BY <1>1 DEF Deliver, Rejected, Interrupted
  <2>5. ASSUME streaming, Empty(got') PROVE FALSE
    <3>1. got.content = FALSE /\ got.reasoning = FALSE /\ got.calls \ {"denied"} = {}
      BY <2>3, <2>5 DEF Empty, Nothing
    <3>2. got.calls = {}
      BY <2>4, <3>1 DEF Denied
    <3>3. got = Nothing
      BY <2>1, <3>1, <3>2 DEF Message, Nothing
    <3> QED
      BY <1>1, <2>5, <3>3 DEF Deliver, Complete, Empty
  <2>6. streaming /\ Agentic => finished
    BY <1>1 DEF Deliver, Unfinished
  <2>7. got'.calls \subseteq IF Governed THEN {"fine"} ELSE {"fine", "malformed"}
    <3>1. got.calls \subseteq {"fine", "malformed", "denied"}
      BY <2>1, <2>4 DEF Message, Verdicts
    <3>2. Governed => "malformed" \notin got.calls
      BY <2>4 DEF Invalid
    <3> QED
      BY <2>3, <3>1, <3>2
  <2>8. ~ToolsAllowed => got'.calls = {}
    BY <2>3, <2>4 DEF Invalid, ToolsAllowed, Governed
  <2>9. Agentic' = Agentic /\ Governed' = Governed /\ ToolsAllowed' = ToolsAllowed
    BY <2>2 DEF Agentic, Governed, ToolsAllowed
  <2> QED
    BY <2>2, <2>5, <2>6, <2>7, <2>8, <2>9 DEF ResultIsWhole
<1>2. CASE UNCHANGED vars
  BY <1>2 DEF vars, attempt, ResultIsWhole, Empty, Agentic, Governed, ToolsAllowed
<1>3. CASE Next /\ ~Deliver
  <2>1. CASE Connect
    BY <2>1 DEF Connect
  <2>2. CASE Close
    BY <2>2 DEF Close, Generate, TypeOK
  <2>3. CASE Answered
    BY <2>3 DEF Answered
  <2>4. CASE Recover \/ Repair \/ GiveUp
    BY <2>4 DEF Recover, Repair, GiveUp, Generate
  <2>5. CASE Chunk
    BY <2>5 DEF Chunk
  <2>6. CASE StreamEnds \/ CallerLeaves
    BY <2>6 DEF StreamEnds, CallerLeaves
  <2>7. CASE CallerDrops \/ LateConnect \/ Finalize
    BY <2>7 DEF CallerDrops, LateConnect, Finalize
  <2> QED
    BY <1>3, <2>1, <2>2, <2>3, <2>4, <2>5, <2>6, <2>7
       DEF Next, Runner, Backend, Caller
<1> QED
  BY <1>1, <1>2, <1>3

-----------------------------------------------------------------------------
(* The theorems.                                                            *)

(***************************************************************************)
(* The inductive invariant holds of every state of every stage.            *)
(***************************************************************************)
THEOREM StageInvariant == Spec => []Inv
<1>1. Init => Inv
  <2> SUFFICES ASSUME Init PROVE Inv
    OBVIOUS
  <2>1. TypeOK
    <3>1. bytes \in Meter /\ words \in Seq(Words) /\ got \in Message
      BY FreshTypes DEF Init
    <3>2. repair \in 0..MaxRepair /\ open \in 0..2 /\ inferences \in Nat
      BY StageConstants DEF Init
    <3>3. retried \in BOOLEAN /\ finished \in BOOLEAN /\ beat \in BOOLEAN
          /\ active \in BOOLEAN
      BY DEF Init
    <3> QED
      BY <3>1, <3>2, <3>3 DEF Init, TypeOK, Meter, Message
  <2>2. NothingLeftRunning /\ OneStream
    BY DEF Init, NothingLeftRunning, OneStream, Over
  <2>3. Paid
    BY DEF Init, Paid, MayHaveRecovered
  <2>4. ResultIsWhole
    BY DEF Init, ResultIsWhole
  <2> QED
    BY <2>1, <2>2, <2>3, <2>4 DEF Inv
<1>2. Inv /\ [Next]_vars => Inv'
  BY TypeStep, StreamStep, PaidStep, WholeStep DEF Inv
<1> QED
  BY <1>1, <1>2, PTL DEF Spec

(***************************************************************************)
(* The variables of a stage keep their types: the meter its bound, the     *)
(* history of the detector its words, the repairs their limit.             *)
(***************************************************************************)
THEOREM StageTypes == Spec => []TypeOK
BY StageInvariant, PTL DEF Inv

(***************************************************************************)
(* A run that ended, was cancelled or was closed leaves neither a stream   *)
(* open nor the tracker's flag up, and a generation starts only when the   *)
(* stream of the last one is closed.  What a caller may leave behind it is *)
(* a run nobody holds, with at most one stream, and of an agentic turn     *)
(* only one that runs inside another, a retry or a repair.                 *)
(***************************************************************************)
THEOREM NothingIsLeftRunning == Spec => []NothingLeftRunning
BY StageInvariant, PTL DEF Inv

(***************************************************************************)
(* A stage costs at most a stream, its retry and a recovery for itself and *)
(* for each of its repairs, whatever the backend sends.                    *)
(***************************************************************************)
THEOREM StageCost == Spec => []StageIsBounded
<1>1. Inv => StageIsBounded
  BY PaidIsBounded DEF Inv
<1> QED
  BY <1>1, StageInvariant, PTL

(***************************************************************************)
(* A result is never an empty message nor an agentic generation without a  *)
(* finish reason, and it releases no call that was denied, malformed or    *)
(* forbidden.                                                              *)
(***************************************************************************)
THEOREM ResultsAreWhole == Spec => []ResultIsWhole
BY StageInvariant, PTL DEF Inv

-----------------------------------------------------------------------------
(* The calls. *)

\* What a call may touch: under Workspace Lock an object inside the workspace,
\* no credential file, and no object under a NEVER root, except that a call which
\* cannot write may have the parts of the Windows tree that may be read.
Lawful(p, n, reading) ==
  LET object == PolicyObject(n.path) IN
  /\ Locked(p) => n.is = "ok" /\ object.is = "ok" /\ Within(object.path, p.workspace)
  /\ n.is = "ok" => n.path \notin p.protected
  /\ n.is = "ok" /\ object.is = "ok" /\ (\E root \in p.never : Within(object.path, root))
       => /\ reading
          /\ Within(n.path, SystemRoot)
          /\ \A root \in Sensitive \cup (p.never \ DefaultNever) : ~Within(n.path, root)

(***************************************************************************)
(* A path that does not normalize is no path.                              *)
(***************************************************************************)
LEMMA NormalizeFails ==
  ASSUME NEW t, NEW b
  PROVE  Normalize(t, b).is # "ok" => Normalize(t, b).path = <<>>
<1>0. /\ \A p : Ok(p).is = "ok"
      /\ \A reason : Fails(reason).path = <<>>
  BY DEF Ok, Fails
<1>1. ASSUME NEW x PROVE Based(x, b).is # "ok" => Based(x, b).path = <<>>
  <2>1. CASE x.form \in {"absolute", "extended"}
    <3>1. Based(x, b) = Ok(x.segs)
      BY <2>1 DEF Based
    <3> QED
      BY <1>0, <3>1
  <2>2. CASE x.form = "drive relative"
    BY <1>0, <2>2 DEF Based
  <2>3. CASE x.form \in {"rooted", "compat"}
    BY <1>0, <2>3 DEF Based
  <2>4. CASE x.form \notin {"absolute", "extended", "drive relative", "rooted", "compat"}
    BY <1>0, <2>4 DEF Based
  <2> QED
    BY <2>1, <2>2, <2>3, <2>4
<1>2. \A p, e : Canonical(p, e).is # "ok" => Canonical(p, e).path = <<>>
  BY DEF Canonical, Ok, Fails
<1> QED
  BY <1>1, <1>2 DEF Normalize, Fails

(***************************************************************************)
(* What is absent is invalid as a path, from any directory.                *)
(***************************************************************************)
LEMMA AbsentFails ==
  ASSUME NEW b
  PROVE  /\ Normalize(Absent, b) = Fails("invalid")
         /\ Normalize(Absent, b).is = "invalid" /\ Normalize(Absent, b).path = <<>>
<1>1. Normalize(Absent, b) = Fails("invalid")
  BY DEF Normalize, Absent
<1>2. Fails("invalid").is = "invalid" /\ Fails("invalid").path = <<>>
  BY DEF Fails
<1> QED
  BY <1>1, <1>2

(***************************************************************************)
(* The gate allows only what no rule forbids: no NEVER root, no invalid path,*)
(* under the lock a known one inside, and no protected file.               *)
(***************************************************************************)
LEMMA AuthorizedIs ==
  ASSUME NEW p, NEW f, Authorize(p, f) = "ALLOW"
  PROVE  /\ ~f.never /\ ~f.invalid
         /\ f.locked => f.deterministic /\ f.inside
         /\ f.target \notin p.protected
<1>1. PathOutcome(f) \notin {"HARD", "DENY"} /\ ResourceOutcome(p, f.target) # "DENY"
  BY DEF Authorize, Evaluate
<1> QED
  BY <1>1 DEF PathOutcome, ResourceOutcome

(***************************************************************************)
(* The exemption for reading concerns the Windows tree alone, without its  *)
(* sensitive parts, the NEVER roots of the operator and protected files.   *)
(***************************************************************************)
LEMMA SafeReadIs ==
  ASSUME NEW p, NEW f, SafeRead(p, f) = "ALLOW"
  PROVE  /\ f.never /\ Within(f.target, SystemRoot)
         /\ \A root \in Sensitive \cup (p.never \ DefaultNever) : ~Within(f.target, root)
         /\ f.locked => f.inside
         /\ f.target \notin p.protected
BY DEF SafeRead

(***************************************************************************)
(* There are two ways to be allowed, the second for calls that only read.  *)
(***************************************************************************)
LEMMA DecidedIs ==
  ASSUME NEW p, NEW f, NEW reading, Decide(p, f, reading) = "ALLOW"
  PROVE  Authorize(p, f) = "ALLOW" \/ (reading /\ SafeRead(p, f) = "ALLOW")
BY DEF Decide

(***************************************************************************)
(* What is allowed is lawful; and without a normal form it is allowed only *)
(* where nothing is locked.                                                *)
(***************************************************************************)
LEMMA AllowedIsLawful ==
  ASSUME NEW p, NEW n, NEW reading, Decide(p, Established(p, n), reading) = "ALLOW"
  PROVE  Lawful(p, n, reading)
<1> DEFINE f == Established(p, n)
           object == PolicyObject(n.path)
<1>1. CASE n.is = "ok" /\ object.is = "ok"
  <2>1. /\ f.target = n.path
        /\ f.never <=> \E root \in p.never : Within(object.path, root)
        /\ f.locked <=> Locked(p)
        /\ f.inside <=> (Locked(p) => Within(object.path, p.workspace))
    BY <1>1 DEF Established, Compared
  <2> HIDE DEF f
  <2>2. CASE Authorize(p, f) = "ALLOW"
    BY <1>1, <2>1, <2>2, AuthorizedIs DEF Lawful
  <2>3. CASE reading /\ SafeRead(p, f) = "ALLOW"
    BY <1>1, <2>1, <2>3, SafeReadIs DEF Lawful
  <2> QED
    BY <2>2, <2>3, DecidedIs DEF f
<1>2. CASE ~(n.is = "ok" /\ object.is = "ok")
  <2>1. ~f.never /\ (f.locked <=> Locked(p)) /\ ~f.deterministic
        /\ (n.is = "ok" => f.target = n.path)
    BY <1>2 DEF Established, Compared, Unresolved
  <2> HIDE DEF f
  <2>2. Authorize(p, f) = "ALLOW"
    BY <2>1, DecidedIs, SafeReadIs DEF f
  <2>3. ~Locked(p) /\ f.target \notin p.protected
    BY <2>1, <2>2, AuthorizedIs
  <2> QED
    BY <1>2, <2>1, <2>3 DEF Lawful
<1> QED
  BY <1>1, <1>2

(***************************************************************************)
(* An invalid path is refused, locked or not.                              *)
(***************************************************************************)
LEMMA InvalidIsRefused ==
  ASSUME NEW p, NEW path, NEW reading
  PROVE  Decide(p, Unresolved(p, path, TRUE), reading) # "ALLOW"
<1>1. Unresolved(p, path, TRUE).invalid /\ ~Unresolved(p, path, TRUE).never
  BY DEF Unresolved
<1> QED
  BY <1>1, DecidedIs, AuthorizedIs, SafeReadIs

(***************************************************************************)
(* What is inspected from a directory is what resolves there.              *)
(***************************************************************************)
LEMMA InspectedIsLawful ==
  ASSUME NEW p, NEW t, NEW cwd, NEW reading, Decide(p, Inspect(p, t, cwd), reading) = "ALLOW"
  PROVE  t # Absent /\ Lawful(p, Normalize(t, Normalize(cwd, <<>>).path), reading)
<1>1. cwd = Absent \/ Normalize(cwd, <<>>).is = "ok"
  BY InvalidIsRefused DEF Inspect
<1>2. Inspect(p, t, cwd) = Established(p, Normalize(t, Normalize(cwd, <<>>).path))
  <2>1. CASE cwd = Absent
    <3>1. Normalize(cwd, <<>>).path = <<>>
      BY <2>1, AbsentFails
    <3> QED
      BY <2>1, <3>1 DEF Inspect
  <2>2. CASE cwd # Absent
    BY <1>1, <2>2 DEF Inspect
  <2> QED
    BY <2>1, <2>2
<1>3. t # Absent
  <2>1. \A b : Established(p, Normalize(Absent, b)) = Unresolved(p, <<>>, TRUE)
    BY AbsentFails DEF Established
  <2> QED
    BY <1>2, <2>1, InvalidIsRefused
<1> QED
  BY <1>2, <1>3, AllowedIsLawful

(***************************************************************************)
(* A structured call that is allowed names a lawful target, or stays in a  *)
(* lawful directory.                                                       *)
(***************************************************************************)
LEMMA StructuredIsLawful ==
  ASSUME NEW p, NEW c, NEW cwd, AuthorizeStructured(p, c, cwd) = "ALLOW"
  PROVE  Lawful(p, Resolved(c.arg, cwd), c.tool \in ReadOnly)
<1>1. CASE Extraction(c) = "error"
  BY <1>1 DEF AuthorizeStructured
<1>2. CASE Extraction(c) = "cwd"
  <2>1. c.arg = Absent
    BY <1>2 DEF Extraction
  <2>2. Decide(p, Inspect(p, cwd, Absent), c.tool \in ReadOnly) = "ALLOW"
    BY <1>2 DEF AuthorizeStructured
  <2>3. Lawful(p, Normalize(cwd, <<>>), c.tool \in ReadOnly)
    BY <2>2, InspectedIsLawful, AbsentFails
  <2> QED
    BY <2>1, <2>3 DEF Resolved
<1>3. CASE Extraction(c) = "target"
  <2>1. Decide(p, Inspect(p, c.arg, cwd), c.tool \in ReadOnly) = "ALLOW"
    BY <1>3 DEF AuthorizeStructured
  <2> QED
    BY <2>1, InspectedIsLawful DEF Resolved
<1> QED
  BY <1>1, <1>2, <1>3 DEF Extraction

(***************************************************************************)
(* A command that is allowed names lawful targets only, the directory it   *)
(* runs in among them if it depends on it.                                 *)
(***************************************************************************)
LEMMA CommandIsLawful ==
  ASSUME NEW p, NEW c, NEW d, NEW cwd, NEW platform,
         "ALLOW" \in CommandOutcomes(p, c, d, cwd, platform),
         NEW t \in {Prepared(u, d, platform) :
                      u \in {v \in Extract(c.segs, d).targets : ~OutsideFiles(v, d)}}
                   \cup (IF Extract(c.segs, d).cwd THEN {Absent} ELSE {})
  PROVE  Lawful(p, Resolved(t, cwd), OnlyReads(c.segs, Extract(c.segs, d), d))
<1> DEFINE e == Extract(c.segs, d)
           refused == RefusedTargets(p, c.segs, e, d, BaseOf(cwd), platform)
<1>1. AtCwd(p, e, cwd) = "ALLOW" /\ refused = {}
  <2>1. "ALLOW" \in Combined(p, e, AtCwd(p, e, cwd), refused)
    BY DEF CommandOutcomes
  <2>2. "ALLOW" \notin refused
    BY DEF RefusedTargets
  <2> QED
    BY <2>1, <2>2 DEF Combined
<1> HIDE DEF e
<1>2. CASE t = Absent /\ e.cwd
  <2>1. \/ cwd = Absent /\ ~Locked(p)
        \/ Authorize(p, Inspect(p, cwd, Absent)) = "ALLOW"
    BY <1>1, <1>2 DEF AtCwd
  <2>2. ASSUME Authorize(p, Inspect(p, cwd, Absent)) = "ALLOW"
        PROVE  Lawful(p, Normalize(cwd, <<>>), FALSE)
    <3>1. Decide(p, Inspect(p, cwd, Absent), FALSE) = "ALLOW"
      BY <2>2 DEF Decide
    <3> QED
      BY <3>1, InspectedIsLawful, AbsentFails
  <2>3. ASSUME cwd = Absent, ~Locked(p)
        PROVE  Lawful(p, Normalize(cwd, <<>>), FALSE)
    BY <2>3, AbsentFails DEF Lawful
  <2>4. Lawful(p, Normalize(cwd, <<>>), OnlyReads(c.segs, e, d))
    BY <2>1, <2>2, <2>3 DEF Lawful
  <2> QED
    BY <1>2, <2>4 DEF Resolved, e
<1>3. ASSUME NEW u \in e.targets, ~OutsideFiles(u, d), t = Prepared(u, d, platform)
      PROVE  Lawful(p, Resolved(t, cwd), OnlyReads(c.segs, e, d))
  <2> DEFINE reading == OnlyReads(c.segs, e, d)
  <2>1. Decide(p, Inspect(p, t, BaseOf(cwd)), reading) = "ALLOW"
    BY <1>1, <1>3 DEF RefusedTargets
  <2> HIDE DEF reading
  <2>2. t # Absent /\ Lawful(p, Normalize(t, Normalize(BaseOf(cwd), <<>>).path), reading)
    BY <2>1, InspectedIsLawful
  <2>3. Normalize(BaseOf(cwd), <<>>).path = Normalize(cwd, <<>>).path
    BY AbsentFails, NormalizeFails DEF BaseOf
  <2> QED
    BY <2>2, <2>3 DEF Resolved, reading
<1> QED
  BY <1>2, <1>3 DEF e

(***************************************************************************)
(* Under Workspace Lock no command that is allowed follows a change of the *)
(* directory.                                                              *)
(***************************************************************************)
LEMMA CommandStays ==
  ASSUME NEW p, NEW c, NEW d, NEW cwd, NEW platform, Locked(p),
         "ALLOW" \in CommandOutcomes(p, c, d, cwd, platform)
  PROVE  StaysPut(c)
<1> DEFINE e == Extract(c.segs, d)
<1>1. ~e.ambiguous
  <2>1. "ALLOW" \in Combined(p, e, AtCwd(p, e, cwd),
                             RefusedTargets(p, c.segs, e, d, BaseOf(cwd), platform))
    BY DEF CommandOutcomes
  <2>2. "ALLOW" \notin RefusedTargets(p, c.segs, e, d, BaseOf(cwd), platform)
    BY DEF RefusedTargets
  <2> HIDE DEF e
  <2> QED
    BY <2>1, <2>2 DEF Combined
<1>2. \A k \in 1..(Len(c.segs) - 1) : ~ChangesCwd(c.segs[k])
  BY <1>1 DEF Extract
<1> QED
  BY <1>2 DEF ChangesCwd, StaysPut

(***************************************************************************)
(* What the executor is allowed to run is lawful in all its targets.       *)
(***************************************************************************)
LEMMA AdmittedIsLawful ==
  ASSUME NEW c, NEW cwd, NEW given,
         "ALLOW" \in ExecutorOutcomes(policy, c, cwd, given, context.platform),
         NEW t \in TargetsOf(c, given)
  PROVE  Lawful(policy, Resolved(t, cwd), ReadsOnly(c))
<1>1. CASE c.tool \in Structured
  <2>1. AuthorizeStructured(policy, c, cwd) = "ALLOW" /\ t = c.arg
    BY <1>1 DEF ExecutorOutcomes, TargetsOf
  <2>2. ReadsOnly(c) <=> c.tool \in ReadOnly
    BY <1>1 DEF ReadsOnly, ReadOnly
  <2>3. Lawful(policy, Resolved(t, cwd), c.tool \in ReadOnly)
    BY <2>1, StructuredIsLawful
  <2> QED
    BY <2>2, <2>3 DEF Lawful
<1>2. CASE c.tool \notin Structured
  <2> DEFINE d == DialectOf(c.tool, given)
             e == Extract(c.segs, d)
  <2>1. "ALLOW" \in CommandOutcomes(policy, c, d, cwd, context.platform)
    BY <1>2 DEF ExecutorOutcomes
  <2>2. t \in {Prepared(u, d, context.platform) : u \in {v \in e.targets : ~OutsideFiles(v, d)}}
              \cup (IF e.cwd THEN {Absent} ELSE {})
    BY <1>2 DEF TargetsOf
  <2>3. OnlyReads(c.segs, e, d) => ReadsOnly(c)
    BY <1>2 DEF OnlyReads, ReadsOnly
  <2> HIDE DEF d
  <2>4. Lawful(policy, Resolved(t, cwd), OnlyReads(c.segs, e, d))
    BY <2>1, <2>2, CommandIsLawful
  <2> HIDE DEF e
  <2> QED
    BY <2>3, <2>4 DEF Lawful
<1> QED
  BY <1>1, <1>2

(***************************************************************************)
(* What the executor is allowed to run keeps its words' meaning.           *)
(***************************************************************************)
LEMMA AdmittedStays ==
  ASSUME NEW c, NEW cwd, NEW given, Locked(policy),
         "ALLOW" \in ExecutorOutcomes(policy, c, cwd, given, context.platform)
  PROVE  StaysPut(c)
<1>1. CASE c.tool \in Structured
  BY <1>1 DEF StaysPut
<1>2. CASE c.tool \notin Structured
  <2>1. "ALLOW" \in CommandOutcomes(policy, c, DialectOf(c.tool, given), cwd, context.platform)
    BY <1>2 DEF ExecutorOutcomes
  <2> QED
    BY <2>1, CommandStays
<1> QED
  BY <1>1, <1>2

\* Whatever the executor runs, from whatever directory, names no credential file
\* and no object under a NEVER root, unless the call cannot write and the object,
\* or the stream of one that it names, may be read there; under Workspace Lock it
\* names only objects inside the workspace, and keeps its directory to the end.
THEOREM RunsAlwaysInside == AuthoritySpec => []RunsInsideTheLock
<1>1. AuthorityInit => RunsInsideTheLock
  BY DEF AuthorityInit, RunsInsideTheLock
<1>2. RunsInsideTheLock /\ [AuthorityNext]_authorityVars => RunsInsideTheLock'
  <2> SUFFICES ASSUME RunsInsideTheLock, [AuthorityNext]_authorityVars
               PROVE  RunsInsideTheLock'
    OBVIOUS
  <2>1. CASE UNCHANGED <<policy, context, executed>>
    BY <2>1 DEF RunsInsideTheLock, TargetsOf, Readable
  <2>2. CASE Admit
    <3>1. PICK i \in DOMAIN released, cwd \in Cwds, given \in Dialects :
            /\ "ALLOW" \in ExecutorOutcomes(policy, released[i], cwd, given, context.platform)
            /\ executed' = {[call |-> released[i], cwd |-> cwd, dialect |-> given]}
      BY <2>2 DEF Admit, AskedCwd
    <3>2. policy' = policy /\ context' = context
      BY <2>2 DEF Admit
    <3> DEFINE c == released[i]
    <3>3. \A t \in TargetsOf(c, given) : Lawful(policy, Resolved(t, cwd), ReadsOnly(c))
      BY <3>1, AdmittedIsLawful
    <3>4. Locked(policy) => StaysPut(c)
      BY <3>1, AdmittedStays
    <3>5. ASSUME NEW x \in executed', NEW t \in TargetsOf(x.call, x.dialect)'
          PROVE  Lawful(policy, Resolved(t, x.cwd), ReadsOnly(x.call))
      <4>1. x.call = c /\ x.cwd = cwd /\ x.dialect = given
        BY <3>1
      <4>2. t \in TargetsOf(c, given)
        BY <3>2, <4>1 DEF TargetsOf
      <4> HIDE DEF c
      <4> QED
        BY <3>3, <4>1, <4>2
    <3>6. ASSUME NEW x \in executed' PROVE Locked(policy') => StaysPut(x.call)
      <4>1. x.call = c
        BY <3>1
      <4> HIDE DEF c
      <4> QED
        BY <3>2, <3>4, <4>1
    <3>7. ASSUME NEW x \in executed', NEW t \in TargetsOf(x.call, x.dialect)'
          PROVE  LET n == Resolved(t, x.cwd)
                     object == PolicyObject(n.path)
                 IN
                 /\ Locked(policy') =>
                      n.is = "ok" /\ object.is = "ok" /\ Within(object.path, policy'.workspace)
                 /\ n.is = "ok" => n.path \notin policy'.protected
                 /\ n.is = "ok" /\ object.is = "ok"
                    /\ (\E root \in policy'.never : Within(object.path, root))
                      => /\ ReadsOnly(x.call)
                         /\ Readable(object.path)' \/ (OfStream(n) /\ Readable(n.path)')
      <4> DEFINE n == Resolved(t, x.cwd)
                 object == PolicyObject(n.path)
      <4>1. Lawful(policy, n, ReadsOnly(x.call))
        BY <3>5, <3>7
      <4>2. \A path : Readable(path)' <=> Readable(path)
        BY <3>2 DEF Readable
      <4>3. object = n => object.path = n.path
        OBVIOUS
      <4>4. OfStream(n) <=> object # n
        BY DEF OfStream
      <4> HIDE DEF n
      <4>5. n.is = "ok" /\ object.is = "ok" /\ (\E root \in policy.never : Within(object.path, root))
              => /\ ReadsOnly(x.call) /\ Readable(n.path)
        BY <4>1 DEF Lawful, Readable
      <4>6. /\ Locked(policy) =>
                 n.is = "ok" /\ object.is = "ok" /\ Within(object.path, policy.workspace)
            /\ n.is = "ok" => n.path \notin policy.protected
        BY <4>1 DEF Lawful
      <4> HIDE DEF object
      <4> QED
        BY <3>2, <4>2, <4>3, <4>4, <4>5, <4>6 DEF n, object
    <3> QED
      BY <3>6, <3>7 DEF RunsInsideTheLock
  <2> QED
    BY <2>1, <2>2 DEF AuthorityNext, Partition, authorityVars
<1> QED
  BY <1>1, <1>2, PTL DEF AuthoritySpec

-----------------------------------------------------------------------------
(* What is released.                                                        *)

(***************************************************************************)
(* An absolute target is the same object from every directory.             *)
(***************************************************************************)
LEMMA AbsoluteIsFixed ==
  ASSUME NEW t, t.form = "absolute", NEW b
  PROVE  Normalize(t, b) = Normalize(t, <<>>)
<1>1. Expanded(t) = t /\ Based(t, b) = Based(t, <<>>)
  BY DEF Expanded, Based
<1> QED
  BY <1>1 DEF Normalize

(***************************************************************************)
(* The rewriting of a call leaves its tool, and under Workspace Lock it    *)
(* names the target in full or the call is refused.                        *)
(***************************************************************************)
LEMMA RewrittenIs ==
  ASSUME NEW p, NEW c, c = [tool |-> c.tool, arg |-> c.arg, segs |-> c.segs],
         Rewritten(p, c) # <<>>
  PROVE  LET d == Rewritten(p, c)[1] IN
         /\ d.tool = c.tool
         /\ Locked(p) =>
              \/ d.arg.form = "absolute" /\ d.arg # Absent
              \/ Extraction(d) = "error"
<1> DEFINE full(path) == [c EXCEPT !.arg = [form |-> "absolute", segs |-> path]]
           d == Rewritten(p, c)[1]
<1>1. ASSUME NEW path
      PROVE  /\ full(path).tool = c.tool /\ full(path).arg.form = "absolute"
             /\ full(path).arg # Absent
  <2>1. full(path).tool = c.tool /\ full(path).arg = [form |-> "absolute", segs |-> path]
    OBVIOUS
  <2>2. Absent.form = "absent"
    BY DEF Absent
  <2> QED
    BY <2>1, <2>2
<1>2. CASE ~Locked(p) \/ c.arg.form = "malformed"
  <2>1. d = c
    BY <1>2 DEF Rewritten
  <2>2. c.arg.form = "malformed" => Extraction(c) = "error"
    BY DEF Extraction, Absent
  <2> QED
    BY <1>2, <2>1, <2>2
<1>3. CASE Locked(p) /\ c.arg.form # "malformed" /\ c.arg = Absent /\ c.tool \notin DefaultsToCwd
  <2>1. d = c
    BY <1>3 DEF Rewritten
  <2>2. Extraction(c) = "error"
    BY <1>3 DEF Extraction
  <2> QED
    BY <2>1, <2>2
<1>4. CASE Locked(p) /\ c.arg.form # "malformed" /\ (c.arg # Absent \/ c.tool \in DefaultsToCwd)
  <2>1. d = full(p.workspace) \/ d = full(Normalize(c.arg, p.workspace).path)
    BY <1>4 DEF Rewritten
  <2> HIDE DEF full, d
  <2>2. d.tool = c.tool /\ d.arg.form = "absolute" /\ d.arg # Absent
    BY <1>1, <2>1
  <2> QED
    BY <2>2 DEF d
<1> QED
  BY <1>2, <1>3, <1>4

(***************************************************************************)
(* What is released of a batch was allowed, and is what became of a call.  *)
(***************************************************************************)
LEMMA PartitionIs ==
  ASSUME batch \in Batches, Partition, NEW k \in DOMAIN released'
  PROVE  \E c \in Range(batch) :
           /\ c = [tool |-> c.tool, arg |-> c.arg, segs |-> c.segs]
           /\ c.segs \in Seq(Range(c.segs))
           /\ released'[k] = Candidate(c) /\ "ALLOW" \in Outcomes(c)
<1> DEFINE stops(out) == {i \in DOMAIN batch : out[i] \in {"HARD", "raises"}}
           kept(out) == Kept(out, stops(out))
<1>0. PICK out \in [DOMAIN batch -> {"ALLOW", "DENY", "HARD", "raises"}] :
        /\ \A i \in DOMAIN batch : out[i] \in Outcomes(batch[i])
        /\ \E order \in [1..Cardinality(kept(out)) -> kept(out)] :
             released' = [j \in DOMAIN order |-> Candidate(batch[order[j]])]
  BY Zenon DEF Partition
<1>1. PICK order \in [1..Cardinality(kept(out)) -> kept(out)] :
        released' = [j \in DOMAIN order |-> Candidate(batch[order[j]])]
  BY <1>0
<1>2. order[k] \in kept(out) /\ released'[k] = Candidate(batch[order[k]])
  BY <1>1
<1>3. order[k] \in DOMAIN batch /\ out[order[k]] = "ALLOW"
  BY <1>2 DEF Kept, Allowed
<1>4. batch[order[k]] \in Range(batch) /\ "ALLOW" \in Outcomes(batch[order[k]])
  BY <1>0, <1>3 DEF Range
<1> QED
  BY <1>2, <1>4, AuthorityConstants

(***************************************************************************)
(* Under Workspace Lock a released structured call means the same wherever *)
(* the executor stands.                                                    *)
(***************************************************************************)
LEMMA ReleasedMeansTheSame ==
  ASSUME NEW c, c = [tool |-> c.tool, arg |-> c.arg, segs |-> c.segs],
         "ALLOW" \in Outcomes(c), Candidate(c).tool \in Structured, Locked(policy),
         NEW cwd, Normalize(cwd, <<>>).is = "ok"
  PROVE  AuthorizeStructured(policy, Candidate(c), cwd) = "ALLOW"
<1> DEFINE d == Rewritten(policy, c)[1]
<1>1. c.tool \in Structured /\ Candidate(c) = d
  BY DEF Candidate
<1>2. Rewritten(policy, c) # <<>> /\ AuthorizeStructured(policy, d, Absent) = "ALLOW"
  BY <1>1 DEF Outcomes
<1>3. \/ d.arg.form = "absolute" /\ d.arg # Absent
      \/ Extraction(d) = "error"
  BY <1>2, RewrittenIs
<1> HIDE DEF d
<1>4. Extraction(d) # "error"
  BY <1>2 DEF AuthorizeStructured
<1>5. Extraction(d) = "target" /\ d.arg.form = "absolute"
  BY <1>3, <1>4 DEF Extraction
<1>6. Inspect(policy, d.arg, cwd) = Inspect(policy, d.arg, Absent)
  <2>1. Inspect(policy, d.arg, Absent) = Established(policy, Normalize(d.arg, <<>>))
    BY DEF Inspect
  <2>2. Inspect(policy, d.arg, cwd) =
          Established(policy, Normalize(d.arg, IF cwd = Absent THEN <<>>
                                               ELSE Normalize(cwd, <<>>).path))
    BY DEF Inspect
  <2> QED
    BY <1>5, <2>1, <2>2, AbsoluteIsFixed
<1>7. AuthorizeStructured(policy, d, cwd) = AuthorizeStructured(policy, d, Absent)
  BY <1>5, <1>6 DEF AuthorizeStructured
<1> QED
  BY <1>1, <1>2, <1>7

(***************************************************************************)
(* What is decided about a path without a reading of it is decided with    *)
(* one: the exemption only concerns what would be interrupted.             *)
(***************************************************************************)
LEMMA AllowedAlsoReading ==
  ASSUME NEW p, NEW f, NEW reading \in BOOLEAN, NEW read \in BOOLEAN, reading => read,
         Decide(p, f, reading) = "ALLOW"
  PROVE  Decide(p, f, read) = "ALLOW"
<1>1. CASE Authorize(p, f) = "ALLOW"
  <2>1. SafeRead(p, f) = "none"
    BY <1>1, AuthorizedIs DEF SafeRead
  <2> QED
    BY <1>1, <2>1 DEF Decide
<1>2. CASE Authorize(p, f) # "ALLOW"
  BY <1>2 DEF Decide
<1> QED
  BY <1>1, <1>2

(***************************************************************************)
(* A simple command on its own names no more, and leaves no more open,     *)
(* than the line it is taken from.                                         *)
(***************************************************************************)
LEMMA AloneIsLess ==
  ASSUME NEW segs, segs \in Seq(Range(segs)), NEW k \in DOMAIN segs, NEW d
  PROVE  LET e == Extract(segs, d)
             a == Extract(<<segs[k]>>, d)
         IN /\ a.targets \subseteq e.targets
            /\ a.cwd => e.cwd
            /\ a.ambiguous => e.ambiguous
            /\ Len(segs) = 1 => <<segs[k]>> = segs
<1>1. DOMAIN <<segs[k]>> = {1} /\ <<segs[k]>>[1] = segs[k] /\ Len(<<segs[k]>>) = 1
  OBVIOUS
<1>2. \A i \in 1..(Len(<<segs[k]>>) - 1) : FALSE
  BY <1>1
<1>3. Len(segs) = 1 => <<segs[k]>> = segs
  OBVIOUS
<1>4. AnyOpen(<<segs[k]>>, d) => AnyOpen(segs, d)
  BY <1>1 DEF AnyOpen
<1>5. Extract(<<segs[k]>>, d).targets \subseteq Extract(segs, d).targets
  BY <1>1 DEF Extract
<1>6. Extract(<<segs[k]>>, d).cwd => Extract(segs, d).cwd
  BY <1>1 DEF Extract
<1>7. Extract(<<segs[k]>>, d).ambiguous => Extract(segs, d).ambiguous
  BY <1>1, <1>2, <1>4 DEF Extract
<1> QED
  BY <1>3, <1>5, <1>6, <1>7

(***************************************************************************)
(* A command that is decided on is given a decision.                       *)
(***************************************************************************)
LEMMA NoneIsNoDecision ==
  ASSUME NEW p, NEW c, NEW d, NEW cwd, NEW platform
  PROVE  "none" \notin CommandOutcomes(p, c, d, cwd, platform)
<1>1. \A q, f : Authorize(q, f) # "none"
  BY DEF Authorize, Evaluate
<1>2. \A q, f, r : Decide(q, f, r) # "none"
  BY <1>1 DEF Decide
<1>3. \A e : AtCwd(p, e, cwd) # "none"
  BY <1>1 DEF AtCwd
<1>4. \A segs, e, base : "none" \notin RefusedTargets(p, segs, e, d, base, platform)
  BY <1>2 DEF RefusedTargets
<1>5. \A e, place, refused : place # "none" /\ "none" \notin refused =>
        "none" \notin Combined(p, e, place, refused)
  BY DEF Combined
<1> QED
  BY <1>3, <1>4, <1>5 DEF CommandOutcomes

(***************************************************************************)
(* What a line may do, a simple command of it may do alone.                *)
(***************************************************************************)
LEMMA AloneIsAllowed ==
  ASSUME NEW p, NEW c, c.segs \in Seq(Range(c.segs)), NEW k \in DOMAIN c.segs,
         NEW one, one.segs = <<c.segs[k]>>, NEW d, NEW cwd, NEW platform,
         "ALLOW" \in CommandOutcomes(p, c, d, cwd, platform)
  PROVE  "ALLOW" \in CommandOutcomes(p, one, d, cwd, platform)
<1> DEFINE segs == c.segs
           e == Extract(segs, d)
           a == Extract(<<segs[k]>>, d)
           refused == RefusedTargets(p, segs, e, d, BaseOf(cwd), platform)
           fewer == RefusedTargets(p, <<segs[k]>>, a, d, BaseOf(cwd), platform)
           reading == OnlyReads(segs, e, d)
           read == OnlyReads(<<segs[k]>>, a, d)
<1>1. AtCwd(p, e, cwd) = "ALLOW" /\ refused = {} /\ ~(e.ambiguous /\ Locked(p))
  <2>1. "ALLOW" \in Combined(p, e, AtCwd(p, e, cwd), refused)
    BY DEF CommandOutcomes
  <2>2. "ALLOW" \notin refused
    BY DEF RefusedTargets
  <2> QED
    BY <2>1, <2>2 DEF Combined
<1>2. /\ a.targets \subseteq e.targets /\ (a.cwd => e.cwd) /\ (a.ambiguous => e.ambiguous)
      /\ Len(segs) = 1 => <<segs[k]>> = segs
  BY AloneIsLess
<1>3. reading => read
  BY <1>2 DEF OnlyReads
<1>4. AtCwd(p, a, cwd) = "ALLOW"
  BY <1>1, <1>2 DEF AtCwd
<1>5. fewer = {}
  <2>1. ASSUME NEW u \in a.targets, ~OutsideFiles(u, d)
        PROVE  Decide(p, Inspect(p, Prepared(u, d, platform), BaseOf(cwd)), read) = "ALLOW"
    <3> DEFINE f == Inspect(p, Prepared(u, d, platform), BaseOf(cwd))
    <3>1. Decide(p, f, reading) = "ALLOW"
      BY <1>1, <1>2, <2>1 DEF RefusedTargets
    <3>2. reading \in BOOLEAN /\ read \in BOOLEAN
      BY DEF OnlyReads
    <3> HIDE DEF f, reading, read
    <3> QED
      BY <1>3, <3>1, <3>2, AllowedAlsoReading DEF f
  <2> QED
    BY <2>1 DEF RefusedTargets
<1> QED
  BY <1>1, <1>2, <1>4, <1>5 DEF CommandOutcomes, Combined

(***************************************************************************)
(* Each command of a released line would have been released alone.         *)
(***************************************************************************)
LEMMA ReleasedAlone ==
  ASSUME NEW c, c = [tool |-> c.tool, arg |-> c.arg, segs |-> c.segs],
         c.segs \in Seq(Range(c.segs)), "ALLOW" \in Outcomes(c),
         c.tool \in CommandTools, NEW k \in DOMAIN c.segs
  PROVE  LET one == [c EXCEPT !.segs = <<@[k]>>] IN
         ExecutorOutcomes(policy, one, context.cwd, context.dialect, context.platform)
           \cap {"ALLOW", "none"} # {}
<1> DEFINE one == [c EXCEPT !.segs = <<@[k]>>]
           d == DialectOf(c.tool, context.dialect)
<1> SUFFICES ExecutorOutcomes(policy, one, context.cwd, context.dialect, context.platform)
               \cap {"ALLOW", "none"} # {}
  OBVIOUS
<1>1. one.tool = c.tool /\ one.segs = <<c.segs[k]>>
  OBVIOUS
<1>2. c.tool \notin Structured
  BY DEF CommandTools, Structured
<1> HIDE DEF one
<1>3. CASE d = "none"
  BY <1>1, <1>2, <1>3 DEF ExecutorOutcomes
<1>4. CASE d # "none"
  <2>1. PICK o \in ExecutorOutcomes(policy, c, context.cwd, context.dialect, context.platform) :
          IF o # "none" THEN o = "ALLOW" ELSE ~Locked(policy)
    BY <1>2 DEF Outcomes
  <2>2. /\ ExecutorOutcomes(policy, c, context.cwd, context.dialect, context.platform)
             = CommandOutcomes(policy, c, d, context.cwd, context.platform)
        /\ ExecutorOutcomes(policy, one, context.cwd, context.dialect, context.platform)
             = CommandOutcomes(policy, one, d, context.cwd, context.platform)
    BY <1>1, <1>2, <1>4 DEF ExecutorOutcomes
  <2>3. o # "none"
    BY <2>1, <2>2, NoneIsNoDecision
  <2>4. "ALLOW" \in CommandOutcomes(policy, c, d, context.cwd, context.platform)
    BY <2>1, <2>2, <2>3
  <2> HIDE DEF d
  <2>5. "ALLOW" \in CommandOutcomes(policy, one, d, context.cwd, context.platform)
    BY <1>1, <2>4, AloneIsAllowed
  <2> QED
    BY <2>2, <2>5
<1> QED
  BY <1>3, <1>4

\* The types of the state: no more is released than was proposed, nothing of a
\* batch that was interrupted, and the executor runs what was released.
THEOREM AuthorityTyped == AuthoritySpec => []AuthorityTypeOK
<1>1. AuthorityInit => AuthorityTypeOK
  <2> SUFFICES ASSUME AuthorityInit PROVE AuthorityTypeOK
    OBVIOUS
  <2>0. batch \in Seq(Range(batch))
    BY AuthorityConstants DEF AuthorityInit
  <2>1. Len(released) = 0 /\ Len(batch) \in Nat
    BY <2>0 DEF AuthorityInit
  <2> QED
    BY <2>1 DEF AuthorityInit, AuthorityTypeOK
<1>2. AuthorityTypeOK /\ [AuthorityNext]_authorityVars => AuthorityTypeOK'
  <2> SUFFICES ASSUME AuthorityTypeOK, [AuthorityNext]_authorityVars
               PROVE  AuthorityTypeOK'
    OBVIOUS
  <2>1. CASE Partition
    <3> DEFINE stops(out) == {i \in DOMAIN batch : out[i] \in {"HARD", "raises"}}
               kept(out) == Kept(out, stops(out))
    <3>1. PICK out \in [DOMAIN batch -> {"ALLOW", "DENY", "HARD", "raises"}] :
            /\ \E order \in [1..Cardinality(kept(out)) -> kept(out)] :
                 released' = [j \in DOMAIN order |-> Candidate(batch[order[j]])]
            /\ phase' \in {"released", "interrupted", "raised"}
            /\ phase' # "released" => stops(out) # {}
      BY <2>1, Zenon DEF Partition
    <3>2. PICK order \in [1..Cardinality(kept(out)) -> kept(out)] :
            released' = [j \in DOMAIN order |-> Candidate(batch[order[j]])]
      BY <3>1
    <3>0. batch \in Seq(Range(batch))
      BY AuthorityConstants DEF AuthorityTypeOK
    <3>3. Len(batch) \in Nat /\ DOMAIN batch = 1..Len(batch)
      BY <3>0
    <3>4. kept(out) \subseteq 1..Len(batch) /\ (phase' # "released" => kept(out) = {})
      BY <3>1, <3>3 DEF Kept, Allowed
    <3>5. Cardinality(kept(out)) \in Nat /\ Cardinality(kept(out)) <= Len(batch)
      <4>1. IsFiniteSet(1..Len(batch)) /\ Cardinality(1..Len(batch)) = Len(batch)
        <5>1. PICK n \in Nat : n = Len(batch)
          BY <3>3
        <5>2. IsFiniteSet(1..n) /\ Cardinality(1..n) = n
          BY FS_Interval
        <5> QED
          BY <5>1, <5>2
      <4> HIDE DEF kept
      <4> QED
        BY <3>4, <4>1, FS_Subset, FS_CardinalityType
    <3>6. Len(released') = Cardinality(kept(out))
      BY <3>2, <3>5
    <3>7. phase' # "released" => released' = <<>>
      <4>1. kept(out) = {} => Cardinality(kept(out)) = 0
        BY FS_EmptySet
      <4> HIDE DEF kept
      <4>2. kept(out) = {} => DOMAIN order = {}
        BY <3>2, <4>1
      <4>3. kept(out) = {} => released' = [j \in {} |-> Candidate(batch[order[j]])]
        BY <3>2, <4>2
      <4>4. [j \in {} |-> Candidate(batch[order[j]])] = <<>>
        OBVIOUS
      <4> QED
        BY <3>4, <4>3, <4>4
    <3>8. executed' = {}
      <4>1. released = <<>> /\ DOMAIN <<>> = {} /\ executed' = executed
        BY <2>1 DEF Partition, AuthorityTypeOK
      <4>2. Range(released) = {}
        BY <4>1 DEF Range
      <4> QED
        BY <4>1, <4>2 DEF AuthorityTypeOK
    <3> QED
      BY <2>1, <3>1, <3>5, <3>6, <3>7, <3>8 DEF Partition, AuthorityTypeOK
  <2>2. CASE Admit
    BY <2>2 DEF Admit, AuthorityTypeOK, Range
  <2>3. CASE UNCHANGED authorityVars
    BY <2>3 DEF authorityVars, AuthorityTypeOK
  <2> QED
    BY <2>1, <2>2, <2>3 DEF AuthorityNext
<1> QED
  BY <1>1, <1>2, PTL DEF AuthoritySpec

\* Release and admission agree: under Workspace Lock no structured call that
\* was released is refused by the executor for where it stands.
THEOREM ReleasedAlwaysAdmitted == AuthoritySpec => []ReleasedIsAdmitted
<1>1. AuthorityInit => ReleasedIsAdmitted
  BY DEF AuthorityInit, ReleasedIsAdmitted
<1>2. AuthorityTypeOK /\ ReleasedIsAdmitted /\ [AuthorityNext]_authorityVars
        => ReleasedIsAdmitted'
  <2> SUFFICES ASSUME AuthorityTypeOK, ReleasedIsAdmitted, [AuthorityNext]_authorityVars
               PROVE  ReleasedIsAdmitted'
    OBVIOUS
  <2>1. CASE Partition
    <3>1. policy' = policy /\ batch \in Batches
      BY <2>1 DEF Partition, AuthorityTypeOK
    <3>2. ASSUME Locked(policy), NEW i \in DOMAIN released', released'[i].tool \in Structured,
                 NEW cwd \in Cwds, Normalize(cwd, <<>>).is = "ok"
          PROVE  AuthorizeStructured(policy, released'[i], cwd) = "ALLOW"
      BY <2>1, <3>1, <3>2, PartitionIs, ReleasedMeansTheSame
    <3> QED
      BY <3>1, <3>2 DEF ReleasedIsAdmitted
  <2>2. CASE UNCHANGED <<policy, released>>
    BY <2>2 DEF ReleasedIsAdmitted
  <2> QED
    BY <2>1, <2>2 DEF AuthorityNext, Admit, authorityVars
<1> QED
  BY <1>1, <1>2, AuthorityTyped, PTL DEF AuthoritySpec

\* Commands put together may do no more than each of them alone: what one
\* simple command leaves open is not forgotten because the next is clear.
THEOREM NeverFreerTogether == AuthoritySpec => []NoFreerTogether
<1>1. AuthorityInit => NoFreerTogether
  BY DEF AuthorityInit, NoFreerTogether
<1>2. AuthorityTypeOK /\ NoFreerTogether /\ [AuthorityNext]_authorityVars
        => NoFreerTogether'
  <2> SUFFICES ASSUME AuthorityTypeOK, NoFreerTogether, [AuthorityNext]_authorityVars
               PROVE  NoFreerTogether'
    OBVIOUS
  <2>1. CASE Partition
    <3>1. policy' = policy /\ context' = context /\ batch \in Batches
      BY <2>1 DEF Partition, AuthorityTypeOK
    <3>2. ASSUME NEW i \in DOMAIN released', released'[i].tool \in CommandTools,
                 NEW k \in DOMAIN released'[i].segs
          PROVE  LET alone == [released'[i] EXCEPT !.segs = <<@[k]>>] IN
                 ExecutorOutcomes(policy, alone, context.cwd, context.dialect, context.platform)
                   \cap {"ALLOW", "none"} # {}
      <4>1. PICK c \in Range(batch) :
              /\ c = [tool |-> c.tool, arg |-> c.arg, segs |-> c.segs]
              /\ c.segs \in Seq(Range(c.segs))
              /\ released'[i] = Candidate(c) /\ "ALLOW" \in Outcomes(c)
        BY <2>1, <3>1, <3>2, PartitionIs
      <4>2. c.tool \notin Structured
        <5>1. ASSUME c.tool \in Structured PROVE FALSE
          <6>1. Rewritten(policy, c) # <<>> /\ Candidate(c) = Rewritten(policy, c)[1]
            BY <4>1, <5>1 DEF Outcomes, Candidate
          <6>2. Candidate(c).tool = c.tool
            BY <4>1, <6>1, RewrittenIs
          <6> QED
            BY <3>2, <4>1, <5>1, <6>2 DEF CommandTools, Structured
        <5> QED
          BY <5>1
      <4>3. released'[i] = c
        BY <4>1, <4>2 DEF Candidate
      <4> QED
        BY <3>2, <4>1, <4>3, ReleasedAlone
    <3> QED
      BY <3>1, <3>2 DEF NoFreerTogether
  <2>2. CASE UNCHANGED <<policy, context, released>>
    BY <2>2 DEF NoFreerTogether
  <2> QED
    BY <2>1, <2>2 DEF AuthorityNext, Admit, authorityVars
<1> QED
  BY <1>1, <1>2, AuthorityTyped, PTL DEF AuthoritySpec
=============================================================================
