---------------------------- MODULE StageRunner ----------------------------
(***************************************************************************)
(* One stage of inference: _run_stage and _run_stage_streamed, with the    *)
(* requests that OpenAICompatibleBackend sends for it.  The backend        *)
(* streams reasoning, content and fragments of tool calls; a meter, a loop *)
(* detector and the policy on tool calls may end or repeat the generation. *)
(* The runner starts over in three ways: once after a loop, up to          *)
(* MaxRepair times after rejected calls, once without streaming after an   *)
(* empty stream.                                                           *)
(*                                                                         *)
(* Steps end where the runner awaits the backend or yields to its caller,  *)
(* who may leave at either.  A run that starts over is a generator inside  *)
(* a generator; only the outermost can be closed by its caller, and the    *)
(* inner one is left to asyncio's finalizer.  Heartbeats and chunks        *)
(* without text are left out: they change nothing.                         *)
(***************************************************************************)
EXTENDS Integers, Sequences, FiniteSets

CONSTANTS StageKinds,    \* which of "native", "pass", "answer", "memory"
          Streaming,     \* subset of BOOLEAN: how the stage may be run
          Words,         \* words of native reasoning
          ChunkBytes,    \* sizes of a chunk
          Limit,         \* the generation budget of each kind, 0 for none
          Repetitions, MinCycle, Batch, \* of the loop detector
          MaxRepair,     \* repairs of one stage, 2 in the code
          MaxBytes       \* bound: the meter stops counting here

ASSUME StageConstants ==
  /\ StageKinds \subseteq {"native", "pass", "answer", "memory"}
  /\ Streaming \subseteq BOOLEAN
  /\ ChunkBytes \subseteq Nat \ {0}
  /\ Limit \in Nat /\ MaxRepair \in Nat /\ MaxBytes \in Nat
  /\ MaxBytes >= 4 * Limit
  /\ Repetitions \in Nat \ {0, 1} /\ MinCycle \in Nat \ {0} /\ Batch \in Nat \ {0}

VARIABLES
  kind, streaming,   \* the stage
  at,                \* where the runner is
  post,              \* which request of this inference comes next
  why,               \* what a closing stream is followed by
  repair, retried,   \* tool_validation_repair_depth, loop_retry_depth
  bytes,             \* the meter of this generation
  words,             \* the detector's
  got,               \* the message so far
  finished,          \* whether the backend gave a finish reason
  open,              \* backend streams that are not closed
  active,            \* backend_request_active in the activity tracker
  beat,              \* auxiliary: turns with every chunk, so that a backend which
                     \* keeps sending is told from one that has stopped
  inferences         \* generations started, an auxiliary count

attempt == <<bytes, words, got, finished, beat>>
vars == <<kind, streaming, at, post, why, repair, retried, attempt, open, active,
          inferences>>

\* What the policy will say of a call: "malformed" fails the schema of the
\* tool, "denied" is refused by the path policy, and at "never" its partition
\* of the calls raises (ToolAuthority).
Verdicts == {"fine", "malformed", "denied", "never"}
Agentic == kind \in {"answer", "memory"}
Governed == kind # "native"
ToolsAllowed == kind # "memory"

Over == {"result", "failed", "left"}

TypeOK ==
  /\ kind \in StageKinds /\ streaming \in Streaming
  /\ at \in {"connect", "recover", "stream", "closing", "decide", "dropped"} \cup Over
  /\ post \in {"first", "plain", "last"}
  /\ why \in {"end", "again", "failed", "left"}
  /\ repair \in 0..MaxRepair /\ retried \in BOOLEAN
  /\ bytes \in [{"reasoning", "output"} -> 0..MaxBytes]
  /\ words \in Seq(Words)
  /\ got \in [content : BOOLEAN, reasoning : BOOLEAN, calls : SUBSET Verdicts]
  /\ finished \in BOOLEAN /\ beat \in BOOLEAN /\ open \in 0..2 /\ active \in BOOLEAN
  /\ inferences \in Nat

Nothing == [content |-> FALSE, reasoning |-> FALSE, calls |-> {}]
Empty(m) == m = Nothing
NoBytes == [k \in {"reasoning", "output"} |-> 0]

Init ==
  /\ kind \in StageKinds /\ streaming \in Streaming
  /\ at = "connect" /\ post = "first" /\ why = "end"
  /\ repair = 0 /\ retried = FALSE
  /\ bytes = NoBytes /\ words = <<>> /\ got = Nothing /\ finished = FALSE
  /\ beat = FALSE
  /\ open = 0 /\ active = TRUE
  /\ inferences = 1

-----------------------------------------------------------------------------
(* The meter and the loop detector.                                         *)

Capped(n) == IF n > MaxBytes THEN MaxBytes ELSE n

Metered(b, k, n) == [b EXCEPT ![k] = Capped(@ + n)]

MeterOf(chunk) == IF chunk = "reasoning" THEN "reasoning" ELSE "output"

OverBudget(b, k) == Limit > 0 /\ (b[k] + 3) \div 4 >= Limit

\* The text ends in Repetitions copies of one block of words.
EndsInCycle(ws) ==
  \E w \in MinCycle..(Len(ws) \div Repetitions) :
    \A i \in 1..(w * (Repetitions - 1)) : ws[Len(ws) - i + 1] = ws[Len(ws) - i + 1 - w]

\* The code drops words that no cycle can reach any more; none are dropped here.
Recorded(ws, w) == Append(ws, w)

\* Only looked at when a batch of words is complete.
Detected(ws) == Len(ws) % Batch = 0 /\ EndsInCycle(ws)

-----------------------------------------------------------------------------
(* Beginning and ending a generation.                                       *)

Fresh ==
  /\ bytes' = NoBytes /\ words' = <<>> /\ got' = Nothing /\ finished' = FALSE
  /\ beat' = FALSE

\* A new generation: the meter, the detector and the message start empty.
Generate ==
  /\ at' = "connect" /\ post' = "first" /\ active' = TRUE
  /\ inferences' = inferences + 1
  /\ Fresh

\* Mutant: the next generation is started while the stream is still open.
ClosedLate(n) == n

\* aclose() of the backend stream.
Closed(n) == 0

\* Sending the request: a rejected optional field is dropped once, and a
\* server error is met with one more try.
Response(r) ==
  CASE r = "ok" -> "ok"
    [] r = "optional" /\ post = "first" -> "plain"
    [] r = "busy" /\ post # "last" -> "last"
    [] OTHER -> "failed"

Connect ==
  /\ at = "connect" /\ streaming
  /\ \E r \in {"ok", "optional", "bad", "busy", "down"} :
       CASE Response(r) = "ok" ->
              at' = "stream" /\ open' = open + 1 /\ UNCHANGED <<post, why>>
         [] Response(r) = "failed" ->
              at' = "closing" /\ why' = "failed" /\ UNCHANGED <<post, open>>
         [] OTHER -> post' = Response(r) /\ UNCHANGED <<at, open, why>>
  /\ UNCHANGED <<kind, streaming, repair, retried, attempt, active, inferences>>

\* Mutant: fragments of tool calls are kept from the meter.
ObservedTextOnly(b, chunk, n) ==
  IF chunk = "tool" THEN b ELSE Metered(b, MeterOf(chunk), n)

Observed(b, chunk, n) == Metered(b, MeterOf(chunk), n)

Taken(chunk, v) ==
  CASE chunk = "reasoning" -> [got EXCEPT !.reasoning = TRUE]
    [] chunk = "content" -> [got EXCEPT !.content = TRUE]
    [] chunk = "tool" -> [got EXCEPT !.calls = @ \cup {v}]

\* What a loop is followed by: the memory of an agentic turn is given up, and
\* so is a stage whose content is out or that has been repeated before.
AfterLoop ==
  IF kind = "memory" \/ (got.content /\ ~Agentic) \/ retried THEN "failed" ELSE "again"

\* A chunk is metered and then examined; what is left is yielded to the caller.
Chunk ==
  /\ at = "stream"
  /\ \E chunk \in {"reasoning", "content", "tool"}, n \in ChunkBytes,
        w \in Words, v \in Verdicts :
       LET b == Observed(bytes, chunk, n)
           ws == IF chunk = "reasoning" THEN Recorded(words, w) ELSE words
       IN
       /\ bytes' = b
       /\ IF OverBudget(b, MeterOf(chunk))
          THEN /\ at' = "closing" /\ why' = "failed" /\ UNCHANGED <<words, got>>
          ELSE /\ words' = ws /\ got' = Taken(chunk, v)
               /\ IF chunk = "reasoning" /\ Detected(ws)
                  THEN at' = "closing" /\ why' = AfterLoop
                  ELSE UNCHANGED <<at, why>>
  /\ finished' \in {finished, TRUE} /\ beat' = ~beat
  /\ UNCHANGED <<kind, streaming, post, repair, retried, open, active, inferences>>

StreamEnds ==
  /\ at = "stream"
  /\ at' = "closing" /\ why' \in {"end", "failed"}   \* [DONE], or the connection breaks
  /\ UNCHANGED <<kind, streaming, post, repair, retried, attempt, open, active,
                 inferences>>

\* The finally clause, and then the one retry of a loop.
Close ==
  /\ at = "closing"
  /\ open' = Closed(open)
  /\ IF why = "again"
     THEN Generate /\ retried' = TRUE
     ELSE /\ active' = FALSE /\ at' = (IF why = "end" THEN "decide" ELSE why)
          \* The meter and the detector are done with.
          /\ bytes' = NoBytes /\ words' = <<>> /\ beat' = FALSE
          /\ UNCHANGED <<post, retried, got, finished, inferences>>
  /\ UNCHANGED <<kind, streaming, why, repair>>

\* One inference without streaming: a stage run that way, or the recovery of
\* an empty stream, whose answer is not metered.
Answered ==
  /\ at = "recover" \/ (at = "connect" /\ ~streaming)
  /\ \E r \in {"ok", "optional", "bad", "busy", "down"} :
       CASE Response(r) = "ok" ->
              /\ \E c \in {0} \cup ChunkBytes, t \in {0} \cup ChunkBytes, cs \in SUBSET Verdicts :
                   LET m == [content |-> c > 0, reasoning |-> t > 0, calls |-> cs]
                       b == Metered(Metered(NoBytes, "output", c), "reasoning", t)
                       refused == IF streaming THEN Empty(m)
                                  ELSE OverBudget(b, "output") \/ OverBudget(b, "reasoning")
                   IN
                   /\ got' = m
                   /\ at' = IF refused THEN "failed" ELSE "decide"
              /\ finished' \in BOOLEAN /\ active' = FALSE /\ UNCHANGED post
         [] Response(r) = "failed" ->
              at' = "failed" /\ active' = FALSE /\ UNCHANGED <<post, got, finished>>
         [] OTHER -> post' = Response(r) /\ UNCHANGED <<at, got, finished, active>>
  /\ UNCHANGED <<kind, streaming, why, repair, retried, bytes, words, beat, open,
                 inferences>>

-----------------------------------------------------------------------------
(* The message is complete.                                                 *)

\* An empty stream is tried once more without streaming, but never for an
\* agentic turn.
Recover ==
  /\ at = "decide" /\ streaming /\ Empty(got)
  /\ IF Agentic
     THEN at' = "failed" /\ UNCHANGED <<post, active, inferences>>
     ELSE at' = "recover" /\ post' = "first" /\ active' = TRUE /\ inferences' = inferences + 1
  /\ UNCHANGED <<kind, streaming, why, repair, retried, attempt, open>>

Complete == at = "decide" /\ ~(streaming /\ Empty(got))
Unfinished == streaming /\ Agentic /\ ~finished

\* Mutant: without the schema check.
InvalidPaths == Governed /\ got.calls # {} /\ ~ToolsAllowed

Invalid == Governed /\ got.calls # {} /\ (~ToolsAllowed \/ "malformed" \in got.calls)
Interrupted == ~Invalid /\ "never" \in got.calls
Denied == "denied" \in got.calls /\ got.calls \ {"denied"} = {}
Rejected == Invalid \/ (~Interrupted /\ Denied)

\* Mutant: a repair does not count.
NotCounted(d) == d

Counted(d) == d + 1

\* The rejected calls are put into the history and the stage is run again;
\* the retry after a loop is available again.
Repair ==
  /\ Complete /\ ~Unfinished /\ Rejected /\ repair < MaxRepair
  /\ repair' = Counted(repair) /\ retried' = FALSE
  /\ Generate
  /\ UNCHANGED <<kind, streaming, why, open>>

GiveUp ==
  /\ Complete /\ (Unfinished \/ Interrupted \/ (Rejected /\ repair = MaxRepair))
  /\ at' = "failed"
  /\ UNCHANGED <<kind, streaming, post, why, repair, retried, attempt, open, active,
                 inferences>>

\* Denied calls are withheld, the others released with the result.
Deliver ==
  /\ Complete /\ ~Unfinished /\ ~Rejected /\ ~Interrupted
  /\ at' = "result"
  /\ got' = [got EXCEPT !.calls = @ \ {"denied"}]
  /\ UNCHANGED <<kind, streaming, post, why, repair, retried, bytes, words, finished, beat,
                 open, active, inferences>>

-----------------------------------------------------------------------------
(* The caller of a stream leaves.                                           *)

\* The run that holds the stream is a generator which the stage iterates: a
\* retry or a repair.
Nested == retried \/ repair > 0

\* Whether the caller's own end closes the generator it iterates: aclosing does
\* so for the stages of an agentic turn.
ClosedByCaller == Agentic

\* A cancellation, which arrives where the innermost run awaits and unwinds all
\* of them, or the caller closes the one run there is: finally clauses run.
CallerLeaves ==
  /\ streaming /\ at \in {"connect", "recover", "stream"}
  /\ at' = "closing" /\ why' = "left"
  /\ UNCHANGED <<kind, streaming, post, repair, retried, attempt, open, active,
                 inferences>>

\* The caller leaves at a yield.  Its end, or the end of the outermost run, is
\* not passed on to the run with the stream, which is dropped as it stands.
CallerDrops ==
  /\ streaming /\ at \in {"connect", "stream"}
  /\ Nested \/ ~ClosedByCaller
  /\ at' = "dropped"
  /\ UNCHANGED <<kind, streaming, post, why, repair, retried, attempt, open, active,
                 inferences>>

\* The request on its way is a task of its own: it may still open the stream.
LateConnect ==
  /\ at = "dropped" /\ open = 0
  /\ open' = 1
  /\ UNCHANGED <<kind, streaming, at, post, why, repair, retried, attempt, active,
                 inferences>>

\* asyncio's finalizer closes the dropped run, and with it one that was dropped
\* inside it; the flag went with the request's entry, or goes here.
Finalize ==
  /\ at = "dropped"
  /\ open' = Closed(open) /\ active' = FALSE /\ at' = "left"
  /\ bytes' = NoBytes /\ words' = <<>> /\ beat' = FALSE
  /\ UNCHANGED <<kind, streaming, post, why, repair, retried, got, finished, inferences>>

Caller == CallerLeaves \/ CallerDrops
Runner == Connect \/ Close \/ Answered \/ Recover \/ Repair \/ GiveUp \/ Deliver
Backend == Chunk \/ StreamEnds
Next == Runner \/ Backend \/ Caller \/ LateConnect \/ Finalize

\* The runner goes on, and the backend, once it streams, sends or ends; what was
\* dropped is finalized, for nothing refers to it any more.
Spec == Init /\ [][Next]_vars /\ WF_vars(Runner \/ Backend \/ Finalize)

-----------------------------------------------------------------------------
(* Properties.                                                              *)

\* A generation starts only after the last one was closed, and a run that ended,
\* was cancelled or was closed leaves neither a stream nor the tracker's flag.
\* Only a run nobody holds any more is left behind with its stream, never with
\* two, and of an agentic turn only a run inside another (_run_stage_streamed).
NothingLeftRunning ==
  /\ at = "stream" => open = 1
  /\ at \in {"connect", "recover", "decide"} => open = 0
  /\ at = "dropped" => open <= 1 /\ (Agentic => Nested)
  /\ at \in Over => open = 0 /\ ~active

\* "The backend stream is closed before this scope runs", says the comment on the
\* scope that rearms the checkpoint of a turn whose stream was left
\* (_agentic_phase3g_close_scope): once the caller has left its stage, no stream is open.
\* A retry or a repair breaks this: see README, Divergences.
ClosedBeforeScope == Agentic /\ at \in {"dropped"} \cup Over => open = 0

\* The three ways to start over do not feed each other: a stage costs at most
\* a stream, its retry and a recovery for each of its repairs.
StageIsBounded == inferences <= 3 * (MaxRepair + 1)

\* A result is never an empty message, an agentic one never an unfinished
\* generation, and its calls have passed every check: none that was denied,
\* and none at all if one of them may never be made.
ResultIsWhole ==
  at = "result" =>
    /\ streaming => ~Empty(got)
    /\ streaming /\ Agentic => finished
    /\ got.calls \subseteq IF Governed THEN {"fine"} ELSE {"fine", "malformed"}
    /\ ~ToolsAllowed => got.calls = {}

\* Also a backend that never ends its stream ends the stage, for whatever it
\* sends is metered; and a run that was dropped is closed in the end.
StageEnds == <>(at \in Over)
=============================================================================
