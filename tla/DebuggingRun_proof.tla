------------------------ MODULE DebuggingRun_proof ------------------------
(***************************************************************************)
(* Proofs about DebuggingRun, for any number of requests, runs, pauses and *)
(* passes, whatever is answered and whatever the disk does.                *)
(*                                                                         *)
(* The operations on a run and its report are looked at first, one lemma   *)
(* each: none loses or replaces cognition, none does anything to a frozen  *)
(* report but extend it.  The steps of the handlers are put together from  *)
(* them.                                                                   *)
(***************************************************************************)
EXTENDS DebuggingRun, SequenceTheorems, TLAPS

Disks == {"up", "down", "torn"}
Opened == [ok : BOOLEAN, m : RunState, f : ReportFile]

\* A summary is committed in its turn, the final report after the last.
Sound(m) ==
  /\ ~m.frozen => m.summaries = <<>>
  /\ Len(m.summaries) <= PassCount
  /\ m.final # None => Len(m.summaries) = PassCount

\* The report has what is committed.
Backed(m, f) ==
  m.summaries # <<>> =>
    /\ f.form = "passes" /\ f.turns = m.turns
    /\ f.passes = m.summaries /\ f.final = m.final

\* No cognition is lost from m to n.
Cognition(m, n) ==
  /\ \A k \in Passes :
       m.pending[k] # None /\ n.pending[k] # m.pending[k] =>
         k <= Len(n.summaries) /\ n.summaries[k] = m.pending[k]
  /\ Extends(n.summaries, m.summaries)
  /\ m.finalPending \notin {None, n.finalPending} => n.final = m.finalPending
  /\ m.final # None => n.final = m.final

\* From the freeze on the report only grows.
Grows(m, f, n, g) ==
  m.frozen =>
    /\ n.frozen
    /\ g.form = f.form /\ g.turns = f.turns /\ Extends(g.passes, f.passes)
    /\ f.final # None => g.final = f.final

\* What every operation does to a run and its report.
Advances(m, f, n, g) ==
  /\ Sound(n) /\ Cognition(m, n) /\ Grows(m, f, n, g)
  /\ Backed(m, f) => Backed(n, g)

\* What the operations of the intake do: nothing, once it is frozen.
Intaken(m, f, n, g) ==
  /\ n.pending = m.pending /\ n.finalPending = m.finalPending /\ n.final = m.final
  /\ m.frozen => n.frozen /\ n.summaries = m.summaries /\ n.turns = m.turns /\ g = f
  /\ ~m.frozen => n.summaries = <<>>

-----------------------------------------------------------------------------
(* Sequences and records.                                                  *)

(***************************************************************************)
(* A sequence extends itself.                                              *)
(***************************************************************************)
LEMMA ExtendsSelf ==
  ASSUME NEW S, NEW s \in Seq(S)
  PROVE  Extends(s, s)
BY SubSeqFull DEF Extends

(***************************************************************************)
(* A sequence with an element more extends it.                             *)
(***************************************************************************)
LEMMA ExtendsAppend ==
  ASSUME NEW S, NEW s \in Seq(S), NEW e \in S
  PROVE  Extends(Append(s, e), s)
<1>1. /\ Append(s, e) \in Seq(S) /\ Len(Append(s, e)) = Len(s) + 1
      /\ \A i \in 1..Len(s) : Append(s, e)[i] = s[i]
  BY AppendProperties
<1>2. Len(s) \in Nat
  OBVIOUS
<1> DEFINE t == SubSeq(Append(s, e), 1, Len(s))
<1>3. t \in Seq(S) /\ Len(t) = Len(s) /\ \A i \in 1..Len(s) : t[i] = s[i]
  BY <1>1, <1>2
<1>4. t = s
  BY <1>3, SeqEqual
<1> QED
  BY <1>1, <1>2, <1>4 DEF Extends

(***************************************************************************)
(* The first n of more elements, when there are just n.                    *)
(***************************************************************************)
LEMMA FirstOfAppend ==
  ASSUME NEW S, NEW s \in Seq(S), NEW e \in S
  PROVE  SubSeq(Append(s, e), 1, Len(s) + 1) = Append(s, e)
<1>1. Append(s, e) \in Seq(S) /\ Len(Append(s, e)) = Len(s) + 1
  BY AppendProperties
<1> QED
  BY <1>1, SubSeqFull

(***************************************************************************)
(* The fields of a run.                                                    *)
(***************************************************************************)
LEMMA RunFields ==
  ASSUME NEW m \in RunState
  PROVE  /\ m.live \in BOOLEAN /\ m.turns \in Nat /\ m.frozen \in BOOLEAN
         /\ m.summaries \in Seq(Summaries) /\ Len(m.summaries) \in Nat
         /\ m.pending \in [Passes -> Maybe]
         /\ m.finalPending \in Maybe /\ m.final \in Maybe /\ m.print \in Body \cup {NoBody}
BY DEF RunState

(***************************************************************************)
(* The fields of a report.                                                 *)
(***************************************************************************)
LEMMA FileFields ==
  ASSUME NEW f \in ReportFile
  PROVE  /\ f.form \in {"none", "intake", "passes", "foreign"} /\ f.turns \in Nat
         /\ f.passes \in Seq(Summaries) /\ f.final \in Maybe
BY DEF ReportFile

(***************************************************************************)
(* What the code writes and what may be found are reports.                 *)
(***************************************************************************)
LEMMA ReportTypes ==
  /\ \A form \in {"none", "intake", "passes", "foreign"} : Only(form) \in ReportFile
  /\ \A m \in RunState : OpenReport(m) \in ReportFile
  /\ \A m \in RunState, n \in Nat :
       n <= Len(m.summaries) => Through(m, n) \in ReportFile
<1>1. ASSUME NEW form \in {"none", "intake", "passes", "foreign"}
      PROVE  Only(form) \in ReportFile
  BY DEF Only, ReportFile, Maybe
<1>2. ASSUME NEW m \in RunState PROVE OpenReport(m) \in ReportFile
  BY <1>1, RunFields DEF OpenReport, Only, ReportFile, Maybe
<1>3. ASSUME NEW m \in RunState, NEW n \in Nat, n <= Len(m.summaries)
      PROVE  Through(m, n) \in ReportFile
  <2>1. SubSeq(m.summaries, 1, n) \in Seq(Summaries)
    BY <1>3, RunFields
  <2> QED
    BY <2>1, RunFields DEF Through, ReportFile, Maybe
<1> QED
  BY <1>1, <1>2, <1>3

-----------------------------------------------------------------------------
(* The intake.                                                             *)

(***************************************************************************)
(* What leaves the numbers of a run and its report alone advances it.      *)
(***************************************************************************)
LEMMA StillAdvances ==
  ASSUME NEW m \in RunState, NEW f \in ReportFile, NEW n \in RunState, Sound(m),
         n.frozen = m.frozen, n.turns = m.turns, n.summaries = m.summaries,
         n.final = m.final,
         \A k \in Passes : m.pending[k] # None => n.pending[k] = m.pending[k],
         m.finalPending # None => n.finalPending = m.finalPending
  PROVE  Advances(m, f, n, f)
<1>1. Extends(n.summaries, m.summaries) /\ Extends(f.passes, f.passes)
  BY ExtendsSelf, RunFields, FileFields
<1>2. Sound(n)
  BY DEF Sound
<1>3. Cognition(m, n)
  BY <1>1 DEF Cognition
<1>4. Grows(m, f, n, f)
  BY <1>1 DEF Grows
<1>5. Backed(m, f) => Backed(n, f)
  BY DEF Backed
<1> QED
  BY <1>2, <1>3, <1>4, <1>5 DEF Advances

(***************************************************************************)
(* The operations of the intake advance a run.                             *)
(***************************************************************************)
LEMMA IntakenAdvances ==
  ASSUME NEW m \in RunState, NEW f \in ReportFile, NEW n \in RunState, NEW g \in ReportFile,
         Sound(m), Intaken(m, f, n, g)
  PROVE  Advances(m, f, n, g)
<1>1. CASE m.frozen
  <2>1. n.frozen = m.frozen
    BY <1>1, RunFields DEF Intaken
  <2> QED
    BY <1>1, <2>1, StillAdvances DEF Intaken
<1>2. CASE ~m.frozen
  <2>1. m.summaries = <<>> /\ n.summaries = <<>> /\ m.final = None
    <3>1. Len(<<>>) = 0 /\ PassCount # 0
      BY DebuggingConstants
    <3> QED
      BY <1>2, <3>1 DEF Intaken, Sound
  <2>2. Sound(n)
    <3>1. Len(<<>>) = 0 /\ 0 <= PassCount
      BY DebuggingConstants
    <3> QED
      BY <2>1, <3>1 DEF Sound, Intaken
  <2>3. Cognition(m, n)
    <3>1. Extends(n.summaries, m.summaries)
      BY <2>1, ExtendsSelf, RunFields
    <3> QED
      BY <2>1, <3>1 DEF Cognition, Intaken
  <2> QED
    BY <1>2, <2>1, <2>2, <2>3 DEF Advances, Grows, Backed
<1> QED
  BY <1>1, <1>2, RunFields

(***************************************************************************)
(* One operation of the intake after another is one.                       *)
(***************************************************************************)
LEMMA IntakenTwice ==
  ASSUME NEW m \in RunState, NEW f, NEW n \in RunState, NEW g, NEW o \in RunState, NEW h,
         Intaken(m, f, n, g), Intaken(n, g, o, h)
  PROVE  Intaken(m, f, o, h)
<1>1. CASE m.frozen
  BY <1>1 DEF Intaken
<1>2. CASE ~m.frozen
  <2>1. CASE n.frozen
    BY <1>2, <2>1 DEF Intaken
  <2>2. CASE ~n.frozen
    BY <1>2, <2>2 DEF Intaken
  <2> QED
    BY <2>1, <2>2, RunFields
<1> QED
  BY <1>1, <1>2, RunFields

(***************************************************************************)
(* A turn is appended only to an open intake                               *)
(* (_debugging_append_intake_turn).                                        *)
(***************************************************************************)
LEMMA AppendTurnOf ==
  ASSUME NEW x \in Opened, NEW role \in {"user", "assistant"}, NEW disk \in Disks,
         Sound(x.m)
  PROVE  LET y == AppendTurn(x, role, disk) IN
         /\ y \in Opened /\ Intaken(x.m, x.f, y.m, y.f)
         /\ y.ok => ~x.m.frozen /\ ~y.m.frozen
<1> DEFINE y == AppendTurn(x, role, disk)
           m == IF role = "user" THEN [x.m EXCEPT !.turns = @ + 1] ELSE x.m
<1>0. x.m \in RunState /\ x.f \in ReportFile /\ x.ok \in BOOLEAN
  BY DEF Opened
<1>1. CASE x.m.frozen
  <2>1. y = [x EXCEPT !.ok = FALSE]
    BY <1>1 DEF AppendTurn, Raised
  <2>2. y \in Opened /\ y.m = x.m /\ y.f = x.f /\ y.ok = FALSE
    BY <2>1 DEF Opened
  <2> QED
    BY <1>1, <2>2 DEF Intaken
<1>2. CASE ~x.m.frozen
  <2>1. /\ m \in RunState /\ m.frozen = x.m.frozen /\ m.summaries = x.m.summaries
        /\ m.pending = x.m.pending /\ m.finalPending = x.m.finalPending /\ m.final = x.m.final
    <3>1. CASE role = "user"
      <4>1. x.m.turns + 1 \in Nat
        BY <1>0, RunFields
      <4> QED
        BY <1>0, <3>1, <4>1 DEF RunState
    <3>2. CASE role # "user"
      BY <1>0, <3>2
    <3> QED
      BY <3>1, <3>2
  <2> HIDE DEF m
  <2>2. y = WriteText([x EXCEPT !.m = m], OpenReport(m), disk)
    BY <1>2 DEF AppendTurn, m
  <2>3. OpenReport(m) \in ReportFile /\ Only("foreign") \in ReportFile
    BY <2>1, ReportTypes
  <2>4. y \in Opened /\ y.m = m
    <3>1. CASE disk = "up"
      BY <2>1, <2>2, <2>3, <3>1 DEF WriteText, Opened
    <3>2. CASE disk = "torn"
      BY <2>1, <2>2, <2>3, <3>2 DEF WriteText, Opened
    <3>3. CASE disk = "down"
      BY <2>1, <2>2, <2>3, <3>3 DEF WriteText, Opened
    <3> QED
      BY <3>1, <3>2, <3>3 DEF Disks
  <2> QED
    BY <1>2, <2>1, <2>4 DEF Intaken, Sound
<1> QED
  BY <1>0, <1>1, <1>2, RunFields

(***************************************************************************)
(* The intake is frozen once, and a freeze that succeeds has left Pass 0   *)
(* in the report (_debugging_freeze_intake).                               *)
(***************************************************************************)
LEMMA FreezeOf ==
  ASSUME NEW x \in Opened, NEW disk \in Disks, Sound(x.m)
  PROVE  LET y == Freeze(x, disk) IN
         /\ y \in Opened /\ Intaken(x.m, x.f, y.m, y.f)
         /\ y.ok => y.m.frozen
         /\ y.ok /\ ~x.m.frozen => y.f.form = "passes"
<1> DEFINE y == Freeze(x, disk)
           m == [x.m EXCEPT !.summaries = <<>>, !.frozen = TRUE]
           z == WriteText([x EXCEPT !.m = m], Through(m, 0), disk)
<1>0. x.m \in RunState /\ x.f \in ReportFile /\ x.ok \in BOOLEAN
  BY DEF Opened
<1>1. CASE x.m.frozen
  <2>1. y = x
    BY <1>1 DEF Freeze
  <2> QED
    BY <1>1, <2>1 DEF Intaken
<1>2. CASE ~x.m.frozen
  <2>1. /\ m \in RunState /\ m.frozen = TRUE /\ m.summaries = <<>>
        /\ m.pending = x.m.pending /\ m.finalPending = x.m.finalPending /\ m.final = x.m.final
    <3>1. <<>> \in Seq(Summaries) /\ TRUE \in BOOLEAN
      OBVIOUS
    <3>2. m \in RunState
      BY <1>0, <3>1 DEF RunState
    <3>3. m.frozen = TRUE /\ m.summaries = <<>>
      BY <1>0 DEF RunState
    <3> QED
      BY <1>0, <3>2, <3>3 DEF RunState
  <2> HIDE DEF m
  <2>2. Through(m, 0) \in ReportFile /\ Only("foreign") \in ReportFile
        /\ Through(m, 0).form = "passes"
    <3>1. 0 <= Len(m.summaries)
      BY <2>1
    <3> QED
      BY <2>1, <3>1, ReportTypes DEF Through
  <2>3. z \in Opened /\ z.m = m /\ (z.ok => z.f = Through(m, 0))
    <3>1. CASE disk = "up"
      BY <2>1, <2>2, <3>1 DEF WriteText, Opened
    <3>2. CASE disk = "torn"
      BY <2>1, <2>2, <3>2 DEF WriteText, Opened
    <3>3. CASE disk = "down"
      BY <2>1, <2>2, <3>3 DEF WriteText, Opened
    <3> QED
      BY <3>1, <3>2, <3>3 DEF Disks
  <2>4. y \in {z, [z EXCEPT !.ok = FALSE]}
    BY <1>2 DEF Freeze, Then, Validated, Raised, m, z
  <2> HIDE DEF z, y
  <2>5. y \in Opened /\ y.m = m /\ (y.ok => y.f = Through(m, 0))
    <3>1. CASE y = z
      BY <2>3, <3>1
    <3>2. CASE y = [z EXCEPT !.ok = FALSE]
      BY <2>3, <3>2 DEF Opened
    <3> QED
      BY <2>4, <3>1, <3>2
  <2>6. Intaken(x.m, x.f, y.m, y.f) /\ y.m.frozen /\ (y.ok => y.f.form = "passes")
    BY <1>2, <2>1, <2>2, <2>5 DEF Intaken
  <2> QED
    BY <2>5, <2>6 DEF y
<1> QED
  BY <1>0, <1>1, <1>2, RunFields

-----------------------------------------------------------------------------
(* The passes.                                                             *)

(***************************************************************************)
(* An operation after a change that loses nothing, such as what is pending *)
(* for the first time, or another fingerprint.                             *)
(***************************************************************************)
LEMMA StillThen ==
  ASSUME NEW m \in RunState, NEW f \in ReportFile, NEW o \in RunState,
         NEW n \in RunState, NEW g \in ReportFile,
         o.frozen = m.frozen, o.turns = m.turns, o.summaries = m.summaries,
         o.final = m.final,
         \A k \in Passes : m.pending[k] # None => o.pending[k] = m.pending[k],
         m.finalPending # None => o.finalPending = m.finalPending,
         Advances(o, f, n, g)
  PROVE  Advances(m, f, n, g)
<1>1. Cognition(o, n)
  BY DEF Advances
<1>2. ASSUME NEW k \in Passes, m.pending[k] # None, n.pending[k] # m.pending[k]
      PROVE  k <= Len(n.summaries) /\ n.summaries[k] = m.pending[k]
  BY <1>1, <1>2 DEF Cognition
<1>3. m.finalPending \notin {None, n.finalPending} => n.final = m.finalPending
  BY <1>1 DEF Cognition
<1>4. Cognition(m, n)
  BY <1>1, <1>2, <1>3 DEF Cognition
<1>5. Sound(n) /\ Grows(m, f, n, g) /\ (Backed(m, f) => Backed(n, g))
  BY DEF Advances, Grows, Backed
<1> QED
  BY <1>4, <1>5 DEF Advances

\* What an operation on pass n does.
PassDone(x, y, n) ==
  /\ y \in Opened /\ Advances(x.m, x.f, y.m, y.f)
  /\ y.ok => n <= Len(y.m.summaries)

(***************************************************************************)
(* An operation that raises changes nothing.                               *)
(***************************************************************************)
LEMMA RaisedOf ==
  ASSUME NEW x \in Opened, Sound(x.m)
  PROVE  /\ Raised(x) \in Opened /\ Raised(x).ok = FALSE
         /\ Advances(x.m, x.f, Raised(x).m, Raised(x).f)
<1>1. Raised(x) \in Opened /\ Raised(x).ok = FALSE /\ Raised(x).m = x.m /\ Raised(x).f = x.f
  BY DEF Raised, Opened
<1>2. x.m \in RunState /\ x.f \in ReportFile
  BY DEF Opened
<1> QED
  BY <1>1, <1>2, StillAdvances

(***************************************************************************)
(* What is committed already is no longer pending.                         *)
(***************************************************************************)
LEMMA SettledOf ==
  ASSUME NEW x \in Opened, NEW n \in Passes, Sound(x.m),
         n <= Len(x.m.summaries), ~Conflict(x, n)
  PROVE  PassDone(x, Settled(x, n), n)
<1> DEFINE m == [x.m EXCEPT !.pending[n] = None]
           y == Settled(x, n)
<1>0. x.m \in RunState /\ x.f \in ReportFile /\ x.ok \in BOOLEAN
  BY DEF Opened
<1>1. /\ m \in RunState /\ m.frozen = x.m.frozen /\ m.turns = x.m.turns
      /\ m.summaries = x.m.summaries /\ m.final = x.m.final
      /\ m.finalPending = x.m.finalPending
      /\ m.pending = [x.m.pending EXCEPT ![n] = None]
  <2>1. [x.m.pending EXCEPT ![n] = None] \in [Passes -> Maybe]
    BY <1>0, RunFields DEF Maybe
  <2> QED
    BY <1>0, <2>1 DEF RunState
<1>2. y \in Opened /\ y.m = m /\ y.f = x.f
  <2>1. y = [x EXCEPT !.m = m]
    BY DEF Settled, Opened
  <2> HIDE DEF m, y
  <2> QED
    BY <1>1, <2>1 DEF Opened
<1> HIDE DEF m, y
<1>3. Cognition(x.m, m)
  <2>1. ASSUME NEW k \in Passes, x.m.pending[k] # None, m.pending[k] # x.m.pending[k]
        PROVE  k <= Len(m.summaries) /\ m.summaries[k] = x.m.pending[k]
    <3>1. k = n
      BY <1>0, <1>1, <2>1, RunFields
    <3> QED
      BY <1>1, <2>1, <3>1 DEF Conflict
  <2>2. Extends(m.summaries, x.m.summaries)
    BY <1>0, <1>1, ExtendsSelf, RunFields
  <2> QED
    BY <1>1, <2>1, <2>2 DEF Cognition
<1>4. Sound(m) /\ (Backed(x.m, x.f) => Backed(m, x.f))
  BY <1>1 DEF Sound, Backed
<1>5. Grows(x.m, x.f, m, x.f)
  BY <1>0, <1>1, ExtendsSelf, FileFields DEF Grows
<1> QED
  BY <1>1, <1>2, <1>3, <1>4, <1>5 DEF PassDone, Advances, y

(***************************************************************************)
(* A pending summary is committed behind the others, in the report and in  *)
(* memory, or stays pending (_debugging_atomic_replace_report).            *)
(***************************************************************************)
LEMMA PersistOf ==
  ASSUME NEW x \in Opened, NEW n \in Passes, NEW disk \in Disks, Sound(x.m),
         n = Len(x.m.summaries) + 1, x.m.pending[n] # None, x.m.frozen,
         x.f = Through(x.m, n - 1)
  PROVE  PassDone(x, Persist(x, n, disk), n)
<1> DEFINE s == Append(x.m.summaries, x.m.pending[n])
           m == [x.m EXCEPT !.summaries = s, !.pending[n] = None]
           y == Persist(x, n, disk)
           z == [x EXCEPT !.m = m, !.f = Through(m, n)]
<1>0. /\ x.m \in RunState /\ x.f \in ReportFile /\ x.ok \in BOOLEAN
      /\ x.m.summaries \in Seq(Summaries) /\ Len(x.m.summaries) \in Nat /\ n \in Nat
      /\ x.m.pending \in [Passes -> Maybe] /\ x.m.pending[n] \in Summaries
  <2>1. x.m \in RunState /\ x.f \in ReportFile /\ x.ok \in BOOLEAN /\ n \in Nat
    BY DEF Opened, Passes
  <2>2. /\ x.m.summaries \in Seq(Summaries) /\ Len(x.m.summaries) \in Nat
        /\ x.m.pending \in [Passes -> Maybe]
    BY <2>1, RunFields
  <2>3. x.m.pending[n] \in Summaries
    BY <2>2 DEF Maybe
  <2> QED
    BY <2>1, <2>2, <2>3
<1>1. SubSeq(x.m.summaries, 1, n - 1) = x.m.summaries
  <2>1. n - 1 = Len(x.m.summaries)
    BY <1>0
  <2> QED
    BY <1>0, <2>1, SubSeqFull
<1>2. /\ s \in Seq(Summaries) /\ Len(s) = n /\ Extends(s, x.m.summaries)
      /\ s[n] = x.m.pending[n] /\ SubSeq(s, 1, n) = s /\ s # <<>>
  BY <1>0, AppendProperties, ExtendsAppend, FirstOfAppend
<1> HIDE DEF s
<1>3. /\ m \in RunState /\ m.frozen = x.m.frozen /\ m.turns = x.m.turns
      /\ m.summaries = s /\ m.final = x.m.final /\ m.finalPending = x.m.finalPending
      /\ m.pending = [x.m.pending EXCEPT ![n] = None]
  <2>1. [x.m.pending EXCEPT ![n] = None] \in [Passes -> Maybe]
    BY <1>0 DEF Maybe
  <2> QED
    BY <1>0, <1>2, <2>1 DEF RunState
<1>4. m = [x.m EXCEPT !.summaries = Append(SubSeq(@, 1, n - 1), x.m.pending[n]),
                      !.pending[n] = None]
  BY <1>1 DEF s
<1>5. y \in {Raised(x), z, Raised(z)}
  BY <1>4 DEF Persist, Validated, Raised
<1> HIDE DEF m, y
<1>6. PassCount \in Nat /\ x.m.final = None
  <2>1. Len(x.m.summaries) # PassCount
    BY <1>0, DebuggingConstants DEF Passes
  <2> QED
    BY <2>1, DebuggingConstants DEF Sound
<1>7. /\ Through(m, n).form = "passes" /\ Through(m, n).turns = x.m.turns
      /\ Through(m, n).passes = s /\ Through(m, n).final = None
      /\ Through(m, n) \in ReportFile
  <2>1. n <= Len(m.summaries)
    BY <1>0, <1>2, <1>3
  <2> QED
    BY <1>0, <1>2, <1>3, <2>1, ReportTypes DEF Through
<1>8. x.f.form = "passes" /\ x.f.turns = x.m.turns /\ x.f.passes = x.m.summaries
      /\ x.f.final = None
  BY <1>1 DEF Through
<1> DEFINE g == Through(m, n)
<1> HIDE DEF g
<1>9. Advances(x.m, x.f, m, g)
  <2>1. ASSUME NEW k \in Passes, x.m.pending[k] # None, m.pending[k] # x.m.pending[k]
        PROVE  k <= Len(m.summaries) /\ m.summaries[k] = x.m.pending[k]
    <3>1. k = n
      BY <1>0, <1>3, <2>1
    <3> QED
      BY <1>0, <1>2, <1>3, <3>1
  <2>2. Cognition(x.m, m)
    BY <1>2, <1>3, <2>1 DEF Cognition
  <2>3. Sound(m)
    BY <1>0, <1>2, <1>3, <1>6 DEF Sound, Passes
  <2>4. Grows(x.m, x.f, m, g)
    BY <1>2, <1>3, <1>7, <1>8 DEF Grows, g
  <2>5. Backed(m, g)
    BY <1>3, <1>6, <1>7 DEF Backed, g
  <2> QED
    BY <2>2, <2>3, <2>4, <2>5 DEF Advances
<1>10. z \in Opened /\ z.m = m /\ z.f = g
  BY <1>3, <1>7 DEF Opened, g
<1>11. Raised(z) \in Opened /\ Raised(z).m = m /\ Raised(z).f = g /\ Raised(z).ok = FALSE
  <2> HIDE DEF z
  <2> QED
    BY <1>10 DEF Raised, Opened
<1>12. n <= Len(m.summaries)
  BY <1>0, <1>2, <1>3
<1> HIDE DEF z
<1>13. CASE y = Raised(x)
  BY <1>13, RaisedOf DEF PassDone, y
<1>14. CASE y = z
  BY <1>9, <1>10, <1>12, <1>14 DEF PassDone, y
<1>15. CASE y = Raised(z)
  BY <1>9, <1>11, <1>12, <1>15 DEF PassDone, y
<1> QED
  BY <1>5, <1>13, <1>14, <1>15

(***************************************************************************)
(* A retry of a pass (_debugging_retry_pending_pass_summary).              *)
(***************************************************************************)
LEMMA RetryPassOf ==
  ASSUME NEW x \in Opened, NEW n \in Passes, NEW disk \in Disks, Sound(x.m)
  PROVE  PassDone(x, RetryPass(x, n, disk), n)
<1> DEFINE y == RetryPass(x, n, disk)
<1>0. x.m \in RunState /\ Len(x.m.summaries) \in Nat /\ n \in Nat
  BY RunFields DEF Opened, Passes
<1>1. CASE y = Raised(x)
  BY <1>1, RaisedOf DEF PassDone
<1>2. CASE Valid(x, n - 1) /\ n <= Len(x.m.summaries) /\ ~Conflict(x, n)
  <2>1. y = Settled(x, n)
    BY <1>2 DEF RetryPass
  <2> QED
    BY <1>2, <2>1, SettledOf
<1>3. CASE Valid(x, n - 1) /\ ~(n <= Len(x.m.summaries)) /\ x.m.pending[n] # None
  <2>1. y = Persist(x, n, disk)
    BY <1>3 DEF RetryPass
  <2>2. n = Len(x.m.summaries) + 1 /\ x.m.frozen /\ x.f = Through(x.m, n - 1)
    BY <1>0, <1>3 DEF Valid
  <2> QED
    BY <1>3, <2>1, <2>2, PersistOf
<1> QED
  BY <1>1, <1>2, <1>3 DEF RetryPass

(***************************************************************************)
(* An answer of a pass is pending before it is written, and never takes    *)
(* the place of another (_debugging_commit_pass_summary).                  *)
(***************************************************************************)
LEMMA CommitPassOf ==
  ASSUME NEW x \in Opened, NEW n \in Passes, NEW s \in Summaries, NEW disk \in Disks,
         Sound(x.m)
  PROVE  PassDone(x, CommitPass(x, n, s, disk), n)
<1> DEFINE y == CommitPass(x, n, s, disk)
           m == [x.m EXCEPT !.pending[n] = s]
           z == [x EXCEPT !.m = m]
<1>0. x.m \in RunState /\ x.f \in ReportFile
  BY DEF Opened
<1>1. CASE y = Raised(x)
  BY <1>1, RaisedOf DEF PassDone
<1>2. CASE n <= Len(x.m.summaries) /\ ~Conflict(x, n) /\ y = Settled(x, n)
  BY <1>2, SettledOf
<1>3. CASE x.m.pending[n] \in {None, s} /\ y = RetryPass([x EXCEPT !.m.pending[n] = s], n, disk)
  <2>1. /\ m \in RunState /\ m.frozen = x.m.frozen /\ m.turns = x.m.turns
        /\ m.summaries = x.m.summaries /\ m.final = x.m.final
        /\ m.finalPending = x.m.finalPending
        /\ m.pending = [x.m.pending EXCEPT ![n] = s]
    <3>1. [x.m.pending EXCEPT ![n] = s] \in [Passes -> Maybe]
      BY <1>0, RunFields DEF Maybe
    <3> QED
      BY <1>0, <3>1 DEF RunState
  <2>2. y = RetryPass(z, n, disk)
    BY <1>3
  <2> HIDE DEF m, y
  <2>3. z \in Opened /\ z.m = m /\ z.f = x.f
    BY <2>1 DEF Opened
  <2> HIDE DEF z
  <2>4. PassDone(z, y, n)
    <3>1. Sound(z.m)
      BY <2>1, <2>3 DEF Sound
    <3> QED
      BY <2>2, <2>3, <3>1, RetryPassOf
  <2>5. ASSUME NEW k \in Passes, x.m.pending[k] # None PROVE m.pending[k] = x.m.pending[k]
    BY <1>0, <1>3, <2>1, <2>5, RunFields
  <2>6. y \in Opened /\ y.m \in RunState /\ y.f \in ReportFile /\ Advances(m, x.f, y.m, y.f)
    BY <2>3, <2>4 DEF PassDone, Opened
  <2>7. Advances(x.m, x.f, y.m, y.f)
    BY <1>0, <2>1, <2>5, <2>6, StillThen
  <2> QED
    BY <2>4, <2>6, <2>7 DEF PassDone, y
<1>4. \/ y = Raised(x)
      \/ n <= Len(x.m.summaries) /\ ~Conflict(x, n) /\ y = Settled(x, n)
      \/ x.m.pending[n] \in {None, s} /\ y = RetryPass([x EXCEPT !.m.pending[n] = s], n, disk)
  BY DEF CommitPass
<1> QED
  BY <1>1, <1>2, <1>3, <1>4

-----------------------------------------------------------------------------
(* The final report.                                                       *)

(***************************************************************************)
(* A pending final report is appended to a report that has every summary,  *)
(* once (_debugging_retry_pending_final_report).                           *)
(***************************************************************************)
LEMMA RetryFinalOf ==
  ASSUME NEW x \in Opened, NEW disk \in Disks, Sound(x.m)
  PROVE  LET y == RetryFinal(x, disk)
         IN  y \in Opened /\ Advances(x.m, x.f, y.m, y.f)
<1> DEFINE y == RetryFinal(x, disk)
           s == x.m.finalPending
<1>0. /\ x.m \in RunState /\ x.f \in ReportFile /\ s \in Maybe /\ None \in Maybe
      /\ x.m.summaries \in Seq(Summaries) /\ Len(x.m.summaries) \in Nat
      /\ x.f.passes \in Seq(Summaries) /\ PassCount \in Nat \ {0}
  BY RunFields, FileFields, DebuggingConstants DEF Opened, Maybe
<1>1. CASE y = Raised(x)
  BY <1>1, RaisedOf
<1>2. CASE x.m.final # None /\ s \in {None, x.m.final} /\ y = [x EXCEPT !.m.finalPending = None]
  <2> DEFINE m == [x.m EXCEPT !.finalPending = None]
  <2>1. /\ m \in RunState /\ m.frozen = x.m.frozen /\ m.turns = x.m.turns
        /\ m.summaries = x.m.summaries /\ m.final = x.m.final /\ m.pending = x.m.pending
        /\ m.finalPending = None
    BY <1>0 DEF RunState
  <2>2. y = [x EXCEPT !.m = m]
    BY <1>2
  <2> HIDE DEF m, y
  <2>3. y \in Opened /\ y.m = m /\ y.f = x.f
    BY <2>1, <2>2 DEF Opened
  <2>4. Cognition(x.m, m)
    BY <1>0, <1>2, <2>1, ExtendsSelf DEF Cognition
  <2>5. Sound(m) /\ Grows(x.m, x.f, m, x.f) /\ (Backed(x.m, x.f) => Backed(m, x.f))
    BY <1>0, <2>1, ExtendsSelf DEF Sound, Grows, Backed
  <2> QED
    BY <2>3, <2>4, <2>5 DEF Advances, y
<1>3. CASE /\ Valid(x, PassCount) /\ x.m.final = None /\ s # None
           /\ y = [x EXCEPT !.m.final = s, !.m.finalPending = None, !.f.final = s]
  <2> DEFINE m == [x.m EXCEPT !.final = s, !.finalPending = None]
             g == [x.f EXCEPT !.final = s]
  <2>1. /\ m \in RunState /\ m.frozen = x.m.frozen /\ m.turns = x.m.turns
        /\ m.summaries = x.m.summaries /\ m.final = s /\ m.pending = x.m.pending
        /\ m.finalPending = None
    BY <1>0 DEF RunState
  <2>2. /\ g \in ReportFile /\ g.form = x.f.form /\ g.turns = x.f.turns
        /\ g.passes = x.f.passes /\ g.final = s
    BY <1>0 DEF ReportFile
  <2>3. y = [x EXCEPT !.m = m, !.f = g]
    BY <1>3
  <2> HIDE DEF m, g, y
  <2>4. y \in Opened /\ y.m = m /\ y.f = g
    BY <2>1, <2>2, <2>3 DEF Opened
  <2>5. Len(x.m.summaries) = PassCount
    BY <1>0, <1>3 DEF Valid, Sound
  <2>6. /\ x.f.form = "passes" /\ x.f.turns = x.m.turns /\ x.f.passes = x.m.summaries
        /\ x.f.final = None
    <3>1. SubSeq(x.m.summaries, 1, PassCount) = x.m.summaries
      BY <1>0, <2>5, SubSeqFull
    <3> QED
      BY <1>3, <3>1 DEF Valid, Through
  <2>7. Cognition(x.m, m)
    BY <1>0, <1>3, <2>1, ExtendsSelf DEF Cognition
  <2>8. Sound(m)
    BY <2>1, <2>5 DEF Sound
  <2>9. Grows(x.m, x.f, m, g)
    BY <1>0, <2>1, <2>2, <2>6, ExtendsSelf DEF Grows
  <2>10. Backed(m, g)
    BY <2>1, <2>2, <2>6 DEF Backed
  <2> QED
    BY <2>4, <2>7, <2>8, <2>9, <2>10 DEF Advances, y
<1> QED
  BY <1>1, <1>2, <1>3 DEF RetryFinal

(***************************************************************************)
(* The answer of the final stage (_debugging_commit_final_report).         *)
(***************************************************************************)
LEMMA CommitFinalOf ==
  ASSUME NEW x \in Opened, NEW s \in Summaries, NEW disk \in Disks, Sound(x.m)
  PROVE  LET y == CommitFinal(x, s, disk)
         IN  y \in Opened /\ Advances(x.m, x.f, y.m, y.f)
<1> DEFINE y == CommitFinal(x, s, disk)
<1>0. x.m \in RunState /\ x.f \in ReportFile
  BY DEF Opened
<1>1. CASE y = Raised(x)
  BY <1>1, RaisedOf
<1>2. CASE /\ x.m.finalPending \in {None, s} /\ x.m.final = s
           /\ y = [x EXCEPT !.m.finalPending = None]
  <2> DEFINE m == [x.m EXCEPT !.finalPending = None]
  <2>1. /\ m \in RunState /\ m.frozen = x.m.frozen /\ m.turns = x.m.turns
        /\ m.summaries = x.m.summaries /\ m.final = x.m.final /\ m.pending = x.m.pending
        /\ m.finalPending = None
    BY <1>0 DEF RunState, Maybe
  <2>2. y = [x EXCEPT !.m = m]
    BY <1>2
  <2> HIDE DEF m, y
  <2>3. y \in Opened /\ y.m = m /\ y.f = x.f
    BY <2>1, <2>2 DEF Opened
  <2>4. Cognition(x.m, m)
    BY <1>0, <1>2, <2>1, ExtendsSelf, RunFields DEF Cognition
  <2>5. Sound(m) /\ Grows(x.m, x.f, m, x.f) /\ (Backed(x.m, x.f) => Backed(m, x.f))
    BY <1>0, <2>1, ExtendsSelf, FileFields DEF Sound, Grows, Backed
  <2> QED
    BY <2>3, <2>4, <2>5 DEF Advances, y
<1>3. CASE /\ x.m.finalPending \in {None, s}
           /\ y = RetryFinal([x EXCEPT !.m.finalPending = s], disk)
  <2> DEFINE m == [x.m EXCEPT !.finalPending = s]
             z == [x EXCEPT !.m = m]
  <2>1. /\ m \in RunState /\ m.frozen = x.m.frozen /\ m.turns = x.m.turns
        /\ m.summaries = x.m.summaries /\ m.final = x.m.final /\ m.pending = x.m.pending
        /\ m.finalPending = s
    BY <1>0 DEF RunState, Maybe
  <2>2. y = RetryFinal(z, disk)
    BY <1>3
  <2> HIDE DEF m, y
  <2>3. z \in Opened /\ z.m = m /\ z.f = x.f
    BY <2>1 DEF Opened
  <2> HIDE DEF z
  <2>4. Sound(z.m)
    BY <2>1, <2>3 DEF Sound
  <2>5. y \in Opened /\ Advances(m, x.f, y.m, y.f)
    BY <2>2, <2>3, <2>4, RetryFinalOf
  <2>6. y.m \in RunState /\ y.f \in ReportFile
    BY <2>5 DEF Opened
  <2>7. Advances(x.m, x.f, y.m, y.f)
    BY <1>0, <1>3, <2>1, <2>5, <2>6, StillThen
  <2> QED
    BY <2>5, <2>7 DEF y
<1>4. \/ y = Raised(x)
      \/ /\ x.m.finalPending \in {None, s} /\ x.m.final = s
         /\ y = [x EXCEPT !.m.finalPending = None]
      \/ /\ x.m.finalPending \in {None, s}
         /\ y = RetryFinal([x EXCEPT !.m.finalPending = s], disk)
  BY DEF CommitFinal
<1> QED
  BY <1>1, <1>2, <1>3, <1>4

-----------------------------------------------------------------------------
(* The pauses.                                                             *)

Used(ps, p) == ps[p].state # "unused"

\* The pauses are used one after another, and each belongs to a run.
PauseInv(ps) ==
  /\ \E k \in 0..MaxPauses : \A p \in Pauses : Used(ps, p) <=> p <= k
  /\ \A p \in Pauses : Used(ps, p) =>
       /\ ps[p].run \in RunIds
       /\ ps[p].kind # "intake" => ps[p].pass \in Passes

\* What a pause is for never changes.
Continues(ps, qs) ==
  \A p \in Pauses : Used(ps, p) =>
    /\ Used(qs, p)
    /\ qs[p].run = ps[p].run /\ qs[p].kind = ps[p].kind /\ qs[p].pass = ps[p].pass

\* No pause more is used.
SameUse(ps, qs) ==
  \A p \in Pauses :
    /\ Used(ps, p) <=> Used(qs, p)
    /\ qs[p].run = ps[p].run /\ qs[p].kind = ps[p].kind /\ qs[p].pass = ps[p].pass

(***************************************************************************)
(* The fields of a pause.                                                  *)
(***************************************************************************)
LEMMA PauseFields ==
  ASSUME NEW ps \in [Pauses -> Pause], NEW p \in Pauses
  PROVE  /\ ps[p].state \in {"unused", "live", "retired", "expired"}
         /\ ps[p].kind \in {"intake", "question", "tool"}
         /\ ps[p].run \in 0..MaxRuns /\ ps[p].pass \in 0..PassCount
         /\ ps[p].text \in Texts \cup {None} /\ ps[p].inFlight \in BOOLEAN
BY DEF Pause

(***************************************************************************)
(* Where no pause more is used, the pauses stay in order.                  *)
(***************************************************************************)
LEMMA SameUseOf ==
  ASSUME NEW ps, NEW qs, SameUse(ps, qs)
  PROVE  Continues(ps, qs) /\ (PauseInv(ps) => PauseInv(qs))
<1>1. Continues(ps, qs)
  BY DEF SameUse, Continues
<1>2. ASSUME PauseInv(ps) PROVE PauseInv(qs)
  <2>1. PICK k \in 0..MaxPauses : \A p \in Pauses : Used(ps, p) <=> p <= k
    BY <1>2 DEF PauseInv
  <2>2. \A p \in Pauses : Used(qs, p) <=> p <= k
    BY <2>1 DEF SameUse
  <2>3. ASSUME NEW p \in Pauses, Used(qs, p)
        PROVE  qs[p].run \in RunIds /\ (qs[p].kind # "intake" => qs[p].pass \in Passes)
    BY <1>2, <2>3 DEF PauseInv, SameUse
  <2> QED
    BY <2>2, <2>3 DEF PauseInv
<1> QED
  BY <1>1, <1>2

(***************************************************************************)
(* Two steps in which no pause more is used.                               *)
(***************************************************************************)
LEMMA SameUseTwice ==
  ASSUME NEW ps, NEW qs, NEW rs, SameUse(ps, qs), SameUse(qs, rs)
  PROVE  SameUse(ps, rs)
BY DEF SameUse

(***************************************************************************)
(* Taking a pause leaves what the pauses are for.                          *)
(***************************************************************************)
LEMMA ClaimedOf ==
  ASSUME NEW ps \in [Pauses -> Pause], NEW p \in Pauses
  PROVE  LET qs == [ps EXCEPT ![p].inFlight = TRUE] IN
         /\ qs \in [Pauses -> Pause] /\ SameUse(ps, qs)
         /\ \A q \in Pauses : qs[q].state = ps[q].state
<1> DEFINE c == [ps[p] EXCEPT !.inFlight = TRUE]
           qs == [ps EXCEPT ![p] = c]
<1>1. /\ c \in Pause /\ c.state = ps[p].state /\ c.run = ps[p].run /\ c.kind = ps[p].kind
      /\ c.pass = ps[p].pass
  BY DEF Pause
<1> HIDE DEF c
<1>2. qs \in [Pauses -> Pause] /\ \A q \in Pauses : qs[q] = IF q = p THEN c ELSE ps[q]
  BY <1>1
<1>3. SameUse(ps, qs) /\ \A q \in Pauses : qs[q].state = ps[q].state
  BY <1>1, <1>2 DEF SameUse, Used
<1>4. qs = [ps EXCEPT ![p].inFlight = TRUE]
  BY DEF c
<1> HIDE DEF qs
<1> QED
  BY <1>2, <1>3, <1>4

(***************************************************************************)
(* Giving back the pauses of a request that is over leaves what they are   *)
(* for.                                                                    *)
(***************************************************************************)
LEMMA RearmedOf ==
  ASSUME NEW ps \in [Pauses -> Pause], NEW q
  PROVE  /\ Rearmed(ps, q) \in [Pauses -> Pause] /\ SameUse(ps, Rearmed(ps, q))
         /\ \A p \in Pauses : Rearmed(ps, q)[p].state = ps[p].state
<1> DEFINE c(p) == [ps[p] EXCEPT !.inFlight = FALSE]
           rs == Rearmed(ps, q)
<1>1. ASSUME NEW p \in Pauses
      PROVE  /\ c(p) \in Pause /\ c(p).state = ps[p].state /\ c(p).run = ps[p].run
             /\ c(p).kind = ps[p].kind /\ c(p).pass = ps[p].pass
  BY DEF Pause
<1>2. rs = [p \in Pauses |-> rs[p]] /\ \A p \in Pauses : rs[p] \in {ps[p], c(p)}
  BY DEF Rearmed
<1> HIDE DEF c, rs
<1>3. ASSUME NEW p \in Pauses
      PROVE  /\ rs[p] \in Pause /\ rs[p].state = ps[p].state /\ rs[p].run = ps[p].run
             /\ rs[p].kind = ps[p].kind /\ rs[p].pass = ps[p].pass
  <2>1. CASE rs[p] = ps[p]
    BY <2>1
  <2>2. CASE rs[p] = c(p)
    BY <1>1, <2>2
  <2> QED
    BY <1>2, <2>1, <2>2
<1>4. rs \in [Pauses -> Pause] /\ SameUse(ps, rs) /\ \A p \in Pauses : rs[p].state = ps[p].state
  BY <1>2, <1>3 DEF SameUse, Used
<1> QED
  BY <1>4 DEF rs

(***************************************************************************)
(* Retiring a pause retires none but it.                                   *)
(***************************************************************************)
LEMMA RetiredOf ==
  ASSUME NEW ps \in [Pauses -> Pause], NEW p \in 0..MaxPauses
  PROVE  /\ Retired(ps, p) \in [Pauses -> Pause] /\ SameUse(ps, Retired(ps, p))
         /\ \A q \in Pauses : Retired(ps, p)[q].state = "retired" =>
              ps[q].state = "retired" \/ q = p
<1>1. CASE p = 0
  <2>1. Retired(ps, p) = ps
    BY <1>1 DEF Retired
  <2> QED
    BY <2>1 DEF SameUse
<1>2. CASE p # 0
  <2> DEFINE c == [ps[p] EXCEPT !.state = IF @ = "live" THEN "retired" ELSE @,
                                !.inFlight = FALSE]
             qs == [ps EXCEPT ![p] = c]
  <2>0. p \in Pauses
    BY <1>2 DEF Pauses
  <2>1. /\ c \in Pause /\ c.run = ps[p].run /\ c.kind = ps[p].kind /\ c.pass = ps[p].pass
        /\ c.state = (IF ps[p].state = "live" THEN "retired" ELSE ps[p].state)
    <3>1. (IF ps[p].state = "live" THEN "retired" ELSE ps[p].state)
            \in {"unused", "live", "retired", "expired"}
      BY <2>0, PauseFields
    <3> QED
      BY <2>0, <3>1 DEF Pause
  <2>2. Retired(ps, p) = qs
    BY <1>2 DEF Retired
  <2> HIDE DEF c
  <2>3. qs \in [Pauses -> Pause] /\ \A q \in Pauses : qs[q] = IF q = p THEN c ELSE ps[q]
    BY <2>0, <2>1
  <2> HIDE DEF qs
  <2>4. Used(ps, p) <=> c.state # "unused"
    BY <2>1 DEF Used
  <2>5. SameUse(ps, qs)
    BY <2>1, <2>3, <2>4 DEF SameUse, Used
  <2> QED
    BY <2>2, <2>3, <2>5
<1> QED
  BY <1>1, <1>2

(***************************************************************************)
(* A pause is registered at the next place.                                *)
(***************************************************************************)
LEMMA RegisteredOf ==
  ASSUME pauses \in [Pauses -> Pause], PauseInv(pauses), CanPause,
         NEW kind \in {"intake", "question", "tool"}, NEW R \in RunIds,
         NEW n \in 0..PassCount, NEW text \in Texts \cup {None},
         kind # "intake" => n \in Passes
  PROVE  LET qs == Registered(pauses, kind, R, n, text) IN
         /\ qs \in [Pauses -> Pause] /\ PauseInv(qs) /\ Continues(pauses, qs)
         /\ NewPause \in Pauses /\ Used(qs, NewPause) /\ qs[NewPause].run = R
         /\ \A p \in Pauses : Used(pauses, p) => p < NewPause
         /\ \A p \in Pauses : qs[p].state = "retired" => pauses[p].state = "retired"
<1>1. PICK k \in 0..MaxPauses : \A p \in Pauses : Used(pauses, p) <=> p <= k
  BY DEF PauseInv
<1>2. MaxPauses \in Nat
  BY DebuggingConstants
<1>3. k + 1 \in Pauses
  <2>1. PICK p \in Pauses : ~(p <= k)
    BY <1>1 DEF CanPause, Used
  <2> QED
    BY <1>2, <2>1 DEF Pauses
<1>4. NewPause \in Pauses /\ ~Used(pauses, NewPause)
      /\ \A q \in 1..(NewPause - 1) : Used(pauses, q)
  <2> DEFINE P(p) == pauses[p].state = "unused" /\ \A q \in 1..(p - 1) : pauses[q].state # "unused"
  <2>1. P(k + 1)
    BY <1>1, <1>2, <1>3 DEF Used, Pauses
  <2>2. \E p \in Pauses : P(p)
    BY <1>3, <2>1
  <2>3. NewPause = CHOOSE p \in Pauses : P(p)
    BY DEF NewPause
  <2> HIDE DEF P
  <2>4. NewPause \in Pauses /\ P(NewPause)
    BY <2>2, <2>3, Zenon
  <2> QED
    BY <2>4 DEF P, Used
<1>5. NewPause = k + 1
  BY <1>1, <1>2, <1>3, <1>4 DEF Pauses
<1> DEFINE e == [state |-> "live", kind |-> kind, run |-> R, pass |-> n,
                 text |-> text, inFlight |-> FALSE]
           qs == [pauses EXCEPT ![NewPause] = e]
<1>6. e \in Pause /\ e.state = "live" /\ e.kind = kind /\ e.run = R /\ e.pass = n
  BY DebuggingConstants DEF Pause, RunIds
<1> HIDE DEF e
<1>7. qs \in [Pauses -> Pause] /\ \A p \in Pauses : qs[p] = IF p = NewPause THEN e ELSE pauses[p]
  BY <1>4, <1>6
<1>8. qs = Registered(pauses, kind, R, n, text)
  BY DEF Registered, e
<1> HIDE DEF qs, NewPause
<1>9. \A p \in Pauses : Used(qs, p) <=> p <= k + 1
  BY <1>1, <1>2, <1>4, <1>5, <1>6, <1>7 DEF Used, Pauses
<1>10. PauseInv(qs)
  <2>1. k + 1 \in 0..MaxPauses
    BY <1>2, <1>3 DEF Pauses
  <2>2. ASSUME NEW p \in Pauses, Used(qs, p)
        PROVE  qs[p].run \in RunIds /\ (qs[p].kind # "intake" => qs[p].pass \in Passes)
    <3>1. CASE p = NewPause
      BY <1>6, <1>7, <3>1
    <3>2. CASE p # NewPause
      BY <1>7, <2>2, <3>2 DEF PauseInv, Used
    <3> QED
      BY <3>1, <3>2
  <2> QED
    BY <1>9, <2>1, <2>2 DEF PauseInv
<1>11. Continues(pauses, qs)
  BY <1>4, <1>7 DEF Continues, Used
<1>12. \A p \in Pauses : Used(pauses, p) => p < NewPause
  BY <1>1, <1>2, <1>5 DEF Pauses
<1>13. Used(qs, NewPause) /\ qs[NewPause].run = R
  BY <1>4, <1>6, <1>7 DEF Used
<1>14. \A p \in Pauses : qs[p].state = "retired" => pauses[p].state = "retired"
  BY <1>6, <1>7
<1> QED
  BY <1>4, <1>7, <1>8, <1>10, <1>11, <1>12, <1>13, <1>14

-----------------------------------------------------------------------------
(* The inductive invariant.                                                 *)

RunsInv ==
  \A R \in RunIds :
    Sound(runs[R]) /\ (R \notin touched => Backed(runs[R], file[R]))

\* A request that works has a run, and what it holds is a pause of this run.
HandlesOf(q, ps) ==
  /\ q.at \in {"intake", "head", "pass", "final"} => q.run \in RunIds
  /\ q.at = "head" => q.pass \in 1..(PassCount + 1)
  /\ q.at = "pass" => q.pass \in Passes
  /\ q.own # 0 =>
       /\ q.at \in {"intake", "head", "pass", "final"}
       /\ Used(ps, q.own) /\ ps[q.own].run = q.run
       /\ q.at = "intake" => ps[q.own].kind = "intake"
  /\ q.same => q.own # 0 /\ ps[q.own].kind # "intake" /\ ps[q.own].pass = q.pass

HandlerInv == \A r \in Requests : HandlesOf(req[r], pauses)

Inv ==
  /\ TypeOK
  /\ RunsInv
  /\ PauseInv(pauses)
  /\ HandlerInv
  /\ RetiredHasHeir

\* The heir of a pause, see RetiredHasHeir.
HeirIn(p, ps, ms, fs, ts) ==
  LET R == ps[p].run IN
  \/ \E q \in Pauses : q > p /\ ps[q].run = R /\ Used(ps, q)
  \/ ps[p].kind = "intake" /\ ms[R].frozen /\ (fs[R].form = "passes" \/ R \in ts)
  \/ ps[p].kind # "intake" /\ ps[p].pass <= Len(ms[R].summaries)

-----------------------------------------------------------------------------
(* What a step of a handler does.                                           *)

\* The runs advance.
RunsGood ==
  /\ runs' \in [RunIds -> RunState] /\ file' \in [RunIds -> ReportFile]
  /\ \A R \in RunIds : Advances(runs[R], file[R], runs'[R], file'[R])

\* The pauses ps may follow, if the runs become ms and their reports fs.
Well(ps, ms, fs) ==
  /\ ps \in [Pauses -> Pause] /\ PauseInv(ps) /\ Continues(pauses, ps)
  /\ \A p \in Pauses : ps[p].state = "retired" =>
       pauses[p].state = "retired" \/ HeirIn(p, ps, ms, fs, touched)

Stepped(r) ==
  /\ RunsGood /\ Well(pauses', runs', file')
  /\ upsets' \in 0..MaxUpsets /\ touched' = touched
  /\ \E q \in Request : req' = [req EXCEPT ![r] = q] /\ HandlesOf(q, pauses')

(***************************************************************************)
(* A run that is left alone advances.                                      *)
(***************************************************************************)
LEMMA SelfAdvances ==
  ASSUME TypeOK, RunsInv, NEW R \in RunIds
  PROVE  Advances(runs[R], file[R], runs[R], file[R])
<1>1. runs[R] \in RunState /\ file[R] \in ReportFile /\ Sound(runs[R])
  BY DEF TypeOK, RunsInv
<1> QED
  BY <1>1, StillAdvances

(***************************************************************************)
(* A step that touches no run.                                             *)
(***************************************************************************)
LEMMA NoRunMoves ==
  ASSUME TypeOK, RunsInv, runs' = runs, file' = file
  PROVE  RunsGood
<1>1. runs \in [RunIds -> RunState] /\ file \in [RunIds -> ReportFile]
  BY DEF TypeOK
<1> QED
  BY <1>1, SelfAdvances DEF RunsGood

(***************************************************************************)
(* A run as an operation finds it.                                         *)
(***************************************************************************)
LEMMA OfFields ==
  ASSUME TypeOK, RunsInv, NEW R \in RunIds
  PROVE  /\ Of(R) \in Opened /\ Of(R).ok = TRUE /\ Of(R).m = runs[R] /\ Of(R).f = file[R]
         /\ Sound(Of(R).m)
<1>1. runs[R] \in RunState /\ file[R] \in ReportFile /\ Sound(runs[R])
  BY DEF TypeOK, RunsInv
<1> QED
  BY <1>1 DEF Of, Opened

(***************************************************************************)
(* A run that becomes what an operation leaves.                            *)
(***************************************************************************)
LEMMA BecomeOf ==
  ASSUME TypeOK, RunsInv, NEW R \in RunIds, NEW y \in Opened, Become(R, y),
         Advances(runs[R], file[R], y.m, y.f)
  PROVE  RunsGood /\ runs'[R] = y.m /\ file'[R] = y.f
<1>1. runs \in [RunIds -> RunState] /\ file \in [RunIds -> ReportFile]
  BY DEF TypeOK
<1>2. y.m \in RunState /\ y.f \in ReportFile
  BY DEF Opened
<1>3. /\ runs' = [runs EXCEPT ![R] = y.m] /\ file' = [file EXCEPT ![R] = y.f]
  BY DEF Become
<1>4. /\ runs' \in [RunIds -> RunState] /\ file' \in [RunIds -> ReportFile]
      /\ runs'[R] = y.m /\ file'[R] = y.f
  BY <1>1, <1>2, <1>3
<1>5. ASSUME NEW S \in RunIds PROVE Advances(runs[S], file[S], runs'[S], file'[S])
  <2>1. CASE S = R
    BY <1>4, <2>1
  <2>2. CASE S # R
    <3>1. runs'[S] = runs[S] /\ file'[S] = file[S]
      BY <1>1, <1>3, <2>2
    <3> QED
      BY <3>1, SelfAdvances
  <2> QED
    BY <2>1, <2>2
<1> QED
  BY <1>4, <1>5 DEF RunsGood

(***************************************************************************)
(* The fingerprint of the request is noted before anything else.           *)
(***************************************************************************)
LEMMA MarkedOf ==
  ASSUME TypeOK, RunsInv, NEW R \in RunIds, NEW b \in Body \cup {NoBody}, NEW x,
         \/ x = [Of(R) EXCEPT !.m.print = b]
         \/ x = [Of(R) EXCEPT !.m.live = TRUE, !.m.print = b]
  PROVE  /\ x \in Opened /\ Sound(x.m) /\ x.f = file[R] /\ x.ok = TRUE
         /\ \A y \in Opened :
              Advances(x.m, x.f, y.m, y.f) => Advances(runs[R], file[R], y.m, y.f)
         /\ Advances(runs[R], file[R], x.m, x.f)
<1>0. runs[R] \in RunState /\ file[R] \in ReportFile /\ Sound(runs[R])
  BY DEF TypeOK, RunsInv
<1>1. PICK o \in RunState :
        /\ x = [ok |-> TRUE, m |-> o, f |-> file[R]]
        /\ o.frozen = runs[R].frozen /\ o.turns = runs[R].turns
        /\ o.summaries = runs[R].summaries /\ o.final = runs[R].final
        /\ o.pending = runs[R].pending /\ o.finalPending = runs[R].finalPending
  <2>1. CASE x = [Of(R) EXCEPT !.m.print = b]
    <3> DEFINE o == [runs[R] EXCEPT !.print = b]
    <3>1. o \in RunState
      BY <1>0 DEF RunState
    <3> QED
      BY <1>0, <2>1, <3>1 DEF Of, RunState
  <2>2. CASE x = [Of(R) EXCEPT !.m.live = TRUE, !.m.print = b]
    <3> DEFINE o == [runs[R] EXCEPT !.live = TRUE, !.print = b]
    <3>1. o \in RunState
      BY <1>0 DEF RunState
    <3> QED
      BY <1>0, <2>2, <3>1 DEF Of, RunState
  <2> QED
    BY <2>1, <2>2
<1>2. x \in Opened /\ x.m = o /\ x.f = file[R] /\ x.ok = TRUE
  BY <1>0, <1>1 DEF Opened
<1>3. Sound(o)
  BY <1>0, <1>1 DEF Sound
<1>4. ASSUME NEW y \in Opened, Advances(o, file[R], y.m, y.f)
      PROVE  Advances(runs[R], file[R], y.m, y.f)
  <2>1. y.m \in RunState /\ y.f \in ReportFile
    BY DEF Opened
  <2> QED
    BY <1>0, <1>1, <1>4, <2>1, StillThen
<1>5. Advances(runs[R], file[R], o, file[R])
  BY <1>0, <1>1, StillAdvances
<1> QED
  BY <1>2, <1>3, <1>4, <1>5

(***************************************************************************)
(* The reply that closes an intake: the turn is appended, then the intake  *)
(* is frozen.                                                              *)
(***************************************************************************)
LEMMA IntakeFreezeOf ==
  ASSUME NEW x \in Opened, NEW disk \in Disks, Sound(x.m)
  PROVE  LET y == Then(AppendTurn(x, "user", disk), LAMBDA z : Freeze(z, disk)) IN
         /\ y \in Opened /\ Advances(x.m, x.f, y.m, y.f)
         /\ y.ok => y.m.frozen /\ y.f.form = "passes"
<1> DEFINE z == AppendTurn(x, "user", disk)
           y == Then(z, LAMBDA w : Freeze(w, disk))
<1>0. x.m \in RunState /\ x.f \in ReportFile
  BY DEF Opened
<1>1. /\ z \in Opened /\ Intaken(x.m, x.f, z.m, z.f)
      /\ z.ok => ~x.m.frozen /\ ~z.m.frozen
  BY AppendTurnOf
<1>2. y = IF z.ok THEN Freeze(z, disk) ELSE z
  BY DEF Then
<1> HIDE DEF z, y
<1>3. z.m \in RunState /\ z.f \in ReportFile /\ z.ok \in BOOLEAN
  BY <1>1 DEF Opened
<1>4. Advances(x.m, x.f, z.m, z.f)
  BY <1>0, <1>1, <1>3, IntakenAdvances
<1>5. ASSUME ~z.ok
      PROVE  y \in Opened /\ Advances(x.m, x.f, y.m, y.f) /\ ~y.ok
  BY <1>1, <1>2, <1>4, <1>5
<1>6. ASSUME z.ok
      PROVE  /\ y \in Opened /\ Advances(x.m, x.f, y.m, y.f)
             /\ y.ok => y.m.frozen /\ y.f.form = "passes"
  <2>1. Sound(z.m)
    BY <1>4 DEF Advances
  <2>2. y = Freeze(z, disk)
    BY <1>2, <1>6
  <2>3. /\ y \in Opened /\ Intaken(z.m, z.f, y.m, y.f)
        /\ y.ok => y.m.frozen
        /\ y.ok /\ ~z.m.frozen => y.f.form = "passes"
    BY <1>1, <2>1, <2>2, FreezeOf
  <2>4. y.m \in RunState /\ y.f \in ReportFile
    BY <2>3 DEF Opened
  <2>5. Intaken(x.m, x.f, y.m, y.f)
    BY <1>0, <1>1, <1>3, <2>3, <2>4, IntakenTwice
  <2>6. Advances(x.m, x.f, y.m, y.f)
    BY <1>0, <2>4, <2>5, IntakenAdvances
  <2> QED
    BY <1>1, <1>6, <2>3, <2>6
<1> QED
  BY <1>3, <1>5, <1>6 DEF y, z

(***************************************************************************)
(* The reply and the next question of an intake: two turns.                *)
(***************************************************************************)
LEMMA IntakeAsksOf ==
  ASSUME NEW x \in Opened, NEW disk \in Disks, Sound(x.m)
  PROVE  LET y == Then(AppendTurn(x, "user", disk), LAMBDA z : AppendTurn(z, "assistant", disk))
         IN  y \in Opened /\ Advances(x.m, x.f, y.m, y.f)
<1> DEFINE z == AppendTurn(x, "user", disk)
           y == Then(z, LAMBDA w : AppendTurn(w, "assistant", disk))
<1>0. x.m \in RunState /\ x.f \in ReportFile
  BY DEF Opened
<1>1. z \in Opened /\ Intaken(x.m, x.f, z.m, z.f)
  BY AppendTurnOf
<1>2. y = IF z.ok THEN AppendTurn(z, "assistant", disk) ELSE z
  BY DEF Then
<1> HIDE DEF z, y
<1>3. z.m \in RunState /\ z.f \in ReportFile /\ z.ok \in BOOLEAN
  BY <1>1 DEF Opened
<1>4. Advances(x.m, x.f, z.m, z.f)
  BY <1>0, <1>1, <1>3, IntakenAdvances
<1>5. ASSUME ~z.ok PROVE y \in Opened /\ Advances(x.m, x.f, y.m, y.f)
  BY <1>1, <1>2, <1>4, <1>5
<1>6. ASSUME z.ok PROVE y \in Opened /\ Advances(x.m, x.f, y.m, y.f)
  <2>1. Sound(z.m)
    BY <1>4 DEF Advances
  <2>2. y = AppendTurn(z, "assistant", disk)
    BY <1>2, <1>6
  <2>3. y \in Opened /\ Intaken(z.m, z.f, y.m, y.f)
    BY <1>1, <2>1, <2>2, AppendTurnOf
  <2>4. y.m \in RunState /\ y.f \in ReportFile
    BY <2>3 DEF Opened
  <2>5. Intaken(x.m, x.f, y.m, y.f)
    BY <1>0, <1>1, <1>3, <2>3, <2>4, IntakenTwice
  <2> QED
    BY <1>0, <2>3, <2>4, <2>5, IntakenAdvances
<1> QED
  BY <1>5, <1>6 DEF y, z

(***************************************************************************)
(* The pauses as they are may follow themselves.                           *)
(***************************************************************************)
LEMMA WellStill ==
  ASSUME TypeOK, PauseInv(pauses), NEW ms, NEW fs
  PROVE  Well(pauses, ms, fs)
<1>1. pauses \in [Pauses -> Pause] /\ Continues(pauses, pauses)
  BY DEF TypeOK, Continues
<1> QED
  BY <1>1 DEF Well

(***************************************************************************)
(* A change of the pauses in which no more is used and nothing is retired  *)
(* without an heir.                                                        *)
(***************************************************************************)
LEMMA WellSame ==
  ASSUME NEW ps, NEW qs, NEW ms, NEW fs, Well(ps, ms, fs),
         qs \in [Pauses -> Pause], SameUse(ps, qs),
         \A p \in Pauses : qs[p].state = "retired" =>
           ps[p].state = "retired" \/ HeirIn(p, ps, ms, fs, touched)
  PROVE  Well(qs, ms, fs)
<1>1. PauseInv(ps) /\ Continues(pauses, ps) /\ PauseInv(qs) /\ Continues(ps, qs)
  BY SameUseOf DEF Well
<1>2. Continues(pauses, qs)
  BY <1>1 DEF Continues
<1>3. ASSUME NEW p \in Pauses, HeirIn(p, ps, ms, fs, touched)
      PROVE  HeirIn(p, qs, ms, fs, touched)
  <2>1. /\ qs[p].run = ps[p].run /\ qs[p].kind = ps[p].kind /\ qs[p].pass = ps[p].pass
        /\ \A q \in Pauses : qs[q].run = ps[q].run /\ (Used(ps, q) <=> Used(qs, q))
    BY DEF SameUse
  <2> QED
    BY <1>3, <2>1 DEF HeirIn
<1>4. ASSUME NEW p \in Pauses, qs[p].state = "retired"
      PROVE  pauses[p].state = "retired" \/ HeirIn(p, qs, ms, fs, touched)
  <2>1. CASE ps[p].state = "retired"
    <3>1. pauses[p].state = "retired" \/ HeirIn(p, ps, ms, fs, touched)
      BY <2>1 DEF Well
    <3> QED
      BY <1>3, <3>1
  <2>2. CASE HeirIn(p, ps, ms, fs, touched)
    BY <1>3, <2>2
  <2> QED
    BY <1>4, <2>1, <2>2
<1> QED
  BY <1>1, <1>2, <1>4 DEF Well

(***************************************************************************)
(* The pauses of a request that is over are given back.                    *)
(***************************************************************************)
LEMMA WellRearmed ==
  ASSUME NEW ps, NEW ms, NEW fs, NEW q, Well(ps, ms, fs)
  PROVE  Well(Rearmed(ps, q), ms, fs)
<1>1. ps \in [Pauses -> Pause]
  BY DEF Well
<1> QED
  BY <1>1, RearmedOf, WellSame

(***************************************************************************)
(* A pause that has an heir may be retired.                                *)
(***************************************************************************)
LEMMA WellRetired ==
  ASSUME NEW ps, NEW ms, NEW fs, NEW p \in 0..MaxPauses, Well(ps, ms, fs),
         p # 0 => HeirIn(p, ps, ms, fs, touched)
  PROVE  Well(Retired(ps, p), ms, fs) /\ Continues(ps, Retired(ps, p))
<1>1. ps \in [Pauses -> Pause]
  BY DEF Well
<1>2. /\ Retired(ps, p) \in [Pauses -> Pause] /\ SameUse(ps, Retired(ps, p))
      /\ \A q \in Pauses : Retired(ps, p)[q].state = "retired" =>
           ps[q].state = "retired" \/ q = p
  BY <1>1, RetiredOf
<1>3. ASSUME NEW q \in Pauses, Retired(ps, p)[q].state = "retired"
      PROVE  ps[q].state = "retired" \/ HeirIn(q, ps, ms, fs, touched)
  <2>1. q # 0
    BY DEF Pauses
  <2> QED
    BY <1>2, <1>3, <2>1
<1>4. Well(Retired(ps, p), ms, fs)
  BY <1>2, <1>3, WellSame
<1> QED
  BY <1>2, <1>4, SameUseOf

(***************************************************************************)
(* A new pause is an heir of those of its run.                             *)
(***************************************************************************)
LEMMA WellRegistered ==
  ASSUME TypeOK, PauseInv(pauses), CanPause, NEW ms, NEW fs,
         NEW kind \in {"intake", "question", "tool"}, NEW R \in RunIds,
         NEW n \in 0..PassCount, NEW text \in Texts \cup {None},
         kind # "intake" => n \in Passes
  PROVE  LET qs == Registered(pauses, kind, R, n, text) IN
         /\ Well(qs, ms, fs)
         /\ \A p \in Pauses : Used(pauses, p) /\ pauses[p].run = R =>
              HeirIn(p, qs, ms, fs, touched)
<1> DEFINE qs == Registered(pauses, kind, R, n, text)
<1>0. pauses \in [Pauses -> Pause]
  BY DEF TypeOK
<1>1. /\ qs \in [Pauses -> Pause] /\ PauseInv(qs) /\ Continues(pauses, qs)
      /\ NewPause \in Pauses /\ Used(qs, NewPause) /\ qs[NewPause].run = R
      /\ \A p \in Pauses : Used(pauses, p) => p < NewPause
      /\ \A p \in Pauses : qs[p].state = "retired" => pauses[p].state = "retired"
  BY <1>0, RegisteredOf
<1> HIDE DEF qs
<1>2. Well(qs, ms, fs)
  BY <1>1 DEF Well
<1>3. ASSUME NEW p \in Pauses, Used(pauses, p), pauses[p].run = R
      PROVE  HeirIn(p, qs, ms, fs, touched)
  <2>1. qs[p].run = R /\ p < NewPause
    BY <1>1, <1>3 DEF Continues
  <2>2. NewPause > p
    BY <1>1, <2>1 DEF Pauses
  <2> QED
    BY <1>1, <2>1, <2>2 DEF HeirIn
<1> QED
  BY <1>2, <1>3 DEF qs

-----------------------------------------------------------------------------
(* The handlers.                                                            *)

(***************************************************************************)
(* The fields of a request.                                                *)
(***************************************************************************)
LEMMA RequestFields ==
  ASSUME NEW q \in Request
  PROVE  /\ q.at \in {"idle", "queued", "intake", "head", "pass", "final", "followup"}
         /\ q.stream \in BOOLEAN /\ q.body \in Body \cup {NoBody} /\ q.run \in 0..MaxRuns
         /\ q.pass \in 0..(PassCount + 1) /\ q.own \in 0..MaxPauses /\ q.same \in BOOLEAN
BY DEF Request

(***************************************************************************)
(* A request that is over.                                                 *)
(***************************************************************************)
LEMMA IdleOf == Idle \in Request /\ \A ps : HandlesOf(Idle, ps)
<1>1. 0 \in 0..MaxRuns /\ 0 \in 0..(PassCount + 1) /\ 0 \in 0..MaxPauses
  BY DebuggingConstants
<1>2. Idle \in Request
  BY <1>1 DEF Idle, Request
<1> QED
  BY <1>2 DEF Idle, HandlesOf

(***************************************************************************)
(* A disk that refuses to write is counted.                                *)
(***************************************************************************)
LEMMA DiskOf ==
  ASSUME TypeOK, NEW disk, Disk(disk)
  PROVE  upsets' \in 0..MaxUpsets
BY DebuggingConstants DEF TypeOK, Disk

(***************************************************************************)
(* The end of a request is a step.                                         *)
(***************************************************************************)
LEMMA EndOf ==
  ASSUME NEW r \in Requests, NEW ps, RunsGood, Well(ps, runs', file'),
         upsets' \in 0..MaxUpsets, touched' = touched, End(r, ps)
  PROVE  Stepped(r)
<1>1. Well(Rearmed(ps, req[r]), runs', file')
  BY WellRearmed
<1>2. pauses' = Rearmed(ps, req[r]) /\ req' = [req EXCEPT ![r] = Idle]
  BY DEF End, Go
<1>3. Well(pauses', runs', file')
  BY <1>1, <1>2
<1> QED
  BY <1>2, <1>3, IdleOf DEF Stepped

(***************************************************************************)
(* So is a step of a request that touches neither a run nor a pause.       *)
(***************************************************************************)
LEMMA OnlyGoes ==
  ASSUME TypeOK, RunsInv, PauseInv(pauses), NEW r \in Requests, NEW q \in Request,
         UNCHANGED <<runs, file, pauses, upsets, touched>>, Go(r, q), HandlesOf(q, pauses)
  PROVE  Stepped(r)
<1>1. RunsGood
  BY NoRunMoves
<1>2. Well(pauses', runs', file')
  BY WellStill
<1>3. upsets' \in 0..MaxUpsets /\ HandlesOf(q, pauses')
  BY DEF TypeOK
<1> QED
  BY <1>1, <1>2, <1>3 DEF Stepped, Go

(***************************************************************************)
(* A request that waits for a permit holds nothing.                        *)
(***************************************************************************)
LEMMA QueuedHoldsNothing ==
  ASSUME TypeOK, HandlerInv, NEW r \in Requests, req[r].at = "queued"
  PROVE  req[r] \in Request /\ req[r].own = 0 /\ req[r].same = FALSE
<1>1. req[r] \in Request /\ HandlesOf(req[r], pauses)
  BY DEF TypeOK, HandlerInv
<1> QED
  BY <1>1, RequestFields DEF HandlesOf

(***************************************************************************)
(* What a body names are pauses.                                           *)
(***************************************************************************)
LEMMA MatchedOf ==
  ASSUME NEW b, NEW p \in Matched(b)
  PROVE  p \in Pauses /\ Used(pauses, p)
<1>1. \E k \in {"intake", "question", "tool"} : p \in Names(b, k)
  BY DEF Matched
<1> QED
  BY <1>1 DEF Names, Live, Used

(***************************************************************************)
(* A new request waits for a permit.                                       *)
(***************************************************************************)
LEMMA ArriveStep ==
  ASSUME Inv, NEW r \in Requests, Arrive(r)
  PROVE  Stepped(r)
<1> USE DEF Inv
<1>1. PICK b \in Body, t \in Transports :
        Go(r, [Idle EXCEPT !.at = "queued", !.stream = (t = "stream"), !.body = b])
  BY DEF Arrive
<1> DEFINE q == [Idle EXCEPT !.at = "queued", !.stream = (t = "stream"), !.body = b]
<1>2. (t = "stream") \in BOOLEAN
  OBVIOUS
<1>3. q \in Request
  BY <1>2, IdleOf DEF Request
<1>4. q.at = "queued" /\ q.own = 0 /\ q.same = FALSE
  BY DEF Idle
<1>5. HandlesOf(q, pauses)
  BY <1>4 DEF HandlesOf
<1>6. UNCHANGED <<runs, file, pauses, upsets, touched>> /\ Go(r, q)
  BY <1>1 DEF Arrive
<1> HIDE DEF q
<1> QED
  BY <1>3, <1>5, <1>6, OnlyGoes

(***************************************************************************)
(* An exact retry takes up the pass, or the final report, that is pending. *)
(***************************************************************************)
LEMMA RecoverStep ==
  ASSUME Inv, NEW r \in Requests, Recover(r)
  PROVE  Stepped(r)
<1> USE DEF Inv
<1>1. req[r] \in Request /\ req[r].own = 0 /\ req[r].same = FALSE
  BY QueuedHoldsNothing DEF Recover, Unmatched, Admitted
<1>2. PICK R \in RunIds, n \in 1..(PassCount + 1) :
        Go(r, [req[r] EXCEPT !.at = "head", !.run = R, !.pass = n])
  <2>1. PassCount + 1 \in 1..(PassCount + 1) /\ \A n \in Passes : n \in 1..(PassCount + 1)
    BY DebuggingConstants DEF Passes
  <2>2. CASE \E R \in PendingFinal(req[r].body) :
               Go(r, [req[r] EXCEPT !.at = "head", !.run = R, !.pass = PassCount + 1])
    BY <2>1, <2>2 DEF PendingFinal, Awaiting
  <2>3. CASE \E R \in PendingPass(req[r].body) : \E n \in Passes :
               Go(r, [req[r] EXCEPT !.at = "head", !.run = R, !.pass = n])
    BY <2>1, <2>3 DEF PendingPass, Awaiting
  <2> QED
    BY <2>2, <2>3 DEF Recover
<1> DEFINE q == [req[r] EXCEPT !.at = "head", !.run = R, !.pass = n]
<1>3. R \in 0..MaxRuns /\ n \in 0..(PassCount + 1)
  BY DebuggingConstants DEF RunIds
<1>4. q \in Request
  BY <1>1, <1>3 DEF Request
<1>5. q.at = "head" /\ q.run = R /\ q.pass = n /\ q.own = 0 /\ q.same = FALSE
  BY <1>1 DEF Request
<1>6. HandlesOf(q, pauses)
  BY <1>5 DEF HandlesOf
<1>7. UNCHANGED <<runs, file, pauses, upsets, touched>> /\ Go(r, q)
  BY <1>2 DEF Recover
<1> HIDE DEF q
<1> QED
  BY <1>4, <1>6, <1>7, OnlyGoes

(***************************************************************************)
(* A question about a report that is finished touches nothing.             *)
(***************************************************************************)
LEMMA FollowUpStep ==
  ASSUME Inv, NEW r \in Requests, FollowUp(r)
  PROVE  Stepped(r)
<1> USE DEF Inv
<1>1. req[r] \in Request /\ req[r].own = 0 /\ req[r].same = FALSE
  BY QueuedHoldsNothing DEF FollowUp, Unmatched, Admitted
<1> DEFINE q == [req[r] EXCEPT !.at = "followup"]
<1>2. q \in Request /\ q.at = "followup" /\ q.own = 0 /\ q.same = FALSE
  BY <1>1 DEF Request
<1>3. HandlesOf(q, pauses)
  BY <1>2 DEF HandlesOf
<1>4. UNCHANGED <<runs, file, pauses, upsets, touched>> /\ Go(r, q)
  BY DEF FollowUp
<1> HIDE DEF q
<1> QED
  BY <1>2, <1>3, <1>4, OnlyGoes

(***************************************************************************)
(* A request that is over and has changed no run.                          *)
(***************************************************************************)
LEMMA OnlyEnds ==
  ASSUME Inv, NEW r \in Requests, End(r, pauses), UNCHANGED <<runs, file, upsets, touched>>
  PROVE  Stepped(r)
<1> USE DEF Inv
<1>1. RunsGood /\ Well(pauses, runs', file')
  BY NoRunMoves, WellStill
<1>2. upsets' \in 0..MaxUpsets
  BY DEF TypeOK
<1> QED
  BY <1>1, <1>2, EndOf

(***************************************************************************)
(* A new run.                                                              *)
(***************************************************************************)
LEMMA CreateRunStep ==
  ASSUME Inv, NEW r \in Requests, CreateRun(r)
  PROVE  Stepped(r)
<1> USE DEF Inv
<1>1. req[r] \in Request /\ req[r].own = 0 /\ req[r].same = FALSE
  BY QueuedHoldsNothing DEF CreateRun, Unmatched, Admitted
<1>2. PICK R \in RunIds, disk \in Disks :
        LET x == AppendTurn([Of(R) EXCEPT !.m.live = TRUE, !.m.print = req[r].body],
                            "user", disk) IN
        /\ Disk(disk) /\ Become(R, x)
        /\ IF x.ok THEN Go(r, [req[r] EXCEPT !.at = "intake", !.run = R]) /\ UNCHANGED pauses
           ELSE End(r, pauses)
  BY DEF CreateRun, Disks
<1> DEFINE x0 == [Of(R) EXCEPT !.m.live = TRUE, !.m.print = req[r].body]
           x == AppendTurn(x0, "user", disk)
<1>3. /\ Disk(disk) /\ Become(R, x)
      /\ IF x.ok THEN Go(r, [req[r] EXCEPT !.at = "intake", !.run = R]) /\ UNCHANGED pauses
         ELSE End(r, pauses)
  BY <1>2
<1>4. req[r].body \in Body \cup {NoBody}
  BY <1>1, RequestFields
<1> DEFINE b == req[r].body
<1>5. /\ x0 \in Opened /\ Sound(x0.m) /\ x0.f = file[R]
      /\ \A y \in Opened :
           Advances(x0.m, x0.f, y.m, y.f) => Advances(runs[R], file[R], y.m, y.f)
  <2>1. x0 = [Of(R) EXCEPT !.m.live = TRUE, !.m.print = b]
    OBVIOUS
  <2> HIDE DEF x0
  <2> QED
    BY <1>4, <2>1, MarkedOf
<1> HIDE DEF x0
<1>6. x \in Opened /\ Intaken(x0.m, x0.f, x.m, x.f)
  BY <1>5, AppendTurnOf
<1> HIDE DEF x
<1>7. Advances(runs[R], file[R], x.m, x.f)
  <2>1. x0.m \in RunState /\ x0.f \in ReportFile /\ x.m \in RunState /\ x.f \in ReportFile
    BY <1>5, <1>6 DEF Opened
  <2> QED
    BY <1>5, <1>6, <2>1, IntakenAdvances
<1>8. RunsGood
  BY <1>3, <1>6, <1>7, BecomeOf
<1>9. Well(pauses, runs', file') /\ upsets' \in 0..MaxUpsets /\ touched' = touched
  BY <1>3, WellStill, DiskOf DEF CreateRun
<1>10. CASE x.ok
  <2> DEFINE q == [req[r] EXCEPT !.at = "intake", !.run = R]
  <2>1. R \in 0..MaxRuns
    BY DebuggingConstants DEF RunIds
  <2>2. q \in Request /\ q.at = "intake" /\ q.run = R /\ q.own = 0 /\ q.same = FALSE
    BY <1>1, <2>1 DEF Request
  <2>3. req' = [req EXCEPT ![r] = q] /\ pauses' = pauses
    BY <1>3, <1>10 DEF Go
  <2> HIDE DEF q
  <2>4. HandlesOf(q, pauses')
    BY <2>2 DEF HandlesOf
  <2>5. Well(pauses', runs', file')
    BY <1>9, <2>3
  <2> QED
    BY <1>8, <1>9, <2>2, <2>3, <2>4, <2>5 DEF Stepped
<1>11. CASE ~x.ok
  BY <1>3, <1>8, <1>9, <1>11, EndOf
<1> QED
  BY <1>10, <1>11

(***************************************************************************)
(* The reply that closes an intake: frozen first, retired then.            *)
(***************************************************************************)
LEMMA ClaimCloses ==
  ASSUME Inv, NEW r \in Requests, req[r].at = "queued", touched' = touched,
         NEW p \in Matched(req[r].body), NEW disk \in Disks, Disk(disk),
         LET R == pauses[p].run
             q == [req[r] EXCEPT !.run = R, !.own = p]
             x == [Of(R) EXCEPT !.m.print = q.body]
             claimed == [pauses EXCEPT ![p].inFlight = TRUE]
             y == Then(AppendTurn(x, "user", disk), LAMBDA z : Freeze(z, disk))
         IN
         /\ Proceeds(q, p) /\ Become(R, y)
         /\ IF y.ok
            THEN /\ Go(r, [q EXCEPT !.at = "head", !.pass = 1, !.own = 0])
                 /\ pauses' = RetiredIf(claimed, p, TRUE)
            ELSE /\ Go(r, Idle)
                 /\ pauses' = Rearmed(RetiredIf(claimed, p, FALSE), q)
  PROVE  Stepped(r)
<1> USE DEF Inv
<1>0. req[r] \in Request /\ req[r].own = 0 /\ req[r].same = FALSE
  BY QueuedHoldsNothing
<1> DEFINE R == pauses[p].run
           q == [req[r] EXCEPT !.run = R, !.own = p]
           x == [Of(R) EXCEPT !.m.print = q.body]
           claimed == [pauses EXCEPT ![p].inFlight = TRUE]
           y == Then(AppendTurn(x, "user", disk), LAMBDA z : Freeze(z, disk))
<1>1. p \in Pauses /\ Used(pauses, p) /\ R \in RunIds /\ pauses \in [Pauses -> Pause]
  BY MatchedOf DEF PauseInv, TypeOK
<1>2. R \in 0..MaxRuns /\ p \in 0..MaxPauses /\ p # 0 /\ 1 \in 0..(PassCount + 1)
      /\ 1 \in 1..(PassCount + 1) /\ 0 \in 0..MaxPauses
  BY <1>1, DebuggingConstants DEF RunIds, Pauses
<1>3. q \in Request /\ q.body = req[r].body /\ q.same = FALSE /\ q.run = R /\ q.body \in Body \cup {NoBody}
  BY <1>0, <1>2 DEF Request
<1>4. pauses[p].kind = "intake"
  BY DEF Proceeds
<1>5. /\ Become(R, y)
      /\ IF y.ok
         THEN /\ Go(r, [q EXCEPT !.at = "head", !.pass = 1, !.own = 0])
              /\ pauses' = RetiredIf(claimed, p, TRUE)
         ELSE /\ Go(r, Idle)
              /\ pauses' = Rearmed(RetiredIf(claimed, p, FALSE), q)
  OBVIOUS
<1> HIDE DEF q, R
<1>6. /\ x \in Opened /\ Sound(x.m) /\ x.f = file[R]
      /\ \A w \in Opened :
           Advances(x.m, x.f, w.m, w.f) => Advances(runs[R], file[R], w.m, w.f)
  <2> DEFINE b == q.body
  <2>1. x = [Of(R) EXCEPT !.m.print = b] /\ b \in Body \cup {NoBody}
    BY <1>3
  <2> HIDE DEF x, b
  <2> QED
    BY <1>1, <2>1, MarkedOf
<1> HIDE DEF x
<1>7. /\ y \in Opened /\ Advances(x.m, x.f, y.m, y.f)
      /\ y.ok => y.m.frozen /\ y.f.form = "passes"
  BY <1>6, IntakeFreezeOf
<1> HIDE DEF y
<1>8. RunsGood /\ runs'[R] = y.m /\ file'[R] = y.f
  BY <1>1, <1>5, <1>6, <1>7, BecomeOf
<1>9. Well(claimed, runs', file') /\ SameUse(pauses, claimed)
  <2>1. Well(pauses, runs', file')
    BY WellStill
  <2>2. /\ claimed \in [Pauses -> Pause] /\ SameUse(pauses, claimed)
        /\ \A s \in Pauses : claimed[s].state = pauses[s].state
    <3>1. p \in Pauses /\ pauses \in [Pauses -> Pause]
      BY <1>1
    <3> QED
      BY ONLY <3>1, ClaimedOf
  <2> HIDE DEF claimed
  <2> QED
    BY <2>1, <2>2, WellSame
<1> HIDE DEF claimed
<1>10. upsets' \in 0..MaxUpsets
  BY DiskOf
<1>11. CASE y.ok
  <2>1. claimed[p].run = R /\ claimed[p].kind = "intake"
    BY <1>1, <1>4, <1>9 DEF SameUse, R
  <2>2. HeirIn(p, claimed, runs', file', touched)
    BY <1>7, <1>8, <1>11, <2>1 DEF HeirIn
  <2>3. Well(Retired(claimed, p), runs', file')
    BY <1>2, <1>9, <2>2, WellRetired
  <2> DEFINE o == [q EXCEPT !.at = "head", !.pass = 1, !.own = 0]
  <2>4. o \in Request /\ o.at = "head" /\ o.pass = 1 /\ o.own = 0 /\ o.same = FALSE /\ o.run = R
    BY <1>2, <1>3 DEF Request
  <2>5. req' = [req EXCEPT ![r] = o] /\ pauses' = Retired(claimed, p)
    BY <1>5, <1>11 DEF Go, RetiredIf
  <2> HIDE DEF o
  <2>6. HandlesOf(o, pauses')
    BY <1>1, <1>2, <2>4 DEF HandlesOf
  <2>7. Well(pauses', runs', file')
    BY <2>3, <2>5
  <2> QED
    BY <1>8, <1>10, <2>4, <2>5, <2>6, <2>7 DEF Stepped
<1>12. CASE ~y.ok
  <2>1. pauses' = Rearmed(claimed, q) /\ req' = [req EXCEPT ![r] = Idle]
    BY <1>5, <1>12 DEF Go, RetiredIf
  <2>2. Well(Rearmed(claimed, q), runs', file')
    BY <1>9, WellRearmed
  <2>3. Well(pauses', runs', file')
    BY <2>1, <2>2
  <2> QED
    BY <1>8, <1>10, <2>1, <2>3, IdleOf DEF Stepped
<1> QED
  BY <1>11, <1>12

(***************************************************************************)
(* The reply that lets the paused stage go on.                             *)
(***************************************************************************)
LEMMA ClaimGoesOn ==
  ASSUME Inv, NEW r \in Requests, req[r].at = "queued",
         UNCHANGED <<upsets, touched>>,
         NEW p \in Matched(req[r].body),
         LET R == pauses[p].run
             q == [req[r] EXCEPT !.run = R, !.own = p]
             x == [Of(R) EXCEPT !.m.print = q.body]
         IN
         /\ pauses' = [pauses EXCEPT ![p].inFlight = TRUE] /\ Become(R, x)
         /\ Go(r, CASE pauses[p].kind # "intake" ->
                         [q EXCEPT !.at = "head", !.pass = pauses[p].pass, !.same = TRUE]
                    [] pauses[p].kind = "intake" /\ q.stream /\ x.m.frozen ->
                         [q EXCEPT !.at = "head", !.pass = 1]
                    [] OTHER -> [q EXCEPT !.at = "intake"])
  PROVE  Stepped(r)
<1> USE DEF Inv
<1>0. req[r] \in Request /\ req[r].own = 0 /\ req[r].same = FALSE
  BY QueuedHoldsNothing
<1> DEFINE R == pauses[p].run
           q == [req[r] EXCEPT !.run = R, !.own = p]
           x == [Of(R) EXCEPT !.m.print = q.body]
           c == CASE pauses[p].kind # "intake" ->
                       [q EXCEPT !.at = "head", !.pass = pauses[p].pass, !.same = TRUE]
                  [] pauses[p].kind = "intake" /\ q.stream /\ x.m.frozen ->
                       [q EXCEPT !.at = "head", !.pass = 1]
                  [] OTHER -> [q EXCEPT !.at = "intake"]
<1>1. /\ p \in Pauses /\ Used(pauses, p) /\ R \in RunIds /\ pauses \in [Pauses -> Pause]
      /\ pauses[p].kind # "intake" => pauses[p].pass \in Passes
  BY MatchedOf DEF PauseInv, TypeOK
<1>2. R \in 0..MaxRuns /\ p \in 0..MaxPauses /\ p # 0 /\ 1 \in 0..(PassCount + 1)
      /\ 1 \in 1..(PassCount + 1)
      /\ \A n \in Passes : n \in 0..(PassCount + 1) /\ n \in 1..(PassCount + 1)
  BY <1>1, DebuggingConstants DEF RunIds, Pauses, Passes
<1>3. /\ q \in Request /\ q.body = req[r].body /\ q.same = FALSE /\ q.run = R /\ q.own = p
      /\ q.body \in Body \cup {NoBody}
  BY <1>0, <1>2 DEF Request
<1>4. pauses' = [pauses EXCEPT ![p].inFlight = TRUE] /\ Become(R, x) /\ Go(r, c)
  OBVIOUS
<1>5. \/ pauses[p].kind # "intake"
         /\ c = [q EXCEPT !.at = "head", !.pass = pauses[p].pass, !.same = TRUE]
      \/ c = [q EXCEPT !.at = "head", !.pass = 1]
      \/ pauses[p].kind = "intake" /\ c = [q EXCEPT !.at = "intake"]
  <2> HIDE DEF q, x
  <2>1. CASE pauses[p].kind # "intake"
    BY <2>1, Zenon
  <2>2. CASE pauses[p].kind = "intake" /\ q.stream /\ x.m.frozen
    BY <2>2, Zenon
  <2>3. CASE pauses[p].kind = "intake" /\ ~(q.stream /\ x.m.frozen)
    BY <2>3, Zenon
  <2> QED
    BY <2>1, <2>2, <2>3, Zenon
<1> HIDE DEF q, c, R
<1>6. x \in Opened /\ Advances(runs[R], file[R], x.m, x.f)
  <2> DEFINE b == q.body
  <2>1. x = [Of(R) EXCEPT !.m.print = b] /\ b \in Body \cup {NoBody}
    BY <1>3
  <2> HIDE DEF x, b
  <2> QED
    BY <1>1, <2>1, MarkedOf
<1> HIDE DEF x
<1>7. RunsGood
  BY <1>1, <1>4, <1>6, BecomeOf
<1>8. Well(pauses', runs', file') /\ SameUse(pauses, pauses')
  <2> DEFINE claimed == [pauses EXCEPT ![p].inFlight = TRUE]
  <2>1. Well(pauses, runs', file')
    BY WellStill
  <2>2. /\ claimed \in [Pauses -> Pause] /\ SameUse(pauses, claimed)
        /\ \A s \in Pauses : claimed[s].state = pauses[s].state
    BY <1>1, ClaimedOf
  <2>3. pauses' = claimed
    BY <1>4
  <2> HIDE DEF claimed
  <2>4. Well(claimed, runs', file')
    BY <2>1, <2>2, WellSame
  <2> QED
    BY <2>2, <2>3, <2>4
<1>9. /\ Used(pauses', p) /\ pauses'[p].run = R /\ pauses'[p].kind = pauses[p].kind
      /\ pauses'[p].pass = pauses[p].pass
  BY <1>1, <1>8 DEF SameUse, R
<1>10. c \in Request /\ HandlesOf(c, pauses')
  <2>1. CASE /\ pauses[p].kind # "intake"
             /\ c = [q EXCEPT !.at = "head", !.pass = pauses[p].pass, !.same = TRUE]
    <3>1. pauses[p].pass \in Passes
      BY <1>1, <2>1
    <3>2. /\ c \in Request /\ c.at = "head" /\ c.run = R /\ c.own = p /\ c.same = TRUE
          /\ c.pass = pauses[p].pass
      BY <1>2, <1>3, <2>1, <3>1 DEF Request
    <3> QED
      BY <1>1, <1>2, <1>9, <2>1, <3>1, <3>2 DEF HandlesOf
  <2>2. CASE c = [q EXCEPT !.at = "head", !.pass = 1]
    <3>1. /\ c \in Request /\ c.at = "head" /\ c.run = R /\ c.own = p /\ c.same = FALSE
          /\ c.pass = 1
      BY <1>2, <1>3, <2>2 DEF Request
    <3> QED
      BY <1>1, <1>2, <1>9, <3>1 DEF HandlesOf
  <2>3. CASE pauses[p].kind = "intake" /\ c = [q EXCEPT !.at = "intake"]
    <3>1. c \in Request /\ c.at = "intake" /\ c.run = R /\ c.own = p /\ c.same = FALSE
      BY <1>2, <1>3, <2>3 DEF Request
    <3> QED
      BY <1>1, <1>9, <2>3, <3>1 DEF HandlesOf
  <2> QED
    BY <1>5, <2>1, <2>2, <2>3
<1>11. upsets' \in 0..MaxUpsets
  BY DEF TypeOK
<1> QED
  BY <1>4, <1>7, <1>8, <1>10, <1>11 DEF Stepped, Go

(***************************************************************************)
(* The reply to a pause.                                                   *)
(***************************************************************************)
LEMMA ClaimStep ==
  ASSUME Inv, NEW r \in Requests, Claim(r)
  PROVE  Stepped(r)
<1>1. req[r].at = "queued" /\ touched' = touched
  BY DEF Claim, Admitted
<1>2. PICK p \in Matched(req[r].body) :
       LET R == pauses[p].run
           q == [req[r] EXCEPT !.run = R, !.own = p]
           x == [Of(R) EXCEPT !.m.print = q.body]
           claimed == [pauses EXCEPT ![p].inFlight = TRUE]
       IN
       \/ \E disk \in Disks :
            LET y == Then(AppendTurn(x, "user", disk), LAMBDA z : Freeze(z, disk)) IN
            /\ Proceeds(q, p) /\ Disk(disk) /\ Become(R, y)
            /\ IF y.ok
               THEN /\ Go(r, [q EXCEPT !.at = "head", !.pass = 1, !.own = 0])
                    /\ pauses' = RetiredIf(claimed, p, TRUE)
               ELSE /\ Go(r, Idle)
                    /\ pauses' = Rearmed(RetiredIf(claimed, p, FALSE), q)
       \/ /\ pauses' = claimed /\ Become(R, x) /\ UNCHANGED upsets
          /\ Go(r, CASE pauses[p].kind # "intake" ->
                          [q EXCEPT !.at = "head", !.pass = pauses[p].pass, !.same = TRUE]
                     [] pauses[p].kind = "intake" /\ q.stream /\ x.m.frozen ->
                          [q EXCEPT !.at = "head", !.pass = 1]
                     [] OTHER -> [q EXCEPT !.at = "intake"])
  BY Zenon DEF Claim, Disks
<1> QED
  BY <1>1, <1>2, ClaimCloses, ClaimGoesOn, Zenon

(***************************************************************************)
(* A request at work has its run, and what it holds is of this run.        *)
(***************************************************************************)
LEMMA AtWork ==
  ASSUME Inv, NEW r \in Requests
  PROVE  /\ req[r] \in Request /\ HandlesOf(req[r], pauses)
         /\ req[r].own # 0 => req[r].own \in Pauses
<1>1. req[r] \in Request /\ HandlesOf(req[r], pauses)
  BY DEF Inv, TypeOK, HandlerInv
<1> QED
  BY <1>1, RequestFields DEF Pauses

(***************************************************************************)
(* The intake is complete: frozen first, the pause retired then.           *)
(***************************************************************************)
LEMMA IntakeCloses ==
  ASSUME Inv, NEW r \in Requests, req[r].at = "intake", touched' = touched,
         NEW disk \in Disks, Disk(disk), NEW y \in Opened,
         Advances(runs[req[r].run], file[req[r].run], y.m, y.f),
         y.ok => y.m.frozen /\ (req[r].own # 0 => y.f.form = "passes"),
         Become(req[r].run, y),
         IF y.ok
         THEN /\ Go(r, [req[r] EXCEPT !.at = "head", !.pass = 1, !.own = 0])
              /\ pauses' = RetiredIf(pauses, req[r].own, TRUE)
         ELSE End(r, RetiredIf(pauses, req[r].own, FALSE))
  PROVE  Stepped(r)
<1> USE DEF Inv
<1> DEFINE q == req[r]
           R == q.run
<1>1. q \in Request /\ HandlesOf(q, pauses) /\ (q.own # 0 => q.own \in Pauses)
  BY AtWork
<1>2. R \in RunIds
  BY <1>1 DEF HandlesOf
<1>3. RunsGood /\ runs'[R] = y.m /\ file'[R] = y.f
  BY <1>2, BecomeOf
<1>4. Well(pauses, runs', file') /\ upsets' \in 0..MaxUpsets
  BY WellStill, DiskOf
<1>5. CASE y.ok
  <2>1. q.own # 0 => HeirIn(q.own, pauses, runs', file', touched)
    <3>1. ASSUME q.own # 0 PROVE pauses[q.own].run = R /\ pauses[q.own].kind = "intake"
      BY <1>1, <3>1 DEF HandlesOf
    <3> QED
      BY <1>3, <1>5, <3>1 DEF HeirIn
  <2>2. Well(Retired(pauses, q.own), runs', file')
    BY <1>1, <1>4, <2>1, WellRetired, RequestFields
  <2> DEFINE o == [q EXCEPT !.at = "head", !.pass = 1, !.own = 0]
  <2>3. 1 \in 0..(PassCount + 1) /\ 1 \in 1..(PassCount + 1) /\ 0 \in 0..MaxPauses
    BY DebuggingConstants
  <2>4. q.same = FALSE
    BY <1>1, RequestFields DEF HandlesOf
  <2>5. o \in Request /\ o.at = "head" /\ o.pass = 1 /\ o.own = 0 /\ o.same = FALSE /\ o.run = R
    BY <1>1, <2>3, <2>4 DEF Request
  <2>6. req' = [req EXCEPT ![r] = o] /\ pauses' = Retired(pauses, q.own)
    BY <1>5 DEF Go, RetiredIf
  <2> HIDE DEF o
  <2>7. HandlesOf(o, pauses')
    BY <1>2, <2>3, <2>5 DEF HandlesOf
  <2>8. Well(pauses', runs', file')
    BY <2>2, <2>6
  <2> QED
    BY <1>3, <1>4, <2>5, <2>6, <2>7, <2>8 DEF Stepped
<1>6. CASE ~y.ok
  <2>1. End(r, pauses)
    BY <1>6 DEF RetiredIf
  <2> QED
    BY <1>3, <1>4, <2>1, EndOf
<1> QED
  BY <1>5, <1>6

(***************************************************************************)
(* The intake asks on: the next pause is the heir of the last.             *)
(***************************************************************************)
LEMMA IntakeAsks ==
  ASSUME Inv, NEW r \in Requests, req[r].at = "intake", touched' = touched, CanPause,
         NEW disk \in Disks, Disk(disk), NEW t \in Texts, NEW y \in Opened,
         Advances(runs[req[r].run], file[req[r].run], y.m, y.f),
         Become(req[r].run, y),
         End(r, IF y.ok THEN Retired(Registered(pauses, "intake", req[r].run, 0, t), req[r].own)
                ELSE pauses)
  PROVE  Stepped(r)
<1> USE DEF Inv
<1> DEFINE q == req[r]
           R == q.run
           ps == Registered(pauses, "intake", R, 0, t)
<1>1. q \in Request /\ HandlesOf(q, pauses) /\ (q.own # 0 => q.own \in Pauses)
  BY AtWork
<1>2. R \in RunIds
  BY <1>1 DEF HandlesOf
<1>3. RunsGood
  BY <1>2, BecomeOf
<1>4. Well(pauses, runs', file') /\ upsets' \in 0..MaxUpsets
  BY WellStill, DiskOf
<1>5. /\ Well(ps, runs', file')
      /\ \A p \in Pauses : Used(pauses, p) /\ pauses[p].run = R =>
           HeirIn(p, ps, runs', file', touched)
  <2>1. 0 \in 0..PassCount /\ t \in Texts \cup {None}
    BY DebuggingConstants
  <2> HIDE DEF R
  <2> QED
    BY <1>2, <2>1, WellRegistered
<1> HIDE DEF ps
<1>6. q.own # 0 => HeirIn(q.own, ps, runs', file', touched)
  BY <1>1, <1>5 DEF HandlesOf
<1>7. Well(Retired(ps, q.own), runs', file')
  BY <1>1, <1>5, <1>6, WellRetired, RequestFields
<1>8. CASE y.ok
  <2>1. End(r, Retired(ps, q.own))
    BY <1>8 DEF ps
  <2> QED
    BY <1>3, <1>4, <1>7, <2>1, EndOf
<1>9. CASE ~y.ok
  <2>1. End(r, pauses)
    BY <1>9
  <2> QED
    BY <1>3, <1>4, <2>1, EndOf
<1> QED
  BY <1>8, <1>9

(***************************************************************************)
(* The intake stage answers.                                               *)
(***************************************************************************)
LEMMA IntakeAnswersStep ==
  ASSUME Inv, NEW r \in Requests, IntakeAnswers(r)
  PROVE  Stepped(r)
<1> USE DEF Inv
<1> DEFINE q == req[r]
           x == Of(q.run)
           replied(disk) == IF q.own = 0 THEN x ELSE AppendTurn(x, "user", disk)
           closed(disk) == Then(replied(disk), LAMBDA z : Freeze(z, disk))
           asked(disk) == Then(replied(disk), LAMBDA z : AppendTurn(z, "assistant", disk))
<1>1. q.at = "intake" /\ touched' = touched /\ q.run \in RunIds
  BY AtWork DEF IntakeAnswers, HandlesOf
<1>2. /\ x \in Opened /\ x.ok = TRUE /\ x.m = runs[q.run] /\ x.f = file[q.run] /\ Sound(x.m)
      /\ x.m \in RunState /\ x.f \in ReportFile
  <2>1. x \in Opened /\ x.ok = TRUE /\ x.m = runs[q.run] /\ x.f = file[q.run] /\ Sound(x.m)
    BY <1>1, OfFields
  <2> QED
    BY <2>1 DEF Opened
<1>3. PICK disk \in Disks :
        /\ Disk(disk)
        /\ \/ /\ Become(q.run, closed(disk))
              /\ IF closed(disk).ok
                 THEN /\ Go(r, [q EXCEPT !.at = "head", !.pass = 1, !.own = 0])
                      /\ pauses' = RetiredIf(pauses, q.own, TRUE)
                 ELSE End(r, RetiredIf(pauses, q.own, FALSE))
           \/ /\ CanPause
              /\ \E t \in Texts :
                   /\ Become(q.run, asked(disk))
                   /\ End(r, IF asked(disk).ok
                             THEN Retired(Registered(pauses, "intake", q.run, 0, t), q.own)
                             ELSE pauses)
  BY Zenon DEF IntakeAnswers, Disks
<1> DEFINE y == closed(disk)
           a == asked(disk)
<1>4. /\ y \in Opened /\ Advances(x.m, x.f, y.m, y.f)
      /\ y.ok => y.m.frozen /\ (q.own # 0 => y.f.form = "passes")
  <2> HIDE DEF x, q
  <2>1. CASE q.own = 0
    <3>1. y = Freeze(x, disk)
      BY <1>2, <2>1 DEF Then
    <3> HIDE DEF y
    <3>2. y \in Opened /\ Intaken(x.m, x.f, y.m, y.f) /\ (y.ok => y.m.frozen)
      BY <1>2, <3>1, FreezeOf
    <3>3. y.m \in RunState /\ y.f \in ReportFile
      BY <3>2 DEF Opened
    <3> QED
      BY <1>2, <2>1, <3>2, <3>3, IntakenAdvances
  <2>2. CASE q.own # 0
    <3>1. y = Then(AppendTurn(x, "user", disk), LAMBDA z : Freeze(z, disk))
      BY <2>2
    <3> HIDE DEF y
    <3> QED
      BY <1>2, <3>1, IntakeFreezeOf
  <2> QED
    BY <2>1, <2>2
<1>5. a \in Opened /\ Advances(x.m, x.f, a.m, a.f)
  <2> HIDE DEF x, q
  <2>1. CASE q.own = 0
    <3>1. a = AppendTurn(x, "assistant", disk)
      BY <1>2, <2>1 DEF Then
    <3> HIDE DEF a
    <3>2. a \in Opened /\ Intaken(x.m, x.f, a.m, a.f)
      BY <1>2, <3>1, AppendTurnOf
    <3>3. a.m \in RunState /\ a.f \in ReportFile
      BY <3>2 DEF Opened
    <3> QED
      BY <1>2, <3>2, <3>3, IntakenAdvances
  <2>2. CASE q.own # 0
    <3>1. a = Then(AppendTurn(x, "user", disk), LAMBDA z : AppendTurn(z, "assistant", disk))
      BY <2>2
    <3> HIDE DEF a
    <3> QED
      BY <1>2, <3>1, IntakeAsksOf
  <2> QED
    BY <2>1, <2>2
<1>6. \/ /\ Become(q.run, y)
         /\ IF y.ok
            THEN /\ Go(r, [q EXCEPT !.at = "head", !.pass = 1, !.own = 0])
                 /\ pauses' = RetiredIf(pauses, q.own, TRUE)
            ELSE End(r, RetiredIf(pauses, q.own, FALSE))
      \/ /\ CanPause
         /\ \E t \in Texts :
              /\ Become(q.run, a)
              /\ End(r, IF a.ok THEN Retired(Registered(pauses, "intake", q.run, 0, t), q.own)
                        ELSE pauses)
  BY <1>3
<1>7. /\ Advances(runs[q.run], file[q.run], y.m, y.f)
      /\ Advances(runs[q.run], file[q.run], a.m, a.f)
  BY <1>2, <1>4, <1>5
<1> HIDE DEF x, y, a
<1> QED
  BY <1>1, <1>3, <1>4, <1>5, <1>6, <1>7, IntakeCloses, IntakeAsks

(***************************************************************************)
(* An operation on a pass is done: what was paused there is retired once   *)
(* the summary is committed.                                               *)
(***************************************************************************)
LEMMA PassLeaves ==
  ASSUME Inv, NEW r \in Requests, req[r].at \in {"head", "pass"}, touched' = touched,
         NEW n \in Passes, req[r].pass = n,
         NEW disk \in Disks, Disk(disk), NEW y, PassDone(Of(req[r].run), y, n),
         Become(req[r].run, y),
         IF y.ok
         THEN /\ Go(r, [req[r] EXCEPT !.at = "head", !.pass = n + 1, !.same = FALSE,
                                      !.own = IF req[r].same THEN 0 ELSE @])
              /\ pauses' = RetiredIf(pauses, IF req[r].same THEN req[r].own ELSE 0, TRUE)
         ELSE End(r, RetiredIf(pauses, req[r].own, FALSE))
  PROVE  Stepped(r)
<1> USE DEF Inv
<1> DEFINE q == req[r]
           R == q.run
           p == IF q.same THEN q.own ELSE 0
           left == IF q.same THEN 0 ELSE q.own
<1>1. q \in Request /\ HandlesOf(q, pauses) /\ (q.own # 0 => q.own \in Pauses)
  BY AtWork
<1>2. R \in RunIds
  BY <1>1 DEF HandlesOf
<1>3. /\ y \in Opened /\ Advances(runs[R], file[R], y.m, y.f)
      /\ y.ok => n <= Len(y.m.summaries)
  BY <1>2, OfFields DEF PassDone
<1>4. RunsGood /\ runs'[R] = y.m /\ file'[R] = y.f
  BY <1>2, <1>3, BecomeOf
<1>5. Well(pauses, runs', file') /\ upsets' \in 0..MaxUpsets
  BY WellStill, DiskOf
<1>6. CASE y.ok
  <2>1. p \in 0..MaxPauses /\ left \in 0..MaxPauses
    BY <1>1, DebuggingConstants DEF Request
  <2>2. p # 0 => HeirIn(p, pauses, runs', file', touched)
    <3>1. ASSUME p # 0
          PROVE  pauses[p].run = R /\ pauses[p].kind # "intake" /\ pauses[p].pass = n
      BY <1>1, <3>1 DEF HandlesOf
    <3> HIDE DEF p
    <3> QED
      BY <1>3, <1>4, <1>6, <3>1 DEF HeirIn
  <2>3. pauses' = Retired(pauses, p)
    BY <1>6 DEF RetiredIf
  <2> DEFINE o == [q EXCEPT !.at = "head", !.pass = n + 1, !.same = FALSE, !.own = left]
  <2>4. req' = [req EXCEPT ![r] = o]
    BY <1>6 DEF Go
  <2> HIDE DEF p, left
  <2>5. Well(Retired(pauses, p), runs', file') /\ Continues(pauses, Retired(pauses, p))
    BY <1>5, <2>1, <2>2, WellRetired
  <2>6. n + 1 \in 0..(PassCount + 1) /\ n + 1 \in 1..(PassCount + 1)
    BY DebuggingConstants DEF Passes
  <2>7. /\ o \in Request /\ o.at = "head" /\ o.pass = n + 1 /\ o.own = left /\ o.same = FALSE
        /\ o.run = R
    BY <1>1, <2>1, <2>6 DEF Request
  <2> HIDE DEF o
  <2>8. Well(pauses', runs', file') /\ Continues(pauses, pauses')
    BY <2>3, <2>5
  <2>9. left # 0 => Used(pauses', left) /\ pauses'[left].run = R
    <3>1. left # 0 => left \in Pauses /\ Used(pauses, left) /\ pauses[left].run = R
      BY <1>1 DEF HandlesOf, left
    <3> QED
      BY <2>8, <3>1 DEF Continues
  <2>10. HandlesOf(o, pauses')
    BY <1>2, <2>6, <2>7, <2>9 DEF HandlesOf
  <2> QED
    BY <1>4, <1>5, <2>4, <2>7, <2>8, <2>10 DEF Stepped
<1>7. CASE ~y.ok
  <2>1. End(r, pauses)
    BY <1>7 DEF RetiredIf
  <2> QED
    BY <1>4, <1>5, <2>1, EndOf
<1> QED
  BY <1>6, <1>7

(***************************************************************************)
(* A pass answers.                                                         *)
(***************************************************************************)
LEMMA PassAnswersStep ==
  ASSUME Inv, NEW r \in Requests, PassAnswers(r)
  PROVE  Stepped(r)
<1> USE DEF Inv
<1> DEFINE q == req[r]
<1>1. q \in Request /\ q.at = "pass" /\ q.run \in RunIds /\ q.pass \in Passes /\ touched' = touched
  BY AtWork DEF PassAnswers, HandlesOf
<1>2. PICK s \in Summaries, disk \in Disks :
        LET y == CommitPass(Of(q.run), q.pass, s, disk) IN
        /\ Disk(disk) /\ Become(q.run, y)
        /\ IF y.ok
           THEN /\ Go(r, [q EXCEPT !.at = "head", !.pass = @ + 1, !.same = FALSE,
                                   !.own = IF q.same THEN 0 ELSE @])
                /\ pauses' = RetiredIf(pauses, IF q.same THEN q.own ELSE 0, TRUE)
           ELSE End(r, RetiredIf(pauses, q.own, FALSE))
  BY DEF PassAnswers, Disks
<1> DEFINE y == CommitPass(Of(q.run), q.pass, s, disk)
           n == q.pass
<1>3. PassDone(Of(q.run), y, n)
  BY <1>1, OfFields, CommitPassOf
<1>4. /\ Disk(disk) /\ Become(q.run, y)
      /\ IF y.ok
         THEN /\ Go(r, [q EXCEPT !.at = "head", !.pass = n + 1, !.same = FALSE,
                                 !.own = IF q.same THEN 0 ELSE @])
              /\ pauses' = RetiredIf(pauses, IF q.same THEN q.own ELSE 0, TRUE)
         ELSE End(r, RetiredIf(pauses, q.own, FALSE))
  BY <1>1, <1>2 DEF Request
<1> HIDE DEF y
<1> QED
  BY <1>1, <1>3, <1>4, PassLeaves

(***************************************************************************)
(* The head of the pass loop.                                              *)
(***************************************************************************)
LEMMA NextPassStep ==
  ASSUME Inv, NEW r \in Requests, NextPass(r)
  PROVE  Stepped(r)
<1> USE DEF Inv
<1> DEFINE q == req[r]
           n == q.pass
           x == Of(q.run)
<1>1. /\ q \in Request /\ HandlesOf(q, pauses) /\ q.at = "head" /\ n <= PassCount
      /\ touched' = touched
  BY AtWork DEF NextPass
<1>2. q.run \in RunIds /\ n \in 1..(PassCount + 1)
  BY <1>1 DEF HandlesOf
<1>3. n \in Passes
  BY <1>1, <1>2, DebuggingConstants DEF Passes
<1>4. CASE x.m.pending[n] # None
  <2>1. PICK disk \in Disks :
          LET y == RetryPass(x, n, disk) IN
          /\ Disk(disk) /\ Become(q.run, y)
          /\ IF y.ok
             THEN /\ Go(r, [q EXCEPT !.pass = n + 1, !.same = FALSE,
                                     !.own = IF q.same THEN 0 ELSE @])
                  /\ pauses' = RetiredIf(pauses, IF q.same THEN q.own ELSE 0, TRUE)
             ELSE End(r, RetiredIf(pauses, q.own, FALSE))
    BY <1>4 DEF NextPass, Disks
  <2> DEFINE y == RetryPass(x, n, disk)
  <2>2. PassDone(x, y, n)
    BY <1>2, <1>3, OfFields, RetryPassOf
  <2>3. [q EXCEPT !.pass = n + 1, !.same = FALSE, !.own = IF q.same THEN 0 ELSE @]
          = [q EXCEPT !.at = "head", !.pass = n + 1, !.same = FALSE,
                      !.own = IF q.same THEN 0 ELSE @]
    BY <1>1 DEF Request
  <2>4. /\ Disk(disk) /\ Become(q.run, y)
        /\ IF y.ok
           THEN /\ Go(r, [q EXCEPT !.at = "head", !.pass = n + 1, !.same = FALSE,
                                   !.own = IF q.same THEN 0 ELSE @])
                /\ pauses' = RetiredIf(pauses, IF q.same THEN q.own ELSE 0, TRUE)
           ELSE End(r, RetiredIf(pauses, q.own, FALSE))
    BY <2>1, <2>3
  <2> HIDE DEF y
  <2> QED
    BY <1>1, <1>3, <2>2, <2>4, PassLeaves
<1>5. CASE ~(x.m.pending[n] # None)
  <2>1. /\ UNCHANGED <<runs, file, upsets>>
        /\ \/ Go(r, [q EXCEPT !.at = "pass"]) /\ UNCHANGED pauses
           \/ End(r, pauses)
    BY <1>5 DEF NextPass
  <2>2. CASE Go(r, [q EXCEPT !.at = "pass"]) /\ UNCHANGED pauses
    <3> DEFINE o == [q EXCEPT !.at = "pass"]
    <3>1. /\ o \in Request /\ o.at = "pass" /\ o.run = q.run /\ o.pass = n /\ o.own = q.own
          /\ o.same = q.same
      BY <1>1 DEF Request
    <3>2. Go(r, o) /\ UNCHANGED <<runs, file, pauses, upsets, touched>>
      BY <1>1, <2>1, <2>2
    <3> HIDE DEF o
    <3>3. HandlesOf(o, pauses)
      BY <1>1, <1>3, <3>1 DEF HandlesOf
    <3> QED
      BY <3>1, <3>2, <3>3, OnlyGoes
  <2>3. CASE End(r, pauses)
    BY <1>1, <2>1, <2>3, OnlyEnds
  <2> QED
    BY <2>1, <2>2, <2>3
<1> QED
  BY <1>4, <1>5

(***************************************************************************)
(* A pass pauses: the new pause is the heir of the one it came from.       *)
(***************************************************************************)
LEMMA PassPausesStep ==
  ASSUME Inv, NEW r \in Requests, PassPauses(r)
  PROVE  Stepped(r)
<1> USE DEF Inv
<1> DEFINE q == req[r]
           R == q.run
           n == q.pass
           p == IF q.same THEN q.own ELSE 0
<1>1. /\ q \in Request /\ HandlesOf(q, pauses) /\ (q.own # 0 => q.own \in Pauses)
      /\ q.at = "pass" /\ CanPause /\ UNCHANGED <<runs, file, upsets, touched>>
  BY AtWork DEF PassPauses
<1>2. R \in RunIds /\ n \in Passes /\ n \in 0..PassCount
  BY <1>1 DEF HandlesOf, Passes
<1>3. PICK k \in PauseKinds \ {"intake"}, t \in Texts \cup {None} :
        End(r, Retired(Registered(pauses, k, R, n, t), p))
  BY DEF PassPauses
<1>4. k \in {"intake", "question", "tool"}
  BY DebuggingConstants
<1> DEFINE ps == Registered(pauses, k, R, n, t)
<1>5. /\ Well(ps, runs', file')
      /\ \A s \in Pauses : Used(pauses, s) /\ pauses[s].run = R =>
           HeirIn(s, ps, runs', file', touched)
  <2> HIDE DEF R, n
  <2> QED
    BY <1>1, <1>2, <1>4, WellRegistered
<1> HIDE DEF ps
<1>6. p \in 0..MaxPauses /\ (p # 0 => HeirIn(p, ps, runs', file', touched))
  BY <1>1, <1>5, DebuggingConstants DEF HandlesOf, Pauses
<1> HIDE DEF p
<1>7. Well(Retired(ps, p), runs', file')
  BY <1>5, <1>6, WellRetired
<1>8. End(r, Retired(ps, p)) /\ RunsGood /\ upsets' \in 0..MaxUpsets
  BY <1>1, <1>3, NoRunMoves DEF ps, TypeOK
<1> QED
  BY <1>1, <1>7, <1>8, EndOf

(***************************************************************************)
(* The loop is over, and the final stage answers.                          *)
(***************************************************************************)
LEMMA FinalLeaves ==
  ASSUME Inv, NEW r \in Requests, req[r].run \in RunIds, touched' = touched,
         NEW disk \in Disks, Disk(disk), NEW y \in Opened,
         Advances(Of(req[r].run).m, Of(req[r].run).f, y.m, y.f),
         Become(req[r].run, y), End(r, pauses)
  PROVE  Stepped(r)
<1> USE DEF Inv
<1>1. RunsGood
  BY OfFields, BecomeOf
<1>2. Well(pauses, runs', file') /\ upsets' \in 0..MaxUpsets
  BY WellStill, DiskOf
<1> QED
  BY <1>1, <1>2, EndOf

(***************************************************************************)
(* The final stage answers.                                                *)
(***************************************************************************)
LEMMA FinalAnswersStep ==
  ASSUME Inv, NEW r \in Requests, FinalAnswers(r)
  PROVE  Stepped(r)
<1> USE DEF Inv
<1>1. req[r].run \in RunIds /\ touched' = touched /\ End(r, pauses)
  BY AtWork DEF FinalAnswers, HandlesOf
<1>2. PICK s \in Summaries, disk \in Disks :
        Disk(disk) /\ Become(req[r].run, CommitFinal(Of(req[r].run), s, disk))
  BY DEF FinalAnswers, Disks
<1> DEFINE y == CommitFinal(Of(req[r].run), s, disk)
<1>3. y \in Opened /\ Advances(Of(req[r].run).m, Of(req[r].run).f, y.m, y.f)
  BY <1>1, OfFields, CommitFinalOf
<1>4. Disk(disk) /\ Become(req[r].run, y)
  BY <1>2
<1> HIDE DEF y
<1> QED
  BY <1>1, <1>3, <1>4, FinalLeaves

(***************************************************************************)
(* A pending final report is persisted, an old one returned.               *)
(***************************************************************************)
LEMMA AfterPassesStep ==
  ASSUME Inv, NEW r \in Requests, AfterPasses(r)
  PROVE  Stepped(r)
<1> USE DEF Inv
<1> DEFINE q == req[r]
           x == Of(q.run)
           pends == ~(~q.stream /\ x.m.final # None) /\ x.m.finalPending # None
<1>1. q \in Request /\ HandlesOf(q, pauses) /\ q.at = "head" /\ touched' = touched
  BY AtWork DEF AfterPasses
<1>2. q.run \in RunIds
  BY <1>1 DEF HandlesOf
<1>3. CASE pends
  <2>1. PICK disk \in Disks :
          Disk(disk) /\ Become(q.run, RetryFinal(x, disk)) /\ End(r, pauses)
    BY <1>3 DEF AfterPasses, Disks
  <2> DEFINE y == RetryFinal(x, disk)
  <2>2. y \in Opened /\ Advances(x.m, x.f, y.m, y.f)
    BY <1>2, OfFields, RetryFinalOf
  <2>3. Disk(disk) /\ Become(q.run, y) /\ End(r, pauses)
    BY <2>1
  <2> HIDE DEF y
  <2> QED
    BY <1>1, <1>2, <2>2, <2>3, FinalLeaves
<1>4. CASE ~pends
  <2>1. /\ UNCHANGED <<runs, file, upsets>>
        /\ \/ Go(r, [q EXCEPT !.at = "final"]) /\ UNCHANGED pauses
           \/ End(r, pauses)
    BY <1>4 DEF AfterPasses
  <2>2. CASE Go(r, [q EXCEPT !.at = "final"]) /\ UNCHANGED pauses
    <3> DEFINE o == [q EXCEPT !.at = "final"]
    <3>1. /\ o \in Request /\ o.at = "final" /\ o.run = q.run /\ o.pass = q.pass
          /\ o.own = q.own /\ o.same = q.same
      BY <1>1 DEF Request
    <3>2. Go(r, o) /\ UNCHANGED <<runs, file, pauses, upsets, touched>>
      BY <1>1, <2>1, <2>2
    <3> HIDE DEF o
    <3>3. HandlesOf(o, pauses)
      BY <1>1, <3>1 DEF HandlesOf
    <3> QED
      BY <3>1, <3>2, <3>3, OnlyGoes
  <2>3. CASE End(r, pauses)
    BY <1>1, <2>1, <2>3, OnlyEnds
  <2> QED
    BY <2>1, <2>2, <2>3
<1> QED
  BY <1>3, <1>4

(***************************************************************************)
(* Every step of a handler, one after another.                             *)
(***************************************************************************)
LEMMA HandleStep ==
  ASSUME Inv, NEW r \in Requests, Handle(r)
  PROVE  Stepped(r)
<1>1. CASE Arrive(r)
  BY <1>1, ArriveStep
<1>2. CASE Claim(r)
  BY <1>2, ClaimStep
<1>3. CASE Refuse(r)
  BY <1>3, OnlyEnds DEF Refuse
<1>4. CASE Recover(r)
  BY <1>4, RecoverStep
<1>5. CASE FollowUp(r)
  BY <1>5, FollowUpStep
<1>6. CASE CreateRun(r)
  BY <1>6, CreateRunStep
<1>7. CASE IntakeAnswers(r)
  BY <1>7, IntakeAnswersStep
<1>8. CASE NextPass(r)
  BY <1>8, NextPassStep
<1>9. CASE AfterPasses(r)
  BY <1>9, AfterPassesStep
<1>10. CASE PassPauses(r)
  BY <1>10, PassPausesStep
<1>11. CASE PassAnswers(r)
  BY <1>11, PassAnswersStep
<1>12. CASE FinalAnswers(r)
  BY <1>12, FinalAnswersStep
<1>13. CASE Leave(r)
  BY <1>13, OnlyEnds DEF Leave
<1> QED
  BY <1>1, <1>2, <1>3, <1>4, <1>5, <1>6, <1>7, <1>8, <1>9, <1>10, <1>11, <1>12, <1>13
     DEF Handle

-----------------------------------------------------------------------------
(* The invariant.                                                           *)

(***************************************************************************)
(* An heir stays one, as long as the runs go on and the pauses stay.       *)
(***************************************************************************)
LEMMA HeirStays ==
  ASSUME NEW p \in Pauses, NEW ps, NEW qs, NEW ms, NEW fs, NEW ts,
         NEW ns \in [RunIds -> RunState], NEW gs, NEW us,
         ms \in [RunIds -> RunState], ps[p].run \in RunIds, Used(ps, p),
         Continues(ps, qs), ts \subseteq us,
         \A R \in RunIds :
           /\ ms[R].frozen => ns[R].frozen /\ (gs[R].form = fs[R].form \/ R \in us)
           /\ Extends(ns[R].summaries, ms[R].summaries),
         HeirIn(p, ps, ms, fs, ts), qs \in [Pauses -> Pause]
  PROVE  HeirIn(p, qs, ns, gs, us)
<1> DEFINE R == ps[p].run
<1>1. qs[p].run = R /\ qs[p].kind = ps[p].kind /\ qs[p].pass = ps[p].pass
  BY DEF Continues
<1> HIDE DEF R
<1>2. CASE \E q \in Pauses : q > p /\ ps[q].run = R /\ Used(ps, q)
  <2>1. PICK q \in Pauses : q > p /\ ps[q].run = R /\ Used(ps, q)
    BY <1>2
  <2>2. qs[q].run = R /\ Used(qs, q)
    BY <2>1 DEF Continues
  <2> QED
    BY <1>1, <2>1, <2>2 DEF HeirIn
<1>3. CASE ps[p].kind = "intake" /\ ms[R].frozen /\ (fs[R].form = "passes" \/ R \in ts)
  BY <1>1, <1>3 DEF HeirIn, R
<1>4. CASE ps[p].kind # "intake" /\ ps[p].pass <= Len(ms[R].summaries)
  <2>1. Len(ms[R].summaries) <= Len(ns[R].summaries)
    BY DEF Extends, R
  <2>2. Len(ms[R].summaries) \in Nat /\ Len(ns[R].summaries) \in Nat /\ ps[p].pass \in 0..PassCount
    <3>1. ms[R] \in RunState /\ ns[R] \in RunState
      BY DEF R
    <3>2. qs[p].pass \in 0..PassCount
      BY PauseFields
    <3> QED
      BY <1>1, <3>1, <3>2, RunFields
  <2>3. ps[p].pass <= Len(ns[R].summaries)
    BY <1>4, <2>1, <2>2
  <2> QED
    BY <1>1, <1>4, <2>3 DEF HeirIn
<1> QED
  BY <1>2, <1>3, <1>4 DEF HeirIn, R

(***************************************************************************)
(* What requests hold stays theirs.                                        *)
(***************************************************************************)
LEMMA HandlesStay ==
  ASSUME NEW q \in Request, NEW ps, NEW qs, HandlesOf(q, ps), Continues(ps, qs)
  PROVE  HandlesOf(q, qs)
<1>1. q.own \in 0..MaxPauses
  BY RequestFields
<1>2. ASSUME q.own # 0
      PROVE  /\ Used(qs, q.own) /\ qs[q.own].run = ps[q.own].run
             /\ qs[q.own].kind = ps[q.own].kind /\ qs[q.own].pass = ps[q.own].pass
  <2>1. q.own \in Pauses
    BY <1>1, <1>2, DebuggingConstants DEF Pauses
  <2> QED
    BY <1>2, <2>1 DEF HandlesOf, Continues
<1> QED
  BY <1>2 DEF HandlesOf

(***************************************************************************)
(* The property is what the heirs are for.                                 *)
(***************************************************************************)
LEMMA HeirMeans ==
  RetiredHasHeir <=>
    \A p \in Pauses : pauses[p].state = "retired" => HeirIn(p, pauses, runs, file, touched)
BY DEF RetiredHasHeir, HeirIn, Used

(***************************************************************************)
(* A step of a handler keeps the invariant.                                *)
(***************************************************************************)
LEMMA SteppedKeeps ==
  ASSUME Inv, NEW r \in Requests, Stepped(r)
  PROVE  Inv'
<1> USE DEF Inv
<1>1. /\ RunsGood /\ Well(pauses', runs', file') /\ upsets' \in 0..MaxUpsets
      /\ touched' = touched
  BY DEF Stepped
<1>2. PICK q \in Request : req' = [req EXCEPT ![r] = q] /\ HandlesOf(q, pauses')
  BY DEF Stepped
<1>3. pauses' \in [Pauses -> Pause] /\ PauseInv(pauses') /\ Continues(pauses, pauses')
  BY <1>1 DEF Well
<1>4. TypeOK'
  <2>1. req' \in [Requests -> Request]
    BY <1>2 DEF TypeOK
  <2> QED
    BY <1>1, <1>3, <2>1 DEF TypeOK, RunsGood
<1>5. RunsInv'
  <2>1. ASSUME NEW R \in RunIds
        PROVE  Sound(runs'[R]) /\ (R \notin touched' => Backed(runs'[R], file'[R]))
    <3>1. Advances(runs[R], file[R], runs'[R], file'[R])
      BY <1>1 DEF RunsGood
    <3>2. R \notin touched' => Backed(runs[R], file[R])
      BY <1>1 DEF RunsInv
    <3> QED
      BY <3>1, <3>2 DEF Advances
  <2> QED
    BY <2>1 DEF RunsInv
<1>6. HandlerInv'
  <2>1. ASSUME NEW s \in Requests PROVE HandlesOf(req'[s], pauses')
    <3>1. CASE s = r
      BY <1>2, <3>1 DEF TypeOK
    <3>2. CASE s # r
      <4>1. req'[s] = req[s] /\ req[s] \in Request /\ HandlesOf(req[s], pauses)
        BY <1>2, <3>2 DEF TypeOK, HandlerInv
      <4>2. HandlesOf(req[s], pauses')
        BY <1>3, <4>1, HandlesStay
      <4> QED
        BY <4>1, <4>2
    <3> QED
      BY <3>1, <3>2
  <2> QED
    BY <2>1 DEF HandlerInv
<1>7. RetiredHasHeir'
  <2>1. ASSUME NEW p \in Pauses, pauses'[p].state = "retired"
        PROVE  HeirIn(p, pauses', runs', file', touched')
    <3>1. CASE HeirIn(p, pauses', runs', file', touched)
      BY <1>1, <3>1
    <3>2. CASE pauses[p].state = "retired"
      <4>1. Used(pauses, p) /\ pauses[p].run \in RunIds /\ HeirIn(p, pauses, runs, file, touched)
        BY <3>2, HeirMeans DEF Used, PauseInv
      <4>2. ASSUME NEW R \in RunIds
            PROVE  /\ runs[R].frozen =>
                        runs'[R].frozen /\ (file'[R].form = file[R].form \/ R \in touched')
                   /\ Extends(runs'[R].summaries, runs[R].summaries)
        BY <1>1 DEF RunsGood, Advances, Grows, Cognition
      <4>3. runs \in [RunIds -> RunState] /\ runs' \in [RunIds -> RunState]
        BY <1>1 DEF TypeOK, RunsGood
      <4>4. touched \subseteq touched'
        BY <1>1
      <4> QED
        BY <1>3, <4>1, <4>2, <4>3, <4>4, HeirStays
    <3> QED
      BY <1>1, <2>1, <3>1, <3>2 DEF Well
  <2> QED
    BY <2>1 DEF RetiredHasHeir, HeirIn, Used
<1> QED
  BY <1>3, <1>4, <1>5, <1>6, <1>7

(***************************************************************************)
(* So does a pause that expires: an expired pause is used.                 *)
(***************************************************************************)
LEMMA ExpireKeeps ==
  ASSUME Inv, NEW p \in Pauses, Expire(p)
  PROVE  Inv'
<1> USE DEF Inv
<1> DEFINE e == [pauses[p] EXCEPT !.state = "expired"]
<1>1. /\ pauses' = [pauses EXCEPT ![p] = e] /\ UNCHANGED <<runs, file, req, upsets, touched>>
      /\ pauses[p].state = "live" /\ pauses \in [Pauses -> Pause]
  BY DEF Expire, Live, TypeOK
<1>2. /\ e \in Pause /\ e.state = "expired" /\ e.run = pauses[p].run
      /\ e.kind = pauses[p].kind /\ e.pass = pauses[p].pass
  BY <1>1 DEF Pause
<1> HIDE DEF e
<1>3. /\ pauses' \in [Pauses -> Pause]
      /\ \A q \in Pauses : pauses'[q] = IF q = p THEN e ELSE pauses[q]
  BY <1>1, <1>2
<1>4. SameUse(pauses, pauses')
  BY <1>1, <1>2, <1>3 DEF SameUse, Used
<1>5. PauseInv(pauses') /\ Continues(pauses, pauses')
  BY <1>4, SameUseOf
<1>6. TypeOK' /\ RunsInv'
  BY <1>1, <1>3 DEF TypeOK, RunsInv
<1>7. HandlerInv'
  <2>1. ASSUME NEW r \in Requests PROVE HandlesOf(req'[r], pauses')
    <3>1. req'[r] = req[r] /\ req[r] \in Request /\ HandlesOf(req[r], pauses)
      BY <1>1 DEF TypeOK, HandlerInv
    <3>2. HandlesOf(req[r], pauses')
      BY <1>5, <3>1, HandlesStay
    <3> QED
      BY <3>1, <3>2
  <2> QED
    BY <2>1 DEF HandlerInv
<1>8. RetiredHasHeir'
  <2>1. ASSUME NEW q \in Pauses, pauses'[q].state = "retired"
        PROVE  HeirIn(q, pauses', runs', file', touched')
    <3>1. pauses[q].state = "retired"
      BY <1>2, <1>3, <2>1
    <3>2. HeirIn(q, pauses, runs, file, touched)
      BY <3>1, HeirMeans
    <3>3. HeirIn(q, pauses', runs, file, touched)
      <4>1. /\ pauses'[q].run = pauses[q].run /\ pauses'[q].kind = pauses[q].kind
            /\ pauses'[q].pass = pauses[q].pass
            /\ \A s \in Pauses : pauses'[s].run = pauses[s].run
                                 /\ (Used(pauses, s) <=> Used(pauses', s))
        BY <1>4 DEF SameUse
      <4> QED
        BY <3>2, <4>1 DEF HeirIn
    <3> QED
      BY <1>1, <3>3
  <2> QED
    BY <2>1 DEF RetiredHasHeir, HeirIn, Used
<1> QED
  BY <1>5, <1>6, <1>7, <1>8

(***************************************************************************)
(* And a report that somebody else changes.                                *)
(***************************************************************************)
LEMMA TouchKeeps ==
  ASSUME Inv, NEW R \in RunIds, Touch(R)
  PROVE  Inv'
<1> USE DEF Inv
<1>0. /\ runs \in [RunIds -> RunState] /\ file \in [RunIds -> ReportFile]
      /\ upsets \in 0..MaxUpsets /\ touched \subseteq RunIds
  BY DEF TypeOK
<1>1. PICK f \in ReportFile : file' = [file EXCEPT ![R] = f]
  <2>1. PICK f \in {Only("foreign")}
              \cup (IF runs[R].frozen THEN {Through(runs[R], n) : n \in 0..Len(runs[R].summaries)}
                    ELSE {}) : file' = [file EXCEPT ![R] = f]
    BY DEF Touch
  <2>2. CASE f = Only("foreign")
    BY <2>1, <2>2, ReportTypes
  <2>3. CASE \E n \in 0..Len(runs[R].summaries) : f = Through(runs[R], n)
    <3>1. PICK n \in 0..Len(runs[R].summaries) : f = Through(runs[R], n)
      BY <2>3
    <3>2. runs[R] \in RunState /\ n \in Nat /\ n <= Len(runs[R].summaries)
      BY <1>0, RunFields
    <3>3. f \in ReportFile
      BY <3>1, <3>2, ReportTypes
    <3> QED
      BY <2>1, <3>3
  <2> QED
    BY <2>1, <2>2, <2>3
<1>2. UNCHANGED <<runs, pauses, req>> /\ touched' = touched \cup {R} /\ upsets' = upsets + 1
      /\ upsets < MaxUpsets
  BY DEF Touch
<1>3. file' \in [RunIds -> ReportFile] /\ \A S \in RunIds : S # R => file'[S] = file[S]
  BY <1>0, <1>1
<1>4. TypeOK'
  <2>1. upsets' \in 0..MaxUpsets
    BY <1>0, <1>2, DebuggingConstants
  <2> QED
    BY <1>0, <1>2, <1>3, <2>1 DEF TypeOK
<1>5. RunsInv'
  BY <1>2, <1>3 DEF RunsInv
<1>6. PauseInv(pauses') /\ HandlerInv'
  BY <1>2 DEF HandlerInv
<1>7. RetiredHasHeir'
  <2>1. ASSUME NEW p \in Pauses, pauses[p].state = "retired"
        PROVE  HeirIn(p, pauses, runs, file', touched')
    <3>1. Used(pauses, p) /\ pauses[p].run \in RunIds /\ HeirIn(p, pauses, runs, file, touched)
      BY <2>1, HeirMeans DEF Used, PauseInv
    <3>2. pauses[p].run = R \/ file'[pauses[p].run] = file[pauses[p].run]
      BY <1>3, <3>1
    <3> QED
      BY <1>2, <3>1, <3>2 DEF HeirIn
  <2> QED
    BY <1>2, <2>1 DEF RetiredHasHeir, HeirIn, Used
<1> QED
  BY <1>4, <1>5, <1>6, <1>7

(***************************************************************************)
(* And nothing at all.                                                     *)
(***************************************************************************)
LEMMA StutterKeeps ==
  ASSUME Inv, UNCHANGED vars
  PROVE  Inv'
BY DEF Inv, vars, TypeOK, RunsInv, HandlerInv, RetiredHasHeir

(***************************************************************************)
(* The invariant holds at first.                                           *)
(***************************************************************************)
LEMMA InitInv == Init => Inv
<1> SUFFICES ASSUME Init PROVE Inv
  OBVIOUS
<1>1. MaxRuns \in Nat /\ MaxPauses \in Nat /\ MaxUpsets \in Nat /\ PassCount \in Nat \ {0}
  BY DebuggingConstants
<1> DEFINE m == [live |-> FALSE, turns |-> 0, frozen |-> FALSE, summaries |-> <<>>,
                 pending |-> [n \in Passes |-> None], finalPending |-> None, final |-> None,
                 print |-> NoBody]
           e == [state |-> "unused", kind |-> "intake", run |-> 0, pass |-> 0,
                 text |-> None, inFlight |-> FALSE]
<1>2. m \in RunState
  <2>1. [n \in Passes |-> None] \in [Passes -> Maybe] /\ None \in Maybe /\ <<>> \in Seq(Summaries)
    BY DEF Maybe
  <2> HIDE DEF Maybe
  <2> QED
    BY <2>1 DEF RunState
<1>3. e \in Pause
  BY <1>1 DEF Pause
<1>4. /\ runs = [R \in RunIds |-> m] /\ file = [R \in RunIds |-> Only("none")]
      /\ pauses = [p \in Pauses |-> e] /\ req = [r \in Requests |-> Idle]
      /\ upsets = 0 /\ touched = {}
  BY DEF Init
<1>5. m.frozen = FALSE /\ m.summaries = <<>> /\ m.final = None
  OBVIOUS
<1>6. e.state = "unused"
  OBVIOUS
<1> HIDE DEF m, e
<1>7. TypeOK
  <2>1. runs \in [RunIds -> RunState] /\ pauses \in [Pauses -> Pause]
    BY <1>2, <1>3, <1>4
  <2>2. file \in [RunIds -> ReportFile]
    BY <1>4, ReportTypes
  <2>3. req \in [Requests -> Request]
    BY <1>4, IdleOf
  <2>4. upsets \in 0..MaxUpsets /\ touched \subseteq RunIds
    BY <1>1, <1>4
  <2> QED
    BY <2>1, <2>2, <2>3, <2>4 DEF TypeOK
<1>8. RunsInv
  <2>1. Len(<<>>) = 0 /\ 0 <= PassCount
    BY <1>1
  <2> QED
    BY <1>4, <1>5, <2>1 DEF RunsInv, Sound, Backed
<1>9. PauseInv(pauses)
  <2>1. \A p \in Pauses : ~Used(pauses, p) /\ ~(p <= 0)
    BY <1>4, <1>6 DEF Used, Pauses
  <2>2. 0 \in 0..MaxPauses
    BY <1>1
  <2> QED
    BY <2>1, <2>2 DEF PauseInv
<1>10. HandlerInv
  BY <1>4, IdleOf DEF HandlerInv
<1>11. RetiredHasHeir
  BY <1>4, <1>6 DEF RetiredHasHeir
<1> QED
  BY <1>7, <1>8, <1>9, <1>10, <1>11 DEF Inv

(***************************************************************************)
(* Every step keeps it.                                                    *)
(***************************************************************************)
LEMMA NextInv ==
  ASSUME Inv, [Next]_vars
  PROVE  Inv'
<1>1. CASE \E r \in Requests : Handle(r)
  BY <1>1, HandleStep, SteppedKeeps
<1>2. CASE \E p \in Pauses : Expire(p)
  BY <1>2, ExpireKeeps
<1>3. CASE \E R \in RunIds : Touch(R)
  BY <1>3, TouchKeeps
<1>4. CASE UNCHANGED vars
  BY <1>4, StutterKeeps
<1> QED
  BY <1>1, <1>2, <1>3, <1>4 DEF Next

-----------------------------------------------------------------------------
(* The theorems.                                                            *)

(***************************************************************************)
(* The lane keeps its invariant: a report nobody else changed has what is  *)
(* committed, a request holds a pause of the run it works on, and a pause  *)
(* that is retired has an heir.                                            *)
(***************************************************************************)
THEOREM LaneInvariant == Spec => []Inv
<1>1. Inv /\ [Next]_vars => Inv'
  BY NextInv
<1> QED
  BY InitInv, <1>1, PTL DEF Spec

(***************************************************************************)
(* Every variable has its type.                                            *)
(***************************************************************************)
THEOREM LaneTypes == Spec => []TypeOK
<1>1. Inv => TypeOK
  BY DEF Inv
<1> QED
  BY LaneInvariant, <1>1, PTL

(***************************************************************************)
(* A report nobody else touched has every committed summary at its place   *)
(* and, once committed, the final report, whatever the disk does: the code *)
(* replaces the report before it commits in memory.                        *)
(***************************************************************************)
THEOREM DurableTheorem == Spec => []CommittedIsDurable
<1>1. Inv => CommittedIsDurable
  BY DEF Inv, RunsInv, CommittedIsDurable, Backed
<1> QED
  BY LaneInvariant, <1>1, PTL

(***************************************************************************)
(* A pause is retired only when its intake is frozen, its pass committed,  *)
(* or a later pause of the run registered: paused work is never dropped    *)
(* (_retire_pending_debugging_user_resume).                                *)
(***************************************************************************)
THEOREM HeirTheorem == Spec => []RetiredHasHeir
<1>1. Inv => RetiredHasHeir
  BY DEF Inv
<1> QED
  BY LaneInvariant, <1>1, PTL

(***************************************************************************)
(* From the freeze on the lane does nothing to a report but extend it,     *)
(* also when several requests work on one run.                             *)
(***************************************************************************)
THEOREM ReportGrowsTheorem == Spec => ReportOnlyGrows
<1>1. ASSUME Inv, [Next]_vars, NEW R \in RunIds, runs[R].frozen, touched' = touched
      PROVE  /\ file'[R].form = file[R].form /\ file'[R].turns = file[R].turns
             /\ Extends(file'[R].passes, file[R].passes)
             /\ file[R].final # None => file'[R].final = file[R].final
  <2>1. CASE file' = file
    <3>1. file[R] \in ReportFile
      BY <1>1 DEF Inv, TypeOK
    <3>2. Extends(file[R].passes, file[R].passes)
      BY <3>1, FileFields, ExtendsSelf
    <3> QED
      BY <2>1, <3>2
  <2>2. CASE \E r \in Requests : Handle(r)
    <3>1. RunsGood
      BY <1>1, <2>2, HandleStep DEF Stepped
    <3> QED
      BY <1>1, <3>1 DEF RunsGood, Advances, Grows
  <2>3. CASE \E S \in RunIds : Touch(S)
    BY <1>1, <2>3 DEF Touch
  <2> QED
    BY <1>1, <2>1, <2>2, <2>3 DEF Next, Expire, vars
<1>2. Inv /\ [Next]_vars =>
        [\A R \in RunIds :
           runs[R].frozen /\ touched' = touched =>
             /\ file'[R].form = file[R].form /\ file'[R].turns = file[R].turns
             /\ Extends(file'[R].passes, file[R].passes)
             /\ file[R].final # None => file'[R].final = file[R].final]_vars
  BY <1>1
<1> QED
  BY LaneInvariant, <1>2, PTL DEF Spec, ReportOnlyGrows

(***************************************************************************)
(* Completed cognition is never lost or replaced: what is pending stays so *)
(* until it is committed word for word, and what is committed stays.       *)
(***************************************************************************)
THEOREM CognitionTheorem == Spec => CognitionKept
<1>1. ASSUME Inv, [Next]_vars, NEW R \in RunIds
      PROVE  Cognition(runs[R], runs'[R])
  <2>1. CASE runs' = runs
    BY <1>1, <2>1, SelfAdvances DEF Inv, Advances
  <2>2. CASE \E r \in Requests : Handle(r)
    <3>1. RunsGood
      BY <1>1, <2>2, HandleStep DEF Stepped
    <3> QED
      BY <3>1 DEF RunsGood, Advances
  <2> QED
    BY <1>1, <2>1, <2>2 DEF Next, Expire, Touch, vars
<1>2. ASSUME NEW R \in RunIds, Cognition(runs[R], runs'[R])
      PROVE  /\ \A n \in Passes :
                  LET s == runs[R].pending[n] IN
                  s # None /\ runs'[R].pending[n] # s =>
                    n <= Len(runs'[R].summaries) /\ runs'[R].summaries[n] = s
             /\ Extends(runs'[R].summaries, runs[R].summaries)
             /\ runs[R].finalPending \notin {None, runs'[R].finalPending} =>
                  runs'[R].final = runs[R].finalPending
             /\ runs[R].final # None => runs'[R].final = runs[R].final
  BY <1>2 DEF Cognition
<1>3. Inv /\ [Next]_vars =>
        [\A R \in RunIds :
           /\ \A n \in Passes :
                LET s == runs[R].pending[n] IN
                s # None /\ runs'[R].pending[n] # s =>
                  n <= Len(runs'[R].summaries) /\ runs'[R].summaries[n] = s
           /\ Extends(runs'[R].summaries, runs[R].summaries)
           /\ runs[R].finalPending \notin {None, runs'[R].finalPending} =>
                runs'[R].final = runs[R].finalPending
           /\ runs[R].final # None => runs'[R].final = runs[R].final]_vars
  BY <1>1, <1>2
<1> QED
  BY LaneInvariant, <1>3, PTL DEF Spec, CognitionKept

=============================================================================
