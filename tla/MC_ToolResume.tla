--------------------------- MODULE MC_ToolResume ---------------------------
(* Small instances of ToolResume, and its refinement of ResumeOnce.         *)
EXTENDS ToolResume

CONSTANTS i1, i2, ra, rb

Result(f) == [i \in CallIds |-> IF i \in DOMAIN f THEN f[i] ELSE NoResult]
Msg(last, f, rep) == [lastTool |-> last, reply |-> Result(f), repeated |-> rep]

\* A user turn; the results of i1, of i2, of both; a substituted result; a
\* repeated result; and a new user turn that replays an old result.
MCBodies ==
  { Msg(FALSE, << >>, {}),
    Msg(TRUE, [i \in {i1} |-> ra], {}),
    Msg(TRUE, [i \in {i1} |-> rb], {}),
    Msg(TRUE, [i \in {i1, i2} |-> ra], {}),
    Msg(TRUE, [i \in {i1, i2} |-> ra], {i2}),
    Msg(FALSE, [i \in {i1} |-> ra], {}) }

\* What a client sends that only ever answers i1.
MCPlainBodies ==
  { Msg(FALSE, << >>, {}), Msg(TRUE, [i \in {i1} |-> ra], {}) }
=============================================================================
