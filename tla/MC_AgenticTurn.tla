--------------------------- MODULE MC_AgenticTurn ---------------------------
EXTENDS AgenticTurn, TLC

\* Requests, checkpoints and answers are interchangeable, and the properties
\* are invariants and step properties.
Symmetry ==
  Permutations(Requests) \cup Permutations(Checkpoints) \cup Permutations(Answers)
=============================================================================
