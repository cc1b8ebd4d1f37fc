-------------------------- MODULE MC_DebuggingRun --------------------------
EXTENDS DebuggingRun, TLC

\* Requests are interchangeable, and the properties are invariants and step
\* properties.
Symmetry == Permutations(Requests)
=============================================================================
