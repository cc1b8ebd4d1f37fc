---------------------------- MODULE TurnOutcome ----------------------------
(***************************************************************************)
(* What the forensic journal promises about an agentic turn: it is opened  *)
(* once, gets one answer that is never replaced, and its memory is         *)
(* released only after the turn is complete and only beside that answer.   *)
(* Nothing here is lost in a crash.                                        *)
(***************************************************************************)
CONSTANTS Turns, Answers, NoAnswer

VARIABLES outcome,   \* of each turn
          answer,    \* its answer, once frozen
          told       \* the answers released together with its memory

vars == <<outcome, answer, told>>

Init ==
  /\ outcome = [t \in Turns |-> "none"]
  /\ answer = [t \in Turns |-> NoAnswer]
  /\ told = [t \in Turns |-> {}]

Move(t, from, to) ==
  /\ outcome[t] = from
  /\ outcome' = [outcome EXCEPT ![t] = to]

Open(t) == Move(t, "none", "open") /\ UNCHANGED <<answer, told>>

Abandon(t) == Move(t, "open", "failed") /\ UNCHANGED <<answer, told>>

Freeze(t) ==
  /\ Move(t, "open", "frozen")
  /\ \E a \in Answers : answer' = [answer EXCEPT ![t] = a]
  /\ UNCHANGED told

\* The memory fails; it may be tried again beside the same answer.
LoseMemory(t) == Move(t, "frozen", "unremembered") /\ UNCHANGED <<answer, told>>
RetryMemory(t) == Move(t, "unremembered", "frozen") /\ UNCHANGED <<answer, told>>

Complete(t) == Move(t, "frozen", "complete") /\ UNCHANGED <<answer, told>>

Release(t) ==
  /\ outcome[t] = "complete"
  /\ told' = [told EXCEPT ![t] = @ \cup {answer[t]}]
  /\ UNCHANGED <<outcome, answer>>

Next ==
  \E t \in Turns :
    \/ Open(t) \/ Abandon(t) \/ Freeze(t)
    \/ LoseMemory(t) \/ RetryMemory(t) \/ Complete(t) \/ Release(t)

Spec == Init /\ [][Next]_vars
============================================================================
