----------------------------- MODULE ResumeOnce -----------------------------
(***************************************************************************)
(* What the pending tool-resume store promises, one checkpoint at a time:  *)
(* a checkpoint is offered, is worked on by at most one request, binds its *)
(* evidence once, returns to the offer when that request fails, and is     *)
(* closed for good by the request that completes it or by expiry while     *)
(* nobody works on it.                                                     *)
(***************************************************************************)
CONSTANTS Requests, Checkpoints, NoReply, NoRequest

VARIABLES status,    \* of each checkpoint
          claimant,  \* the request working on it
          bound,     \* the tool results it accepted
          closer     \* the requests whose continuation closed it

vars == <<status, claimant, bound, closer>>

Init ==
  /\ status = [c \in Checkpoints |-> "unused"]
  /\ claimant = [c \in Checkpoints |-> NoRequest]
  /\ bound = [c \in Checkpoints |-> NoReply]
  /\ closer = [c \in Checkpoints |-> {}]

Offer(c) ==
  /\ status[c] = "unused" /\ status'[c] = "offered"
  /\ claimant'[c] = NoRequest
  /\ bound'[c] = NoReply
  /\ closer'[c] = {}

Claim(c) ==
  /\ status[c] = "offered" /\ status'[c] = "claimed"
  /\ claimant'[c] \in Requests
  /\ bound'[c] # NoReply
  /\ bound[c] \in {NoReply, bound'[c]}
  /\ closer'[c] = closer[c]

Release(c) ==
  /\ status[c] = "claimed" /\ status'[c] = "offered"
  /\ claimant'[c] = NoRequest
  /\ bound'[c] = bound[c]
  /\ closer'[c] = closer[c]

Complete(c) ==
  /\ status[c] = "claimed" /\ status'[c] = "closed"
  /\ claimant'[c] = NoRequest
  /\ bound'[c] = bound[c]
  /\ closer'[c] = {claimant[c]}

Expire(c) ==
  /\ status[c] = "offered" /\ status'[c] = "closed"
  /\ claimant'[c] = NoRequest
  /\ bound'[c] = bound[c]
  /\ closer'[c] = closer[c]

Same(c) ==
  /\ status'[c] = status[c]
  /\ claimant'[c] = claimant[c]
  /\ bound'[c] = bound[c]
  /\ closer'[c] = closer[c]

\* One step may touch several checkpoints: a consume expires some while it
\* claims one, a suspension offers one while it completes another.
Next ==
  \A c \in Checkpoints :
    Offer(c) \/ Claim(c) \/ Release(c) \/ Complete(c) \/ Expire(c) \/ Same(c)

Spec == Init /\ [][Next]_vars
=============================================================================
