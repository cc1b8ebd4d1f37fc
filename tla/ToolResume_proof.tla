-------------------------- MODULE ToolResume_proof --------------------------
(* Proofs about ToolResume, for every set of requests, checkpoints, call    *)
(* ids and bodies.                                                          *)
EXTENDS ToolResume, FiniteSetTheorems, TLAPS

\* The evidence of a body is a reply.
LEMMA EvidenceType ==
  ASSUME TypeOK, NEW r \in Requests, NEW c \in Checkpoints
  PROVE  EvidenceFor(body[r], c) \in Reply
<1>1. body[r] \in Body
  BY ConstantsOK DEF TypeOK
<1> QED BY <1>1 DEF Body, Reply, EvidenceFor

\* Expiring, retiring and consuming map call ids to checkpoints as before.
LEMMA StoreTypes ==
  ASSUME TypeOK
  PROVE  /\ Unexpired \in [CallIds -> Checkpoints \cup {NoCheckpoint}]
         /\ \A b : Scanned(b) \in [CallIds -> Checkpoints \cup {NoCheckpoint}]
         /\ \A o, p : p \in [CallIds -> Checkpoints \cup {NoCheckpoint}]
              => Retired(o, p) \in [CallIds -> Checkpoints \cup {NoCheckpoint}]
BY DEF TypeOK, Unexpired, Scanned, Retired

\* An exception keeps the types.
LEMMA RaiseType ==
  ASSUME TypeOK, NEW r \in Requests,
         NEW p \in [CallIds -> Checkpoints \cup {NoCheckpoint}],
         Raise(r, p)
  PROVE  /\ pending' \in [CallIds -> Checkpoints \cup {NoCheckpoint}]
         /\ inFlight' \in [Checkpoints -> BOOLEAN]
         /\ phase' \in [Requests -> Phases]
BY DEF TypeOK, Raise, RearmedFor, RearmedOwn, Phases

\* Type correctness of the store and of the requests.
THEOREM TypeCorrect == Spec => []TypeOK
<1>1. Init => TypeOK
  BY ConstantsOK DEF Init, TypeOK, Phases, Reply, NoReply
<1>2. TypeOK /\ [Next]_vars => TypeOK'
  <2> SUFFICES ASSUME TypeOK, [Next]_vars PROVE TypeOK'
    OBVIOUS
  <2>1. ASSUME NEW r \in Requests, Arrive(r) PROVE TypeOK'
    BY <2>1 DEF TypeOK, Arrive, Phases, storeVars, historyVars
  <2>2. ASSUME NEW r \in Requests, AdmitFresh(r) PROVE TypeOK'
    BY <2>2 DEF TypeOK, AdmitFresh, Phases, storeVars, historyVars
  <2>3. ASSUME NEW r \in Requests, AdmitResume(r) PROVE TypeOK'
    <3>1. PICK c \in Checkpoints :
            /\ pending' = Scanned(body[r])
            /\ inFlight' = [inFlight EXCEPT ![c] = TRUE]
            /\ accepted' = [accepted EXCEPT ![c] = EvidenceFor(body[r], c)]
            /\ owner' = [owner EXCEPT ![r] = c]
            /\ evidence' = [evidence EXCEPT ![r] = EvidenceFor(body[r], c)]
      BY <2>3 DEF AdmitResume
    <3>2. EvidenceFor(body[r], c) \in Reply
      BY EvidenceType
    <3> QED BY <2>3, <3>1, <3>2, StoreTypes
            DEF TypeOK, AdmitResume, Phases, historyVars
  <2>4. ASSUME NEW r \in Requests, AdmitRefused(r) PROVE TypeOK'
    <3>1. Raise(r, Scanned(body[r]))
      BY <2>4 DEF AdmitRefused
    <3> QED BY <2>4, <3>1, StoreTypes, RaiseType
            DEF TypeOK, AdmitRefused, historyVars
  <2>5. ASSUME NEW r \in Requests, Finish(r) PROVE TypeOK'
    BY <2>5, StoreTypes DEF TypeOK, Finish, Settled, CompletedBy, Phases
  <2>6. ASSUME NEW r \in Requests, Suspend(r) PROVE TypeOK'
    <3>1. PICK c \in Checkpoints \ issued, calls \in (SUBSET CallIds) \ {{}},
               held \in SUBSET CallIds :
            /\ withheld' = [withheld EXCEPT ![c] = held]
            /\ expected' = [expected EXCEPT ![c] = calls]
            /\ pending' = Retired(owner[r],
                             [i \in CallIds |->
                                IF i \in calls THEN c ELSE Unexpired[i]])
            /\ issued' = issued \cup {c}
      BY <2>6 DEF Suspend
    <3>2. [i \in CallIds |-> IF i \in calls THEN c ELSE Unexpired[i]]
            \in [CallIds -> Checkpoints \cup {NoCheckpoint}]
      BY StoreTypes
    <3>3. pending' \in [CallIds -> Checkpoints \cup {NoCheckpoint}]
      BY <3>1, <3>2, StoreTypes
    <3> QED BY <2>6, <3>1, <3>3
            DEF TypeOK, Suspend, Settled, CompletedBy, Phases
  <2>7. ASSUME NEW r \in Requests, Collide(r) PROVE TypeOK'
    <3>1. Raise(r, Unexpired)
      BY <2>7 DEF Collide
    <3> QED BY <2>7, <3>1, StoreTypes, RaiseType DEF TypeOK, Collide, historyVars
  <2>8. ASSUME NEW r \in Requests, Fail(r) PROVE TypeOK'
    <3>1. Raise(r, pending) /\ pending \in [CallIds -> Checkpoints \cup {NoCheckpoint}]
      BY <2>8 DEF Fail, TypeOK
    <3> QED BY <2>8, <3>1, RaiseType DEF TypeOK, Fail, historyVars
  <2>9. ASSUME NEW r \in Requests, LoopInterrupt(r) PROVE TypeOK'
    BY <2>9 DEF TypeOK, LoopInterrupt, Phases, storeVars, historyVars
  <2>10. ASSUME NEW r \in Requests, CloseStream(r) \/ Disconnect(r) PROVE TypeOK'
    BY <2>10 DEF TypeOK, CloseStream, Disconnect, LeaveStream, RearmedFor,
                 Phases, historyVars
  <2>11. ASSUME NEW c \in Checkpoints, Age(c) PROVE TypeOK'
    BY <2>11 DEF TypeOK, Age, requestVars, historyVars
  <2>12. CASE UNCHANGED vars
    BY <2>12 DEF TypeOK, vars, storeVars, requestVars, historyVars
  <2> QED BY <2>1, <2>2, <2>3, <2>4, <2>5, <2>6, <2>7, <2>8, <2>9, <2>10,
             <2>11, <2>12 DEF Next
<1> QED BY <1>1, <1>2, PTL DEF Spec

-----------------------------------------------------------------------------
(* The dict holds whole checkpoints.                                        *)

\* A request only comes to own a checkpoint that the dict holds.
OwnersFromDict ==
  \A r \in Requests : owner'[r] # owner[r] => \E i \in CallIds : pending[i] = owner'[r]

\* Every step but Finish and Suspend leaves the dict alone or expires it.
LEMMA QuietSteps ==
  ASSUME TypeOK, [Next]_vars
  PROVE  \/ /\ pending' \in {pending, Unexpired}
            /\ UNCHANGED <<expected, issued>>
            /\ OwnersFromDict
         \/ \E r \in Requests : Finish(r) \/ Suspend(r)
<1> DEFINE Quiet == /\ pending' \in {pending, Unexpired}
                    /\ UNCHANGED <<expected, issued>>
                    /\ OwnersFromDict
<1>1. ASSUME NEW r \in Requests,
             Arrive(r) \/ AdmitFresh(r) \/ LoopInterrupt(r)
               \/ CloseStream(r) \/ Disconnect(r)
      PROVE  Quiet
  BY <1>1 DEF Arrive, AdmitFresh, LoopInterrupt, CloseStream, Disconnect,
              LeaveStream, storeVars, historyVars, OwnersFromDict
<1>2. ASSUME NEW r \in Requests, AdmitRefused(r) \/ Collide(r) \/ Fail(r)
      PROVE  Quiet
  BY <1>2 DEF AdmitRefused, Collide, Fail, Raise, Scanned, historyVars,
              OwnersFromDict
<1>3. ASSUME NEW r \in Requests, AdmitResume(r)
      PROVE  Quiet
  <2>1. PICK c \in Checkpoints :
          /\ Admissible(body[r], c, Scanned(body[r]))
          /\ owner' = [owner EXCEPT ![r] = c]
    BY <1>3 DEF AdmitResume
  <2>2. PICK i \in CallIds : Scanned(body[r])[i] = c
    BY <2>1 DEF Admissible, LiveIds, Returned
  <2>3. pending[i] = c
    BY <2>2, ConstantsOK DEF Scanned, Unexpired
  <2>4. OwnersFromDict
    BY <2>1, <2>3 DEF OwnersFromDict, TypeOK
  <2> QED BY <1>3, <2>4 DEF AdmitResume, Scanned, historyVars
<1>4. ASSUME NEW c \in Checkpoints, Age(c)
      PROVE  Quiet
  BY <1>4 DEF Age, requestVars, historyVars, OwnersFromDict
<1>5. CASE UNCHANGED vars
  BY <1>5 DEF vars, storeVars, requestVars, historyVars, OwnersFromDict
<1> QED BY <1>1, <1>2, <1>3, <1>4, <1>5 DEF Next

\* Retiring a checkpoint removes all of its ids and nothing else.
LEMMA RetiredWhole ==
  ASSUME TypeOK, NEW r \in Requests,
         NEW p \in [CallIds -> Checkpoints \cup {NoCheckpoint}],
         \A i \in CallIds : p[i] # NoCheckpoint => i \in expected[p[i]],
         NEW i \in CallIds
  PROVE  Retired(owner[r], p)[i] = IF p[i] = owner[r] THEN NoCheckpoint ELSE p[i]
BY DEF TypeOK, Retired

LEMMA StoreInvStep ==
  ASSUME TypeOK, StoreInv, [Next]_vars
  PROVE  StoreInv'
<1>1. CASE /\ pending' \in {pending, Unexpired}
           /\ UNCHANGED <<expected, issued>>
           /\ OwnersFromDict
  <2>0. \A r \in Requests : owner'[r] # NoCheckpoint => owner'[r] \in issued'
    BY <1>1 DEF StoreInv, OwnersFromDict
  <2>1. CASE pending' = pending
    BY <1>1, <2>0, <2>1 DEF StoreInv
  <2>2. CASE pending' = Unexpired
    <3>1. \A i \in CallIds :
            Unexpired[i] # NoCheckpoint =>
              Unexpired[i] = pending[i] /\ pending[i] \notin Stale
      BY DEF Unexpired
    <3>2. \A i, j \in CallIds :
            pending[i] = pending[j] /\ pending[i] \notin Stale
              => Unexpired[j] = pending[i]
      BY DEF Unexpired
    <3>3. \A c \in issued : expected[c] \subseteq CallIds
      BY DEF TypeOK
    <3> QED BY <1>1, <2>0, <2>2, <3>1, <3>2, <3>3 DEF StoreInv
  <2> QED BY <1>1, <2>1, <2>2
<1>2. ASSUME NEW r \in Requests, Finish(r) PROVE StoreInv'
  <2>1. \A i \in CallIds :
          pending'[i] = IF pending[i] = owner[r] THEN NoCheckpoint ELSE pending[i]
    BY <1>2, RetiredWhole DEF Finish, StoreInv, TypeOK
  <2>2. UNCHANGED <<expected, issued, owner>>
    BY <1>2 DEF Finish
  <2>3. \A c \in issued : expected[c] \subseteq CallIds
    BY DEF TypeOK
  <2> QED BY <2>1, <2>2, <2>3 DEF StoreInv
<1>3. ASSUME NEW r \in Requests, Suspend(r) PROVE StoreInv'
  <2>1. PICK c \in Checkpoints \ issued, calls \in (SUBSET CallIds) \ {{}} :
          /\ \A i \in calls : Unexpired[i] = NoCheckpoint
          /\ expected' = [expected EXCEPT ![c] = calls]
          /\ pending' = Retired(owner[r],
                             [i \in CallIds |->
                                IF i \in calls THEN c ELSE Unexpired[i]])
          /\ issued' = issued \cup {c}
    BY <1>3 DEF Suspend
  <2> DEFINE p == [i \in CallIds |-> IF i \in calls THEN c ELSE Unexpired[i]]
  <2>2. c # NoCheckpoint /\ \A d \in Checkpoints : d # NoCheckpoint
    BY ConstantsOK
  <2>3. \A i \in CallIds :
          pending'[i] \in {NoCheckpoint, p[i]}
    BY <2>1 DEF Retired
  <2>4. \A i \in CallIds : Unexpired[i] # NoCheckpoint =>
          /\ Unexpired[i] = pending[i] /\ pending[i] \notin Stale
          /\ pending[i] \in issued /\ i \in expected[pending[i]]
    BY DEF Unexpired, StoreInv
  <2>5. \A i \in CallIds : pending'[i] =
          IF p[i] = owner[r] /\ i \in expected[owner[r]]
          THEN NoCheckpoint ELSE p[i]
    BY <2>1, <2>2 DEF Retired, TypeOK
  <2>6. expected'[c] = calls /\ calls \subseteq CallIds /\ calls # {}
        /\ \A d \in issued : d # c /\ expected'[d] = expected[d]
    BY <2>1 DEF TypeOK
  <2>7. \A d \in issued' : expected'[d] # {}
    BY <2>1, <2>6 DEF StoreInv
  <2>8. ASSUME NEW i \in CallIds, pending'[i] # NoCheckpoint
        PROVE  /\ pending'[i] \in issued'
               /\ i \in expected'[pending'[i]]
               /\ \A j \in expected'[pending'[i]] : pending'[j] = pending'[i]
    <3>1. pending'[i] = p[i]
      BY <2>3, <2>8
    <3>2. CASE i \in calls
      <4>1. p[i] = c /\ \A j \in calls : p[j] = c
        BY <2>6, <3>2
      <4>2. \A j \in calls : pending'[j] = c
        <5>1. c # owner[r]
          BY <2>1, <2>2 DEF StoreInv
        <5> QED BY <5>1, <4>1, <2>5, <2>6
      <4>3. pending'[i] = c /\ c \in issued' /\ expected'[c] = calls
        BY <2>1, <2>6, <3>1, <4>1
      <4> QED BY <4>2, <4>3, <3>2
    <3>3. CASE i \notin calls
      <4>1. p[i] = pending[i] /\ Unexpired[i] = pending[i]
            /\ pending[i] \notin Stale /\ pending[i] # NoCheckpoint
        BY <2>4, <2>8, <3>1, <3>3
      <4>2. pending[i] \in issued /\ i \in expected[pending[i]] /\ pending[i] # c
        BY <2>1, <2>4, <4>1
      <4>3. pending[i] # owner[r]
        BY <2>5, <2>8, <4>1, <4>2
      <4>4. ASSUME NEW j \in expected[pending[i]] PROVE pending'[j] = pending[i]
        <5>1. j \in CallIds /\ pending[j] = pending[i]
          BY <4>1, <4>2 DEF StoreInv, TypeOK
        <5>2. Unexpired[j] = pending[i]
          BY <4>1, <5>1 DEF Unexpired
        <5>3. j \notin calls
          BY <2>1, <4>1, <5>2
        <5> QED BY <2>5, <4>3, <5>1, <5>2, <5>3
      <4> QED BY <2>1, <2>6, <3>1, <4>1, <4>2, <4>4
    <3> QED BY <3>2, <3>3
  <2>9. \A q \in Requests : owner'[q] # NoCheckpoint => owner'[q] \in issued'
    BY <1>3, <2>1 DEF Suspend, StoreInv
  <2> QED BY <2>7, <2>8, <2>9 DEF StoreInv
<1> QED BY <1>1, <1>2, <1>3, QuietSteps

\* The store never holds half a transaction: every checkpoint is in the dict
\* under all of its call ids or under none (register, retire and expire of
\* _pending_tool_resumes).
THEOREM WholeOrGoneAlways == Spec => []WholeOrGone
<1>1. Init => StoreInv
  BY DEF Init, StoreInv
<1>2. TypeOK /\ StoreInv /\ [Next]_vars => StoreInv'
  BY StoreInvStep
<1>3. TypeOK /\ StoreInv => WholeOrGone
  <2> SUFFICES ASSUME TypeOK, StoreInv, NEW c \in Checkpoints
               PROVE  {i \in CallIds : pending[i] = c} \in {{}, expected[c]}
    BY DEF WholeOrGone
  <2>1. CASE \A i \in CallIds : pending[i] # c
    BY <2>1
  <2>2. ASSUME NEW i \in CallIds, pending[i] = c
        PROVE  {j \in CallIds : pending[j] = c} = expected[c]
    <3>1. c # NoCheckpoint
      BY ConstantsOK
    <3>2. \A j \in expected[c] : j \in CallIds /\ pending[j] = c
      BY <2>2, <3>1 DEF StoreInv, TypeOK
    <3>3. \A j \in CallIds : pending[j] = c => j \in expected[c]
      BY <3>1 DEF StoreInv
    <3> QED BY <3>2, <3>3
  <2> QED BY <2>1, <2>2
<1> QED BY <1>1, <1>2, <1>3, TypeCorrect, PTL DEF Spec

-----------------------------------------------------------------------------
(* Evidence is bound once.                                                  *)

\* Only a resume binds evidence and only a suspension issues checkpoints.
LEMMA EvidenceSteps ==
  ASSUME [Next]_vars
  PROVE  \/ \E r \in Requests : AdmitResume(r) \/ Suspend(r)
         \/ UNCHANGED <<accepted, owner, evidence, expected, issued>>
<1> DEFINE Still == UNCHANGED <<accepted, owner, evidence, expected, issued>>
<1>1. ASSUME NEW r \in Requests,
             Arrive(r) \/ AdmitFresh(r) \/ LoopInterrupt(r)
               \/ CloseStream(r) \/ Disconnect(r)
      PROVE  Still
  BY <1>1 DEF Arrive, AdmitFresh, LoopInterrupt, CloseStream, Disconnect,
              LeaveStream, storeVars, historyVars
<1>2. ASSUME NEW r \in Requests,
             AdmitRefused(r) \/ Collide(r) \/ Fail(r) \/ Finish(r)
      PROVE  Still
  BY <1>2 DEF AdmitRefused, Collide, Fail, Finish, historyVars
<1>3. ASSUME NEW c \in Checkpoints, Age(c)
      PROVE  Still
  BY <1>3 DEF Age, requestVars, historyVars
<1>4. CASE UNCHANGED vars
  BY <1>4 DEF vars, storeVars, requestVars, historyVars
<1> QED BY <1>1, <1>2, <1>3, <1>4 DEF Next

\* What a resume binds: an issued checkpoint that had either no evidence or
\* this same evidence, which covers exactly its released calls.
LEMMA ResumeBinds ==
  ASSUME TypeOK, StoreInv, NEW r \in Requests, AdmitResume(r)
  PROVE  \E c \in issued :
           /\ accepted[c] \in {NoReply, accepted'[c]}
           /\ accepted' = [accepted EXCEPT ![c] = EvidenceFor(body[r], c)]
           /\ EvidenceFor(body[r], c) # NoReply
           /\ {i \in CallIds : EvidenceFor(body[r], c)[i] # NoResult} = expected[c]
           /\ owner' = [owner EXCEPT ![r] = c]
           /\ evidence' = [evidence EXCEPT ![r] = EvidenceFor(body[r], c)]
<1>1. PICK c \in Checkpoints :
        /\ Admissible(body[r], c, Scanned(body[r]))
        /\ accepted' = [accepted EXCEPT ![c] = EvidenceFor(body[r], c)]
        /\ owner' = [owner EXCEPT ![r] = c]
        /\ evidence' = [evidence EXCEPT ![r] = EvidenceFor(body[r], c)]
  BY DEF AdmitResume
<1>2. LiveIds(body[r], Scanned(body[r])) = expected[c]
      /\ LiveIds(body[r], Scanned(body[r])) # {}
  BY <1>1 DEF Admissible
<1>3. PICK i \in CallIds : Scanned(body[r])[i] = c
  BY <1>1, <1>2 DEF Admissible, LiveIds, Returned
<1>4. pending[i] = c /\ c # NoCheckpoint
  BY <1>3, ConstantsOK DEF Scanned, Unexpired
<1>5. c \in issued
  BY <1>4 DEF StoreInv
<1>6. \A j \in expected[c] : j \in CallIds /\ body[r].reply[j] # NoResult
  BY <1>2 DEF LiveIds, Returned
<1>7. {j \in CallIds : EvidenceFor(body[r], c)[j] # NoResult} = expected[c]
  BY <1>6 DEF EvidenceFor
<1>8. EvidenceFor(body[r], c) # NoReply
  BY <1>2, <1>7 DEF NoReply
<1>9. accepted[c] \in {NoReply, accepted'[c]}
  BY <1>1 DEF Admissible, TypeOK
<1> QED BY <1>1, <1>5, <1>7, <1>8, <1>9

LEMMA EvidenceInvStep ==
  ASSUME TypeOK, StoreInv, EvidenceInv, [Next]_vars
  PROVE  EvidenceInv'
<1>1. ASSUME NEW r \in Requests, AdmitResume(r) PROVE EvidenceInv'
  <2>1. PICK c \in issued :
           /\ accepted[c] \in {NoReply, accepted'[c]}
           /\ accepted' = [accepted EXCEPT ![c] = EvidenceFor(body[r], c)]
           /\ EvidenceFor(body[r], c) # NoReply
           /\ {i \in CallIds : EvidenceFor(body[r], c)[i] # NoResult} = expected[c]
           /\ owner' = [owner EXCEPT ![r] = c]
           /\ evidence' = [evidence EXCEPT ![r] = EvidenceFor(body[r], c)]
    BY <1>1, ResumeBinds
  <2>2. UNCHANGED <<expected, issued>>
    BY <1>1 DEF AdmitResume, historyVars
  <2>3. accepted'[c] = EvidenceFor(body[r], c)
        /\ \A d \in Checkpoints : d # c => accepted'[d] = accepted[d]
    BY <2>1 DEF TypeOK
  <2>4. \A d \in Checkpoints : accepted'[d] # NoReply =>
          {i \in CallIds : accepted'[d][i] # NoResult} = expected'[d]
    BY <2>1, <2>2, <2>3 DEF EvidenceInv
  <2>5. \A q \in Requests : owner'[q] # NoCheckpoint =>
          accepted'[owner'[q]] # NoReply /\ evidence'[q] = accepted'[owner'[q]]
    <3>1. ASSUME NEW q \in Requests, owner'[q] # NoCheckpoint, q # r
          PROVE  accepted'[owner'[q]] # NoReply /\ evidence'[q] = accepted'[owner'[q]]
      <4>1. owner'[q] = owner[q] /\ evidence'[q] = evidence[q]
        BY <2>1, <3>1 DEF TypeOK
      <4>2. accepted[owner[q]] # NoReply /\ evidence[q] = accepted[owner[q]]
            /\ owner[q] \in Checkpoints
        BY <3>1, <4>1 DEF EvidenceInv, TypeOK
      <4>3. accepted'[owner[q]] = accepted[owner[q]]
        BY <2>1, <2>3, <4>2
      <4> QED BY <4>1, <4>2, <4>3
    <3>2. owner'[r] = c /\ evidence'[r] = EvidenceFor(body[r], c)
      BY <2>1 DEF TypeOK
    <3> QED BY <2>1, <2>3, <3>1, <3>2
  <2> QED BY <2>2, <2>1, <2>3, <2>4, <2>5 DEF EvidenceInv
<1>2. ASSUME NEW r \in Requests, Suspend(r) PROVE EvidenceInv'
  <2>1. PICK c \in Checkpoints \ issued :
          /\ \E calls : expected' = [expected EXCEPT ![c] = calls]
          /\ issued' = issued \cup {c}
    BY <1>2 DEF Suspend
  <2>2. UNCHANGED <<accepted, owner, evidence>>
    BY <1>2 DEF Suspend
  <2>3. \A d \in Checkpoints : accepted[d] # NoReply => expected'[d] = expected[d]
    BY <2>1 DEF EvidenceInv, TypeOK
  <2> QED BY <2>1, <2>2, <2>3 DEF EvidenceInv
<1>3. CASE UNCHANGED <<accepted, owner, evidence, expected, issued>>
  BY <1>3 DEF EvidenceInv
<1> QED BY <1>1, <1>2, <1>3, EvidenceSteps

\* Every request that was ever given a checkpoint ran on the same results,
\* the ones first accepted, and on one result for each released call.
THEOREM EvidenceAgreementAlways == Spec => []EvidenceAgreement
<1>1. Init => StoreInv /\ EvidenceInv
  BY DEF Init, StoreInv, EvidenceInv
<1>2. TypeOK /\ StoreInv /\ EvidenceInv /\ [Next]_vars => (StoreInv /\ EvidenceInv)'
  BY StoreInvStep, EvidenceInvStep
<1>3. TypeOK /\ StoreInv /\ EvidenceInv => EvidenceAgreement
  BY DEF EvidenceInv, EvidenceAgreement, TypeOK
<1> QED BY <1>1, <1>2, <1>3, TypeCorrect, PTL DEF Spec

\* A retry can never replace the evidence a checkpoint accepted.
THEOREM EvidenceImmutableAlways == Spec => EvidenceImmutable
<1>1. Init => StoreInv /\ EvidenceInv
  BY DEF Init, StoreInv, EvidenceInv
<1>2. TypeOK /\ StoreInv /\ EvidenceInv /\ [Next]_vars => (StoreInv /\ EvidenceInv)'
  BY StoreInvStep, EvidenceInvStep
<1>3. TypeOK /\ StoreInv /\ [Next]_vars =>
        [\A c \in Checkpoints : accepted[c] # NoReply => accepted'[c] = accepted[c]]_vars
  <2> SUFFICES ASSUME TypeOK, StoreInv, [Next]_vars,
                      NEW c \in Checkpoints, accepted[c] # NoReply
               PROVE  accepted'[c] = accepted[c]
    OBVIOUS
  <2>1. ASSUME NEW r \in Requests, AdmitResume(r) PROVE accepted'[c] = accepted[c]
    BY <2>1, ResumeBinds DEF TypeOK
  <2>2. ASSUME NEW r \in Requests, Suspend(r) PROVE accepted'[c] = accepted[c]
    BY <2>2 DEF Suspend
  <2> QED BY <2>1, <2>2, EvidenceSteps
<1> QED BY <1>1, <1>2, <1>3, TypeCorrect, PTL DEF Spec, EvidenceImmutable

-----------------------------------------------------------------------------
(* Without streams, a checkpoint is worked on by one request at a time and  *)
(* completed once, however many requests run concurrently.                  *)

\* A step in which no request starts, stops or completes work.
IdleStep ==
  /\ UNCHANGED <<pending, inFlight, owner, completedBy, issued>>
  /\ \A r \in Requests :
       \/ phase'[r] = phase[r]
       \/ phase[r] = "idle" /\ phase'[r] = "queued"
       \/ phase[r] = "queued" /\ phase'[r] = "running" /\ owner[r] = NoCheckpoint

LEMMA ClaimInvIdleStep ==
  ASSUME TypeOK, ClaimInv, IdleStep
  PROVE  ClaimInv'
<1>1. \A r \in Requests, c \in Checkpoints : Working(r, c)' <=> Working(r, c)
  BY ConstantsOK DEF Working, IdleStep
<1>2. \A c : IsLive(c)' <=> IsLive(c)
  BY DEF IsLive, IdleStep
<1>3. \A c \in Checkpoints : Worked(c)' <=> Worked(c)
  BY <1>1 DEF Worked
<1>4. SingleOwner'
  BY <1>1 DEF ClaimInv, SingleOwner
<1>5. AtMostOneContinuation'
  BY DEF ClaimInv, AtMostOneContinuation, IdleStep
<1> QED BY <1>2, <1>3, <1>4, <1>5 DEF ClaimInv, TypeOK, IdleStep

\* A checkpoint in work survives the expiry of the others.
LEMMA WorkedNotStale ==
  ASSUME TypeOK, ClaimInv, NEW r \in Requests, phase[r] = "running",
         owner[r] # NoCheckpoint,
         NEW p, p \in {pending, Unexpired}
  PROVE  \E i \in CallIds : pending[i] = owner[r] /\ p[i] = owner[r]
BY DEF ClaimInv, IsLive, Unexpired, Stale

LEMMA NothingRevived ==
  ASSUME NEW p, p \in {pending, Unexpired}, NEW c \in Checkpoints,
         NEW i \in CallIds, p[i] = c
  PROVE  pending[i] = c
BY ConstantsOK DEF Unexpired

LEMMA ClaimInvRaise ==
  ASSUME TypeOK, StoreInv, ClaimInv, "stream" \notin Transports,
         NEW r \in Requests, NEW p, p \in {pending, Unexpired}, Raise(r, p),
         phase[r] \in {"queued", "running"},
         UNCHANGED <<owner, completedBy, issued>>
  PROVE  ClaimInv'
<1>1. /\ pending' = p
      /\ phase' = [phase EXCEPT ![r] = "done"]
      /\ inFlight' = RearmedOwn(owner[r], p)
  BY DEF Raise, TypeOK
<1>2. \A q \in Requests, c \in Checkpoints :
        Working(q, c)' <=> Working(q, c) /\ q # r
  BY <1>1 DEF Working, TypeOK
<1>3. ASSUME NEW q \in Requests, phase'[q] = "running", owner'[q] # NoCheckpoint
      PROVE  inFlight'[owner'[q]] /\ \E i \in CallIds : pending'[i] = owner'[q]
  <2>1. q # r /\ phase[q] = "running" /\ owner[q] # NoCheckpoint /\ owner'[q] = owner[q]
    BY <1>1, <1>3 DEF TypeOK
  <2>2. owner[q] \in Checkpoints /\ inFlight[owner[q]]
    BY <2>1 DEF ClaimInv, TypeOK
  <2>3. owner[q] # owner[r]
    BY <2>1, <2>2 DEF ClaimInv, SingleOwner, Working
  <2>4. inFlight'[owner[q]]
    BY <1>1, <2>2, <2>3 DEF RearmedOwn
  <2> QED BY <1>1, <2>1, <2>4, WorkedNotStale
<1>4. ASSUME NEW c \in Checkpoints, inFlight'[c] PROVE Worked(c)'
  <2>1. inFlight[c] /\ ~(c = owner[r] /\ \E i \in expected[c] : p[i] = c)
    BY <1>1, <1>4 DEF RearmedOwn
  <2>2. PICK q \in Requests : Working(q, c)
    BY <2>1 DEF ClaimInv, Worked
  <2>3. q # r
    <3>1. SUFFICES ASSUME q = r PROVE FALSE
      OBVIOUS
    <3>2. PICK i \in CallIds : pending[i] = c /\ p[i] = c
      BY <2>2, <3>1, WorkedNotStale, ConstantsOK DEF Working
    <3>3. i \in expected[c]
      BY <3>2, ConstantsOK DEF StoreInv
    <3> QED BY <2>1, <2>2, <3>1, <3>2, <3>3 DEF Working
  <2> QED BY <1>2, <2>2, <2>3 DEF Worked
<1>5. SingleOwner'
  BY <1>2 DEF ClaimInv, SingleOwner
<1>6. \A c \in Checkpoints : completedBy'[c] # {} => c \in issued' /\ ~IsLive(c)'
  BY <1>1, NothingRevived DEF ClaimInv, IsLive
<1>7. AtMostOneContinuation'
  BY DEF ClaimInv, AtMostOneContinuation
<1>8. \A q \in Requests :
        /\ phase'[q] \in {"idle", "queued", "running", "done"}
        /\ phase'[q] \in {"idle", "queued"} => owner'[q] = NoCheckpoint
  BY <1>1 DEF ClaimInv, TypeOK
<1> QED BY <1>3, <1>4, <1>5, <1>6, <1>7, <1>8 DEF ClaimInv, IsLive

LEMMA ClaimInvResume ==
  ASSUME TypeOK, StoreInv, ClaimInv, NEW r \in Requests, AdmitResume(r)
  PROVE  ClaimInv'
<1> DEFINE p == Scanned(body[r])
<1>1. PICK c \in Checkpoints :
        /\ Admissible(body[r], c, p)
        /\ pending' = p
        /\ inFlight' = [inFlight EXCEPT ![c] = TRUE]
        /\ owner' = [owner EXCEPT ![r] = c]
  BY DEF AdmitResume
<1>2. phase[r] = "queued" /\ phase' = [phase EXCEPT ![r] = "running"]
      /\ UNCHANGED <<completedBy, issued>>
  BY DEF AdmitResume, historyVars
<1>3. p \in {pending, Unexpired}
  BY DEF Scanned
<1>4. PICK id \in CallIds : p[id] = c
  BY <1>1 DEF Admissible, LiveIds, Returned
<1>5. ~inFlight[c]
  BY <1>1 DEF Admissible
<1>6. \A q \in Requests, d \in Checkpoints :
        Working(q, d)' <=> IF q = r THEN d = c ELSE Working(q, d)
  BY <1>1, <1>2 DEF Working, TypeOK
<1>7. \A q \in Requests : ~Working(q, c)
  BY <1>5, ConstantsOK DEF ClaimInv, Working
<1>8. ASSUME NEW q \in Requests, phase'[q] = "running", owner'[q] # NoCheckpoint
      PROVE  inFlight'[owner'[q]] /\ \E i \in CallIds : pending'[i] = owner'[q]
  <2>1. CASE q = r
    BY <2>1, <1>1, <1>4 DEF TypeOK
  <2>2. CASE q # r
    <3>1. phase[q] = "running" /\ owner'[q] = owner[q]
      BY <2>2, <1>1, <1>2, <1>8 DEF TypeOK
    <3>2. inFlight[owner[q]] /\ owner[q] \in Checkpoints
      BY <3>1, <1>8 DEF ClaimInv, TypeOK
    <3>3. inFlight'[owner[q]]
      BY <1>1, <3>2 DEF TypeOK
    <3> QED BY <1>1, <1>3, <1>8, <3>1, <3>3, WorkedNotStale
  <2> QED BY <2>1, <2>2
<1>9. ASSUME NEW d \in Checkpoints, inFlight'[d] PROVE Worked(d)'
  <2>1. CASE d = c
    BY <2>1, <1>6 DEF Worked
  <2>2. CASE d # c
    <3>1. PICK q \in Requests : Working(q, d)
      BY <2>2, <1>1, <1>9 DEF ClaimInv, Worked, TypeOK
    <3>2. q # r
      BY <3>1, <1>2 DEF Working
    <3> QED BY <3>1, <3>2, <1>6 DEF Worked
  <2> QED BY <2>1, <2>2
<1>10. SingleOwner'
  BY <1>6, <1>7 DEF ClaimInv, SingleOwner
<1>11. \A d \in Checkpoints : completedBy'[d] # {} => d \in issued' /\ ~IsLive(d)'
  BY <1>1, <1>2, <1>3, NothingRevived DEF ClaimInv, IsLive
<1>12. AtMostOneContinuation'
  BY <1>2 DEF ClaimInv, AtMostOneContinuation
<1>13. \A q \in Requests :
        /\ phase'[q] \in {"idle", "queued", "running", "done"}
        /\ phase'[q] \in {"idle", "queued"} => owner'[q] = NoCheckpoint
  BY <1>1, <1>2 DEF ClaimInv, TypeOK
<1> QED BY <1>8, <1>9, <1>10, <1>11, <1>12, <1>13 DEF ClaimInv, IsLive

\* What Finish and Suspend do to the dict: the completed checkpoint leaves
\* it, the ones in work stay, and no issued checkpoint comes back.
SettlesStore(r) ==
  /\ owner[r] # NoCheckpoint => \A i \in CallIds : pending'[i] # owner[r]
  /\ \A q \in Requests :
       phase[q] = "running" /\ owner[q] # NoCheckpoint /\ owner[q] # owner[r] =>
         \E i \in CallIds : pending'[i] = owner[q]
  /\ \A c \in issued : \A i \in CallIds : pending'[i] = c => pending[i] = c
  /\ issued \subseteq issued'

LEMMA FinishSettles ==
  ASSUME TypeOK, StoreInv, ClaimInv, NEW r \in Requests, Finish(r)
  PROVE  SettlesStore(r)
<1>1. pending' = Retired(owner[r], pending) /\ issued' = issued
  BY DEF Finish
<1>2. \A i \in CallIds :
        pending'[i] = IF pending[i] = owner[r] THEN NoCheckpoint ELSE pending[i]
  BY <1>1, RetiredWhole DEF StoreInv, TypeOK
<1>3. \A c \in issued : c # NoCheckpoint
  BY ConstantsOK DEF TypeOK
<1>4. \A q \in Requests : phase[q] = "running" /\ owner[q] # NoCheckpoint =>
        \E i \in CallIds : pending[i] = owner[q]
  BY DEF ClaimInv, IsLive
<1> QED BY <1>1, <1>2, <1>3, <1>4 DEF SettlesStore

LEMMA SuspendSettles ==
  ASSUME TypeOK, StoreInv, ClaimInv, NEW r \in Requests, Suspend(r)
  PROVE  SettlesStore(r)
<1>1. PICK c \in Checkpoints \ issued, calls \in (SUBSET CallIds) \ {{}} :
        /\ \A i \in calls : Unexpired[i] = NoCheckpoint
        /\ pending' = Retired(owner[r],
                           [i \in CallIds |->
                              IF i \in calls THEN c ELSE Unexpired[i]])
        /\ issued' = issued \cup {c}
  BY DEF Suspend
<1>2. \A i \in CallIds : pending'[i] =
        LET p == IF i \in calls THEN c ELSE Unexpired[i]
        IN  IF owner[r] # NoCheckpoint /\ p = owner[r] /\ i \in expected[owner[r]]
            THEN NoCheckpoint ELSE p
  BY <1>1 DEF Retired
<1>3. \A i \in CallIds : Unexpired[i] # NoCheckpoint =>
        Unexpired[i] = pending[i] /\ i \in expected[pending[i]]
  BY DEF Unexpired, StoreInv
<1>4. \A d \in issued : d # NoCheckpoint /\ d # c
  BY <1>1, ConstantsOK DEF TypeOK
<1>5. ASSUME owner[r] # NoCheckpoint, NEW i \in CallIds PROVE pending'[i] # owner[r]
  <2>1. owner[r] # c
    BY <1>4, <1>5 DEF StoreInv
  <2> QED BY <1>2, <1>3, <1>5, <2>1
<1>6. ASSUME NEW q \in Requests, phase[q] = "running",
             owner[q] # NoCheckpoint, owner[q] # owner[r]
      PROVE  \E i \in CallIds : pending'[i] = owner[q]
  <2>1. PICK i \in CallIds : Unexpired[i] = owner[q]
    BY <1>6, WorkedNotStale
  <2> QED BY <1>1, <1>2, <1>6, <2>1
<1>7. ASSUME NEW d \in issued, NEW i \in CallIds, pending'[i] = d
      PROVE  pending[i] = d
  BY <1>2, <1>3, <1>4, <1>7
<1> QED BY <1>1, <1>5, <1>6, <1>7 DEF SettlesStore

LEMMA ClaimInvSettle ==
  ASSUME TypeOK, StoreInv, ClaimInv, "stream" \notin Transports,
         NEW r \in Requests, Finish(r) \/ Suspend(r)
  PROVE  ClaimInv'
<1>1. SettlesStore(r)
  BY FinishSettles, SuspendSettles
<1>2. /\ phase[r] = "running"
      /\ phase' = [phase EXCEPT ![r] = "done"]
      /\ inFlight' = [c \in Checkpoints |-> inFlight[c] /\ c # owner[r]]
      /\ completedBy' = CompletedBy(owner[r], r)
      /\ UNCHANGED owner
  BY DEF Finish, Suspend, Settled, TypeOK
<1>3. \A q \in Requests, c \in Checkpoints :
        Working(q, c)' <=> Working(q, c) /\ q # r
  BY <1>2 DEF Working, TypeOK
<1>4. ASSUME NEW q \in Requests, phase'[q] = "running", owner'[q] # NoCheckpoint
      PROVE  inFlight'[owner'[q]] /\ \E i \in CallIds : pending'[i] = owner'[q]
  <2>1. q # r /\ phase[q] = "running" /\ owner'[q] = owner[q]
    BY <1>2, <1>4 DEF TypeOK
  <2>2. owner[q] \in Checkpoints /\ inFlight[owner[q]]
    BY <1>4, <2>1 DEF ClaimInv, TypeOK
  <2>3. owner[q] # owner[r]
    BY <1>2, <2>1, <2>2 DEF ClaimInv, SingleOwner, Working
  <2> QED BY <1>1, <1>2, <1>4, <2>1, <2>2, <2>3 DEF SettlesStore
<1>5. ASSUME NEW c \in Checkpoints, inFlight'[c] PROVE Worked(c)'
  <2>1. inFlight[c] /\ c # owner[r]
    BY <1>2, <1>5
  <2>2. PICK q \in Requests : Working(q, c)
    BY <2>1 DEF ClaimInv, Worked
  <2> QED BY <1>3, <2>1, <2>2 DEF Worked, Working
<1>6. SingleOwner'
  BY <1>3 DEF ClaimInv, SingleOwner
<1>7. ASSUME NEW c \in Checkpoints, completedBy'[c] # {}
      PROVE  c \in issued' /\ ~IsLive(c)'
  <2>1. CASE c = owner[r]
    <3>1. c \in issued
      BY <2>1, ConstantsOK DEF StoreInv
    <3> QED BY <1>1, <2>1, <3>1, ConstantsOK DEF SettlesStore, IsLive
  <2>2. CASE c # owner[r]
    <3>1. c \in issued /\ ~IsLive(c)
      BY <1>2, <1>7, <2>2 DEF CompletedBy, ClaimInv
    <3> QED BY <1>1, <3>1 DEF SettlesStore, IsLive
  <2> QED BY <2>1, <2>2
<1>8. AtMostOneContinuation'
  <2>1. ASSUME NEW c \in Checkpoints, NEW x \in completedBy'[c], NEW y \in completedBy'[c]
        PROVE  x = y
    <3>1. CASE c = owner[r]
      <4>1. completedBy[c] = {}
        BY <1>2, <3>1, ConstantsOK DEF ClaimInv
      <4> QED BY <1>2, <2>1, <3>1, <4>1 DEF CompletedBy
    <3>2. CASE c # owner[r]
      BY <1>2, <2>1, <3>2 DEF CompletedBy, ClaimInv, AtMostOneContinuation
    <3> QED BY <3>1, <3>2
  <2> QED BY <2>1 DEF AtMostOneContinuation
<1>9. \A q \in Requests :
        /\ phase'[q] \in {"idle", "queued", "running", "done"}
        /\ phase'[q] \in {"idle", "queued"} => owner'[q] = NoCheckpoint
  BY <1>2 DEF ClaimInv, TypeOK
<1> QED BY <1>4, <1>5, <1>6, <1>7, <1>8, <1>9 DEF ClaimInv, IsLive

LEMMA ClaimInvStep ==
  ASSUME TypeOK, StoreInv, ClaimInv, "stream" \notin Transports, [Next]_vars
  PROVE  ClaimInv'
<1>1. ASSUME NEW r \in Requests, Arrive(r) \/ AdmitFresh(r) PROVE ClaimInv'
  <2>1. phase[r] \in {"idle", "queued"} => owner[r] = NoCheckpoint
    BY DEF ClaimInv
  <2>2. IdleStep
    BY <1>1, <2>1 DEF Arrive, AdmitFresh, TypeOK, storeVars, historyVars, IdleStep
  <2> QED BY <2>2, ClaimInvIdleStep
<1>2. ASSUME NEW r \in Requests, AdmitResume(r) PROVE ClaimInv'
  BY <1>2, ClaimInvResume
<1>3. ASSUME NEW r \in Requests, AdmitRefused(r) \/ Collide(r) \/ Fail(r)
      PROVE  ClaimInv'
  <2>1. PICK p \in {pending, Unexpired} : Raise(r, p)
    BY <1>3 DEF AdmitRefused, Collide, Fail, Scanned
  <2> QED BY <1>3, <2>1, ClaimInvRaise
          DEF AdmitRefused, Collide, Fail, historyVars
<1>4. ASSUME NEW r \in Requests, Finish(r) \/ Suspend(r) PROVE ClaimInv'
  BY <1>4, ClaimInvSettle
<1>5. ASSUME NEW r \in Requests, LoopInterrupt(r) \/ CloseStream(r) \/ Disconnect(r)
      PROVE  ClaimInv'
  <2>1. phase[r] \in {"draining", "failing"} /\ CloseStream(r)
    BY <1>5 DEF LoopInterrupt, CloseStream, Disconnect, TypeOK
  <2> QED BY <2>1 DEF ClaimInv
<1>6. ASSUME NEW c \in Checkpoints, Age(c) PROVE ClaimInv'
  <2>1. IdleStep
    BY <1>6 DEF Age, requestVars, historyVars, IdleStep
  <2> QED BY <2>1, ClaimInvIdleStep
<1>7. CASE UNCHANGED vars
  <2>1. IdleStep
    BY <1>7 DEF vars, storeVars, requestVars, historyVars, IdleStep
  <2> QED BY <2>1, ClaimInvIdleStep
<1> QED BY <1>1, <1>2, <1>3, <1>4, <1>5, <1>6, <1>7 DEF Next

NonstreamInv == TypeOK /\ StoreInv /\ EvidenceInv /\ ClaimInv

LEMMA NonstreamInvariant ==
  ASSUME "stream" \notin Transports
  PROVE  Spec => []NonstreamInv
<1>1. Init => StoreInv /\ EvidenceInv
  BY DEF Init, StoreInv, EvidenceInv
<1>2. Init => ClaimInv
  BY DEF Init, ClaimInv, SingleOwner, Working, AtMostOneContinuation
<1>3. NonstreamInv /\ [Next]_vars => (StoreInv /\ EvidenceInv /\ ClaimInv)'
  BY StoreInvStep, EvidenceInvStep, ClaimInvStep DEF NonstreamInv
<1> QED BY <1>1, <1>2, <1>3, TypeCorrect, PTL DEF Spec, NonstreamInv

\* Without streams the in_flight flag alone makes a claim exclusive, at any
\* concurrency: a concurrent duplicate of a resume never runs.
THEOREM SingleOwnerNonstream ==
  ASSUME "stream" \notin Transports
  PROVE  Spec => []SingleOwner
<1>1. NonstreamInv => SingleOwner
  BY DEF NonstreamInv, ClaimInv
<1> QED BY <1>1, NonstreamInvariant, PTL

\* Without streams a checkpoint has at most one continuation.
THEOREM OneContinuationNonstream ==
  ASSUME "stream" \notin Transports
  PROVE  Spec => []AtMostOneContinuation
<1>1. NonstreamInv => AtMostOneContinuation
  BY DEF NonstreamInv, ClaimInv
<1> QED BY <1>1, NonstreamInvariant, PTL

\* Without streams every claim has a running request, and that request's
\* checkpoint never expires under it.
THEOREM ClaimsAreWorkedNonstream ==
  ASSUME "stream" \notin Transports
  PROVE  Spec => [](NoStrandedClaim /\ NeverDroppedUnderOwner)
<1>1. NonstreamInv => NoStrandedClaim /\ NeverDroppedUnderOwner
  BY DEF NonstreamInv, ClaimInv, NoStrandedClaim, NeverDroppedUnderOwner,
         Worked, Working
<1> QED BY <1>1, NonstreamInvariant, PTL

-----------------------------------------------------------------------------
(* The store implements ResumeOnce.                                         *)

\* The claimant of a checkpoint in work is its one worker; the others have
\* no claimant.
ClaimantsKnown ==
  \A c \in Checkpoints :
    /\ \A r \in Requests :
         Working(r, c) => StatusOf(c) = "claimed" /\ ClaimantOf(c) = r
    /\ ~Worked(c) => StatusOf(c) # "claimed" /\ ClaimantOf(c) = NoCheckpoint

LEMMA KnownNow == NonstreamInv => ClaimantsKnown
<1> SUFFICES ASSUME NonstreamInv, NEW c \in Checkpoints
             PROVE  /\ \A r \in Requests :
                         Working(r, c) => StatusOf(c) = "claimed" /\ ClaimantOf(c) = r
                    /\ ~Worked(c) => StatusOf(c) # "claimed" /\ ClaimantOf(c) = NoCheckpoint
  BY DEF ClaimantsKnown
<1>1. ASSUME NEW r \in Requests, Working(r, c)
      PROVE  StatusOf(c) = "claimed" /\ ClaimantOf(c) = r
  <2>1. c \in issued /\ IsLive(c) /\ Worked(c)
    BY <1>1, ConstantsOK DEF NonstreamInv, ClaimInv, StoreInv, Working, Worked
  <2>2. StatusOf(c) = "claimed"
    BY <2>1 DEF StatusOf
  <2>3. \A q \in Requests : Working(q, c) => q = r
    BY <1>1 DEF NonstreamInv, ClaimInv, SingleOwner
  <2> QED BY <1>1, <2>2, <2>3 DEF ClaimantOf
<1>2. ~Worked(c) => StatusOf(c) # "claimed" /\ ClaimantOf(c) = NoCheckpoint
  BY DEF StatusOf, ClaimantOf
<1> QED BY <1>1, <1>2

LEMMA KnownNext == NonstreamInv' => ClaimantsKnown'
BY KnownNow, PTL

\* A checkpoint that a step does not work on: it may expire, if it was on
\* offer, and nothing else happens to it.
Bystander(c) ==
  /\ \A q \in Requests : Working(q, c)' <=> Working(q, c)
  /\ accepted'[c] = accepted[c]
  /\ completedBy'[c] = completedBy[c]
  /\ c \in issued' <=> c \in issued
  /\ IsLive(c)' => IsLive(c)

LEMMA BystanderStep ==
  ASSUME NonstreamInv, NonstreamInv', NEW c \in Checkpoints, Bystander(c)
  PROVE  Promise!Same(c) \/ Promise!Expire(c)
<1>1. CASE Worked(c)
  <2>1. PICK r \in Requests : Working(r, c)
    BY <1>1 DEF Worked
  <2>2. StatusOf(c) = "claimed" /\ ClaimantOf(c) = r
    BY <2>1, KnownNow DEF ClaimantsKnown
  <2>3. Working(r, c)'
    BY <2>1 DEF Bystander
  <2>4. StatusOf(c)' = "claimed" /\ ClaimantOf(c)' = r
    BY <2>3, KnownNext DEF ClaimantsKnown
  <2> QED BY <2>2, <2>4 DEF Promise!Same, Bystander
<1>2. CASE ~Worked(c)
  <2>1. ~Worked(c)'
    BY <1>2 DEF Worked, Bystander
  <2>2. ClaimantOf(c) = NoCheckpoint /\ ClaimantOf(c)' = NoCheckpoint
    BY <1>2, <2>1, KnownNow, KnownNext DEF ClaimantsKnown
  <2>3. \/ StatusOf(c)' = StatusOf(c)
        \/ StatusOf(c) = "offered" /\ StatusOf(c)' = "closed"
    BY <1>2, <2>1 DEF StatusOf, Bystander
  <2> QED BY <2>2, <2>3 DEF Promise!Same, Promise!Expire, Bystander
<1> QED BY <1>1, <1>2

LEMMA IdleImplements ==
  ASSUME NonstreamInv, NonstreamInv', IdleStep, UNCHANGED accepted
  PROVE  Promise!Next
<1>1. ASSUME NEW c \in Checkpoints PROVE Bystander(c)
  BY ConstantsOK DEF IdleStep, Bystander, Working, IsLive
<1> QED BY <1>1, BystanderStep DEF Promise!Next

LEMMA ResumeImplements ==
  ASSUME NonstreamInv, NonstreamInv', NEW r \in Requests, AdmitResume(r)
  PROVE  Promise!Next
<1> DEFINE p == Scanned(body[r])
<1> USE DEF NonstreamInv
<1>1. PICK k \in Checkpoints :
        /\ Admissible(body[r], k, p)
        /\ pending' = p
        /\ accepted' = [accepted EXCEPT ![k] = EvidenceFor(body[r], k)]
        /\ owner' = [owner EXCEPT ![r] = k]
  BY DEF AdmitResume
<1>2. phase[r] = "queued" /\ phase' = [phase EXCEPT ![r] = "running"]
      /\ UNCHANGED <<completedBy, issued>>
  BY DEF AdmitResume, historyVars
<1>3. p \in {pending, Unexpired}
  BY DEF Scanned
<1>4. \A q \in Requests, d \in Checkpoints :
        Working(q, d)' <=> IF q = r THEN d = k ELSE Working(q, d)
  BY <1>1, <1>2 DEF Working, TypeOK
<1>5. \A d \in Checkpoints : ~Working(r, d)
  BY <1>2 DEF Working
<1>6. PICK i \in CallIds : p[i] = k
  BY <1>1 DEF Admissible, LiveIds, Returned
<1>7. pending[i] = k /\ k \in issued
  BY <1>3, <1>6, NothingRevived, ConstantsOK DEF StoreInv
<1>8. Promise!Claim(k)
  <2>1. ~Worked(k)
    BY <1>1, ConstantsOK DEF Admissible, ClaimInv, Worked, Working
  <2>2. StatusOf(k) = "offered"
    BY <1>7, <2>1 DEF StatusOf, IsLive
  <2>3. Working(r, k)'
    BY <1>4
  <2>4. StatusOf(k)' = "claimed" /\ ClaimantOf(k)' = r
    BY <2>3, KnownNext DEF ClaimantsKnown
  <2>5. accepted[k] \in {NoReply, accepted'[k]} /\ accepted'[k] # NoReply
    <3>1. owner'[r] = k /\ k # NoCheckpoint
      BY <1>1, ConstantsOK DEF TypeOK
    <3>2. accepted'[k] # NoReply
      BY <3>1 DEF EvidenceInv
    <3> QED BY <1>1, <3>2 DEF Admissible, TypeOK
  <2> QED BY <1>2, <2>2, <2>4, <2>5 DEF Promise!Claim
<1>9. ASSUME NEW c \in Checkpoints, c # k PROVE Bystander(c)
  BY <1>1, <1>2, <1>3, <1>4, <1>5, <1>9, NothingRevived
     DEF Bystander, IsLive, TypeOK
<1> QED BY <1>8, <1>9, BystanderStep DEF Promise!Next

LEMMA RaiseImplements ==
  ASSUME NonstreamInv, NonstreamInv', "stream" \notin Transports,
         NEW r \in Requests, NEW p, p \in {pending, Unexpired}, Raise(r, p),
         phase[r] \in {"queued", "running"},
         UNCHANGED <<accepted, owner, completedBy, issued>>
  PROVE  Promise!Next
<1> USE DEF NonstreamInv
<1>1. pending' = p /\ phase' = [phase EXCEPT ![r] = "done"]
  BY DEF Raise, TypeOK
<1>2. \A q \in Requests, c \in Checkpoints :
        Working(q, c)' <=> Working(q, c) /\ q # r
  BY <1>1 DEF Working, TypeOK
<1>3. ASSUME NEW c \in Checkpoints, ~Working(r, c) PROVE Bystander(c)
  BY <1>1, <1>2, <1>3, NothingRevived DEF Bystander, IsLive
<1>4. ASSUME NEW c \in Checkpoints, Working(r, c) PROVE Promise!Release(c)
  <2>1. StatusOf(c) = "claimed" /\ c \in issued
    BY <1>4, KnownNow, ConstantsOK DEF ClaimantsKnown, StoreInv, Working
  <2>2. ~Worked(c)'
    BY <1>2, <1>4 DEF Worked, ClaimInv, SingleOwner
  <2>3. IsLive(c)'
    BY <1>1, <1>4, WorkedNotStale, ConstantsOK DEF Working, IsLive
  <2>4. StatusOf(c)' = "offered" /\ ClaimantOf(c)' = NoCheckpoint
    BY <2>1, <2>2, <2>3, KnownNext DEF ClaimantsKnown, StatusOf
  <2> QED BY <2>1, <2>4 DEF Promise!Release
<1> QED BY <1>3, <1>4, BystanderStep DEF Promise!Next

LEMMA SettleImplements ==
  ASSUME NonstreamInv, NonstreamInv', "stream" \notin Transports,
         NEW r \in Requests, Finish(r) \/ Suspend(r)
  PROVE  Promise!Next
<1> USE DEF NonstreamInv
<1>1. SettlesStore(r)
  BY FinishSettles, SuspendSettles
<1>2. /\ phase[r] = "running"
      /\ phase' = [phase EXCEPT ![r] = "done"]
      /\ completedBy' = CompletedBy(owner[r], r)
      /\ UNCHANGED <<owner, accepted>>
  BY DEF Finish, Suspend, Settled, TypeOK
<1>3. \A q \in Requests, c \in Checkpoints :
        Working(q, c)' <=> Working(q, c) /\ q # r
  BY <1>2 DEF Working, TypeOK
<1>4. ASSUME NEW c \in Checkpoints, c = owner[r] PROVE Promise!Complete(c)
  <2>1. Working(r, c) /\ c \in issued /\ c # NoCheckpoint
    BY <1>2, <1>4, ConstantsOK DEF Working, StoreInv
  <2>2. StatusOf(c) = "claimed" /\ ClaimantOf(c) = r
    BY <2>1, KnownNow DEF ClaimantsKnown
  <2>3. ~Worked(c)' /\ ~IsLive(c)' /\ c \in issued'
    BY <1>1, <1>3, <1>4, <2>1 DEF SettlesStore, Worked, IsLive, ClaimInv, SingleOwner
  <2>4. StatusOf(c)' = "closed" /\ ClaimantOf(c)' = NoCheckpoint
    BY <2>3, KnownNext DEF ClaimantsKnown, StatusOf
  <2>5. completedBy'[c] = {r}
    BY <1>2, <1>4, <2>1 DEF CompletedBy, ClaimInv
  <2> QED BY <1>2, <2>2, <2>4, <2>5 DEF Promise!Complete
<1>5. ASSUME NEW c \in Checkpoints, c # owner[r], c \in issued' <=> c \in issued,
             c \in issued
      PROVE  Bystander(c)
  BY <1>1, <1>2, <1>3, <1>5 DEF Bystander, SettlesStore, IsLive, Working, CompletedBy
<1>6. ASSUME NEW c \in Checkpoints, c # owner[r], c \notin issued', c \notin issued
      PROVE  Bystander(c)
  <2>1. ~IsLive(c)'
    BY <1>6, ConstantsOK DEF StoreInv, IsLive
  <2> QED BY <1>2, <1>3, <1>6, <2>1 DEF Bystander, Working, CompletedBy
<1>7. ASSUME NEW c \in Checkpoints, c # owner[r], c \in issued', c \notin issued
      PROVE  Promise!Offer(c)
  <2>1. Suspend(r)
    BY <1>7 DEF Finish
  <2>2. PICK d \in Checkpoints \ issued, calls \in (SUBSET CallIds) \ {{}} :
          /\ pending' = Retired(owner[r],
                           [i \in CallIds |->
                              IF i \in calls THEN d ELSE Unexpired[i]])
          /\ issued' = issued \cup {d}
    BY <2>1 DEF Suspend
  <2>3. c = d /\ \E i \in CallIds : i \in calls
    BY <1>7, <2>2
  <2>4. IsLive(c)'
    BY <1>7, <2>2, <2>3 DEF IsLive, Retired
  <2>5. \A q \in Requests : ~Working(q, c)
    BY <1>7, ConstantsOK DEF Working, StoreInv
  <2>6. ~Worked(c) /\ ~Worked(c)'
    BY <1>3, <2>5 DEF Worked
  <2>7. StatusOf(c) = "unused" /\ StatusOf(c)' = "offered" /\ ClaimantOf(c)' = NoCheckpoint
    BY <1>7, <2>4, <2>6, KnownNext DEF StatusOf, ClaimantsKnown
  <2>8. accepted'[c] = NoReply /\ completedBy'[c] = {}
    BY <1>2, <1>7 DEF EvidenceInv, ClaimInv, CompletedBy
  <2> QED BY <2>7, <2>8 DEF Promise!Offer
<1>8. issued \subseteq issued'
  BY <1>1 DEF SettlesStore
<1> QED BY <1>4, <1>5, <1>6, <1>7, <1>8, BystanderStep DEF Promise!Next

LEMMA StepImplements ==
  ASSUME NonstreamInv, NonstreamInv', "stream" \notin Transports, [Next]_vars
  PROVE  Promise!Next
<1> USE DEF NonstreamInv
<1>1. ASSUME NEW r \in Requests, Arrive(r) \/ AdmitFresh(r) PROVE Promise!Next
  <2>1. phase[r] \in {"idle", "queued"} => owner[r] = NoCheckpoint
    BY DEF ClaimInv
  <2>2. IdleStep /\ UNCHANGED accepted
    BY <1>1, <2>1 DEF Arrive, AdmitFresh, TypeOK, storeVars, historyVars, IdleStep
  <2> QED BY <2>2, IdleImplements
<1>2. ASSUME NEW r \in Requests, AdmitResume(r) PROVE Promise!Next
  BY <1>2, ResumeImplements
<1>3. ASSUME NEW r \in Requests, AdmitRefused(r) \/ Collide(r) \/ Fail(r)
      PROVE  Promise!Next
  <2>1. PICK p \in {pending, Unexpired} : Raise(r, p)
    BY <1>3 DEF AdmitRefused, Collide, Fail, Scanned
  <2> QED BY <1>3, <2>1, RaiseImplements DEF AdmitRefused, Collide, Fail, historyVars
<1>4. ASSUME NEW r \in Requests, Finish(r) \/ Suspend(r) PROVE Promise!Next
  BY <1>4, SettleImplements
<1>5. ASSUME NEW r \in Requests, LoopInterrupt(r) \/ CloseStream(r) \/ Disconnect(r)
      PROVE  Promise!Next
  <2>1. phase[r] \in {"draining", "failing"}
    BY <1>5 DEF LoopInterrupt, CloseStream, Disconnect, TypeOK
  <2> QED BY <2>1 DEF ClaimInv
<1>6. ASSUME NEW c \in Checkpoints, Age(c) PROVE Promise!Next
  <2>1. IdleStep /\ UNCHANGED accepted
    BY <1>6 DEF Age, requestVars, historyVars, IdleStep
  <2> QED BY <2>1, IdleImplements
<1>7. CASE UNCHANGED vars
  <2>1. IdleStep /\ UNCHANGED accepted
    BY <1>7 DEF vars, storeVars, requestVars, historyVars, IdleStep
  <2> QED BY <2>1, IdleImplements
<1> QED BY <1>1, <1>2, <1>3, <1>4, <1>5, <1>6, <1>7 DEF Next

\* Without streams the store implements its promise: each checkpoint is
\* claimed by one request at a time, binds its evidence once, returns to the
\* offer on failure and is closed once.
THEOREM NonstreamImplementsPromise ==
  ASSUME "stream" \notin Transports
  PROVE  Spec => ImplementsPromise
<1>1. Init => Promise!Init
  BY DEF Init, Promise!Init, StatusOf, ClaimantOf
<1>2. NonstreamInv /\ NonstreamInv' /\ [Next]_vars => [Promise!Next]_(Promise!vars)
  BY StepImplements
<1> QED BY <1>1, <1>2, NonstreamInvariant, PTL
        DEF Spec, ImplementsPromise, Promise!Spec

-----------------------------------------------------------------------------
(* With one permit, streams included, the semaphore makes a claim exclusive *)
(* (the server's default, JACK_MAX_CONCURRENT = 1).                         *)

LEMMA FreeMeansEmpty ==
  ASSUME MaxConcurrent = 1, SemaphoreFree
  PROVE  Holders = {}
<1>1. IsFiniteSet(Holders)
  BY ConstantsOK, FS_Subset DEF Holders
<1>2. Cardinality(Holders) \in Nat /\ Cardinality(Holders) < 1
  BY <1>1, FS_CardinalityType DEF SemaphoreFree
<1> QED BY <1>1, <1>2, FS_EmptySet

LEMMA OneHolderStep ==
  ASSUME TypeOK, MaxConcurrent = 1, OneHolder, [Next]_vars
  PROVE  OneHolder'
<1>1. ASSUME NEW r \in Requests, AdmitFresh(r) \/ AdmitResume(r) PROVE OneHolder'
  <2>1. Holders = {} /\ phase' = [phase EXCEPT ![r] = "running"]
    BY <1>1, FreeMeansEmpty DEF AdmitFresh, AdmitResume
  <2> QED BY <2>1 DEF OneHolder, Holders, TypeOK
<1>2. ASSUME NEW r \in Requests,
             Arrive(r) \/ AdmitRefused(r) \/ Collide(r) \/ Fail(r)
               \/ LoopInterrupt(r) \/ CloseStream(r) \/ Disconnect(r)
      PROVE  OneHolder'
  <2>1. \E x \in {"queued", "done", "failing"} : phase' = [phase EXCEPT ![r] = x]
    BY <1>2 DEF Arrive, AdmitRefused, Collide, Fail, LoopInterrupt, CloseStream,
                Disconnect, LeaveStream, Raise
  <2> QED BY <2>1 DEF OneHolder, Holders, TypeOK
<1>3. ASSUME NEW r \in Requests, Finish(r) \/ Suspend(r) PROVE OneHolder'
  <2>1. r \in Holders
        /\ \E x \in {"draining", "done"} : phase' = [phase EXCEPT ![r] = x]
    BY <1>3 DEF Finish, Suspend, Settled, Holders
  <2> QED BY <2>1 DEF OneHolder, Holders, TypeOK
<1>4. ASSUME NEW c \in Checkpoints, Age(c) PROVE OneHolder'
  BY <1>4 DEF Age, requestVars, OneHolder, Holders
<1>5. CASE UNCHANGED vars
  BY <1>5 DEF vars, requestVars, OneHolder, Holders
<1> QED BY <1>1, <1>2, <1>3, <1>4, <1>5 DEF Next

\* At the default concurrency no two requests run the same checkpoint,
\* although streams rearm checkpoints they do not own.
THEOREM SingleOwnerSerial ==
  ASSUME MaxConcurrent = 1
  PROVE  Spec => []SingleOwner
<1>1. Init => OneHolder
  BY DEF Init, OneHolder, Holders
<1>2. TypeOK /\ OneHolder /\ [Next]_vars => OneHolder'
  BY OneHolderStep
<1>3. OneHolder => SingleOwner
  BY DEF OneHolder, SingleOwner, Working, Holders
<1> QED BY <1>1, <1>2, <1>3, TypeCorrect, PTL DEF Spec
=============================================================================
