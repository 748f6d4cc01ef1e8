------------------------ MODULE ClaimRegistryProofs ------------------------
(***************************************************************************)
(* The other actions of ClaimRegistry preserve its inductive invariant, and *)
(* the theorems that follow.                                                *)
(***************************************************************************)
EXTENDS ClaimRegistryInvariant

\* RejectClaim, up to the return of reject, preserves the inductive
\* invariant.
LEMMA RejectClaimStep ==
    ASSUME IInv, NEW c \in Claims, RejectClaim(c)
    PROVE  IInv'
<1>0. /\ TypeOK /\ Sound(r) /\ Core(r) /\ r \in RegistryType
      /\ half[c].at = "arrived" /\ half[c].known \in 0 .. MaxGeneration
      /\ Unclaimed(r, c) /\ UNCHANGED flow
  BY DEF IInv, Sound, TypeOK, HalfType, RejectClaim
<1> DEFINE q == ProvisionGeneration(r, c, half[c].known)
           g == ClaimGeneration(q, c, half[c].known)
<1>1. ASSUME CanProvision(r, c, half[c].known)
      PROVE  /\ Sound(q) /\ Shrinks(q, r) /\ Unclaimed(q, c)
             /\ q \in RegistryType /\ q.entries \subseteq Claims
  <2>1. Sound(q) /\ Shrinks(q, r)
    BY <1>0, <1>1, ProvisionSound
  <2> HIDE DEF q
  <2>2. Unclaimed(q, c)
    BY <1>0, <2>1 DEF Unclaimed, Shrinks
  <2>3. q \in RegistryType /\ q.entries \subseteq Claims
    BY <2>1, RegistryFields DEF Sound, Core
  <2> QED BY <2>1, <2>2, <2>3
<1>2. CASE RejectRefused(c)
  <2>1. r' = r \/ (CanProvision(r, c, half[c].known) /\ r' = q)
    BY <1>2 DEF RejectRefused
  <2>2. Sound(r') /\ Shrinks(r', r)
    BY <1>0, <1>1, <2>1, ShrinksReflexive
  <2> QED BY <1>0, <1>2, <2>2, RefuseStep DEF RejectRefused
<1>3. CASE RejectAccepted(c)
  <2>1. /\ Sound(q) /\ Shrinks(q, r) /\ Unclaimed(q, c)
        /\ q \in RegistryType /\ q.entries \subseteq Claims
        /\ ~StaleClaim(q, c, half[c].known)
    BY <1>1, <1>3 DEF RejectAccepted, RejectStale
  <2>2. /\ half' = [half EXCEPT ![c] = [at |-> "rejecting", known |-> 0]]
        /\ result' = result
        /\ \/ RejectUnknown(c, q, g)
           \/ \E e \in EntryAt(q, c) :
                 RejectTerminal(c, q, e) \/ RejectPending(c, q, e)
                   \/ RejectActive(c, q, e)
    BY <1>3 DEF RejectAccepted
  <2> HIDE DEF q
  <2>3. g \in Generations /\ g = q.generations[c.session]
    BY <1>0, <2>1, CurrentClaim
  <2> HIDE DEF g
  <2>4. /\ half' \in [Claims -> HalfType] /\ half'[c].at = "rejecting"
        /\ half'[c].known = 0
        /\ \A d \in Claims : d # c => half'[d] = half[d]
    BY <1>0, <2>2, MaxGenerationNat DEF TypeOK, HalfType
  <2>5. HalvesAdvance
    BY <1>0, <2>4 DEF HalvesAdvance
  <2>6. CASE RejectUnknown(c, q, g)
    <3>1. /\ Sound(r') /\ Adds(r', q, c)
      BY <2>1, <2>3, <2>6, RejectUnknownSound DEF RejectUnknown, SetEntry
    <3>2. Adds(r', r, c)
      BY <2>1, <3>1, ShrinksAdds
    <3>3. UNCHANGED <<blocker, work>>
      BY <2>6 DEF RejectUnknown
    <3>4. TypeOK'
      BY <1>0, <2>2, <2>4, <3>1, <3>3 DEF TypeOK, Sound, Core
    <3> QED
      BY <1>0, <2>4, <2>5, <3>1, <3>2, <3>4, StepAdds
  <2>7. ASSUME NEW e \in EntryAt(q, c),
               RejectTerminal(c, q, e) \/ RejectPending(c, q, e)
                 \/ RejectActive(c, q, e)
        PROVE  IInv'
    <3>1. e \in Claims /\ e \in q.entries
      BY <2>1 DEF EntryAt
    <3>2. Sound(r') /\ Shrinks(r', q)
      <4>1. CASE RejectTerminal(c, q, e)
        BY <2>1, <4>1, ShrinksReflexive DEF RejectTerminal
      <4>2. CASE RejectPending(c, q, e)
        <5>1. e \in Pending(q)
          BY <3>1, <4>2 DEF Pending, RejectPending
        <5> QED BY <2>1, <4>2, <5>1, FailPendingSound DEF RejectPending
      <4>3. CASE RejectActive(c, q, e)
        <5>1. e \notin Pending(q)
          BY <4>3 DEF Pending, RejectActive
        <5> QED BY <2>1, <3>1, <4>3, <5>1, ReleaseActiveSound DEF RejectActive
      <4> QED BY <2>7, <4>1, <4>2, <4>3
    <3>3. Shrinks(r', r)
      BY <2>1, <3>2, ShrinksTransitive
    <3>4. /\ work' \in [Claims -> WorkType]
          /\ blocker' \in [Claims -> Claims \cup {NoClaim}]
      <4>1. CASE UNCHANGED <<blocker, work>>
        BY <1>0, <4>1 DEF TypeOK
      <4>2. CASE /\ work' = [work EXCEPT ![e] = Settle(q, e)]
                 /\ blocker' = [blocker EXCEPT ![c] = e]
        <5>1. work' \in [Claims -> WorkType]
          BY <1>0, <2>1, <3>1, <4>2, WorksType
        <5> QED BY <1>0, <3>1, <4>2, <5>1 DEF TypeOK
      <4> QED BY <2>7, <4>1, <4>2 DEF RejectTerminal, RejectPending, RejectActive
    <3>5. TypeOK'
      BY <1>0, <2>2, <2>4, <3>2, <3>4 DEF TypeOK, Sound, Core
    <3> QED
      BY <1>0, <2>5, <3>2, <3>3, <3>5, StepShrinks
  <2> QED BY <2>2, <2>6, <2>7
<1> QED
  BY <1>2, <1>3 DEF RejectClaim

\* The second critical section of RejectClaim preserves the inductive
\* invariant.
LEMMA FinishRejectStep ==
    ASSUME IInv, NEW c \in Claims, FinishReject(c)
    PROVE  IInv'
<1>0. TypeOK /\ Sound(r)
  BY DEF IInv
<1> DEFINE owing == {e \in EntryAt(r, c) : /\ State(r, e) = "terminal"
                                           /\ ~r.entry[e].terminalConsumed
                                           /\ Selected(c)}
<1>1. /\ r' = [r EXCEPT !.entry = [e \in Claims |->
                                      Consumed(r.entry[e], e \in owing)]]
      /\ result' = IF owing = {} THEN result ELSE WriteResult({c}, "REJECTED")
      /\ half' = CloseHalves({c})
      /\ blocker' = [blocker EXCEPT ![c] = NoClaim]
      /\ UNCHANGED <<flow, work>>
  BY DEF FinishReject
<1> HIDE DEF owing
<1>2. Sound(r') /\ Shrinks(r', r)
  BY <1>0, <1>1, ConsumeMany
<1>3. half' \in [Claims -> HalfType] /\ HalvesAdvance
  BY <1>0, <1>1, HalvesType, CloseAdvances
<1>4. result' \in [Claims -> Results] /\ blocker' \in [Claims -> Claims \cup {NoClaim}]
  BY <1>0, <1>1, ResultType DEF Results, TypeOK
<1>5. TypeOK'
  BY <1>0, <1>1, <1>2, <1>3, <1>4 DEF TypeOK, Sound, Core
<1> QED
  BY <1>1, <1>2, <1>3, <1>5, StepShrinks

----------------------------------------------------------------------------
(* The other actions.                                                       *)

\* The arrival of a half with any known generation preserves the inductive
\* invariant.
LEMMA ArriveStep ==
    ASSUME IInv, NEW c \in Claims, NEW g \in 0 .. MaxGeneration, Arrive(c, g)
    PROVE  IInv'
<1>0. /\ TypeOK /\ Sound(r) /\ half[c].at = "idle"
      /\ half' = [half EXCEPT ![c] = [at |-> "arrived", known |-> g]]
      /\ UNCHANGED <<r, blocker, result, flow, work>>
  BY DEF IInv, Arrive
<1>1. /\ half' \in [Claims -> HalfType]
      /\ \A d \in Claims : d # c => half'[d] = half[d]
  BY <1>0 DEF TypeOK, HalfType
<1>2. TypeOK'
  BY <1>0, <1>1 DEF TypeOK
<1>3. HalvesAdvance
  BY <1>0, <1>1 DEF HalvesAdvance
<1>4. Sound(r') /\ Shrinks(r', r)
  BY <1>0, ShrinksReflexive
<1> QED
  BY <1>0, <1>2, <1>3, <1>4, StepShrinks

\* timeout and the cancellation in waitPending preserve the inductive
\* invariant.
LEMMA FailAloneStep ==
    ASSUME IInv, NEW e \in Claims, FailAlone(e)
    PROVE  IInv'
<1>0. /\ TypeOK /\ Sound(r) /\ r \in RegistryType
      /\ e \in Pending(r) /\ r' = FailPending(r, e)
      /\ work' = [work EXCEPT ![e] = Settle(r, e)]
      /\ UNCHANGED <<half, blocker, result, flow>>
  BY DEF IInv, TypeOK, FailAlone
<1>1. Sound(r') /\ Shrinks(r', r)
  BY <1>0, FailPendingSound
<1>2. work' \in [Claims -> WorkType]
  BY <1>0, WorksType
<1>3. TypeOK'
  BY <1>0, <1>1, <1>2 DEF TypeOK, Sound, Core
<1> QED
  BY <1>0, <1>1, <1>3, SameAdvances, StepShrinks

\* beginSessionRegistration preserves the inductive invariant, replacing or
\* not.
LEMMA RegistrationStep ==
    ASSUME IInv, NEW s \in Sessions, NEW replacing \in BOOLEAN,
           BeginSessionRegistration(s, replacing)
    PROVE  IInv'
<1> DEFINE g == RegistrationGeneration(r, s, replacing)
<1>0. /\ TypeOK /\ Sound(r) /\ r \in RegistryType
      /\ RegistrationRoom(g) /\ r' = RegisterSession(r, s, g)
      /\ work' = [e \in Claims |->
            IF e \in Detached(r, s, g) \ Terminal(r) THEN Settle(r, e)
            ELSE work[e]]
      /\ UNCHANGED <<half, blocker, result, flow>>
  BY DEF IInv, TypeOK, BeginSessionRegistration
<1>1. g \in Generations
  <2>1. /\ r.generations[s] \in 0 .. MaxGeneration
        /\ r.nextGeneration \in 0 .. MaxGeneration
    BY <1>0, RegistryFields
  <2>2. g \in Nat \ {0}
    BY <2>1, MaxGenerationNat DEF RegistrationGeneration
  <2>3. Cardinality({c \in Claims : half[c].at \in {"idle", "arrived"}}) \in Nat
    BY FiniteClaims
  <2> HIDE DEF g
  <2> QED BY <1>0, <2>1, <2>2, <2>3, MaxGenerationNat DEF RegistrationRoom, Generations
<1> HIDE DEF g
<1>2. Sound(r') /\ Shrinks(r', r)
  BY <1>0, <1>1, RegisterSound
<1>3. work' \in [Claims -> WorkType]
  BY <1>0, SettleType DEF TypeOK
<1>4. TypeOK'
  BY <1>0, <1>2, <1>3 DEF TypeOK, Sound, Core
<1> QED
  BY <1>0, <1>2, <1>4, SameAdvances, StepShrinks

\* unregisterSessionGeneration preserves the inductive invariant.
LEMMA UnregistrationStep ==
    ASSUME IInv, NEW s \in Sessions, NEW g \in Generations,
           UnregisterSessionGeneration(s, g)
    PROVE  IInv'
<1>0. /\ TypeOK /\ Sound(r) /\ r' = UnregisterSession(r, s, g)
      /\ UNCHANGED <<half, blocker, result, flow, work>>
  BY DEF IInv, UnregisterSessionGeneration
<1>1. Sound(r') /\ Shrinks(r', r)
  BY <1>0, UnregisterSound
<1>2. TypeOK'
  BY <1>0, <1>1 DEF TypeOK, Sound, Core
<1> QED
  BY <1>0, <1>1, <1>2, SameAdvances, StepShrinks

\* What is done to connections and readiness outside the lock preserves the
\* inductive invariant.
LEMMA UnlockedStep ==
    ASSUME IInv, NEW e \in Claims,
           CommitClosing(e) \/ SettleHalves(e) \/ Ready(e) \/ RejectReadiness(e)
    PROVE  IInv'
<1>0. /\ TypeOK /\ Sound(r) /\ work[e] \in WorkType /\ flow[e] \in FlowType
      /\ UNCHANGED <<r, blocker>>
  BY DEF IInv, TypeOK, CommitClosing, SettleHalves, Ready, RejectReadiness
<1>1. /\ [work[e] EXCEPT !.todo = "settle"] \in WorkType /\ NoWork \in WorkType
  BY <1>0 DEF WorkType, NoWork
<1>2. \A v \in {"ready", "rejected", flow[e].readiness} :
         [flow[e] EXCEPT !.readiness = v] \in FlowType
  BY <1>0 DEF FlowType
<1>3. result' \in [Claims -> Results]
  BY <1>0, ResultType DEF CommitClosing, SettleHalves, Ready, RejectReadiness, Results
<1>4. half' \in [Claims -> HalfType] /\ HalvesAdvance
  <2>1. CASE half' = half
    BY <1>0, <2>1, SameAdvances DEF TypeOK
  <2>2. CASE half' = CloseHalves(work[e].halves)
    BY <1>0, <2>2, HalvesType, CloseAdvances
  <2> QED BY <2>1, <2>2 DEF CommitClosing, SettleHalves, Ready, RejectReadiness
<1>5. work' \in [Claims -> WorkType]
  BY <1>0, <1>1 DEF CommitClosing, SettleHalves, Ready, RejectReadiness, TypeOK
<1>6. /\ flow' \in [Claims -> FlowType]
      /\ \A d \in Claims : flow'[d].readiness # "none" => flow[d].readiness # "none"
  <2>1. CASE CommitClosing(e)
    BY <1>0, <2>1 DEF CommitClosing, TypeOK
  <2>2. ASSUME NEW v \in {"ready", "rejected", flow[e].readiness},
               v # "none" => flow[e].readiness # "none",
               flow' = [flow EXCEPT ![e] = [flow[e] EXCEPT !.readiness = v]]
        PROVE  /\ flow' \in [Claims -> FlowType]
               /\ \A d \in Claims : flow'[d].readiness # "none" =>
                     flow[d].readiness # "none"
    <3>1. [flow[e] EXCEPT !.readiness = v].readiness = v
      BY <1>0 DEF FlowType
    <3> QED BY <1>0, <1>2, <2>2, <3>1 DEF TypeOK
  <2>3. CASE SettleHalves(e)
    <3> DEFINE v == IF flow[e].readiness = "unresolved" THEN "rejected"
                    ELSE flow[e].readiness
    <3>1. flow' = [flow EXCEPT ![e] = [flow[e] EXCEPT !.readiness = v]]
      BY <1>0, <2>3 DEF SettleHalves, TypeOK
    <3> QED BY <2>2, <3>1
  <2>4. CASE Ready(e)
    <3> DEFINE dead == \E c \in flow[e].halves : /\ Selected(c)
                                                 /\ half[c].at = "closed"
                                                 /\ result[c] = "none"
               v == IF dead THEN "rejected" ELSE "ready"
    <3>1. flow' = [flow EXCEPT ![e] = [flow[e] EXCEPT !.readiness = v]]
      BY <1>0, <2>4 DEF Ready, TypeOK
    <3>2. flow[e].readiness = "unresolved"
      BY <2>4 DEF Ready
    <3>3. v \in {"ready", "rejected"}
      OBVIOUS
    <3> HIDE DEF v
    <3> QED BY <2>2, <3>1, <3>2, <3>3
  <2>5. CASE RejectReadiness(e)
    <3>1. flow' = [flow EXCEPT ![e] = [flow[e] EXCEPT !.readiness = "rejected"]]
      BY <1>0, <2>5 DEF RejectReadiness, TypeOK
    <3> QED BY <2>2, <2>5, <3>1 DEF RejectReadiness
  <2> QED BY <2>1, <2>3, <2>4, <2>5
<1>7. TypeOK'
  BY <1>0, <1>3, <1>4, <1>5, <1>6 DEF TypeOK
<1>8. Sound(r') /\ Shrinks(r', r)
  BY <1>0, ShrinksReflexive
<1> QED
  BY <1>4, <1>6, <1>7, <1>8, StepShrinks

\* udpPermit.Release, however late, preserves the inductive invariant.
LEMMA ReleasePermitStep ==
    ASSUME IInv, NEW e \in Claims, ReleasePermit(e)
    PROVE  IInv'
<1>0. /\ TypeOK /\ Sound(r) /\ r.entry[e].permit # "none"
      /\ r' = ReleaseUDPPermit(r, e)
      /\ UNCHANGED <<half, blocker, result, flow, work>>
  BY DEF IInv, ReleasePermit
<1>1. Sound(r') /\ Shrinks(r', r)
  BY <1>0, ReleaseUDPPermitSound
<1>2. TypeOK'
  BY <1>0, <1>1 DEF TypeOK, Sound, Core
<1> QED
  BY <1>0, <1>1, <1>2, SameAdvances, StepShrinks

\* The end of a route, by then released by somebody else or not, preserves
\* the inductive invariant: its entry is never a pending one.
LEMMA EndRouteStep ==
    ASSUME IInv, NEW e \in Claims, EndRoute(e)
    PROVE  IInv'
<1>0. /\ TypeOK /\ Sound(r) /\ e \notin Pending(r)
      /\ half' = CloseHalves(flow[e].halves)
      /\ flow' = [flow EXCEPT ![e] = NoFlow]
      /\ r' = ReleaseActive(r, e)
      /\ UNCHANGED <<blocker, result, work>>
  BY DEF IInv, EndRoute
<1>1. Sound(r') /\ Shrinks(r', r)
  BY <1>0, ReleaseActiveSound
<1>2. half' \in [Claims -> HalfType] /\ HalvesAdvance
  BY <1>0, HalvesType, CloseAdvances
<1>4. /\ flow' \in [Claims -> FlowType]
      /\ \A d \in Claims : flow'[d].readiness # "none" => flow[d].readiness # "none"
  BY <1>0 DEF TypeOK, NoFlow, FlowType
<1>5. TypeOK'
  BY <1>0, <1>1, <1>2, <1>4 DEF TypeOK, Sound, Core
<1> QED
  BY <1>1, <1>2, <1>4, <1>5, StepShrinks

\* Each step of the shutdown preserves the inductive invariant.
LEMMA ShutdownStep ==
    ASSUME IInv, CloseAdmission \/ BeginDrain \/ Close \/ AbortClosing
    PROVE  IInv'
<1>0. /\ TypeOK /\ Sound(r) /\ r \in RegistryType /\ Core(r)
      /\ UNCHANGED <<blocker, result, flow>>
  BY DEF IInv, Sound, Core, CloseAdmission, BeginDrain, Close, AbortClosing
<1>1. Sound(r') /\ Shrinks(r', r)
  <2>1. CASE CloseAdmission
    <3> DEFINE p == [r EXCEPT !.accepting = FALSE]
    <3>1. p \in RegistryType /\ Alike(p, r)
      BY <1>0 DEF RegistryType, Alike
    <3>2. r' = p
      BY <2>1 DEF CloseAdmission
    <3> HIDE DEF p
    <3> QED BY <1>0, <3>1, <3>2, AlikeSound DEF Sound
  <2>2. CASE BeginDrain
    BY <1>0, <2>2, DrainSound DEF BeginDrain
  <2>3. CASE Close
    BY <1>0, <2>3, CloseSound DEF Close
  <2>4. CASE AbortClosing
    BY <1>0, <2>4, ShrinksReflexive DEF AbortClosing
  <2> QED BY <2>1, <2>2, <2>3, <2>4
<1>2. half' \in [Claims -> HalfType] /\ HalvesAdvance
  <2>1. CASE half' = half
    BY <1>0, <2>1, SameAdvances DEF TypeOK
  <2>2. ASSUME NEW H, half' = CloseHalves(H)
        PROVE  half' \in [Claims -> HalfType] /\ HalvesAdvance
    BY <1>0, <2>2, HalvesType, CloseAdvances
  <2> QED BY <2>1, <2>2 DEF CloseAdmission, BeginDrain, Close, AbortClosing
<1>3. work' \in [Claims -> WorkType]
  <2>1. \A e \in Claims :
           [todo |-> "commit", halves |-> r.entry[e].halves, closing |-> TRUE]
              \in WorkType
    BY <1>0, EntryFields DEF WorkType
  <2>2. \A e \in Claims : Settle(r, e) \in WorkType
    BY <1>0, SettleType
  <2> QED
    BY <1>0, <2>1, <2>2 DEF CloseAdmission, BeginDrain, Close, AbortClosing, TypeOK
<1>4. TypeOK'
  BY <1>0, <1>1, <1>2, <1>3 DEF TypeOK, Sound, Core
<1> QED
  BY <1>0, <1>1, <1>2, <1>4, StepShrinks

----------------------------------------------------------------------------
(* The theorems.                                                            *)

\* Every step of the system preserves the inductive invariant.
LEMMA NextIInv == IInv /\ [Next]_vars => IInv'
<1> SUFFICES ASSUME IInv, [Next]_vars PROVE IInv'
  OBVIOUS
<1>1. ASSUME NEW c \in Claims, NEW g \in KnownGenerations(c), Arrive(c, g)
      PROVE  IInv'
  <2>1. g \in 0 .. MaxGeneration
    <3>1. r \in RegistryType
      BY DEF IInv, TypeOK
    <3>2. /\ r.generations[c.session] \in 0 .. MaxGeneration
          /\ r.nextGeneration \in 0 .. MaxGeneration
      BY <3>1, ClaimSession, RegistryFields
    <3> QED BY <3>2, MaxGenerationNat DEF KnownGenerations
  <2> QED BY <1>1, <2>1, ArriveStep
<1>2. ASSUME NEW c \in Claims, Submit(c) \/ RejectClaim(c) \/ FinishReject(c)
      PROVE  IInv'
  BY <1>2, SubmitStep, RejectClaimStep, FinishRejectStep
<1>3. ASSUME NEW e \in Claims, Timeout(e) \/ CancelPending(e)
      PROVE  IInv'
  BY <1>3, FailAloneStep DEF Timeout, CancelPending
<1>4. ASSUME NEW e \in Claims,
             \/ SettleHalves(e) \/ ReleasePermit(e) \/ Ready(e)
             \/ RejectReadiness(e) \/ EndRoute(e) \/ CommitClosing(e)
      PROVE  IInv'
  BY <1>4, UnlockedStep, ReleasePermitStep, EndRouteStep
<1>5. ASSUME NEW s \in Sessions, NEW replacing \in BOOLEAN,
             BeginSessionRegistration(s, replacing)
      PROVE  IInv'
  BY <1>5, RegistrationStep
<1>6. ASSUME NEW s \in Sessions, NEW g \in Generations,
             UnregisterSessionGeneration(s, g)
      PROVE  IInv'
  BY <1>6, UnregistrationStep
<1>7. CASE CloseAdmission \/ BeginDrain \/ Close \/ AbortClosing
  BY <1>7, ShutdownStep
<1>8. CASE UNCHANGED vars
  <2>1. r' = r /\ half' = half /\ flow' = flow
    BY <1>8 DEF vars
  <2>2. TypeOK'
    BY <1>8 DEF vars, IInv, TypeOK
  <2>3. Sound(r') /\ Shrinks(r', r)
    BY <2>1, ShrinksReflexive DEF IInv
  <2> QED BY <2>1, <2>2, <2>3, SameAdvances, StepShrinks
<1> QED
  BY <1>1, <1>2, <1>3, <1>4, <1>5, <1>6, <1>7, <1>8 DEF Next, Serve, Shutdown

\* The inductive invariant holds in every reachable state.
LEMMA InductiveInvariant == Spec => []IInv
BY InitIInv, NextIInv, PTL DEF Spec

\* The types of all the state: no step of the registry takes a counter below
\* zero, and entries, halves and flows only ever hold values of their type.
THEOREM TypeCorrect == Spec => []TypeOK
<1>1. IInv => TypeOK
  BY DEF IInv
<1> QED
  BY <1>1, InductiveInvariant, PTL

\* The pending and idle counters and the UDP permits in use are exact in every
\* reachable state of the registry, for any finite set of claims, any sessions
\* and any limits.
THEOREM CountersAreExact == Spec => []CountersExact
<1>1. IInv => CountersExact
  <2> SUFFICES ASSUME IInv PROVE CountersExact
    OBVIOUS
  <2>1. Counted(r, Pending(r)) /\ PermitsExact(r)
    BY DEF IInv, Sound, Core
  <2> QED BY <2>1 DEF CountersExact, Counted, PermitsExact
<1> QED
  BY <1>1, InductiveInvariant, PTL

\* Generation fencing: every entry in the registry, and every half in one,
\* belongs to the current generation of its session.
THEOREM GenerationsAreFenced == Spec => []CurrentGenerationOnly
<1>1. IInv => CurrentGenerationOnly
  BY DEF IInv, Sound, Fenced, HalvesFenced, CurrentGenerationOnly
<1> QED
  BY <1>1, InductiveInvariant, PTL
=============================================================================
