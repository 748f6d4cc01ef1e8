----------------------- MODULE ClaimRegistryInvariant -----------------------
(***************************************************************************)
(* The inductive invariant of ClaimRegistry: it holds initially, and Submit *)
(* preserves it.                                                            *)
(***************************************************************************)
EXTENDS ClaimRegistry, AdmissionLemmas

\* A half that named a generation is only held in an entry of that generation
HalvesFenced ==
    \A e \in r.entries : \A h \in r.entry[e].halves :
        half[h].known \in {0, r.entry[e].generation}

\* The inductive invariant.  Counters and fencing are not inductive alone: a
\* claim must be new to the registry when it is submitted, and an entry whose
\* route can still end must not be pending, or releasing it would drop a
\* pending entry past finishPendingLocked.
IInv ==
    /\ TypeOK
    /\ Sound(r)
    /\ \A c \in Claims : half[c].at \in {"idle", "arrived"} =>
          Unclaimed(r, c) /\ flow[c].readiness = "none"
    /\ HalvesFenced
    /\ \A e \in Pending(r) : flow[e].readiness = "none"

----------------------------------------------------------------------------
(* Steps of the system.                                                     *)

\* setupResult.commit writes a setup result.
LEMMA ResultType ==
    ASSUME TypeOK, NEW H, NEW v \in Results
    PROVE  WriteResult(H, v) \in [Claims -> Results]
BY DEF TypeOK, WriteResult

\* Closing connections leaves every half in a state of its type.
LEMMA HalvesType ==
    ASSUME TypeOK, NEW H
    PROVE  CloseHalves(H) \in [Claims -> HalfType]
BY MaxGenerationNat DEF TypeOK, CloseHalves, ClosedHalf, HalfType

\* A half the registry takes keeps the generation it named.
LEMMA HoldType ==
    ASSUME TypeOK, NEW c \in Claims
    PROVE  /\ Hold(c) \in [Claims -> HalfType]
           /\ Hold(c)[c].at = "held"
           /\ \A d \in Claims : Hold(c)[d].known = half[d].known
           /\ \A d \in Claims : d # c => Hold(c)[d] = half[d]
<1>1. \A d \in Claims : /\ half[d] \in HalfType
                        /\ [half[d] EXCEPT !.at = "held"] \in HalfType
                        /\ [half[d] EXCEPT !.at = "held"].at = "held"
                        /\ [half[d] EXCEPT !.at = "held"].known = half[d].known
  BY DEF TypeOK, HalfType
<1>2. Hold(c) = [half EXCEPT ![c] = [half[c] EXCEPT !.at = "held"]]
  BY DEF Hold, TypeOK
<1> QED
  BY <1>1, <1>2 DEF TypeOK

\* What a critical section leaves to be done is a record of the halves it
\* found.
LEMMA SettleType ==
    ASSUME NEW q \in RegistryType, NEW e \in Claims
    PROVE  Settle(q, e) \in WorkType
BY EntryFields DEF Settle, WorkType

\* Halves only move away from "idle" and "arrived", and forget a generation or
\* keep it
HalvesAdvance ==
    \A d \in Claims :
        /\ half'[d].at \in {"idle", "arrived"} => half[d].at \in {"idle", "arrived"}
        /\ half'[d].known \in {0, half[d].known} \/ half[d].at = "idle"

\* Closing connections never makes a half new again.
LEMMA CloseAdvances ==
    ASSUME TypeOK, NEW H, half' = CloseHalves(H)
    PROVE  HalvesAdvance
BY DEF HalvesAdvance, CloseHalves, ClosedHalf, TypeOK

\* Nor does leaving them alone.
LEMMA SameAdvances ==
    ASSUME half' = half
    PROVE  HalvesAdvance
BY DEF HalvesAdvance

\* A step that only takes away from the registry preserves the inductive
\* invariant.
LEMMA StepShrinks ==
    ASSUME IInv, TypeOK', Sound(r'), Shrinks(r', r), HalvesAdvance,
           \A d \in Claims :
              flow'[d].readiness # "none" => flow[d].readiness # "none"
    PROVE  IInv'
<1>1. /\ r.entries \subseteq Claims /\ r'.entries \subseteq Claims
      /\ \A e \in Claims : r.entry[e].halves \subseteq Claims
  BY RegistryFields, EntryFields DEF IInv, TypeOK
<1>2. ASSUME NEW c \in Claims, half'[c].at \in {"idle", "arrived"}
      PROVE  Unclaimed(r', c) /\ flow'[c].readiness = "none"
  <2>1. Unclaimed(r, c) /\ flow[c].readiness = "none"
    BY <1>2 DEF IInv, HalvesAdvance
  <2> QED
    BY <2>1 DEF Unclaimed, Shrinks
<1>3. ASSUME NEW e \in r'.entries, NEW h \in r'.entry[e].halves
      PROVE  half'[h].known \in {0, r'.entry[e].generation}
  <2>1. /\ e \in r.entries /\ h \in r.entry[e].halves /\ h \in Claims
        /\ r'.entry[e].generation = r.entry[e].generation
    BY <1>1, <1>3 DEF Shrinks
  <2>2. half[h].known \in {0, r.entry[e].generation}
    BY <2>1 DEF IInv, HalvesFenced
  <2>3. half[h].at # "idle"
    BY <2>1 DEF IInv, Unclaimed
  <2> QED
    BY <2>1, <2>2, <2>3 DEF HalvesAdvance
<1>4. \A e \in Pending(r') : flow'[e].readiness = "none"
  BY <1>1 DEF IInv, Shrinks, Pending
<1> QED
  BY <1>2, <1>3, <1>4 DEF IInv, HalvesFenced, Sound, Core, Fenced, Counted,
     PermitsExact, UniqueKeys, Pending, State, PermitsInUse, Unclaimed

\* A step that adds one arrived claim to the registry preserves the inductive
\* invariant, when the claim named no generation but its entry's.
LEMMA StepAdds ==
    ASSUME IInv, TypeOK', Sound(r'), NEW c \in Claims, Adds(r', r, c),
           HalvesAdvance, half[c].at = "arrived",
           half'[c].at \notin {"idle", "arrived"},
           \A e \in r'.entries : c \in r'.entry[e].halves =>
              half'[c].known \in {0, r'.entry[e].generation},
           \A d \in Claims : flow'[d].readiness # "none" =>
              flow[d].readiness # "none" \/ d \notin Pending(r'),
           \A d \in Claims : d # c /\ flow'[d].readiness # "none" =>
              flow[d].readiness # "none" \/ half[d].at \notin {"idle", "arrived"}
    PROVE  IInv'
<1>1. /\ r.entries \subseteq Claims /\ r'.entries \subseteq Claims
      /\ \A e \in Claims : r.entry[e].halves \subseteq Claims
      /\ \A e \in Claims : r'.entry[e].halves \subseteq Claims
  <2>1. r \in RegistryType /\ r' \in RegistryType
    BY DEF IInv, TypeOK
  <2> QED BY <2>1, RegistryFields, EntryFields
<1>2. ASSUME NEW d \in Claims, half'[d].at \in {"idle", "arrived"}
      PROVE  Unclaimed(r', d) /\ flow'[d].readiness = "none"
  <2>1. d # c /\ half[d].at \in {"idle", "arrived"}
    BY <1>2 DEF HalvesAdvance
  <2>2. Unclaimed(r, d) /\ flow[d].readiness = "none"
    BY <2>1 DEF IInv
  <2>3. Unclaimed(r', d)
    BY <2>1, <2>2 DEF Unclaimed, Adds
  <2> QED
    BY <2>1, <2>2, <2>3
<1>3. ASSUME NEW e \in r'.entries, NEW h \in r'.entry[e].halves
      PROVE  half'[h].known \in {0, r'.entry[e].generation}
  <2>1. CASE h = c
    BY <1>3, <2>1
  <2>2. CASE h # c
    <3>1. e # c
      BY <1>3, <2>2 DEF Adds
    <3>2. /\ e \in r.entries /\ h \in r.entry[e].halves /\ h \in Claims
          /\ r'.entry[e].generation = r.entry[e].generation
      BY <1>1, <1>3, <2>2, <3>1 DEF Adds
    <3>3. half[h].known \in {0, r.entry[e].generation}
      BY <3>2 DEF IInv, HalvesFenced
    <3>4. half[h].at # "idle"
      BY <3>2 DEF IInv, Unclaimed
    <3> QED
      BY <3>2, <3>3, <3>4 DEF HalvesAdvance
  <2> QED BY <2>1, <2>2
<1>4. ASSUME NEW e \in Pending(r')
      PROVE  flow'[e].readiness = "none"
  <2>1. e \in Claims
    BY <1>1, <1>4 DEF Pending
  <2>2. flow[e].readiness = "none"
    <3>1. CASE e = c
      BY <3>1 DEF IInv
    <3>2. CASE e # c
      BY <1>4, <3>2 DEF IInv, Adds
    <3> QED BY <3>1, <3>2
  <2> QED
    BY <1>4, <2>1, <2>2
<1> QED
  BY <1>2, <1>3, <1>4 DEF IInv, HalvesFenced, Sound, Core, Fenced, Counted,
     PermitsExact, UniqueKeys, Pending, State, PermitsInUse, Unclaimed

\* Taking nothing away is taking away.
LEMMA ShrinksReflexive == \A q : Shrinks(q, q)
BY DEF Shrinks

\* The inductive invariant holds of a new registry to which nothing has
\* arrived.
LEMMA InitIInv == Init => IInv
<1> SUFFICES ASSUME Init PROVE IInv
  OBVIOUS
<1>1. TypeOK
  <2>1. r \in RegistryType
    BY NewRegistryType DEF Init
  <2>2. half \in [Claims -> HalfType]
    BY MaxGenerationNat DEF Init, IdleHalf, HalfType
  <2>3. flow \in [Claims -> FlowType]
    BY DEF Init, NoFlow, FlowType
  <2>4. work \in [Claims -> WorkType]
    BY DEF Init, NoWork, WorkType
  <2>5. blocker \in [Claims -> Claims \cup {NoClaim}] /\ result \in [Claims -> Results]
    BY DEF Init, Results
  <2> QED
    BY <2>1, <2>2, <2>3, <2>4, <2>5 DEF TypeOK
<1>2. /\ r.entries = {} /\ r.idleTCP = 0
      /\ \A e \in Claims : r.entry[e].permit = "none"
      /\ \A s \in Sessions : r.pending[s] = 0
      /\ \A s \in Sessions, g \in Generations : r.udpInUse[s][g] = 0
  BY NewRegistryFields, NewEntryFields DEF Init
<1>3. Pending(r) = {} /\ Fenced(r) /\ UniqueKeys(r)
  BY <1>2 DEF Pending, Fenced, UniqueKeys
<1>4. Counted(r, {})
  <2>1. \A s : {e \in {} : e.session = s} = {}
    OBVIOUS
  <2>2. {e \in {} : Carrier(e) = "tls"} = {}
    OBVIOUS
  <2> QED BY <1>2, <2>1, <2>2, FS_EmptySet DEF Counted
<1>5. PermitsExact(r)
  <2>1. \A s \in Sessions, g \in Generations : PermitsInUse(r, s, g) = {}
    BY <1>2 DEF PermitsInUse
  <2> QED BY <1>2, <2>1, FS_EmptySet DEF PermitsExact
<1>6. \A c \in Claims : Unclaimed(r, c) /\ flow[c].readiness = "none"
  BY <1>2 DEF Unclaimed, Init, NoFlow
<1> QED
  BY <1>1, <1>2, <1>3, <1>4, <1>5, <1>6 DEF IInv, Sound, Core, HalvesFenced, TypeOK

----------------------------------------------------------------------------
(* Submit.                                                                  *)

\* A claim is turned away, and the registry lost at most some tombstones
LEMMA RefuseStep ==
    ASSUME IInv, NEW c \in Claims, Refuse(c), Sound(r'), Shrinks(r', r),
           UNCHANGED <<flow, work, blocker>>
    PROVE  IInv'
<1>1. TypeOK
  BY DEF IInv
<1>2. half' \in [Claims -> HalfType] /\ HalvesAdvance
  BY <1>1, HalvesType, CloseAdvances DEF Refuse
<1>3. result' \in [Claims -> Results]
  BY <1>1, ResultType DEF Refuse, Results
<1>4. TypeOK'
  BY <1>1, <1>2, <1>3 DEF TypeOK, Sound, Core
<1> QED
  BY <1>2, <1>4, StepShrinks

\* The registry Submit works on, and the claim's place in it
LEMMA AdmittedContext ==
    ASSUME IInv, NEW c \in Claims, half[c].at = "arrived",
           NEW upTo,
           CanProvision(ExpireTerminals(r, upTo), c, half[c].known)
    PROVE  LET q == ProvisionGeneration(ExpireTerminals(r, upTo), c, half[c].known)
           IN  /\ Sound(q) /\ Shrinks(q, r) /\ Unclaimed(q, c)
               /\ q \in RegistryType /\ q.entries \subseteq Claims
<1> DEFINE x == ExpireTerminals(r, upTo)
           q == ProvisionGeneration(x, c, half[c].known)
<1>1. Sound(r) /\ Core(r) /\ half[c].known \in 0 .. MaxGeneration /\ Unclaimed(r, c)
  BY DEF IInv, Sound, TypeOK, HalfType
<1>2. Sound(x) /\ Shrinks(x, r)
  BY <1>1, ExpireSound
<1> HIDE DEF x
<1>3. Sound(q) /\ Shrinks(q, x)
  BY <1>1, <1>2, ProvisionSound DEF x
<1> HIDE DEF q
<1>4. Shrinks(q, r)
  BY <1>2, <1>3, ShrinksTransitive
<1>5. Unclaimed(q, c)
  BY <1>1, <1>4 DEF Unclaimed, Shrinks
<1>6. q \in RegistryType /\ q.entries \subseteq Claims
  BY <1>3, RegistryFields DEF Sound, Core
<1> QED
  BY <1>3, <1>4, <1>5, <1>6 DEF q, x

\* A claim that is not stale has the current generation of its session, and
\* named that generation or none.
LEMMA CurrentClaim ==
    ASSUME NEW q \in RegistryType, NEW c \in Claims,
           NEW known \in 0 .. MaxGeneration, ~StaleClaim(q, c, known)
    PROVE  LET g == ClaimGeneration(q, c, known)
           IN  /\ g \in Generations /\ g = q.generations[c.session]
               /\ known \in {0, g}
<1>1. q.generations[c.session] \in 0 .. MaxGeneration
  BY ClaimSession, RegistryFields
<1> QED
  BY <1>1, MaxGenerationNat DEF StaleClaim, ClaimGeneration, Generations

\* activateLocked makes a claimedFlow.
LEMMA FlowsType ==
    ASSUME TypeOK, NEW e \in Claims, NEW H \in SUBSET Claims
    PROVE  [flow EXCEPT ![e] = NewFlow(H)] \in [Claims -> FlowType]
BY DEF TypeOK, NewFlow, FlowType

\* Leaving the halves of an entry to be settled keeps the type of work.
LEMMA WorksType ==
    ASSUME TypeOK, NEW q \in RegistryType, NEW e \in Claims
    PROVE  [work EXCEPT ![e] = Settle(q, e)] \in [Claims -> WorkType]
BY SettleType DEF TypeOK

\* Every outcome of Submit preserves the inductive invariant.
LEMMA SubmitStep ==
    ASSUME IInv, NEW c \in Claims, Submit(c)
    PROVE  IInv'
<1>0. /\ TypeOK /\ Sound(r) /\ Core(r) /\ r \in RegistryType
      /\ half[c].at = "arrived" /\ half[c].known \in 0 .. MaxGeneration
      /\ UNCHANGED blocker
  BY DEF IInv, Sound, TypeOK, HalfType, Submit
<1>1. CASE SubmitInvalid(c) \/ SubmitDraining(c)
  <2>1. r' = r /\ Refuse(c) /\ UNCHANGED <<flow, work>>
    BY <1>1 DEF SubmitInvalid, SubmitDraining
  <2>2. Sound(r') /\ Shrinks(r', r)
    BY <1>0, <2>1, ShrinksReflexive
  <2> QED BY <1>0, <2>1, <2>2, RefuseStep
<1>2. ASSUME NEW upTo \in 0 .. Cardinality(Claims),
             SubmitOverClaimLimit(c, ExpireTerminals(r, upTo))
      PROVE  IInv'
  <2>1. Sound(r') /\ Shrinks(r', r)
    BY <1>0, <1>2, ExpireSound DEF SubmitOverClaimLimit
  <2> QED BY <1>0, <1>2, <2>1, RefuseStep DEF SubmitOverClaimLimit
<1>3. ASSUME NEW upTo \in 0 .. Cardinality(Claims),
             SubmitAdmitted(c, ExpireTerminals(r, upTo))
      PROVE  IInv'
  <2> DEFINE x == ExpireTerminals(r, upTo)
             q == ProvisionGeneration(x, c, half[c].known)
             g == ClaimGeneration(q, c, half[c].known)
  <2>1. /\ Sound(q) /\ Shrinks(q, r) /\ Unclaimed(q, c)
        /\ q \in RegistryType /\ q.entries \subseteq Claims
    BY <1>0, <1>3, AdmittedContext DEF SubmitAdmitted
  <2>2. SubmitStale(c, q) \/ SubmitCurrent(c, q)
    BY <1>3 DEF SubmitAdmitted
  <2> HIDE DEF q
  <2>3. CASE SubmitStale(c, q)
    BY <1>0, <2>1, <2>3, RefuseStep DEF SubmitStale
  <2>4. CASE SubmitCurrent(c, q)
    <3>1. /\ g \in Generations /\ g = q.generations[c.session]
          /\ half[c].known \in {0, g}
      BY <1>0, <2>1, <2>4, CurrentClaim DEF SubmitCurrent
    <3>2. \/ \E e \in EntryAt(q, c) :
                \/ SubmitToTerminal(c, q, e) \/ SubmitToActive(c, q, e)
                \/ SubmitConflict(c, q, e, g) \/ SubmitJoin(c, q, e, g)
          \/ /\ EntryAt(q, c) = {}
             /\ \/ SubmitOverUDPLimit(c, q, g) \/ SubmitDuplex(c, q, g)
                \/ SubmitOverPendingLimit(c, q, g) \/ SubmitPending(c, q, g)
      BY <2>4 DEF SubmitCurrent
    <3> HIDE DEF g
    <3>3. ASSUME NEW e \in EntryAt(q, c), SubmitToTerminal(c, q, e)
          PROVE  IInv'
      <4>1. e \in Claims /\ Selected(c) \in BOOLEAN
        BY <2>1 DEF EntryAt, Selected
      <4>2. Sound(r') /\ Shrinks(r', q)
        BY <2>1, <3>3, <4>1, ConsumeOne DEF SubmitToTerminal
      <4>3. Shrinks(r', r)
        BY <2>1, <4>2, ShrinksTransitive
      <4>4. half' \in [Claims -> HalfType] /\ HalvesAdvance
        BY <1>0, <3>3, HalvesType, CloseAdvances DEF SubmitToTerminal
      <4>5. result' \in [Claims -> Results]
        BY <1>0, <3>3, ResultType DEF SubmitToTerminal, Results, TypeOK
      <4>6. TypeOK'
        BY <1>0, <3>3, <4>2, <4>4, <4>5 DEF TypeOK, Sound, Core, SubmitToTerminal
      <4> QED
        BY <3>3, <4>2, <4>3, <4>4, <4>6, StepShrinks DEF SubmitToTerminal
    <3>4. ASSUME NEW e \in EntryAt(q, c), SubmitToActive(c, q, e)
          PROVE  IInv'
      BY <1>0, <2>1, <3>4, RefuseStep DEF SubmitToActive
    <3>5. ASSUME NEW e \in EntryAt(q, c), SubmitConflict(c, q, e, g)
          PROVE  IInv'
      <4>1. e \in Claims /\ e \in Pending(q) /\ Selected(c) \in BOOLEAN
        BY <2>1, <3>5 DEF EntryAt, Pending, SubmitConflict, Selected
      <4> DEFINE f == FailPending(q, e)
      <4>2. Sound(f) /\ Shrinks(f, q)
        BY <2>1, <4>1, FailPendingSound
      <4> HIDE DEF f
      <4>3. r' = [f EXCEPT !.entry[e] = Consumed(@, Selected(c))]
        BY <3>5 DEF SubmitConflict, f
      <4>4. Sound(r') /\ Shrinks(r', f)
        BY <4>1, <4>2, <4>3, ConsumeOne
      <4>5. Shrinks(r', r)
        BY <2>1, <4>2, <4>4, ShrinksTransitive
      <4>6. half' \in [Claims -> HalfType] /\ HalvesAdvance
        BY <1>0, <3>5, HalvesType, CloseAdvances DEF SubmitConflict
      <4>7. result' \in [Claims -> Results]
        BY <1>0, <3>5, ResultType DEF SubmitConflict, Results, TypeOK
      <4>8. work' \in [Claims -> WorkType]
        BY <1>0, <2>1, <3>5, <4>1, WorksType DEF SubmitConflict
      <4>9. TypeOK'
        BY <1>0, <3>5, <4>4, <4>6, <4>7, <4>8 DEF TypeOK, Sound, Core, SubmitConflict
      <4> QED
        BY <3>5, <4>4, <4>5, <4>6, <4>9, StepShrinks DEF SubmitConflict
    <3>6. ASSUME NEW e \in EntryAt(q, c), SubmitJoin(c, q, e, g)
          PROVE  IInv'
      <4>1. /\ e \in Claims /\ e \in Pending(q) /\ e # c
            /\ q.entry[e].halves \in SUBSET Claims
        BY <2>1, <3>6, EntryFields DEF EntryAt, Pending, SubmitJoin, Unclaimed
      <4>2. /\ Sound(r') /\ Adds(r', q, c) /\ c \notin r'.entries
            /\ Pending(r') = Pending(q) \ {e}
            /\ r'.entries = q.entries
            /\ \A d \in Claims : d # e => r'.entry[d].halves = q.entry[d].halves
            /\ r'.entry[e].generation = q.entry[e].generation
        BY <2>1, <3>6, <4>1, JoinSound DEF SubmitJoin
      <4>3. Adds(r', r, c)
        BY <2>1, <4>2, ShrinksAdds
      <4>4. q.entry[e].generation = g
        BY <3>6 DEF SubmitJoin, ConflictsWith
      <4>5. /\ half' = Hold(c)
            /\ flow' = [flow EXCEPT ![e] = NewFlow(q.entry[e].halves \cup {c})]
            /\ UNCHANGED <<result, work>>
        BY <3>6 DEF SubmitJoin
      <4>6. /\ half' \in [Claims -> HalfType] /\ half'[c].at = "held"
            /\ \A d \in Claims : half'[d].known = half[d].known
            /\ \A d \in Claims : d # c => half'[d] = half[d]
        BY <1>0, <4>5, HoldType
      <4>7. HalvesAdvance
        BY <1>0, <4>6 DEF HalvesAdvance
      <4>8. flow' \in [Claims -> FlowType]
        BY <1>0, <4>1, <4>5, FlowsType
      <4>9. TypeOK'
        BY <1>0, <4>2, <4>5, <4>6, <4>8 DEF TypeOK, Sound, Core
      <4>10. \A d \in r'.entries : c \in r'.entry[d].halves =>
                half'[c].known \in {0, r'.entry[d].generation}
        BY <2>1, <3>1, <4>1, <4>2, <4>4, <4>6 DEF Unclaimed
      <4>11. \A d \in Claims : d # e => flow'[d] = flow[d]
        BY <1>0, <4>5 DEF TypeOK
      <4>12. e \notin Pending(r') /\ half[e].at \notin {"idle", "arrived"}
        <5>1. e \in r.entries
          BY <2>1, <4>1 DEF Pending, Shrinks
        <5> QED BY <4>1, <4>2, <5>1 DEF IInv, Unclaimed
      <4> QED
        BY <1>0, <4>2, <4>3, <4>6, <4>7, <4>9, <4>10, <4>11, <4>12, StepAdds
    <3>7. ASSUME EntryAt(q, c) = {}, SubmitOverUDPLimit(c, q, g)
          PROVE  IInv'
      BY <1>0, <2>1, <3>7, RefuseStep DEF SubmitOverUDPLimit
    <3>8. ASSUME EntryAt(q, c) = {}, SubmitDuplex(c, q, g)
          PROVE  IInv'
      <4>1. /\ Sound(r') /\ Adds(r', q, c) /\ r'.entry[c].generation = g
            /\ \A d \in r'.entries : d # c =>
                  r'.entry[d].halves \subseteq q.entry[d].halves
            /\ Pending(r') = Pending(q)
        <5>1. r' = StoreDuplex(AcquireEntry(q, c, g), c)
          BY <3>8 DEF SubmitDuplex
        <5>2. /\ Sound(q) /\ Unclaimed(q, c) /\ EntryAt(q, c) = {}
              /\ g \in Generations /\ g = q.generations[c.session]
          BY <2>1, <3>1, <3>8
        <5> DEFINE p == StoreDuplex(AcquireEntry(q, c, g), c)
        <5>3. /\ Sound(p) /\ Adds(p, q, c) /\ p.entry[c].generation = g
              /\ Pending(p) = Pending(q)
              /\ \A d \in p.entries : d # c =>
                    p.entry[d].halves \subseteq q.entry[d].halves
          BY <5>2, StoreDuplexSound
        <5> QED BY <5>1, <5>3
      <4>2. Adds(r', r, c)
        BY <2>1, <4>1, ShrinksAdds
      <4>3. half' = Hold(c) /\ UNCHANGED <<result, work>>
        BY <3>8 DEF SubmitDuplex
      <4>4. /\ half' \in [Claims -> HalfType] /\ half'[c].at = "held"
            /\ \A d \in Claims : half'[d].known = half[d].known
            /\ \A d \in Claims : d # c => half'[d] = half[d]
        BY <1>0, <4>3, HoldType
      <4>5. HalvesAdvance
        BY <1>0, <4>4 DEF HalvesAdvance
      <4>6. /\ flow' \in [Claims -> FlowType]
            /\ \A d \in Claims : d # c => flow'[d] = flow[d]
        BY <1>0, <3>8, FlowsType DEF SubmitDuplex, TypeOK
      <4>7. TypeOK'
        BY <1>0, <4>1, <4>3, <4>4, <4>6 DEF TypeOK, Sound, Core
      <4>8. \A d \in r'.entries : c \in r'.entry[d].halves =>
               half'[c].known \in {0, r'.entry[d].generation}
        BY <2>1, <3>1, <4>1, <4>4 DEF Unclaimed, Adds
      <4>9. flow'[c].readiness = "none" \/ c \notin Pending(r')
        BY <2>1, <4>1 DEF Unclaimed, Pending
      <4> QED
        BY <1>0, <4>1, <4>2, <4>4, <4>5, <4>6, <4>7, <4>8, <4>9, StepAdds
    <3>9. ASSUME EntryAt(q, c) = {}, SubmitOverPendingLimit(c, q, g)
          PROVE  IInv'
      <4>1. /\ Sound(r') /\ Adds(r', q, c) /\ c \notin r'.entries
            /\ \A d \in r'.entries : d # c =>
                  r'.entry[d].halves \subseteq q.entry[d].halves
        <5>1. r' = AbandonEntry(AcquireEntry(q, c, g), c)
          BY <3>9 DEF SubmitOverPendingLimit
        <5>2. g \in Generations /\ g = q.generations[c.session] /\ EntryAt(q, c) = {}
          BY <3>1, <3>9
        <5> QED BY <2>1, <5>1, <5>2, AbandonSound
      <4>2. Adds(r', r, c)
        BY <2>1, <4>1, ShrinksAdds
      <4>3. Refuse(c) /\ UNCHANGED <<flow, work>>
        BY <3>9 DEF SubmitOverPendingLimit
      <4>4. half' \in [Claims -> HalfType] /\ HalvesAdvance /\ half'[c].at = "closed"
        BY <1>0, <4>3, HalvesType, CloseAdvances DEF Refuse, CloseHalves, ClosedHalf
      <4>5. result' \in [Claims -> Results]
        BY <1>0, <4>3, ResultType DEF Refuse, Results
      <4>6. TypeOK'
        BY <1>0, <4>1, <4>3, <4>4, <4>5 DEF TypeOK, Sound, Core
      <4>7. \A d \in r'.entries : c \notin r'.entry[d].halves
        BY <2>1, <4>1 DEF Unclaimed, Adds
      <4> QED
        BY <1>0, <4>1, <4>2, <4>3, <4>4, <4>6, <4>7, StepAdds
    <3>10. ASSUME EntryAt(q, c) = {}, SubmitPending(c, q, g)
          PROVE  IInv'
      <4>1. /\ Sound(r') /\ Adds(r', q, c) /\ r'.entry[c].generation = g
            /\ \A d \in r'.entries : d # c =>
                  r'.entry[d].halves \subseteq q.entry[d].halves
        <5>1. r' = StorePending(AcquireEntry(q, c, g), c)
          BY <3>10 DEF SubmitPending
        <5>2. /\ Sound(q) /\ Unclaimed(q, c) /\ EntryAt(q, c) = {}
              /\ g \in Generations /\ g = q.generations[c.session]
          BY <2>1, <3>1, <3>10
        <5> DEFINE p == StorePending(AcquireEntry(q, c, g), c)
        <5>3. /\ Sound(p) /\ Adds(p, q, c) /\ p.entry[c].generation = g
              /\ \A d \in p.entries : d # c =>
                    p.entry[d].halves \subseteq q.entry[d].halves
          BY <5>2, StorePendingSound
        <5> QED BY <5>1, <5>3
      <4>2. Adds(r', r, c)
        BY <2>1, <4>1, ShrinksAdds
      <4>3. half' = Hold(c) /\ UNCHANGED <<result, work>>
        BY <3>10 DEF SubmitPending
      <4>4. /\ half' \in [Claims -> HalfType] /\ half'[c].at = "held"
            /\ \A d \in Claims : half'[d].known = half[d].known
            /\ \A d \in Claims : d # c => half'[d] = half[d]
        BY <1>0, <4>3, HoldType
      <4>5. HalvesAdvance
        BY <1>0, <4>4 DEF HalvesAdvance
      <4>6. /\ flow' \in [Claims -> FlowType]
            /\ \A d \in Claims : d # c => flow'[d] = flow[d]
        BY <1>0, <3>10, FlowsType DEF SubmitPending, TypeOK
      <4>7. TypeOK'
        BY <1>0, <4>1, <4>3, <4>4, <4>6 DEF TypeOK, Sound, Core
      <4>8. \A d \in r'.entries : c \in r'.entry[d].halves =>
               half'[c].known \in {0, r'.entry[d].generation}
        BY <2>1, <3>1, <4>1, <4>4 DEF Unclaimed, Adds
      <4>9. flow'[c].readiness = "none" \/ c \notin Pending(r')
        BY <1>0, <3>10 DEF IInv, SubmitPending
      <4> QED
        BY <1>0, <4>1, <4>2, <4>4, <4>5, <4>6, <4>7, <4>8, <4>9, StepAdds
    <3> QED
      BY <3>2, <3>3, <3>4, <3>5, <3>6, <3>7, <3>8, <3>9, <3>10
  <2> QED BY <2>2, <2>3, <2>4
<1> QED
  BY <1>1, <1>2, <1>3 DEF Submit

----------------------------------------------------------------------------
(* RejectClaim.                                                             *)
=============================================================================
