--------------------------- MODULE RegistryLemmas ---------------------------
(***************************************************************************)
(* What is invariant about the values of the claim registry, and that the   *)
(* operators which take entries, halves or permits away preserve it.        *)
(***************************************************************************)
EXTENDS ClaimRegistryState, FiniteSetTheorems, TLAPS

----------------------------------------------------------------------------
(* What is invariant about a registry value.                                *)

\* The pending counters count exactly the entries in P
Counted(q, P) ==
    /\ P \subseteq Claims
    /\ \A s \in Sessions : q.pending[s] = Cardinality({e \in P : e.session = s})
    /\ q.idleTCP = Cardinality({e \in P : Carrier(e) = "tls"})
    /\ \A e \in P : q.entry[e].pendingTCP = (Carrier(e) = "tls")

\* udpInUse counts the permits, each of which knows its generation
PermitsExact(q) ==
    /\ \A e \in Claims : q.entry[e].permit # "none" =>
                            q.entry[e].generation \in Generations
    /\ ~q.closed => \A s \in Sessions, g \in Generations :
                       q.udpInUse[s][g] = Cardinality(PermitsInUse(q, s, g))

\* A flow key has one entry
UniqueKeys(q) == \A e, f \in q.entries : SameKey(e, f) => e = f

\* What every operator on registries preserves
Core(q) == q \in RegistryType /\ PermitsExact(q) /\ UniqueKeys(q)

\* Every entry is of the current generation of its session
Fenced(q) ==
    \A e \in q.entries :
        /\ q.entry[e].generation \in Generations
        /\ q.entry[e].generation = q.generations[e.session]

\* The registry's part of the inductive invariant
Sound(q) == Core(q) /\ Fenced(q) /\ Counted(q, Pending(q))

\* A claim not yet submitted has left no trace in the registry
Unclaimed(q, c) ==
    /\ c \notin q.entries
    /\ q.entry[c].permit = "none"
    /\ \A e \in q.entries : c \notin q.entry[e].halves

\* p is q with some entries, halves or permits taken away
Shrinks(p, q) ==
    /\ p.entries \subseteq q.entries
    /\ \A e \in p.entries : /\ p.entry[e].halves \subseteq q.entry[e].halves
                            /\ p.entry[e].generation = q.entry[e].generation
    /\ Pending(p) \subseteq Pending(q)
    /\ \A e \in Claims : q.entry[e].permit = "none" => p.entry[e].permit = "none"

\* p and q agree on generations, entries, and the two shutdown flags
SameSessions(p, q) ==
    /\ p.generations = q.generations
    /\ p.registered = q.registered
    /\ p.provenance = q.provenance
    /\ p.nextGeneration = q.nextGeneration

SameEntries(p, q) == p.entry = q.entry /\ p.entries = q.entries

SameFlags(p, q) == p.accepting = q.accepting /\ p.closed = q.closed

----------------------------------------------------------------------------
(* Constants, numbers and finite sets.                                      *)

\* A counter decremented the way the registry does it stays a natural number.
LEMMA MinusType ==
    ASSUME NEW a \in Nat, NEW b \in Nat
    PROVE  Minus(a, b) \in Nat
BY DEF Minus

\* Decrementing a counter by the size of what is removed leaves the size of
\* what remains: the arithmetic behind finishPendingLocked.
LEMMA CardinalityMinus ==
    ASSUME NEW T, IsFiniteSet(T), NEW S \in SUBSET T
    PROVE  /\ IsFiniteSet(T \ S)
           /\ Cardinality(T \ S) = Minus(Cardinality(T), Cardinality(S))
<1>1. IsFiniteSet(S) /\ Cardinality(S) <= Cardinality(T)
  BY FS_Subset
<1>2. Cardinality(T) \in Nat /\ Cardinality(S) \in Nat
  BY <1>1, FS_CardinalityType
<1>3. /\ IsFiniteSet(T \ S)
      /\ Cardinality(T \ S) = Cardinality(T) - Cardinality(T \cap S)
  BY FS_Difference
<1>4. T \cap S = S
  OBVIOUS
<1> QED
  BY <1>1, <1>2, <1>3, <1>4 DEF Minus

\* Sets of claims are finite, so the counters that count them are numbers.
LEMMA FiniteClaims ==
    ASSUME NEW S \in SUBSET Claims
    PROVE  IsFiniteSet(S) /\ Cardinality(S) \in Nat
BY ConstantsAssumption, FS_Subset, FS_CardinalityType

\* A claim names a session of the portal.
LEMMA ClaimSession == \A c \in Claims : c.session \in Sessions
BY ConstantsAssumption DEF ClaimType

\* The bound on generations is a number.
LEMMA MaxGenerationNat == MaxGeneration \in Nat
BY ConstantsAssumption

\* The absent entry is a claimEntry value.
LEMMA NewEntryType == NewEntry \in EntryType
BY ConstantsAssumption DEF NewEntry, EntryType

\* An entry taken out of the map keeps its generation and its unreleased
\* permit, and no half.
LEMMA HuskFields ==
    ASSUME NEW g \in 0 .. MaxGeneration
    PROVE  /\ Husk(g) \in EntryType
           /\ Husk(g).generation = g
           /\ Husk(g).permit = "loose"
           /\ Husk(g).halves = {}
BY ConstantsAssumption DEF NewEntry, EntryType, Husk

\* The absent entry has no half, no permit and no generation.
LEMMA NewEntryFields ==
    /\ NewEntry.state = "none" /\ NewEntry.generation = 0
    /\ NewEntry.halves = {} /\ NewEntry.permit = "none"
    /\ NewEntry.pendingTCP = FALSE
BY DEF NewEntry

\* The types of the fields of claimEntry.
LEMMA EntryFields ==
    ASSUME NEW q \in RegistryType, NEW e \in Claims
    PROVE  /\ q.entry[e] \in EntryType
           /\ q.entry[e].state \in {"none", "pending", "active", "terminal"}
           /\ q.entry[e].generation \in 0 .. MaxGeneration
           /\ q.entry[e].halves \in SUBSET Claims
           /\ q.entry[e].pendingTCP \in BOOLEAN
           /\ q.entry[e].permit \in {"none", "held", "loose"}
BY DEF RegistryType, EntryType

\* The types of the fields of claimRegistry.
LEMMA RegistryFields ==
    ASSUME NEW q \in RegistryType
    PROVE  /\ q.entry \in [Claims -> EntryType]
           /\ q.entries \subseteq Claims
           /\ q.terminalOrder \in [Claims -> Nat]
           /\ q.generations \in [Sessions -> 0 .. MaxGeneration]
           /\ q.registered \in [Sessions -> [Generations -> Nat]]
           /\ q.provenance \in [Sessions -> [Generations ->
                                   {"none", "provisional", "physical"}]]
           /\ q.pending \in [Sessions -> Nat]
           /\ q.udpInUse \in [Sessions -> [Generations -> Nat]]
           /\ q.nextGeneration \in 0 .. MaxGeneration
           /\ q.idleTCP \in Nat
           /\ q.accepting \in BOOLEAN /\ q.closed \in BOOLEAN
BY DEF RegistryType

\* newClaimRegistry returns a claimRegistry.
LEMMA NewRegistryType == NewRegistry \in RegistryType
<1> DEFINE ent == [e \in Claims |-> NewEntry]
           to == [e \in Claims |-> 0]
           gens == [s \in Sessions |-> 0]
           reg == [s \in Sessions |-> [g \in Generations |-> 0]]
           prov == [s \in Sessions |-> [g \in Generations |-> "none"]]
<1>1. /\ ent \in [Claims -> EntryType] /\ to \in [Claims -> Nat]
      /\ gens \in [Sessions -> 0 .. MaxGeneration] /\ gens \in [Sessions -> Nat]
      /\ reg \in [Sessions -> [Generations -> Nat]]
      /\ prov \in [Sessions ->
                     [Generations -> {"none", "provisional", "physical"}]]
  BY NewEntryType, MaxGenerationNat
<1>2. NewRegistry = [entry |-> ent, entries |-> {}, terminalOrder |-> to,
         generations |-> gens, registered |-> reg, provenance |-> prov,
         pending |-> gens, udpInUse |-> reg, nextGeneration |-> 0,
         idleTCP |-> 0, accepting |-> TRUE, closed |-> FALSE]
  BY DEF NewRegistry
<1> HIDE DEF ent, to, gens, reg, prov
<1> QED
  BY <1>1, <1>2, MaxGenerationNat DEF RegistryType

\* newClaimRegistry starts with no entry and every counter at zero.
LEMMA NewRegistryFields ==
    /\ NewRegistry.entries = {} /\ NewRegistry.idleTCP = 0
    /\ \A e \in Claims : NewRegistry.entry[e] = NewEntry
    /\ \A s \in Sessions : NewRegistry.pending[s] = 0
    /\ \A s \in Sessions, g \in Generations : NewRegistry.udpInUse[s][g] = 0
BY DEF NewRegistry

\* A table indexed by session and generation, updated at one place
LEMMA NestedUpdate ==
    ASSUME NEW T, NEW f \in [Sessions -> [Generations -> T]],
           NEW s0 \in Sessions, NEW g0 \in Generations, NEW v \in T
    PROVE  LET u == [f EXCEPT ![s0][g0] = v]
           IN  /\ u \in [Sessions -> [Generations -> T]]
               /\ u[s0][g0] = v
               /\ \A s \in Sessions, g \in Generations :
                     s # s0 \/ g # g0 => u[s][g] = f[s][g]
OBVIOUS

----------------------------------------------------------------------------
(* Forget.                                                                  *)

\* What deleting entries from r.entries changes, field by field.
LEMMA ForgetFields ==
    ASSUME NEW q \in RegistryType, NEW X
    PROVE  LET p == Forget(q, X)
           IN  /\ p \in RegistryType
               /\ p.entries = q.entries \ X
               /\ \A e \in Claims : e \notin X => p.entry[e] = q.entry[e]
               /\ \A e \in Claims : e \in X => p.entry[e] =
                     IF q.entry[e].permit = "none" THEN NewEntry
                     ELSE Husk(q.entry[e].generation)
               /\ SameSessions(p, q) /\ SameFlags(p, q)
               /\ p.pending = q.pending /\ p.idleTCP = q.idleTCP
               /\ p.udpInUse = q.udpInUse /\ p.terminalOrder = q.terminalOrder
<1> DEFINE ent == [e \in Claims |->
            IF e \notin X THEN q.entry[e]
            ELSE IF q.entry[e].permit = "none" THEN NewEntry
            ELSE Husk(q.entry[e].generation)]
<1>1. Forget(q, X) = [q EXCEPT !.entries = q.entries \ X, !.entry = ent]
  BY DEF Forget, RegistryType
<1>2. ent \in [Claims -> EntryType]
  BY EntryFields, HuskFields, NewEntryType
<1>3. \A e \in Claims :
         /\ e \notin X => ent[e] = q.entry[e]
         /\ e \in X => ent[e] = IF q.entry[e].permit = "none" THEN NewEntry
                                ELSE Husk(q.entry[e].generation)
  OBVIOUS
<1> HIDE DEF ent
<1> QED
  BY <1>1, <1>2, <1>3 DEF RegistryType, SameSessions, SameFlags

\* The UDP accounting stays exact as long as no permit is taken, released or
\* moved to another generation, whatever state its holder is in.
LEMMA SamePermits ==
    ASSUME NEW q \in RegistryType, NEW p \in RegistryType,
           PermitsExact(q), p.udpInUse = q.udpInUse, p.closed = q.closed,
           \A e \in Claims :
              /\ q.entry[e].permit = "none" <=> p.entry[e].permit = "none"
              /\ q.entry[e].permit # "none" =>
                    p.entry[e].generation = q.entry[e].generation
    PROVE  PermitsExact(p)
<1>1. \A s \in Sessions, g \in Generations :
         PermitsInUse(p, s, g) = PermitsInUse(q, s, g)
  BY EntryFields DEF PermitsInUse
<1> QED
  BY <1>1 DEF PermitsExact

\* Deleting entries keeps the permits exact, keys unique and generations
\* fenced, and the counters right for the pending entries it leaves in place.
LEMMA ForgetSound ==
    ASSUME NEW q, Core(q), NEW X
    PROVE  /\ Core(Forget(q, X))
           /\ Shrinks(Forget(q, X), q)
           /\ Pending(Forget(q, X)) = Pending(q) \ X
           /\ Fenced(q) => Fenced(Forget(q, X))
           /\ \A P : Counted(q, P) /\ P \cap X = {} => Counted(Forget(q, X), P)
<1> DEFINE p == Forget(q, X)
<1>0. q \in RegistryType
  BY DEF Core
<1>1. /\ p \in RegistryType
      /\ p.entries = q.entries \ X
      /\ \A e \in Claims : e \notin X => p.entry[e] = q.entry[e]
      /\ \A e \in Claims : e \in X => p.entry[e] =
                     IF q.entry[e].permit = "none" THEN NewEntry
                     ELSE Husk(q.entry[e].generation)
      /\ SameSessions(p, q) /\ SameFlags(p, q)
      /\ p.pending = q.pending /\ p.idleTCP = q.idleTCP
      /\ p.udpInUse = q.udpInUse /\ p.terminalOrder = q.terminalOrder
  BY <1>0, ForgetFields
<1>2. q.entries \subseteq Claims
  BY <1>0, RegistryFields
<1> HIDE DEF p
<1>3. \A e \in Claims :
         /\ q.entry[e].permit = "none" <=> p.entry[e].permit = "none"
         /\ q.entry[e].permit # "none" =>
               p.entry[e].generation = q.entry[e].generation
  BY <1>0, <1>1, EntryFields, HuskFields, NewEntryFields
<1>4. PermitsExact(p)
  BY <1>0, <1>1, <1>3, SamePermits DEF Core, SameFlags
<1>5. UniqueKeys(p)
  BY <1>1 DEF Core, UniqueKeys
<1>6. Pending(p) = Pending(q) \ X
  BY <1>1, <1>2 DEF Pending, State
<1>7. Shrinks(p, q)
  BY <1>1, <1>2, <1>3, <1>6 DEF Shrinks
<1>8. Fenced(q) => Fenced(p)
  BY <1>1, <1>2 DEF Fenced, SameSessions
<1>9. ASSUME NEW P, Counted(q, P), P \cap X = {}
      PROVE  Counted(p, P)
  BY <1>1, <1>9 DEF Counted
<1> QED
  BY <1>1, <1>4, <1>5, <1>6, <1>7, <1>8, <1>9 DEF Core, p

----------------------------------------------------------------------------
(* maybeCleanupGenerationLocked.                                            *)

\* What maybeCleanupGenerationLocked changes: a session loses its current
\* generation only when nothing is left of that generation.
LEMMA CleanupFields ==
    ASSUME NEW q \in RegistryType, NEW S
    PROVE  LET p == MaybeCleanupGeneration(q, S)
           IN  /\ p \in RegistryType
               /\ SameEntries(p, q) /\ SameFlags(p, q)
               /\ p.pending = q.pending /\ p.idleTCP = q.idleTCP
               /\ p.udpInUse = q.udpInUse /\ p.terminalOrder = q.terminalOrder
               /\ p.registered = q.registered
               /\ p.nextGeneration = q.nextGeneration
               /\ \A s \in Sessions : p.generations[s] # q.generations[s] =>
                     ~HasGenerationState(q, s, q.generations[s])
<1> DEFINE prov == [s \in Sessions |-> [g \in Generations |->
                IF s \in S /\ ~HasGenerationState(q, s, g)
                THEN "none" ELSE q.provenance[s][g]]]
           gens == [s \in Sessions |->
                IF /\ s \in S
                   /\ q.generations[s] # 0
                   /\ ~HasGenerationState(q, s, q.generations[s])
                THEN 0 ELSE q.generations[s]]
<1>1. prov \in [Sessions ->
                  [Generations -> {"none", "provisional", "physical"}]]
  BY RegistryFields
<1>2. gens \in [Sessions -> 0 .. MaxGeneration]
  BY RegistryFields, MaxGenerationNat
<1>3. \A s \in Sessions : gens[s] # q.generations[s] =>
         ~HasGenerationState(q, s, q.generations[s])
  OBVIOUS
<1>4. MaybeCleanupGeneration(q, S) =
         [q EXCEPT !.provenance = prov, !.generations = gens]
  BY DEF MaybeCleanupGeneration
<1> HIDE DEF prov, gens
<1> QED
  BY <1>1, <1>2, <1>3, <1>4 DEF RegistryType, SameEntries, SameFlags

\* maybeCleanupGenerationLocked never pulls the generation from under an
\* entry, and touches no counter.
LEMMA CleanupSound ==
    ASSUME NEW q, Core(q), NEW S
    PROVE  LET p == MaybeCleanupGeneration(q, S)
           IN  /\ Core(p)
               /\ Shrinks(p, q)
               /\ Pending(p) = Pending(q)
               /\ Fenced(q) => Fenced(p)
               /\ \A P : Counted(q, P) => Counted(p, P)
<1> DEFINE p == MaybeCleanupGeneration(q, S)
<1>0. q \in RegistryType
  BY DEF Core
<1>1. /\ p \in RegistryType
      /\ SameEntries(p, q) /\ SameFlags(p, q)
      /\ p.pending = q.pending /\ p.idleTCP = q.idleTCP
      /\ p.udpInUse = q.udpInUse
      /\ \A s \in Sessions : p.generations[s] # q.generations[s] =>
            ~HasGenerationState(q, s, q.generations[s])
  BY <1>0, CleanupFields
<1>2. q.entries \subseteq Claims
  BY <1>0, RegistryFields
<1> HIDE DEF p
<1>3. PermitsExact(p)
  BY <1>0, <1>1, SamePermits DEF Core, SameFlags, SameEntries
<1>4. UniqueKeys(p)
  BY <1>1 DEF Core, UniqueKeys, SameEntries
<1>5. Pending(p) = Pending(q)
  BY <1>1 DEF Pending, State, SameEntries
<1>6. Shrinks(p, q)
  BY <1>1, <1>5 DEF Shrinks, SameEntries
<1>7. Fenced(q) => Fenced(p)
  BY <1>1, <1>2, ClaimSession DEF Fenced, SameEntries, HasGenerationState
<1>8. ASSUME NEW P, Counted(q, P) PROVE Counted(p, P)
  BY <1>1, <1>8 DEF Counted, SameEntries
<1> QED
  BY <1>1, <1>3, <1>4, <1>5, <1>6, <1>7, <1>8 DEF Core, p

----------------------------------------------------------------------------
(* finishPendingLocked.                                                     *)

\* finishPendingLocked clears pendingTCP
Finished(x) == [x EXCEPT !.pendingTCP = FALSE]

\* finishPendingLocked leaves all of an entry but pendingTCP as it was.
LEMMA FinishedFields ==
    ASSUME NEW x \in EntryType
    PROVE  /\ Finished(x) \in EntryType
           /\ Finished(x).state = x.state
           /\ Finished(x).generation = x.generation
           /\ Finished(x).halves = x.halves
           /\ Finished(x).permit = x.permit
BY DEF EntryType, Finished

\* What finishPendingLocked changes, field by field.
LEMMA FinishPendingFields ==
    ASSUME NEW q \in RegistryType, NEW S \in SUBSET Claims
    PROVE  LET p == FinishPending(q, S)
           IN  /\ p \in RegistryType
               /\ p.entries = q.entries
               /\ \A e \in Claims : e \notin S => p.entry[e] = q.entry[e]
               /\ \A e \in S : p.entry[e] = Finished(q.entry[e])
               /\ SameSessions(p, q) /\ SameFlags(p, q)
               /\ p.udpInUse = q.udpInUse /\ p.terminalOrder = q.terminalOrder
               /\ \A s \in Sessions : p.pending[s] =
                     Minus(q.pending[s], Cardinality({e \in S : e.session = s}))
               /\ p.idleTCP = Minus(q.idleTCP,
                                    Cardinality({e \in S : q.entry[e].pendingTCP}))
<1> DEFINE pend == [s \in Sessions |->
                Minus(q.pending[s], Cardinality({e \in S : e.session = s}))]
           idle == Minus(q.idleTCP, Cardinality({e \in S : q.entry[e].pendingTCP}))
           ent == [e \in Claims |->
                IF e \in S THEN Finished(q.entry[e])
                ELSE q.entry[e]]
<1>1. pend \in [Sessions -> Nat]
  BY RegistryFields, FiniteClaims, MinusType
<1>2. idle \in Nat
  BY RegistryFields, FiniteClaims, MinusType
<1>3. \A e \in Claims : Finished(q.entry[e]) \in EntryType
  BY EntryFields, FinishedFields
<1>4. ent \in [Claims -> EntryType]
  BY <1>3, EntryFields
<1>5. /\ \A e \in Claims : e \notin S => ent[e] = q.entry[e]
      /\ \A e \in S : ent[e] = Finished(q.entry[e])
      /\ \A s \in Sessions : pend[s] =
            Minus(q.pending[s], Cardinality({e \in S : e.session = s}))
  OBVIOUS
<1>6. FinishPending(q, S) =
         [q EXCEPT !.pending = pend, !.idleTCP = idle, !.entry = ent]
  BY DEF FinishPending, RegistryType, Finished
<1>7. idle = Minus(q.idleTCP, Cardinality({e \in S : q.entry[e].pendingTCP}))
  OBVIOUS
<1> HIDE DEF pend, idle, ent
<1> QED
  BY <1>1, <1>2, <1>4, <1>5, <1>6, <1>7 DEF RegistryType, SameSessions, SameFlags

\* finishPendingLocked takes exactly the entries it is called for out of the
\* pending and idle TCP counts.
LEMMA FinishPendingSound ==
    ASSUME NEW q, Core(q), NEW S \in SUBSET Claims
    PROVE  LET p == FinishPending(q, S)
           IN  /\ Core(p)
               /\ Shrinks(p, q)
               /\ Pending(p) = Pending(q)
               /\ Fenced(q) => Fenced(p)
               /\ \A P : Counted(q, P) /\ S \subseteq P => Counted(p, P \ S)
<1> DEFINE p == FinishPending(q, S)
<1>0. q \in RegistryType
  BY DEF Core
<1>1. /\ p \in RegistryType
      /\ p.entries = q.entries
      /\ \A e \in Claims : e \notin S => p.entry[e] = q.entry[e]
      /\ \A e \in S : p.entry[e] = Finished(q.entry[e])
      /\ SameSessions(p, q) /\ SameFlags(p, q)
      /\ p.udpInUse = q.udpInUse
      /\ \A s \in Sessions : p.pending[s] =
            Minus(q.pending[s], Cardinality({e \in S : e.session = s}))
      /\ p.idleTCP = Minus(q.idleTCP,
                           Cardinality({e \in S : q.entry[e].pendingTCP}))
  BY <1>0, FinishPendingFields
<1>2. q.entries \subseteq Claims
  BY <1>0, RegistryFields
<1> HIDE DEF p
<1>3. \A e \in Claims : /\ p.entry[e].state = q.entry[e].state
                        /\ p.entry[e].generation = q.entry[e].generation
                        /\ p.entry[e].halves = q.entry[e].halves
                        /\ p.entry[e].permit = q.entry[e].permit
  BY <1>0, <1>1, EntryFields, FinishedFields
<1>4. PermitsExact(p)
  BY <1>0, <1>1, <1>3, SamePermits DEF Core, SameFlags
<1>5. UniqueKeys(p)
  BY <1>1 DEF Core, UniqueKeys
<1>6. Pending(p) = Pending(q)
  BY <1>1, <1>2, <1>3 DEF Pending, State
<1>7. Shrinks(p, q)
  BY <1>1, <1>2, <1>3, <1>6 DEF Shrinks
<1>8. Fenced(q) => Fenced(p)
  BY <1>1, <1>2, <1>3 DEF Fenced, SameSessions
<1>9. ASSUME NEW P, Counted(q, P), S \subseteq P
      PROVE  Counted(p, P \ S)
  <2>1. P \subseteq Claims
    BY <1>9 DEF Counted
  <2>2. \A s \in Sessions :
           p.pending[s] = Cardinality({e \in P \ S : e.session = s})
    <3> SUFFICES ASSUME NEW s \in Sessions
                 PROVE  p.pending[s] = Cardinality({e \in P \ S : e.session = s})
      OBVIOUS
    <3> DEFINE T == {e \in P : e.session = s}
               U == {e \in S : e.session = s}
    <3>1. IsFiniteSet(T) /\ U \in SUBSET T
      BY <1>9, <2>1, FiniteClaims
    <3>2. Cardinality(T \ U) = Minus(Cardinality(T), Cardinality(U))
      BY <3>1, CardinalityMinus
    <3>3. T \ U = {e \in P \ S : e.session = s}
      OBVIOUS
    <3> QED
      BY <1>1, <1>9, <3>2, <3>3 DEF Counted
  <2>3. p.idleTCP = Cardinality({e \in P \ S : Carrier(e) = "tls"})
    <3> DEFINE T == {e \in P : Carrier(e) = "tls"}
               U == {e \in S : Carrier(e) = "tls"}
    <3>1. IsFiniteSet(T) /\ U \in SUBSET T
      BY <1>9, <2>1, FiniteClaims
    <3>2. Cardinality(T \ U) = Minus(Cardinality(T), Cardinality(U))
      BY <3>1, CardinalityMinus
    <3>3. T \ U = {e \in P \ S : Carrier(e) = "tls"}
      OBVIOUS
    <3>4. \A e \in S : q.entry[e].pendingTCP = (Carrier(e) = "tls")
      BY <1>9 DEF Counted
    <3>5. {e \in S : q.entry[e].pendingTCP} = U
      BY <3>4
    <3> QED
      BY <1>1, <1>9, <3>2, <3>3, <3>5 DEF Counted
  <2> QED
    BY <1>1, <1>9, <2>1, <2>2, <2>3 DEF Counted
<1> QED
  BY <1>1, <1>4, <1>5, <1>6, <1>7, <1>8, <1>9 DEF Core, p

----------------------------------------------------------------------------
(* Registries that differ in what the invariant does not look at.           *)

\* Taking away twice is taking away.
LEMMA ShrinksTransitive ==
    ASSUME NEW o, NEW p, NEW q, Shrinks(o, p), Shrinks(p, q)
    PROVE  Shrinks(o, q)
<1>1. o.entries \subseteq q.entries
  BY DEF Shrinks
<1>2. ASSUME NEW e \in o.entries
      PROVE  /\ o.entry[e].halves \subseteq q.entry[e].halves
             /\ o.entry[e].generation = q.entry[e].generation
  BY <1>2 DEF Shrinks
<1>3. \A e \in Claims : q.entry[e].permit = "none" => o.entry[e].permit = "none"
  BY DEF Shrinks
<1>4. Pending(o) \subseteq Pending(q)
  BY DEF Shrinks
<1> QED
  BY <1>1, <1>2, <1>3, <1>4 DEF Shrinks

\* p and q agree on all that Sound and Shrinks mention
Alike(p, q) ==
    /\ p.entries = q.entries
    /\ \A e \in Claims : /\ p.entry[e].state = q.entry[e].state
                         /\ p.entry[e].generation = q.entry[e].generation
                         /\ p.entry[e].halves = q.entry[e].halves
                         /\ p.entry[e].permit = q.entry[e].permit
                         /\ p.entry[e].pendingTCP = q.entry[e].pendingTCP
    /\ p.pending = q.pending /\ p.idleTCP = q.idleTCP
    /\ p.udpInUse = q.udpInUse
    /\ p.generations = q.generations
    /\ p.closed = q.closed

\* Fields the invariant does not mention (registrations, flags, the order of
\* the tombstones) may change freely.
LEMMA AlikeSound ==
    ASSUME NEW q, Core(q), NEW p \in RegistryType, Alike(p, q)
    PROVE  /\ Core(p)
           /\ Shrinks(p, q)
           /\ Pending(p) = Pending(q)
           /\ Fenced(q) => Fenced(p)
           /\ \A P : Counted(q, P) => Counted(p, P)
<1>0. q \in RegistryType
  BY DEF Core
<1>1. q.entries \subseteq Claims
  BY <1>0, RegistryFields
<1>2. PermitsExact(p)
  BY <1>0, SamePermits DEF Core, Alike
<1>3. UniqueKeys(p)
  BY DEF Core, UniqueKeys, Alike
<1>4. Pending(p) = Pending(q)
  BY <1>1 DEF Pending, State, Alike
<1>5. Shrinks(p, q)
  BY <1>1, <1>4 DEF Shrinks, Alike
<1>6. Fenced(q) => Fenced(p)
  BY <1>1 DEF Fenced, Alike
<1>7. ASSUME NEW P, Counted(q, P) PROVE Counted(p, P)
  BY <1>7 DEF Counted, Alike
<1> QED
  BY <1>2, <1>3, <1>4, <1>5, <1>6, <1>7 DEF Core

\* Compacting terminalOrder gives every claim a place, or zero.
LEMMA CompactedType ==
    ASSUME NEW order, NEW X \in SUBSET Claims
    PROVE  Compacted(order, X) \in [Claims -> Nat]
<1>1. \A x \in Claims : Cardinality({y \in X : order[y] <= order[x]}) \in Nat
  BY FiniteClaims
<1> QED
  BY <1>1 DEF Compacted

\* Rewriting terminalOrder alone leaves all else as it was.
LEMMA ReorderAlike ==
    ASSUME NEW q \in RegistryType, NEW o \in [Claims -> Nat]
    PROVE  /\ [q EXCEPT !.terminalOrder = o] \in RegistryType
           /\ Alike([q EXCEPT !.terminalOrder = o], q)
BY DEF RegistryType, Alike

----------------------------------------------------------------------------
(* expireTerminalsLocked.                                                   *)

\* expireTerminalsLocked preserves the registry's invariant.
LEMMA ExpireSound ==
    ASSUME NEW q, Core(q), NEW upTo
    PROVE  LET p == ExpireTerminals(q, upTo)
           IN  /\ Core(p)
               /\ Shrinks(p, q)
               /\ Sound(q) => Sound(p)
<1> DEFINE expired == {x \in Ordered(q) : /\ q.entry[x].expires
                                          /\ q.terminalOrder[x] <= upTo}
           o == Compacted(q.terminalOrder, Ordered(q) \ expired)
           q1 == [q EXCEPT !.terminalOrder = o]
           q2 == Forget(q1, expired)
           p == MaybeCleanupGeneration(q2, SessionsOf(expired))
<1>0. q \in RegistryType /\ q.entries \subseteq Claims
  BY RegistryFields DEF Core
<1>1. o \in [Claims -> Nat]
  BY <1>0, CompactedType DEF Ordered, Terminal
<1>2. expired \cap Pending(q) = {}
  BY DEF Ordered, Terminal, Pending
<1>3. ExpireTerminals(q, upTo) = p
  BY DEF ExpireTerminals
<1> HIDE DEF o, expired
<1>4. q1 \in RegistryType /\ Alike(q1, q)
  BY <1>0, <1>1, ReorderAlike
<1> HIDE DEF q1
<1>5. /\ Core(q1) /\ Shrinks(q1, q) /\ Pending(q1) = Pending(q)
      /\ Fenced(q) => Fenced(q1)
      /\ \A P : Counted(q, P) => Counted(q1, P)
  BY <1>4, AlikeSound
<1>6. /\ Core(q2) /\ Shrinks(q2, q1) /\ Pending(q2) = Pending(q1) \ expired
      /\ Fenced(q1) => Fenced(q2)
      /\ \A P : Counted(q1, P) /\ P \cap expired = {} => Counted(q2, P)
  BY <1>5, ForgetSound
<1> HIDE DEF q2
<1>7. /\ Core(p) /\ Shrinks(p, q2) /\ Pending(p) = Pending(q2)
      /\ Fenced(q2) => Fenced(p)
      /\ \A P : Counted(q2, P) => Counted(p, P)
  BY <1>6, CleanupSound
<1> HIDE DEF p
<1>8. Shrinks(p, q)
  BY <1>5, <1>6, <1>7, ShrinksTransitive
<1>9. Pending(p) = Pending(q)
  BY <1>2, <1>5, <1>6, <1>7
<1>10. Sound(q) => Sound(p)
  BY <1>2, <1>5, <1>6, <1>7, <1>9 DEF Sound
<1> QED
  BY <1>3, <1>7, <1>8, <1>10

----------------------------------------------------------------------------
(* addTerminalLocked and failPendingLocked.                                 *)

\* addTerminalLocked stores a tombstone and evicts older ones without
\* touching pending entries, permits or the fence between generations.
LEMMA AddTerminalSound ==
    ASSUME NEW q, Core(q), NEW e \in Claims, State(q, e) = "terminal",
           e \in q.entries \/ EntryAt(q, e) = {}
    PROVE  LET p == AddTerminal(q, e)
           IN  /\ Core(p)
               /\ Pending(p) = Pending(q)
               /\ p.entries \subseteq q.entries \cup {e}
               /\ \A x \in p.entries :
                     /\ p.entry[x].halves \subseteq q.entry[x].halves
                     /\ p.entry[x].generation = q.entry[x].generation
               /\ \A x \in Claims : q.entry[x].permit = "none" =>
                     p.entry[x].permit = "none"
               /\ ( /\ Fenced(q)
                    /\ q.entry[e].generation \in Generations
                    /\ q.entry[e].generation = q.generations[e.session]
                    => Fenced(p))
               /\ Counted(q, Pending(q)) => Counted(p, Pending(q))
<1> DEFINE kept == Ordered(q)
           order == [Compacted(q.terminalOrder, kept) EXCEPT
                        ![e] = Cardinality(kept) + 1]
           evicted == {x \in kept :
                         order[x] + PendingFlowsPerSession <= order[e]}
           stored == {x \in q.entries : ~SameKey(x, e)} \cup {e}
           o == Compacted(order, (kept \cup {e}) \ evicted)
           q1 == [q EXCEPT !.entries = stored, !.terminalOrder = o]
           X == evicted \cap stored
           q2 == Forget(q1, X)
           p == MaybeCleanupGeneration(q2, SessionsOf(X))
<1>0. q \in RegistryType /\ q.entries \subseteq Claims
  BY RegistryFields DEF Core
<1>1. o \in [Claims -> Nat]
  <2>1. (kept \cup {e}) \ evicted \in SUBSET Claims
    BY <1>0 DEF Ordered, Terminal
  <2> HIDE DEF order, kept, evicted
  <2> QED BY <2>1, CompactedType
<1>2. evicted \cap Pending(q) = {}
  BY DEF Ordered, Terminal, Pending
<1>3. AddTerminal(q, e) = p
  BY DEF AddTerminal
<1> HIDE DEF o, evicted
<1>4. stored = q.entries \cup {e}
  BY <1>0 DEF Core, UniqueKeys, EntryAt, SameKey
<1>5. /\ q1 \in RegistryType /\ q1.entries = q.entries \cup {e}
      /\ q1.entry = q.entry /\ q1.pending = q.pending
      /\ q1.idleTCP = q.idleTCP /\ q1.udpInUse = q.udpInUse
      /\ q1.generations = q.generations /\ q1.closed = q.closed
  <2> HIDE DEF stored
  <2> QED BY <1>0, <1>1, <1>4 DEF RegistryType
<1> HIDE DEF q1, stored
<1>6. Core(q1)
  <2>1. PermitsExact(q1)
    BY <1>0, <1>5, SamePermits DEF Core
  <2>2. UniqueKeys(q1)
    BY <1>5 DEF Core, UniqueKeys, EntryAt, SameKey
  <2> QED BY <1>5, <2>1, <2>2 DEF Core
<1>7. Pending(q1) = Pending(q)
  BY <1>5 DEF Pending, State
<1>8. /\ Fenced(q)
      /\ q.entry[e].generation \in Generations
      /\ q.entry[e].generation = q.generations[e.session]
      => Fenced(q1)
  BY <1>5 DEF Fenced
<1>9. Counted(q, Pending(q)) => Counted(q1, Pending(q))
  BY <1>5 DEF Counted
<1> HIDE DEF X
<1>10. /\ Core(q2) /\ Shrinks(q2, q1) /\ Pending(q2) = Pending(q1) \ X
       /\ Fenced(q1) => Fenced(q2)
       /\ \A P : Counted(q1, P) /\ P \cap X = {} => Counted(q2, P)
  BY <1>6, ForgetSound
<1> HIDE DEF q2
<1>11. /\ Core(p) /\ Shrinks(p, q2) /\ Pending(p) = Pending(q2)
       /\ Fenced(q2) => Fenced(p)
       /\ \A P : Counted(q2, P) => Counted(p, P)
  BY <1>10, CleanupSound
<1> HIDE DEF p
<1>12. Shrinks(p, q1)
  BY <1>10, <1>11, ShrinksTransitive
<1>13. Pending(q) \cap X = {}
  BY <1>2 DEF X
<1>14. Pending(p) = Pending(q)
  BY <1>7, <1>10, <1>11, <1>13
<1>15. /\ p.entries \subseteq q.entries \cup {e}
       /\ \A x \in p.entries : /\ p.entry[x].halves \subseteq q.entry[x].halves
                               /\ p.entry[x].generation = q.entry[x].generation
       /\ \A x \in Claims : q.entry[x].permit = "none" =>
             p.entry[x].permit = "none"
  BY <1>5, <1>12 DEF Shrinks
<1>16. Counted(q, Pending(q)) => Counted(p, Pending(q))
  BY <1>9, <1>10, <1>11, <1>13
<1> QED
  BY <1>3, <1>8, <1>10, <1>11, <1>14, <1>15, <1>16

\* Entry e is overwritten
SetEntry(q, e, x) == [q EXCEPT !.entry[e] = x]

\* What overwriting one entry changes, field by field.
LEMMA SetEntryFields ==
    ASSUME NEW q \in RegistryType, NEW e \in Claims, NEW x \in EntryType
    PROVE  LET p == SetEntry(q, e, x)
           IN  /\ p \in RegistryType
               /\ p.entry[e] = x
               /\ \A d \in Claims : d # e => p.entry[d] = q.entry[d]
               /\ p.entries = q.entries
               /\ SameSessions(p, q) /\ SameFlags(p, q)
               /\ p.pending = q.pending /\ p.idleTCP = q.idleTCP
               /\ p.udpInUse = q.udpInUse /\ p.terminalOrder = q.terminalOrder
<1> DEFINE ent == [q.entry EXCEPT ![e] = x]
<1>1. /\ ent \in [Claims -> EntryType] /\ ent[e] = x
      /\ \A d \in Claims : d # e => ent[d] = q.entry[d]
  BY RegistryFields
<1>2. SetEntry(q, e, x) = [q EXCEPT !.entry = ent]
  BY DEF SetEntry, RegistryType
<1> HIDE DEF ent
<1> QED
  BY <1>1, <1>2 DEF RegistryType, SameSessions, SameFlags

\* failPendingLocked empties an entry and hands on its permit, but never
\* loses track of whether there was one.
LEMMA FailedFields ==
    ASSUME NEW x \in EntryType, NEW b \in BOOLEAN
    PROVE  /\ Failed(x, b) \in EntryType
           /\ Failed(x, b).state = "terminal"
           /\ Failed(x, b).generation = x.generation
           /\ Failed(x, b).halves = {}
           /\ Failed(x, b).permit = "none" <=> x.permit = "none"
<1>1. (x.terminalConsumed \/ b) \in BOOLEAN
  OBVIOUS
<1>2. /\ Loosen(x.permit) \in {"none", "held", "loose"}
      /\ Loosen(x.permit) = "none" <=> x.permit = "none"
  BY DEF Loosen, EntryType
<1> DEFINE tc == x.terminalConsumed \/ b
           pm == Loosen(x.permit)
<1>3. Failed(x, b) = [x EXCEPT !.state = "terminal", !.terminalConsumed = tc,
                               !.halves = {}, !.expires = TRUE, !.permit = pm]
  BY DEF Failed, EntryType
<1>4. tc \in BOOLEAN /\ pm \in {"none", "held", "loose"}
      /\ (pm = "none" <=> x.permit = "none")
  BY <1>1, <1>2
<1> HIDE DEF tc, pm
<1> QED
  BY <1>3, <1>4 DEF EntryType

\* failPendingLocked with keepTerminal set (timeout, cancellation, conflict,
\* rejection) preserves the registry's invariant.
LEMMA FailPendingSound ==
    ASSUME NEW q, Sound(q), NEW e \in Pending(q)
    PROVE  Sound(FailPending(q, e)) /\ Shrinks(FailPending(q, e), q)
<1> DEFINE b == \E h \in q.entry[e].halves : Selected(h)
           q1 == FinishPending(q, {e})
           x == Failed(q1.entry[e], b)
           q2 == SetEntry(q1, e, x)
           p == AddTerminal(q2, e)
<1>0. /\ Core(q) /\ Fenced(q) /\ Counted(q, Pending(q))
      /\ q \in RegistryType
      /\ e \in Claims /\ e \in q.entries /\ q.entries \subseteq Claims
  BY RegistryFields DEF Sound, Core, Pending
<1>1. FailPending(q, e) = p
  BY DEF FailPending, SetEntry
<1>2. /\ Core(q1) /\ Shrinks(q1, q) /\ Pending(q1) = Pending(q) /\ Fenced(q1)
      /\ Counted(q1, Pending(q) \ {e})
  BY <1>0, FinishPendingSound
<1>3. q1.entries = q.entries
  BY <1>0, FinishPendingFields
<1> HIDE DEF q1
<1>4. q1 \in RegistryType /\ q1.entry[e] \in EntryType
  BY <1>0, <1>2, EntryFields DEF Core
<1>5. /\ x \in EntryType /\ x.state = "terminal" /\ x.halves = {}
      /\ x.generation = q1.entry[e].generation
      /\ x.permit = "none" <=> q1.entry[e].permit = "none"
  BY <1>4, FailedFields
<1> HIDE DEF x, b
<1>6. /\ q2 \in RegistryType /\ q2.entry[e] = x
      /\ \A d \in Claims : d # e => q2.entry[d] = q1.entry[d]
      /\ q2.entries = q1.entries
      /\ SameSessions(q2, q1) /\ SameFlags(q2, q1)
      /\ q2.pending = q1.pending /\ q2.idleTCP = q1.idleTCP
      /\ q2.udpInUse = q1.udpInUse
  BY <1>0, <1>4, <1>5, SetEntryFields
<1> HIDE DEF q2
<1>7. Core(q2)
  <2>1. \A d \in Claims :
           /\ q1.entry[d].permit = "none" <=> q2.entry[d].permit = "none"
           /\ q1.entry[d].permit # "none" =>
                 q2.entry[d].generation = q1.entry[d].generation
    BY <1>5, <1>6
  <2>2. PermitsExact(q2)
    BY <1>2, <1>4, <1>6, <2>1, SamePermits DEF Core, SameFlags
  <2> QED
    BY <1>2, <1>6, <2>2 DEF Core, UniqueKeys
<1>8. Pending(q2) = Pending(q) \ {e}
  BY <1>0, <1>2, <1>3, <1>5, <1>6 DEF Pending, State
<1>9. Fenced(q2)
  BY <1>0, <1>2, <1>3, <1>5, <1>6 DEF Fenced, SameSessions
<1>10. Counted(q2, Pending(q) \ {e})
  BY <1>2, <1>6 DEF Counted
<1>11. Shrinks(q2, q1)
  BY <1>0, <1>2, <1>3, <1>5, <1>6, <1>8 DEF Shrinks
<1>12. State(q2, e) = "terminal" /\ e \in q2.entries
  BY <1>0, <1>3, <1>5, <1>6 DEF State
<1>13. /\ q2.entry[e].generation \in Generations
       /\ q2.entry[e].generation = q2.generations[e.session]
  BY <1>9, <1>12 DEF Fenced
<1>14. /\ Core(p) /\ Pending(p) = Pending(q2) /\ Fenced(p)
       /\ Counted(p, Pending(q2))
       /\ p.entries \subseteq q2.entries \cup {e}
       /\ \A y \in p.entries : /\ p.entry[y].halves \subseteq q2.entry[y].halves
                               /\ p.entry[y].generation = q2.entry[y].generation
       /\ \A y \in Claims : q2.entry[y].permit = "none" =>
             p.entry[y].permit = "none"
  BY <1>0, <1>7, <1>8, <1>9, <1>10, <1>12, <1>13, AddTerminalSound
<1> HIDE DEF p
<1>15. Shrinks(p, q2)
  BY <1>12, <1>14 DEF Shrinks
<1>16. Shrinks(p, q)
  BY <1>2, <1>11, <1>15, ShrinksTransitive
<1>17. Sound(p)
  BY <1>14 DEF Sound
<1> QED
  BY <1>1, <1>16, <1>17

----------------------------------------------------------------------------
(* Whole entries taken out: detachSessionLocked, releaseActive and the      *)
(* critical section of BeginDrainContext.                                   *)

\* Removing entries of any state, the pending ones through
\* finishPendingLocked, keeps the counters exact: detachSessionLocked and
\* BeginDrainContext both do this.
LEMMA RemoveSound ==
    ASSUME NEW q, Core(q), Counted(q, Pending(q)), NEW X \in SUBSET Claims
    PROVE  LET p == Forget(FinishPending(q, X \cap Pending(q)), X)
           IN  /\ Core(p) /\ Shrinks(p, q)
               /\ p.entries = q.entries \ X
               /\ SameSessions(p, q)
               /\ Fenced(q) => Fenced(p)
               /\ Counted(p, Pending(p))
<1> DEFINE S == X \cap Pending(q)
           q1 == FinishPending(q, S)
           p == Forget(q1, X)
<1>0. q \in RegistryType /\ S \in SUBSET Claims
  BY DEF Core
<1>1. /\ Core(q1) /\ Shrinks(q1, q) /\ Pending(q1) = Pending(q)
      /\ Fenced(q) => Fenced(q1)
      /\ \A P : Counted(q, P) /\ S \subseteq P => Counted(q1, P \ S)
  BY <1>0, FinishPendingSound
<1>2. q1.entries = q.entries /\ SameSessions(q1, q)
  BY <1>0, FinishPendingFields
<1>3. Counted(q1, Pending(q) \ S)
  BY <1>1
<1>4. (Pending(q) \ S) \cap X = {} /\ Pending(q) \ S = Pending(q) \ X
  OBVIOUS
<1> HIDE DEF q1, S
<1>5. /\ Core(p) /\ Shrinks(p, q1) /\ Pending(p) = Pending(q1) \ X
      /\ Fenced(q1) => Fenced(p)
      /\ \A P : Counted(q1, P) /\ P \cap X = {} => Counted(p, P)
  BY <1>1, ForgetSound
<1>6. p.entries = q1.entries \ X /\ SameSessions(p, q1)
  BY <1>1, ForgetFields DEF Core
<1>7. Counted(p, Pending(p))
  BY <1>1, <1>3, <1>4, <1>5
<1>8. Shrinks(p, q)
  BY <1>1, <1>5, ShrinksTransitive
<1> HIDE DEF p
<1>9. SameSessions(p, q) /\ p.entries = q.entries \ X
  BY <1>2, <1>6 DEF SameSessions
<1> QED
  BY <1>1, <1>5, <1>7, <1>8, <1>9 DEF p, q1, S

\* releaseActive preserves the registry's invariant for any entry that is not
\* pending, still in the map or not.
LEMMA ReleaseActiveSound ==
    ASSUME NEW q, Sound(q), NEW e \in Claims, e \notin Pending(q)
    PROVE  Sound(ReleaseActive(q, e)) /\ Shrinks(ReleaseActive(q, e), q)
<1> DEFINE q1 == Forget(q, {e})
           p == MaybeCleanupGeneration(q1, {e.session})
<1>1. Core(q) /\ Fenced(q) /\ Counted(q, Pending(q)) /\ Pending(q) \cap {e} = {}
  BY DEF Sound
<1>2. /\ Core(q1) /\ Shrinks(q1, q) /\ Pending(q1) = Pending(q) \ {e}
      /\ Fenced(q1) /\ Counted(q1, Pending(q))
  BY <1>1, ForgetSound
<1> HIDE DEF q1
<1>3. /\ Core(p) /\ Shrinks(p, q1) /\ Pending(p) = Pending(q1)
      /\ Fenced(p) /\ Counted(p, Pending(q))
  BY <1>2, CleanupSound
<1>4. Shrinks(p, q)
  BY <1>2, <1>3, ShrinksTransitive
<1> QED
  BY <1>1, <1>2, <1>3, <1>4 DEF ReleaseActive, Sound, q1

\* The critical section of BeginDrainContext preserves the registry's
\* invariant, whatever order it visits the map in.
LEMMA DrainSound ==
    ASSUME NEW q, Sound(q), NEW cleaned
    PROVE  Sound(DrainRegistry(q, cleaned)) /\ Shrinks(DrainRegistry(q, cleaned), q)
<1> DEFINE X == Pending(q) \cup Terminal(q)
           q1 == Forget(FinishPending(q, X \cap Pending(q)), X)
           q2 == [q1 EXCEPT !.accepting = FALSE,
                            !.terminalOrder = [e \in Claims |-> 0]]
           p == MaybeCleanupGeneration(q2, cleaned)
<1>0. /\ Core(q) /\ Fenced(q) /\ Counted(q, Pending(q)) /\ X \in SUBSET Claims
      /\ X \cap Pending(q) = Pending(q)
  BY RegistryFields DEF Sound, Core, Pending, Terminal
<1>1. DrainRegistry(q, cleaned) = p
  BY <1>0 DEF DrainRegistry
<1> HIDE DEF X
<1>2. Core(q1) /\ Shrinks(q1, q) /\ Fenced(q1) /\ Counted(q1, Pending(q1))
  BY <1>0, RemoveSound
<1> HIDE DEF q1
<1>3. q2 \in RegistryType /\ Alike(q2, q1)
  <2> DEFINE z == [e \in Claims |-> 0]
  <2>1. z \in [Claims -> Nat]
    OBVIOUS
  <2> HIDE DEF z
  <2> QED BY <1>2, <2>1 DEF Core, RegistryType, Alike
<1> HIDE DEF q2
<1>4. /\ Core(q2) /\ Shrinks(q2, q1) /\ Pending(q2) = Pending(q1) /\ Fenced(q2)
      /\ Counted(q2, Pending(q2))
  BY <1>2, <1>3, AlikeSound
<1>5. /\ Core(p) /\ Shrinks(p, q2) /\ Pending(p) = Pending(q2) /\ Fenced(p)
      /\ Counted(p, Pending(q2))
  BY <1>4, CleanupSound
<1>6. Shrinks(p, q)
  BY <1>2, <1>4, <1>5, ShrinksTransitive
<1> QED
  BY <1>1, <1>5, <1>6 DEF Sound

\* The critical section of CloseContextCause preserves the registry's
\* invariant.
LEMMA CloseSound ==
    ASSUME NEW q, Sound(q)
    PROVE  Sound(CloseRegistry(q)) /\ Shrinks(CloseRegistry(q), q)
<1> DEFINE f == Forget(q, q.entries)
           ent == f.entry
           p == [NewRegistry EXCEPT !.accepting = FALSE, !.closed = TRUE,
                                    !.entry = ent]
<1>0. Core(q)
  BY DEF Sound
<1>1. Core(f) /\ Shrinks(f, q)
  BY <1>0, ForgetSound
<1>2. ent \in [Claims -> EntryType]
  BY <1>1, RegistryFields DEF Core
<1>3. \A e \in Claims : q.entry[e].permit = "none" => ent[e].permit = "none"
  BY <1>1 DEF Shrinks
<1>4. \A e \in Claims : ent[e].permit # "none" => ent[e].generation \in Generations
  BY <1>1 DEF Core, PermitsExact
<1> HIDE DEF ent
<1>5. /\ p \in RegistryType /\ p.entries = {} /\ p.closed /\ p.entry = ent
      /\ \A s \in Sessions : p.pending[s] = 0
      /\ p.idleTCP = 0
  BY <1>2, NewRegistryType, NewRegistryFields DEF RegistryType
<1>6. CloseRegistry(q) = p
  BY DEF CloseRegistry, ent
<1> HIDE DEF p
<1>7. Pending(p) = {}
  BY <1>5 DEF Pending
<1>8. Counted(p, {})
  <2>1. \A s : {e \in {} : e.session = s} = {}
    OBVIOUS
  <2>2. {e \in {} : Carrier(e) = "tls"} = {}
    OBVIOUS
  <2> QED BY <1>5, <2>1, <2>2, FS_EmptySet DEF Counted
<1>9. Core(p)
  BY <1>4, <1>5 DEF Core, PermitsExact, UniqueKeys
<1>10. Shrinks(p, q)
  BY <1>3, <1>5, <1>7 DEF Shrinks
<1> QED
  BY <1>5, <1>6, <1>7, <1>8, <1>9, <1>10 DEF Sound, Fenced

\* udpPermit.Release preserves the registry's invariant for a permit not yet
\* released.
LEMMA ReleaseUDPPermitSound ==
    ASSUME NEW q, Sound(q), NEW e \in Claims, q.entry[e].permit # "none"
    PROVE  Sound(ReleaseUDPPermit(q, e)) /\ Shrinks(ReleaseUDPPermit(q, e), q)
<1> DEFINE s0 == e.session
           g0 == q.entry[e].generation
           v == Minus(q.udpInUse[s0][g0], 1)
           udp == [q.udpInUse EXCEPT ![s0][g0] = v]
           x == IF e \in q.entries THEN [q.entry[e] EXCEPT !.permit = "none"]
                ELSE NewEntry
           ent == [q.entry EXCEPT ![e] = x]
           q1 == [q EXCEPT !.udpInUse = udp, !.entry = ent]
           p == MaybeCleanupGeneration(q1, {s0})
<1>0. /\ Core(q) /\ Fenced(q) /\ Counted(q, Pending(q)) /\ q \in RegistryType
      /\ q.entries \subseteq Claims /\ s0 \in Sessions
  BY ClaimSession, RegistryFields DEF Sound, Core
<1>1. g0 \in Generations
  BY <1>0 DEF Core, PermitsExact
<1>2. /\ x \in EntryType /\ x.permit = "none"
      /\ e \in q.entries => /\ x.state = q.entry[e].state
                            /\ x.generation = q.entry[e].generation
                            /\ x.halves = q.entry[e].halves
                            /\ x.pendingTCP = q.entry[e].pendingTCP
  <2>1. q.entry[e] \in EntryType
    BY <1>0, EntryFields
  <2>2. CASE e \in q.entries
    BY <2>1, <2>2 DEF EntryType
  <2>3. CASE e \notin q.entries
    BY <2>3, NewEntryType, NewEntryFields
  <2> QED BY <2>2, <2>3
<1>3. ReleaseUDPPermit(q, e) = p
  BY <1>0 DEF ReleaseUDPPermit, RegistryType
<1> HIDE DEF x
<1>4. /\ ent \in [Claims -> EntryType] /\ ent[e] = x
      /\ \A d \in Claims : d # e => ent[d] = q.entry[d]
  BY <1>0, <1>2, RegistryFields
<1>5. /\ udp \in [Sessions -> [Generations -> Nat]]
      /\ udp[s0][g0] = v
      /\ \A s \in Sessions, g \in Generations :
            s # s0 \/ g # g0 => udp[s][g] = q.udpInUse[s][g]
  <2>0. q.udpInUse \in [Sessions -> [Generations -> Nat]]
    BY <1>0, RegistryFields
  <2>1. v \in Nat
    <3>1. q.udpInUse[s0][g0] \in Nat
      BY <1>0, <1>1, <2>0
    <3> QED BY <3>1, MinusType
  <2> HIDE DEF v
  <2> QED BY <1>0, <1>1, <2>0, <2>1, NestedUpdate
<1> HIDE DEF udp, ent
<1>6. /\ q1 \in RegistryType /\ q1.entry = ent /\ q1.entries = q.entries
      /\ q1.udpInUse = udp /\ q1.pending = q.pending /\ q1.idleTCP = q.idleTCP
      /\ q1.generations = q.generations /\ q1.closed = q.closed
  BY <1>0, <1>4, <1>5 DEF RegistryType
<1> HIDE DEF q1
<1>7. PermitsExact(q1)
  <2>1. \A d \in Claims : q1.entry[d].permit # "none" =>
                             q1.entry[d].generation \in Generations
    BY <1>0, <1>2, <1>4, <1>6 DEF Core, PermitsExact
  <2>2. ASSUME NEW s \in Sessions, NEW g \in Generations, s # s0 \/ g # g0
        PROVE  PermitsInUse(q1, s, g) = PermitsInUse(q, s, g)
    BY <1>2, <1>4, <1>6, <2>2 DEF PermitsInUse
  <2>3. PermitsInUse(q1, s0, g0) = PermitsInUse(q, s0, g0) \ {e}
    BY <1>2, <1>4, <1>6 DEF PermitsInUse
  <2>4. PermitsInUse(q, s0, g0) \in SUBSET Claims /\ e \in PermitsInUse(q, s0, g0)
    BY <1>0, EntryFields DEF PermitsInUse
  <2>5. Cardinality(PermitsInUse(q, s0, g0) \ {e})
           = Minus(Cardinality(PermitsInUse(q, s0, g0)), 1)
    <3>1. IsFiniteSet(PermitsInUse(q, s0, g0))
      BY <2>4, FiniteClaims
    <3>2. {e} \in SUBSET PermitsInUse(q, s0, g0) /\ Cardinality({e}) = 1
      BY <2>4, FS_Singleton
    <3> QED BY <3>1, <3>2, CardinalityMinus
  <2>6. ASSUME ~q1.closed, NEW s \in Sessions, NEW g \in Generations
        PROVE  q1.udpInUse[s][g] = Cardinality(PermitsInUse(q1, s, g))
    <3>1. q.udpInUse[s][g] = Cardinality(PermitsInUse(q, s, g))
      BY <1>0, <1>6, <2>6 DEF Core, PermitsExact
    <3>2. CASE s = s0 /\ g = g0
      BY <1>5, <1>6, <2>3, <2>5, <3>1, <3>2
    <3>3. CASE s # s0 \/ g # g0
      BY <1>5, <1>6, <2>2, <3>1, <3>3
    <3> QED BY <3>2, <3>3
  <2> QED BY <2>1, <2>6 DEF PermitsExact
<1>8. Core(q1)
  BY <1>0, <1>6, <1>7 DEF Core, UniqueKeys
<1>9. Pending(q1) = Pending(q)
  BY <1>0, <1>2, <1>4, <1>6 DEF Pending, State
<1>10. Fenced(q1)
  BY <1>0, <1>2, <1>4, <1>6 DEF Fenced
<1>11. Counted(q1, Pending(q))
  BY <1>0, <1>2, <1>4, <1>6 DEF Counted, Pending
<1>12. Shrinks(q1, q)
  BY <1>0, <1>2, <1>4, <1>6, <1>9 DEF Shrinks
<1>13. /\ Core(p) /\ Shrinks(p, q1) /\ Pending(p) = Pending(q1) /\ Fenced(p)
       /\ Counted(p, Pending(q))
  BY <1>8, <1>10, <1>11, CleanupSound
<1>14. Shrinks(p, q)
  BY <1>12, <1>13, ShrinksTransitive
<1> QED
  BY <1>3, <1>9, <1>13, <1>14 DEF Sound
=============================================================================
