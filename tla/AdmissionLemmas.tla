-------------------------- MODULE AdmissionLemmas --------------------------
(***************************************************************************)
(* The operators that open sessions and admit claims preserve what          *)
(* RegistryLemmas states of a registry.                                     *)
(***************************************************************************)
EXTENDS RegistryLemmas

----------------------------------------------------------------------------
(* Session generations.                                                     *)

\* unregisterSessionGeneration preserves the registry's invariant, for any
\* session and generation and however often it is called.
LEMMA UnregisterSound ==
    ASSUME NEW q, Sound(q), NEW s0 \in Sessions, NEW g0 \in Generations
    PROVE  /\ Sound(UnregisterSession(q, s0, g0))
           /\ Shrinks(UnregisterSession(q, s0, g0), q)
<1> DEFINE v == Minus(q.registered[s0][g0], 1)
           reg == [q.registered EXCEPT ![s0][g0] = v]
           q1 == [q EXCEPT !.registered = reg]
           p == MaybeCleanupGeneration(q1, {s0})
<1>0. /\ Core(q) /\ Fenced(q) /\ Counted(q, Pending(q)) /\ q \in RegistryType
      /\ q.registered \in [Sessions -> [Generations -> Nat]]
  BY RegistryFields DEF Sound, Core
<1>1. UnregisterSession(q, s0, g0) = p
  BY <1>0 DEF UnregisterSession, RegistryType
<1>2. v \in Nat
  <2>1. q.registered[s0][g0] \in Nat
    BY <1>0
  <2> QED BY <2>1, MinusType
<1> HIDE DEF v
<1>3. reg \in [Sessions -> [Generations -> Nat]]
  BY <1>0, <1>2, NestedUpdate
<1> HIDE DEF reg
<1>4. q1 \in RegistryType /\ Alike(q1, q)
  BY <1>0, <1>3 DEF RegistryType, Alike
<1> HIDE DEF q1
<1>5. /\ Core(q1) /\ Shrinks(q1, q) /\ Pending(q1) = Pending(q) /\ Fenced(q1)
      /\ Counted(q1, Pending(q))
  BY <1>0, <1>4, AlikeSound
<1>6. /\ Core(p) /\ Shrinks(p, q1) /\ Pending(p) = Pending(q1) /\ Fenced(p)
      /\ Counted(p, Pending(q))
  BY <1>5, CleanupSound
<1>7. Shrinks(p, q)
  BY <1>5, <1>6, ShrinksTransitive
<1> QED
  BY <1>1, <1>5, <1>6, <1>7 DEF Sound

\* beginSessionRegistration leaves only entries of the new generation behind,
\* so the fence holds again after current changes.
LEMMA RegisterSound ==
    ASSUME NEW q, Sound(q), NEW s0 \in Sessions, NEW g0 \in Generations
    PROVE  /\ Sound(RegisterSession(q, s0, g0))
           /\ Shrinks(RegisterSession(q, s0, g0), q)
<1> DEFINE next == IF g0 > q.nextGeneration THEN g0 ELSE q.nextGeneration
           gens == [q.generations EXCEPT ![s0] = g0]
           prov == [q.provenance EXCEPT ![s0][g0] = "physical"]
           v == q.registered[s0][g0] + 1
           reg == [q.registered EXCEPT ![s0][g0] = v]
           q1 == [q EXCEPT !.nextGeneration = next, !.generations = gens,
                           !.provenance = prov, !.registered = reg]
           X == Detached(q1, s0, g0)
           q2 == Forget(FinishPending(q1, X \cap Pending(q1)), X)
           p == MaybeCleanupGeneration(q2, {s0})
<1>0. /\ Core(q) /\ Fenced(q) /\ Counted(q, Pending(q)) /\ q \in RegistryType
      /\ q.entries \subseteq Claims
  BY RegistryFields DEF Sound, Core
<1>1. RegisterSession(q, s0, g0) = p
  BY <1>0 DEF RegisterSession, DetachSession, RegistryType
<1>2. /\ next \in 0 .. MaxGeneration
      /\ gens \in [Sessions -> 0 .. MaxGeneration] /\ gens[s0] = g0
      /\ \A s \in Sessions : s # s0 => gens[s] = q.generations[s]
  BY <1>0, RegistryFields, MaxGenerationNat DEF Generations
<1>3. reg \in [Sessions -> [Generations -> Nat]]
  <2>1. v \in Nat /\ q.registered \in [Sessions -> [Generations -> Nat]]
    BY <1>0, RegistryFields
  <2> HIDE DEF v
  <2> QED BY <2>1, NestedUpdate
<1>4. prov \in [Sessions -> [Generations -> {"none", "provisional", "physical"}]]
  BY <1>0, RegistryFields
<1> HIDE DEF next, gens, prov, reg, X
<1>5. /\ q1 \in RegistryType /\ q1.generations = gens
      /\ SameEntries(q1, q) /\ SameFlags(q1, q)
      /\ q1.pending = q.pending /\ q1.idleTCP = q.idleTCP
      /\ q1.udpInUse = q.udpInUse
  BY <1>0, <1>2, <1>3, <1>4 DEF RegistryType, SameEntries, SameFlags
<1> HIDE DEF q1
<1>6. Core(q1)
  <2>1. PermitsExact(q1)
    BY <1>0, <1>5, SamePermits DEF Core, SameFlags, SameEntries
  <2> QED BY <1>0, <1>5, <2>1 DEF Core, UniqueKeys, SameEntries
<1>7. Pending(q1) = Pending(q) /\ Shrinks(q1, q)
  BY <1>5 DEF Pending, State, SameEntries, Shrinks
<1>8. Counted(q1, Pending(q1))
  BY <1>0, <1>5, <1>7 DEF Counted, SameEntries
<1>9. X \in SUBSET Claims
  BY <1>0, <1>5 DEF X, Detached, EntriesOf, SameEntries
<1>10. /\ Core(q2) /\ Shrinks(q2, q1) /\ q2.entries = q1.entries \ X
       /\ SameSessions(q2, q1) /\ Counted(q2, Pending(q2))
  BY <1>6, <1>8, <1>9, RemoveSound
<1> HIDE DEF q2
<1>11. Fenced(q2)
  <2> SUFFICES ASSUME NEW e \in q2.entries
               PROVE  /\ q2.entry[e].generation \in Generations
                      /\ q2.entry[e].generation = q2.generations[e.session]
    BY DEF Fenced
  <2>1. e \in q.entries /\ e \notin X
    BY <1>5, <1>10 DEF SameEntries
  <2>2. q2.entry[e].generation = q.entry[e].generation
    BY <1>5, <1>10 DEF Shrinks, SameEntries
  <2>3. q.entry[e].generation \in Generations
        /\ q.entry[e].generation = q.generations[e.session]
    BY <1>0, <2>1 DEF Fenced
  <2>4. q2.generations[e.session] = gens[e.session] /\ e.session \in Sessions
    BY <1>0, <1>5, <1>10, <2>1, ClaimSession DEF SameSessions
  <2>5. CASE e.session = s0
    <3>1. q.entry[e].generation = g0
      BY <1>5, <2>1, <2>5 DEF X, Detached, EntriesOf, SameEntries
    <3> QED BY <1>2, <2>2, <2>3, <2>4, <2>5, <3>1
  <2>6. CASE e.session # s0
    BY <1>2, <2>2, <2>3, <2>4, <2>6
  <2> QED BY <2>5, <2>6
<1>12. /\ Core(p) /\ Shrinks(p, q2) /\ Pending(p) = Pending(q2) /\ Fenced(p)
       /\ Counted(p, Pending(q2))
  BY <1>10, <1>11, CleanupSound
<1>13. Shrinks(p, q)
  BY <1>7, <1>10, <1>12, ShrinksTransitive
<1> QED
  BY <1>1, <1>12, <1>13 DEF Sound

\* Opening a provisional generation happens only in a session without a
\* current one, which has no entries to be fenced out.
LEMMA ProvisionSound ==
    ASSUME NEW q, Sound(q), NEW c \in Claims, NEW known \in 0 .. MaxGeneration,
           CanProvision(q, c, known)
    PROVE  /\ Sound(ProvisionGeneration(q, c, known))
           /\ Shrinks(ProvisionGeneration(q, c, known), q)
<1> DEFINE s0 == c.session
           g0 == IF known = 0 THEN q.nextGeneration + 1 ELSE known
           next == IF g0 > q.nextGeneration THEN g0 ELSE q.nextGeneration
           gens == [q.generations EXCEPT ![s0] = g0]
           prov == [q.provenance EXCEPT ![s0][g0] = "provisional"]
           p == [q EXCEPT !.generations = gens, !.provenance = prov,
                          !.nextGeneration = next]
<1>0. /\ Core(q) /\ Fenced(q) /\ Counted(q, Pending(q)) /\ q \in RegistryType
      /\ q.entries \subseteq Claims /\ s0 \in Sessions
  BY ClaimSession, RegistryFields DEF Sound, Core
<1>1. CASE ~(q.generations[s0] = 0 /\ ~Bound(c))
  <2>1. ProvisionGeneration(q, c, known) = q
    BY <1>1 DEF ProvisionGeneration
  <2> QED
    BY <2>1 DEF Shrinks
<1>2. CASE q.generations[s0] = 0 /\ ~Bound(c)
  <2>1. ProvisionGeneration(q, c, known) = p
    BY <1>0, <1>2 DEF ProvisionGeneration, RegistryType
  <2>2. g0 \in Generations /\ next \in 0 .. MaxGeneration
    BY <1>0, <1>2, RegistryFields, MaxGenerationNat DEF CanProvision, Generations
  <2> HIDE DEF next, g0
  <2>3. /\ gens \in [Sessions -> 0 .. MaxGeneration]
        /\ \A s \in Sessions : s # s0 => gens[s] = q.generations[s]
    BY <1>0, <2>2, RegistryFields, MaxGenerationNat DEF Generations
  <2>4. prov \in [Sessions -> [Generations -> {"none", "provisional", "physical"}]]
    BY <1>0, <2>2, RegistryFields
  <2> HIDE DEF gens, prov
  <2>5. /\ p \in RegistryType /\ p.generations = gens
        /\ SameEntries(p, q) /\ SameFlags(p, q)
        /\ p.pending = q.pending /\ p.idleTCP = q.idleTCP
        /\ p.udpInUse = q.udpInUse
    BY <1>0, <2>2, <2>3, <2>4 DEF RegistryType, SameEntries, SameFlags
  <2> HIDE DEF p
  <2>6. Core(p)
    <3>1. PermitsExact(p)
      BY <1>0, <2>5, SamePermits DEF Core, SameFlags, SameEntries
    <3> QED BY <1>0, <2>5, <3>1 DEF Core, UniqueKeys, SameEntries
  <2>7. Pending(p) = Pending(q) /\ Shrinks(p, q)
    BY <2>5 DEF Pending, State, SameEntries, Shrinks
  <2>8. Counted(p, Pending(p))
    BY <1>0, <2>5, <2>7 DEF Counted, SameEntries
  <2>9. \A e \in q.entries : e.session # s0
    BY <1>0, <1>2, MaxGenerationNat DEF Fenced, Generations
  <2>10. Fenced(p)
    BY <1>0, <2>3, <2>5, <2>9, ClaimSession DEF Fenced, SameEntries
  <2> QED
    BY <2>1, <2>6, <2>7, <2>8, <2>10 DEF Sound
<1> QED
  BY <1>1, <1>2

----------------------------------------------------------------------------
(* Submit's new entries.                                                    *)

\* p is q with claim c added, as an entry or as a half of one
Adds(p, q, c) ==
    /\ p.entries \subseteq q.entries \cup {c}
    /\ \A e \in p.entries : e # c =>
          /\ p.entry[e].halves \subseteq q.entry[e].halves \cup {c}
          /\ p.entry[e].generation = q.entry[e].generation
    /\ c \in p.entries => p.entry[c].halves \subseteq {c}
    /\ Pending(p) \subseteq Pending(q) \cup {c}
    /\ \A d \in Claims : d # c /\ q.entry[d].permit = "none" =>
          p.entry[d].permit = "none"

\* Adding a claim to what is left of a registry adds it to the registry.
LEMMA ShrinksAdds ==
    ASSUME NEW p, NEW q, NEW o, NEW c, Shrinks(q, o), Adds(p, q, c)
    PROVE  Adds(p, o, c)
<1>1. /\ p.entries \subseteq o.entries \cup {c}
      /\ Pending(p) \subseteq Pending(o) \cup {c}
  BY DEF Shrinks, Adds
<1>2. ASSUME NEW e \in p.entries, e # c
      PROVE  /\ p.entry[e].halves \subseteq o.entry[e].halves \cup {c}
             /\ p.entry[e].generation = o.entry[e].generation
  <2>1. e \in q.entries
    BY <1>2 DEF Adds
  <2> QED BY <1>2, <2>1 DEF Shrinks, Adds
<1>3. \A d \in Claims : d # c /\ o.entry[d].permit = "none" =>
         p.entry[d].permit = "none"
  BY DEF Shrinks, Adds
<1>4. c \in p.entries => p.entry[c].halves \subseteq {c}
  BY DEF Adds
<1> QED
  BY <1>1, <1>2, <1>3, <1>4 DEF Adds

\* The entry Submit builds has one half, and a permit exactly when the flow
\* is UDP.
LEMMA FirstEntryFields ==
    ASSUME NEW c \in Claims, NEW g \in Generations
    PROVE  /\ FirstEntry(c, g) \in EntryType
           /\ FirstEntry(c, g).generation = g
           /\ FirstEntry(c, g).halves = {c}
           /\ c.kind = "udp" => FirstEntry(c, g).permit = "held"
           /\ c.kind # "udp" => FirstEntry(c, g).permit = "none"
           /\ FirstEntry(c, g).pendingTCP = FALSE
<1>1. g \in 0 .. MaxGeneration
  BY MaxGenerationNat DEF Generations
<1> QED
  BY <1>1 DEF FirstEntry, NewEntry, EntryType

\* acquireUDPPermitLocked counts the permit of the entry being built; the
\* entry is not in the map yet.
LEMMA AcquireSound ==
    ASSUME NEW q, Sound(q), NEW c \in Claims, NEW g0 \in Generations,
           Unclaimed(q, c)
    PROVE  LET p == AcquireEntry(q, c, g0)
           IN  /\ Core(p) /\ Fenced(p) /\ Counted(p, Pending(q))
               /\ Pending(p) = Pending(q)
               /\ p.entries = q.entries
               /\ p.entry[c] = FirstEntry(c, g0)
               /\ \A d \in Claims : d # c => p.entry[d] = q.entry[d]
               /\ p.generations = q.generations
<1> DEFINE s0 == c.session
           v == IF c.kind = "udp" THEN q.udpInUse[s0][g0] + 1
                ELSE q.udpInUse[s0][g0]
           udp == [q.udpInUse EXCEPT ![s0][g0] = v]
           x == FirstEntry(c, g0)
           ent == [q.entry EXCEPT ![c] = x]
           p == [q EXCEPT !.udpInUse = udp, !.entry = ent]
<1>0. /\ Core(q) /\ Fenced(q) /\ Counted(q, Pending(q)) /\ q \in RegistryType
      /\ q.entries \subseteq Claims /\ s0 \in Sessions
      /\ c \notin q.entries /\ q.entry[c].permit = "none"
  BY ClaimSession, RegistryFields DEF Sound, Core, Unclaimed
<1>1. AcquireEntry(q, c, g0) = p
  BY <1>0 DEF AcquireEntry, RegistryType
<1>2. /\ x \in EntryType /\ x.generation = g0 /\ x.halves = {c}
      /\ c.kind = "udp" => x.permit = "held"
      /\ c.kind # "udp" => x.permit = "none"
      /\ x = FirstEntry(c, g0)
  BY FirstEntryFields
<1> HIDE DEF x
<1>3. /\ ent \in [Claims -> EntryType] /\ ent[c] = x
      /\ \A d \in Claims : d # c => ent[d] = q.entry[d]
  BY <1>0, <1>2, RegistryFields
<1>4. /\ udp \in [Sessions -> [Generations -> Nat]]
      /\ udp[s0][g0] = v
      /\ \A s \in Sessions, g \in Generations :
            s # s0 \/ g # g0 => udp[s][g] = q.udpInUse[s][g]
  <2>1. q.udpInUse \in [Sessions -> [Generations -> Nat]]
    BY <1>0, RegistryFields
  <2>2. v \in Nat
    BY <1>0, <2>1
  <2> HIDE DEF v
  <2> QED BY <1>0, <2>1, <2>2, NestedUpdate
<1> HIDE DEF udp, ent
<1>5. /\ p \in RegistryType /\ p.entry = ent /\ p.entries = q.entries
      /\ p.udpInUse = udp /\ p.pending = q.pending /\ p.idleTCP = q.idleTCP
      /\ p.generations = q.generations /\ p.closed = q.closed
  BY <1>0, <1>3, <1>4 DEF RegistryType
<1> HIDE DEF p
<1>6. PermitsExact(p)
  <2>1. \A d \in Claims : p.entry[d].permit # "none" =>
                             p.entry[d].generation \in Generations
    BY <1>0, <1>2, <1>3, <1>5 DEF Core, PermitsExact
  <2>2. ASSUME NEW s \in Sessions, NEW g \in Generations,
               s # s0 \/ g # g0 \/ c.kind # "udp"
        PROVE  PermitsInUse(p, s, g) = PermitsInUse(q, s, g)
    BY <1>0, <1>2, <1>3, <1>5, <2>2 DEF PermitsInUse
  <2>3. c.kind = "udp" =>
           PermitsInUse(p, s0, g0) = PermitsInUse(q, s0, g0) \cup {c}
    BY <1>2, <1>3, <1>5 DEF PermitsInUse
  <2>4. /\ IsFiniteSet(PermitsInUse(q, s0, g0))
        /\ c \notin PermitsInUse(q, s0, g0)
    <3>1. PermitsInUse(q, s0, g0) \in SUBSET Claims /\ c \notin PermitsInUse(q, s0, g0)
      BY <1>0 DEF PermitsInUse
    <3> QED BY <3>1, FiniteClaims
  <2>5. Cardinality(PermitsInUse(q, s0, g0) \cup {c})
           = Cardinality(PermitsInUse(q, s0, g0)) + 1
    BY <2>4, FS_AddElement
  <2>6. ASSUME ~p.closed, NEW s \in Sessions, NEW g \in Generations
        PROVE  p.udpInUse[s][g] = Cardinality(PermitsInUse(p, s, g))
    <3>1. q.udpInUse[s][g] = Cardinality(PermitsInUse(q, s, g))
      BY <1>0, <1>5, <2>6 DEF Core, PermitsExact
    <3>2. CASE s = s0 /\ g = g0 /\ c.kind = "udp"
      BY <1>4, <1>5, <2>3, <2>5, <3>1, <3>2
    <3>3. CASE s # s0 \/ g # g0 \/ c.kind # "udp"
      <4>1. udp[s][g] = q.udpInUse[s][g]
        BY <1>4, <3>3
      <4> QED BY <1>5, <2>2, <3>1, <3>3, <4>1
    <3> QED BY <3>2, <3>3
  <2> QED BY <2>1, <2>6 DEF PermitsExact
<1>7. Core(p)
  BY <1>0, <1>5, <1>6 DEF Core, UniqueKeys
<1>8. Pending(p) = Pending(q)
  BY <1>0, <1>3, <1>5 DEF Pending, State
<1>9. Fenced(p)
  BY <1>0, <1>3, <1>5 DEF Fenced
<1>10. Counted(p, Pending(q))
  BY <1>0, <1>3, <1>5 DEF Counted, Pending
<1> QED
  BY <1>1, <1>2, <1>3, <1>5, <1>7, <1>8, <1>9, <1>10

\* Activation changes nothing of an entry but its state.
LEMMA ActiveFields ==
    ASSUME NEW y \in EntryType
    PROVE  LET x == [y EXCEPT !.state = "active"]
           IN  /\ x \in EntryType /\ x.state = "active"
               /\ x.generation = y.generation
               /\ x.halves = y.halves /\ x.permit = y.permit
BY DEF EntryType

\* Storing a first half sets the state and pendingTCP only.
LEMMA PendingFields ==
    ASSUME NEW y \in EntryType, NEW b \in BOOLEAN
    PROVE  LET x == [y EXCEPT !.state = "pending", !.pendingTCP = b]
           IN  /\ x \in EntryType /\ x.state = "pending"
               /\ x.generation = y.generation
               /\ x.halves = y.halves /\ x.permit = y.permit
               /\ x.pendingTCP = b
BY DEF EntryType

\* Submit of a DUPLEX claim preserves the registry's invariant and adds that
\* claim only.
LEMMA StoreDuplexSound ==
    ASSUME NEW q, Sound(q), NEW c \in Claims, NEW g0 \in Generations,
           Unclaimed(q, c), EntryAt(q, c) = {}, g0 = q.generations[c.session]
    PROVE  LET p == StoreDuplex(AcquireEntry(q, c, g0), c)
           IN  /\ Sound(p) /\ Adds(p, q, c)
               /\ Pending(p) = Pending(q)
               /\ p.entry[c].generation = g0
               /\ \A d \in p.entries : d # c =>
                     p.entry[d].halves \subseteq q.entry[d].halves
<1> DEFINE a == AcquireEntry(q, c, g0)
           x == [a.entry[c] EXCEPT !.state = "active"]
           ent == [a.entry EXCEPT ![c] = x]
           p == [a EXCEPT !.entries = a.entries \cup {c}, !.entry = ent]
<1>1. /\ Core(a) /\ Fenced(a) /\ Counted(a, Pending(q)) /\ Pending(a) = Pending(q)
      /\ a.entries = q.entries /\ a.entry[c] = FirstEntry(c, g0)
      /\ \A d \in Claims : d # c => a.entry[d] = q.entry[d]
      /\ a.generations = q.generations
  BY AcquireSound
<1> HIDE DEF a
<1>2. /\ a \in RegistryType /\ q \in RegistryType /\ a.entries \subseteq Claims
      /\ c \notin q.entries
  BY <1>1, RegistryFields DEF Core, Sound, Unclaimed
<1>3. /\ x \in EntryType /\ x.state = "active" /\ x.generation = g0
      /\ x.halves = {c} /\ x.permit = a.entry[c].permit
  <2>0. /\ FirstEntry(c, g0) \in EntryType
        /\ FirstEntry(c, g0).generation = g0 /\ FirstEntry(c, g0).halves = {c}
    BY FirstEntryFields
  <2>1. /\ a.entry[c] \in EntryType /\ a.entry[c].generation = g0
        /\ a.entry[c].halves = {c}
    BY <1>1, <2>0
  <2> QED BY <2>1, ActiveFields
<1>4. StoreDuplex(a, c) = p
  BY <1>2 DEF StoreDuplex, RegistryType
<1> HIDE DEF x
<1>5. /\ ent \in [Claims -> EntryType] /\ ent[c] = x
      /\ \A d \in Claims : d # c => ent[d] = a.entry[d]
  BY <1>2, <1>3, RegistryFields
<1> HIDE DEF ent
<1>6. /\ p \in RegistryType /\ p.entry = ent /\ p.entries = a.entries \cup {c}
      /\ p.udpInUse = a.udpInUse /\ p.pending = a.pending /\ p.idleTCP = a.idleTCP
      /\ p.generations = a.generations /\ p.closed = a.closed
  BY <1>2, <1>5 DEF RegistryType
<1> HIDE DEF p
<1>7. Core(p)
  <2>0. FirstEntry(c, g0).generation = g0
    BY FirstEntryFields
  <2>1. a.entry[c].generation = g0
    BY <1>1, <2>0
  <2>2. PermitsExact(p)
    BY <1>1, <1>2, <1>3, <1>5, <1>6, <2>1, SamePermits DEF Core
  <2>3. UniqueKeys(p)
    BY <1>1, <1>6 DEF Core, UniqueKeys, EntryAt, SameKey
  <2> QED BY <1>6, <2>2, <2>3 DEF Core
<1>8. Pending(p) = Pending(q)
  BY <1>1, <1>2, <1>3, <1>5, <1>6 DEF Pending, State
<1>9. Fenced(p)
  BY <1>1, <1>2, <1>3, <1>5, <1>6 DEF Fenced
<1>10. Counted(p, Pending(q))
  BY <1>1, <1>2, <1>5, <1>6 DEF Counted, Pending
<1>11. Adds(p, q, c)
  BY <1>1, <1>2, <1>3, <1>5, <1>6, <1>8 DEF Adds
<1>12. \A d \in p.entries : d # c => p.entry[d].halves \subseteq q.entry[d].halves
  BY <1>1, <1>2, <1>5, <1>6
<1> QED
  BY <1>3, <1>4, <1>5, <1>6, <1>7, <1>8, <1>9, <1>10, <1>11, <1>12 DEF Sound, a

\* Submit of a first half preserves the registry's invariant: the entry and
\* its share of the counters arrive together.
LEMMA StorePendingSound ==
    ASSUME NEW q, Sound(q), NEW c \in Claims, NEW g0 \in Generations,
           Unclaimed(q, c), EntryAt(q, c) = {}, g0 = q.generations[c.session]
    PROVE  LET p == StorePending(AcquireEntry(q, c, g0), c)
           IN  /\ Sound(p) /\ Adds(p, q, c)
               /\ p.entry[c].generation = g0
               /\ \A d \in p.entries : d # c =>
                     p.entry[d].halves \subseteq q.entry[d].halves
<1> DEFINE a == AcquireEntry(q, c, g0)
           s0 == c.session
           tcp == Carrier(c) = "tls"
           x == [a.entry[c] EXCEPT !.state = "pending", !.pendingTCP = tcp]
           ent == [a.entry EXCEPT ![c] = x]
           pend == [a.pending EXCEPT ![s0] = a.pending[s0] + 1]
           idle == IF tcp THEN a.idleTCP + 1 ELSE a.idleTCP
           p == [a EXCEPT !.entries = a.entries \cup {c}, !.entry = ent,
                          !.pending = pend, !.idleTCP = idle]
<1>1. /\ Core(a) /\ Fenced(a) /\ Counted(a, Pending(q)) /\ Pending(a) = Pending(q)
      /\ a.entries = q.entries /\ a.entry[c] = FirstEntry(c, g0)
      /\ \A d \in Claims : d # c => a.entry[d] = q.entry[d]
      /\ a.generations = q.generations
  BY AcquireSound
<1> HIDE DEF a
<1>2. /\ a \in RegistryType /\ q \in RegistryType /\ a.entries \subseteq Claims
      /\ c \notin q.entries /\ s0 \in Sessions
      /\ a.pending \in [Sessions -> Nat] /\ a.idleTCP \in Nat
  BY <1>1, ClaimSession, RegistryFields DEF Core, Sound, Unclaimed
<1>3. /\ x \in EntryType /\ x.state = "pending" /\ x.generation = g0
      /\ x.halves = {c} /\ x.permit = a.entry[c].permit /\ x.pendingTCP = tcp
  <2>0. /\ FirstEntry(c, g0) \in EntryType
        /\ FirstEntry(c, g0).generation = g0 /\ FirstEntry(c, g0).halves = {c}
    BY FirstEntryFields
  <2>1. /\ a.entry[c] \in EntryType /\ a.entry[c].generation = g0
        /\ a.entry[c].halves = {c}
    BY <1>1, <2>0
  <2>2. tcp \in BOOLEAN
    OBVIOUS
  <2>3. PICK b \in BOOLEAN : b = tcp
    BY <2>2
  <2>4. x = [a.entry[c] EXCEPT !.state = "pending", !.pendingTCP = b]
    BY <2>3
  <2> HIDE DEF x
  <2> QED BY <2>1, <2>3, <2>4, PendingFields
<1>4. StorePending(a, c) = p
  BY <1>2 DEF StorePending, RegistryType
<1> HIDE DEF x
<1>5. /\ ent \in [Claims -> EntryType] /\ ent[c] = x
      /\ \A d \in Claims : d # c => ent[d] = a.entry[d]
  BY <1>2, <1>3, RegistryFields
<1>6. /\ pend \in [Sessions -> Nat] /\ pend[s0] = a.pending[s0] + 1
      /\ \A s \in Sessions : s # s0 => pend[s] = a.pending[s]
      /\ idle \in Nat
  BY <1>2
<1> HIDE DEF ent, pend, idle
<1>7. /\ p \in RegistryType /\ p.entry = ent /\ p.entries = a.entries \cup {c}
      /\ p.udpInUse = a.udpInUse /\ p.pending = pend /\ p.idleTCP = idle
      /\ p.generations = a.generations /\ p.closed = a.closed
  BY <1>2, <1>5, <1>6 DEF RegistryType
<1> HIDE DEF p
<1>8. Core(p)
  <2>0. FirstEntry(c, g0).generation = g0
    BY FirstEntryFields
  <2>1. a.entry[c].generation = g0
    BY <1>1, <2>0
  <2>2. PermitsExact(p)
    BY <1>1, <1>2, <1>3, <1>5, <1>7, <2>1, SamePermits DEF Core
  <2>3. UniqueKeys(p)
    BY <1>1, <1>7 DEF Core, UniqueKeys, EntryAt, SameKey
  <2> QED BY <1>7, <2>2, <2>3 DEF Core
<1>9. Pending(p) = Pending(q) \cup {c} /\ c \notin Pending(q)
  BY <1>1, <1>2, <1>3, <1>5, <1>7 DEF Pending, State
<1>10. Fenced(p)
  BY <1>1, <1>2, <1>3, <1>5, <1>7 DEF Fenced
<1>11. Counted(p, Pending(q) \cup {c})
  <2> DEFINE P == Pending(q)
  <2>0. P \subseteq Claims /\ c \notin P
    BY <1>1, <1>9 DEF Counted
  <2> HIDE DEF P
  <2>1. ASSUME NEW s \in Sessions
        PROVE  p.pending[s] = Cardinality({e \in P \cup {c} : e.session = s})
    <3> DEFINE T == {e \in P : e.session = s}
    <3>1. IsFiniteSet(T) /\ c \notin T /\ a.pending[s] = Cardinality(T)
      BY <1>1, <2>0, FiniteClaims DEF Counted, P
    <3>2. Cardinality(T \cup {c}) = Cardinality(T) + 1
      BY <3>1, FS_AddElement
    <3>3. CASE s = s0
      <4>1. {e \in P \cup {c} : e.session = s} = T \cup {c}
        BY <3>3
      <4> QED BY <1>6, <1>7, <3>1, <3>2, <3>3, <4>1
    <3>4. CASE s # s0
      <4>1. {e \in P \cup {c} : e.session = s} = T
        BY <3>4
      <4> QED BY <1>6, <1>7, <3>1, <3>4, <4>1
    <3> QED BY <3>3, <3>4
  <2>2. p.idleTCP = Cardinality({e \in P \cup {c} : Carrier(e) = "tls"})
    <3> DEFINE T == {e \in P : Carrier(e) = "tls"}
    <3>1. IsFiniteSet(T) /\ c \notin T /\ a.idleTCP = Cardinality(T)
      BY <1>1, <2>0, FiniteClaims DEF Counted, P
    <3>2. Cardinality(T \cup {c}) = Cardinality(T) + 1
      BY <3>1, FS_AddElement
    <3>3. CASE tcp
      <4>1. {e \in P \cup {c} : Carrier(e) = "tls"} = T \cup {c}
        BY <3>3
      <4> QED BY <1>7, <3>1, <3>2, <3>3, <4>1 DEF idle
    <3>4. CASE ~tcp
      <4>1. {e \in P \cup {c} : Carrier(e) = "tls"} = T
        BY <3>4
      <4> QED BY <1>7, <3>1, <3>4, <4>1 DEF idle
    <3> QED BY <3>3, <3>4
  <2>3. \A e \in P \cup {c} : p.entry[e].pendingTCP = (Carrier(e) = "tls")
    BY <1>1, <1>3, <1>5, <1>7, <2>0 DEF Counted, P
  <2> QED
    BY <2>0, <2>1, <2>2, <2>3 DEF Counted, P
<1>12. Adds(p, q, c)
  BY <1>1, <1>2, <1>3, <1>5, <1>7, <1>9 DEF Adds
<1>13. \A d \in p.entries : d # c => p.entry[d].halves \subseteq q.entry[d].halves
  BY <1>1, <1>2, <1>5, <1>7
<1> QED
  BY <1>3, <1>4, <1>5, <1>7, <1>8, <1>9, <1>10, <1>11, <1>12, <1>13 DEF Sound, a

\* Submit turned away by the pending budget gives up the entry but leaves its
\* permit counted until it is released.
LEMMA AbandonSound ==
    ASSUME NEW q, Sound(q), NEW c \in Claims, NEW g0 \in Generations,
           Unclaimed(q, c)
    PROVE  LET p == AbandonEntry(AcquireEntry(q, c, g0), c)
           IN  /\ Sound(p) /\ Adds(p, q, c) /\ c \notin p.entries
               /\ \A d \in p.entries : d # c =>
                     p.entry[d].halves \subseteq q.entry[d].halves
<1> DEFINE a == AcquireEntry(q, c, g0)
           f == Forget(a, {c})
           p == MaybeCleanupGeneration(f, {c.session})
<1>1. /\ Core(a) /\ Fenced(a) /\ Counted(a, Pending(q)) /\ Pending(a) = Pending(q)
      /\ a.entries = q.entries
      /\ \A d \in Claims : d # c => a.entry[d] = q.entry[d]
  BY AcquireSound
<1> HIDE DEF a
<1>2. Pending(q) \cap {c} = {} /\ c \notin q.entries /\ q.entries \subseteq Claims
  BY RegistryFields DEF Unclaimed, Pending, Sound, Core
<1>3. /\ Core(f) /\ Shrinks(f, a) /\ Pending(f) = Pending(a) \ {c}
      /\ Fenced(f) /\ Counted(f, Pending(q))
  BY <1>1, <1>2, ForgetSound
<1> HIDE DEF f
<1>4. /\ Core(p) /\ Shrinks(p, f) /\ Pending(p) = Pending(f)
      /\ Fenced(p) /\ Counted(p, Pending(q))
  BY <1>3, CleanupSound
<1>5. Shrinks(p, a)
  BY <1>3, <1>4, ShrinksTransitive
<1>6. Pending(p) = Pending(q)
  BY <1>1, <1>2, <1>3, <1>4
<1> HIDE DEF p
<1>7. Adds(p, q, c) /\ c \notin p.entries
  BY <1>1, <1>2, <1>5, <1>6 DEF Adds, Shrinks
<1>8. \A d \in p.entries : d # c => p.entry[d].halves \subseteq q.entry[d].halves
  BY <1>1, <1>2, <1>5 DEF Shrinks
<1> QED
  BY <1>4, <1>6, <1>7, <1>8 DEF AbandonEntry, Sound, p, f, a

\* The second half joins an entry that keeps its generation and its permit.
LEMMA JoinedFields ==
    ASSUME NEW y \in EntryType, NEW c \in Claims
    PROVE  LET x == Joined(y, c)
           IN  /\ x \in EntryType /\ x.state = "active"
               /\ x.generation = y.generation
               /\ x.halves = y.halves \cup {c} /\ x.permit = y.permit
BY DEF EntryType, Joined

\* submitExistingLocked completing a pair preserves the registry's invariant
\* and takes the entry out of the pending counts.
LEMMA JoinSound ==
    ASSUME NEW q, Sound(q), NEW e \in Pending(q), NEW c \in Claims,
           Unclaimed(q, c)
    PROVE  LET p == JoinPair(q, e, c)
           IN  /\ Sound(p) /\ Adds(p, q, c) /\ c \notin p.entries
               /\ Pending(p) = Pending(q) \ {e}
               /\ p.entries = q.entries
               /\ \A d \in Claims : d # e => p.entry[d].halves = q.entry[d].halves
               /\ p.entry[e].generation = q.entry[e].generation
<1> DEFINE q1 == FinishPending(q, {e})
           x == Joined(q1.entry[e], c)
           p == SetEntry(q1, e, x)
<1>0. /\ Core(q) /\ Fenced(q) /\ Counted(q, Pending(q)) /\ q \in RegistryType
      /\ e \in Claims /\ e \in q.entries /\ q.entries \subseteq Claims
      /\ c \notin q.entries
  BY RegistryFields DEF Sound, Core, Pending, Unclaimed
<1>1. JoinPair(q, e, c) = p
  BY DEF JoinPair, SetEntry
<1>2. /\ Core(q1) /\ Shrinks(q1, q) /\ Pending(q1) = Pending(q) /\ Fenced(q1)
      /\ Counted(q1, Pending(q) \ {e})
  BY <1>0, FinishPendingSound
<1>3. /\ q1.entries = q.entries
      /\ \A d \in Claims : q1.entry[d].halves = q.entry[d].halves
  <2>1. /\ q1.entries = q.entries
        /\ \A d \in Claims : d \notin {e} => q1.entry[d] = q.entry[d]
        /\ \A d \in {e} : q1.entry[d] = Finished(q.entry[d])
    <3>1. {e} \in SUBSET Claims
      BY <1>0
    <3> QED BY <1>0, <3>1, FinishPendingFields
  <2>2. Finished(q.entry[e]).halves = q.entry[e].halves
    BY <1>0, EntryFields, FinishedFields
  <2> QED BY <2>1, <2>2
<1> HIDE DEF q1
<1>4. q1 \in RegistryType /\ q1.entry[e] \in EntryType
  BY <1>0, <1>2, EntryFields DEF Core
<1>5. /\ x \in EntryType /\ x.state = "active"
      /\ x.generation = q1.entry[e].generation
      /\ x.halves = q1.entry[e].halves \cup {c}
      /\ x.permit = q1.entry[e].permit
  BY <1>4, JoinedFields
<1> HIDE DEF x
<1>6. /\ p \in RegistryType /\ p.entry[e] = x
      /\ \A d \in Claims : d # e => p.entry[d] = q1.entry[d]
      /\ p.entries = q1.entries
      /\ SameSessions(p, q1) /\ SameFlags(p, q1)
      /\ p.pending = q1.pending /\ p.idleTCP = q1.idleTCP
      /\ p.udpInUse = q1.udpInUse
  BY <1>0, <1>4, <1>5, SetEntryFields
<1> HIDE DEF p
<1>7. Core(p)
  <2>1. PermitsExact(p)
    BY <1>2, <1>4, <1>5, <1>6, SamePermits DEF Core, SameFlags
  <2> QED
    BY <1>2, <1>6, <2>1 DEF Core, UniqueKeys
<1>8. Pending(p) = Pending(q) \ {e}
  BY <1>0, <1>2, <1>3, <1>5, <1>6 DEF Pending, State
<1>9. Fenced(p)
  BY <1>0, <1>2, <1>3, <1>5, <1>6 DEF Fenced, SameSessions
<1>10. Counted(p, Pending(q) \ {e})
  BY <1>2, <1>6 DEF Counted
<1>11. /\ \A d \in Claims : d # e => p.entry[d].halves = q.entry[d].halves
       /\ p.entry[e].generation = q.entry[e].generation
       /\ p.entries = q.entries
  BY <1>0, <1>2, <1>3, <1>5, <1>6 DEF Shrinks
<1>12. Adds(p, q, c)
  <2>1. \A d \in Claims : q.entry[d].permit = "none" => p.entry[d].permit = "none"
    BY <1>2, <1>5, <1>6 DEF Shrinks
  <2>2. \A d \in p.entries : p.entry[d].generation = q.entry[d].generation
    BY <1>0, <1>2, <1>3, <1>5, <1>6 DEF Shrinks
  <2>3. \A d \in p.entries : p.entry[d].halves \subseteq q.entry[d].halves \cup {c}
    BY <1>0, <1>3, <1>5, <1>6
  <2> QED
    BY <1>0, <1>8, <1>11, <2>1, <2>2, <2>3 DEF Adds
<1> QED
  BY <1>0, <1>1, <1>7, <1>8, <1>9, <1>10, <1>11, <1>12 DEF Sound

\* The tombstone reject builds holds no half and no permit.
LEMMA TombstoneFields ==
    ASSUME NEW g \in Generations
    PROVE  /\ Tombstone(g) \in EntryType /\ Tombstone(g).state = "terminal"
           /\ Tombstone(g).generation = g /\ Tombstone(g).halves = {}
           /\ Tombstone(g).permit = "none"
<1>1. g \in 0 .. MaxGeneration
  BY MaxGenerationNat DEF Generations
<1> QED
  BY <1>1 DEF Tombstone, NewEntry, EntryType

\* reject of a flow without an entry preserves the registry's invariant and
\* adds at most a tombstone.
LEMMA RejectUnknownSound ==
    ASSUME NEW q, Sound(q), NEW c \in Claims, NEW g0 \in Generations,
           Unclaimed(q, c), EntryAt(q, c) = {}, g0 = q.generations[c.session]
    PROVE  LET p == AddTerminal(SetEntry(q, c, Tombstone(g0)), c)
           IN  /\ Sound(p) /\ Adds(p, q, c) /\ Pending(p) = Pending(q)
               /\ c \in p.entries => p.entry[c].halves = {}
               /\ \A d \in p.entries : d # c =>
                     p.entry[d].halves \subseteq q.entry[d].halves
<1> DEFINE x == Tombstone(g0)
           q1 == SetEntry(q, c, x)
           p == AddTerminal(q1, c)
<1>0. /\ Core(q) /\ Fenced(q) /\ Counted(q, Pending(q)) /\ q \in RegistryType
      /\ q.entries \subseteq Claims /\ c \notin q.entries
      /\ q.entry[c].permit = "none"
  BY RegistryFields DEF Sound, Core, Unclaimed
<1>1. /\ x \in EntryType /\ x.state = "terminal" /\ x.generation = g0
      /\ x.halves = {} /\ x.permit = "none"
  BY TombstoneFields
<1> HIDE DEF x
<1>2. /\ q1 \in RegistryType /\ q1.entry[c] = x
      /\ \A d \in Claims : d # c => q1.entry[d] = q.entry[d]
      /\ q1.entries = q.entries
      /\ SameSessions(q1, q) /\ SameFlags(q1, q)
      /\ q1.pending = q.pending /\ q1.idleTCP = q.idleTCP
      /\ q1.udpInUse = q.udpInUse
  BY <1>0, <1>1, SetEntryFields
<1> HIDE DEF q1
<1>3. Core(q1)
  <2>1. PermitsExact(q1)
    BY <1>0, <1>1, <1>2, SamePermits DEF Core, SameFlags
  <2> QED
    BY <1>0, <1>2, <2>1 DEF Core, UniqueKeys
<1>4. Pending(q1) = Pending(q)
  BY <1>0, <1>2 DEF Pending, State
<1>5. Fenced(q1)
  BY <1>0, <1>2 DEF Fenced, SameSessions
<1>6. Counted(q1, Pending(q1))
  BY <1>0, <1>2, <1>4 DEF Counted, Pending
<1>7. /\ State(q1, c) = "terminal" /\ EntryAt(q1, c) = {}
      /\ q1.entry[c].generation \in Generations
      /\ q1.entry[c].generation = q1.generations[c.session]
  BY <1>1, <1>2 DEF State, EntryAt, SameSessions
<1>8. /\ Core(p) /\ Pending(p) = Pending(q1) /\ Fenced(p)
      /\ Counted(p, Pending(q1))
      /\ p.entries \subseteq q1.entries \cup {c}
      /\ \A y \in p.entries : /\ p.entry[y].halves \subseteq q1.entry[y].halves
                              /\ p.entry[y].generation = q1.entry[y].generation
      /\ \A y \in Claims : q1.entry[y].permit = "none" =>
            p.entry[y].permit = "none"
  BY <1>3, <1>5, <1>6, <1>7, AddTerminalSound
<1> HIDE DEF p
<1>9. Adds(p, q, c)
  BY <1>0, <1>1, <1>2, <1>4, <1>8 DEF Adds
<1>10. c \in p.entries => p.entry[c].halves = {}
  BY <1>1, <1>2, <1>8
<1>11. \A d \in p.entries : d # c => p.entry[d].halves \subseteq q.entry[d].halves
  BY <1>0, <1>2, <1>8
<1> QED
  BY <1>4, <1>8, <1>9, <1>10, <1>11 DEF Sound, p, q1, x

\* Marking a tombstone's result as given changes nothing else.
LEMMA ConsumedFields ==
    ASSUME NEW x \in EntryType, NEW b \in BOOLEAN
    PROVE  LET y == Consumed(x, b)
           IN  /\ y \in EntryType /\ y.state = x.state
               /\ y.generation = x.generation /\ y.halves = x.halves
               /\ y.permit = x.permit /\ y.pendingTCP = x.pendingTCP
<1> DEFINE tc == x.terminalConsumed \/ b
<1>1. tc \in BOOLEAN
  OBVIOUS
<1>2. Consumed(x, b) = [x EXCEPT !.terminalConsumed = tc]
  BY DEF Consumed, EntryType
<1> HIDE DEF tc
<1> QED
  BY <1>1, <1>2 DEF EntryType

\* submitExistingLocked marking one tombstone preserves the registry's
\* invariant.
LEMMA ConsumeOne ==
    ASSUME NEW q, Sound(q), NEW e \in Claims, NEW b \in BOOLEAN
    PROVE  LET p == [q EXCEPT !.entry[e] = Consumed(@, b)]
           IN  Sound(p) /\ Shrinks(p, q)
<1> DEFINE x == Consumed(q.entry[e], b)
           p == SetEntry(q, e, x)
<1>1. Core(q) /\ Fenced(q) /\ Counted(q, Pending(q)) /\ q \in RegistryType
  BY DEF Sound, Core
<1>2. [q EXCEPT !.entry[e] = Consumed(@, b)] = p
  BY DEF SetEntry
<1>3. /\ x \in EntryType /\ x.state = q.entry[e].state
      /\ x.generation = q.entry[e].generation /\ x.halves = q.entry[e].halves
      /\ x.permit = q.entry[e].permit /\ x.pendingTCP = q.entry[e].pendingTCP
  BY <1>1, EntryFields, ConsumedFields
<1> HIDE DEF x
<1>4. /\ p \in RegistryType /\ p.entry[e] = x
      /\ \A d \in Claims : d # e => p.entry[d] = q.entry[d]
      /\ p.entries = q.entries
      /\ SameSessions(p, q) /\ SameFlags(p, q)
      /\ p.pending = q.pending /\ p.idleTCP = q.idleTCP
      /\ p.udpInUse = q.udpInUse
  BY <1>1, <1>3, SetEntryFields
<1> HIDE DEF p
<1>5. Alike(p, q)
  BY <1>3, <1>4 DEF Alike, SameSessions, SameFlags
<1> QED
  BY <1>1, <1>2, <1>4, <1>5, AlikeSound DEF Sound

\* RejectClaim marking the tombstone it finds preserves the registry's
\* invariant.
LEMMA ConsumeMany ==
    ASSUME NEW q, Sound(q), NEW X
    PROVE  LET p == [q EXCEPT !.entry = [e \in Claims |->
                                           Consumed(q.entry[e], e \in X)]]
           IN  Sound(p) /\ Shrinks(p, q)
<1> DEFINE ent == [e \in Claims |-> Consumed(q.entry[e], e \in X)]
           p == [q EXCEPT !.entry = ent]
<1>1. Core(q) /\ Fenced(q) /\ Counted(q, Pending(q)) /\ q \in RegistryType
  BY DEF Sound, Core
<1>2. ASSUME NEW e \in Claims
      PROVE  LET x == Consumed(q.entry[e], e \in X)
             IN  /\ x \in EntryType /\ x.state = q.entry[e].state
                 /\ x.generation = q.entry[e].generation
                 /\ x.halves = q.entry[e].halves
                 /\ x.permit = q.entry[e].permit
                 /\ x.pendingTCP = q.entry[e].pendingTCP
  <2>1. q.entry[e] \in EntryType
    BY <1>1, EntryFields
  <2>2. (e \in X) \in BOOLEAN
    OBVIOUS
  <2>3. PICK b \in BOOLEAN : b = (e \in X)
    BY <2>2
  <2> QED BY <2>1, <2>3, ConsumedFields
<1>3. /\ ent \in [Claims -> EntryType]
      /\ \A e \in Claims : /\ ent[e].state = q.entry[e].state
                           /\ ent[e].generation = q.entry[e].generation
                           /\ ent[e].halves = q.entry[e].halves
                           /\ ent[e].permit = q.entry[e].permit
                           /\ ent[e].pendingTCP = q.entry[e].pendingTCP
  BY <1>2
<1> HIDE DEF ent
<1>4. p \in RegistryType /\ Alike(p, q)
  BY <1>1, <1>3 DEF RegistryType, Alike
<1> HIDE DEF p
<1> QED
  BY <1>1, <1>4, AlikeSound DEF Sound, p, ent
=============================================================================
