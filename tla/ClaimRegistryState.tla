------------------------ MODULE ClaimRegistryState ------------------------
(***************************************************************************)
(* The state claimRegistry.mu protects (src/nw2/server/claim_registry.go),  *)
(* as a value: flow claims, the registry record, and one operator for each  *)
(* "...Locked" method or critical section that maps a registry to the next. *)
(***************************************************************************)
EXTENDS Integers, FiniteSets

CONSTANTS
    Sessions,               \* session identifiers
    Flows,                  \* flow identifiers
    Claims,                 \* the flow halves that may arrive, each at most once
    NoClaim,                \* a value that is not a claim
    MaxGeneration,          \* bound on session generations (uint64 in the code)
    PendingFlowsPerSession, \* limits.PendingFlowsPerSession, also terminalLimit
    UDPFlowsPerSession,     \* limits.UDPFlowsPerSession
    TCPIdleConnections,     \* limits.AuthenticatedTCPIdleConnections
    PortalClaims            \* DefaultPortalClaims

Roles == {"open", "attach", "duplex"}
Carriers == {"tls", "quic"}
Generations == 1 .. MaxGeneration

\* flowClaim: "physical" is the carrier the half arrived on, "hops" stands for
\* the rest of the metadata the two halves of a flow must agree on.
ClaimType ==
    [id : Nat, session : Sessions, flow : Flows, role : Roles,
     kind : {"tcp", "udp"}, uplink : Carriers, downlink : Carriers,
     hops : Nat, physical : Carriers]

ASSUME ConstantsAssumption ==
    /\ Claims \subseteq ClaimType
    /\ IsFiniteSet(Claims)
    /\ NoClaim \notin Claims
    /\ MaxGeneration \in Nat
    /\ PendingFlowsPerSession \in Nat \ {0}
    /\ UDPFlowsPerSession \in Nat \ {0}
    /\ TCPIdleConnections \in Nat \ {0}
    /\ PortalClaims \in Nat \ {0}

----------------------------------------------------------------------------
(* What a claim says about itself.                                          *)

SameKey(c, d) == c.session = d.session /\ c.flow = d.flow

\* claimMetadata.equal
SameMetadata(c, d) ==
    /\ c.kind = d.kind
    /\ c.uplink = d.uplink
    /\ c.downlink = d.downlink
    /\ c.hops = d.hops

\* A half that came in on a QUIC stream is bound to its connection's
\* generation; one on a TLS connection carries a generation it looked up.
Bound(c) == c.physical = "quic"

\* flowClaim.Carrier, as handleFlowGeneration and rejectFlowSetup fill it in
Carrier(c) == IF c.role = "open" THEN c.uplink ELSE c.downlink

\* flowClaim.selected: the half whose connection carries the setup result
Selected(c) == Carrier(c) = c.downlink

\* validateFlowTransport
FlowTransportValid(c) ==
    CASE c.role = "open"   -> c.uplink = c.physical
      [] c.role = "attach" -> c.downlink = c.physical
      [] c.role = "duplex" -> c.uplink = c.physical /\ c.downlink = c.physical

\* validateClaim, for a claim that passed validateFlowTransport
ValidClaim(c) == (c.role = "duplex") <=> (c.uplink = c.downlink)

----------------------------------------------------------------------------
(* Registry values.  An entry is identified by the claim that created it,   *)
(* so that "r.entries[entry.key] == entry" is membership in r.entries.      *)

\* claimEntry: halves are its open/attach/duplex, permit its udpPermit
\* ("loose" once taken out of the entry, until Release has run), expires says
\* that expiredAt is set.  An entry outside the map keeps only its permit.
EntryType ==
    [state : {"none", "pending", "active", "terminal"},
     generation : 0 .. MaxGeneration,
     halves : SUBSET Claims,
     pendingTCP : BOOLEAN,
     terminalConsumed : BOOLEAN,
     expires : BOOLEAN,
     permit : {"none", "held", "loose"}]

NewEntry ==
    [state |-> "none", generation |-> 0, halves |-> {}, pendingTCP |-> FALSE,
     terminalConsumed |-> FALSE, expires |-> FALSE, permit |-> "none"]

\* claimRegistry.  terminalOrder[e] is e's place in the slice, 0 outside it.
RegistryType ==
    [entry : [Claims -> EntryType],
     entries : SUBSET Claims,
     terminalOrder : [Claims -> Nat],
     generations : [Sessions -> 0 .. MaxGeneration],
     registered : [Sessions -> [Generations -> Nat]],
     provenance : [Sessions ->
                     [Generations -> {"none", "provisional", "physical"}]],
     pending : [Sessions -> Nat],
     udpInUse : [Sessions -> [Generations -> Nat]],
     nextGeneration : 0 .. MaxGeneration,
     idleTCP : Nat,
     accepting : BOOLEAN,
     closed : BOOLEAN]

NewRegistry ==
    [entry |-> [e \in Claims |-> NewEntry],
     entries |-> {},
     terminalOrder |-> [e \in Claims |-> 0],
     generations |-> [s \in Sessions |-> 0],
     registered |-> [s \in Sessions |-> [g \in Generations |-> 0]],
     provenance |-> [s \in Sessions |-> [g \in Generations |-> "none"]],
     pending |-> [s \in Sessions |-> 0],
     udpInUse |-> [s \in Sessions |-> [g \in Generations |-> 0]],
     nextGeneration |-> 0,
     idleTCP |-> 0,
     accepting |-> TRUE,
     closed |-> FALSE]

\* Slip: the counters wrap below zero
MinusUnclamped(a, b) == a - b

\* The decrements of the registry's counters, which stop at zero
Minus(a, b) == IF a > b THEN a - b ELSE 0

State(q, e) == q.entry[e].state
Pending(q) == {e \in q.entries : State(q, e) = "pending"}
Active(q) == {e \in q.entries : State(q, e) = "active"}
Terminal(q) == {e \in q.entries : State(q, e) = "terminal"}
EntriesOf(q, s) == {e \in q.entries : e.session = s}
SessionsOf(X) == {e.session : e \in X}

\* r.entries[key] for the key of claim c
EntryAt(q, c) == {e \in q.entries : SameKey(e, c)}

\* The permits that udpInUse accounts for
PermitsInUse(q, s, g) ==
    {e \in Claims : /\ e.session = s
                    /\ q.entry[e].generation = g
                    /\ q.entry[e].permit \in {"held", "loose"}}

\* permit := entry.permit; entry.permit = nil
Loosen(permit) == IF permit = "held" THEN "loose" ELSE permit

\* What is left of an entry outside the map whose permit is not released yet
Husk(g) == [NewEntry EXCEPT !.generation = g, !.permit = "loose"]

\* delete(r.entries, entry.key) for every entry in X, whose permits are now in
\* the hands of the caller; nobody looks at the rest of them again
Forget(q, X) ==
    [q EXCEPT
        !.entries = @ \ X,
        !.entry = [e \in Claims |->
            IF e \notin X THEN q.entry[e]
            ELSE IF q.entry[e].permit = "none" THEN NewEntry
            ELSE Husk(q.entry[e].generation)]]

\* hasGenerationStateLocked
HasGenerationState(q, s, g) ==
    \/ \E e \in q.entries : e.session = s /\ q.entry[e].generation = g
    \/ q.registered[s][g] > 0
    \/ q.udpInUse[s][g] > 0

\* maybeCleanupGenerationLocked, for every session in S
MaybeCleanupGeneration(q, S) ==
    [q EXCEPT
        !.provenance = [s \in Sessions |-> [g \in Generations |->
            IF s \in S /\ ~HasGenerationState(q, s, g)
            THEN "none" ELSE q.provenance[s][g]]],
        !.generations = [s \in Sessions |->
            IF /\ s \in S
               /\ q.generations[s] # 0
               /\ ~HasGenerationState(q, s, q.generations[s])
            THEN 0 ELSE q.generations[s]]]

\* Slip: finishPendingLocked forgets the idle TCP budget
FinishPendingKeepsIdle(q, S) ==
    [q EXCEPT
        !.pending = [s \in Sessions |->
            Minus(q.pending[s], Cardinality({e \in S : e.session = s}))],
        !.entry = [e \in Claims |->
            IF e \in S THEN [q.entry[e] EXCEPT !.pendingTCP = FALSE]
            ELSE q.entry[e]]]

\* finishPendingLocked, for every entry in S
FinishPending(q, S) ==
    [q EXCEPT
        !.pending = [s \in Sessions |->
            Minus(q.pending[s], Cardinality({e \in S : e.session = s}))],
        !.idleTCP = Minus(@, Cardinality({e \in S : q.entry[e].pendingTCP})),
        !.entry = [e \in Claims |->
            IF e \in S THEN [q.entry[e] EXCEPT !.pendingTCP = FALSE]
            ELSE q.entry[e]]]

\* Slip: the oldest tombstone falls out of terminalOrder
CompactedFromZero(order, X) ==
    [x \in Claims |->
        IF x \in X THEN Cardinality({y \in X : order[y] < order[x]}) ELSE 0]

\* The tombstones among the elements of terminalOrder, and the slice
\* compacted to the elements of a set
Ordered(q) == {x \in Terminal(q) : q.terminalOrder[x] > 0}
Compacted(order, X) ==
    [x \in Claims |->
        IF x \in X THEN Cardinality({y \in X : order[y] <= order[x]}) ELSE 0]

\* addTerminalLocked: entry e becomes the youngest tombstone, the ones beyond
\* terminalLimit are forgotten, oldest first
AddTerminal(q, e) ==
    LET kept == Ordered(q)
        order == [Compacted(q.terminalOrder, kept) EXCEPT
                     ![e] = Cardinality(kept) + 1]
        evicted == {x \in kept :
                      order[x] + PendingFlowsPerSession <= order[e]}
        stored == {x \in q.entries : ~SameKey(x, e)} \cup {e}
    IN  MaybeCleanupGeneration(
            Forget([q EXCEPT
                       !.entries = stored,
                       !.terminalOrder =
                           Compacted(order, (kept \cup {e}) \ evicted)],
                   evicted \cap stored),
            SessionsOf(evicted \cap stored))

\* expireTerminalsLocked: expiry times grow along the slice, so those that
\* have passed are the ones of the elements up to some place
ExpireTerminals(q, upTo) ==
    LET expired == {x \in Ordered(q) : /\ q.entry[x].expires
                                       /\ q.terminalOrder[x] <= upTo}
    IN  MaybeCleanupGeneration(
            Forget([q EXCEPT !.terminalOrder =
                       Compacted(q.terminalOrder, Ordered(q) \ expired)],
                   expired),
            SessionsOf(expired))

\* failPendingLocked: what becomes of the entry
Failed(x, answered) ==
    [x EXCEPT !.state = "terminal",
              !.terminalConsumed = @ \/ answered,
              !.halves = {},
              !.expires = TRUE,
              !.permit = Loosen(@)]

\* failPendingLocked(entry, cause, true)
FailPending(q, e) ==
    AddTerminal(
        [FinishPending(q, {e}) EXCEPT !.entry[e] =
            Failed(@, \E h \in q.entry[e].halves : Selected(h))],
        e)

\* The tombstone of a flow that reject turns down before it has an entry
Tombstone(g) == [NewEntry EXCEPT !.state = "terminal", !.generation = g]

\* A tombstone's result has been given to somebody
Consumed(x, b) == [x EXCEPT !.terminalConsumed = @ \/ b]

\* Slip: a replacement leaves the tombstones of older generations in place
DetachedLive(q, s, g) ==
    {e \in EntriesOf(q, s) : q.entry[e].generation # g /\ State(q, e) # "terminal"}

\* The entries detachSessionLocked takes out of the registry
Detached(q, s, g) == {e \in EntriesOf(q, s) : q.entry[e].generation # g}

\* detachSessionLocked, which fails pending entries with keepTerminal false
DetachSession(q, s, g) ==
    LET gone == Detached(q, s, g)
    IN  MaybeCleanupGeneration(
            Forget(FinishPending(q, gone \cap Pending(q)), gone), {s})

\* hasLiveProvisionalLocked
HasLiveProvisional(q, s, g) ==
    \/ \E e \in EntriesOf(q, s) :
          q.entry[e].generation = g /\ State(q, e) # "terminal"
    \/ q.udpInUse[s][g] > 0

\* The generation beginSessionRegistration gives to a connection
RegistrationGeneration(q, s, replacing) ==
    LET current == q.generations[s]
    IN  IF /\ ~replacing
           /\ current # 0
           /\ q.provenance[s][current] = "provisional"
           /\ \A g \in Generations : q.registered[s][g] = 0
           /\ HasLiveProvisional(q, s, current)
        THEN current ELSE q.nextGeneration + 1

\* The critical section of beginSessionRegistration
RegisterSession(q, s, g) ==
    DetachSession(
        [q EXCEPT !.nextGeneration = IF g > @ THEN g ELSE @,
                  !.generations[s] = g,
                  !.provenance[s][g] = "physical",
                  !.registered[s][g] = @ + 1],
        s, g)

\* unregisterSessionGeneration
UnregisterSession(q, s, g) ==
    MaybeCleanupGeneration([q EXCEPT !.registered[s][g] = Minus(@, 1)], {s})

\* Submit and reject: an unbound claim (re)opens a session that has no current
\* generation, under the generation it looked up or under a new one
ProvisionGeneration(q, c, known) ==
    LET g == IF known = 0 THEN q.nextGeneration + 1 ELSE known
    IN  IF q.generations[c.session] = 0 /\ ~Bound(c)
        THEN [q EXCEPT !.generations[c.session] = g,
                       !.provenance[c.session][g] = "provisional",
                       !.nextGeneration = IF g > @ THEN g ELSE @]
        ELSE q

\* The bound on generations leaves room for the one c may need
CanProvision(q, c, known) ==
    ( /\ q.generations[c.session] = 0
      /\ ~Bound(c)
      /\ known = 0 ) => q.nextGeneration < MaxGeneration

ClaimGeneration(q, c, known) ==
    IF known = 0 THEN q.generations[c.session] ELSE known

StaleClaim(q, c, known) ==
    LET current == q.generations[c.session]
        g == ClaimGeneration(q, c, known)
    IN  \/ current = 0
        \/ g # current
        \/ Bound(c) /\ q.registered[c.session][g] = 0

\* reject also turns a claim away when its entry is of another generation
RejectStale(q, c, known) ==
    \/ StaleClaim(q, c, known)
    \/ \E e \in EntryAt(q, c) :
          q.entry[e].generation # ClaimGeneration(q, c, known)

\* Submit's admission test: every pending and active flow of the session counts
OverClaimLimit(q, s) ==
    \/ Cardinality({e \in EntriesOf(q, s) : State(q, e) \in {"pending", "active"}})
         >= PendingFlowsPerSession
    \/ Cardinality(q.entries) >= PortalClaims


\* acquireUDPPermitLocked
OverUDPLimit(q, c, g) ==
    c.kind = "udp" /\ q.udpInUse[c.session][g] >= UDPFlowsPerSession

OverPendingLimit(q, c) ==
    \/ q.pending[c.session] >= PendingFlowsPerSession
    \/ Carrier(c) = "tls" /\ q.idleTCP >= TCPIdleConnections

\* The entry Submit builds for the first half of a flow
FirstEntry(c, g) ==
    [NewEntry EXCEPT !.generation = g,
                     !.halves = {c},
                     !.permit = IF c.kind = "udp" THEN "held" ELSE "none"]

\* acquireUDPPermitLocked and the entry Submit builds around the permit
AcquireEntry(q, c, g) ==
    [q EXCEPT
        !.udpInUse[c.session][g] = IF c.kind = "udp" THEN @ + 1 ELSE @,
        !.entry[c] = FirstEntry(c, g)]

\* Submit stores a DUPLEX claim, active at once
StoreDuplex(q, c) ==
    [q EXCEPT !.entries = @ \cup {c}, !.entry[c].state = "active"]

\* Submit stores the first half of a pair
StorePending(q, c) ==
    LET tcp == Carrier(c) = "tls"
    IN  [q EXCEPT !.entries = @ \cup {c},
                  !.entry[c] = [@ EXCEPT !.state = "pending", !.pendingTCP = tcp],
                  !.pending[c.session] = @ + 1,
                  !.idleTCP = IF tcp THEN @ + 1 ELSE @]

\* Submit gives the entry up again
AbandonEntry(q, c) == MaybeCleanupGeneration(Forget(q, {c}), {c.session})


\* submitExistingLocked: c cannot be the other half of the pending entry e
ConflictsWith(q, e, c, g) ==
    \/ q.entry[e].generation # g
    \/ ~SameMetadata(e, c)
    \/ c.role = "duplex"
    \/ \E h \in q.entry[e].halves : h.role = c.role

\* submitExistingLocked completes the pair
Joined(x, c) == [x EXCEPT !.state = "active", !.halves = @ \cup {c}]
JoinPair(q, e, c) == [FinishPending(q, {e}) EXCEPT !.entry[e] = Joined(@, c)]

\* releaseActive
ReleaseActive(q, e) == MaybeCleanupGeneration(Forget(q, {e}), {e.session})

\* Slip: the last permit of a generation does not clean the generation up
ReleaseUDPPermitOnly(q, e) ==
    [q EXCEPT !.udpInUse[e.session][q.entry[e].generation] = Minus(@, 1),
              !.entry[e] = IF e \in q.entries
                           THEN [@ EXCEPT !.permit = "none"] ELSE NewEntry]

\* udpPermit.Release
ReleaseUDPPermit(q, e) ==
    MaybeCleanupGeneration(
        [q EXCEPT !.udpInUse[e.session][q.entry[e].generation] = Minus(@, 1),
                  !.entry[e] = IF e \in q.entries
                               THEN [@ EXCEPT !.permit = "none"] ELSE NewEntry],
        {e.session})

\* Slip: draining drops pending entries without finishPendingLocked
DrainRegistryUncounted(q, cleaned) ==
    MaybeCleanupGeneration(
        [Forget(q, Pending(q) \cup Terminal(q)) EXCEPT
            !.accepting = FALSE,
            !.terminalOrder = [e \in Claims |-> 0]],
        cleaned)

\* The critical section of BeginDrainContext.  It cleans the generation of a
\* session up when it drops a pending entry, which the map's iteration order
\* may place before or after the removal of the session's tombstones: cleaned
\* holds the sessions for which the last such cleanup found none left.
DrainRegistry(q, cleaned) ==
    MaybeCleanupGeneration(
        [Forget(FinishPending(q, Pending(q)), Pending(q) \cup Terminal(q)) EXCEPT
            !.accepting = FALSE,
            !.terminalOrder = [e \in Claims |-> 0]],
        cleaned)

\* Slip: closing empties the map but leaves the permits in the entries
CloseRegistryKeepsPermits(q) ==
    [NewRegistry EXCEPT !.accepting = FALSE,
                        !.closed = TRUE,
                        !.entry = q.entry]

\* The critical section of CloseContextCause
CloseRegistry(q) ==
    [NewRegistry EXCEPT !.accepting = FALSE,
                        !.closed = TRUE,
                        !.entry = Forget(q, q.entries).entry]
=============================================================================
