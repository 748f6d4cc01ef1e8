--------------------------- MODULE ClaimRegistry ---------------------------
(***************************************************************************)
(* The nw2 portal's claim registry (src/nw2/server/claim_registry.go): it   *)
(* admits the halves of a flow (OPEN, ATTACH or a whole DUPLEX), pairs them *)
(* by (session, flow), fences them by session generation, accounts for the  *)
(* per-session and per-portal limits, and remembers failed flows as         *)
(* tombstones.                                                              *)
(*                                                                          *)
(* Each action is one critical section of the registry.  What a method does *)
(* after it unlocks to connections that other goroutines can reach (writing *)
(* a setup result, closing halves, releasing a UDP permit) is left behind   *)
(* in `work`, or as a "loose" permit, and done by a later step of its own.  *)
(***************************************************************************)
EXTENDS ClaimRegistryState

VARIABLES
    r,        \* the claimRegistry
    half,     \* half[c]: where claim c and its connection are, and the
              \*   generation its handler found for the session
    blocker,  \* blocker[c]: the entry that RejectClaim for c is failing
    result,   \* result[c]: the setup result written on c's connection
    flow,     \* flow[e]: the claimedFlow of entry e until it is released
    work      \* work[e]: what is still to be done, unlocked, to e's halves

vars == <<r, half, blocker, result, flow, work>>

HalfType ==
    [at : {"idle", "arrived", "rejecting", "held", "closed"},
     known : 0 .. MaxGeneration]

\* Which of its codes a rejection carries is left out
Results == {"none", "READY", "REJECTED"}

FlowType ==
    [readiness : {"none", "unresolved", "ready", "rejected"},
     halves : SUBSET Claims]

\* "settle": write a rejection where none is written, resolve the readiness,
\* close the halves; "commit": CloseContextCause writes the rejection first
WorkType ==
    [todo : {"none", "commit", "settle"}, halves : SUBSET Claims,
     closing : BOOLEAN]

IdleHalf == [at |-> "idle", known |-> 0]
ClosedHalf == [at |-> "closed", known |-> 0]
NoFlow == [readiness |-> "none", halves |-> {}]
NewFlow(H) == [readiness |-> "unresolved", halves |-> H]
NoWork == [todo |-> "none", halves |-> {}, closing |-> FALSE]

TypeOK ==
    /\ r \in RegistryType
    /\ half \in [Claims -> HalfType]
    /\ blocker \in [Claims -> Claims \cup {NoClaim}]
    /\ result \in [Claims -> Results]
    /\ flow \in [Claims -> FlowType]
    /\ work \in [Claims -> WorkType]

Init ==
    /\ r = NewRegistry
    /\ half = [c \in Claims |-> IdleHalf]
    /\ blocker = [c \in Claims |-> NoClaim]
    /\ result = [c \in Claims |-> "none"]
    /\ flow = [e \in Claims |-> NoFlow]
    /\ work = [e \in Claims |-> NoWork]

----------------------------------------------------------------------------
(* Connections of halves.                                                   *)

\* setupResult.commit on the selected connections of the halves H: a result
\* is written once, and on an open connection only
WriteResult(H, value) ==
    [c \in Claims |->
        IF /\ c \in H /\ Selected(c)
           /\ result[c] = "none" /\ half[c].at # "closed"
        THEN value ELSE result[c]]

CloseHalves(H) == [c \in Claims |-> IF c \in H THEN ClosedHalf ELSE half[c]]

Hold(c) == [half EXCEPT ![c].at = "held"]

\* A claim is turned away: its result is written, its connection closed
Refuse(c) ==
    /\ half' = CloseHalves({c})
    /\ result' = WriteResult({c}, "REJECTED")

Settle(q, e) ==
    [todo |-> "settle", halves |-> q.entry[e].halves, closing |-> FALSE]

\* handleStream and handleFlow: a half has been read and its handler knows a
\* generation
Arrive(c, g) ==
    /\ half[c].at = "idle"
    /\ half' = [half EXCEPT ![c] = [at |-> "arrived", known |-> g]]
    /\ UNCHANGED <<r, blocker, result, flow, work>>

\* The generations a handler may know: the one its QUIC connection was given
\* when it registered, or the one CurrentGeneration returns.  Which one it is
\* no longer matters once the registry is closed.
KnownGenerations(c) ==
    IF Bound(c) /\ ~r.closed THEN 1 .. r.nextGeneration
    ELSE {r.generations[c.session]}

----------------------------------------------------------------------------
(* Submit, by outcome.  q is the registry after the steps of Submit that    *)
(* come before the outcome, g the generation of the claim.                  *)

SubmitInvalid(c) ==
    /\ ~ValidClaim(c)
    /\ Refuse(c)
    /\ UNCHANGED <<r, flow, work>>

SubmitDraining(c) ==
    /\ ValidClaim(c)
    /\ ~r.accepting
    /\ Refuse(c)
    /\ UNCHANGED <<r, flow, work>>

SubmitOverClaimLimit(c, q) ==
    /\ OverClaimLimit(q, c.session)
    /\ r' = q
    /\ Refuse(c)
    /\ UNCHANGED <<flow, work>>

SubmitStale(c, q) ==
    /\ StaleClaim(q, c, half[c].known)
    /\ r' = q
    /\ Refuse(c)
    /\ UNCHANGED <<flow, work>>

SubmitToTerminal(c, q, e) ==
    /\ State(q, e) = "terminal"
    /\ r' = [q EXCEPT !.entry[e] = Consumed(@, Selected(c))]
    /\ half' = CloseHalves({c})
    /\ result' = IF q.entry[e].terminalConsumed THEN result
                 ELSE WriteResult({c}, "REJECTED")
    /\ UNCHANGED <<flow, work>>

SubmitToActive(c, q, e) ==
    /\ State(q, e) = "active"
    /\ r' = q
    /\ Refuse(c)
    /\ UNCHANGED <<flow, work>>

SubmitConflict(c, q, e, g) ==
    LET answered == \E h \in q.entry[e].halves : Selected(h)
    IN  /\ State(q, e) = "pending"
        /\ ConflictsWith(q, e, c, g)
        /\ r' = [FailPending(q, e) EXCEPT !.entry[e] = Consumed(@, Selected(c))]
        /\ half' = CloseHalves({c})
        /\ result' = IF answered THEN result ELSE WriteResult({c}, "REJECTED")
        /\ work' = [work EXCEPT ![e] = Settle(q, e)]
        /\ UNCHANGED flow

SubmitJoin(c, q, e, g) ==
    /\ State(q, e) = "pending"
    /\ ~ConflictsWith(q, e, c, g)
    /\ r' = JoinPair(q, e, c)
    /\ half' = Hold(c)
    /\ flow' = [flow EXCEPT ![e] = NewFlow(q.entry[e].halves \cup {c})]
    /\ UNCHANGED <<result, work>>

SubmitOverUDPLimit(c, q, g) ==
    /\ OverUDPLimit(q, c, g)
    /\ r' = q
    /\ Refuse(c)
    /\ UNCHANGED <<flow, work>>

SubmitDuplex(c, q, g) ==
    /\ ~OverUDPLimit(q, c, g)
    /\ c.role = "duplex"
    /\ r' = StoreDuplex(AcquireEntry(q, c, g), c)
    /\ half' = Hold(c)
    /\ flow' = [flow EXCEPT ![c] = NewFlow({c})]
    /\ UNCHANGED <<result, work>>

SubmitOverPendingLimit(c, q, g) ==
    /\ ~OverUDPLimit(q, c, g)
    /\ c.role # "duplex"
    /\ OverPendingLimit(q, c)
    /\ r' = AbandonEntry(AcquireEntry(q, c, g), c)
    /\ Refuse(c)
    /\ UNCHANGED <<flow, work>>

SubmitPending(c, q, g) ==
    /\ ~OverUDPLimit(q, c, g)
    /\ c.role # "duplex"
    /\ ~OverPendingLimit(q, c)
    /\ r' = StorePending(AcquireEntry(q, c, g), c)
    /\ half' = Hold(c)
    /\ UNCHANGED <<result, flow, work>>

SubmitCurrent(c, q) ==
    LET g == ClaimGeneration(q, c, half[c].known)
    IN  /\ ~StaleClaim(q, c, half[c].known)
        /\ \/ \E e \in EntryAt(q, c) :
                 \/ SubmitToTerminal(c, q, e)
                 \/ SubmitToActive(c, q, e)
                 \/ SubmitConflict(c, q, e, g)
                 \/ SubmitJoin(c, q, e, g)
           \/ /\ EntryAt(q, c) = {}
              /\ \/ SubmitOverUDPLimit(c, q, g)
                 \/ SubmitDuplex(c, q, g)
                 \/ SubmitOverPendingLimit(c, q, g)
                 \/ SubmitPending(c, q, g)

SubmitAdmitted(c, q) ==
    /\ ~OverClaimLimit(q, c.session)
    /\ CanProvision(q, c, half[c].known)
    /\ LET p == ProvisionGeneration(q, c, half[c].known)
       IN  SubmitStale(c, p) \/ SubmitCurrent(c, p)

Submit(c) ==
    /\ half[c].at = "arrived"
    /\ FlowTransportValid(c)
    /\ \/ SubmitInvalid(c)
       \/ SubmitDraining(c)
       \/ /\ ValidClaim(c)
          /\ r.accepting
          /\ \E upTo \in 0 .. Cardinality(Claims) :
                LET q == ExpireTerminals(r, upTo)
                IN  SubmitOverClaimLimit(c, q) \/ SubmitAdmitted(c, q)
    /\ UNCHANGED blocker

----------------------------------------------------------------------------
(* The ways a pending or active entry ends.                                 *)

\* Slip: an entry fails and nobody settles its halves
FailAloneForgetsHalves(e) ==
    /\ e \in Pending(r)
    /\ r' = FailPending(r, e)
    /\ UNCHANGED <<half, blocker, result, flow, work>>

\* A pending entry fails on its own account
FailAlone(e) ==
    /\ e \in Pending(r)
    /\ r' = FailPending(r, e)
    /\ work' = [work EXCEPT ![e] = Settle(r, e)]
    /\ UNCHANGED <<half, blocker, result, flow>>

\* Slip: only an OPEN half arms the pair timer
TimeoutOfOpen(e) == e.role = "open" /\ FailAlone(e)

\* timeout: the pair timer of entry e
Timeout(e) == FailAlone(e)

\* waitPending: the context of the first half's handler is cancelled
CancelPending(e) == FailAlone(e)

\* RejectClaim when reject does not accept the claim's generation
RejectRefused(c) ==
    /\ \/ r.closed /\ r' = r
       \/ /\ ~r.closed
          /\ CanProvision(r, c, half[c].known)
          /\ LET q == ProvisionGeneration(r, c, half[c].known)
             IN  RejectStale(q, c, half[c].known) /\ r' = q
    /\ Refuse(c)
    /\ UNCHANGED <<blocker, work>>

RejectUnknown(c, q, g) ==
    /\ EntryAt(q, c) = {}
    /\ r' = AddTerminal([q EXCEPT !.entry[c] = Tombstone(g)], c)
    /\ UNCHANGED <<blocker, work>>

RejectTerminal(c, q, e) ==
    /\ State(q, e) = "terminal"
    /\ r' = q
    /\ UNCHANGED <<blocker, work>>

RejectPending(c, q, e) ==
    /\ State(q, e) = "pending"
    /\ r' = FailPending(q, e)
    /\ work' = [work EXCEPT ![e] = Settle(q, e)]
    /\ blocker' = [blocker EXCEPT ![c] = e]

RejectActive(c, q, e) ==
    /\ State(q, e) = "active"
    /\ r' = ReleaseActive(q, e)
    /\ work' = [work EXCEPT ![e] = Settle(q, e)]
    /\ blocker' = [blocker EXCEPT ![c] = e]

\* Slip: reject does not look at closed
RejectAcceptedClosed(c) ==
    /\ CanProvision(r, c, half[c].known)
    /\ LET q == ProvisionGeneration(r, c, half[c].known)
           g == ClaimGeneration(q, c, half[c].known)
       IN  ~RejectStale(q, c, half[c].known) /\ RejectUnknown(c, q, g)
    /\ half' = [half EXCEPT ![c] = [at |-> "rejecting", known |-> 0]]
    /\ result' = result

\* RejectClaim up to the return of reject
RejectAccepted(c) ==
    /\ ~r.closed
    /\ CanProvision(r, c, half[c].known)
    /\ LET q == ProvisionGeneration(r, c, half[c].known)
           g == ClaimGeneration(q, c, half[c].known)
       IN  /\ ~RejectStale(q, c, half[c].known)
           /\ \/ RejectUnknown(c, q, g)
              \/ \E e \in EntryAt(q, c) :
                    RejectTerminal(c, q, e) \/ RejectPending(c, q, e)
                      \/ RejectActive(c, q, e)
    /\ half' = [half EXCEPT ![c] = [at |-> "rejecting", known |-> 0]]
    /\ result' = result

\* rejectFlowSetup: the request of c cannot be served (its target is
\* unreadable, or its carrier is not the one its role needs)
RejectClaim(c) ==
    /\ half[c].at = "arrived"
    /\ RejectRefused(c) \/ RejectAccepted(c)
    /\ UNCHANGED flow

\* RejectClaim after reject: a second critical section looks the key up again
\* to see whether a tombstone still owes a result
FinishReject(c) ==
    /\ half[c].at = "rejecting"
    /\ blocker[c] # NoClaim =>
          work[blocker[c]].todo = "none" /\ r.entry[blocker[c]].permit # "loose"
    /\ LET owing == {e \in EntryAt(r, c) : /\ State(r, e) = "terminal"
                                           /\ ~r.entry[e].terminalConsumed
                                           /\ Selected(c)}
       IN  /\ r' = [r EXCEPT !.entry = [e \in Claims |->
                                           Consumed(r.entry[e], e \in owing)]]
           /\ result' = IF owing = {} THEN result
                        ELSE WriteResult({c}, "REJECTED")
    /\ half' = CloseHalves({c})
    /\ blocker' = [blocker EXCEPT ![c] = NoClaim]
    /\ UNCHANGED <<flow, work>>

\* The bound on generations keeps one for every claim still to be submitted
RegistrationRoom(g) ==
    \/ g <= r.nextGeneration
    \/ g + Cardinality({c \in Claims : half[c].at \in {"idle", "arrived"}})
          <= MaxGeneration

\* beginSessionRegistration and unregisterSessionGeneration, as the session
\* manager calls them.  It registers nothing once the registry is closed:
\* shutdownCleanup closes the manager first.
BeginSessionRegistration(s, replacing) ==
    LET g == RegistrationGeneration(r, s, replacing)
    IN  /\ ~r.closed
        /\ RegistrationRoom(g)
        /\ r' = RegisterSession(r, s, g)
        /\ work' = [e \in Claims |->
              IF e \in Detached(r, s, g) \ Terminal(r) THEN Settle(r, e)
              ELSE work[e]]
        /\ UNCHANGED <<half, blocker, result, flow>>

UnregisterSessionGeneration(s, g) ==
    /\ r' = UnregisterSession(r, s, g)
    /\ UNCHANGED <<half, blocker, result, flow, work>>

----------------------------------------------------------------------------
(* What is done outside the lock.                                           *)

\* CloseContextCause writes the rejection before it resolves the readiness
CommitClosing(e) ==
    /\ work[e].todo = "commit"
    /\ result' = WriteResult(work[e].halves, "REJECTED")
    /\ work' = [work EXCEPT ![e].todo = "settle"]
    /\ UNCHANGED <<r, half, blocker, flow>>

\* sessionReplacementCleanup.run and its likes: setupResult.reject for a failed
\* pending entry, flowReadiness.Reject for an active one, and the halves closed
SettleHalves(e) ==
    /\ work[e].todo = "settle"
    /\ result' = WriteResult(work[e].halves, "REJECTED")
    /\ flow' = [flow EXCEPT ![e].readiness =
                   IF @ = "unresolved" THEN "rejected" ELSE @]
    /\ half' = CloseHalves(work[e].halves)
    /\ work' = [work EXCEPT ![e] = NoWork]
    /\ UNCHANGED <<r, blocker>>

\* udpPermit.Release, after the halves have been dealt with
ReleasePermit(e) ==
    /\ r.entry[e].permit = "loose"
    /\ work[e].todo = "none"
    /\ r' = ReleaseUDPPermit(r, e)
    /\ UNCHANGED <<half, blocker, result, flow, work>>

\* flowReadiness.Ready by the upstream, past the ready gate: it fails when the
\* result can no longer be written, and reports success when a result has
\* already been committed.  A caller that passed the gate before BeginDrain
\* closed it may write READY at any time afterwards; one that comes too late
\* rejects instead (RejectReadiness).
Ready(e) ==
    LET H == flow[e].halves
        dead == \E c \in H : /\ Selected(c)
                             /\ half[c].at = "closed"
                             /\ result[c] = "none"
    IN  /\ flow[e].readiness = "unresolved"
        /\ flow' = [flow EXCEPT ![e].readiness =
                       IF dead THEN "rejected" ELSE "ready"]
        /\ result' = WriteResult(H, "READY")
        /\ UNCHANGED <<r, half, blocker, work>>

\* flowReadiness.Reject, by the upstream or because the route's context was
\* cancelled or its task could not start; also Ready when the gate is closed
RejectReadiness(e) ==
    /\ flow[e].readiness = "unresolved"
    /\ flow' = [flow EXCEPT ![e].readiness = "rejected"]
    /\ result' = WriteResult(flow[e].halves, "REJECTED")
    /\ UNCHANGED <<r, half, blocker, work>>

\* routeStream, routePacket and routeLifetime.end: the connection of e's route
\* is closed and the flow released
EndRoute(e) ==
    /\ flow[e].readiness # "none"
    /\ half' = CloseHalves(flow[e].halves)
    /\ flow' = [flow EXCEPT ![e] = NoFlow]
    /\ r' = ReleaseActive(r, e)
    /\ UNCHANGED <<blocker, result, work>>

----------------------------------------------------------------------------
(* Shutdown, as Handler.BeginDrain and shutdownCleanup drive it.            *)

CloseAdmission ==
    /\ r' = [r EXCEPT !.accepting = FALSE]
    /\ UNCHANGED <<half, blocker, result, flow, work>>

BeginDrain ==
    /\ ~r.closed
    /\ \E cleaned \in SUBSET SessionsOf(Pending(r)) :
          /\ SessionsOf(Pending(r)) \ SessionsOf(Terminal(r)) \subseteq cleaned
          /\ r' = DrainRegistry(r, cleaned)
    /\ work' = [e \in Claims |-> IF e \in Pending(r) THEN Settle(r, e) ELSE work[e]]
    /\ UNCHANGED <<half, blocker, result, flow>>

\* Slip: CloseContextCause takes the entries and loses their halves
CloseForgetsHalves ==
    /\ ~r.closed
    /\ r' = CloseRegistry(r)
    /\ UNCHANGED <<half, blocker, result, flow, work>>

\* CloseContextCause
Close ==
    /\ ~r.closed
    /\ r' = CloseRegistry(r)
    /\ work' = [e \in Claims |->
          IF e \in Pending(r) \cup Active(r)
          THEN [todo |-> "commit", halves |-> r.entry[e].halves, closing |-> TRUE]
          ELSE work[e]]
    /\ UNCHANGED <<half, blocker, result, flow>>

\* AbortClosing closes at once what CloseContextCause has yet to get to
AbortClosing ==
    LET H == UNION {work[e].halves : e \in {x \in Claims : work[x].closing}}
    IN  /\ H # {}
        /\ half' = CloseHalves(H)
        /\ UNCHANGED <<r, blocker, result, flow, work>>

\* What happens while the portal serves, and the steps of its shutdown
Serve ==
    \/ \E c \in Claims :
          \/ \E g \in KnownGenerations(c) : Arrive(c, g)
          \/ Submit(c) \/ RejectClaim(c) \/ FinishReject(c)
    \/ \E e \in Claims :
          \/ Timeout(e) \/ CancelPending(e)
          \/ SettleHalves(e) \/ ReleasePermit(e)
          \/ Ready(e) \/ RejectReadiness(e) \/ EndRoute(e)
    \/ \E s \in Sessions :
          \/ \E replacing \in BOOLEAN : BeginSessionRegistration(s, replacing)
          \/ \E g \in Generations : UnregisterSessionGeneration(s, g)

Shutdown ==
    \/ CloseAdmission \/ BeginDrain \/ Close \/ AbortClosing
    \/ \E e \in Claims : CommitClosing(e)

Next == Serve \/ Shutdown

Spec == Init /\ [][Next]_vars

\* Handlers run, the pair timer fires, and a method that has unlocked goes on
\* to the end.  Nothing obliges an upstream to resolve or to end a route.
Fairness ==
    /\ \A c \in Claims :
          WF_vars(Submit(c) \/ RejectClaim(c)) /\ WF_vars(FinishReject(c))
    /\ \A e \in Claims :
          /\ WF_vars(Timeout(e))
          /\ WF_vars(CommitClosing(e) \/ SettleHalves(e))
          /\ WF_vars(ReleasePermit(e))

FairSpec == Spec /\ Fairness

----------------------------------------------------------------------------
(* Properties.                                                              *)

\* The budget counters equal what they count.  Every path that removes a
\* pending entry (join, timeout, cancel, conflict, reject, replacement, drain,
\* close) goes through finishPendingLocked exactly once, and a UDP permit is
\* given back exactly once however many of them race for it.
CountersExact ==
    /\ \A s \in Sessions :
          r.pending[s] = Cardinality({e \in Pending(r) : e.session = s})
    /\ r.idleTCP = Cardinality({e \in Pending(r) : Carrier(e) = "tls"})
    /\ ~r.closed => \A s \in Sessions, g \in Generations :
          r.udpInUse[s][g] = Cardinality(PermitsInUse(r, s, g))

\* Generation fencing: whatever the registry still holds for a session belongs
\* to the session's current generation, and a half that named a generation is
\* only ever held in an entry of that generation.
CurrentGenerationOnly ==
    \A e \in r.entries :
        /\ r.entry[e].generation = r.generations[e.session]
        /\ \A h \in r.entry[e].halves :
              half[h].known \in {0, r.entry[e].generation}


\* No connection is lost: a half the registry took is in an entry, in the hands
\* of someone about to close it, or in a flow whose route has not ended.
HeldIsOwned ==
    \A c \in Claims : half[c].at = "held" =>
        \E e \in Claims :
            \/ e \in r.entries /\ c \in r.entry[e].halves
            \/ c \in work[e].halves
            \/ c \in flow[e].halves

\* While the portal admits claims no session keeps a generation, or the record
\* of where one came from, without an entry, a registration or a permit that
\* will clean it up when it goes.
NoStrandedGeneration ==
    r.accepting =>
        /\ \A s \in Sessions : r.generations[s] # 0 =>
              HasGenerationState(r, s, r.generations[s])
        /\ \A s \in Sessions, g \in Generations :
              r.provenance[s][g] # "none" => HasGenerationState(r, s, g)

\* Tombstones are bounded by terminalLimit, and each one is in terminalOrder,
\* without which nothing would ever evict it.
TombstonesBounded ==
    /\ Cardinality(Terminal(r)) <= PendingFlowsPerSession
    /\ \A e \in Terminal(r) : r.terminalOrder[e] > 0


\* A closed registry stays empty: requests that are refused, permits that are
\* released and sessions that unregister after CloseContextCause bring nothing
\* back to life.
ClosedStaysEmpty ==
    r.closed =>
        /\ r.entries = {} /\ r.idleTCP = 0
        /\ \A s \in Sessions : r.generations[s] = 0 /\ r.pending[s] = 0
        /\ \A s \in Sessions, g \in Generations :
              /\ r.registered[s][g] = 0 /\ r.udpInUse[s][g] = 0
              /\ r.provenance[s][g] = "none"

\* Claim c is the half that the pending entry e is waiting for
Completes(c, e) ==
    /\ half[c].at = "arrived"
    /\ half[c].known \in {0, r.entry[e].generation}
    /\ Bound(c) => r.registered[c.session][r.entry[e].generation] > 0
    /\ FlowTransportValid(c) /\ ValidClaim(c) /\ SameKey(c, e)
    /\ ~ConflictsWith(r, e, c, r.entry[e].generation)

\* PendingFlowsPerSession limits unresolved pairs, so it never turns away the
\* half that would resolve one: such a half is not closed while the entry it
\* completes goes on waiting.
CompletingHalfPairs ==
    [][\A c, e \in Claims :
          (Completes(c, e) /\ r.accepting /\ e \in Pending(r) /\ e \in Pending(r)')
              => half'[c].at # "closed"]_vars

\* A half whose handler has it is eventually closed or part of an active flow:
\* the pair timer is never lost on the way from one owner to the next.
EveryHalfSettles ==
    \A c \in Claims : half[c].at = "arrived" ~>
        \/ half[c].at = "closed"
        \/ \E e \in Active(r) : c \in r.entry[e].halves

\* Once the registry is closed it lets go of every connection it was holding
\* and every permit is given back.
CloseReleasesEverything ==
    r.closed ~> \A c \in Claims :
        half[c].at # "held" /\ r.entry[c].permit = "none"
=============================================================================
