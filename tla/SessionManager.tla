--------------------------- MODULE SessionManager ---------------------------
(***************************************************************************)
(* The session manager (src/nw2/server/session.go) composed with the claim  *)
(* registry: QUIC connections register under their session identifier,      *)
(* replace the connection registered before them, serve streams, and        *)
(* unregister.  The manager's lock and the registry's are different ones;   *)
(* each action is one critical section of the outermost of the two.         *)
(***************************************************************************)
EXTENDS ClaimRegistry

CONSTANTS
    Conns,        \* QUIC connections, records with a session field
    NoConn,       \* a value that is not a connection
    MaxSessions   \* sessionManager.max

ASSUME ConnsAssumption ==
    /\ Conns \subseteq [id : Nat, session : Sessions]
    /\ NoConn \notin Conns
    /\ MaxSessions \in Nat \ {0}

VARIABLES
    sessions,     \* sessionManager.sessions
    admitting,    \* sessionManager.accepting
    quic,         \* quic[q]: progress of ServeQUIC for q, its Generation, and
                  \*   the connection it is replacing
    dropping      \* the sessions sessionManager.Close has still to unregister

managerVars == <<sessions, admitting, quic, dropping>>

QuicType ==
    [at : {"idle", "replacing", "serving", "leaving", "gone"},
     generation : 0 .. MaxGeneration,
     old : Conns \cup {NoConn}]


ManagerInit ==
    /\ Init
    /\ sessions = [s \in Sessions |-> NoConn]
    /\ admitting = TRUE
    /\ quic = [q \in Conns |->
                 [at |-> "idle", generation |-> 0, old |-> NoConn]]
    /\ dropping = {}

Registrations == {s \in Sessions : sessions[s] # NoConn}

\* Register turns the connection away
RefuseRegister(q) ==
    /\ quic[q].at = "idle"
    /\ \/ ~admitting
       \/ sessions[q.session] = NoConn /\ Cardinality(Registrations) >= MaxSessions
    /\ quic' = [quic EXCEPT ![q].at = "gone"]
    /\ UNCHANGED <<vars, sessions, admitting, dropping>>

\* Register's critical section, which beginSessionRegistration is part of
Register(q) ==
    LET s == q.session
        old == sessions[s]
    IN  /\ quic[q].at = "idle"
        /\ admitting
        /\ old # NoConn \/ Cardinality(Registrations) < MaxSessions
        /\ BeginSessionRegistration(s, old # NoConn)
        /\ sessions' = [sessions EXCEPT ![s] = q]
        /\ quic' = [quic EXCEPT ![q] =
              [at |-> IF old = NoConn THEN "serving" ELSE "replacing",
               generation |-> RegistrationGeneration(r, s, old # NoConn),
               old |-> old]]
        /\ UNCHANGED <<admitting, dropping>>

\* Slip: the newcomer's own generation is unregistered
FinishRegisterUnseatsItself(q) ==
    /\ quic[q].at = "replacing"
    /\ UnregisterSessionGeneration(q.session, quic[q].generation)
    /\ quic' = [quic EXCEPT ![q].at = "serving", ![q].old = NoConn]
    /\ UNCHANGED <<sessions, admitting, dropping>>

\* Register after the unlock: the replaced connection is unregistered
FinishRegister(q) ==
    /\ quic[q].at = "replacing"
    /\ UnregisterSessionGeneration(q.session, quic[quic[q].old].generation)
    /\ quic' = [quic EXCEPT ![q].at = "serving", ![q].old = NoConn]
    /\ UNCHANGED <<sessions, admitting, dropping>>

\* ServeQUIC returns (the connection failed, or was closed by the connection
\* that replaced it): Unregister's critical section ...
Unregister(q) ==
    /\ quic[q].at = "serving"
    /\ sessions' = [sessions EXCEPT ![q.session] = IF @ = q THEN NoConn ELSE @]
    /\ quic' = [quic EXCEPT ![q].at = "leaving"]
    /\ UNCHANGED <<vars, admitting, dropping>>

\* Slip: the connection leaves without telling the registry
FinishUnregisterSilently(q) ==
    /\ quic[q].at = "leaving"
    /\ quic' = [quic EXCEPT ![q].at = "gone"]
    /\ UNCHANGED <<vars, sessions, admitting, dropping>>

\* ... and its call of unregisterSessionGeneration
FinishUnregister(q) ==
    /\ quic[q].at = "leaving"
    /\ UnregisterSessionGeneration(q.session, quic[q].generation)
    /\ quic' = [quic EXCEPT ![q].at = "gone"]
    /\ UNCHANGED <<sessions, admitting, dropping>>

\* handleStream on a stream of connection q.  The stream was accepted while q
\* was served, but its handler may run when q has left.
ArriveOn(c, q) ==
    /\ Bound(c)
    /\ quic[q].at \in {"serving", "leaving", "gone"}
    /\ quic[q].generation # 0
    /\ q.session = c.session
    /\ Arrive(c, IF r.closed THEN 0 ELSE quic[q].generation)
    /\ UNCHANGED managerVars


\* handleFlow on a TLS connection
ArriveOnTLS(c) ==
    /\ ~Bound(c)
    /\ Arrive(c, r.generations[c.session])
    /\ UNCHANGED managerVars

\* sessionManager.BeginDrain, and Close with its loop over the sessions
ManagerBeginDrain ==
    /\ admitting' = FALSE
    /\ UNCHANGED <<vars, sessions, quic, dropping>>


ManagerClose ==
    /\ admitting' = FALSE
    /\ dropping' = dropping \cup {sessions[s] : s \in Registrations}
    /\ sessions' = [s \in Sessions |-> NoConn]
    /\ UNCHANGED <<vars, quic>>

DropSession(q) ==
    /\ q \in dropping
    /\ UnregisterSessionGeneration(q.session, quic[q].generation)
    /\ dropping' = dropping \ {q}
    /\ UNCHANGED <<sessions, admitting, quic>>

\* What the registry does on its own
RegistryStep ==
    /\ \/ \E c \in Claims : Submit(c) \/ RejectClaim(c) \/ FinishReject(c)
       \/ \E e \in Claims :
             \/ Timeout(e) \/ CancelPending(e)
             \/ SettleHalves(e) \/ ReleasePermit(e)
             \/ Ready(e) \/ RejectReadiness(e) \/ EndRoute(e)
    /\ UNCHANGED managerVars

\* Handler.BeginDrain and shutdownCleanup: claims.CloseAdmission comes before
\* sessions.BeginDrain, sessions.Close before claims.CloseContextCause
ShutdownStep ==
    \/ CloseAdmission /\ UNCHANGED managerVars
    \/ ~r.accepting /\ ManagerBeginDrain
    \/ ~admitting /\ BeginDrain /\ UNCHANGED managerVars
    \/ ~admitting /\ ManagerClose
    \/ ~admitting /\ Registrations = {} /\ Close /\ UNCHANGED managerVars
    \/ (AbortClosing \/ \E e \in Claims : CommitClosing(e))
         /\ UNCHANGED managerVars

ManagerServe ==
    \/ \E q \in Conns :
          \/ RefuseRegister(q) \/ Register(q) \/ FinishRegister(q)
          \/ Unregister(q) \/ FinishUnregister(q)
          \/ \E c \in Claims : ArriveOn(c, q)
    \/ \E c \in Claims : ArriveOnTLS(c)
    \/ RegistryStep

ManagerNext ==
    \/ ManagerServe
    \/ \E q \in Conns : DropSession(q)
    \/ ShutdownStep

managerSpecVars == <<vars, managerVars>>

ManagerSpec == ManagerInit /\ [][ManagerNext]_managerSpecVars


\* What the registry counts as registered is a connection that is still being
\* served or unregistered, however replacement, departure and
\* sessionManager.Close share the two calls that unregister it: when the last
\* of them is done no registration is left behind to keep a generation alive.
RegisteredIsPresent ==
    \A s \in Sessions, g \in Generations : r.registered[s][g] > 0 =>
        \E q \in Conns : /\ q.session = s /\ quic[q].generation = g
                          /\ quic[q].at \in {"replacing", "serving", "leaving"}

\* The connection a session's map slot names is the one the registry serves:
\* its generation is current and registered, so the streams it carries are
\* admitted rather than turned away as stale.
CurrentConnServed ==
    \A s \in Sessions : sessions[s] # NoConn =>
        LET g == quic[sessions[s]].generation
        IN  r.generations[s] = g /\ r.registered[s][g] > 0

\* Two connections of a session were given the same generation: a provisional
\* generation was reopened by a TLS half that had looked it up long before
GenerationReused ==
    \E p, q \in Conns :
        /\ p # q /\ p.session = q.session
        /\ quic[p].generation = quic[q].generation
        /\ quic[p].generation # 0

\* Replacement never unseats the newcomer by itself: as long as generations
\* are not reused, the delayed unregistrations of the connections that were
\* replaced (one by Register, one by their own ServeQUIC) leave the current
\* connection registered under the current generation.
ServedUnlessReused == GenerationReused \/ CurrentConnServed
=============================================================================
