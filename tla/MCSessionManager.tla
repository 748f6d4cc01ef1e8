-------------------------- MODULE MCSessionManager --------------------------
(* Small populations of connections and flow halves for SessionManager.     *)
EXTENDS SessionManager

CONSTANTS s1, s2, f1, f2

Half(id, s, f, role, kind, uplink, downlink) ==
    [id |-> id, session |-> s, flow |-> f, role |-> role, kind |-> kind,
     uplink |-> uplink, downlink |-> downlink, hops |-> 0,
     physical |-> IF role = "open" THEN uplink ELSE downlink]

Conn(id, s) == [id |-> id, session |-> s]

\* A whole flow on a QUIC stream
QuicClaims == {Half(1, s1, f1, "duplex", "udp", "quic", "quic")}

\* The halves of a flow, up over TLS and down over QUIC
SplitClaims ==
    {Half(1, s1, f1, "open", "tcp", "tls", "quic"),
     Half(2, s1, f1, "attach", "tcp", "tls", "quic")}

\* Connections that replace one another, and two sessions that compete
ThreeConns == {Conn(1, s1), Conn(2, s1), Conn(3, s1)}
TwoSessionConns == {Conn(1, s1), Conn(2, s1), Conn(3, s2)}

\* The portal serves and is not shut down
ManagerServeSpec == ManagerInit /\ [][ManagerServe]_managerSpecVars
=============================================================================
