-------------------------- MODULE MCClaimRegistry --------------------------
(* Small populations of flow halves for ClaimRegistry.                      *)
EXTENDS ClaimRegistry

CONSTANTS s1, s2, f1, f2

Half(id, s, f, role, kind, uplink, downlink) ==
    [id |-> id, session |-> s, flow |-> f, role |-> role, kind |-> kind,
     uplink |-> uplink, downlink |-> downlink, hops |-> 0,
     physical |-> IF role = "open" THEN uplink ELSE downlink]

\* The two halves of a UDP flow, up over TLS and down over QUIC, and the first
\* half of another: one UDP permit and one idle TLS connection for all of them
UDPPairClaims ==
    {Half(1, s1, f1, "open", "udp", "tls", "quic"),
     Half(2, s1, f1, "attach", "udp", "tls", "quic"),
     Half(3, s1, f2, "open", "udp", "tls", "quic")}

PairClaims == {c \in UDPPairClaims : c.flow = f1}

\* Three claims on one flow, no two of which agree: a first half, a second one
\* with other metadata, and a DUPLEX claim
ConflictClaims ==
    {Half(1, s1, f1, "attach", "tcp", "quic", "tls"),
     [Half(2, s1, f1, "open", "tcp", "quic", "tls") EXCEPT !.hops = 1],
     Half(3, s1, f1, "duplex", "tcp", "tls", "tls")}

\* A UDP pair, and an OPEN that names one carrier for both directions
ShutdownClaims ==
    {Half(1, s1, f1, "open", "udp", "tls", "quic"),
     Half(2, s1, f1, "attach", "udp", "tls", "quic"),
     Half(3, s1, f2, "open", "tcp", "tls", "tls")}

\* Halves of two sessions, which share the idle budget and the tombstones
TwoSessionClaims ==
    {Half(1, s1, f1, "open", "tcp", "tls", "quic"),
     Half(2, s2, f1, "open", "udp", "tls", "quic"),
     Half(3, s1, f2, "attach", "tcp", "quic", "tls")}

ServeSpec == Init /\ [][Serve]_vars
=============================================================================
