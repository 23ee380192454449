----------------------------- MODULE NatTableMC ------------------------------
(***************************************************************************)
(* Two hosts, two remote services and two public ports, with one slot more *)
(* than there are ports; the requests conflict in every part of the        *)
(* key, and the replies include strangers' and misdirected ones.           *)
(***************************************************************************)
EXTENDS NatTable

CONSTANTS Zero, Us, HostA, HostB, RemoteR, RemoteS

Addresses == {Zero, Us, HostA, HostB, RemoteR, RemoteS}

At(ip, port) == [ip |-> ip, port |-> port]
Packet(protocol, source, destination) ==
  [protocol |-> protocol, source |-> source, destination |-> destination]

SmallRequests ==
  {Packet(6, At(HostA, 1), At(RemoteR, 1)), Packet(6, At(HostB, 1), At(RemoteR, 1)),
   Packet(6, At(HostA, 1), At(RemoteS, 1)), Packet(17, At(HostA, 1), At(RemoteR, 1)),
   Packet(1, At(HostA, 1), At(RemoteR, 1)), Packet(6, At(HostA, 0), At(RemoteR, 1))}

SmallReplies ==
  {Packet(6, At(RemoteR, 1), At(Us, p)) : p \in 1..PortMax}
  \cup {Packet(6, At(RemoteS, 1), At(Us, 2)), Packet(17, At(RemoteR, 1), At(Us, 2)),
        Packet(6, At(RemoteR, 1), At(HostA, 2)), Packet(6, At(RemoteR, 0), At(Us, 2))}
=============================================================================
