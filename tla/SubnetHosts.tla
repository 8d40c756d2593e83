------------------------------ MODULE SubnetHosts ------------------------------
(***************************************************************************)
(* The hosts that a VPN discovery asks in a subnet: subnetHosts and ipv4Add *)
(* of src/internal/discovery/vpn/discover.go, over addresses of Width bits  *)
(* (32 there).  VpnDiscovery takes the result as its Hosts[k].              *)
(***************************************************************************)
EXTENDS Integers, Sequences

CONSTANTS
  Width,    \* bits of an address (32)
  ScanBits  \* the most host bits that are scanned (12)

ASSUME SubnetHostsAssumption == Width \in Nat /\ ScanBits \in 2 .. Width

\* 1 << n.
Pow2[n \in Nat] == IF n = 0 THEN 1 ELSE 2 * Pow2[n - 1]

Addresses == 0 .. Pow2[Width] - 1

\* ip.Mask: the host bits cleared.
Masked(ip, ones) == ip - (ip % Pow2[Width - ones])

\* uint32 addition, written back byte by byte.
Add(ip, n) == (ip + n) % Pow2[Width]

\* The list after the rounds 1 to n of the loop: ip itself is left out.
Collected(ip, ones, n) ==
  LET list[i \in Nat] ==
        IF i = 0 THEN <<>>
        ELSE LET current == Add(Masked(ip, ones), i)
             IN  IF current = ip THEN list[i - 1] ELSE Append(list[i - 1], current)
  IN  list[n]

\* Faulty Neighbours: the last address is not left out.
NeighboursAndBroadcast(ip, ones) == Collected(ip, ones, Pow2[Width - ones] - 1)

\* The part of subnetHosts behind its early returns.
Neighbours(ip, ones) == Collected(ip, ones, Pow2[Width - ones] - 2)

\* None for a subnet with at most one host bit, and none for one that is too large:
\* its error makes Discover go on with the next subnet.
HostsOf(ip, ones) ==
  IF Width - ones \in 2 .. ScanBits THEN Neighbours(ip, ones) ELSE <<>>

--------------------------------------------------------------------------------
(* Reference *)

\* The usable addresses of the subnet other than the interface's own, each once and
\* in ascending order: no network address, no broadcast address, and nothing of a
\* neighbouring subnet.
Exact(hosts, ip, ones) ==
  LET size == Pow2[Width - ones]
      subnet == {a \in Addresses : a \div size = ip \div size}
  IN  /\ {hosts[i] : i \in DOMAIN hosts}
           = {a \in subnet : /\ a # ip
                             /\ \E b \in subnet : b < a
                             /\ \E b \in subnet : a < b}
      /\ \A i, j \in DOMAIN hosts : i < j => hosts[i] < hosts[j]

================================================================================
