---------------------------- MODULE MCIpCommand ----------------------------
(* Commands for checking IpCommand with TLC. *)
EXTENDS IpCommand

CONSTANTS a1, a2

O(kind, address, gateway, dns1, dns2) ==
    [kind |-> kind, address |-> address, gateway |-> gateway, dns |-> <<dns1, dns2>>]

(* Off, DHCP, and static settings with no, one, the other and both of the  *)
(* name servers, one of them in the short form.                            *)
SomeOrders ==
    { O("off", a1, a1, None, None), O("dhcp", a1, a1, None, None),
      O("static", a1, a2, None, None), O("static", a2, a1, a1, None),
      O("short", a1, a1, None, a2), O("static", a2, a2, a2, a1) }
=============================================================================
