----------------------------- MODULE MC_DnsServer -----------------------------
(* Instances of DnsServer for TLC. *)
EXTENDS DnsServer

CONSTANTS h1, h2, i1, i2, lan, host, web

OverUDP(i, n, e) ==
  [id |-> i, single |-> TRUE, name |-> n, net |-> "udp", edns |-> e]

\* One query for each upstream, with a buffer below, above and without EDNS0;
\* one over TCP, one with another ID, and one without a single question.
Queries ==
  {OverUDP(i1, lan, None), OverUDP(i1, host, 1), OverUDP(i1, web, 3),
   OverUDP(i2, web, None),
   [OverUDP(i1, web, None) EXCEPT !.net = "tcp"],
   [OverUDP(i1, web, None) EXCEPT !.single = FALSE]}
=============================================================================
