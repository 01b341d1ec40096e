-------------------------------- MODULE MC_Tunnel --------------------------------
(* Instances of Tunnel for TLC. *)
EXTENDS Tunnel

CONSTANTS r1, h1

Get == [Post EXCEPT !.method = "GET", !.ctype = "invalid", !.body = FALSE]
OverGet(d, u) == [Get EXCEPT !.dns = d, !.unpacks = u]
OverJSON(t) == [Get EXCEPT !.name = TRUE, !.qtype = t, !.unpacks = FALSE]

\* Requests for each way out of Resolve.
Foreigners ==
  {OverGet("message", TRUE), OverGet("message", FALSE), OverGet("not base64", FALSE),
   OverJSON(TRUE), OverJSON(FALSE), Get,
   [Post EXCEPT !.ctype = "invalid"], [Post EXCEPT !.ctype = "other"],
   [Post EXCEPT !.body = FALSE], [Post EXCEPT !.unpacks = FALSE],
   [Post EXCEPT !.method = "other"]}
=============================================================================
