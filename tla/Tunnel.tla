--------------------------------- MODULE Tunnel ---------------------------------
(***************************************************************************)
(* dnss at both ends: the DoH resolver (DoHResolver) posts its queries to  *)
(* the HTTPS server of another dnss (DohServer), over one connection per   *)
(* http.Client.  Either end has its own timeouts and does not know the     *)
(* other's: a handler is not told that the client has given up (exchange   *)
(* takes no context), and the client cannot tell a dead connection from a  *)
(* server that waits for its DNS upstream.  Other programs use the server, *)
(* too.                                                                    *)
(*                                                                         *)
(* Time passes while an end waits, not while it computes.                  *)
(***************************************************************************)
EXTENDS DoHResolver

CONSTANTS
  Handler,          \* goroutines running Server.Resolve
  upstreamTimeout,  \* of an exchange with the DNS upstream (4s)
  Foreign,          \* the requests of other programs
  Numbers,          \* bound: queries of a goroutine are numbered modulo this
  MaxCuts           \* bound: times that the network changes

VARIABLES
  dead,      \* external: clients whose connection carries nothing any more
  cuts,      \* number of times that the network changed
  stream,    \* external: where the exchange of each POST is, "none", "request"
             \*   (on its way), "handler", or "response" (on its way)
  received,  \* the response on that stream, None before, with the query that it
             \*   answers and how the exchange that decided it ended
  result,    \* history: the response that the last Query took for an answer, None if
             \*   it returned an error
  asked,     \* history: the number of the last query of each request
  hpc, hreq, hjson, udp, tcp, response,  \* the handlers: see DohServer
  peer,      \* the request whose client a handler will answer, None for none
  question,  \* the query that a handler has read, None for those of others
  waited     \* per handler: time since its exchange with the upstream began

Server == INSTANCE DohServer WITH pc <- hpc, req <- hreq, json <- hjson

ASSUME TunnelAssumption ==
  /\ upstreamTimeout \in Nat \ {0} /\ Numbers \in Nat \ {0} /\ MaxCuts \in Nat
  /\ Foreign \subseteq Server!HTTPRequest
  /\ None \notin Request
  /\ None \notin Server!HTTPRequest \cup Server!Outcome \cup Server!Response

net == <<dead, cuts, stream, received, result, asked>>
server == <<hpc, hreq, hjson, udp, tcp, response, peer, question, waited>>
tunnelVars == <<vars, net, server>>

\* What client.Post sends: a message that Query has packed itself.
Post == [method |-> "POST", dns |-> "absent", name |-> FALSE, qtype |-> FALSE,
         ctype |-> "dns-message", body |-> TRUE, unpacks |-> TRUE]

\* What Resolve makes of it: the body may break off, and as no more than 4092
\* bytes of it are read, a long message does not unpack.
Posts == {Post, [Post EXCEPT !.body = FALSE], [Post EXCEPT !.unpacks = FALSE]}

\* The query that r has asked last.
Current(r) == <<r, asked[r]>>

-----------------------------------------------------------------------------
TunnelInit ==
  /\ Init /\ Server!Init
  /\ dead = {} /\ cuts = 0
  /\ stream = [r \in Request |-> "none"]
  /\ received = [r \in Request |-> None]
  /\ result = [r \in Request |-> None]
  /\ asked = [r \in Request |-> 0]
  /\ peer = [h \in Handler |-> None]
  /\ question = [h \in Handler |-> None]
  /\ waited = [h \in Handler |-> 0]

(***************************************************************************)
(* The resolver.                                                           *)
(***************************************************************************)
Ask(r) ==
  /\ Query(r)
  /\ stream' = [stream EXCEPT ![r] = "request"]
  /\ result' = [result EXCEPT ![r] = None]
  /\ asked' = [asked EXCEPT ![r] = (@ + 1) % Numbers]
  /\ UNCHANGED <<dead, cuts, received, server>>

Close_SharedStream(r, how) ==
  /\ stream' = [stream EXCEPT ![r] = "none"]
  /\ received' = [received EXCEPT ![r] = None]
  /\ result' = [result EXCEPT ![r] = how]
  /\ UNCHANGED <<dead, cuts, asked, server>>

\* Query is over: its stream is reset, and its handler talks to nobody.  The next
\* query has a stream of its own.
Close(r, how) ==
  /\ stream' = [stream EXCEPT ![r] = "none"]
  /\ received' = [received EXCEPT ![r] = None]
  /\ result' = [result EXCEPT ![r] = how]
  /\ peer' = [h \in Handler |-> IF peer[h] = r THEN None ELSE peer[h]]
  /\ UNCHANGED <<dead, cuts, asked, hpc, hreq, hjson, udp, tcp, response, question,
                 waited>>

\* client.Post fails, sooner (no address, no connection, no TLS, one that is
\* reset) or later (http.Client.Timeout).
GiveUp(r) == PostFails(r) /\ Close(r, None)

Headers_CountStatus(r) ==
  /\ stream[r] = "response" /\ using[r] \notin dead
  /\ \/ received[r].status = 200 /\ PostSucceeds(r)
     \/ /\ received[r].status # 200
        /\ pc[r] = "post" /\ pc' = [pc EXCEPT ![r] = "body"]
        /\ firstErr' = firstError
        /\ UNCHANGED <<client, using, posting, phase, tick, history>>
  /\ UNCHANGED <<net, server>>

\* client.Post returns with the headers of a response, whatever its status.
Headers(r) ==
  /\ stream[r] = "response" /\ using[r] \notin dead
  /\ PostSucceeds(r)
  /\ UNCHANGED <<net, server>>

\* What Query checks of a response: its status, its content type, and that there
\* is a message in it.
Acceptable(m) ==
  m.status = 200 /\ m.kind = "dns-message" /\ m.content # "empty"

\* The rest of Query; the body can break off, or not unpack.
ReadBody(r) ==
  /\ Return(r)
  /\ \/ Close(r, None)
     \/ /\ using[r] \notin dead /\ Acceptable(received[r])
        /\ Close(r, received[r])

Maintain_SharedTransport ==
  /\ maybeRotateClient
  /\ UNCHANGED <<net, server>>

\* A new client has a new connection.
Maintain ==
  /\ maybeRotateClient
  /\ dead' = IF client' # client THEN dead \ {client'} ELSE dead
  /\ UNCHANGED <<cuts, stream, received, result, asked, server>>

(***************************************************************************)
(* The server.                                                             *)
(***************************************************************************)
Accept(h, m, r, q) ==
  /\ response[h] = None
  /\ Server!Accept(h, m)
  /\ peer' = [peer EXCEPT ![h] = r]
  /\ question' = [question EXCEPT ![h] = q]
  /\ UNCHANGED <<vars, dead, cuts, received, result, asked, waited>>

AcceptPost(h, r) ==
  /\ stream[r] = "request" /\ using[r] \notin dead
  /\ stream' = [stream EXCEPT ![r] = "handler"]
  /\ \E m \in Posts : Accept(h, m, r, Current(r))

\* Bound: other programs ask only while the resolver does not, and has no error.
AcceptForeign(h) ==
  /\ InFlight = {} /\ firstErr = None
  /\ \E m \in Foreign : Accept(h, m, None, None)
  /\ UNCHANGED stream

\* The longest that an exchange takes: over TCP dns.Client uses its timeout for
\* the connection, and again for the answer.
Patience(h) == IF hpc[h] = "tcp" THEN 2 * upstreamTimeout ELSE upstreamTimeout

ExchangeTimes(h, o) ==
  /\ waited[h] = Patience(h) => o = "timeout"
  /\ o = "timeout" => waited[h] >= upstreamTimeout
  /\ waited' = [waited EXCEPT ![h] = 0]

\* Resolve goes on.
Handle(h) ==
  /\ Server!Step(h)
  /\ \/ hpc[h] = "udp" /\ ExchangeTimes(h, udp'[h])
     \/ hpc[h] = "tcp" /\ ExchangeTimes(h, tcp'[h])
     \/ hpc[h] \notin {"udp", "tcp"} /\ UNCHANGED waited
  /\ UNCHANGED <<vars, net, peer, question>>

\* How the exchange that decided the response of h ended.
Last(h) == IF tcp[h] # None THEN tcp[h] ELSE udp[h]

\* The response is on its way, if its client is still waiting, and the handler
\* is no more.
Respond(h) ==
  /\ response[h] # None
  /\ IF peer[h] # None
       THEN /\ stream' = [stream EXCEPT ![peer[h]] = "response"]
            /\ received' = [received EXCEPT ![peer[h]] =
                 [status |-> response[h].status, kind |-> response[h].kind,
                  content |-> response[h].content,
                  truncated |-> response[h].truncated,
                  question |-> question[h], last |-> Last(h)]]
       ELSE UNCHANGED <<stream, received>>
  /\ hreq' = [hreq EXCEPT ![h] = None]
  /\ hjson' = [hjson EXCEPT ![h] = FALSE]
  /\ udp' = [udp EXCEPT ![h] = None]
  /\ tcp' = [tcp EXCEPT ![h] = None]
  /\ response' = [response EXCEPT ![h] = None]
  /\ peer' = [peer EXCEPT ![h] = None]
  /\ question' = [question EXCEPT ![h] = None]
  /\ UNCHANGED <<vars, dead, cuts, result, asked, hpc, waited>>

(***************************************************************************)
(* The network and time.                                                   *)
(***************************************************************************)
\* The computer changes networks: the connections that there are carry nothing
\* any more, which Go's transport does not notice (maybeRotateClient).
Cut ==
  /\ cuts < MaxCuts
  /\ cuts' = cuts + 1
  /\ dead' = Clients
  /\ UNCHANGED <<vars, stream, received, result, asked, server>>

Exchanging == {h \in Handler : hpc[h] \in {"udp", "tcp"}}

Time ==
  /\ TimePasses
  /\ \A h \in Handler : IF h \in Exchanging THEN waited[h] < Patience(h)
                        ELSE hpc[h] = "idle" /\ response[h] = None
  /\ waited' = [h \in Handler |->
                  IF h \in Exchanging THEN waited[h] + 1 ELSE waited[h]]
  /\ UNCHANGED <<net, hpc, hreq, hjson, udp, tcp, response, peer, question>>

Finish(r) == GiveUp(r) \/ Headers(r) \/ ReadBody(r)

TunnelNext ==
  \/ \E r \in Request : Ask(r) \/ Finish(r)
  \/ Maintain
  \/ \E h \in Handler : \/ \E r \in Request : AcceptPost(h, r)
                        \/ AcceptForeign(h) \/ Handle(h) \/ Respond(h)
  \/ Cut
  \/ Time

TunnelSpec == TunnelInit /\ [][TunnelNext]_tunnelVars

\* Either end is scheduled, the clock runs, and there are always more queries.
\* The network, the server's upstream and other programs owe nothing.
FairTunnelSpec ==
  /\ TunnelSpec
  /\ SF_tunnelVars(Time) /\ WF_tunnelVars(Maintain)
  /\ \A r \in Request : WF_tunnelVars(Ask(r)) /\ WF_tunnelVars(Finish(r))
  /\ \A h \in Handler : WF_tunnelVars(Handle(h) \/ Respond(h))

-----------------------------------------------------------------------------
\* Of the server, with requests that it goes on with for a client that has left:
\* see DohServer.
CompleteIfPossible == Server!CompleteIfPossible
FailureNotMasked == Server!FailureNotMasked

\* What Query returns as an answer answers the very query that it was called
\* with, however late the answers to earlier ones come.  It is what the server's
\* DNS upstream replied in the exchange that decided, truncated just if that was;
\* or, when that reply could not be packed again, a SERVFAIL of the server's in
\* its place (TestServfailResponse), which is never marked as truncated.  No error
\* page of the server, whichever of the two exchanges failed, nor an empty body,
\* is taken for an answer.
OnlyOwnAnswers ==
  \A r \in Request : result[r] # None =>
    LET m == result[r]
    IN /\ m.question = Current(r)
       /\ m.content \in {"reply", "servfail"}
       /\ m.last \in {"complete", "truncated"}
       /\ m.truncated <=> m.content = "reply" /\ m.last = "truncated"

\* The client is replaced only when no response has been heard of for the whole
\* time.  A server that answers, be it to say that its own upstream is down,
\* keeps its connections, however long its upstream stays down.
RotatesOnlyUnheard == [][client' # client => failing # None /\ failing > RotateAfter]_tunnelVars

\* What the rotation is for: after the network has changed, queries do not fail
\* on the dead connection for ever; as long as there are queries, it is given up
\* for a new one (maybeRotateClient: "the Go HTTP/2 transport will insist on
\* using a dead connection for a long time, and cannot be told to close it").
DeadClientReplaced == client \in dead ~> client \notin dead

=============================================================================
