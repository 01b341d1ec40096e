------------------------------- MODULE DohServer -------------------------------
(***************************************************************************)
(* internal/httpserver/server.go: the HTTPS to DNS side of dnss.  A        *)
(* request carries a DNS message (GET with dns=, or POST), or asks for one *)
(* through the JSON API (GET with name=); the query is sent to the DNS     *)
(* upstream over UDP and, if the answer is truncated, again over TCP.      *)
(*                                                                         *)
(* Of a request only what Resolve looks at is kept, of a DNS message only  *)
(* whether it is truncated.                                                *)
(***************************************************************************)
CONSTANTS
  Handler,    \* goroutines running Server.Resolve
  None

HTTPRequest == [method : {"GET", "POST", "other"},
                dns : {"absent", "not base64", "message"},  \* form value dns=
                name : BOOLEAN,                             \* form value name=
                qtype : BOOLEAN,                            \* type= is a known type
                ctype : {"dns-message", "other", "invalid"},
                body : BOOLEAN,                             \* the body can be read
                unpacks : BOOLEAN]                          \* as a DNS message

\* How an exchange with the upstream ends.
Outcome == {"complete", "truncated", "timeout", "error"}
Failed(o) == o \in {"timeout", "error"}

\* What is sent back: a status, the type of the content and what it is, an error
\* page, the reply of the upstream, a SERVFAIL of the server's own or nothing;
\* and, of a reply, whether it is truncated.
Content == {"error", "reply", "servfail", "empty"}
Response == [status : {200, 400, 408, 415, 502, 504},
             kind : {"text", "dns-message", "json"}, content : Content,
             truncated : BOOLEAN]

VARIABLES
  pc,        \* per handler
  req,       \* the request
  json,      \* whether it came through the JSON API
  udp, tcp,  \* how its exchanges ended, None before that
  response   \* history: what was sent to the client, None before that

vars == <<pc, req, json, udp, tcp, response>>

Init ==
  /\ pc = [h \in Handler |-> "idle"]
  /\ req = [h \in Handler |-> None]
  /\ json = [h \in Handler |-> FALSE]
  /\ udp = [h \in Handler |-> None]
  /\ tcp = [h \in Handler |-> None]
  /\ response = [h \in Handler |-> None]

\* The request r arrives and a goroutine starts to handle it.
Accept(h, r) ==
  /\ pc[h] = "idle"
  /\ req' = [req EXCEPT ![h] = r]
  /\ pc' = [pc EXCEPT ![h] = "resolve"]
  /\ json' = [json EXCEPT ![h] = FALSE]
  /\ udp' = [udp EXCEPT ![h] = None]
  /\ tcp' = [tcp EXCEPT ![h] = None]
  /\ response' = [response EXCEPT ![h] = None]

Send(h, status, kind, content, truncated) ==
  /\ response' = [response EXCEPT ![h] =
       [status |-> status, kind |-> kind, content |-> content,
        truncated |-> truncated]]
  /\ pc' = [pc EXCEPT ![h] = "idle"]

\* http.Error
Error(h, status) == Send(h, status, "text", "error", FALSE)

Proceed(h, where) ==
  pc' = [pc EXCEPT ![h] = where] /\ UNCHANGED response

(***************************************************************************)
(* Resolve, resolveJSON up to its query and resolveDoH up to its query.    *)
(***************************************************************************)
IsGet(r) == r.method = "GET" /\ r.dns # "absent"
IsJSON(r) == r.method = "GET" /\ r.dns = "absent" /\ r.name
IsPost(r) == r.method = "POST"

ResolveGet(h) ==
  /\ pc[h] = "resolve" /\ IsGet(req[h])
  /\ IF req[h].dns = "message" THEN Proceed(h, "unpack") ELSE Error(h, 400)
  /\ UNCHANGED <<req, json, udp, tcp>>

ResolveJSON(h) ==
  /\ pc[h] = "resolve" /\ IsJSON(req[h])
  /\ json' = [json EXCEPT ![h] = TRUE]
  /\ IF req[h].qtype THEN Proceed(h, "udp") ELSE Error(h, 400)
  /\ UNCHANGED <<req, udp, tcp>>

ResolvePost(h) ==
  /\ pc[h] = "resolve" /\ IsPost(req[h])
  /\ \/ req[h].ctype = "invalid" /\ Error(h, 400)
     \/ req[h].ctype = "other" /\ Error(h, 415)
     \/ req[h].ctype = "dns-message" /\ ~req[h].body /\ Error(h, 400)
     \/ req[h].ctype = "dns-message" /\ req[h].body /\ Proceed(h, "unpack")
  /\ UNCHANGED <<req, json, udp, tcp>>

ResolveUnknown(h) ==
  /\ pc[h] = "resolve"
  /\ ~IsGet(req[h]) /\ ~IsJSON(req[h]) /\ ~IsPost(req[h])
  /\ Error(h, 415)
  /\ UNCHANGED <<req, json, udp, tcp>>

Unpack(h) ==
  /\ pc[h] = "unpack"
  /\ IF req[h].unpacks THEN Proceed(h, "udp") ELSE Error(h, 400)
  /\ UNCHANGED <<req, json, udp, tcp>>

(***************************************************************************)
(* exchange and dnsExchangeHTTPError.                                      *)
(***************************************************************************)
ErrorStatus(o) == IF o = "timeout" THEN 504 ELSE 502

ExchangeUDP_NoRetry(h) ==
  /\ pc[h] = "udp"
  /\ \E o \in Outcome :
       /\ udp' = [udp EXCEPT ![h] = o]
       /\ \/ Failed(o) /\ Error(h, ErrorStatus(o))
          \/ ~Failed(o) /\ Proceed(h, "reply")
  /\ UNCHANGED <<req, json, tcp>>

ExchangeUDP_RetryErrors(h) ==
  /\ pc[h] = "udp"
  /\ \E o \in Outcome :
       /\ udp' = [udp EXCEPT ![h] = o]
       /\ \/ o # "complete" /\ Proceed(h, "tcp")
          \/ o = "complete" /\ Proceed(h, "reply")
  /\ UNCHANGED <<req, json, tcp>>

ExchangeUDP(h) ==
  /\ pc[h] = "udp"
  /\ \E o \in Outcome :
       /\ udp' = [udp EXCEPT ![h] = o]
       /\ \/ Failed(o) /\ Error(h, ErrorStatus(o))
          \/ o = "complete" /\ Proceed(h, "reply")
          \/ o = "truncated" /\ Proceed(h, "tcp")
  /\ UNCHANGED <<req, json, tcp>>

ExchangeTCP(h) ==
  /\ pc[h] = "tcp"
  /\ \E o \in Outcome :
       /\ tcp' = [tcp EXCEPT ![h] = o]
       /\ \/ Failed(o) /\ Error(h, ErrorStatus(o))
          \/ ~Failed(o) /\ Proceed(h, "reply")
  /\ UNCHANGED <<req, json, udp>>

\* Whether the reply from the upstream that Resolve goes on with is truncated.
\* It is never nil when there is no error, so the status 408 is never used.
ReplyTruncated(h) ==
  (IF tcp[h] # None THEN tcp[h] ELSE udp[h]) = "truncated"

\* The rest of resolveJSON and resolveDoH.  A reply that cannot be packed again
\* is replaced by a SERVFAIL (servfail), and that by nothing if it cannot either.
SendReply(h) ==
  /\ pc[h] = "reply"
  /\ \/ json[h] /\ Send(h, 200, "json", "reply", ReplyTruncated(h))
     \/ ~json[h] /\ Send(h, 200, "dns-message", "reply", ReplyTruncated(h))
     \/ ~json[h] /\ Send(h, 200, "dns-message", "servfail", FALSE)
     \/ ~json[h] /\ Send(h, 200, "dns-message", "empty", FALSE)
  /\ UNCHANGED <<req, json, udp, tcp>>

Step(h) ==
  \/ ResolveGet(h) \/ ResolveJSON(h) \/ ResolvePost(h) \/ ResolveUnknown(h)
  \/ Unpack(h)
  \/ ExchangeUDP(h) \/ ExchangeTCP(h)
  \/ SendReply(h)

Next == \E h \in Handler : Step(h) \/ \E r \in HTTPRequest : Accept(h, r)

Spec == Init /\ [][Next]_vars

-----------------------------------------------------------------------------
\* Types of the variables.
TypeOK ==
  /\ pc \in [Handler -> {"idle", "resolve", "unpack", "udp", "tcp", "reply"}]
  /\ req \in [Handler -> HTTPRequest \cup {None}]
  /\ json \in [Handler -> BOOLEAN]
  /\ udp \in [Handler -> Outcome \cup {None}]
  /\ tcp \in [Handler -> Outcome \cup {None}]
  /\ response \in [Handler -> Response \cup {None}]

Answered(h) == pc[h] = "idle" /\ response[h] # None

\* A client is not given a truncated reply that could have been had in full: a
\* truncated one is what the upstream said over TCP, too.
CompleteIfPossible ==
  \A h \in Handler :
    Answered(h) /\ response[h].status = 200 /\ response[h].truncated
      => tcp[h] = "truncated"

\* The status tells what the upstream did in the exchange that decided (exchange:
\* "Other UDP failures are returned as-is so the caller can report the actual
\* upstream failure instead of masking it with a second TCP error").
FailureNotMasked ==
  \A h \in Handler :
    LET last == IF tcp[h] # None THEN tcp[h] ELSE udp[h]
    IN Answered(h) =>
         /\ response[h].status = 504 <=> last = "timeout"
         /\ response[h].status = 502 <=> last = "error"
         /\ tcp[h] # None => udp[h] = "truncated"

=============================================================================
