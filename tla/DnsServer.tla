------------------------------- MODULE DnsServer -------------------------------
(***************************************************************************)
(* The request handler of internal/dnsserver/server.go.  Each request is   *)
(* handled by a goroutine of its own, which sends it to one of three       *)
(* places: the server that overrides its domain, the server for            *)
(* unqualified names, or the resolver (CachingResolver, DoHResolver).      *)
(* Message IDs for the resolver come from a channel that a generator       *)
(* goroutine fills.                                                        *)
(*                                                                         *)
(* A message is reduced to its ID, its size and whether it is truncated;   *)
(* which names have an override is DomainMap's business.                   *)
(***************************************************************************)
EXTENDS Integers, Sequences

CONSTANTS
  Handler,      \* goroutines running Server.Handler
  ID,           \* message IDs
  Name, Overridden, Unqualified,
                \* names; those GetMostSpecific finds a server for; those of
                \* at most one label
  unqUpstream,  \* whether -dns_unqualified_upstream is set
  dnstap,       \* whether -dnstap_destination is set
  Size, EDNS,   \* sizes of replies; buffer sizes in EDNS0 records
  MinMsgSize,   \* 512
  NewIDs,       \* capacity of the newID channel (100)
  Records,      \* capacity of the dnstap channel (1024)
  ClientQuery,  \* the queries that clients send
  None

\* What a client sends, and what comes back from upstream or goes to a client.
Query == [id : ID, single : BOOLEAN, name : Name, net : {"udp", "tcp"},
          edns : EDNS \cup {None}]
Message == [id : ID, size : Size \cup {MinMsgSize}, truncated : BOOLEAN]

ASSUME ServerAssumption ==
  /\ Overridden \subseteq Name /\ Unqualified \subseteq Name
  /\ unqUpstream \in BOOLEAN /\ dnstap \in BOOLEAN
  /\ Size \subseteq Nat \ {0} /\ EDNS \subseteq Nat
  /\ MinMsgSize \in Nat \ {0} /\ NewIDs \in Nat \ {0}
  /\ Records \in Nat \ {0}
  /\ ClientQuery \subseteq Query
  /\ None \notin ID \cup EDNS

VARIABLES
  pc,        \* per handler
  query,     \* history: the query as the client sent it
  rid,       \* r.Id, which Handler changes
  reply,     \* the message that Handler has got from upstream
  newID,     \* the channel of IDs
  records,   \* number of records in the dnstap channel
  asked,     \* history: the upstreams that the query was sent to, in order
  written,   \* history: the calls of WriteMsg, in order: the message that went to
             \*   the client, None if the call failed
  tapped     \* history: the IDs of the query and the response captured

vars == <<pc, query, rid, reply, newID, records, asked, written, tapped>>

-----------------------------------------------------------------------------
Init ==
  /\ pc = [h \in Handler |-> "idle"]
  /\ query = [h \in Handler |-> None]
  /\ rid = [h \in Handler |-> None]
  /\ reply = [h \in Handler |-> None]
  /\ newID = <<>> /\ records = 0
  /\ asked = [h \in Handler |-> <<>>]
  /\ written = [h \in Handler |-> <<>>]
  /\ tapped = [h \in Handler |-> None]

GenerateID_Unbounded ==
  /\ \E i \in ID : newID' = Append(newID, i)
  /\ UNCHANGED <<pc, query, rid, reply, records, asked, written, tapped>>

\* The goroutine of init(): it blocks when the channel is full.
GenerateID ==
  /\ Len(newID) < NewIDs
  /\ \E i \in ID : newID' = Append(newID, i)
  /\ UNCHANGED <<pc, query, rid, reply, records, asked, written, tapped>>

\* A query arrives and a goroutine starts to handle it.
Serve(h) ==
  /\ pc[h] = "idle"
  /\ \E q \in ClientQuery : /\ query' = [query EXCEPT ![h] = q]
                      /\ rid' = [rid EXCEPT ![h] = q.id]
  /\ pc' = [pc EXCEPT ![h] = "route"]
  /\ asked' = [asked EXCEPT ![h] = <<>>]
  /\ written' = [written EXCEPT ![h] = <<>>]
  /\ tapped' = [tapped EXCEPT ![h] = None]
  /\ UNCHANGED <<reply, newID, records>>

\* w.WriteMsg(u): it fails if u cannot be packed or the socket does not take it.
\* No caller does more about that than count it: the client gets nothing.
Write(h, u) ==
  \E m \in {u, None} : written' = [written EXCEPT ![h] = Append(@, m)]

\* dns.HandleFailed(w, r): a SERVFAIL with the ID that r has.
HandleFailed(h, id) ==
  /\ Write(h, [id |-> id, size |-> MinMsgSize, truncated |-> FALSE])
  /\ pc' = [pc EXCEPT ![h] = "idle"]

\* More or less than one question.
RejectQuestions(h) ==
  /\ pc[h] = "route" /\ ~query[h].single
  /\ HandleFailed(h, rid[h])
  /\ UNCHANGED <<query, rid, reply, newID, records, asked, tapped>>

\* Where Handler sends the query: an override comes before the server for
\* unqualified names, which comes before the resolver.
Route(q) ==
  IF q.name \in Overridden THEN "override"
  ELSE IF unqUpstream /\ q.name \in Unqualified THEN "unqualified"
  ELSE "resolver"

\* dns.Exchange(r, override) or dns.Exchange(r, s.unqUpstream) is called.
Forward(h) ==
  /\ pc[h] = "route" /\ query[h].single
  /\ Route(query[h]) \in {"override", "unqualified"}
  /\ asked' = [asked EXCEPT ![h] = Append(@, Route(query[h]))]
  /\ pc' = [pc EXCEPT ![h] = "exchange"]
  /\ UNCHANGED <<query, rid, reply, newID, records, written, tapped>>

\* dns.Exchange accepts only a response with the ID of the query.
ExchangeReply(h) ==
  /\ pc[h] = "exchange"
  /\ \E u \in Message : u.id = rid[h] /\ reply' = [reply EXCEPT ![h] = u]
  /\ pc' = [pc EXCEPT ![h] = "capture"]
  /\ UNCHANGED <<query, rid, newID, records, asked, written, tapped>>

ExchangeError_Fallthrough(h) ==
  /\ pc[h] = "exchange"
  /\ asked' = [asked EXCEPT ![h] = Append(@, "resolver")]
  /\ pc' = [pc EXCEPT ![h] = "resolve"]
  /\ UNCHANGED <<query, rid, reply, newID, records, written, tapped>>

\* The server did not answer, or not in time: the query is not tried elsewhere.
ExchangeError(h) ==
  /\ pc[h] = "exchange"
  /\ HandleFailed(h, rid[h])
  /\ UNCHANGED <<query, rid, reply, newID, records, asked, tapped>>

\* r.Id = <-newID, which waits for the generator, and s.resolver.Query(r).
Resolve(h) ==
  /\ pc[h] = "route" /\ query[h].single
  /\ Route(query[h]) = "resolver"
  /\ newID # <<>>
  /\ rid' = [rid EXCEPT ![h] = Head(newID)]
  /\ newID' = Tail(newID)
  /\ asked' = [asked EXCEPT ![h] = Append(@, "resolver")]
  /\ pc' = [pc EXCEPT ![h] = "resolve"]
  /\ UNCHANGED <<query, reply, records, written, tapped>>

\* A resolver may return any ID: fromUp.Id = oldid.  r keeps its new ID.
ResolverReply(h) ==
  /\ pc[h] = "resolve"
  /\ \E u \in Message :
       reply' = [reply EXCEPT ![h] = [u EXCEPT !.id = query[h].id]]
  /\ pc' = [pc EXCEPT ![h] = "capture"]
  /\ UNCHANGED <<query, rid, newID, records, asked, written, tapped>>

ResolverError_NewID(h) ==
  /\ pc[h] = "resolve"
  /\ HandleFailed(h, rid[h])
  /\ UNCHANGED <<query, rid, reply, newID, records, asked, tapped>>

\* r.Id = oldid, then HandleFailed.
ResolverError(h) ==
  /\ pc[h] = "resolve"
  /\ rid' = [rid EXCEPT ![h] = query[h].id]
  /\ HandleFailed(h, query[h].id)
  /\ UNCHANGED <<query, reply, newID, records, asked, tapped>>

(***************************************************************************)
(* writeReply.                                                             *)
(***************************************************************************)
Capture_Blocking(h) ==
  /\ pc[h] = "capture"
  /\ dnstap => records < Records
  /\ records' = IF dnstap THEN records + 1 ELSE records
  /\ tapped' = IF dnstap
       THEN [tapped EXCEPT ![h] = [query |-> rid[h], response |-> reply[h].id]]
       ELSE tapped
  /\ pc' = [pc EXCEPT ![h] = "write"]
  /\ UNCHANGED <<query, rid, reply, newID, asked, written>>

\* s.dnstap.Capture(r, reply, ...): the record is dropped if there is no room.
Capture(h) ==
  /\ pc[h] = "capture"
  /\ IF dnstap /\ records < Records
       THEN /\ records' = records + 1
            /\ tapped' = [tapped EXCEPT ![h] =
                  [query |-> rid[h], response |-> reply[h].id]]
       ELSE UNCHANGED <<records, tapped>>
  /\ pc' = [pc EXCEPT ![h] = "write"]
  /\ UNCHANGED <<query, rid, reply, newID, asked, written>>

\* The exporter takes a record from the channel (see DnstapWriter).
Export ==
  /\ records > 0
  /\ records' = records - 1
  /\ UNCHANGED <<pc, query, rid, reply, newID, asked, written, tapped>>

\* The size of the client's buffer.
maxSize(q) == IF q.edns = None THEN MinMsgSize ELSE q.edns

\* reply.Truncate(max): a buffer below MinMsgSize counts as MinMsgSize, and a
\* message that does not fit loses records until it does.
Truncations(u, max) ==
  LET limit == IF max < MinMsgSize THEN MinMsgSize ELSE max
  IN IF u.size <= limit THEN {u}
     ELSE {[u EXCEPT !.size = n, !.truncated = TRUE] :
             n \in {k \in Size \cup {MinMsgSize} : k <= limit}}

Fitted(q, u) == IF q.net = "udp" THEN Truncations(u, maxSize(q)) ELSE {u}

\* w.WriteMsg(reply), cut to the client's buffer.
WriteMsg(h) ==
  /\ pc[h] = "write"
  /\ \E u \in Fitted(query[h], reply[h]) : Write(h, u)
  /\ reply' = [reply EXCEPT ![h] = None]
  /\ pc' = [pc EXCEPT ![h] = "idle"]
  /\ UNCHANGED <<query, rid, newID, records, asked, tapped>>

\* What a handler does next, once it has been started.
Step(h) ==
  \/ RejectQuestions(h) \/ Forward(h) \/ ExchangeReply(h) \/ ExchangeError(h)
  \/ Resolve(h) \/ ResolverReply(h) \/ ResolverError(h)
  \/ Capture(h) \/ WriteMsg(h)

Next == GenerateID \/ Export \/ \E h \in Handler : Serve(h) \/ Step(h)

Spec == Init /\ [][Next]_vars

\* The goroutines run, and upstreams answer or time out.  A receive from newID
\* is served in turn, so a handler that waits for an ID gets one even if others
\* keep taking them.  The exporter may stop for ever, its collector stalled.
FairSpec ==
  /\ Spec
  /\ WF_vars(GenerateID)
  /\ \A h \in Handler : SF_vars(Resolve(h)) /\ WF_vars(Step(h))

-----------------------------------------------------------------------------
\* Types of the variables.
TypeOK ==
  /\ pc \in [Handler -> {"idle", "route", "exchange", "resolve", "capture",
                         "write"}]
  /\ query \in [Handler -> Query \cup {None}]
  /\ rid \in [Handler -> ID \cup {None}]
  /\ reply \in [Handler -> Message \cup {None}]
  /\ newID \in Seq(ID) /\ Len(newID) <= NewIDs
  /\ records \in 0..Records
  /\ asked \in [Handler -> Seq({"override", "unqualified", "resolver"})]
  /\ written \in [Handler -> Seq(Message \cup {None})]
  /\ tapped \in [Handler -> [query : ID, response : ID] \cup {None}]

\* A query gets at most one message: WriteMsg is called for it exactly once,
\* whatever fails on the way, and the client gets nothing only if that call
\* fails.  What it gets it can use: the message has the ID that the client chose,
\* although the ID is replaced on the way to the resolver, and, whichever
\* upstream it comes from, over UDP it fits in the buffer that the client has
\* announced, or in 512 bytes.
OneUsableReply ==
  \A h \in Handler :
    /\ pc[h] # "idle" => written[h] = <<>>
    /\ pc[h] = "idle" /\ query[h] # None =>
         LET q == query[h]
             m == written[h][1]
         IN /\ Len(written[h]) = 1
            /\ m # None =>
                 /\ m.id = q.id
                 /\ q.net = "udp" => m.size <=
                      IF maxSize(q) < MinMsgSize THEN MinMsgSize ELSE maxSize(q)

\* A query goes to one upstream only: a name with an override, or an
\* unqualified one when there is a server for those, never leaks to the
\* resolver, not even when its own server fails.
NoLeakUpstream ==
  \A h \in Handler : asked[h] # <<>> => asked[h] = <<Route(query[h])>>

\* The handling of every query comes to its end, even if all handlers compete for the newID channel
\* and the dnstap channel is full for good (Capture: "It never blocks the DNS
\* server").
EveryQueryAnswered == \A h \in Handler : pc[h] # "idle" ~> pc[h] = "idle"

\* The two halves of a dnstap record belong together: their IDs are equal
\* (Capture: "records a DNS query/response pair").
PairHasOneID ==
  \A h \in Handler : tapped[h] # None => tapped[h].query = tapped[h].response

=============================================================================
