--------------------------- MODULE DnsServerProofs ---------------------------
(***************************************************************************)
(* The handlers of DNS queries, for any number of them, any IDs, sizes and *)
(* overrides: each query gets at most one reply, which its client can use, *)
(* and is sent to one upstream only.                                       *)
(***************************************************************************)
EXTENDS DnsServer, SequenceTheorems, TLAPS

Upstream == {"override", "unqualified", "resolver"}
PC == {"idle", "route", "exchange", "resolve", "capture", "write"}

\* The largest message that the client of q can take over UDP.
Limit(q) == IF maxSize(q) < MinMsgSize THEN MinMsgSize ELSE maxSize(q)

\* What the client of query q may get.
Got == Message \cup {None}

\* What the message written for query q has to be.
Usable(q, u) == u.id = q.id /\ (q.net = "udp" => u.size <= Limit(q))

\* What a handler knows at each stage p of its work on query q: the ID i of its
\* message, the reply u, the upstreams a it has asked and its calls w of
\* WriteMsg.
Stage(p, q, i, u, a, w) ==
  /\ p # "idle" => q \in Query /\ i \in ID /\ w = <<>>
  /\ p = "route" => i = q.id /\ a = <<>>
  /\ p = "exchange" => i = q.id
  /\ p \in {"exchange", "resolve", "capture", "write"} => a = <<Route(q)>>
  /\ p \in {"capture", "write"} => u \in Message /\ u.id = q.id
  /\ p = "idle" => a = <<>> \/ a = <<Route(q)>>
  /\ p = "idle" /\ q # None => Len(w) = 1 /\ (w[1] # None => Usable(q, w[1]))

HandlerOK(h) ==
  Stage(pc[h], query[h], rid[h], reply[h], asked[h], written[h])

Inv == TypeOK /\ \A h \in Handler : HandlerOK(h)

(***************************************************************************)
(* Messages.                                                               *)
(***************************************************************************)
\* Handler sends a query to one of the three upstreams.
LEMMA RouteType == \A q \in Query : Route(q) \in Upstream
  BY Zenon DEF Route, Upstream

\* The first call of WriteMsg is the only one.
LEMMA OneMessage ==
  ASSUME NEW u \in Got
  PROVE  /\ Append(<<>>, u) \in Seq(Got)
         /\ Len(Append(<<>>, u)) = 1 /\ Append(<<>>, u)[1] = u
<1>1. <<>> \in Seq(Got) /\ Len(<<>>) = 0
  BY EmptySeq
<1> QED
  BY <1>1, AppendProperties

\* The first upstream asked is the only one.
LEMMA OneUpstream ==
  ASSUME NEW a \in Upstream
  PROVE  /\ Append(<<>>, a) = <<a>>
         /\ <<a>> \in Seq(Upstream)
  OBVIOUS

\* The smallest message is one, with the ID of any query, and fits any buffer.
LEMMA SmallestFits ==
  ASSUME NEW q \in Query, NEW i \in ID
  PROVE  LET u == [id |-> i, size |-> MinMsgSize, truncated |-> FALSE]
         IN u \in Message /\ u.id = i /\ u.size <= Limit(q)
<1>1. q.edns = None \/ q.edns \in Nat
  BY ServerAssumption DEF Query
<1>2. maxSize(q) \in Nat
  BY <1>1, ServerAssumption DEF maxSize
<1>3. MinMsgSize <= Limit(q)
  BY <1>2, ServerAssumption DEF Limit
<1> QED
  BY <1>3 DEF Message

\* Truncation keeps the ID and makes the message fit.
LEMMA FittedFits ==
  ASSUME NEW q \in Query, NEW u \in Message, NEW v \in Fitted(q, u)
  PROVE  v \in Message /\ v.id = u.id /\ (q.net = "udp" => v.size <= Limit(q))
<1>1. CASE q.net # "udp"
  BY <1>1 DEF Fitted
<1>2. CASE q.net = "udp"
  <2>1. v \in Truncations(u, maxSize(q))
    BY <1>2 DEF Fitted
  <2>2. CASE u.size <= Limit(q)
    BY <1>2, <2>1, <2>2 DEF Truncations, Limit
  <2>3. CASE ~(u.size <= Limit(q))
    <3>1. PICK n \in {k \in Size \cup {MinMsgSize} : k <= Limit(q)} :
            v = [u EXCEPT !.size = n, !.truncated = TRUE]
      BY <2>1, <2>3 DEF Truncations, Limit
    <3> QED
      BY <3>1 DEF Message
  <2> QED
    BY <2>2, <2>3
<1> QED
  BY <1>1, <1>2

\* The goroutines start with nothing asked and nothing written.
LEMMA InitInv == Init => Inv
<1> SUFFICES ASSUME Init PROVE Inv
  OBVIOUS
<1>1. <<>> \in Seq(ID) /\ <<>> \in Seq(Upstream) /\ <<>> \in Seq(Got)
      /\ Len(<<>>) = 0
  BY EmptySeq
<1>2. TypeOK
  BY <1>1, ServerAssumption DEF Init, TypeOK, Upstream, Got
<1>3. ASSUME NEW h \in Handler PROVE HandlerOK(h)
  BY DEF Init, HandlerOK, Stage
<1> QED
  BY <1>2, <1>3 DEF Inv

(***************************************************************************)
(* Steps.                                                                  *)
(***************************************************************************)
\* The only variables that a step of handler h changes are its own.
OnlyItself(h) ==
  \A g \in Handler \ {h} :
    /\ pc'[g] = pc[g] /\ query'[g] = query[g] /\ rid'[g] = rid[g]
    /\ reply'[g] = reply[g] /\ asked'[g] = asked[g] /\ written'[g] = written[g]

\* What other handlers know is not disturbed.
LEMMA OthersOK ==
  ASSUME NEW h \in Handler, Inv, OnlyItself(h), HandlerOK(h)'
  PROVE  \A g \in Handler : HandlerOK(g)'
<1> SUFFICES ASSUME NEW g \in Handler, g # h PROVE HandlerOK(g)'
  OBVIOUS
<1>1. HandlerOK(g)
  BY DEF Inv
<1> QED
  BY <1>1 DEF OnlyItself, HandlerOK

\* HandleFailed keeps the types and is a usable reply if it has the client's ID.
LEMMA FailedReply ==
  ASSUME Inv, NEW h \in Handler, NEW i \in ID, HandleFailed(h, i),
         pc[h] # "idle", i = query[h].id,
         asked[h] = <<>> \/ asked[h] = <<Route(query[h])>>,
         UNCHANGED <<query, reply, asked>>, rid' \in [Handler -> ID \cup {None}],
         \A g \in Handler \ {h} : rid'[g] = rid[g]
  PROVE  /\ pc' \in [Handler -> PC] /\ written' \in [Handler -> Seq(Got)]
         /\ \A g \in Handler : HandlerOK(g)'
<1> DEFINE u == [id |-> i, size |-> MinMsgSize, truncated |-> FALSE]
<1>1. query[h] \in Query /\ written[h] = <<>>
  BY DEF Inv, HandlerOK, Stage
<1>2. u \in Message /\ Usable(query[h], u)
  BY <1>1, SmallestFits DEF Usable
<1>3. PICK m \in {u, None} : written' = [written EXCEPT ![h] = Append(<<>>, m)]
  BY <1>1 DEF HandleFailed, Write
<1>4. /\ pc' = [pc EXCEPT ![h] = "idle"]
      /\ m \in Got /\ (m # None => Usable(query[h], m))
  BY <1>2, <1>3 DEF HandleFailed, Got
<1>5. Append(<<>>, m) \in Seq(Got) /\ Len(Append(<<>>, m)) = 1
      /\ Append(<<>>, m)[1] = m
  BY <1>4, OneMessage
<1> HIDE DEF u
<1>6. pc' \in [Handler -> PC] /\ written' \in [Handler -> Seq(Got)]
  BY <1>3, <1>4, <1>5 DEF Inv, TypeOK, PC, Got
<1>7. HandlerOK(h)'
  <2>1. pc'[h] = "idle" /\ written'[h] = Append(<<>>, m)
    BY <1>3, <1>4 DEF Inv, TypeOK
  <2>2. Len(written'[h]) = 1 /\ written'[h][1] = m
    BY <1>5, <2>1
  <2>3. Stage("idle", query[h], rid'[h], reply'[h], asked[h], written'[h])
    BY <1>4, <2>2 DEF Stage
  <2> QED
    BY <2>1, <2>3 DEF HandlerOK
<1>8. OnlyItself(h)
  BY <1>3, <1>4 DEF OnlyItself, Inv, TypeOK
<1> QED
  BY <1>6, <1>7, <1>8, OthersOK

\* Each step keeps the types, and what each handler knows.
LEMMA NextInv == Inv /\ [Next]_vars => Inv'
<1> SUFFICES ASSUME Inv, [Next]_vars PROVE Inv'
  OBVIOUS
<1> USE ServerAssumption
<1>0. TypeOK /\ \A h \in Handler : HandlerOK(h)
  BY DEF Inv
\* A step that leaves the handlers alone.
<1>1. ASSUME UNCHANGED <<pc, query, rid, reply, asked, written, tapped>>,
             newID' \in Seq(ID), Len(newID') <= NewIDs, records' \in 0..Records
      PROVE  Inv'
  <2>1. TypeOK'
    BY <1>0, <1>1 DEF TypeOK
  <2>2. ASSUME NEW h \in Handler PROVE HandlerOK(h)'
    BY <1>0, <1>1 DEF HandlerOK
  <2> QED
    BY <2>1, <2>2 DEF Inv
<1>2. CASE GenerateID
  <2>1. PICK i \in ID : newID' = Append(newID, i)
    BY <1>2 DEF GenerateID
  <2>2. newID' \in Seq(ID) /\ Len(newID') = Len(newID) + 1
    BY <1>0, <2>1, AppendProperties DEF TypeOK
  <2> QED
    BY <1>0, <1>1, <1>2, <2>2, LenProperties DEF GenerateID, TypeOK
<1>3. CASE Export
  BY <1>0, <1>1, <1>3 DEF Export, TypeOK
<1>4. ASSUME NEW h \in Handler, Serve(h) PROVE Inv'
  <2>1. PICK q \in ClientQuery : /\ query' = [query EXCEPT ![h] = q]
                                 /\ rid' = [rid EXCEPT ![h] = q.id]
    BY <1>4 DEF Serve
  <2>2. q \in Query /\ q.id \in ID
    BY <2>1 DEF Query
  <2>3. <<>> \in Seq(Upstream) /\ <<>> \in Seq(Got)
    BY EmptySeq
  <2>4. TypeOK'
    BY <1>0, <1>4, <2>1, <2>2, <2>3 DEF Serve, TypeOK, Upstream, Got
  <2>5. HandlerOK(h)'
    BY <1>0, <1>4, <2>1, <2>2 DEF Serve, TypeOK, HandlerOK, Stage
  <2>6. OnlyItself(h)
    BY <1>0, <1>4, <2>1 DEF Serve, TypeOK, OnlyItself
  <2> QED
    BY <2>4, <2>5, <2>6, OthersOK DEF Inv
<1>5. ASSUME NEW h \in Handler, RejectQuestions(h) PROVE Inv'
  <2>1. /\ rid[h] \in ID /\ rid[h] = query[h].id /\ asked[h] = <<>>
        /\ pc[h] = "route"
    BY <1>0, <1>5 DEF RejectQuestions, HandlerOK, Stage, Query
  <2>2. /\ pc' \in [Handler -> PC] /\ written' \in [Handler -> Seq(Got)]
        /\ \A g \in Handler : HandlerOK(g)'
    BY <1>0, <1>5, <2>1, FailedReply DEF RejectQuestions, TypeOK
  <2>3. TypeOK'
    BY <1>0, <1>5, <2>2 DEF RejectQuestions, TypeOK, PC, Got
  <2> QED
    BY <2>2, <2>3 DEF Inv
<1>6. ASSUME NEW h \in Handler, Forward(h) PROVE Inv'
  <2>1. /\ query[h] \in Query /\ written[h] = <<>>
        /\ rid[h] \in ID /\ rid[h] = query[h].id
        /\ asked[h] = <<>>
    BY <1>0, <1>6 DEF Forward, HandlerOK, Stage
  <2>2. /\ Route(query[h]) \in Upstream
        /\ Append(<<>>, Route(query[h])) = <<Route(query[h])>>
        /\ <<Route(query[h])>> \in Seq(Upstream)
    BY <2>1, RouteType, OneUpstream
  <2>3. /\ asked' = [asked EXCEPT ![h] = <<Route(query[h])>>]
        /\ pc' = [pc EXCEPT ![h] = "exchange"]
        /\ UNCHANGED <<query, rid, reply, newID, records, written, tapped>>
    BY <1>0, <1>6, <2>1, <2>2 DEF Forward, TypeOK
  <2>4. TypeOK'
    BY <1>0, <2>2, <2>3 DEF TypeOK, Upstream
  <2>5. HandlerOK(h)'
    <3>1. Stage("exchange", query[h], rid[h], reply[h], <<Route(query[h])>>, written[h])
      BY <2>1 DEF Stage
    <3> QED
      BY <1>0, <2>3, <3>1 DEF HandlerOK, TypeOK
  <2>6. OnlyItself(h)
    BY <1>0, <2>3 DEF TypeOK, OnlyItself
  <2> QED
    BY <2>4, <2>5, <2>6, OthersOK DEF Inv
<1>7. ASSUME NEW h \in Handler, ExchangeReply(h) PROVE Inv'
  <2>1. PICK u \in Message : u.id = rid[h] /\ reply' = [reply EXCEPT ![h] = u]
    BY <1>7 DEF ExchangeReply
  <2>2. TypeOK'
    BY <1>0, <1>7, <2>1 DEF ExchangeReply, TypeOK
  <2>3. /\ query[h] \in Query /\ written[h] = <<>>
        /\ rid[h] \in ID /\ rid[h] = query[h].id
        /\ asked[h] = <<Route(query[h])>>
    BY <1>0, <1>7 DEF ExchangeReply, HandlerOK, Stage
  <2>4. Stage("capture", query[h], rid[h], u, asked[h], written[h])
    BY <2>1, <2>3 DEF Stage
  <2>5. HandlerOK(h)'
    BY <1>0, <1>7, <2>1, <2>4 DEF ExchangeReply, HandlerOK, TypeOK
  <2>6. OnlyItself(h)
    BY <1>0, <1>7, <2>1 DEF ExchangeReply, TypeOK, OnlyItself
  <2> QED
    BY <2>2, <2>5, <2>6, OthersOK DEF Inv
<1>8. ASSUME NEW h \in Handler, ExchangeError(h) PROVE Inv'
  <2>1. /\ rid[h] \in ID /\ rid[h] = query[h].id
        /\ asked[h] = <<Route(query[h])>> /\ pc[h] = "exchange"
    BY <1>0, <1>8 DEF ExchangeError, HandlerOK, Stage, Query
  <2>2. /\ pc' \in [Handler -> PC] /\ written' \in [Handler -> Seq(Got)]
        /\ \A g \in Handler : HandlerOK(g)'
    BY <1>0, <1>8, <2>1, FailedReply DEF ExchangeError, TypeOK
  <2>3. TypeOK'
    BY <1>0, <1>8, <2>2 DEF ExchangeError, TypeOK, PC, Got
  <2> QED
    BY <2>2, <2>3 DEF Inv
<1>9. ASSUME NEW h \in Handler, Resolve(h) PROVE Inv'
  <2>1. /\ query[h] \in Query /\ written[h] = <<>> /\ asked[h] = <<>>
        /\ Route(query[h]) = "resolver"
    BY <1>0, <1>9 DEF Resolve, HandlerOK, Stage
  <2>2. /\ Append(<<>>, Route(query[h])) = <<Route(query[h])>>
        /\ <<Route(query[h])>> \in Seq(Upstream)
    BY <2>1, RouteType, OneUpstream
  <2>3. /\ Head(newID) \in ID /\ Tail(newID) \in Seq(ID)
        /\ Len(Tail(newID)) = Len(newID) - 1
    BY <1>0, <1>9, HeadTailProperties DEF Resolve, TypeOK
  <2>4. /\ asked' = [asked EXCEPT ![h] = <<Route(query[h])>>]
        /\ pc' = [pc EXCEPT ![h] = "resolve"]
        /\ rid' = [rid EXCEPT ![h] = Head(newID)]
        /\ newID' = Tail(newID)
        /\ UNCHANGED <<query, reply, records, written, tapped>>
    BY <1>0, <1>9, <2>1, <2>2 DEF Resolve, TypeOK
  <2>5. TypeOK'
    BY <1>0, <2>2, <2>3, <2>4, LenProperties DEF TypeOK, Upstream
  <2>6. Stage("resolve", query[h], Head(newID), reply[h], <<Route(query[h])>>, written[h])
    BY <2>1, <2>3 DEF Stage
  <2>7. HandlerOK(h)'
    BY <1>0, <2>4, <2>6 DEF HandlerOK, TypeOK
  <2>8. OnlyItself(h)
    BY <1>0, <2>4 DEF TypeOK, OnlyItself
  <2> QED
    BY <2>5, <2>7, <2>8, OthersOK DEF Inv
<1>10. ASSUME NEW h \in Handler, ResolverReply(h) PROVE Inv'
  <2>1. /\ query[h] \in Query /\ rid[h] \in ID /\ written[h] = <<>>
        /\ asked[h] = <<Route(query[h])>>
    BY <1>0, <1>10 DEF ResolverReply, HandlerOK, Stage
  <2>2. PICK u \in Message :
          reply' = [reply EXCEPT ![h] = [u EXCEPT !.id = query[h].id]]
    BY <1>10 DEF ResolverReply
  <2> DEFINE v == [u EXCEPT !.id = query[h].id]
  <2>3. v \in Message /\ v.id = query[h].id
    BY <2>1 DEF Query, Message
  <2>4. reply' = [reply EXCEPT ![h] = v]
    BY <2>2
  <2> HIDE DEF v
  <2>5. TypeOK'
    BY <1>0, <1>10, <2>3, <2>4 DEF ResolverReply, TypeOK
  <2>6. Stage("capture", query[h], rid[h], v, asked[h], written[h])
    BY <2>1, <2>3 DEF Stage
  <2>7. HandlerOK(h)'
    BY <1>0, <1>10, <2>4, <2>6 DEF ResolverReply, HandlerOK, TypeOK
  <2>8. OnlyItself(h)
    BY <1>0, <1>10, <2>4 DEF ResolverReply, TypeOK, OnlyItself
  <2> QED
    BY <2>5, <2>7, <2>8, OthersOK DEF Inv
<1>11. ASSUME NEW h \in Handler, ResolverError(h) PROVE Inv'
  <2>1. /\ query[h].id \in ID /\ asked[h] = <<Route(query[h])>>
        /\ pc[h] = "resolve"
    BY <1>0, <1>11 DEF ResolverError, HandlerOK, Stage, Query
  <2>2. /\ rid' \in [Handler -> ID \cup {None}]
        /\ \A g \in Handler \ {h} : rid'[g] = rid[g]
    BY <1>0, <1>11, <2>1 DEF ResolverError, TypeOK
  <2>3. /\ pc' \in [Handler -> PC] /\ written' \in [Handler -> Seq(Got)]
        /\ \A g \in Handler : HandlerOK(g)'
    BY <1>0, <1>11, <2>1, <2>2, FailedReply DEF ResolverError
  <2>4. TypeOK'
    BY <1>0, <1>11, <2>2, <2>3 DEF ResolverError, TypeOK, PC, Got
  <2> QED
    BY <2>3, <2>4 DEF Inv
<1>12. ASSUME NEW h \in Handler, Capture(h) PROVE Inv'
  <2>1. /\ query[h] \in Query /\ rid[h] \in ID /\ written[h] = <<>>
        /\ asked[h] = <<Route(query[h])>>
        /\ reply[h] \in Message /\ reply[h].id = query[h].id
    BY <1>0, <1>12 DEF Capture, HandlerOK, Stage
  <2>2. Stage("write", query[h], rid[h], reply[h], asked[h], written[h])
    BY <2>1 DEF Stage
  <2>3. /\ pc' = [pc EXCEPT ![h] = "write"]
        /\ UNCHANGED <<query, rid, reply, newID, asked, written>>
    BY <1>12 DEF Capture
  <2> DEFINE pair == [query |-> rid[h], response |-> reply[h].id]
             Pair == [query : ID, response : ID] \cup {None}
  <2>4. pair \in Pair
    BY <2>1 DEF Message
  <2>5. \/ records < Records /\ records' = records + 1
           /\ tapped' = [tapped EXCEPT ![h] = pair]
        \/ UNCHANGED <<records, tapped>>
    BY <1>12, Zenon DEF Capture
  <2>6. records \in 0..Records /\ tapped \in [Handler -> Pair]
    BY <1>0 DEF TypeOK
  <2> HIDE DEF pair, Pair
  <2>7. tapped' \in [Handler -> Pair]
    BY <2>4, <2>5, <2>6
  <2>8. /\ records' \in 0..Records
        /\ tapped' \in [Handler -> [query : ID, response : ID] \cup {None}]
    BY <2>5, <2>6, <2>7 DEF Pair
  <2>9. TypeOK'
    BY <1>0, <2>3, <2>8 DEF TypeOK
  <2>10. HandlerOK(h)'
    BY <1>0, <2>2, <2>3 DEF HandlerOK, TypeOK
  <2>11. OnlyItself(h)
    BY <1>0, <2>3 DEF TypeOK, OnlyItself
  <2> QED
    BY <2>9, <2>10, <2>11, OthersOK DEF Inv
<1>13. ASSUME NEW h \in Handler, WriteMsg(h) PROVE Inv'
  <2>1. /\ query[h] \in Query /\ written[h] = <<>>
        /\ asked[h] = <<Route(query[h])>>
        /\ reply[h] \in Message /\ reply[h].id = query[h].id
    BY <1>0, <1>13 DEF WriteMsg, HandlerOK, Stage
  <2>2. PICK u \in Fitted(query[h], reply[h]) : Write(h, u)
    BY <1>13 DEF WriteMsg
  <2>3. u \in Message /\ Usable(query[h], u)
    BY <2>1, <2>2, FittedFits DEF Usable
  <2>4. PICK m \in {u, None} : written' = [written EXCEPT ![h] = Append(<<>>, m)]
    BY <2>1, <2>2 DEF Write
  <2>5. m \in Got /\ (m # None => Usable(query[h], m))
    BY <2>3, <2>4 DEF Got
  <2>6. Append(<<>>, m) \in Seq(Got) /\ Len(Append(<<>>, m)) = 1
        /\ Append(<<>>, m)[1] = m
    BY <2>5, OneMessage
  <2>7. /\ reply' = [reply EXCEPT ![h] = None]
        /\ pc' = [pc EXCEPT ![h] = "idle"]
        /\ UNCHANGED <<query, rid, newID, records, asked, tapped>>
    BY <1>13 DEF WriteMsg
  <2>8. TypeOK'
    BY <1>0, <2>4, <2>6, <2>7 DEF TypeOK, Got
  <2>9. Stage("idle", query[h], rid[h], None, asked[h], Append(<<>>, m))
    BY <2>1, <2>5, <2>6 DEF Stage
  <2>10. HandlerOK(h)'
    BY <1>0, <2>4, <2>7, <2>9 DEF HandlerOK, TypeOK
  <2>11. OnlyItself(h)
    BY <1>0, <2>4, <2>7 DEF TypeOK, OnlyItself
  <2> QED
    BY <2>8, <2>10, <2>11, OthersOK DEF Inv
<1>14. CASE UNCHANGED vars
  BY <1>0, <1>1, <1>14 DEF vars, TypeOK
<1> QED
  BY <1>2, <1>3, <1>4, <1>5, <1>6, <1>7, <1>8, <1>9, <1>10, <1>11, <1>12,
     <1>13, <1>14 DEF Next, Step

\* The invariant always holds.
LEMMA InvHolds == Spec => []Inv
  BY InitInv, NextInv, PTL DEF Spec

\* The variables have their types: neither channel holds more than its
\* capacity.
THEOREM TypeCorrect == Spec => []TypeOK
<1>1. Inv => TypeOK
  BY DEF Inv
<1> QED
  BY <1>1, InvHolds, PTL

\* A query that is done with got at most one message, nothing only because
\* WriteMsg failed, and one with the ID that its client chose and, over UDP, of a
\* size that its client can take.
THEOREM RepliesUsable == Spec => []OneUsableReply
<1>1. Inv => OneUsableReply
  <2> SUFFICES ASSUME Inv, NEW h \in Handler
               PROVE  /\ pc[h] # "idle" => written[h] = <<>>
                      /\ pc[h] = "idle" /\ query[h] # None =>
                           /\ Len(written[h]) = 1
                           /\ written[h][1] # None =>
                                Usable(query[h], written[h][1])
    BY DEF OneUsableReply, Usable, Limit
  <2> QED
    BY DEF Inv, HandlerOK, Stage
<1> QED
  BY <1>1, InvHolds, PTL

\* A query is sent to one upstream only, that of its name.
THEOREM NoLeaks == Spec => []NoLeakUpstream
<1>1. Inv => NoLeakUpstream
  <2> SUFFICES ASSUME Inv, NEW h \in Handler, asked[h] # <<>>
               PROVE  asked[h] = <<Route(query[h])>>
    BY DEF NoLeakUpstream
  <2>1. pc[h] \in {"idle", "route", "exchange", "resolve", "capture", "write"}
    BY DEF Inv, TypeOK
  <2> QED
    BY <2>1 DEF Inv, HandlerOK, Stage
<1> QED
  BY <1>1, InvHolds, PTL

=============================================================================
