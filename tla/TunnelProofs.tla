----------------------------- MODULE TunnelProofs -----------------------------
(***************************************************************************)
(* First the rotation of HTTP clients, for any number of requests and any  *)
(* timeouts with Timeout <= RotateAfter: how many clients can be in use,   *)
(* when one may be replaced, and how long errors can last.                 *)
(*                                                                         *)
(* Then dnss at both ends, for any number of handlers too, and any         *)
(* network: the composed resolver is a DoHResolver, so that all this holds *)
(* of it, and what it takes for an answer is the answer to its own query.  *)
(***************************************************************************)
EXTENDS Tunnel, TLAPS

\* The variables keep their types; in particular no request outlives Timeout.
THEOREM TypeCorrect == Spec => []TypeOK
<1> USE DoHAssumption DEF Clients, Long
<1>1. Init => TypeOK
  <2> SUFFICES ASSUME Init PROVE TypeOK
    OBVIOUS
  <2>1. tick \in BOOLEAN
    BY Zenon DEF Init
  <2>2. /\ 0 \in Clients /\ 0 \in 0..Timeout /\ 0 \in 0..(Period - 1)
        /\ Long \in 0..Long
    OBVIOUS
  <2> QED
    BY <2>1, <2>2 DEF Init, TypeOK
<1>2. TypeOK /\ [Next]_vars => TypeOK'
  <2> SUFFICES ASSUME TypeOK, [Next]_vars PROVE TypeOK'
    OBVIOUS
  <2> USE DEF TypeOK, history
  <2>1. ASSUME NEW r \in Request, Query(r) PROVE TypeOK'
    BY <2>1 DEF Query
  <2>2. ASSUME NEW r \in Request, PostFails(r) PROVE TypeOK'
    BY <2>2 DEF PostFails, firstError, Leave
  <2>3. ASSUME NEW r \in Request, PostSucceeds(r) PROVE TypeOK'
    BY <2>3 DEF PostSucceeds, firstErrorAfterSuccess
  <2>4. ASSUME NEW r \in Request, Return(r) PROVE TypeOK'
    BY <2>4 DEF Return, Leave
  <2>5. CASE maybeRotateClient
    <3>1. tick' \in BOOLEAN
      BY <2>5, Zenon DEF maybeRotateClient
    <3>2. /\ client' \in Clients /\ sinceRot' \in 0..Long
          /\ firstErr' \in Nat \cup {None} /\ failing' \in Nat \cup {None}
      <4>1. CASE Rotate
        BY <4>1 DEF Rotate, Newer
      <4>2. CASE UNCHANGED <<client, firstErr, failing, sinceRot>>
        BY <4>2
      <4> QED
        BY <2>5, <4>1, <4>2 DEF maybeRotateClient
    <3> QED
      BY <2>5, <3>1, <3>2 DEF maybeRotateClient, request
  <2>6. CASE TimePasses
    <3>1. posting' \in [Request -> 0..Timeout]
      BY <2>6 DEF TimePasses, InFlight
    <3>2. /\ phase' \in 0..(Period - 1) /\ tick' \in BOOLEAN
          /\ sinceRot' \in 0..Long
          /\ firstErr' \in Nat \cup {None} /\ failing' \in Nat \cup {None}
      BY <2>6 DEF TimePasses, Later
    <3> QED
      BY <2>6, <3>1, <3>2 DEF TimePasses
  <2>7. CASE UNCHANGED vars
    BY <2>7 DEF vars, request
  <2> QED
    BY <2>1, <2>2, <2>3, <2>4, <2>5, <2>6, <2>7 DEF Next, Progress
<1> QED
  BY <1>1, <1>2, PTL DEF Spec

\* A step keeps every request in flight on the current client or the one before
\* it, because a rotation comes later after the last than any request lives.
LEMMA RotationStep ==
  TypeOK /\ RotationHistory /\ [Next]_vars => RotationHistory'
<1> SUFFICES ASSUME TypeOK, RotationHistory, [Next]_vars PROVE RotationHistory'
  OBVIOUS
<1> USE DoHAssumption
    DEF TypeOK, RotationHistory, InFlight, Clients, Long, history
<1>1. ASSUME NEW r \in Request, Query(r) PROVE RotationHistory'
  BY <1>1 DEF Query
<1>2. ASSUME NEW r \in Request, PostFails(r) PROVE RotationHistory'
  <2>1. InFlight' \subseteq InFlight
    BY <1>2 DEF PostFails, Leave
  <2>2. firstErr' # None => firstErr' <= sinceRot' \/ sinceRot' = Long
    BY <1>2 DEF PostFails, firstError, Leave
  <2> QED
    BY <1>2, <2>1, <2>2 DEF PostFails, Leave
<1>3. ASSUME NEW r \in Request, PostSucceeds(r) PROVE RotationHistory'
  BY <1>3 DEF PostSucceeds, firstErrorAfterSuccess
<1>4. ASSUME NEW r \in Request, Return(r) PROVE RotationHistory'
  BY <1>4 DEF Return, Leave
<1>5. CASE maybeRotateClient
  <2>1. CASE Overdue /\ Rotate
    <3>1. sinceRot = Long
      BY <2>1 DEF Overdue
    <3>2. \A r \in InFlight : using[r] = client
      BY <3>1
    <3> QED
      BY <1>5, <2>1, <3>2 DEF maybeRotateClient, Rotate, Newer, request
  <2>2. CASE UNCHANGED <<client, firstErr, failing, sinceRot>>
    BY <1>5, <2>2 DEF maybeRotateClient, request
  <2> QED
    BY <1>5, <2>1, <2>2 DEF maybeRotateClient
<1>6. CASE TimePasses
  <2>1. ASSUME NEW r \in InFlight', using[r] # client
        PROVE client = Newer(using[r]) /\ sinceRot' <= posting'[r]
    BY <1>6, <2>1 DEF TimePasses, Later
  <2>2. firstErr' # None => firstErr' <= sinceRot' \/ sinceRot' = Long
    BY <1>6 DEF TimePasses, Later
  <2> QED
    BY <1>6, <2>1, <2>2 DEF TimePasses, Newer
<1>7. CASE UNCHANGED vars
  BY <1>7 DEF vars, request
<1> QED
  BY <1>1, <1>2, <1>3, <1>4, <1>5, <1>6, <1>7 DEF Next, Progress

\* RotationHistory holds in every reachable state.
LEMMA RotationHistoryHolds == Spec => []RotationHistory
<1>1. Init => RotationHistory
  BY DEF Init, RotationHistory, InFlight
<1> QED
  BY <1>1, RotationStep, TypeCorrect, PTL DEF Spec

\* At most two clients have requests in flight: "we never have too many
\* in-flight connections".
THEOREM OldClientsBounded == Spec => []AtMostOneOldClient
<1>1. RotationHistory => AtMostOneOldClient
  BY DEF RotationHistory, AtMostOneOldClient
<1> QED
  BY <1>1, RotationHistoryHolds, PTL

\* StreakHistory holds in every reachable state.
LEMMA StreakHistoryHolds == Spec => []StreakHistory
<1> USE DoHAssumption DEF StreakHistory
<1>1. Init => StreakHistory
  BY DEF Init
<1>2. TypeOK /\ StreakHistory /\ [Next]_vars => StreakHistory'
  <2> SUFFICES ASSUME TypeOK, StreakHistory, [Next]_vars PROVE StreakHistory'
    OBVIOUS
  <2> USE DEF TypeOK, history
  <2>1. ASSUME NEW r \in Request, Query(r) PROVE StreakHistory'
    BY <2>1 DEF Query
  <2>2. ASSUME NEW r \in Request, PostFails(r) PROVE StreakHistory'
    BY <2>2 DEF PostFails, firstError, Leave
  <2>3. ASSUME NEW r \in Request, PostSucceeds(r) PROVE StreakHistory'
    BY <2>3 DEF PostSucceeds, firstErrorAfterSuccess
  <2>4. ASSUME NEW r \in Request, Return(r) PROVE StreakHistory'
    BY <2>4 DEF Return, Leave
  <2>5. CASE maybeRotateClient
    <3>1. CASE Rotate
      BY <2>5, <3>1 DEF maybeRotateClient, Rotate
    <3>2. CASE ~Overdue /\ UNCHANGED <<client, firstErr, failing, sinceRot>>
      BY <2>5, <3>2 DEF maybeRotateClient, Overdue
    <3> QED
      BY <2>5, <3>1, <3>2 DEF maybeRotateClient
  <2>6. CASE TimePasses
    <3>1. /\ ~tick /\ failing' = firstErr'
          /\ firstErr # None =>
               firstErr' = firstErr + 1 /\ firstErr <= RotateAfter + phase
          /\ firstErr = None => firstErr' = None
      BY <2>6 DEF TimePasses
    <3>2. CASE phase + 1 = Period
      <4>1. tick' /\ phase' = 0
        BY <2>6, <3>2 DEF TimePasses
      <4> QED
        BY <3>1, <3>2, <4>1
    <3>3. CASE phase + 1 # Period
      <4>1. ~tick' /\ phase' = phase + 1
        BY <2>6, <3>3 DEF TimePasses
      <4> QED
        BY <3>1, <4>1
    <3> QED
      BY <3>2, <3>3
  <2>7. CASE UNCHANGED vars
    BY <2>7 DEF vars
  <2> QED
    BY <2>1, <2>2, <2>3, <2>4, <2>5, <2>6, <2>7 DEF Next, Progress
<1> QED
  BY <1>1, <1>2, TypeCorrect, PTL DEF Spec

\* Errors last no longer than the threshold and one maintenance period.
THEOREM StreakIsBounded == Spec => []StreakBounded
<1>1. TypeOK /\ StreakHistory => StreakBounded
  BY DoHAssumption DEF TypeOK, StreakHistory, StreakBounded
<1> QED
  BY <1>1, StreakHistoryHolds, TypeCorrect, PTL

\* A client is replaced only after more than RotateAfter of errors and nothing
\* else, which all came after the last replacement.
THEOREM RotationIsJustified == Spec => RotationJustified
<1>1. TypeOK /\ StreakHistory /\ RotationHistory /\ [Next]_vars =>
        [client' # client => /\ failing # None /\ failing > RotateAfter
                             /\ sinceRot = Long]_vars
  <2> SUFFICES ASSUME TypeOK, StreakHistory, RotationHistory, Next,
                      client' # client
               PROVE  /\ failing # None /\ failing > RotateAfter
                      /\ sinceRot = Long
    OBVIOUS
  <2>1. Overdue
    BY DEF Next, Progress, Query, PostFails, PostSucceeds, Return, TimePasses,
           maybeRotateClient
  <2> QED
    BY <2>1, DoHAssumption
    DEF Overdue, TypeOK, StreakHistory, RotationHistory, Long
<1> QED
  BY <1>1, StreakHistoryHolds, RotationHistoryHolds, TypeCorrect, PTL
  DEF Spec, RotationJustified

-----------------------------------------------------------------------------
(***************************************************************************)
(* The resolver: every step of the tunnel is one of DoHResolver or leaves  *)
(* its variables alone.                                                    *)
(***************************************************************************)

\* A step of the tunnel is a step of the resolver or a stutter.
LEMMA ResolverStep == [TunnelNext]_tunnelVars => [Next]_vars
<1> SUFFICES ASSUME [TunnelNext]_tunnelVars PROVE [Next]_vars
  OBVIOUS
<1>1. ASSUME NEW r \in Request, Ask(r) PROVE [Next]_vars
  BY <1>1 DEF Ask, Next
<1>2. ASSUME NEW r \in Request, Finish(r) PROVE [Next]_vars
  BY <1>2 DEF Finish, GiveUp, Headers, ReadBody, Next, Progress
<1>3. CASE Maintain
  BY <1>3 DEF Maintain, Next
<1>4. ASSUME NEW h \in Handler,
             \/ \E r \in Request : AcceptPost(h, r)
             \/ AcceptForeign(h) \/ Handle(h) \/ Respond(h)
      PROVE [Next]_vars
  BY <1>4, Zenon DEF AcceptPost, AcceptForeign, Accept, Handle, Respond
<1>5. CASE Cut
  BY <1>5 DEF Cut
<1>6. CASE Time
  BY <1>6 DEF Time, Next
<1>7. CASE UNCHANGED tunnelVars
  BY <1>7 DEF tunnelVars
<1> QED
  BY <1>1, <1>2, <1>3, <1>4, <1>5, <1>6, <1>7 DEF TunnelNext

\* The resolver of a tunnel behaves as DoHResolver says, whatever the server and
\* the network do.
THEOREM ResolverImplemented == TunnelSpec => Spec
<1>1. TunnelInit => Init
  BY DEF TunnelInit
<1> QED
  BY <1>1, ResolverStep, PTL DEF TunnelSpec, Spec

\* A server that answers, be it with an error, keeps its connections: the client
\* is replaced only if no response has been heard of for the whole time.
THEOREM RotationOnlyUnheard == TunnelSpec => RotatesOnlyUnheard
<1>1. [client' # client => /\ failing # None /\ failing > RotateAfter
                           /\ sinceRot = Long]_vars
      => [client' # client => failing # None /\ failing > RotateAfter
         ]_tunnelVars
  BY DEF vars
<1> QED
  BY <1>1, ResolverImplemented, RotationIsJustified, PTL
  DEF RotationJustified, RotatesOnlyUnheard

-----------------------------------------------------------------------------
(***************************************************************************)
(* The server.                                                             *)
(***************************************************************************)

\* A reply that Resolve can go on with, and how it was had: at once, or over TCP
\* because it was truncated.
Replied(h) ==
  \/ udp[h] = "complete" /\ tcp[h] = None
  \/ udp[h] = "truncated" /\ tcp[h] \in {"complete", "truncated"}

\* What is sent agrees with the exchange that decided it.
SentOK(h) ==
  /\ response[h] \in Server!Response
  /\ response[h].status = 504 <=> Last(h) = "timeout"
  /\ response[h].status = 502 <=> Last(h) = "error"
  /\ response[h].status = 200 =>
       /\ Replied(h)
       /\ response[h].content \in {"reply", "servfail", "empty"}
       /\ response[h].truncated <=>
            response[h].content = "reply" /\ Last(h) = "truncated"
  /\ response[h].truncated => tcp[h] = "truncated"
  /\ tcp[h] # None => udp[h] = "truncated"

\* What a handler knows at each place of Resolve.
HandlerStage(h) ==
  /\ hpc[h] \in {"idle", "resolve", "unpack", "udp", "tcp", "reply"}
  /\ hpc[h] # "idle" => response[h] = None
  /\ hpc[h] \in {"resolve", "unpack", "udp"} => udp[h] = None /\ tcp[h] = None
  /\ hpc[h] = "tcp" => udp[h] = "truncated" /\ tcp[h] = None
  /\ hpc[h] = "reply" => Replied(h)
  /\ response[h] # None => SentOK(h)

\* The server's part of the invariant.
HandlersOK == Server!TypeOK /\ \A h \in Handler : HandlerStage(h)

\* Initially no handler is at work.
LEMMA HandlersInit == TunnelInit => HandlersOK
<1> SUFFICES ASSUME TunnelInit PROVE HandlersOK
  OBVIOUS
<1>1. Server!Init
  BY DEF TunnelInit
<1>2. Server!TypeOK
  BY <1>1 DEF Server!Init, Server!TypeOK
<1>3. ASSUME NEW h \in Handler PROVE HandlerStage(h)
  BY <1>1 DEF Server!Init, HandlerStage
<1> QED
  BY <1>2, <1>3 DEF HandlersOK

\* A step that leaves the variables of a handler alone leaves its stage alone.
LEMMA StageKept ==
  ASSUME NEW h \in Handler, HandlerStage(h),
         hpc'[h] = hpc[h], udp'[h] = udp[h], tcp'[h] = tcp[h],
         response'[h] = response[h]
  PROVE  HandlerStage(h)'
BY DEF HandlerStage, SentOK, Replied, Last

\* The others go on as they were.
Apart(h) ==
  \A g \in Handler \ {h} :
    /\ hpc'[g] = hpc[g] /\ response'[g] = response[g]
    /\ udp'[g] = udp[g] /\ tcp'[g] = tcp[g]

Places == {"idle", "resolve", "unpack", "udp", "tcp", "reply"}
Statuses == {200, 400, 408, 415, 502, 504}

\* Resolve of h sends a response and is over.
Sends(h, status, content, truncated) ==
  /\ hpc' \in [Handler -> Places]
  /\ response' \in [Handler -> Server!Response \cup {None}]
  /\ hpc'[h] = "idle"
  /\ response'[h] \in Server!Response
  /\ response'[h].status = status /\ response'[h].content = content
  /\ response'[h].truncated = truncated
  /\ \A g \in Handler \ {h} : hpc'[g] = hpc[g] /\ response'[g] = response[g]

\* Resolve of h goes on.
GoesOn(h, where) ==
  /\ hpc' \in [Handler -> Places]
  /\ response' = response
  /\ hpc'[h] = where
  /\ \A g \in Handler \ {h} : hpc'[g] = hpc[g]

\* What Send does, with a response of the right type.
LEMMA Sending ==
  ASSUME Server!TypeOK, NEW h \in Handler, NEW status \in Statuses,
         NEW kind \in {"text", "dns-message", "json"},
         NEW content \in Server!Content, NEW truncated \in BOOLEAN,
         Server!Send(h, status, kind, content, truncated)
  PROVE  Sends(h, status, content, truncated)
<1> DEFINE m == [status |-> status, kind |-> kind, content |-> content,
                 truncated |-> truncated]
<1>1. /\ m \in Server!Response
      /\ m.status = status /\ m.content = content /\ m.truncated = truncated
  BY DEF Server!Response, Statuses
<1>2. /\ response' = [response EXCEPT ![h] = m]
      /\ hpc' = [hpc EXCEPT ![h] = "idle"]
  BY Zenon DEF Server!Send
<1> HIDE DEF m
<1>3. /\ hpc' \in [Handler -> Places]
      /\ hpc'[h] = "idle"
      /\ \A g \in Handler \ {h} : hpc'[g] = hpc[g]
  BY <1>2 DEF Server!TypeOK, Places
<1>4. /\ response' \in [Handler -> Server!Response \cup {None}]
      /\ response'[h] = m
      /\ \A g \in Handler \ {h} : response'[g] = response[g]
  BY <1>1, <1>2 DEF Server!TypeOK
<1> QED
  BY <1>1, <1>3, <1>4, Zenon DEF Sends

\* What http.Error does.
LEMMA SendingError ==
  ASSUME Server!TypeOK, NEW h \in Handler, NEW status \in Statuses,
         Server!Error(h, status)
  PROVE  Sends(h, status, "error", FALSE)
<1>1. "error" \in Server!Content
  BY DEF Server!Content
<1> QED
  BY <1>1, Sending, Zenon DEF Server!Error

\* Resolve goes on, with the same response as before, none.
LEMMA Proceeding ==
  ASSUME Server!TypeOK, NEW h \in Handler,
         NEW where \in {"unpack", "udp", "tcp", "reply"},
         Server!Proceed(h, where)
  PROVE  GoesOn(h, where)
BY DEF Server!Proceed, Server!TypeOK, GoesOn, Places

\* Up to the exchanges: the request is refused, or Resolve goes on.
Examines(h) ==
  /\ hpc[h] \in {"resolve", "unpack"}
  /\ \/ Sends(h, 400, "error", FALSE)
     \/ Sends(h, 415, "error", FALSE)
     \/ GoesOn(h, "unpack") \/ GoesOn(h, "udp")
  /\ UNCHANGED <<hreq, udp, tcp>>
  /\ hjson' \in [Handler -> BOOLEAN]

\* The paths of Resolve up to the exchange, as one kind of step.
LEMMA ExamineSteps ==
  ASSUME Server!TypeOK, NEW h \in Handler,
         \/ Server!ResolveGet(h) \/ Server!ResolveJSON(h)
         \/ Server!ResolvePost(h) \/ Server!ResolveUnknown(h)
         \/ Server!Unpack(h)
  PROVE  Examines(h)
<1>1. 400 \in Statuses /\ 415 \in Statuses
  BY DEF Statuses
<1>2. /\ "unpack" \in {"unpack", "udp", "tcp", "reply"}
      /\ "udp" \in {"unpack", "udp", "tcp", "reply"}
  OBVIOUS
<1>3. /\ Server!Error(h, 400) => Sends(h, 400, "error", FALSE)
      /\ Server!Error(h, 415) => Sends(h, 415, "error", FALSE)
      /\ Server!Proceed(h, "unpack") => GoesOn(h, "unpack")
      /\ Server!Proceed(h, "udp") => GoesOn(h, "udp")
  BY <1>1, <1>2, SendingError, Proceeding, Zenon
<1>4. hjson' = hjson \/ hjson' = [hjson EXCEPT ![h] = TRUE]
  BY Zenon DEF Server!ResolveGet, Server!ResolveJSON, Server!ResolvePost,
               Server!ResolveUnknown, Server!Unpack
<1>5. hjson' \in [Handler -> BOOLEAN]
  BY <1>4 DEF Server!TypeOK
<1>6. CASE Server!ResolveGet(h)
  BY <1>3, <1>5, <1>6 DEF Server!ResolveGet, Examines
<1>7. CASE Server!ResolveJSON(h)
  BY <1>3, <1>5, <1>7, ZenonT(40) DEF Server!ResolveJSON, Examines
<1>8. CASE Server!ResolvePost(h)
  BY <1>3, <1>5, <1>8, ZenonT(40) DEF Server!ResolvePost, Examines
<1>9. CASE Server!ResolveUnknown(h)
  BY <1>3, <1>5, <1>9 DEF Server!ResolveUnknown, Examines
<1>10. CASE Server!Unpack(h)
  BY <1>3, <1>5, <1>10, ZenonT(40) DEF Server!Unpack, Examines
<1> QED
  BY <1>6, <1>7, <1>8, <1>9, <1>10

\* How an exchange ends, and what Resolve does then: an error of the upstream is
\* reported as it is.
Decides(h, o) ==
  \/ o = "timeout" /\ Sends(h, 504, "error", FALSE)
  \/ o = "error" /\ Sends(h, 502, "error", FALSE)
  \/ o = "complete" /\ GoesOn(h, "reply")

ExchangesUDP(h) ==
  /\ hpc[h] = "udp"
  /\ \E o \in Server!Outcome :
       /\ udp' = [udp EXCEPT ![h] = o]
       /\ Decides(h, o) \/ (o = "truncated" /\ GoesOn(h, "tcp"))
  /\ UNCHANGED <<hreq, hjson, tcp>>

ExchangesTCP(h) ==
  /\ hpc[h] = "tcp"
  /\ \E o \in Server!Outcome :
       /\ tcp' = [tcp EXCEPT ![h] = o]
       /\ Decides(h, o) \/ (o = "truncated" /\ GoesOn(h, "reply"))
  /\ UNCHANGED <<hreq, hjson, udp>>

\* exchange, over UDP and then TCP, as two kinds of steps.
LEMMA ExchangeSteps ==
  ASSUME Server!TypeOK, NEW h \in Handler
  PROVE  /\ Server!ExchangeUDP(h) => ExchangesUDP(h)
         /\ Server!ExchangeTCP(h) => ExchangesTCP(h)
<1>1. 502 \in Statuses /\ 504 \in Statuses
  BY DEF Statuses
<1>2. /\ "tcp" \in {"unpack", "udp", "tcp", "reply"}
      /\ "reply" \in {"unpack", "udp", "tcp", "reply"}
  OBVIOUS
<1>3. /\ Server!Error(h, 502) => Sends(h, 502, "error", FALSE)
      /\ Server!Error(h, 504) => Sends(h, 504, "error", FALSE)
      /\ Server!Proceed(h, "tcp") => GoesOn(h, "tcp")
      /\ Server!Proceed(h, "reply") => GoesOn(h, "reply")
  BY <1>1, <1>2, SendingError, Proceeding, ZenonT(40)
<1>4. ASSUME NEW o \in Server!Outcome, Server!Failed(o),
             Server!Error(h, Server!ErrorStatus(o))
      PROVE  Decides(h, o)
  BY <1>3, <1>4, ZenonT(40) DEF Server!Failed, Server!ErrorStatus, Decides
<1>5. ASSUME NEW o \in Server!Outcome, ~Server!Failed(o)
      PROVE  o \in {"complete", "truncated"}
  BY <1>5 DEF Server!Failed, Server!Outcome
<1>6. Server!ExchangeUDP(h) => ExchangesUDP(h)
  <2> SUFFICES ASSUME Server!ExchangeUDP(h) PROVE ExchangesUDP(h)
    OBVIOUS
  <2>1. PICK o \in Server!Outcome :
          /\ udp' = [udp EXCEPT ![h] = o]
          /\ \/ Server!Failed(o) /\ Server!Error(h, Server!ErrorStatus(o))
             \/ o = "complete" /\ Server!Proceed(h, "reply")
             \/ o = "truncated" /\ Server!Proceed(h, "tcp")
    BY Zenon DEF Server!ExchangeUDP
  <2>2. Decides(h, o) \/ (o = "truncated" /\ GoesOn(h, "tcp"))
    BY <1>3, <1>4, <2>1, ZenonT(40) DEF Decides
  <2> QED
    BY <2>1, <2>2, Zenon DEF Server!ExchangeUDP, ExchangesUDP
<1>7. Server!ExchangeTCP(h) => ExchangesTCP(h)
  <2> SUFFICES ASSUME Server!ExchangeTCP(h) PROVE ExchangesTCP(h)
    OBVIOUS
  <2>1. PICK o \in Server!Outcome :
          /\ tcp' = [tcp EXCEPT ![h] = o]
          /\ \/ Server!Failed(o) /\ Server!Error(h, Server!ErrorStatus(o))
             \/ ~Server!Failed(o) /\ Server!Proceed(h, "reply")
    BY Zenon DEF Server!ExchangeTCP
  <2>2. Decides(h, o) \/ (o = "truncated" /\ GoesOn(h, "reply"))
    BY <1>3, <1>4, <1>5, <2>1 DEF Decides
  <2> QED
    BY <2>1, <2>2, Zenon DEF Server!ExchangeTCP, ExchangesTCP
<1> QED
  BY <1>6, <1>7

\* The rest of Resolve: the reply of the upstream, or what is in its place.
Replies(h) ==
  /\ hpc[h] = "reply"
  /\ \/ Sends(h, 200, "reply", Server!ReplyTruncated(h))
     \/ \E c \in {"servfail", "empty"} : Sends(h, 200, c, FALSE)
  /\ UNCHANGED <<hreq, hjson, udp, tcp>>

\* The end of Resolve: the reply is sent, with its status.
LEMMA ReplySteps ==
  ASSUME Server!TypeOK, NEW h \in Handler, Server!SendReply(h)
  PROVE  Replies(h)
<1>1. /\ 200 \in Statuses
      /\ Server!ReplyTruncated(h) \in BOOLEAN /\ FALSE \in BOOLEAN
      /\ "json" \in {"text", "dns-message", "json"}
      /\ "dns-message" \in {"text", "dns-message", "json"}
  BY DEF Statuses, Server!ReplyTruncated
<1>2. /\ "reply" \in Server!Content
      /\ "servfail" \in Server!Content /\ "empty" \in Server!Content
  BY DEF Server!Content
<1>3. ASSUME NEW c \in Server!Content, NEW t \in BOOLEAN
      PROVE  /\ Server!Send(h, 200, "json", c, t) => Sends(h, 200, c, t)
             /\ Server!Send(h, 200, "dns-message", c, t) => Sends(h, 200, c, t)
  BY <1>1, Sending, ZenonT(40)
<1>4. \/ Sends(h, 200, "reply", Server!ReplyTruncated(h))
      \/ Sends(h, 200, "servfail", FALSE) \/ Sends(h, 200, "empty", FALSE)
  BY <1>1, <1>2, <1>3, ZenonT(40) DEF Server!SendReply
<1> QED
  BY <1>4 DEF Server!SendReply, Replies

\* A step of Resolve is of one of these kinds.
LEMMA StepKinds ==
  ASSUME Server!TypeOK, NEW h \in Handler, Server!Step(h)
  PROVE  Examines(h) \/ ExchangesUDP(h) \/ ExchangesTCP(h) \/ Replies(h)
BY ExamineSteps, ExchangeSteps, ReplySteps, Zenon DEF Server!Step

\* A step of Resolve keeps the types, and does not touch the other handlers.
LEMMA StepTypes ==
  ASSUME Server!TypeOK, NEW h \in Handler, Server!Step(h)
  PROVE  Server!TypeOK' /\ Apart(h)
<1> USE DEF Server!TypeOK, Apart, Sends, GoesOn, Places
<1>1. CASE Examines(h)
  BY <1>1 DEF Examines
<1>2. CASE ExchangesUDP(h)
  BY <1>2 DEF ExchangesUDP, Decides
<1>3. CASE ExchangesTCP(h)
  BY <1>3 DEF ExchangesTCP, Decides
<1>4. CASE Replies(h)
  BY <1>4 DEF Replies
<1> QED
  BY <1>1, <1>2, <1>3, <1>4, StepKinds, Zenon

\* What a step of Resolve sends, or goes on with, agrees with the exchanges.
LEMMA StepStage ==
  ASSUME Server!TypeOK, NEW h \in Handler, HandlerStage(h), Server!Step(h)
  PROVE  HandlerStage(h)'
<1>0. /\ None # "complete" /\ None # "truncated"
      /\ None # "timeout" /\ None # "error"
  BY TunnelAssumption DEF Server!Outcome
<1>1. CASE Examines(h)
  BY <1>0, <1>1
  DEF Examines, HandlerStage, SentOK, Replied, Last, Sends, GoesOn, Places
<1>2. CASE ExchangesUDP(h)
  BY <1>0, <1>2
  DEF ExchangesUDP, Decides, Server!TypeOK, Server!Outcome, HandlerStage,
      SentOK, Replied, Last, Sends, GoesOn, Places
<1>3. CASE ExchangesTCP(h)
  BY <1>0, <1>3
  DEF ExchangesTCP, Decides, Server!TypeOK, Server!Outcome, HandlerStage,
      SentOK, Replied, Last, Sends, GoesOn, Places
<1>4. CASE Replies(h)
  <2>1. PICK r : r = Server!ReplyTruncated(h)
    OBVIOUS
  <2>2. r \in BOOLEAN
    BY <2>1 DEF Server!ReplyTruncated
  <2>3. PICK c \in {"reply", "servfail", "empty"}, t \in BOOLEAN :
          Sends(h, 200, c, t) /\ (t <=> c = "reply" /\ r)
    BY <1>4, <2>1, <2>2 DEF Replies
  <2>4. hpc[h] = "reply" /\ tcp' = tcp /\ udp' = udp
    BY <1>4 DEF Replies
  <2>5. Replied(h)
    BY <2>4 DEF HandlerStage
  <2>6. (r <=> Last(h) = "truncated") /\ (r => tcp[h] = "truncated")
    BY <1>0, <2>1, <2>5 DEF Server!ReplyTruncated, Replied, Last
  <2> QED
    BY <1>0, <2>3, <2>4, <2>5, <2>6
    DEF HandlerStage, SentOK, Replied, Last, Sends, Places
<1> QED
  BY <1>1, <1>2, <1>3, <1>4, StepKinds, Zenon

\* A request arrives at an idle handler, from the resolver or another program.
LEMMA AcceptKeeps ==
  ASSUME HandlersOK, NEW h \in Handler, NEW m \in Server!HTTPRequest,
         Server!Accept(h, m)
  PROVE  HandlersOK'
<1>1. Server!TypeOK'
  BY DEF HandlersOK, Server!TypeOK, Server!Accept
<1>2. HandlerStage(h)'
  BY DEF HandlersOK, Server!TypeOK, Server!Accept, HandlerStage
<1>3. ASSUME NEW g \in Handler, g # h PROVE HandlerStage(g)'
  <2>1. HandlerStage(g)
    BY DEF HandlersOK
  <2> QED
    BY <1>3, <2>1, StageKept DEF HandlersOK, Server!TypeOK, Server!Accept
<1> QED
  BY <1>1, <1>2, <1>3 DEF HandlersOK

\* A handler that has responded forgets everything.
LEMMA RespondKeeps ==
  ASSUME HandlersOK, NEW h \in Handler, Respond(h)
  PROVE  HandlersOK'
<1>1. Server!TypeOK'
  BY DEF HandlersOK, Server!TypeOK, Respond
<1>2. HandlerStage(h)'
  BY DEF HandlersOK, Server!TypeOK, Respond, HandlerStage
<1>3. ASSUME NEW g \in Handler, g # h PROVE HandlerStage(g)'
  <2>1. HandlerStage(g)
    BY DEF HandlersOK
  <2> QED
    BY <1>3, <2>1, StageKept DEF HandlersOK, Server!TypeOK, Respond
<1> QED
  BY <1>1, <1>2, <1>3 DEF HandlersOK

\* Every step of the tunnel keeps what the handlers know.
LEMMA HandlersStep == HandlersOK /\ [TunnelNext]_tunnelVars => HandlersOK'
<1> SUFFICES ASSUME HandlersOK, [TunnelNext]_tunnelVars PROVE HandlersOK'
  OBVIOUS
<1>1. ASSUME NEW h \in Handler, NEW r \in Request, AcceptPost(h, r)
      PROVE  HandlersOK'
  <2>1. PICK m \in Posts : Server!Accept(h, m)
    BY <1>1, Zenon DEF AcceptPost, Accept
  <2>2. m \in Server!HTTPRequest
    <3>1. Post \in Server!HTTPRequest
      BY DEF Post, Server!HTTPRequest
    <3>2. [Post EXCEPT !.body = FALSE] \in Server!HTTPRequest
      BY <3>1 DEF Server!HTTPRequest
    <3>3. [Post EXCEPT !.unpacks = FALSE] \in Server!HTTPRequest
      BY <3>1 DEF Server!HTTPRequest
    <3> QED
      BY <3>1, <3>2, <3>3 DEF Posts
  <2> QED
    BY <2>1, <2>2, AcceptKeeps, Zenon
<1>2. ASSUME NEW h \in Handler, AcceptForeign(h) PROVE HandlersOK'
  <2>1. PICK m \in Foreign : Server!Accept(h, m)
    BY <1>2, Zenon DEF AcceptForeign, Accept
  <2>2. m \in Server!HTTPRequest
    BY TunnelAssumption, Zenon
  <2> QED
    BY <2>1, <2>2, AcceptKeeps, Zenon
<1>3. ASSUME NEW h \in Handler, Handle(h) PROVE HandlersOK'
  <2>1. Server!Step(h) /\ Server!TypeOK /\ HandlerStage(h)
    BY <1>3, Zenon DEF Handle, HandlersOK
  <2>2. Server!TypeOK' /\ Apart(h) /\ HandlerStage(h)'
    BY <2>1, StepTypes, StepStage, Zenon
  <2>3. ASSUME NEW g \in Handler, g # h PROVE HandlerStage(g)'
    <3>1. HandlerStage(g)
      BY DEF HandlersOK
    <3> QED
      BY <2>2, <2>3, <3>1, StageKept DEF Apart
  <2> QED
    BY <2>2, <2>3 DEF HandlersOK
<1>4. ASSUME NEW h \in Handler, Respond(h) PROVE HandlersOK'
  BY <1>4, RespondKeeps, Zenon
<1>5. ASSUME UNCHANGED <<hpc, hreq, hjson, udp, tcp, response>>
      PROVE  HandlersOK'
  <2>1. Server!TypeOK'
    BY <1>5 DEF HandlersOK, Server!TypeOK
  <2>2. ASSUME NEW h \in Handler PROVE HandlerStage(h)'
    BY <1>5, <2>2, StageKept DEF HandlersOK
  <2> QED
    BY <2>1, <2>2 DEF HandlersOK
<1>6. \/ \E h \in Handler : \/ \E r \in Request : AcceptPost(h, r)
                            \/ AcceptForeign(h) \/ Handle(h) \/ Respond(h)
      \/ UNCHANGED <<hpc, hreq, hjson, udp, tcp, response>>
  <2>1. ASSUME NEW r \in Request, Ask(r) \/ Finish(r)
        PROVE  UNCHANGED <<hpc, hreq, hjson, udp, tcp, response>>
    BY <2>1
    DEF Ask, Finish, GiveUp, Headers, ReadBody, Close, server
  <2>2. Maintain \/ Cut \/ Time \/ UNCHANGED tunnelVars
          => UNCHANGED <<hpc, hreq, hjson, udp, tcp, response>>
    BY DEF Maintain, Cut, Time, server, tunnelVars
  <2> QED
    BY <2>1, <2>2, Zenon DEF TunnelNext
<1> QED
  BY <1>1, <1>2, <1>3, <1>4, <1>5, <1>6, Zenon

\* HandlersOK holds in every reachable state.
LEMMA HandlersHold == TunnelSpec => []HandlersOK
BY HandlersInit, HandlersStep, PTL DEF TunnelSpec

\* A client is not given a truncated reply that could have been had in full.
THEOREM AnswersComplete == TunnelSpec => []CompleteIfPossible
<1>1. HandlersOK => CompleteIfPossible
  BY DEF HandlersOK, CompleteIfPossible, Server!CompleteIfPossible,
         Server!Answered, HandlerStage, SentOK
<1> QED
  BY <1>1, HandlersHold, PTL

\* The status of a response tells what the DNS upstream did in the exchange that
\* decided, and a second exchange happens only for a truncated reply: "Other UDP
\* failures are returned as-is".
THEOREM FailuresNotMasked == TunnelSpec => []FailureNotMasked
<1>1. HandlersOK => FailureNotMasked
  BY DEF HandlersOK, FailureNotMasked, Server!FailureNotMasked,
         Server!Answered, HandlerStage, SentOK, Last
<1> QED
  BY <1>1, HandlersHold, PTL

-----------------------------------------------------------------------------
(***************************************************************************)
(* Responses on their way, and what Query makes of them.                   *)
(***************************************************************************)

\* A response to the last query of r, with the exchange that decided it.
Genuine(m, r) ==
  /\ m.question = Current(r)
  /\ m.status = 200 =>
       /\ m.content \in {"reply", "servfail", "empty"}
       /\ m.last \in {"complete", "truncated"}
       /\ m.truncated <=> m.content = "reply" /\ m.last = "truncated"

\* What Query takes for an answer.
Taken(m, r) == m.status = 200 /\ m.content # "empty" /\ Genuine(m, r)

StreamTypes ==
  /\ peer \in [Handler -> Request \cup {None}]
  /\ question = [h \in Handler |-> question[h]]
  /\ asked = [r \in Request |-> asked[r]]
  /\ stream \in [Request -> {"none", "request", "handler", "response"}]
  /\ received = [r \in Request |-> received[r]]
  /\ result = [r \in Request |-> result[r]]
  /\ pc \in [Request -> {"idle", "post", "body"}]

\* What has been received is there from the time it is on its way until Query is
\* over, and Query is reading it in between.  Nobody works for a query that is
\* over, and whoever works for one that is not has read just that.
RequestOK(r) ==
  /\ stream[r] = "response" => Genuine(received[r], r)
  /\ pc[r] = "body" => stream[r] = "response"
  /\ result[r] # None => Taken(result[r], r)
  /\ \A h \in Handler :
       peer[h] = r => pc[r] # "idle" /\ question[h] = Current(r)
  /\ pc[r] = "idle" => stream[r] = "none"

StreamsOK == StreamTypes /\ \A r \in Request : RequestOK(r)

\* Initially there is nothing on any stream.
LEMMA StreamsInit == TunnelInit => StreamsOK
<1> SUFFICES ASSUME TunnelInit PROVE StreamsOK
  OBVIOUS
<1>1. StreamTypes
  BY DEF TunnelInit, Init, StreamTypes
<1>2. ASSUME NEW r \in Request PROVE RequestOK(r)
  BY TunnelAssumption DEF TunnelInit, Init, RequestOK
<1> QED
  BY <1>1, <1>2 DEF StreamsOK

\* A step that leaves what concerns query r alone, and has no handler begin to
\* work for it.
LEMMA RequestKept ==
  ASSUME NEW r \in Request, RequestOK(r),
         pc'[r] = pc[r], asked'[r] = asked[r], stream'[r] = stream[r],
         received'[r] = received[r], result'[r] = result[r],
         \A h \in Handler : peer'[h] = r =>
                              peer[h] = r /\ question'[h] = question[h]
  PROVE  RequestOK(r)'
BY DEF RequestOK, Genuine, Taken, Current

\* Query ends, and its stream is reset: what it may take for an answer is
\* acceptable and was received.
LEMMA CloseKeeps ==
  ASSUME StreamsOK, NEW r \in Request, NEW how, Close(r, how), Leave(r),
         how # None => Taken(how, r)
  PROVE  StreamsOK'
<1>0. None \notin Request
  BY TunnelAssumption
<1>1. /\ peer' \in [Handler -> Request \cup {None}]
      /\ stream' \in [Request -> {"none", "request", "handler", "response"}]
      /\ pc' \in [Request -> {"idle", "post", "body"}]
      /\ stream'[r] = "none" /\ pc'[r] = "idle"
      /\ \A q \in Request \ {r} : stream'[q] = stream[q] /\ pc'[q] = pc[q]
  BY DEF Close, Leave, StreamsOK, StreamTypes
<1>2. /\ received' = [q \in Request |-> received'[q]]
      /\ \A q \in Request \ {r} : received'[q] = received[q]
  BY DEF Close, StreamsOK, StreamTypes
<1>3. /\ result' = [q \in Request |-> result'[q]]
      /\ result'[r] = how
      /\ \A q \in Request \ {r} : result'[q] = result[q]
  BY DEF Close, StreamsOK, StreamTypes
<1>4. asked' = asked /\ question' = question
  BY DEF Close
<1>5. \A h \in Handler : /\ peer'[h] # r
                         /\ \A q \in Request : peer'[h] = q => peer[h] = q
  BY <1>0 DEF Close
<1>6. StreamTypes'
  <2>1. /\ asked' = [q \in Request |-> asked'[q]]
        /\ question' = [h \in Handler |-> question'[h]]
    BY <1>4 DEF StreamsOK, StreamTypes
  <2> QED
    BY <1>1, <1>2, <1>3, <2>1, Zenon DEF StreamTypes
<1>7. RequestOK(r)'
  BY <1>1, <1>3, <1>4, <1>5 DEF RequestOK, Genuine, Taken, Current
<1>8. ASSUME NEW q \in Request, q # r PROVE RequestOK(q)'
  <2>1. RequestOK(q)
    BY DEF StreamsOK
  <2> QED
    BY <1>1, <1>2, <1>3, <1>4, <1>5, <1>8, <2>1, RequestKept
<1> QED
  BY <1>6, <1>7, <1>8 DEF StreamsOK

\* What a handler sends is genuine, and its client is still waiting.
LEMMA RespondStreams ==
  ASSUME HandlersOK, StreamsOK, NEW h \in Handler, Respond(h)
  PROVE  StreamsOK'
<1>0. /\ pc' = pc /\ result' = result /\ asked' = asked
      /\ None \notin Request
  BY TunnelAssumption DEF Respond, vars, request
<1>1. /\ \A g \in Handler \ {h} : peer'[g] = peer[g] /\ question'[g] = question[g]
      /\ peer'[h] = None
      /\ peer' \in [Handler -> Request \cup {None}]
      /\ question' = [g \in Handler |-> question'[g]]
  BY DEF Respond, StreamsOK, StreamTypes
<1>2. StreamTypes'
  <2>1. /\ stream' \in [Request -> {"none", "request", "handler", "response"}]
        /\ received' = [r \in Request |-> received'[r]]
    BY DEF Respond, StreamsOK, StreamTypes
  <2> QED
    BY <1>0, <1>1, <2>1 DEF StreamsOK, StreamTypes
<1>3. ASSUME NEW r \in Request PROVE RequestOK(r)'
  <2>0. RequestOK(r)
    BY DEF StreamsOK
  <2>1. \A g \in Handler : peer'[g] = r =>
                             peer[g] = r /\ question'[g] = question[g]
    BY <1>0, <1>1
  <2>2. CASE peer[h] = r
    <3> DEFINE m == [status |-> response[h].status, kind |-> response[h].kind,
                     content |-> response[h].content,
                     truncated |-> response[h].truncated,
                     question |-> question[h], last |-> Last(h)]
    <3>1. SentOK(h)
      BY DEF Respond, HandlersOK, HandlerStage
    <3>2. question[h] = Current(r) /\ pc[r] # "idle"
      BY <2>0, <2>2 DEF RequestOK
    <3>3. Genuine(m, r)
      <4>1. None # "complete" /\ None # "truncated"
        BY TunnelAssumption DEF Server!Outcome
      <4>2. response[h].status = 200 =>
              /\ Last(h) \in {"complete", "truncated"}
              /\ response[h].content \in {"reply", "servfail", "empty"}
              /\ response[h].truncated <=>
                   response[h].content = "reply" /\ Last(h) = "truncated"
        BY <3>1, <4>1 DEF SentOK, Replied, Last
      <4> QED
        BY <3>2, <4>2 DEF Genuine
    <3>4. stream'[r] = "response" /\ received'[r] = m
      BY <1>0, <2>2 DEF Respond, StreamsOK, StreamTypes
    <3> HIDE DEF m
    <3> QED
      BY <1>0, <2>0, <2>1, <3>2, <3>3, <3>4
      DEF RequestOK, Genuine, Taken, Current
  <2>3. CASE peer[h] # r
    <3>1. stream'[r] = stream[r] /\ received'[r] = received[r]
      BY <2>3 DEF Respond, StreamsOK, StreamTypes
    <3> QED
      BY <1>0, <2>0, <2>1, <3>1, RequestKept
  <2> QED
    BY <2>2, <2>3
<1> QED
  BY <1>2, <1>3 DEF StreamsOK

\* A handler takes up a query, which is not over as it is on its stream.
LEMMA AcceptStreams ==
  ASSUME StreamsOK, NEW h \in Handler, NEW r \in Request, AcceptPost(h, r)
  PROVE  StreamsOK'
<1>1. /\ pc' = pc /\ result' = result /\ received' = received /\ asked' = asked
      /\ stream[r] = "request" /\ stream' = [stream EXCEPT ![r] = "handler"]
      /\ peer' = [peer EXCEPT ![h] = r]
      /\ question' = [question EXCEPT ![h] = Current(r)]
  BY Zenon DEF AcceptPost, Accept, vars, request
<1>2. StreamTypes'
  BY <1>1 DEF StreamsOK, StreamTypes
<1>3. ASSUME NEW q \in Request PROVE RequestOK(q)'
  <2>1. RequestOK(q) /\ StreamTypes
    BY DEF StreamsOK
  <2>2. CASE q = r
    BY <1>1, <2>1, <2>2 DEF StreamTypes, RequestOK, Genuine, Taken, Current
  <2>3. CASE q # r
    <3>1. /\ stream'[q] = stream[q]
          /\ \A g \in Handler : peer'[g] = q =>
                                  peer[g] = q /\ question'[g] = question[g]
      BY <1>1, <2>1, <2>3 DEF StreamTypes
    <3> QED
      BY <1>1, <2>1, <3>1, RequestKept
  <2> QED
    BY <2>2, <2>3
<1> QED
  BY <1>2, <1>3 DEF StreamsOK

\* A new query starts with a stream of its own, and nobody works for it yet.
LEMMA AskStreams ==
  ASSUME StreamsOK, NEW r \in Request, Ask(r)
  PROVE  StreamsOK'
<1>1. /\ pc[r] = "idle" /\ pc' = [pc EXCEPT ![r] = "post"]
      /\ stream' = [stream EXCEPT ![r] = "request"]
      /\ result' = [result EXCEPT ![r] = None]
      /\ asked' = [asked EXCEPT ![r] = (@ + 1) % Numbers]
      /\ received' = received /\ peer' = peer /\ question' = question
  BY Zenon DEF Ask, Query, server
<1>2. StreamTypes'
  BY <1>1 DEF StreamsOK, StreamTypes
<1>3. ASSUME NEW q \in Request PROVE RequestOK(q)'
  <2>1. RequestOK(q) /\ StreamTypes
    BY DEF StreamsOK
  <2>2. CASE q = r
    BY <1>1, <2>1, <2>2 DEF StreamTypes, RequestOK
  <2>3. CASE q # r
    <3>1. /\ pc'[q] = pc[q] /\ asked'[q] = asked[q]
          /\ stream'[q] = stream[q] /\ result'[q] = result[q]
      BY <1>1, <2>1, <2>3 DEF StreamTypes
    <3> QED
      BY <1>1, <2>1, <3>1, RequestKept
  <2> QED
    BY <2>2, <2>3
<1> QED
  BY <1>2, <1>3 DEF StreamsOK

\* Every step of the tunnel keeps it.
LEMMA StreamsStep ==
  HandlersOK /\ StreamsOK /\ [TunnelNext]_tunnelVars => StreamsOK'
<1> SUFFICES ASSUME HandlersOK, StreamsOK, [TunnelNext]_tunnelVars
             PROVE  StreamsOK'
  OBVIOUS
<1>1. ASSUME NEW r \in Request, Ask(r) PROVE StreamsOK'
  BY <1>1, AskStreams, Zenon
<1>2. ASSUME NEW r \in Request, GiveUp(r) PROVE StreamsOK'
  <2>1. Close(r, None) /\ Leave(r)
    BY <1>2, Zenon DEF GiveUp, PostFails
  <2> QED
    BY <2>1, CloseKeeps, Zenon
<1>3. ASSUME NEW r \in Request, Headers(r) PROVE StreamsOK'
  <2>1. /\ stream[r] = "response" /\ pc[r] = "post"
        /\ pc' = [pc EXCEPT ![r] = "body"]
        /\ UNCHANGED <<stream, received, result, asked, peer, question>>
    BY <1>3, Zenon DEF Headers, PostSucceeds, net, server
  <2>2. StreamTypes'
    BY <2>1 DEF StreamsOK, StreamTypes
  <2>3. ASSUME NEW q \in Request PROVE RequestOK(q)'
    BY <2>1 DEF StreamsOK, StreamTypes, RequestOK, Genuine, Taken, Current
  <2> QED
    BY <2>2, <2>3 DEF StreamsOK
<1>4. ASSUME NEW r \in Request, ReadBody(r) PROVE StreamsOK'
  <2>1. Leave(r) /\ pc[r] = "body"
    BY <1>4, Zenon DEF ReadBody, Return
  <2>2. Genuine(received[r], r)
    BY <2>1 DEF StreamsOK, RequestOK
  <2>3. CASE Close(r, None)
    BY <2>1, <2>3, CloseKeeps, Zenon
  <2>4. CASE Acceptable(received[r]) /\ Close(r, received[r])
    <3>1. PICK m : m = received[r]
      OBVIOUS
    <3>2. Close(r, m) /\ Taken(m, r)
      BY <2>2, <2>4, <3>1, Zenon DEF Acceptable, Taken
    <3> QED
      BY <2>1, <3>2, CloseKeeps, Zenon
  <2> QED
    BY <1>4, <2>3, <2>4, Zenon DEF ReadBody
<1>5. ASSUME NEW h \in Handler, NEW r \in Request, AcceptPost(h, r)
      PROVE  StreamsOK'
  BY <1>5, AcceptStreams, Zenon
<1>6. ASSUME NEW h \in Handler, Respond(h) PROVE StreamsOK'
  BY <1>6, RespondStreams, Zenon
<1>7. ASSUME NEW h \in Handler, AcceptForeign(h) PROVE StreamsOK'
  <2>1. /\ UNCHANGED <<pc, stream, received, result, asked>>
        /\ peer' = [peer EXCEPT ![h] = None]
        /\ question' = [question EXCEPT ![h] = None]
    BY <1>7, Zenon DEF AcceptForeign, Accept, vars, request
  <2>2. StreamTypes'
    BY <2>1 DEF StreamsOK, StreamTypes
  <2>3. ASSUME NEW r \in Request PROVE RequestOK(r)'
    <3>1. RequestOK(r) /\ StreamTypes
      BY DEF StreamsOK
    <3>2. \A g \in Handler : peer'[g] = r =>
                               peer[g] = r /\ question'[g] = question[g]
      BY <2>1, <3>1, TunnelAssumption DEF StreamTypes
    <3> QED
      BY <2>1, <3>1, <3>2, RequestKept
  <2> QED
    BY <2>2, <2>3 DEF StreamsOK
<1>8. ASSUME UNCHANGED <<pc, stream, received, result, asked, peer, question>>
      PROVE  StreamsOK'
  <2>1. StreamTypes'
    BY <1>8 DEF StreamsOK, StreamTypes
  <2>2. ASSUME NEW r \in Request PROVE RequestOK(r)'
    BY <1>8, RequestKept DEF StreamsOK
  <2> QED
    BY <2>1, <2>2 DEF StreamsOK
<1>9. ASSUME (\E h \in Handler : Handle(h)) \/ Maintain \/ Cut \/ Time
             \/ UNCHANGED tunnelVars
      PROVE  UNCHANGED <<pc, stream, received, result, asked, peer, question>>
  <2>1. ASSUME NEW h \in Handler, Handle(h)
        PROVE  UNCHANGED <<pc, stream, received, result, asked, peer, question>>
    BY <2>1 DEF Handle, vars, request, net
  <2>2. Maintain \/ Cut \/ Time \/ UNCHANGED tunnelVars
          => UNCHANGED <<pc, stream, received, result, asked, peer, question>>
    BY DEF Maintain, maybeRotateClient, Cut, Time, TimePasses, tunnelVars, vars,
           request, net, server
  <2> QED
    BY <1>9, <2>1, <2>2
<1> QED
  BY <1>1, <1>2, <1>3, <1>4, <1>5, <1>6, <1>7, <1>8, <1>9, Zenon
  DEF TunnelNext, Finish

\* What Query returns as an answer is for the query that it was called with, and
\* is what the DNS upstream of the server replied to that, in full if it could be
\* had, or the SERVFAIL that the server puts in the place of such a reply which
\* cannot be packed: whichever exchanges, connections and requests failed before
\* or around it, and however late the answers to other queries come.
THEOREM AnswersAreOwn == TunnelSpec => []OnlyOwnAnswers
<1>1. StreamsOK => OnlyOwnAnswers
  BY DEF StreamsOK, RequestOK, Genuine, Taken, OnlyOwnAnswers
<1> QED
  BY <1>1, StreamsInit, StreamsStep, HandlersHold, PTL DEF TunnelSpec

=============================================================================
