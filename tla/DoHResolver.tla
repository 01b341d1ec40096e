------------------------------ MODULE DoHResolver ------------------------------
(***************************************************************************)
(* The DNS over HTTPS resolver of internal/httpresolver/resolver.go: the   *)
(* goroutines that Query from it share one http.Client, and the            *)
(* maintenance goroutine replaces that client when it keeps failing.       *)
(*                                                                         *)
(* An instant t is represented by the time since t, so that behaviours     *)
(* need no end of time.  Each section under r.mu is one step, with the     *)
(* local ones around it.  A tick that fired is handled before time passes. *)
(* newClient cannot fail (it returns a nil error always), so neither the   *)
(* error of Init nor that of maybeRotateClient is here.                    *)
(***************************************************************************)
EXTENDS Integers

CONSTANTS
  Request,      \* goroutines inside Query
  None,
  RotateAfter,  \* errors for longer than this rotate the client (10s)
  Timeout,      \* http.Client.Timeout (4s)
  Period        \* of Maintain's ticker (2s)

ASSUME DoHAssumption ==
  /\ RotateAfter \in Nat /\ Timeout \in Nat \ {0} /\ Period \in Nat \ {0}
  /\ Timeout <= RotateAfter
  /\ None \notin Nat

VARIABLES
  client,    \* r.client: clients are numbered modulo 3, in order of creation
  firstErr,  \* r.firstErr: time since it, None when zero
  pc, using, \* per request: where it is and the client it picked
  posting,   \* per request: time since client.Post was called
  phase,     \* time since the ticker last fired
  tick,      \* a tick waits in the ticker's channel
  failing,   \* history: time since the first error reported after the last
             \*   success or rotation, None if there is none
  sinceRot   \* history: time since the last rotation (saturates)

request == <<pc, using, posting>>
history == <<failing, sinceRot>>
vars == <<client, firstErr, request, phase, tick, history>>

\* Times beyond this are all the same to the properties.
Long == RotateAfter + 1

Clients == 0..2
Newer(k) == IF k = 2 THEN 0 ELSE k + 1

\* Requests that hold a connection of the client they picked.
InFlight == {r \in Request : pc[r] # "idle"}

-----------------------------------------------------------------------------
\* Init: a first client, no error.
Init ==
  /\ client = 0
  /\ firstErr = None
  /\ pc = [r \in Request |-> "idle"]
  /\ using = [r \in Request |-> 0]
  /\ posting = [r \in Request |-> 0]
  /\ phase = 0 /\ tick = FALSE
  /\ failing = None
  /\ sinceRot = Long

\* Query, up to the unlocked call of client.Post.  One that fails to pack its
\* message returns before it, and has changed nothing.
Query(r) ==
  /\ pc[r] = "idle"
  /\ pc' = [pc EXCEPT ![r] = "post"]
  /\ using' = [using EXCEPT ![r] = client]
  /\ posting' = [posting EXCEPT ![r] = 0]
  /\ UNCHANGED <<client, firstErr, phase, tick, history>>

\* firstErr is that of the latest error instead.
firstError_Latest == 0

\* setClientError(err), err # nil: only the first error of a streak counts.
firstError == IF firstErr = None THEN 0 ELSE firstErr

firstErrorAfterSuccess_Kept == firstErr

\* setClientError(nil)
firstErrorAfterSuccess == None

\* Query returns.
Leave(r) ==
  /\ pc' = [pc EXCEPT ![r] = "idle"]
  /\ using' = [using EXCEPT ![r] = 0]
  /\ posting' = [posting EXCEPT ![r] = 0]

\* client.Post fails, which setClientError notes, and so does Query.
PostFails(r) ==
  /\ pc[r] = "post"
  /\ firstErr' = firstError
  /\ failing' = IF failing = None THEN 0 ELSE failing
  /\ Leave(r)
  /\ UNCHANGED <<client, phase, tick, sinceRot>>

\* client.Post returns the headers of a response: setClientError(nil).
PostSucceeds(r) ==
  /\ pc[r] = "post"
  /\ firstErr' = firstErrorAfterSuccess
  /\ failing' = None
  /\ pc' = [pc EXCEPT ![r] = "body"]
  /\ UNCHANGED <<client, using, posting, phase, tick, sinceRot>>

\* The rest of Query: the status, the content type, the body and the message in
\* it are each checked.  None of their errors counts as a client error, so it
\* makes no difference which way Query returns.
Return(r) ==
  /\ pc[r] = "body"
  /\ Leave(r)
  /\ UNCHANGED <<client, firstErr, phase, tick, history>>

Rotate_KeepErr ==
  /\ client' = Newer(client)
  /\ firstErr' = firstErr
  /\ failing' = None
  /\ sinceRot' = 0

\* A new client with a clean record; requests in flight keep the old one.
Rotate ==
  /\ client' = Newer(client)
  /\ firstErr' = None
  /\ failing' = None
  /\ sinceRot' = 0

\* !firstErr.IsZero() && time.Since(firstErr) > 10s
Overdue == IF firstErr = None THEN FALSE ELSE firstErr > RotateAfter

\* Requests keep the lock during Post, and others start before it is free.
maybeRotateClient_Starved ==
  /\ tick /\ InFlight = {}
  /\ tick' = FALSE
  /\ \/ Overdue /\ Rotate
     \/ ~Overdue /\ UNCHANGED <<client, firstErr, failing, sinceRot>>
  /\ UNCHANGED <<request, phase>>

\* Maintain receives a tick and runs maybeRotateClient.
maybeRotateClient ==
  /\ tick
  /\ tick' = FALSE
  /\ \/ Overdue /\ Rotate
     \/ ~Overdue /\ UNCHANGED <<client, firstErr, failing, sinceRot>>
  /\ UNCHANGED <<request, phase>>

Later(t) == IF t = Long THEN Long ELSE t + 1

TimePasses_NoTimeout ==
  /\ ~tick
  /\ phase' = IF phase + 1 = Period THEN 0 ELSE phase + 1
  /\ tick' = (phase + 1 = Period)
  /\ posting' = [r \in Request |-> IF r \in InFlight THEN posting[r] + 1
                                   ELSE posting[r]]
  /\ firstErr' = IF firstErr = None THEN None ELSE firstErr + 1
  /\ failing' = IF failing = None THEN None ELSE failing + 1
  /\ sinceRot' = Later(sinceRot)
  /\ UNCHANGED <<client, pc, using>>

\* One unit of time.  A request still waiting for its response when its time
\* is up fails, and so does one still reading the body.
TimePasses ==
  /\ ~tick
  /\ \A r \in InFlight : posting[r] < Timeout
  /\ phase' = IF phase + 1 = Period THEN 0 ELSE phase + 1
  /\ tick' = (phase + 1 = Period)
  /\ posting' = [r \in Request |-> IF r \in InFlight THEN posting[r] + 1
                                   ELSE posting[r]]
  /\ firstErr' = IF firstErr = None THEN None ELSE firstErr + 1
  /\ failing' = IF failing = None THEN None ELSE failing + 1
  /\ sinceRot' = Later(sinceRot)
  /\ UNCHANGED <<client, pc, using>>

Progress(r) == PostFails(r) \/ PostSucceeds(r) \/ Return(r)

Next ==
  \/ \E r \in Request : Query(r) \/ Progress(r)
  \/ maybeRotateClient
  \/ TimePasses

Spec == Init /\ [][Next]_vars

\* The clock runs, the maintenance goroutine is scheduled, and a Query that was
\* started goes on: http.Client.Timeout ends what the network does not.
FairSpec ==
  /\ Spec
  /\ WF_vars(TimePasses) /\ WF_vars(maybeRotateClient)
  /\ \A r \in Request : WF_vars(Progress(r))

-----------------------------------------------------------------------------
\* Types of the variables.
TypeOK ==
  /\ client \in Clients
  /\ firstErr \in Nat \cup {None}
  /\ pc \in [Request -> {"idle", "post", "body"}]
  /\ using \in [Request -> Clients]
  /\ posting \in [Request -> 0..Timeout]
  /\ phase \in 0..(Period - 1) /\ tick \in BOOLEAN
  /\ failing \in Nat \cup {None}
  /\ sinceRot \in 0..Long

\* However often the client is rotated, requests are in flight on at most two
\* clients, the current one and the one before it (maybeRotateClient: "The time
\* chosen here combines with the transport timeouts set above, so we never have
\* too many in-flight connections").
AtMostOneOldClient == \A r \in InFlight : client \in {using[r], Newer(using[r])}

\* AtMostOneOldClient made inductive: a request on the previous client has been
\* in flight since before the rotation, and an error streak that could cause
\* the next rotation started after it.
RotationHistory ==
  /\ \A r \in InFlight :
       using[r] # client => client = Newer(using[r]) /\ sinceRot <= posting[r]
  /\ firstErr # None => firstErr <= sinceRot \/ sinceRot = Long

\* A client is replaced only after more than RotateAfter of nothing but errors,
\* whichever clients reported them, and so no sooner than that after the last
\* replacement.
RotationJustified ==
  [][client' # client => /\ failing # None /\ failing > RotateAfter
                         /\ sinceRot = Long]_vars

\* Errors cannot go on for longer than the threshold and a maintenance period:
\* by then a request has succeeded or the client has been replaced.
StreakBounded == failing # None => failing <= RotateAfter + Period

\* StreakBounded made inductive: what an error streak may exceed RotateAfter by
\* is the time since the last tick.
StreakHistory ==
  /\ failing = firstErr
  /\ tick => phase = 0
  /\ firstErr # None =>
       firstErr <= RotateAfter + (IF tick THEN Period ELSE phase)

\* An error streak ends, with a success or a new client, even though every
\* further request adds an error to it.
StreakEnds == failing # None ~> failing = None

=============================================================================
