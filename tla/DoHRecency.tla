------------------------------- MODULE DoHRecency -------------------------------
(***************************************************************************)
(* DoHResolver with the memory of when the last error was, which the code  *)
(* does not keep: it only has the first one of a streak.                   *)
(***************************************************************************)
EXTENDS DoHResolver

VARIABLE lastErr  \* history: time since the last error reported (saturates)

RecencyInit == Init /\ lastErr = Long

RecencyNext ==
  \/ (\E r \in Request : PostFails(r)) /\ lastErr' = 0
  \/ TimePasses /\ lastErr' = Later(lastErr)
  \/ /\ \/ \E r \in Request : Query(r) \/ PostSucceeds(r) \/ Return(r)
        \/ maybeRotateClient
     /\ UNCHANGED lastErr

RecencySpec == RecencyInit /\ [][RecencyNext]_<<vars, lastErr>>

\* The client is only replaced while errors keep coming (maybeRotateClient: "If
\* we've seen errors for the last 10s, rotate the client").
RotatesOnRecentErrors ==
  [][client' # client => lastErr <= RotateAfter]_<<vars, lastErr>>

=============================================================================
