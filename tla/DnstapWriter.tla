----------------------------- MODULE DnstapWriter -----------------------------
(***************************************************************************)
(* internal/dnstap/dnstap.go: request handlers put records of the queries  *)
(* they answered into a bounded channel; one goroutine sends them to a     *)
(* collector as a Frame Streams stream, over a connection that it opens    *)
(* again whenever it breaks.                                               *)
(*                                                                         *)
(* Records are numbered in the order in which they are captured.  A record *)
(* counts as sent once it was written to a connection with a collector: as *)
(* in the code nobody knows, nor does the model, what the collector still  *)
(* reads of the socket's buffers before it goes.                           *)
(***************************************************************************)
EXTENDS Integers, Sequences, FiniteSets

CONSTANTS
  Capacity,     \* of the channel w.ch (1024)
  MaxRecords,   \* bound: records captured
  MaxBreaks     \* bound: times that the collector breaks the connection

ASSUME DnstapAssumption ==
  Capacity \in Nat \ {0} /\ MaxRecords \in Nat /\ MaxBreaks \in Nat

READY == "READY"
START == "START"
Data == "data"
Partial == "partial"    \* a frame cut short by a failing Write

Records == 1..MaxRecords
Fates == {"none", "dropped", "queued", "taken", "unencodable", "sent", "lost"}

VARIABLES
  ch,        \* w.ch
  captured,  \* number of records captured
  pc,        \* run: "dial", "sleep", "ready", "start", "recv" or "write"
  cur,       \* the record that run has received
  up,        \* external: the collector listens
  broken,    \* external: the collector's end of the connection is gone
  breaks,    \* number of times it went
  stalled,   \* external: it reads nothing, and the socket's buffers are full
  stream,    \* the kinds of frames written to the current connection
  sent,      \* history: the records on all connections, as they were written
  fate       \* history: what has become of each record

vars == <<ch, captured, pc, cur, up, broken, breaks, stalled, stream, sent, fate>>

-----------------------------------------------------------------------------
\* New and Start.
Init ==
  /\ ch = <<>> /\ captured = 0
  /\ pc = "dial" /\ cur = 0
  /\ up \in BOOLEAN /\ broken = FALSE /\ breaks = 0 /\ stalled = FALSE
  /\ stream = <<>> /\ sent = <<>>
  /\ fate = [i \in Records |-> "none"]

Enqueue_Unbounded(i) ==
  ch' = Append(ch, i) /\ fate' = [fate EXCEPT ![i] = "queued"]

\* The select of Capture: its default branch drops the record.
Enqueue(i) ==
  IF Len(ch) < Capacity
    THEN ch' = Append(ch, i) /\ fate' = [fate EXCEPT ![i] = "queued"]
    ELSE UNCHANGED ch /\ fate' = [fate EXCEPT ![i] = "dropped"]

\* A handler calls Capture, at any time.
Capture ==
  /\ captured < MaxRecords
  /\ captured' = captured + 1
  /\ Enqueue(captured + 1)
  /\ UNCHANGED <<pc, cur, up, broken, breaks, stalled, stream, sent>>

(***************************************************************************)
(* run.                                                                    *)
(***************************************************************************)
Dial_NewChannel ==
  /\ pc = "dial"
  /\ \/ up /\ pc' = "ready" /\ stream' = <<>> /\ broken' = FALSE /\ stalled' = FALSE
        /\ ch' = <<>>
     \/ ~up /\ pc' = "sleep" /\ UNCHANGED <<stream, broken, stalled, ch>>
  /\ UNCHANGED <<captured, cur, up, breaks, sent, fate>>

Dial ==
  /\ pc = "dial"
  /\ \/ up /\ pc' = "ready" /\ stream' = <<>> /\ broken' = FALSE /\ stalled' = FALSE
     \/ ~up /\ pc' = "sleep" /\ UNCHANGED <<stream, broken, stalled>>
  /\ UNCHANGED <<ch, captured, cur, up, breaks, sent, fate>>

Sleep_GiveUp == pc = "sleep" /\ UNCHANGED vars

\* time.Sleep(time.Second) after a failed Dial.
Sleep ==
  /\ pc = "sleep"
  /\ pc' = "dial"
  /\ UNCHANGED <<ch, captured, cur, up, broken, breaks, stalled, stream, sent, fate>>

\* conn.Write(frame): on an open connection it succeeds.  No deadline is
\* set: while the collector does not read, Write does not return.  On a broken
\* connection the frame may vanish (the kernel took it) or Write fail, after
\* part of the frame was written or not.
Succeeds(f) == ~broken /\ ~stalled /\ stream' = Append(stream, f)
Vanishes == broken /\ UNCHANGED stream
Fails == broken /\ stream' \in {stream, Append(stream, Partial)}

\* writeControl(conn, READY) and writeControl(conn, START): the connection is
\* closed if they fail, and run starts over without sleeping.
Ready ==
  /\ pc = "ready"
  /\ \/ (Succeeds(READY) \/ Vanishes) /\ pc' = "start"
     \/ Fails /\ pc' = "dial"
  /\ UNCHANGED <<ch, captured, cur, up, broken, breaks, stalled, sent, fate>>

Start ==
  /\ pc = "start"
  /\ \/ (Succeeds(START) \/ Vanishes) /\ pc' = "recv"
     \/ Fails /\ pc' = "dial"
  /\ UNCHANGED <<ch, captured, cur, up, broken, breaks, stalled, sent, fate>>

\* r := <-w.ch; r.frame() fails if either message cannot be packed.
Receive ==
  /\ pc = "recv" /\ ch # <<>>
  /\ ch' = Tail(ch)
  /\ \/ /\ cur' = Head(ch)
        /\ fate' = [fate EXCEPT ![Head(ch)] = "taken"]
        /\ pc' = "write"
     \/ /\ fate' = [fate EXCEPT ![Head(ch)] = "unencodable"]
        /\ UNCHANGED <<pc, cur>>
  /\ UNCHANGED <<captured, up, broken, breaks, stalled, stream, sent>>

Write_KeepConn ==
  /\ pc = "write"
  /\ \/ /\ Succeeds(Data) /\ sent' = Append(sent, cur)
        /\ fate' = [fate EXCEPT ![cur] = "sent"] /\ pc' = "recv"
     \/ /\ Vanishes \/ Fails
        /\ fate' = [fate EXCEPT ![cur] = "lost"]
        /\ pc' = "recv"
        /\ UNCHANGED sent
  /\ cur' = 0
  /\ UNCHANGED <<ch, captured, up, broken, breaks, stalled>>

Write_Requeue ==
  /\ pc = "write"
  /\ \/ /\ Succeeds(Data) /\ sent' = Append(sent, cur)
        /\ fate' = [fate EXCEPT ![cur] = "sent"] /\ pc' = "recv"
        /\ UNCHANGED ch
     \/ /\ Vanishes \/ Fails
        /\ fate' = [fate EXCEPT ![cur] = "queued"]
        /\ ch' = Append(ch, cur)
        /\ pc' = "dial"
        /\ UNCHANGED sent
  /\ cur' = 0
  /\ UNCHANGED <<captured, up, broken, breaks, stalled>>

\* writeData(conn, frame): if it fails, the connection is closed and run dials
\* again; the record in hand is gone.
Write ==
  /\ pc = "write"
  /\ \/ /\ Succeeds(Data) /\ sent' = Append(sent, cur)
        /\ fate' = [fate EXCEPT ![cur] = "sent"] /\ pc' = "recv"
     \/ /\ Vanishes /\ fate' = [fate EXCEPT ![cur] = "lost"] /\ pc' = "recv"
        /\ UNCHANGED sent
     \/ /\ Fails /\ fate' = [fate EXCEPT ![cur] = "lost"] /\ pc' = "dial"
        /\ UNCHANGED sent
  /\ cur' = 0
  /\ UNCHANGED <<ch, captured, up, broken, breaks, stalled>>

(***************************************************************************)
(* The collector.                                                          *)
(***************************************************************************)
Connected == pc \notin {"dial", "sleep"} /\ ~broken

CollectorStops ==
  /\ up /\ breaks < MaxBreaks
  /\ up' = FALSE
  /\ broken' = (pc \notin {"dial", "sleep"})
  /\ stalled' = FALSE
  /\ breaks' = breaks + 1
  /\ UNCHANGED <<ch, captured, pc, cur, stream, sent, fate>>

CollectorStarts ==
  /\ ~up
  /\ up' = TRUE
  /\ UNCHANGED <<ch, captured, pc, cur, broken, breaks, stalled, stream, sent, fate>>

\* It keeps the connection open and stops, or goes on, reading from it.
CollectorStallsOrReads ==
  /\ Connected /\ stalled' = ~stalled
  /\ UNCHANGED <<ch, captured, pc, cur, up, broken, breaks, stream, sent, fate>>

run == Dial \/ Sleep \/ Ready \/ Start \/ Receive \/ Write

Next == Capture \/ run \/ CollectorStops \/ CollectorStarts \/ CollectorStallsOrReads

Spec == Init /\ [][Next]_vars

\* The run goroutine is scheduled; handlers and the collector owe nothing.
FairSpec == Spec /\ WF_vars(run)

-----------------------------------------------------------------------------
\* Types of the variables.
TypeOK ==
  /\ ch \in Seq(Records) /\ Len(ch) <= Capacity
  /\ captured \in 0..MaxRecords
  /\ pc \in {"dial", "sleep", "ready", "start", "recv", "write"}
  /\ cur \in 0..MaxRecords
  /\ up \in BOOLEAN /\ broken \in BOOLEAN
  /\ breaks \in 0..MaxBreaks
  /\ stalled \in BOOLEAN /\ (stalled => Connected)
  /\ stream \in Seq({READY, START, Data, Partial})
  /\ sent \in Seq(Records)
  /\ fate \in [Records -> Fates]

\* What is written to a connection is the READY frame, the START frame and only
\* then data; and nothing after a frame that was cut short, which the collector
\* could not parse.
StreamWellFormed ==
  \A i \in 1..Len(stream) :
    /\ i = 1 => stream[i] \in {READY, Partial}
    /\ i = 2 => stream[i] \in {START, Partial}
    /\ i > 2 => stream[i] \in {Data, Partial}
    /\ stream[i] = Partial => i = Len(stream)

\* The records that are in the channel or in run's hands.
Pending == {ch[i] : i \in 1..Len(ch)} \cup (IF pc = "write" THEN {cur} ELSE {})

\* Every record that Capture accepted is still pending, was written to a
\* connection that was open, could not be encoded, or was in a write on one that
\* the collector had broken: the exporter itself loses nothing else when it
\* connects again.
Conservation ==
  \A i \in 1..captured :
    /\ (i \in Pending) <=> (fate[i] \in {"queued", "taken"})
    /\ (\E k \in 1..Len(sent) : sent[k] = i) <=> fate[i] = "sent"
    /\ fate[i] = "lost" => breaks > 0

\* run takes the records of the channel one at a time and in order, so that,
\* however often the collector breaks the connection, stalls it or comes back,
\* the exporter is a queue that keeps the order, writes nothing twice, and
\* refuses a record only in its own Capture and only when the channel is full.
Fifo == INSTANCE LossyFifo WITH
  offered <- captured,
  waiting <- (IF pc = "write" THEN <<cur>> ELSE <<>>) \o ch,
  delivered <- sent

ImplementsFifo == Fifo!Spec

\* If from some point on the collector stays up and does not stop reading,
\* every record accepted is eventually written or has failed: the exporter does not
\* get stuck on a connection that broke or had stalled, nor between connections.
Drains ==
  <>[](up /\ ~stalled) => \A i \in Records : fate[i] \in {"queued", "taken"}
                                 ~> fate[i] \in {"sent", "lost", "unencodable"}

=============================================================================
