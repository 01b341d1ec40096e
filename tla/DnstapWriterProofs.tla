-------------------------- MODULE DnstapWriterProofs --------------------------
(***************************************************************************)
(* Proofs about DnstapWriter: its types, the form of the stream, and that  *)
(* it implements LossyFifo, for every capacity of the channel and however  *)
(* often the collector goes away, comes back or stalls.                    *)
(***************************************************************************)
EXTENDS DnstapWriter, SequenceTheorems, TLAPS

(***************************************************************************)
(* Sequences.                                                              *)
(***************************************************************************)
\* What a record in hand and the channel behind it are together.
LEMMA InHand ==
  ASSUME NEW S, NEW c \in S, NEW s \in Seq(S)
  PROVE  /\ <<c>> \o s \in Seq(S)
         /\ Len(<<c>> \o s) = Len(s) + 1
         /\ <<c>> \o s # <<>>
         /\ Head(<<c>> \o s) = c
         /\ Tail(<<c>> \o s) = s
<1>1. <<c>> \in Seq(S) /\ Len(<<c>>) = 1 /\ <<c>>[1] = c
  OBVIOUS
<1>2. /\ <<c>> \o s \in Seq(S)
      /\ Len(<<c>> \o s) = Len(s) + 1
      /\ \A i \in 1 .. 1 + Len(s) :
           (<<c>> \o s)[i] = IF i <= 1 THEN c ELSE s[i - 1]
  BY <1>1, ConcatProperties, LenProperties
<1>3. <<c>> \o s # <<>>
  BY <1>2, LenProperties
<1>4. Head(<<c>> \o s) = c
  BY <1>2, <1>3, LenProperties
<1>5. /\ Tail(<<c>> \o s) \in Seq(S)
      /\ Len(Tail(<<c>> \o s)) = Len(s)
      /\ \A i \in 1 .. Len(s) : Tail(<<c>> \o s)[i] = (<<c>> \o s)[i + 1]
  BY <1>2, <1>3, HeadTailProperties, LenProperties
<1>6. \A i \in 1 .. Len(s) : Tail(<<c>> \o s)[i] = s[i]
  BY <1>2, <1>5, LenProperties
<1>7. Tail(<<c>> \o s) = s
  BY <1>5, <1>6, SeqEqual
<1> QED
  BY <1>2, <1>3, <1>4, <1>7

\* Taking the first item in hand leaves the whole as it is.
LEMMA TakeInHand ==
  ASSUME NEW S, NEW s \in Seq(S), s # <<>>
  PROVE  <<Head(s)>> \o Tail(s) = s
<1>1. Head(s) \in S /\ Tail(s) \in Seq(S)
  BY HeadTailProperties
<1>2. /\ <<Head(s)>> \o Tail(s) \in Seq(S)
      /\ Len(<<Head(s)>> \o Tail(s)) = Len(s)
  BY <1>1, InHand, HeadTailProperties, LenProperties
<1>3. \A i \in 1 .. Len(s) : (<<Head(s)>> \o Tail(s))[i] = s[i]
  <2>1. <<Head(s)>> \in Seq(S) /\ Len(<<Head(s)>>) = 1 /\ <<Head(s)>>[1] = Head(s)
    BY <1>1
  <2>2. \A i \in 1 .. 1 + Len(Tail(s)) :
          (<<Head(s)>> \o Tail(s))[i] = IF i <= 1 THEN Head(s) ELSE Tail(s)[i - 1]
    BY <1>1, <2>1, ConcatProperties, LenProperties
  <2>3. Len(Tail(s)) = Len(s) - 1 /\ \A i \in 1 .. Len(Tail(s)) : Tail(s)[i] = s[i + 1]
    BY HeadTailProperties
  <2>4. Head(s) = s[1] /\ Len(s) \in Nat
    BY LenProperties
  <2> QED
    BY <2>2, <2>3, <2>4
<1> QED
  BY <1>2, <1>3, SeqEqual

\* Appending to the channel appends to the whole.
LEMMA AppendBehind ==
  ASSUME NEW S, NEW h \in Seq(S), NEW s \in Seq(S), NEW e \in S
  PROVE  h \o Append(s, e) = Append(h \o s, e)
<1>1. Append(s, e) = s \o <<e>> /\ <<e>> \in Seq(S)
  BY AppendIsConcat
<1>2. h \o s \in Seq(S)
  BY ConcatProperties
<1>3. Append(h \o s, e) = (h \o s) \o <<e>>
  BY <1>2, AppendIsConcat
<1> QED
  BY <1>1, <1>3, ConcatAssociative

(***************************************************************************)
(* The inductive invariant: the types, a record in hand while there is     *)
(* something to write, and what the stream is at each point of run.        *)
(***************************************************************************)
Frame == {READY, START, Data, Partial}

Handshaken == {"recv", "write"}
OnConnection == {"ready", "start"} \cup Handshaken

\* The frames of a connection that no write has failed on.
Clean(s) ==
  \A i \in 1..Len(s) :
    /\ i = 1 => s[i] = READY
    /\ i = 2 => s[i] = START
    /\ i > 2 => s[i] = Data

StreamOK ==
  /\ StreamWellFormed
  /\ pc \in OnConnection => Clean(stream)
  /\ pc = "ready" => Len(stream) = 0
  /\ pc = "start" /\ ~broken => Len(stream) = 1
  /\ pc \in Handshaken /\ ~broken => Len(stream) >= 2

Inv ==
  /\ TypeOK
  /\ pc = "write" => cur # 0
  /\ StreamOK

\* A new connection carries no frames yet.
LEMMA NoFrames == <<>> \in Seq(Frame) /\ Len(<<>>) = 0
  BY EmptySeq

\* A frame more is a stream of frames again.
LEMMA MoreFrames ==
  ASSUME stream \in Seq(Frame)
  PROVE  \A f \in Frame : Append(stream, f) \in Seq(Frame)
  BY AppendProperties

\* The writer starts with the invariant.
LEMMA InitInv == Init => Inv
<1> SUFFICES ASSUME Init PROVE Inv
  OBVIOUS
<1>1. stream \in Seq({READY, START, Data, Partial})
  BY NoFrames DEF Init, Frame
<1>2. ch \in Seq(Records) /\ Len(ch) = 0 /\ sent \in Seq(Records)
  BY EmptySeq DEF Init
<1>3. fate \in [Records -> Fates]
  BY DEF Init, Fates
<1>4. /\ captured \in 0..MaxRecords /\ cur \in 0..MaxRecords
      /\ breaks \in 0..MaxBreaks /\ Len(ch) <= Capacity
  BY <1>2, DnstapAssumption DEF Init
<1>5. /\ pc \in {"dial", "sleep", "ready", "start", "recv", "write"}
      /\ up \in BOOLEAN /\ broken \in BOOLEAN
      /\ stalled \in BOOLEAN /\ ~stalled
  BY DEF Init
<1>6. TypeOK
  BY <1>1, <1>2, <1>3, <1>4, <1>5 DEF TypeOK
<1>7. StreamOK
  BY NoFrames
     DEF Init, StreamOK, StreamWellFormed, OnConnection, Handshaken
<1> QED
  BY <1>6, <1>7 DEF Init, Inv

\* Each step keeps the types and the record in hand.
LEMMA NextType == Inv /\ [Next]_vars => TypeOK' /\ (pc' = "write" => cur' # 0)
<1> SUFFICES ASSUME Inv, [Next]_vars
             PROVE  TypeOK' /\ (pc' = "write" => cur' # 0)
  OBVIOUS
<1> USE DnstapAssumption DEF Inv, TypeOK, Connected
<1>1. CASE Capture
  <2>1. captured + 1 \in Records
    BY <1>1 DEF Capture, Records
  <2>2. fate' \in [Records -> Fates]
    BY <1>1, <2>1 DEF Capture, Enqueue, Fates
  <2>3. ch' \in Seq(Records) /\ Len(ch') <= Capacity
    <3>1. CASE Len(ch) < Capacity
      BY <1>1, <2>1, <3>1, AppendProperties, LenProperties, SMTT(30) DEF Capture, Enqueue
    <3>2. CASE ~(Len(ch) < Capacity)
      BY <1>1, <3>2 DEF Capture, Enqueue
    <3> QED
      BY <3>1, <3>2
  <2> QED
    BY <1>1, <2>2, <2>3 DEF Capture
<1>2. CASE Dial
  <2>1. stream' \in Seq({READY, START, Data, Partial})
    BY <1>2, NoFrames DEF Dial, Frame
  <2>2. /\ broken' \in BOOLEAN /\ stalled' \in BOOLEAN /\ ~stalled'
        /\ pc' \in {"ready", "sleep"}
    <3>1. ~stalled
      BY <1>2 DEF Dial
    <3>2. CASE broken' = FALSE /\ stalled' = FALSE
      BY <1>2, <3>2 DEF Dial
    <3>3. CASE broken' = broken /\ stalled' = stalled
      <4>1. pc' \in {"ready", "sleep"}
        BY <1>2 DEF Dial
      <4> QED
        BY <3>1, <3>3, <4>1
    <3> QED
      BY <1>2, <3>2, <3>3 DEF Dial
  <2>3. UNCHANGED <<ch, captured, cur, up, breaks, sent, fate>>
    BY <1>2 DEF Dial
  <2> QED
    BY <2>1, <2>2, <2>3
<1>3. CASE Sleep
  BY <1>3 DEF Sleep
<1>4. CASE Ready
  <2>1. stream' \in Seq({READY, START, Data, Partial})
    BY <1>4, MoreFrames DEF Ready, Succeeds, Vanishes, Fails, Frame
  <2> QED
    BY <1>4, <2>1 DEF Ready, Fails
<1>5. CASE Start
  <2>1. stream' \in Seq({READY, START, Data, Partial})
    BY <1>5, MoreFrames DEF Start, Succeeds, Vanishes, Fails, Frame
  <2> QED
    BY <1>5, <2>1 DEF Start, Fails
<1>6. CASE Receive
  <2>1. /\ Head(ch) \in Records /\ Tail(ch) \in Seq(Records)
        /\ Len(Tail(ch)) = Len(ch) - 1
    BY <1>6, HeadTailProperties DEF Receive
  <2>2. ch' \in Seq(Records) /\ Len(ch') <= Capacity
    BY <1>6, <2>1, LenProperties DEF Receive
  <2>3. fate' \in [Records -> Fates]
    BY <1>6, <2>1 DEF Receive, Fates
  <2>4. /\ cur' \in 0..MaxRecords /\ (pc' = "write" => cur' # 0)
        /\ pc' \in {"recv", "write"}
    BY <1>6, <2>1, SMTT(30) DEF Receive, Records
  <2> QED
    BY <1>6, <2>2, <2>3, <2>4 DEF Receive
<1>7. CASE Write
  <2>1. cur \in Records
    BY <1>7 DEF Write, Records
  <2>2. stream' \in Seq({READY, START, Data, Partial})
    BY <1>7, MoreFrames DEF Write, Succeeds, Vanishes, Fails, Frame
  <2>3. sent' \in Seq(Records)
    <3>1. Append(sent, cur) \in Seq(Records)
      BY <2>1, AppendProperties
    <3>2. sent' = sent \/ sent' = Append(sent, cur)
      BY <1>7 DEF Write
    <3> QED
      BY <3>1, <3>2
  <2>4. fate' \in [Records -> Fates]
    <3>1. \E x \in Fates : fate' = [fate EXCEPT ![cur] = x]
      BY <1>7 DEF Write, Fates
    <3> QED
      BY <2>1, <3>1
  <2>5. stalled' => Connected'
    BY <1>7 DEF Write, Fails
  <2> QED
    BY <1>7, <2>2, <2>3, <2>4, <2>5 DEF Write
<1>8. CASE CollectorStops
  <2>1. breaks' \in 0..MaxBreaks /\ broken' \in BOOLEAN /\ stalled' = FALSE
    BY <1>8 DEF CollectorStops
  <2> QED
    BY <1>8, <2>1 DEF CollectorStops
<1>9. CASE CollectorStarts
  BY <1>9 DEF CollectorStarts
<1>10. CASE CollectorStallsOrReads
  BY <1>10 DEF CollectorStallsOrReads
<1>11. CASE UNCHANGED vars
  BY <1>11 DEF vars
<1> QED
  BY <1>1, <1>2, <1>3, <1>4, <1>5, <1>6, <1>7, <1>8, <1>9, <1>10, <1>11
     DEF Next, run

\* What a frame more makes of a clean stream.
LEMMA FrameAppended ==
  ASSUME NEW s \in Seq(Frame), Clean(s), NEW f \in Frame
  PROVE  LET t == Append(s, f)
         IN /\ Len(t) = Len(s) + 1
            /\ \/ Len(s) = 0 /\ f = READY
               \/ Len(s) = 1 /\ f = START
               \/ Len(s) >= 2 /\ f = Data
               => Clean(t)
            /\ f = Partial => \A i \in 1..Len(t) :
                 /\ i = 1 => t[i] \in {READY, Partial}
                 /\ i = 2 => t[i] \in {START, Partial}
                 /\ i > 2 => t[i] \in {Data, Partial}
                 /\ t[i] = Partial => i = Len(t)
<1> DEFINE t == Append(s, f)
<1>1. /\ Len(t) = Len(s) + 1 /\ Len(s) \in Nat
      /\ \A i \in 1..Len(s) : t[i] = s[i]
      /\ t[Len(s) + 1] = f
  BY AppendProperties, LenProperties
<1> HIDE DEF t
<1>2. \A i \in 1..Len(t) : t[i] = IF i = Len(s) + 1 THEN f ELSE s[i]
  BY <1>1
<1>3. (\/ Len(s) = 0 /\ f = READY
       \/ Len(s) = 1 /\ f = START
       \/ Len(s) >= 2 /\ f = Data) => Clean(t)
  BY <1>1, <1>2 DEF Clean
<1>4. ASSUME f = Partial, NEW i \in 1..Len(t)
      PROVE  /\ i = 1 => t[i] \in {READY, Partial}
             /\ i = 2 => t[i] \in {START, Partial}
             /\ i > 2 => t[i] \in {Data, Partial}
             /\ t[i] = Partial => i = Len(t)
  BY <1>1, <1>2, <1>4 DEF Clean, READY, START, Data, Partial
<1> QED
  BY <1>1, <1>3, <1>4 DEF t

\* Each step keeps the form of the stream.
LEMMA NextStream == Inv /\ [Next]_vars => StreamOK'
<1> SUFFICES ASSUME Inv, [Next]_vars PROVE StreamOK'
  OBVIOUS
<1>0. stream \in Seq(Frame) /\ StreamOK
  BY DEF Inv, TypeOK, Frame
<1>1. ASSUME UNCHANGED stream, pc' \notin OnConnection PROVE StreamOK'
  BY <1>0, <1>1 DEF StreamOK, StreamWellFormed, OnConnection, Handshaken
<1>2. ASSUME UNCHANGED <<stream, pc>>, broken => broken' PROVE StreamOK'
  BY <1>0, <1>2 DEF StreamOK, StreamWellFormed, Clean
\* A step of run on the connection, with frame f.
<1>3. ASSUME NEW f \in Frame,
             \/ ~broken /\ stream' = Append(stream, f)
             \/ broken /\ stream' = stream,
             broken' = broken,
             \/ pc = "ready" /\ f = READY /\ pc' = "start"
             \/ pc = "start" /\ f = START /\ pc' = "recv"
             \/ pc = "write" /\ f = Data /\ pc' = "recv"
      PROVE  StreamOK'
  <2>0. Clean(stream) /\ Len(stream) \in Nat
    BY <1>0, <1>3, LenProperties DEF StreamOK, OnConnection, Handshaken
  <2>1. CASE ~broken /\ stream' = Append(stream, f)
    <3>1. \/ Len(stream) = 0 /\ f = READY
          \/ Len(stream) = 1 /\ f = START
          \/ Len(stream) >= 2 /\ f = Data
      BY <1>0, <1>3, <2>1 DEF StreamOK, Handshaken
    <3>2. Len(stream') = Len(stream) + 1 /\ Clean(stream')
      BY <1>0, <2>0, <2>1, <3>1, FrameAppended
    <3>3. StreamWellFormed'
      BY <3>2 DEF Clean, StreamWellFormed, READY, START, Data, Partial
    <3>4. pc' = "start" => Len(stream') = 1
      BY <1>0, <1>3, <2>0, <3>2 DEF StreamOK
    <3>5. pc' = "recv" => Len(stream') >= 2
      BY <1>0, <1>3, <2>0, <2>1, <3>2 DEF StreamOK, Handshaken
    <3> QED
      BY <1>3, <3>2, <3>3, <3>4, <3>5 DEF StreamOK, Handshaken
  <2>2. CASE broken /\ stream' = stream
    BY <1>0, <1>3, <2>0, <2>2 DEF StreamOK, StreamWellFormed, Handshaken, Clean
  <2> QED
    BY <1>3, <2>1, <2>2
\* A write that fails, after which run dials.
<1>4. ASSUME pc \in OnConnection, pc' = "dial",
             stream' \in {stream, Append(stream, Partial)}
      PROVE  StreamOK'
  <2>1. CASE stream' = stream
    BY <1>1, <1>4, <2>1 DEF OnConnection, Handshaken
  <2>2. CASE stream' = Append(stream, Partial)
    <3>1. StreamWellFormed'
      BY <1>0, <1>4, <2>2, FrameAppended DEF StreamOK, StreamWellFormed, Frame
    <3> QED
      BY <1>4, <3>1 DEF StreamOK, OnConnection, Handshaken
  <2> QED
    BY <1>4, <2>1, <2>2
<1>5. CASE Capture
  BY <1>2, <1>5 DEF Capture
<1>6. CASE Dial
  <2>1. CASE pc' = "sleep"
    BY <1>1, <1>6, <2>1 DEF Dial, OnConnection, Handshaken
  <2>2. CASE pc' = "ready"
    <3>1. stream' = <<>> /\ Len(stream') = 0
      BY <1>6, <2>2, EmptySeq DEF Dial
    <3> QED
      BY <2>2, <3>1 DEF StreamOK, StreamWellFormed, Clean, Handshaken
  <2> QED
    BY <1>6, <2>1, <2>2 DEF Dial
<1>7. CASE Sleep
  BY <1>1, <1>7 DEF Sleep, OnConnection, Handshaken
<1>8. CASE Ready
  <2>1. CASE pc' = "start"
    BY <1>3, <1>8, <2>1 DEF Ready, Succeeds, Vanishes, Fails, Frame
  <2>2. CASE pc' = "dial"
    BY <1>4, <1>8, <2>2 DEF Ready, Fails, OnConnection
  <2> QED
    BY <1>8, <2>1, <2>2 DEF Ready
<1>9. CASE Start
  <2>1. CASE pc' = "recv"
    BY <1>3, <1>9, <2>1 DEF Start, Succeeds, Vanishes, Fails, Frame
  <2>2. CASE pc' = "dial"
    BY <1>4, <1>9, <2>2 DEF Start, Fails, OnConnection
  <2> QED
    BY <1>9, <2>1, <2>2 DEF Start
<1>10. CASE Receive
  BY <1>0, <1>10 DEF Receive, StreamOK, StreamWellFormed, OnConnection, Handshaken
<1>11. CASE Write
  <2>1. CASE pc' = "recv"
    BY <1>3, <1>11, <2>1 DEF Write, Succeeds, Vanishes, Fails, Frame
  <2>2. CASE pc' = "dial"
    BY <1>4, <1>11, <2>2 DEF Write, Fails, OnConnection, Handshaken
  <2> QED
    BY <1>11, <2>1, <2>2 DEF Write
<1>12. CASE CollectorStops
  <2>1. CASE pc \in OnConnection
    <3>1. broken'
      BY <1>12, <2>1 DEF CollectorStops, OnConnection, Handshaken
    <3> QED
      BY <1>2, <1>12, <3>1 DEF CollectorStops
  <2>2. CASE pc \notin OnConnection
    BY <1>1, <1>12, <2>2 DEF CollectorStops
  <2> QED
    BY <2>1, <2>2
<1>13. CASE CollectorStarts
  BY <1>2, <1>13 DEF CollectorStarts
<1>14. CASE CollectorStallsOrReads
  BY <1>2, <1>14 DEF CollectorStallsOrReads
<1>15. CASE UNCHANGED vars
  BY <1>2, <1>15 DEF vars
<1> QED
  BY <1>5, <1>6, <1>7, <1>8, <1>9, <1>10, <1>11, <1>12, <1>13, <1>14, <1>15
     DEF Next, run

\* The invariant always holds.
LEMMA InvHolds == Spec => []Inv
<1>1. Inv /\ [Next]_vars => Inv'
  BY NextType, NextStream DEF Inv
<1> QED
  BY <1>1, InitInv, PTL DEF Spec

\* The variables have their types: the channel never holds more records than
\* its capacity, and the collector stalls only what is connected.
THEOREM TypeCorrect == Spec => []TypeOK
<1>1. Inv => TypeOK
  BY DEF Inv
<1> QED
  BY <1>1, InvHolds, PTL

\* Every connection carries the READY frame, the START frame and then data, and
\* nothing after a frame that was cut short.
THEOREM StreamsWellFormed == Spec => []StreamWellFormed
<1>1. Inv => StreamWellFormed
  BY DEF Inv, StreamOK
<1> QED
  BY <1>1, InvHolds, PTL

(***************************************************************************)
(* What becomes of the records.                                            *)
(***************************************************************************)
Queued(i) == \E k \in 1..Len(ch) : ch[k] = i
Delivered(i) == \E k \in 1..Len(sent) : sent[k] = i

\* The records in the channel are different ones, and the fate of each record
\* tells where it is.
Accounts ==
  /\ \A j, k \in 1..Len(ch) : ch[j] = ch[k] => j = k
  /\ \A i \in Records : Queued(i) <=> fate[i] = "queued"
  /\ \A i \in Records : (pc = "write" /\ cur = i) <=> fate[i] = "taken"
  /\ \A i \in Records : Delivered(i) <=> fate[i] = "sent"
  /\ \A i \in Records : i > captured => fate[i] = "none"

Blame ==
  /\ broken => breaks > 0
  /\ \A i \in Records : fate[i] = "lost" => breaks > 0

\* Only what a collector has broken is ever lost.
LEMMA NextBlame == Inv /\ Blame /\ [Next]_vars => Blame'
<1> SUFFICES ASSUME Inv, Blame, [Next]_vars PROVE Blame'
  OBVIOUS
<1> USE DEF Inv, TypeOK, Blame
<1>1. CASE Capture
  BY <1>1 DEF Capture, Enqueue
<1>2. CASE Dial
  BY <1>2 DEF Dial
<1>3. CASE Sleep \/ CollectorStarts \/ CollectorStallsOrReads
  BY <1>3 DEF Sleep, CollectorStarts, CollectorStallsOrReads
<1>4. CASE Ready \/ Start
  BY <1>4 DEF Ready, Start
<1>5. CASE Receive
  BY <1>5 DEF Receive
<1>6. CASE Write
  BY <1>6 DEF Write, Succeeds, Vanishes, Fails
<1>7. CASE CollectorStops
  BY <1>7 DEF CollectorStops
<1>8. CASE UNCHANGED vars
  BY <1>8 DEF vars
<1> QED
  BY <1>1, <1>2, <1>3, <1>4, <1>5, <1>6, <1>7, <1>8 DEF Next, run

\* Each step keeps the accounts.
LEMMA NextAccounts == Inv /\ Accounts /\ [Next]_vars => Accounts'
<1> SUFFICES ASSUME Inv, Accounts, [Next]_vars PROVE Accounts'
  OBVIOUS
<1>0. /\ ch \in Seq(Records) /\ sent \in Seq(Records)
      /\ Len(ch) \in Nat /\ Len(sent) \in Nat
      /\ fate \in [Records -> Fates] /\ captured \in Nat
      /\ pc = "write" => cur \in Records
  BY DnstapAssumption, LenProperties DEF Inv, TypeOK, Records
<1>1. ASSUME UNCHANGED <<ch, captured, cur, sent, fate>>,
             pc' = "write" <=> pc = "write"
      PROVE  Accounts'
  BY <1>1 DEF Accounts, Queued, Delivered
<1>2. CASE Capture
  <2> DEFINE n == captured + 1
  <2>1. n \in Records /\ captured' = n /\ ~(n <= captured) /\ fate[n] = "none"
    <3>1. n \in Records /\ captured' = n /\ ~(n <= captured) /\ n > captured
      BY <1>0, <1>2, DnstapAssumption DEF Capture, Records
    <3>2. fate[n] = "none"
      BY <3>1 DEF Accounts
    <3> QED
      BY <3>1, <3>2
  <2>2. UNCHANGED <<pc, cur, sent>>
    BY <1>2 DEF Capture
  <2> HIDE DEF n
  <2>3. CASE ch' = Append(ch, n) /\ fate' = [fate EXCEPT ![n] = "queued"]
    <3>1. /\ Len(ch') = Len(ch) + 1 /\ ch'[Len(ch) + 1] = n
          /\ \A k \in 1..Len(ch) : ch'[k] = ch[k]
      BY <1>0, <2>1, <2>3, AppendProperties
    <3>2. \A k \in 1..Len(ch) : ch[k] # n
      BY <2>1 DEF Accounts, Queued
    <3>3. \A j, k \in 1..Len(ch') : ch'[j] = ch'[k] => j = k
      BY <1>0, <3>1, <3>2 DEF Accounts
    <3>4. \A i \in Records : Queued(i)' <=> fate'[i] = "queued"
      <4> SUFFICES ASSUME NEW i \in Records
                   PROVE  Queued(i)' <=> fate'[i] = "queued"
        OBVIOUS
      <4>1. Queued(i)' <=> Queued(i) \/ i = n
        BY <1>0, <3>1 DEF Queued
      <4> QED
        BY <1>0, <2>1, <2>3, <4>1 DEF Accounts
    <3>5. \A i \in Records : (pc' = "write" /\ cur' = i) <=> fate'[i] = "taken"
      BY <1>0, <2>1, <2>2, <2>3 DEF Accounts
    <3>6. \A i \in Records : Delivered(i)' <=> fate'[i] = "sent"
      BY <1>0, <2>1, <2>2, <2>3 DEF Accounts, Delivered
    <3>7. \A i \in Records : i > captured' => fate'[i] = "none"
      BY <1>0, <2>1, <2>3 DEF Accounts, Records
    <3> QED
      BY <3>3, <3>4, <3>5, <3>6, <3>7 DEF Accounts
  <2>4. CASE UNCHANGED ch /\ fate' = [fate EXCEPT ![n] = "dropped"]
    <3>1. \A i \in Records : i # n => fate'[i] = fate[i]
      BY <1>0, <2>4
    <3>2. fate'[n] = "dropped"
      BY <1>0, <2>1, <2>4
    <3>3. \A i \in Records : i > captured' => i > captured /\ i # n
      BY <1>0, <2>1 DEF Records
    <3> QED
      BY <2>1, <2>2, <2>4, <3>1, <3>2, <3>3 DEF Accounts, Queued, Delivered
  <2> QED
    BY <1>2, <2>3, <2>4 DEF Capture, Enqueue, n
<1>3. CASE Dial \/ Sleep \/ Ready \/ Start
  BY <1>1, <1>3 DEF Dial, Sleep, Ready, Start
<1>4. CASE Receive
  <2> DEFINE r == Head(ch)
  <2>1. /\ pc = "recv" /\ ch # <<>> /\ ch' = Tail(ch)
        /\ UNCHANGED <<captured, sent>>
    BY <1>4 DEF Receive
  <2>2. /\ r \in Records /\ r = ch[1] /\ Len(ch) > 0
        /\ Len(ch') = Len(ch) - 1
        /\ \A k \in 1..Len(ch') : ch'[k] = ch[k + 1]
    BY <1>0, <2>1, HeadTailProperties, EmptySeq
  <2> HIDE DEF r
  <2>3. fate[r] = "queued"
    BY <1>0, <2>2 DEF Accounts, Queued
  <2>4. \A j, k \in 1..Len(ch') : ch'[j] = ch'[k] => j = k
    BY <1>0, <2>2, SMTT(30) DEF Accounts
  <2>5. \A i \in Records : Queued(i)' <=> Queued(i) /\ i # r
    <3> SUFFICES ASSUME NEW i \in Records PROVE Queued(i)' <=> Queued(i) /\ i # r
      OBVIOUS
    <3>1. ASSUME Queued(i)' PROVE Queued(i) /\ i # r
      <4>1. PICK k \in 1..Len(ch') : ch'[k] = i
        BY <3>1 DEF Queued
      <4>2. k + 1 \in 1..Len(ch) /\ ch[k + 1] = i /\ k + 1 # 1
        BY <1>0, <2>2, <4>1
      <4> QED
        BY <1>0, <2>2, <4>2 DEF Queued, Accounts
    <3>2. ASSUME Queued(i), i # r PROVE Queued(i)'
      <4>1. PICK k \in 1..Len(ch) : ch[k] = i
        BY <3>2 DEF Queued
      <4>2. k # 1
        BY <2>2, <3>2, <4>1
      <4>3. k - 1 \in 1..Len(ch') /\ ch'[k - 1] = i
        BY <1>0, <2>2, <4>1, <4>2
      <4> QED
        BY <4>3 DEF Queued
    <3> QED
      BY <3>1, <3>2
  <2>6. ASSUME NEW f \in {"taken", "unencodable"},
               fate' = [fate EXCEPT ![r] = f],
               \A i \in Records : (pc' = "write" /\ cur' = i) <=> f = "taken" /\ i = r
        PROVE  Accounts'
    <3>1. \A i \in Records : fate'[i] = IF i = r THEN f ELSE fate[i]
      BY <1>0, <2>2, <2>6
    <3>2. \A i \in Records : Queued(i)' <=> fate'[i] = "queued"
      BY <2>3, <2>5, <3>1 DEF Accounts
    <3>3. \A i \in Records : (pc' = "write" /\ cur' = i) <=> fate'[i] = "taken"
      BY <2>1, <2>6, <3>1 DEF Accounts
    <3>4. \A i \in Records : Delivered(i)' <=> fate'[i] = "sent"
      BY <2>1, <2>3, <3>1 DEF Accounts, Delivered
    <3>5. \A i \in Records : i > captured' => fate'[i] = "none"
      BY <2>1, <2>3, <3>1 DEF Accounts
    <3> QED
      BY <2>4, <3>2, <3>3, <3>4, <3>5 DEF Accounts
  <2>7. CASE cur' = r /\ fate' = [fate EXCEPT ![r] = "taken"] /\ pc' = "write"
    BY <2>6, <2>7
  <2>8. CASE fate' = [fate EXCEPT ![r] = "unencodable"] /\ UNCHANGED <<pc, cur>>
    BY <2>1, <2>6, <2>8
  <2> QED
    BY <1>4, <2>7, <2>8 DEF Receive, r
<1>5. CASE Write
  <2>1. /\ pc = "write" /\ cur \in Records /\ fate[cur] = "taken"
        /\ UNCHANGED <<ch, captured>> /\ pc' # "write"
    BY <1>0, <1>5 DEF Write, Accounts
  <2>2. ASSUME NEW f \in {"sent", "lost"}, fate' = [fate EXCEPT ![cur] = f],
               \A i \in Records : Delivered(i)' <=> Delivered(i) \/ (f = "sent" /\ i = cur)
        PROVE  Accounts'
    <3>1. \A i \in Records : fate'[i] = IF i = cur THEN f ELSE fate[i]
      BY <1>0, <2>1, <2>2
    <3>2. \A i \in Records : Queued(i)' <=> fate'[i] = "queued"
      BY <2>1, <3>1 DEF Accounts, Queued
    <3>3. \A i \in Records : (pc' = "write" /\ cur' = i) <=> fate'[i] = "taken"
      BY <2>1, <3>1 DEF Accounts
    <3>4. \A i \in Records : Delivered(i)' <=> fate'[i] = "sent"
      BY <2>1, <2>2, <3>1 DEF Accounts
    <3>5. \A i \in Records : i > captured' => fate'[i] = "none"
      BY <2>1, <3>1 DEF Accounts
    <3> QED
      BY <2>1, <3>2, <3>3, <3>4, <3>5 DEF Accounts
  <2>3. CASE sent' = Append(sent, cur) /\ fate' = [fate EXCEPT ![cur] = "sent"]
    <3>1. /\ Len(sent') = Len(sent) + 1 /\ sent'[Len(sent) + 1] = cur
          /\ \A k \in 1..Len(sent) : sent'[k] = sent[k]
      BY <1>0, <2>1, <2>3, AppendProperties
    <3>2. \A i \in Records : Delivered(i)' <=> Delivered(i) \/ i = cur
      BY <1>0, <3>1 DEF Delivered
    <3> QED
      BY <2>2, <2>3, <3>2
  <2>4. CASE UNCHANGED sent /\ fate' = [fate EXCEPT ![cur] = "lost"]
    BY <2>2, <2>4 DEF Delivered
  <2> QED
    BY <1>5, <2>3, <2>4 DEF Write
<1>6. CASE CollectorStops \/ CollectorStarts \/ CollectorStallsOrReads
  BY <1>1, <1>6 DEF CollectorStops, CollectorStarts, CollectorStallsOrReads
<1>7. CASE UNCHANGED vars
  BY <1>1, <1>7 DEF vars
<1> QED
  BY <1>2, <1>3, <1>4, <1>5, <1>6, <1>7 DEF Next, run

\* Every record that Capture accepted is still pending, was written to a
\* connection that was open, could not be encoded, or was in a write on one that
\* the collector had broken.
THEOREM NothingElseLost == Spec => []Conservation
<1>1. Init => Accounts /\ Blame
  <2> SUFFICES ASSUME Init PROVE Accounts /\ Blame
    OBVIOUS
  <2>1. Len(ch) = 0 /\ Len(sent) = 0
    BY EmptySeq DEF Init
  <2> QED
    BY <2>1 DEF Init, Accounts, Blame, Queued, Delivered
<1>2. Inv /\ Accounts /\ Blame => Conservation
  <2> SUFFICES ASSUME Inv, Accounts, Blame, NEW i \in 1..captured
               PROVE  /\ (i \in Pending) <=> (fate[i] \in {"queued", "taken"})
                      /\ Delivered(i) <=> fate[i] = "sent"
                      /\ fate[i] = "lost" => breaks > 0
    BY DEF Conservation, Delivered
  <2>1. i \in Records
    BY DnstapAssumption DEF Inv, TypeOK, Records
  <2>2. i \in Pending <=> Queued(i) \/ (pc = "write" /\ cur = i)
    BY DEF Pending, Queued
  <2> QED
    BY <2>1, <2>2 DEF Accounts, Blame
<1> QED
  BY <1>1, <1>2, InvHolds, NextAccounts, NextBlame, PTL DEF Spec

(***************************************************************************)
(* Refinement.                                                             *)
(***************************************************************************)
Waiting == (IF pc = "write" THEN <<cur>> ELSE <<>>) \o ch

\* A step of the exporter is one of the queue, or none.
LEMMA FifoStep == Inv /\ Inv' /\ [Next]_vars => [Fifo!Next]_(Fifo!vars)
<1> SUFFICES ASSUME Inv, Inv', [Next]_vars PROVE [Fifo!Next]_(Fifo!vars)
  OBVIOUS
<1>0. /\ ch \in Seq(Records) /\ ch' \in Seq(Records)
      /\ Len(ch) \in Nat /\ Len(ch) <= Capacity
      /\ captured \in Nat
  BY LenProperties DEF Inv, TypeOK
<1>a. pc = "write" =>
        /\ Waiting = <<cur>> \o ch /\ Waiting \in Seq(Records)
        /\ Len(Waiting) = Len(ch) + 1 /\ Waiting # <<>>
        /\ Head(Waiting) = cur /\ Tail(Waiting) = ch
  <2>1. pc = "write" => cur \in Records
    BY DEF Inv, TypeOK, Records
  <2> QED
    BY <1>0, <2>1, InHand DEF Waiting
<1>b. pc # "write" => Waiting = ch
  BY <1>0, ConcatEmptySeq DEF Waiting
<1>c. pc' # "write" => Waiting' = ch'
  BY <1>0, ConcatEmptySeq DEF Waiting
\* Steps that leave what waits alone.
<1>d. ASSUME UNCHANGED <<captured, ch, cur, sent>>,
             pc' # "write", pc # "write"
      PROVE  UNCHANGED Fifo!vars
  BY <1>b, <1>c, <1>d DEF Fifo!vars, Waiting
<1>e. ASSUME UNCHANGED <<captured, ch, cur, sent, pc>>
      PROVE  UNCHANGED Fifo!vars
  BY <1>e DEF Fifo!vars
<1>1. CASE Capture
  <2>0. captured + 1 \in Records
    BY <1>1, DnstapAssumption DEF Capture, Records, Inv, TypeOK
  <2>1. CASE Len(ch) < Capacity
    <3>1. ch' = Append(ch, captured + 1)
      BY <1>1, <2>1 DEF Capture, Enqueue
    <3>2. Len(Waiting) <= Capacity
      BY <1>0, <1>a, <1>b, <2>1, DnstapAssumption
    <3>3. Waiting' = Append(Waiting, captured + 1)
      <4>1. CASE pc = "write"
        <5>1. <<cur>> \in Seq(Records)
          BY <4>1 DEF Inv, TypeOK, Records
        <5>2. Waiting' = <<cur>> \o ch'
          BY <1>1, <4>1 DEF Capture, Waiting
        <5> QED
          BY <1>0, <1>a, <2>0, <3>1, <4>1, <5>1, <5>2, AppendBehind
      <4>2. CASE pc # "write"
        BY <1>1, <1>b, <1>c, <3>1, <4>2 DEF Capture
      <4> QED
        BY <4>1, <4>2
    <3>4. Fifo!Accept
      BY <1>1, <3>2, <3>3 DEF Capture, Fifo!Accept, Waiting
    <3> QED
      BY <3>4 DEF Fifo!Next
  <2>2. CASE ~(Len(ch) < Capacity)
    <3>1. UNCHANGED <<ch, pc, cur, sent>> /\ captured' = captured + 1
      BY <1>1, <2>2 DEF Capture, Enqueue
    <3>2. Len(Waiting) >= Capacity
      BY <1>0, <1>a, <1>b, <2>2, DnstapAssumption
    <3>3. Fifo!Refuse
      BY <3>1, <3>2 DEF Fifo!Refuse, Waiting
    <3> QED
      BY <3>3 DEF Fifo!Next
  <2> QED
    BY <2>1, <2>2
<1>2. CASE Dial
  BY <1>2, <1>d DEF Dial
<1>3. CASE Sleep
  BY <1>3, <1>d DEF Sleep
<1>4. CASE Ready
  BY <1>4, <1>d DEF Ready
<1>5. CASE Start
  BY <1>5, <1>d DEF Start
<1>6. CASE Receive
  <2>0. ch # <<>> /\ ch' = Tail(ch) /\ Waiting = ch
    BY <1>6, <1>b DEF Receive
  <2>1. CASE pc' = "write"
    <3>1. Waiting' = <<Head(ch)>> \o Tail(ch)
      BY <1>6, <2>0, <2>1 DEF Receive, Waiting
    <3>2. Waiting' = Waiting
      BY <1>0, <2>0, <3>1, TakeInHand
    <3> QED
      BY <1>6, <3>2 DEF Receive, Fifo!vars, Waiting
  <2>2. CASE pc' # "write"
    <3>1. Waiting' = Tail(Waiting) /\ Waiting # <<>>
      BY <1>c, <2>0, <2>2
    <3>2. Fifo!Lose
      BY <1>6, <3>1 DEF Receive, Fifo!Lose, Waiting
    <3> QED
      BY <3>2 DEF Fifo!Next
  <2> QED
    BY <2>1, <2>2
<1>7. CASE Write
  <2>0. /\ pc = "write" /\ pc' # "write" /\ ch' = ch /\ captured' = captured
        /\ Waiting # <<>> /\ Waiting' = Tail(Waiting) /\ Head(Waiting) = cur
    BY <1>7, <1>a, <1>c DEF Write
  <2>1. CASE sent' = Append(sent, cur)
    <3>1. Fifo!Deliver
      BY <2>0, <2>1 DEF Fifo!Deliver, Waiting
    <3> QED
      BY <3>1 DEF Fifo!Next
  <2>2. CASE sent' = sent
    <3>1. Fifo!Lose
      BY <2>0, <2>2 DEF Fifo!Lose, Waiting
    <3> QED
      BY <3>1 DEF Fifo!Next
  <2> QED
    BY <1>7, <2>1, <2>2 DEF Write
<1>8. CASE CollectorStops
  BY <1>8, <1>e DEF CollectorStops
<1>9. CASE CollectorStarts
  BY <1>9, <1>e DEF CollectorStarts
<1>10. CASE CollectorStallsOrReads
  BY <1>10, <1>e DEF CollectorStallsOrReads
<1>11. CASE UNCHANGED vars
  BY <1>11, <1>e DEF vars
<1> QED
  BY <1>1, <1>2, <1>3, <1>4, <1>5, <1>6, <1>7, <1>8, <1>9, <1>10, <1>11
     DEF Next, run

\* The exporter implements the lossy queue: it keeps the order, delivers
\* nothing twice and refuses a record only when the channel is full.
THEOREM FifoImplemented == Spec => ImplementsFifo
<1>1. Init => Fifo!Init
  BY ConcatEmptySeq, EmptySeq DEF Init, Fifo!Init
<1>2. Inv /\ Inv' /\ [Next]_vars => [Fifo!Next]_(Fifo!vars)
  BY FifoStep
<1> QED
  BY <1>1, <1>2, InvHolds, PTL DEF Spec, ImplementsFifo, Fifo!Spec

=============================================================================
