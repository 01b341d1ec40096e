--------------------------- MODULE TracePageProofs ---------------------------
(***************************************************************************)
(* What a log keeps, for any number of events, limits and positions of the *)
(* ring, and what a page shows of any number of traces.                    *)
(*                                                                         *)
(* For the logs the argument is an account of every slot of the ring       *)
(* (RingKeeps): the slots up to pos hold the latest events, and those      *)
(* behind it the ones logged before these.  It is stated without the       *)
(* modulo of the code, so that a step of the ring is linear arithmetic;    *)
(* Do's modulo is resolved once, in DoVisits.  A page being gathered       *)
(* changes no log.                                                         *)
(*                                                                         *)
(* For a page it is an account of what remains to be gathered: every trace *)
(* that a line refers to is seen, with its lines, or has a call pending    *)
(* (PageOK).                                                               *)
(***************************************************************************)
EXTENDS TracePage, OrderTheorems, SequenceTheorems, TLAPS

\* Where the event in slot j of a ring of m is in a log of n events.
Slot(pos, m, n, j) ==
  IF j <= pos + 1 THEN n - pos - 1 + j ELSE n - m - pos - 1 + j

\* The size, position and firstDrop of the ring r of a log with events s, of
\* which the first c are not for the ring.
RingShape(r, s, c, max) ==
  /\ r.max = max
  /\ Len(r.evts) = IF Len(s) - c <= max THEN Len(s) - c ELSE max
  /\ Len(r.evts) > 0 /\ r.pos < Len(r.evts)
  /\ Len(s) - c <= max => r.pos = Len(r.evts) - 1 /\ r.firstDrop = 0
  /\ Len(s) - c > max => r.firstDrop = s[c + 1].When

\* The events in its slots.
RingKeeps(r, s) ==
  \A j \in 1 .. Len(r.evts) : r.evts[j] = s[Slot(r.pos, Len(r.evts), Len(s), j)]

\* The log l of a trace with events s.
Keeps(l, s) ==
  /\ l \in Log /\ l.maxEvents >= 3 /\ l.cutoff = l.maxEvents \div 3
  /\ Len(l.firstEvents) = IF Len(s) <= l.cutoff THEN Len(s) ELSE l.cutoff
  /\ \A i \in 1 .. Len(l.firstEvents) : l.firstEvents[i] = s[i]
  /\ Len(s) <= l.cutoff => l.lastEvents = None
  /\ Len(s) > l.cutoff =>
       /\ l.lastEvents \in Ring
       /\ RingShape(l.lastEvents, s, l.cutoff, l.maxEvents - l.cutoff)
       /\ RingKeeps(l.lastEvents, s)

-----------------------------------------------------------------------------
\* An index of a ring of m slots goes round at most once in Add and in Do.
LEMMA RoundOnce ==
  ASSUME NEW m \in Nat \ {0}, NEW a \in Nat, a < 2 * m
  PROVE  a % m = IF a < m THEN a ELSE a - m
<1>1. CASE a < m
  BY <1>1
<1>2. CASE a >= m
  <2> DEFINE b == a - m
  <2>1. b \in Nat /\ b < m /\ a = b + m
    BY <1>2
  <2>2. b % m = b
    BY <2>1
  <2>3. (b + m) % m = b % m
    BY <2>1
  <2> QED
    BY <1>2, <2>1, <2>2, <2>3
<1> QED
  BY <1>1, <1>2

\* The position of a full ring after another event.
LEMMA NextPos ==
  ASSUME NEW m \in Nat \ {0}, NEW q \in 0 .. m - 1
  PROVE  (q + 1) % m = IF q + 1 < m THEN q + 1 ELSE 0
<1>1. PICK a : a = q + 1
  OBVIOUS
<1>2. a \in Nat /\ a < 2 * m
  BY <1>1
<1>3. a % m = IF a < m THEN a ELSE a - m
  BY <1>2, RoundOnce
<1> QED
  BY <1>1, <1>3

\* Events have a time.
LEMMA EventTimes ==
  ASSUME NEW x \in Event
  PROVE  x.When \in Nat \ {0}
BY EventLogAssumption DEF Event

\* The slots of a full ring, when its position advances to p: the next slot
\* held the oldest event, and the events of the others stay where they are.
LEMMA SlotsStay ==
  ASSUME NEW m \in Nat \ {0}, NEW q \in 0 .. m - 1, NEW p \in Nat,
         p = IF q + 1 < m THEN q + 1 ELSE 0,
         NEW n \in Nat, n >= m
  PROVE  /\ p + 1 \in 1 .. m
         /\ Slot(q, m, n, p + 1) = n - m + 1
         /\ Slot(p, m, n + 1, p + 1) = n + 1
         /\ \A j \in 1 .. m : j # p + 1 =>
              /\ Slot(p, m, n + 1, j) = Slot(q, m, n, j)
              /\ Slot(q, m, n, j) \in 1 .. n
<1>1. CASE q + 1 < m
  <2>1. p = q + 1
    BY <1>1
  <2> QED
    BY <1>1, <2>1 DEF Slot
<1>2. CASE q + 1 >= m
  <2>1. p = 0 /\ q = m - 1
    BY <1>2
  <2> QED
    BY <2>1 DEF Slot
<1> QED
  BY <1>1, <1>2

\* Add while there is room for an event ...
LEMMA AddRoom ==
  ASSUME NEW r \in Ring, NEW e \in Event, Len(r.evts) < r.max
  PROVE  Add(r, e) = [evts |-> Append(r.evts, e), max |-> r.max,
                      pos |-> r.pos + 1, firstDrop |-> r.firstDrop]
<1>1. Add(r, e) = [r EXCEPT !.evts = Append(@, e), !.pos = @ + 1]
  BY Zenon DEF Add
<1>2. r = [evts |-> r.evts, max |-> r.max, pos |-> r.pos,
           firstDrop |-> r.firstDrop]
  BY DEF Ring
<1> QED
  BY <1>1, <1>2

\* ... and on a full ring, which gives up the event in slot p.
LEMMA AddFull ==
  ASSUME NEW r \in Ring, NEW e \in Event, Len(r.evts) = r.max,
         NEW p \in Nat, p = (r.pos + 1) % r.max
  PROVE  Add(r, e) = [evts |-> [r.evts EXCEPT ![p + 1] = e], max |-> r.max,
                      pos |-> p,
                      firstDrop |-> IF r.firstDrop = 0
                                    THEN r.evts[p + 1].When ELSE r.firstDrop]
<1>1. ~(Len(r.evts) < r.max)
  BY DEF Ring
<1>2. Add(r, e) = [r EXCEPT !.pos = p,
                            !.firstDrop = IF @ = 0 THEN r.evts[p + 1].When
                                          ELSE @,
                            !.evts[p + 1] = e]
  BY <1>1, Zenon DEF Add
<1>3. r = [evts |-> r.evts, max |-> r.max, pos |-> r.pos,
           firstDrop |-> r.firstDrop]
  BY DEF Ring
<1> QED
  BY <1>2, <1>3

\* s1 is s with an event more, e.
Longer(s, s1, e) ==
  /\ Len(s1) = Len(s) + 1 /\ s1[Len(s) + 1] = e
  /\ \A i \in 1 .. Len(s) : s1[i] = s[i]

\* A ring that grows goes on holding the events after the first c.
LEMMA RoomKeeps ==
  ASSUME NEW r \in Ring, NEW r1 \in Ring, NEW e \in Event, NEW c \in Nat,
         NEW s \in Seq(Event), NEW s1 \in Seq(Event), Longer(s, s1, e),
         NEW max \in Nat \ {0}, RingShape(r, s, c, max), RingKeeps(r, s),
         Len(r.evts) < max,
         Longer(r.evts, r1.evts, e), r1.max = max,
         r1.pos = r.pos + 1, r1.firstDrop = r.firstDrop
  PROVE  RingShape(r1, s1, c, max) /\ RingKeeps(r1, s1)
<1>1. /\ Len(s) \in Nat /\ Len(s1) \in Nat /\ r.pos \in Nat /\ r1.pos \in Nat
      /\ Len(r.evts) \in Nat /\ Len(r1.evts) \in Nat
  BY DEF Ring
<1>2. /\ Len(r.evts) = Len(s) - c /\ r.pos = Len(r.evts) - 1
      /\ r.firstDrop = 0
  BY <1>1 DEF RingShape
<1>3. Len(s1) = Len(s) + 1 /\ Len(r1.evts) = Len(r.evts) + 1
  BY DEF Longer
<1>4. RingShape(r1, s1, c, max)
  BY <1>1, <1>2, <1>3 DEF RingShape
<1>5. ASSUME NEW j \in 1 .. Len(r1.evts)
      PROVE  r1.evts[j] = s1[Slot(r1.pos, Len(r1.evts), Len(s1), j)]
  <2>1. Slot(r1.pos, Len(r1.evts), Len(s1), j) = c + j
    BY <1>1, <1>2, <1>3 DEF Slot
  <2>2. CASE j \in 1 .. Len(r.evts)
    <3>1. Slot(r.pos, Len(r.evts), Len(s), j) = c + j /\ c + j \in 1 .. Len(s)
      BY <1>1, <1>2, <2>2 DEF Slot
    <3> QED
      BY <2>1, <2>2, <3>1 DEF RingKeeps, Longer
  <2>3. CASE j = Len(r.evts) + 1
    <3>1. c + j = Len(s) + 1
      BY <1>1, <1>2, <2>3
    <3> QED
      BY <2>1, <2>3, <3>1 DEF Longer
  <2> QED
    BY <1>1, <1>3, <2>2, <2>3
<1> QED
  BY <1>4, <1>5 DEF RingKeeps

\* r1 is the full ring r with e in the place of the event in slot p + 1.
Replaced(r, r1, e, p, max) ==
  /\ Len(r.evts) = max /\ Len(r1.evts) = max
  /\ p = IF r.pos + 1 < max THEN r.pos + 1 ELSE 0
  /\ r1.evts[p + 1] = e
  /\ \A i \in 1 .. max : i # p + 1 => r1.evts[i] = r.evts[i]
  /\ r1.max = max /\ r1.pos = p
  /\ r1.firstDrop = IF r.firstDrop = 0 THEN r.evts[p + 1].When
                    ELSE r.firstDrop

\* A full ring holds the latest events as one takes the place of the oldest.
LEMMA FullKeeps ==
  ASSUME NEW r \in Ring, NEW r1 \in Ring, NEW e \in Event, NEW c \in Nat,
         NEW s \in Seq(Event), NEW s1 \in Seq(Event), Longer(s, s1, e),
         NEW max \in Nat \ {0}, RingShape(r, s, c, max), RingKeeps(r, s),
         NEW p \in Nat, Replaced(r, r1, e, p, max)
  PROVE  RingShape(r1, s1, c, max) /\ RingKeeps(r1, s1)
<1>1. /\ Len(r.evts) = max /\ Len(r1.evts) = max
      /\ p = IF r.pos + 1 < max THEN r.pos + 1 ELSE 0
      /\ r1.evts[p + 1] = e
      /\ \A i \in 1 .. max : i # p + 1 => r1.evts[i] = r.evts[i]
      /\ r1.max = max /\ r1.pos = p
      /\ r1.firstDrop = IF r.firstDrop = 0 THEN r.evts[p + 1].When
                        ELSE r.firstDrop
  BY Zenon DEF Replaced
<1>2. /\ Len(s) \in Nat /\ Len(s1) \in Nat /\ r.pos \in Nat
      /\ r.pos < max
  <2>1. /\ Len(s) \in Nat /\ Len(s1) \in Nat /\ r.pos \in Nat
        /\ r.pos < Len(r.evts)
    BY DEF Ring, RingShape
  <2> QED
    BY <1>1, <2>1
<1>3. Len(s) - c >= max /\ Len(s1) = Len(s) + 1
  BY <1>1, <1>2 DEF RingShape, Longer
<1>4. /\ p + 1 \in 1 .. max
      /\ Slot(r.pos, max, Len(s), p + 1) = Len(s) - max + 1
      /\ Slot(p, max, Len(s) + 1, p + 1) = Len(s) + 1
      /\ \A j \in 1 .. max : j # p + 1 =>
           /\ Slot(p, max, Len(s) + 1, j) = Slot(r.pos, max, Len(s), j)
           /\ Slot(r.pos, max, Len(s), j) \in 1 .. Len(s)
  <2>1. r.pos \in 0 .. max - 1 /\ Len(s) \in Nat /\ Len(s) >= max
    BY <1>2, <1>3
  <2> QED
    BY <1>1, <2>1, SlotsStay, Zenon
<1>5. r.evts[p + 1] = s[Len(s) - max + 1]
  BY <1>1, <1>4, SMTT(30) DEF RingKeeps
<1>6. c + 1 \in 1 .. Len(s) /\ s[c + 1] \in Event
  BY <1>2, <1>3
<1>7. s[c + 1].When # 0
  BY <1>6, EventTimes, Zenon
<1>8. s1[c + 1] = s[c + 1]
  BY <1>6, Zenon DEF Longer
<1>9. r1.firstDrop = s1[c + 1].When
  <2>1. CASE Len(s) - c = max
    <3>1. r.firstDrop = 0 /\ Len(s) - max + 1 = c + 1
      BY <1>2, <2>1 DEF RingShape
    <3> QED
      BY <1>1, <1>5, <1>8, <3>1
  <2>2. CASE Len(s) - c > max
    <3>1. r.firstDrop = s[c + 1].When
      BY <2>2, Zenon DEF RingShape
    <3> QED
      BY <1>1, <1>7, <1>8, <3>1
  <2> QED
    BY <1>2, <1>3, <2>1, <2>2
<1>10. RingShape(r1, s1, c, max)
  BY <1>1, <1>2, <1>3, <1>9 DEF RingShape
<1>11. ASSUME NEW j \in 1 .. max
      PROVE  r1.evts[j] = s1[Slot(p, max, Len(s) + 1, j)]
  <2>1. CASE j = p + 1
    <3>1. s1[Len(s) + 1] = e
      BY DEF Longer
    <3> QED
      BY <1>1, <1>4, <2>1, <3>1
  <2>2. CASE j # p + 1
    <3>1. /\ Slot(p, max, Len(s) + 1, j) = Slot(r.pos, max, Len(s), j)
          /\ Slot(r.pos, max, Len(s), j) \in 1 .. Len(s)
      BY <1>4, <2>2
    <3>2. /\ r1.evts[j] = r.evts[j]
          /\ r.evts[j] = s[Slot(r.pos, max, Len(s), j)]
      BY <1>1, <2>2, Zenon DEF RingKeeps
    <3>3. s1[Slot(r.pos, max, Len(s), j)] = s[Slot(r.pos, max, Len(s), j)]
      BY <3>1, Zenon DEF Longer
    <3> QED
      BY <3>1, <3>2, <3>3
  <2> QED
    BY <2>1, <2>2
<1> QED
  BY <1>1, <1>3, <1>10, <1>11 DEF RingKeeps

\* A ring goes on holding the latest events as another one is added.
LEMMA AddKeeps ==
  ASSUME NEW r \in Ring, NEW s \in Seq(Event), NEW e \in Event, NEW c \in Nat,
         NEW max \in Nat \ {0}, RingShape(r, s, c, max), RingKeeps(r, s)
  PROVE  /\ Add(r, e) \in Ring
         /\ RingShape(Add(r, e), Append(s, e), c, max)
         /\ RingKeeps(Add(r, e), Append(s, e))
<1>1. PICK s1 : s1 = Append(s, e)
  OBVIOUS
<1>2. s1 \in Seq(Event) /\ Longer(s, s1, e)
  BY <1>1 DEF Longer
<1>3. PICK r1 : r1 = Add(r, e)
  OBVIOUS
<1>4. /\ r.max = max /\ r.evts \in Seq(Event) /\ r.pos \in Nat
      /\ Len(r.evts) \in 1 .. max /\ r.pos < Len(r.evts)
      /\ r.firstDrop \in 0 .. MaxLogged
  BY DEF RingShape, Ring
<1>5. CASE Len(r.evts) < max
  <2>1. r1 = [evts |-> Append(r.evts, e), max |-> max,
              pos |-> r.pos + 1, firstDrop |-> r.firstDrop]
    BY <1>3, <1>4, <1>5, AddRoom
  <2>2. r1 \in Ring
    BY <1>4, <2>1 DEF Ring
  <2>3. Longer(r.evts, r1.evts, e)
    BY <1>4, <2>1 DEF Longer
  <2>4. RingShape(r1, s1, c, max) /\ RingKeeps(r1, s1)
    BY <1>2, <1>5, <2>1, <2>2, <2>3, RoomKeeps
  <2> QED
    BY <1>1, <1>3, <2>2, <2>4
<1>6. CASE Len(r.evts) = max
  <2>1. PICK p : p = IF r.pos + 1 < max THEN r.pos + 1 ELSE 0
    OBVIOUS
  <2>2. p \in 0 .. max - 1 /\ (r.pos + 1) % max = p
    <3>1. r.pos \in 0 .. max - 1
      BY <1>4, <1>6
    <3>2. (r.pos + 1) % max = IF r.pos + 1 < max THEN r.pos + 1 ELSE 0
      BY <3>1, NextPos, Zenon
    <3>3. p \in 0 .. max - 1
      BY <2>1, <3>1
    <3> QED
      BY <2>1, <3>2, <3>3, Zenon
  <2>3. r1 = [evts |-> [r.evts EXCEPT ![p + 1] = e], max |-> max, pos |-> p,
              firstDrop |-> IF r.firstDrop = 0 THEN r.evts[p + 1].When
                            ELSE r.firstDrop]
    BY <1>3, <1>4, <1>6, <2>2, AddFull
  <2>4. p + 1 \in 1 .. Len(r.evts) /\ r.evts[p + 1] \in Event
    BY <1>4, <1>6, <2>2, SMTT(30)
  <2>5. r.evts[p + 1].When \in 1 .. MaxLogged
    BY <2>4 DEF Event
  <2>6. r1.firstDrop \in 0 .. MaxLogged
    BY <1>4, <2>3, <2>5
  <2>7. /\ r1.evts \in Seq(Event) /\ Len(r1.evts) = max
        /\ r1.evts[p + 1] = e
        /\ \A i \in 1 .. max : i # p + 1 => r1.evts[i] = r.evts[i]
    BY <1>4, <1>6, <2>3, <2>4
  <2>8. r1 \in Ring
    BY <1>4, <2>2, <2>3, <2>6, <2>7 DEF Ring
  <2>9. RingShape(r1, s1, c, max) /\ RingKeeps(r1, s1)
    <3>1. Replaced(r, r1, e, p, max)
      <4>1. /\ r1.max = max /\ r1.pos = p
            /\ r1.firstDrop = IF r.firstDrop = 0 THEN r.evts[p + 1].When
                              ELSE r.firstDrop
        BY <2>3
      <4> QED
        BY <1>6, <2>1, <2>7, <4>1, Zenon DEF Replaced
    <3>2. p \in Nat
      BY <2>2
    <3> QED
      BY <1>2, <2>8, <3>1, <3>2, FullKeeps
  <2> QED
    BY <1>1, <1>3, <2>8, <2>9
<1> QED
  BY <1>4, <1>5, <1>6

\* The ring of a log starts with the first event for which there is no room
\* among the first ones.
LEMMA AddFirst ==
  ASSUME NEW e \in Event, NEW s \in Seq(Event), NEW s1 \in Seq(Event),
         Longer(s, s1, e), NEW max \in Nat \ {0}
  PROVE  /\ Add(newEvtRing(max), e) \in Ring
         /\ RingShape(Add(newEvtRing(max), e), s1, Len(s), max)
         /\ RingKeeps(Add(newEvtRing(max), e), s1)
<1>1. PICK r : r = newEvtRing(max)
  OBVIOUS
<1>2. r = [evts |-> <<>>, max |-> max, pos |-> -1, firstDrop |-> 0]
  BY <1>1 DEF newEvtRing
<1>3. Len(r.evts) < r.max
  BY <1>2
<1>4. PICK r1 : r1 = Add(r, e)
  OBVIOUS
<1>5. r1 = [r EXCEPT !.evts = Append(@, e), !.pos = @ + 1]
  BY <1>3, <1>4, Zenon DEF Add
<1>6. r1 = [evts |-> <<e>>, max |-> max, pos |-> 0, firstDrop |-> 0]
  <2>1. Append(r.evts, e) = <<e>> /\ r.pos + 1 = 0
    BY <1>2
  <2>2. r1 = [evts |-> Append(r.evts, e), max |-> max, pos |-> r.pos + 1,
              firstDrop |-> 0]
    BY <1>2, <1>5
  <2> QED
    BY <2>1, <2>2
<1>7. r1.max = max /\ r1.evts = <<e>> /\ r1.pos = 0 /\ r1.firstDrop = 0
  BY <1>6
<1>8. r1 \in Ring
  BY <1>6, EventLogAssumption DEF Ring
<1>9. RingShape(r1, s1, Len(s), max)
  BY <1>7 DEF RingShape, Longer
<1>10. r1.evts[1] = s1[Slot(0, 1, Len(s1), 1)]
  <2>1. Slot(0, 1, Len(s1), 1) = Len(s1)
    BY DEF Slot
  <2> QED
    BY <1>7, <2>1 DEF Longer
<1>11. RingKeeps(r1, s1)
  BY <1>7, <1>10 DEF RingKeeps
<1> QED
  BY <1>1, <1>4, <1>8, <1>9, <1>11

\* append keeps a log as it should be.
LEMMA AppendedKeeps ==
  ASSUME NEW l, NEW s \in Seq(Event), Keeps(l, s), NEW e \in Event
  PROVE  Keeps(Appended(l, e), Append(s, e))
<1>1. PICK s1 : s1 = Append(s, e)
  OBVIOUS
<1>2. s1 \in Seq(Event) /\ Longer(s, s1, e)
  BY <1>1 DEF Longer
<1>3. PICK c, max : c = l.cutoff /\ max = l.maxEvents - l.cutoff
  OBVIOUS
<1>4. /\ l \in Log /\ l.maxEvents \in Nat /\ l.maxEvents >= 3
      /\ l.cutoff = l.maxEvents \div 3 /\ l.firstEvents \in Seq(Event)
      /\ l.lastEvents \in Ring \cup {None}
  BY DEF Keeps, Log
<1>5. c \in Nat /\ max \in Nat \ {0}
  BY <1>3, <1>4
<1>6. l = [maxEvents |-> l.maxEvents, cutoff |-> l.cutoff,
           firstEvents |-> l.firstEvents, lastEvents |-> l.lastEvents]
  BY <1>4 DEF Log
<1>7. Len(s) \in Nat /\ Len(s1) = Len(s) + 1
  BY <1>2 DEF Longer
<1>8. PICK l1 : l1 = Appended(l, e)
  OBVIOUS
<1>9. CASE Len(s) < c
  <2>1. /\ Len(l.firstEvents) = Len(s)
        /\ \A i \in 1 .. Len(s) : l.firstEvents[i] = s[i]
        /\ l.lastEvents = None
    BY <1>3, <1>5, <1>7, <1>9 DEF Keeps
  <2>2. l1 = [l EXCEPT !.firstEvents = Append(@, e)]
    BY <1>3, <1>8, <1>9, <2>1, Zenon DEF Appended
  <2>3. l1 = [maxEvents |-> l.maxEvents, cutoff |-> l.cutoff,
              firstEvents |-> Append(l.firstEvents, e),
              lastEvents |-> l.lastEvents]
    BY <1>6, <2>2
  <2>4. /\ l1.maxEvents = l.maxEvents /\ l1.cutoff = l.cutoff
        /\ l1.firstEvents = Append(l.firstEvents, e) /\ l1.lastEvents = None
    BY <2>1, <2>3
  <2>5. l1 \in Log
    BY <1>3, <1>4, <1>5, <2>3 DEF Log
  <2>6. /\ Len(l1.firstEvents) = Len(s1)
        /\ \A i \in 1 .. Len(s1) : l1.firstEvents[i] = s1[i]
    BY <1>1, <1>4, <2>1, <2>4
  <2> QED
    BY <1>1, <1>3, <1>4, <1>5, <1>7, <1>8, <1>9, <2>4, <2>5, <2>6 DEF Keeps
<1>10. CASE Len(s) >= c
  <2>1. /\ Len(l.firstEvents) = c
        /\ \A i \in 1 .. c : l.firstEvents[i] = s[i]
    BY <1>3, <1>5, <1>7, <1>10 DEF Keeps
  <2>2. PICK r : r = Add(IF l.lastEvents = None THEN newEvtRing(max)
                         ELSE l.lastEvents, e)
    OBVIOUS
  <2>3. ~(Len(l.firstEvents) < l.cutoff)
    BY <1>3, <1>5, <2>1
  <2>4. l1 = [l EXCEPT !.lastEvents = r]
    BY <1>3, <1>8, <2>2, <2>3, Zenon DEF Appended
  <2>5. l1 = [maxEvents |-> l.maxEvents, cutoff |-> l.cutoff,
              firstEvents |-> l.firstEvents, lastEvents |-> r]
    BY <1>6, <2>4
  <2>6. /\ l1.maxEvents = l.maxEvents /\ l1.cutoff = l.cutoff
        /\ l1.firstEvents = l.firstEvents /\ l1.lastEvents = r
    BY <2>5
  <2>7. r \in Ring /\ RingShape(r, s1, c, max) /\ RingKeeps(r, s1)
    <3>1. CASE Len(s) = c
      <4>1. l.lastEvents = None
        BY <1>3, <1>5, <3>1 DEF Keeps
      <4>2. r = Add(newEvtRing(max), e)
        BY <2>2, <4>1
      <4> QED
        BY <1>2, <1>5, <3>1, <4>2, AddFirst
    <3>2. CASE Len(s) > c
      <4>1. /\ l.lastEvents \in Ring /\ RingShape(l.lastEvents, s, c, max)
            /\ RingKeeps(l.lastEvents, s)
        BY <1>3, <3>2 DEF Keeps
      <4>2. r = Add(l.lastEvents, e)
        BY <2>2, <4>1, EventLogAssumption
      <4> QED
        BY <1>1, <1>5, <4>1, <4>2, AddKeeps
    <3> QED
      BY <1>5, <1>7, <1>10, <3>1, <3>2
  <2>8. l1 \in Log
    BY <1>3, <1>4, <1>5, <2>5, <2>7 DEF Log
  <2>9. \A i \in 1 .. c : l1.firstEvents[i] = s1[i]
    BY <1>2, <1>5, <1>7, <1>10, <2>1, <2>6 DEF Longer
  <2>10. Len(s1) > c
    BY <1>5, <1>7, <1>10
  <2> QED
    BY <1>1, <1>3, <1>4, <1>5, <1>7, <1>8, <2>1, <2>6, <2>7, <2>8, <2>9, <2>10
       DEF Keeps
<1> QED
  BY <1>5, <1>7, <1>9, <1>10

\* Do visits the events of a ring in the order of the log.
LEMMA DoVisits ==
  ASSUME NEW r \in Ring, NEW s \in Seq(Event), NEW c \in Nat,
         NEW max \in Nat \ {0}, RingShape(r, s, c, max), RingKeeps(r, s)
  PROVE  /\ Len(Do(r)) = Len(r.evts) /\ Do(r) \in Seq(Event)
         /\ \A i \in 1 .. Len(r.evts) :
              Do(r)[i] = s[Len(s) - Len(r.evts) + i]
<1>1. PICK m, n, pos : m = Len(r.evts) /\ n = Len(s) /\ pos = r.pos
  OBVIOUS
<1>2. /\ m \in Nat \ {0} /\ n \in Nat /\ pos \in 0 .. m - 1 /\ n >= m
      /\ r.evts \in Seq(Event)
  BY <1>1 DEF RingShape, Ring
<1>3. Do(r) = [i \in 1 .. m |-> r.evts[((pos + i) % m) + 1]]
  BY <1>1 DEF Do
<1>4. ASSUME NEW i \in 1 .. m
      PROVE  /\ ((pos + i) % m) + 1 \in 1 .. m
             /\ Slot(pos, m, n, ((pos + i) % m) + 1) = n - m + i
  <2>1. PICK a : a = pos + i
    OBVIOUS
  <2>2. a \in Nat /\ a < 2 * m
    BY <1>2, <2>1
  <2>3. a % m = IF a < m THEN a ELSE a - m
    BY <1>2, <2>2, RoundOnce
  <2>4. CASE a < m
    <3>1. a % m = a
      BY <2>3, <2>4
    <3>2. ~(a + 1 <= pos + 1)
      BY <1>2, <2>1
    <3>3. Slot(pos, m, n, a + 1) = n - m - pos - 1 + (a + 1)
      BY <3>2 DEF Slot
    <3> QED
      BY <1>2, <2>1, <2>2, <2>4, <3>1, <3>3, SMTT(30)
  <2>5. CASE ~(a < m)
    <3>1. a % m = a - m
      BY <2>3, <2>5
    <3>2. a - m + 1 <= pos + 1
      BY <1>2, <2>1
    <3>3. Slot(pos, m, n, a - m + 1) = n - pos - 1 + (a - m + 1)
      BY <3>2 DEF Slot
    <3> QED
      BY <1>2, <2>1, <2>2, <2>5, <3>1, <3>2, <3>3
  <2> QED
    BY <2>4, <2>5
<1>5. \A j \in 1 .. m : r.evts[j] = s[Slot(pos, m, n, j)] /\ r.evts[j] \in Event
  BY <1>1, <1>2 DEF RingKeeps
<1>6. \A i \in 1 .. m : Do(r)[i] = s[n - m + i] /\ Do(r)[i] \in Event
  BY <1>3, <1>4, <1>5
<1>7. DOMAIN Do(r) = 1 .. m /\ Do(r) \in [1 .. m -> Event]
  BY <1>3, <1>6, Zenon
<1>8. Do(r) \in Seq(Event) /\ Len(Do(r)) = m
  BY <1>2, <1>7, IsASeq
<1> QED
  BY <1>1, <1>6, <1>8

\* A sequence that agrees with the start of another, and one that agrees with
\* its end.
LEMMA StartAndEnd ==
  ASSUME NEW S, NEW s \in Seq(S), NEW f \in Seq(S), NEW d \in Seq(S),
         Len(f) <= Len(s), Len(d) <= Len(s),
         \A i \in 1 .. Len(f) : f[i] = s[i],
         \A i \in 1 .. Len(d) : d[i] = s[Len(s) - Len(d) + i]
  PROVE  /\ f = SubSeq(s, 1, Len(f))
         /\ d = SubSeq(s, Len(s) - Len(d) + 1, Len(s))
         /\ Len(f) + Len(d) = Len(s) => f \o d = s
<1>1. PICK m, n, k : m = Len(f) /\ n = Len(s) /\ k = Len(d)
  OBVIOUS
<1>2. m \in Nat /\ n \in Nat /\ k \in Nat /\ m <= n /\ k <= n
  BY <1>1
<1>3. f = SubSeq(s, 1, m)
  <2>1. \A i \in 1 .. m : s[i] \in S
    BY <1>1, <1>2
  <2>2. PICK g : g = SubSeq(s, 1, m)
    OBVIOUS
  <2>3. /\ g \in Seq(S) /\ Len(g) = IF 1 <= m THEN m - 1 + 1 ELSE 0
        /\ \A i \in 1 .. m - 1 + 1 : g[i] = s[1 + i - 1]
    BY <1>2, <2>1, <2>2, SubSeqProperties
  <2>4. Len(g) = Len(f)
    BY <1>1, <1>2, <2>3
  <2>5. \A i \in 1 .. Len(g) : g[i] = f[i]
    BY <1>1, <1>2, <2>3, <2>4
  <2> QED
    BY <2>2, <2>3, <2>4, <2>5, SeqEqual
<1>4. d = SubSeq(s, n - k + 1, n)
  <2>1. \A i \in n - k + 1 .. n : s[i] \in S
    BY <1>1, <1>2
  <2>2. PICK g, a : g = SubSeq(s, n - k + 1, n) /\ a = n - k + 1
    OBVIOUS
  <2>3. a \in Int
    BY <1>2, <2>2
  <2>4. /\ g \in Seq(S) /\ Len(g) = IF a <= n THEN n - a + 1 ELSE 0
        /\ \A i \in 1 .. n - a + 1 : g[i] = s[a + i - 1]
    BY <1>2, <2>1, <2>2, <2>3, SubSeqProperties
  <2>5. Len(g) = Len(d)
    BY <1>1, <1>2, <2>2, <2>4
  <2>6. ASSUME NEW i \in 1 .. Len(g)
        PROVE  g[i] = d[i]
    <3>1. i \in 1 .. k /\ i \in 1 .. n - a + 1 /\ a + i - 1 = n - k + i
      BY <1>1, <1>2, <2>2, <2>5
    <3>2. g[i] = s[n - k + i]
      BY <2>4, <3>1
    <3> QED
      BY <1>1, <3>1, <3>2
  <2> QED
    BY <2>2, <2>4, <2>5, <2>6, SeqEqual
<1>5. ASSUME m + k = n
      PROVE  f \o d = s
  <2>1. PICK g : g = f \o d
    OBVIOUS
  <2>2. /\ g \in Seq(S) /\ Len(g) = m + k
        /\ \A i \in 1 .. m + k : g[i] = IF i <= m THEN f[i] ELSE d[i - m]
    BY <1>1, <2>1, ConcatProperties
  <2>3. ASSUME NEW i \in 1 .. Len(g)
        PROVE  g[i] = s[i]
    <3>1. CASE i <= m
      BY <1>1, <1>2, <2>2, <3>1
    <3>2. CASE ~(i <= m)
      <4>1. i - m \in 1 .. k /\ n - k + (i - m) = i
        BY <1>2, <1>5, <2>2, <3>2
      <4>2. g[i] = d[i - m]
        BY <2>2, <3>2
      <4>3. d[i - m] = s[n - k + (i - m)]
        BY <1>1, <4>1
      <4> QED
        BY <4>1, <4>2, <4>3
    <3> QED
      BY <3>1, <3>2
  <2> QED
    BY <1>1, <1>5, <2>1, <2>2, <2>3, SeqEqual
<1> QED
  BY <1>1, <1>3, <1>4, <1>5

\* What Events returns for a log that is as it should be.
LEMMA EventsOfLog ==
  ASSUME NEW t, NEW s \in Seq(Event), Keeps(log[t], s)
  PROVE  LET n == Len(s)
             l == log[t]
         IN Events(t) =
              IF n <= l.maxEvents THEN s
              ELSE SubSeq(s, 1, l.cutoff) \o <<DROP(s[l.cutoff + 1].When)>>
                   \o SubSeq(s, n - (l.maxEvents - l.cutoff) + 1, n)
<1>1. PICK l, f, r, c, k, n : /\ l = log[t] /\ f = l.firstEvents
                              /\ r = l.lastEvents /\ c = l.cutoff
                              /\ k = l.maxEvents /\ n = Len(s)
  OBVIOUS
<1>2. k \in Nat /\ k >= 3 /\ c = k \div 3 /\ f \in Seq(Event)
  BY <1>1 DEF Keeps, Log
<1>3. c \in Nat /\ k - c \in Nat \ {0} /\ n \in Nat /\ c < k
  BY <1>1, <1>2
<1>4. /\ Len(f) = IF n <= c THEN n ELSE c
      /\ \A i \in 1 .. Len(f) : f[i] = s[i]
  BY <1>1 DEF Keeps
<1>5. CASE n <= c
  <2>1. r = None
    BY <1>1, <1>5 DEF Keeps
  <2>2. f = s
    BY <1>1, <1>2, <1>4, <1>5, SeqEqual
  <2>3. Events(t) = f
    BY <1>1, <2>1 DEF Events
  <2>4. n <= k
    BY <1>2, <1>3, <1>5
  <2> QED
    BY <1>1, <2>2, <2>3, <2>4
<1>6. CASE ~(n <= c)
  <2>1. r \in Ring /\ RingShape(r, s, c, k - c) /\ RingKeeps(r, s)
    <3>1. Len(s) > l.cutoff
      BY <1>1, <1>3, <1>6
    <3> QED
      BY <1>1, <3>1 DEF Keeps
  <2>2. PICK d : d = Do(r)
    OBVIOUS
  <2>3. PICK max : max = k - c
    OBVIOUS
  <2>4. /\ d \in Seq(Event) /\ Len(d) = Len(r.evts)
        /\ \A i \in 1 .. Len(d) : d[i] = s[Len(s) - Len(d) + i]
    <3>1. max \in Nat \ {0} /\ RingShape(r, s, c, max)
      BY <1>3, <2>1, <2>3
    <3>2. /\ Len(Do(r)) = Len(r.evts) /\ Do(r) \in Seq(Event)
          /\ \A i \in 1 .. Len(r.evts) :
               Do(r)[i] = s[Len(s) - Len(r.evts) + i]
      BY <1>3, <2>1, <3>1, DoVisits
    <3> QED
      BY <2>2, <3>2
  <2>5. Events(t) = f \o (IF r.firstDrop # 0 THEN <<DROP(r.firstDrop)>>
                          ELSE <<>>) \o d
    <3>1. r # None
      BY <2>1, EventLogAssumption
    <3> QED
      BY <1>1, <2>2, <3>1, Zenon DEF Events
  <2>6. /\ Len(r.evts) = IF n - c <= max THEN n - c ELSE max
        /\ n - c <= max => r.firstDrop = 0
        /\ n - c > max => r.firstDrop = s[c + 1].When
    BY <1>1, <2>1, <2>3 DEF RingShape
  <2>7. Len(f) = c /\ Len(f) <= n /\ Len(d) <= n
    BY <1>3, <1>4, <1>6, <2>3, <2>4, <2>6
  <2>8. /\ f = SubSeq(s, 1, Len(f))
        /\ d = SubSeq(s, Len(s) - Len(d) + 1, Len(s))
        /\ Len(f) + Len(d) = Len(s) => f \o d = s
    BY <1>1, <1>2, <1>4, <2>4, <2>7, StartAndEnd, ZenonT(40)
  <2>9. CASE n <= k
    <3>1. n - c <= max
      BY <1>2, <1>3, <2>3, <2>9
    <3>2. r.firstDrop = 0 /\ Len(d) = n - c
      BY <2>4, <2>6, <3>1
    <3>3. Events(t) = (f \o <<>>) \o d
      BY <2>5, <3>2
    <3>4. f \o <<>> = f
      BY <1>2, ConcatEmptySeq
    <3>5. f \o d = s
      <4>1. Len(f) + Len(d) = Len(s)
        <5>1. c + (n - c) = n
          BY <1>3
        <5> QED
          BY <1>1, <2>7, <3>2, <5>1, Zenon
      <4> QED
        BY <2>8, <4>1, Zenon
    <3> QED
      BY <1>1, <2>9, <3>3, <3>4, <3>5
  <2>10. CASE ~(n <= k)
    <3>1. n - c > max /\ c + 1 \in 1 .. n
      BY <1>2, <1>3, <2>3, <2>10
    <3>2. r.firstDrop = s[c + 1].When /\ Len(d) = max
      BY <1>3, <2>3, <2>4, <2>6, <3>1
    <3>3. r.firstDrop # 0
      <4>1. s[c + 1] \in Event
        BY <1>1, <3>1
      <4> QED
        BY <3>2, <4>1, EventTimes, Zenon
    <3>4. Events(t) = f \o <<DROP(s[c + 1].When)>> \o d
      BY <2>5, <3>2, <3>3, Zenon
    <3>5. f = SubSeq(s, 1, c) /\ d = SubSeq(s, n - (k - c) + 1, n)
      BY <1>1, <2>3, <2>7, <2>8, <3>2, Zenon
    <3> QED
      BY <1>1, <2>10, <3>4, <3>5, Zenon
  <2> QED
    BY <2>9, <2>10
<1> QED
  BY <1>5, <1>6

-----------------------------------------------------------------------------
(***************************************************************************)
(* The inductive invariant, in three parts: the logs, the events on their  *)
(* way to them, and the counters.  It implies TypeOK.                      *)
(***************************************************************************)
LogsOK ==
  /\ log \in [Trace -> Log \cup {None}]
  /\ logged \in [Trace -> Seq(Event)]
  /\ \A t \in Trace : log[t] = None => logged[t] = <<>>
  /\ \A t \in Exists :
       Keeps(log[t], logged[t]) /\ log[t].maxEvents >= MinEvents

PendingOK ==
  /\ pending \in [Writer -> [trace : Trace, evt : Event] \cup {None}]
  /\ \A w \in Writer : pending[w] # None => pending[w].trace \in Exists

CountersOK == clock \in 0 .. MaxLogged /\ refs \in 0 .. MaxRefs

LogInv == LogsOK /\ PendingOK /\ CountersOK

\* A log that is as it should be has the types of one.
LEMMA KeepsTypes ==
  ASSUME NEW l, NEW s \in Seq(Event), Keeps(l, s)
  PROVE  /\ l \in Log /\ l # None
         /\ l.cutoff = l.maxEvents \div 3
         /\ l.lastEvents # None =>
              /\ l.lastEvents.pos < Len(l.lastEvents.evts)
              /\ Len(l.lastEvents.evts) <= l.lastEvents.max
<1>1. l \in Log /\ l # None /\ l.cutoff = l.maxEvents \div 3
  BY EventLogAssumption DEF Keeps
<1>2. l.maxEvents \in Nat /\ l.cutoff \in Nat /\ Len(s) \in Nat
  BY <1>1 DEF Log
<1>3. ASSUME l.lastEvents # None
      PROVE  /\ l.lastEvents.pos < Len(l.lastEvents.evts)
             /\ Len(l.lastEvents.evts) <= l.lastEvents.max
  <2>1. PICK r, max : r = l.lastEvents /\ max = l.maxEvents - l.cutoff
    OBVIOUS
  <2>2. Len(s) > l.cutoff
    BY <1>2, <1>3 DEF Keeps
  <2>3. RingShape(r, s, l.cutoff, max)
    BY <2>1, <2>2 DEF Keeps
  <2>4. r.max = max /\ r.pos < Len(r.evts)
        /\ Len(r.evts) = IF Len(s) - l.cutoff <= max THEN Len(s) - l.cutoff
                         ELSE max
    BY <2>3 DEF RingShape
  <2>5. Len(r.evts) <= max
    BY <1>1, <1>2, <2>1, <2>4
  <2> QED
    BY <2>1, <2>4, <2>5
<1> QED
  BY <1>1, <1>3

\* A log without events, with any limit that newTrace or SetMaxEvents sets.
LEMMA EmptyKeeps ==
  ASSUME NEW n \in Nat, n >= 3
  PROVE  Keeps([maxEvents |-> n, cutoff |-> n \div 3, firstEvents |-> <<>>,
                lastEvents |-> None], <<>>)
<1>1. PICK l : l = [maxEvents |-> n, cutoff |-> n \div 3,
                    firstEvents |-> <<>>, lastEvents |-> None]
  OBVIOUS
<1>2. n \div 3 \in Nat
  OBVIOUS
<1>3. /\ l.maxEvents = n /\ l.cutoff = n \div 3 /\ l.firstEvents = <<>>
      /\ l.lastEvents = None
  BY <1>1
<1>4. l \in Log
  BY <1>1, <1>2 DEF Log
<1> QED
  BY <1>1, <1>2, <1>3, <1>4 DEF Keeps

\* The types of the logs follow from what is said of each of them.
LEMMA InvTypes ==
  ASSUME LogInv
  PROVE  TypeOK
<1>1. ASSUME NEW t \in Exists
      PROVE  LET l == log[t]
             IN /\ l.maxEvents >= MinEvents /\ l.cutoff = l.maxEvents \div 3
                /\ l.lastEvents # None =>
                     /\ l.lastEvents.pos < Len(l.lastEvents.evts)
                     /\ Len(l.lastEvents.evts) <= l.lastEvents.max
  <2>1. /\ logged[t] \in Seq(Event) /\ Keeps(log[t], logged[t])
        /\ log[t].maxEvents >= MinEvents
    BY DEF LogInv, LogsOK, Exists
  <2> QED
    BY <2>1, KeepsTypes
<1> QED
  BY <1>1 DEF TypeOK, LogInv, LogsOK, PendingOK, CountersOK

\* A step that gives one trace another log and the events that it then holds.
LEMMA OneLog ==
  ASSUME LogsOK, NEW t \in Trace, NEW l, NEW s \in Seq(Event), Keeps(l, s),
         l.maxEvents >= MinEvents,
         log' = [log EXCEPT ![t] = l], logged' = [logged EXCEPT ![t] = s]
  PROVE  LogsOK' /\ Exists' = Exists \cup {t}
<1>1. l \in Log /\ l # None
  BY KeepsTypes
<1>2. /\ log' \in [Trace -> Log \cup {None}] /\ log'[t] = l
      /\ \A u \in Trace : u # t => log'[u] = log[u]
  BY <1>1 DEF LogsOK
<1>3. /\ logged' \in [Trace -> Seq(Event)] /\ logged'[t] = s
      /\ \A u \in Trace : u # t => logged'[u] = logged[u]
  BY DEF LogsOK
<1>4. Exists' = Exists \cup {t}
  BY <1>1, <1>2 DEF Exists
<1>5. \A u \in Trace : log'[u] = None => logged'[u] = <<>>
  BY <1>1, <1>2, <1>3 DEF LogsOK
<1>6. ASSUME NEW u \in Trace, log'[u] # None
      PROVE  Keeps(log'[u], logged'[u]) /\ log'[u].maxEvents >= MinEvents
  <2>1. CASE u = t
    BY <1>2, <1>3, <2>1
  <2>2. CASE u # t
    BY <1>2, <1>3, <1>6, <2>2, Zenon DEF LogsOK, Exists
  <2> QED
    BY <2>1, <2>2
<1> QED
  BY <1>2, <1>3, <1>4, <1>5, <1>6, Zenon DEF LogsOK, Exists

\* Nothing is said of a log by a step that changes none.
LEMMA SameLogs ==
  ASSUME LogsOK, log' = log, logged' = logged
  PROVE  LogsOK' /\ Exists' = Exists
BY Zenon DEF LogsOK, Exists

\* ReadTime, with the trace and the one referred to being there afterwards.
LEMMA TimeRead ==
  ASSUME PendingOK, CountersOK, NEW w \in Writer, NEW t \in Trace,
         NEW other \in Trace \cup {None}, ReadTime(w, t, other),
         t \in Exists', Exists \subseteq Exists', refs' \in 0 .. MaxRefs
  PROVE  PendingOK' /\ CountersOK'
<1>1. clock' \in 0 .. MaxLogged /\ clock + 1 \in 1 .. MaxLogged
  BY EventLogAssumption DEF ReadTime, CountersOK
<1>2. PICK p : p = [trace |-> t, evt |-> [When |-> clock + 1, Ref |-> other,
                                         drop |-> FALSE]]
  OBVIOUS
<1>3. p \in [trace : Trace, evt : Event] /\ p.trace = t
  BY <1>1, <1>2 DEF Event
<1>4. pending' = [pending EXCEPT ![w] = p]
  BY <1>2 DEF ReadTime
<1>5. PendingOK'
  BY <1>3, <1>4 DEF PendingOK
<1> QED
  BY <1>1, <1>5 DEF CountersOK

\* SetMaxEvents leaves room for at least one event in the ring.
LEMMA TruncatedMin ==
  ASSUME NEW n \in Int
  PROVE  /\ Truncated(n) \in Nat /\ Truncated(n) >= MinEvents
         /\ Truncated(n) >= 3
BY EventLogAssumption DEF Truncated

\* The initial state satisfies the invariant ...
LEMMA InitInv ==
  ASSUME Init
  PROVE  LogInv
BY EventLogAssumption
   DEF Init, LogInit, LogInv, LogsOK, PendingOK, CountersOK, Exists

\* ... and so does what every step of the logs leaves.
LEMMA NextInv ==
  ASSUME LogInv, [LogNext]_logVars
  PROVE  LogInv'
<1> USE DEF LogInv
<1>1. CASE UNCHANGED logVars
  BY <1>1, SameLogs DEF logVars, PendingOK, CountersOK
<1>2. ASSUME NEW t \in Trace, New(t)
      PROVE  LogInv'
  <2>1. Keeps(newTrace, <<>>) /\ newTrace.maxEvents >= MinEvents
    BY EmptyKeeps, EventLogAssumption DEF newTrace
  <2>2. logged' = [logged EXCEPT ![t] = <<>>]
    BY <1>2 DEF New, LogsOK
  <2>3. log' = [log EXCEPT ![t] = newTrace]
    BY <1>2 DEF New
  <2>4. LogsOK' /\ Exists' = Exists \cup {t}
    BY <2>1, <2>2, <2>3, OneLog, EmptySeq, Zenon
  <2>5. PendingOK' /\ CountersOK'
    BY <1>2, <2>4 DEF New, PendingOK, CountersOK
  <2> QED
    BY <2>4, <2>5
<1>3. ASSUME NEW t \in Trace, NEW n \in Requested, SetMaxEvents(t, n)
      PROVE  LogInv'
  <2>1. PICK m, l : m = Truncated(n) /\ l = log[t]
    OBVIOUS
  <2>2. m \in Nat /\ m >= MinEvents /\ m >= 3
    BY <2>1, TruncatedMin, EventLogAssumption
  <2>3. PICK l1 : l1 = [l EXCEPT !.maxEvents = m, !.cutoff = m \div 3]
    OBVIOUS
  <2>4. /\ log' = [log EXCEPT ![t] = l1]
        /\ logged' = [logged EXCEPT ![t] = <<>>]
        /\ logged[t] = <<>> /\ t \in Exists
    BY <1>3, <2>1, <2>3 DEF SetMaxEvents, LogsOK
  <2>5. /\ l \in Log /\ l.lastEvents = None /\ Len(l.firstEvents) = 0
        /\ l.firstEvents = <<>>
    <3>1. Keeps(l, <<>>)
      BY <2>1, <2>4 DEF LogsOK
    <3>2. l \in Log /\ l.maxEvents \in Nat /\ l.cutoff = l.maxEvents \div 3
      BY <3>1 DEF Keeps, Log
    <3>3. l.cutoff \in Nat
      BY <3>2
    <3>4. Len(l.firstEvents) = 0 /\ l.lastEvents = None
      BY <3>1, <3>3 DEF Keeps
    <3>5. l.firstEvents \in Seq(Event)
      BY <3>2 DEF Log
    <3> QED
      BY <3>2, <3>4, <3>5
  <2>6. l1 = [maxEvents |-> m, cutoff |-> m \div 3, firstEvents |-> <<>>,
              lastEvents |-> None]
    <3>1. l = [maxEvents |-> l.maxEvents, cutoff |-> l.cutoff,
               firstEvents |-> l.firstEvents, lastEvents |-> l.lastEvents]
      BY <2>5 DEF Log
    <3> QED
      BY <2>3, <2>5, <3>1
  <2>7. Keeps(l1, <<>>) /\ l1.maxEvents >= MinEvents
    BY <2>2, <2>6, EmptyKeeps
  <2>8. LogsOK' /\ Exists' = Exists \cup {t}
    BY <2>4, <2>7, OneLog, EmptySeq, Zenon
  <2>9. PendingOK' /\ CountersOK'
    BY <1>3, <2>8 DEF SetMaxEvents, PendingOK, CountersOK
  <2> QED
    BY <2>8, <2>9
<1>4. ASSUME NEW w \in Writer, NEW t \in Trace, Printf(w, t)
      PROVE  LogInv'
  <2>1. LogsOK' /\ Exists' = Exists
    BY <1>4, SameLogs DEF Printf, ReadTime
  <2>2. PendingOK' /\ CountersOK'
    BY <1>4, <2>1, TimeRead DEF Printf, CountersOK
  <2> QED
    BY <2>1, <2>2
<1>5. ASSUME NEW w \in Writer, NEW t \in Trace, NEW o \in Trace,
             Link(w, t, o)
      PROVE  LogInv'
  <2>1. LogsOK' /\ Exists' = Exists
    BY <1>5, SameLogs DEF Link, ReadTime
  <2>2. refs' \in 0 .. MaxRefs
    BY <1>5, EventLogAssumption DEF Link, CountersOK
  <2>3. PendingOK' /\ CountersOK'
    BY <1>5, <2>1, <2>2, TimeRead DEF Link
  <2> QED
    BY <2>1, <2>3
<1>6. ASSUME NEW w \in Writer, NEW t \in Trace, NEW o \in Trace,
             NewChild(w, t, o)
      PROVE  LogInv'
  <2>1. Keeps(newTrace, <<>>) /\ newTrace.maxEvents >= MinEvents
    BY EmptyKeeps, EventLogAssumption DEF newTrace
  <2>2. logged' = [logged EXCEPT ![o] = <<>>]
    BY <1>6 DEF NewChild, ReadTime, LogsOK
  <2>3. log' = [log EXCEPT ![o] = newTrace]
    BY <1>6 DEF NewChild
  <2>4. LogsOK' /\ Exists' = Exists \cup {o}
    BY <2>1, <2>2, <2>3, OneLog, EmptySeq, Zenon
  <2>5. refs' \in 0 .. MaxRefs
    BY <1>6, EventLogAssumption DEF NewChild, CountersOK
  <2>6. PendingOK' /\ CountersOK'
    BY <1>6, <2>4, <2>5, TimeRead DEF NewChild
  <2> QED
    BY <2>4, <2>6
<1>7. ASSUME NEW w \in Writer, append(w)
      PROVE  LogInv'
  <2>1. PICK t, e : t = pending[w].trace /\ e = pending[w].evt
    OBVIOUS
  <2>2. t \in Exists /\ t \in Trace /\ e \in Event
    BY <1>7, <2>1 DEF append, PendingOK, Exists
  <2>3. PICK l, s : l = Appended(log[t], e) /\ s = Append(logged[t], e)
    OBVIOUS
  <2>4. /\ log' = [log EXCEPT ![t] = l]
        /\ logged' = [logged EXCEPT ![t] = s]
    BY <1>7, <2>1, <2>3 DEF append
  <2>5. /\ logged[t] \in Seq(Event) /\ Keeps(log[t], logged[t])
        /\ log[t].maxEvents >= MinEvents /\ log[t] \in Log
    BY <2>2 DEF LogsOK, Exists
  <2>6. s \in Seq(Event) /\ Keeps(l, s)
    BY <2>2, <2>3, <2>5, AppendedKeeps
  <2>7. l.maxEvents = log[t].maxEvents
    BY <2>3, <2>5 DEF Appended, Log
  <2>8. LogsOK' /\ Exists' = Exists \cup {t}
    <3>1. l.maxEvents >= MinEvents
      BY <2>5, <2>7
    <3> QED
      BY <2>2, <2>4, <2>6, <3>1, OneLog, Zenon
  <2>9. PendingOK' /\ CountersOK'
    BY <1>7, <2>8 DEF append, PendingOK, CountersOK
  <2> QED
    BY <2>8, <2>9
<1> QED
  BY <1>1, <1>2, <1>3, <1>4, <1>5, <1>6, <1>7 DEF LogNext

\* A page changes no log while it is gathered and rendered.
LEMMA PageKeepsLogs ==
  ASSUME [Next]_vars
  PROVE  [LogNext]_logVars
BY DEF Next, View, vars, logVars, RenderTraces, AppendNothing,
       AppendAllEvents, Sort, Rendered

\* The types of the logs, for any number of traces, goroutines and events.
THEOREM LogsTypeCorrect == Spec => []TypeOK
<1>1. Init => LogInv
  BY InitInv
<1>2. LogInv /\ [Next]_vars => LogInv'
  BY NextInv, PageKeepsLogs
<1>3. LogInv => TypeOK
  BY InvTypes, SMTT(30)
<1> QED
  BY <1>1, <1>2, <1>3, PTL DEF Spec

\* Events returns the first and the latest events of a log, for any limit on
\* its length and any number of rounds of its ring.
THEOREM FirstAndLastEvents == Spec => []EventsAreFirstAndLast
<1>1. Init => LogInv
  BY InitInv
<1>2. LogInv /\ [Next]_vars => LogInv'
  BY NextInv, PageKeepsLogs
<1>3. LogInv => EventsAreFirstAndLast
  <2> SUFFICES ASSUME LogInv, NEW t \in Exists
               PROVE  LET s == logged[t]
                          n == Len(s)
                          l == log[t]
                      IN Events(t) =
                           IF n <= l.maxEvents THEN s
                           ELSE SubSeq(s, 1, l.cutoff)
                                \o <<DROP(s[l.cutoff + 1].When)>>
                                \o SubSeq(s, n - (l.maxEvents - l.cutoff) + 1,
                                          n)
    BY DEF EventsAreFirstAndLast
  <2>1. logged[t] \in Seq(Event) /\ Keeps(log[t], logged[t])
    BY DEF LogInv, LogsOK, Exists
  <2> QED
    BY <2>1, EventsOfLog
<1> QED
  BY <1>1, <1>2, <1>3, PTL DEF Spec

-----------------------------------------------------------------------------
(***************************************************************************)
(* The times of events, which tell them apart: each is a reading of the    *)
(* clock of its own.  And what events refer to exists: NewChild makes the  *)
(* child before the event that leads to it is logged.                      *)
(***************************************************************************)
TimesOK ==
  /\ \A t \in Trace : \A i \in 1 .. Len(logged[t]) :
       logged[t][i].When <= clock
  /\ \A t \in Trace : \A i, j \in 1 .. Len(logged[t]) :
       logged[t][i].When = logged[t][j].When => i = j
  /\ \A w \in Writer : pending[w] # None =>
       /\ pending[w].evt.When <= clock
       /\ \A i \in 1 .. Len(logged[pending[w].trace]) :
            logged[pending[w].trace][i].When # pending[w].evt.When
  /\ \A w, v \in Writer :
       /\ pending[w] # None /\ pending[v] # None
       /\ pending[w].evt.When = pending[v].evt.When
       => w = v

RefsOK ==
  /\ \A t \in Trace : \A i \in 1 .. Len(logged[t]) :
       logged[t][i].Ref \in Exists \cup {None}
  /\ \A w \in Writer :
       pending[w] # None => pending[w].evt.Ref \in Exists \cup {None}

EventsOK == TimesOK /\ RefsOK

\* No trace goes away (the registry may forget it, but its events are kept by
\* those that refer to it), and a step changes what is logged and pending by
\* one event at most.
LEMMA ExistsGrows ==
  ASSUME LogInv, [LogNext]_logVars
  PROVE  Exists \subseteq Exists'
<1> SUFFICES ASSUME NEW u \in Trace, log[u] # None
             PROVE  log'[u] # None
  BY DEF Exists
<1>1. log \in [Trace -> Log \cup {None}] /\ newTrace # None
  <2>1. Keeps(newTrace, <<>>)
    BY EmptyKeeps, EventLogAssumption DEF newTrace
  <2> QED
    BY <2>1, EventLogAssumption DEF LogInv, LogsOK, Keeps
<1>2. ASSUME NEW t \in Trace, NEW l, l # None, log' = [log EXCEPT ![t] = l]
      PROVE  log'[u] # None
  BY <1>1, <1>2
<1>3. ASSUME NEW t \in Trace, NEW n \in Requested, SetMaxEvents(t, n)
      PROVE  log'[u] # None
  <2>1. log[t] \in Log
    BY <1>1, <1>3 DEF SetMaxEvents, Exists
  <2>2. PICK l : l = [log[t] EXCEPT !.maxEvents = Truncated(n),
                                    !.cutoff = Truncated(n) \div 3]
    OBVIOUS
  <2>3. log' = [log EXCEPT ![t] = l]
    BY <1>3, <2>2 DEF SetMaxEvents
  <2>4. l \in Log
    <3>1. Truncated(n) \in Nat
      BY TruncatedMin, EventLogAssumption
    <3>2. Truncated(n) \div 3 \in Nat
      BY <3>1
    <3> QED
      BY <2>1, <2>2, <3>1, <3>2 DEF Log
  <2> QED
    BY <1>2, <2>3, <2>4, EventLogAssumption
<1>4. ASSUME NEW w \in Writer, append(w)
      PROVE  log'[u] # None
  <2>1. PICK t, e : t = pending[w].trace /\ e = pending[w].evt
    OBVIOUS
  <2>2. t \in Trace /\ e \in Event /\ Keeps(log[t], logged[t])
        /\ logged[t] \in Seq(Event)
    BY <1>4, <2>1 DEF append, LogInv, PendingOK, LogsOK, Exists
  <2>3. PICK l : l = Appended(log[t], e)
    OBVIOUS
  <2>4. log' = [log EXCEPT ![t] = l]
    BY <1>4, <2>1, <2>3 DEF append
  <2>5. l # None
    <3>1. Keeps(l, Append(logged[t], e))
      BY <2>2, <2>3, AppendedKeeps, Zenon
    <3> QED
      BY <3>1, EventLogAssumption DEF Keeps
  <2> QED
    BY <1>2, <2>2, <2>4, <2>5
<1> QED
  BY <1>1, <1>2, <1>3, <1>4 DEF LogNext, logVars, New, Printf, Link, NewChild

\* An event that is read a time for.
LEMMA ReadTimes ==
  ASSUME LogInv, EventsOK, NEW w \in Writer, NEW t \in Trace,
         NEW other \in Trace \cup {None}, ReadTime(w, t, other),
         other \in Exists' \cup {None}, Exists \subseteq Exists'
  PROVE  EventsOK'
<1>1. PICK p : p = [trace |-> t, evt |-> [When |-> clock + 1, Ref |-> other,
                                         drop |-> FALSE]]
  OBVIOUS
<1>2. /\ p.trace = t /\ p.evt.When = clock + 1 /\ p.evt.Ref = other
      /\ pending' = [pending EXCEPT ![w] = p] /\ logged' = logged
      /\ clock' = clock + 1 /\ clock \in Nat
  BY <1>1 DEF ReadTime, LogInv, CountersOK
<1>3. /\ DOMAIN pending = Writer /\ pending'[w] = p
      /\ \A v \in Writer : v # w => pending'[v] = pending[v]
  BY <1>2 DEF LogInv, PendingOK
<1>4. \A u \in Trace : \A i \in 1 .. Len(logged[u]) :
        logged[u][i].When \in Int /\ logged[u][i].When <= clock
  <2>1. \A u \in Trace : \A i \in 1 .. Len(logged[u]) : logged[u][i] \in Event
    BY DEF LogInv, LogsOK
  <2>2. \A x \in Event : x.When \in Int
    BY EventTimes
  <2> QED
    BY <2>1, <2>2 DEF EventsOK, TimesOK
<1>5. ASSUME NEW v \in Writer, pending[v] # None
      PROVE  /\ pending[v].evt.When \in Int /\ pending[v].evt.When <= clock
             /\ pending[v].trace \in Trace
  <2>1. pending[v] \in [trace : Trace, evt : Event]
    BY <1>5 DEF LogInv, PendingOK
  <2>2. pending[v].evt \in Event
    BY <2>1
  <2> QED
    BY <1>5, <2>1, <2>2, EventTimes DEF EventsOK, TimesOK
<1>6. RefsOK'
  <2>1. \A u \in Trace : \A i \in 1 .. Len(logged'[u]) :
          logged'[u][i].Ref \in Exists' \cup {None}
    BY <1>2 DEF EventsOK, RefsOK
  <2>2. \A v \in Writer :
          pending'[v] # None => pending'[v].evt.Ref \in Exists' \cup {None}
    BY <1>2, <1>3 DEF EventsOK, RefsOK
  <2> QED
    BY <2>1, <2>2 DEF RefsOK
<1>7. TimesOK'
  <2>1. \A u \in Trace : \A i \in 1 .. Len(logged'[u]) :
          logged'[u][i].When <= clock'
    BY <1>2, <1>4
  <2>2. \A u \in Trace : \A i, j \in 1 .. Len(logged'[u]) :
          logged'[u][i].When = logged'[u][j].When => i = j
    BY <1>2 DEF EventsOK, TimesOK
  <2>3. ASSUME NEW v \in Writer, pending'[v] # None
        PROVE  /\ pending'[v].evt.When <= clock'
               /\ \A i \in 1 .. Len(logged'[pending'[v].trace]) :
                    logged'[pending'[v].trace][i].When # pending'[v].evt.When
    <3>1. CASE v = w
      BY <1>2, <1>3, <1>4, <3>1
    <3>2. CASE v # w
      <4>1. pending'[v] = pending[v]
        BY <1>3, <3>2
      <4>2. pending[v].evt.When <= clock + 1
        BY <1>2, <1>5, <2>3, <4>1
      <4>3. \A i \in 1 .. Len(logged[pending[v].trace]) :
              logged[pending[v].trace][i].When # pending[v].evt.When
        BY <2>3, <4>1 DEF EventsOK, TimesOK
      <4> QED
        BY <1>2, <4>1, <4>2, <4>3
    <3> QED
      BY <3>1, <3>2
  <2>4. ASSUME NEW v \in Writer, NEW x \in Writer,
               pending'[v] # None, pending'[x] # None,
               pending'[v].evt.When = pending'[x].evt.When
        PROVE  v = x
    <3>1. CASE v # w /\ x # w
      BY <1>3, <2>4, <3>1 DEF EventsOK, TimesOK
    <3>2. CASE v = w /\ x # w
      BY <1>2, <1>3, <1>5, <2>4, <3>2
    <3>3. CASE v # w /\ x = w
      BY <1>2, <1>3, <1>5, <2>4, <3>3
    <3> QED
      BY <3>1, <3>2, <3>3
  <2> QED
    BY <2>1, <2>2, <2>3, <2>4 DEF TimesOK
<1> QED
  BY <1>6, <1>7 DEF EventsOK

\* An event that is appended to its log.
LEMMA AppendTimes ==
  ASSUME LogInv, EventsOK, NEW w \in Writer, append(w), Exists \subseteq Exists'
  PROVE  EventsOK'
<1>1. PICK t, e : t = pending[w].trace /\ e = pending[w].evt
  OBVIOUS
<1>2. /\ pending[w] # None /\ t \in Trace /\ e \in Event
      /\ e.Ref \in Exists \cup {None} /\ e.When <= clock
      /\ \A i \in 1 .. Len(logged[t]) : logged[t][i].When # e.When
  BY <1>1 DEF append, LogInv, PendingOK, EventsOK, RefsOK, TimesOK
<1>3. PICK s : s = Append(logged[t], e)
  OBVIOUS
<1>4. /\ logged' = [logged EXCEPT ![t] = s]
      /\ pending' = [pending EXCEPT ![w] = None] /\ clock' = clock
  BY <1>1, <1>3 DEF append
<1>5. /\ logged[t] \in Seq(Event) /\ Len(s) = Len(logged[t]) + 1
      /\ Len(logged[t]) \in Nat
      /\ s[Len(s)] = e
      /\ \A i \in 1 .. Len(logged[t]) : s[i] = logged[t][i]
  BY <1>2, <1>3 DEF LogInv, LogsOK
<1>6. /\ logged'[t] = s
      /\ \A u \in Trace : u # t => logged'[u] = logged[u]
      /\ pending'[w] = None
      /\ \A v \in Writer : v # w => pending'[v] = pending[v]
  BY <1>2, <1>4 DEF LogInv, LogsOK, PendingOK
<1>7. \A i \in 1 .. Len(s) : i \in 1 .. Len(logged[t]) \/ i = Len(s)
  BY <1>5
<1>8. RefsOK'
  <2>1. ASSUME NEW u \in Trace, NEW i \in 1 .. Len(logged'[u])
        PROVE  logged'[u][i].Ref \in Exists' \cup {None}
    <3>1. CASE u = t
      BY <1>2, <1>5, <1>6, <1>7, <3>1 DEF EventsOK, RefsOK
    <3>2. CASE u # t
      BY <1>6, <3>2 DEF EventsOK, RefsOK
    <3> QED
      BY <3>1, <3>2
  <2>2. \A v \in Writer :
          pending'[v] # None => pending'[v].evt.Ref \in Exists' \cup {None}
    BY <1>6 DEF EventsOK, RefsOK
  <2> QED
    BY <2>1, <2>2 DEF RefsOK
<1>9. TimesOK'
  <2>1. ASSUME NEW u \in Trace, NEW i \in 1 .. Len(logged'[u])
        PROVE  logged'[u][i].When <= clock'
    <3>1. CASE u = t
      BY <1>2, <1>4, <1>5, <1>6, <1>7, <3>1 DEF EventsOK, TimesOK
    <3>2. CASE u # t
      BY <1>4, <1>6, <3>2 DEF EventsOK, TimesOK
    <3> QED
      BY <3>1, <3>2
  <2>2. ASSUME NEW u \in Trace, NEW i \in 1 .. Len(logged'[u]),
               NEW j \in 1 .. Len(logged'[u]),
               logged'[u][i].When = logged'[u][j].When
        PROVE  i = j
    <3>1. CASE u = t
      <4>1. CASE i \in 1 .. Len(logged[t]) /\ j \in 1 .. Len(logged[t])
        BY <1>5, <1>6, <2>2, <3>1, <4>1 DEF EventsOK, TimesOK
      <4>2. CASE i \in 1 .. Len(logged[t]) /\ j = Len(s)
        BY <1>2, <1>5, <1>6, <2>2, <3>1, <4>2
      <4>3. CASE i = Len(s) /\ j \in 1 .. Len(logged[t])
        BY <1>2, <1>5, <1>6, <2>2, <3>1, <4>3
      <4> QED
        BY <1>6, <1>7, <3>1, <4>1, <4>2, <4>3
    <3>2. CASE u # t
      BY <1>6, <2>2, <3>2 DEF EventsOK, TimesOK
    <3> QED
      BY <3>1, <3>2
  <2>3. ASSUME NEW v \in Writer, pending'[v] # None
        PROVE  /\ pending'[v].evt.When <= clock'
               /\ \A i \in 1 .. Len(logged'[pending'[v].trace]) :
                    logged'[pending'[v].trace][i].When # pending'[v].evt.When
    <3>1. v # w /\ pending'[v] = pending[v] /\ pending[v] # None
      BY <1>6, <2>3
    <3>2. /\ pending[v].evt.When <= clock
          /\ \A i \in 1 .. Len(logged[pending[v].trace]) :
               logged[pending[v].trace][i].When # pending[v].evt.When
          /\ pending[v].evt.When # e.When
          /\ pending[v].trace \in Trace
      BY <1>1, <1>2, <3>1 DEF EventsOK, TimesOK, LogInv, PendingOK
    <3>3. CASE pending[v].trace = t
      BY <1>4, <1>5, <1>6, <1>7, <3>1, <3>2, <3>3
    <3>4. CASE pending[v].trace # t
      BY <1>4, <1>6, <3>1, <3>2, <3>4
    <3> QED
      BY <3>3, <3>4
  <2>4. \A v, x \in Writer :
          /\ pending'[v] # None /\ pending'[x] # None
          /\ pending'[v].evt.When = pending'[x].evt.When
          => v = x
    BY <1>6 DEF EventsOK, TimesOK
  <2> QED
    BY <2>1, <2>2, <2>3, <2>4 DEF TimesOK
<1> QED
  BY <1>8, <1>9 DEF EventsOK

\* A step of the logs keeps the times of events apart.
LEMMA NextTimes ==
  ASSUME LogInv, LogInv', EventsOK, [LogNext]_logVars
  PROVE  EventsOK'
<1>1. Exists \subseteq Exists'
  BY ExistsGrows
<1>2. ASSUME UNCHANGED <<pending, clock, logged>>
      PROVE  EventsOK'
  BY <1>1, <1>2 DEF EventsOK, TimesOK, RefsOK
<1>3. ASSUME NEW w \in Writer, NEW t \in Trace, Printf(w, t)
      PROVE  EventsOK'
  BY <1>1, <1>3, ReadTimes DEF Printf
<1>4. ASSUME NEW w \in Writer, NEW t \in Trace, NEW o \in Trace, Link(w, t, o)
      PROVE  EventsOK'
  BY <1>1, <1>4, ReadTimes DEF Link
<1>5. ASSUME NEW w \in Writer, NEW t \in Trace, NEW o \in Trace,
             NewChild(w, t, o)
      PROVE  EventsOK'
  <2>1. o \in Exists'
    <3>1. newTrace # None
      <4>1. Keeps(newTrace, <<>>)
        BY EmptyKeeps, EventLogAssumption DEF newTrace
      <4> QED
        BY <4>1, EventLogAssumption DEF Keeps
    <3> QED
      BY <1>5, <3>1 DEF NewChild, Exists, LogInv, LogsOK
  <2> QED
    BY <1>1, <1>5, <2>1, ReadTimes DEF NewChild
<1>6. ASSUME NEW w \in Writer, append(w)
      PROVE  EventsOK'
  BY <1>1, <1>6, AppendTimes
<1> QED
  BY <1>2, <1>3, <1>4, <1>5, <1>6 DEF LogNext, logVars, New, SetMaxEvents

\* The events shown of a log that keeps k of those of s, the first c and the
\* last ones, with the DROP D between them.
Around(s, k, c, D) ==
  SubSeq(s, 1, c) \o <<D>> \o SubSeq(s, Len(s) - (k - c) + 1, Len(s))

\* What r shows at each place.
Placed(r, s, k, c, D) ==
  /\ r \in Seq(Shown) /\ Len(r) = k + 1
  /\ r[c + 1] = D
  /\ \A i \in 1 .. c : r[i] = s[i]
  /\ \A i \in c + 2 .. k + 1 : r[i] = s[Len(s) - k - 1 + i]

\* The events shown, by their places: the first c, the DROP and the last k - c.
LEMMA EventsAt ==
  ASSUME NEW s \in Seq(Event), NEW k \in Nat, NEW c \in Nat, c < k, k < Len(s),
         NEW D \in Shown
  PROVE  Placed(Around(s, k, c, D), s, k, c, D)
<1>1. PICK n, a, f, d : /\ n = Len(s) /\ a = n - (k - c) + 1
                        /\ f = SubSeq(s, 1, c) /\ d = SubSeq(s, a, n)
  OBVIOUS
<1>2. n \in Nat /\ a \in 1 .. n /\ n - a + 1 = k - c
  BY <1>1
<1>3. \A i \in 1 .. n : s[i] \in Shown
  BY <1>1 DEF Shown
<1>4. /\ f \in Seq(Shown) /\ Len(f) = c
      /\ \A i \in 1 .. c : f[i] = s[i]
  <2>1. \A i \in 1 .. c : s[i] \in Shown
    BY <1>1, <1>3
  <2>2. /\ f \in Seq(Shown) /\ Len(f) = IF 1 <= c THEN c - 1 + 1 ELSE 0
        /\ \A i \in 1 .. c - 1 + 1 : f[i] = s[1 + i - 1]
    BY <1>1, <2>1, SubSeqProperties
  <2> QED
    BY <2>2
<1>5. /\ d \in Seq(Shown) /\ Len(d) = k - c
      /\ \A i \in 1 .. k - c : d[i] = s[a + i - 1]
  <2>1. \A i \in a .. n : s[i] \in Shown
    BY <1>2, <1>3
  <2>2. /\ d \in Seq(Shown) /\ Len(d) = IF a <= n THEN n - a + 1 ELSE 0
        /\ \A i \in 1 .. n - a + 1 : d[i] = s[a + i - 1]
    BY <1>1, <1>2, <2>1, SubSeqProperties
  <2> QED
    BY <1>2, <2>2
<1>6. PICK g : g = f \o <<D>>
  OBVIOUS
<1>7. /\ g \in Seq(Shown) /\ Len(g) = c + 1
      /\ \A i \in 1 .. c : g[i] = s[i]
      /\ g[c + 1] = D
  <2>1. <<D>> \in Seq(Shown) /\ Len(<<D>>) = 1 /\ <<D>>[1] = D
    OBVIOUS
  <2>2. /\ g \in Seq(Shown) /\ Len(g) = c + 1
        /\ \A i \in 1 .. c + 1 : g[i] = IF i <= c THEN f[i] ELSE <<D>>[i - c]
    BY <1>4, <1>6, <2>1, ConcatProperties
  <2>3. \A i \in 1 .. c : g[i] = s[i]
    BY <1>4, <2>2
  <2>4. g[c + 1] = <<D>>[1]
    <3>1. c + 1 \in 1 .. c + 1 /\ ~(c + 1 <= c) /\ c + 1 - c = 1
      OBVIOUS
    <3> QED
      BY <2>2, <3>1
  <2> QED
    BY <2>1, <2>2, <2>3, <2>4
<1>8. PICK r : r = g \o d
  OBVIOUS
<1>9. /\ r \in Seq(Shown) /\ Len(r) = (c + 1) + (k - c)
      /\ \A i \in 1 .. (c + 1) + (k - c) :
           r[i] = IF i <= c + 1 THEN g[i] ELSE d[i - (c + 1)]
  <2>1. g \in Seq(Shown) /\ d \in Seq(Shown)
    BY <1>5, <1>7, Zenon
  <2>2. /\ r \in Seq(Shown) /\ Len(r) = Len(g) + Len(d)
        /\ \A i \in 1 .. Len(g) + Len(d) :
             r[i] = IF i <= Len(g) THEN g[i] ELSE d[i - Len(g)]
    BY <2>1, <1>8, ConcatProperties, Zenon
  <2>3. Len(g) = c + 1 /\ Len(d) = k - c
    BY <1>5, <1>7, Zenon
  <2> QED
    BY <2>2, <2>3, Zenon
<1>10. Len(r) = k + 1 /\ r[c + 1] = D /\ \A i \in 1 .. c : r[i] = s[i]
  BY <1>7, <1>9
<1>11. ASSUME NEW i \in c + 2 .. k + 1
       PROVE  r[i] = s[n - k - 1 + i]
  <2>1. /\ i \in 1 .. (c + 1) + (k - c) /\ ~(i <= c + 1)
        /\ i - (c + 1) \in 1 .. k - c
        /\ a + (i - (c + 1)) - 1 = n - k - 1 + i
    BY <1>1, <1>2
  <2>2. r[i] = d[i - (c + 1)]
    BY <1>9, <2>1
  <2>3. d[i - (c + 1)] = s[a + (i - (c + 1)) - 1]
    BY <1>5, <2>1
  <2> QED
    BY <2>1, <2>2, <2>3
<1>12. r = Around(s, k, c, D)
  BY <1>1, <1>6, <1>8, Zenon DEF Around
<1> QED
  BY <1>1, <1>9, <1>10, <1>11, <1>12, Zenon DEF Placed

\* What the page relies on of Events: each event is there once, and what an
\* event refers to exists.
Showable(e) ==
  /\ e \in Seq(Shown)
  /\ \A i \in 1 .. Len(e) : e[i].Ref \in Exists \cup {None}
  /\ \A i, j \in 1 .. Len(e) : e[i] = e[j] => i = j

\* What Events returns is fit for a page: events of the trace, each once.
LEMMA EventsShowable ==
  ASSUME LogInv, EventsOK, NEW t \in Exists
  PROVE  Showable(Events(t))
<1>1. PICK s, l, c, k, n : /\ s = logged[t] /\ l = log[t] /\ c = l.cutoff
                           /\ k = l.maxEvents /\ n = Len(s)
  OBVIOUS
<1>2. s \in Seq(Event) /\ Keeps(l, s) /\ t \in Trace
  BY <1>1 DEF LogInv, LogsOK, Exists
<1>3. /\ n \in Nat /\ k \in Nat /\ k >= 3 /\ c = k \div 3
      /\ \A i \in 1 .. n : s[i] \in Event
  BY <1>1, <1>2 DEF Keeps, Log
<1>4. c \in Nat /\ c < k
  BY <1>3
<1>5. /\ \A i \in 1 .. n : s[i].Ref \in Exists \cup {None}
      /\ \A i, j \in 1 .. n : s[i] = s[j] => i = j
  BY <1>1, <1>2, SMTT(30) DEF EventsOK, TimesOK, RefsOK
<1>6. Events(t) =
        IF n <= k THEN s
        ELSE SubSeq(s, 1, c) \o <<DROP(s[c + 1].When)>>
             \o SubSeq(s, n - (k - c) + 1, n)
  BY <1>1, <1>2, EventsOfLog
<1>7. CASE n <= k
  <2>1. Events(t) = s
    BY <1>6, <1>7
  <2>2. s \in Seq(Shown)
    BY <1>2, SeqMonotonic DEF Shown
  <2> QED
    BY <1>1, <1>5, <2>1, <2>2 DEF Showable
<1>8. CASE ~(n <= k)
  <2>1. PICK D : D = DROP(s[c + 1].When)
    OBVIOUS
  <2>2. c + 1 \in 1 .. n /\ k < n
    BY <1>3, <1>4, <1>8
  <2>3. s[c + 1].When \in 1 .. MaxLogged
    BY <1>3, <2>2 DEF Event
  <2>4. D \in Shown /\ D.Ref = None /\ D.drop = TRUE
    BY <2>1, <2>3 DEF Shown, DROP
  <2>5. PICK r : r = Events(t)
    OBVIOUS
  <2>6. /\ r \in Seq(Shown) /\ Len(r) = k + 1
        /\ r[c + 1] = D
        /\ \A i \in 1 .. c : r[i] = s[i]
        /\ \A i \in c + 2 .. k + 1 : r[i] = s[n - k - 1 + i]
    <3>1. r = SubSeq(s, 1, c) \o <<D>> \o SubSeq(s, n - (k - c) + 1, n)
      BY <1>6, <1>8, <2>1, <2>5
    <3>2. /\ r \in Seq(Shown) /\ Len(r) = k + 1
          /\ r[c + 1] = D
          /\ \A i \in 1 .. c : r[i] = s[i]
          /\ \A i \in c + 2 .. k + 1 : r[i] = s[Len(s) - k - 1 + i]
      <4>1. k < Len(s)
        BY <1>1, <2>2
      <4>2. r = Around(s, k, c, D)
        BY <1>1, <3>1, Zenon DEF Around
      <4>3. k \in Nat
        BY <1>3
      <4>4. Placed(Around(s, k, c, D), s, k, c, D)
        BY <1>2, <1>4, <2>4, <4>1, <4>3, EventsAt, Zenon
      <4> QED
        BY <4>2, <4>4, Zenon DEF Placed
    <3> QED
      BY <1>1, <3>2
  <2>7. \A i \in 1 .. k + 1 :
          \/ i \in 1 .. c \/ i = c + 1
          \/ i \in c + 2 .. k + 1 /\ n - k - 1 + i \in c + 2 .. n
    BY <1>3, <1>4, <2>2
  <2>8. \A i \in 1 .. k + 1 : r[i].Ref \in Exists \cup {None}
    <3>1. \A i \in 1 .. c : i \in 1 .. n
      BY <1>3, <1>4, <2>2
    <3>2. \A i \in c + 2 .. n : i \in 1 .. n
      BY <1>3, <1>4
    <3> QED
      BY <1>5, <2>4, <2>6, <2>7, <3>1, <3>2
  <2>9. \A i \in 1 .. n : s[i].drop = FALSE
    BY <1>3 DEF Event
  <2>10. ASSUME NEW i \in 1 .. k + 1, NEW j \in 1 .. k + 1, r[i] = r[j]
         PROVE  i = j
    <3>1. PICK p : \/ i \in 1 .. c /\ p = i
                   \/ i \in c + 2 .. k + 1 /\ p = n - k - 1 + i
                   \/ i = c + 1 /\ p = 0
      BY <2>7
    <3>2. PICK q : \/ j \in 1 .. c /\ q = j
                   \/ j \in c + 2 .. k + 1 /\ q = n - k - 1 + j
                   \/ j = c + 1 /\ q = 0
      BY <2>7
    <3>3. \A x \in c + 2 .. k + 1 : n - k - 1 + x \in 1 .. n
      BY <1>3, <1>4, <2>2
    <3>4. \A x \in 1 .. c : x \in 1 .. n
      BY <1>3, <1>4, <2>2
    <3>5. /\ i # c + 1 => p \in 1 .. n /\ r[i] = s[p]
          /\ j # c + 1 => q \in 1 .. n /\ r[j] = s[q]
      BY <2>6, <3>1, <3>2, <3>3, <3>4
    <3>6. CASE i = c + 1 \/ j = c + 1
      <4>1. i # c + 1 => r[i].drop = FALSE
        BY <2>9, <3>5
      <4>2. j # c + 1 => r[j].drop = FALSE
        BY <2>9, <3>5
      <4> QED
        BY <2>4, <2>6, <2>10, <3>6, <4>1, <4>2
    <3>7. CASE i # c + 1 /\ j # c + 1
      <4>1. p = q
        BY <1>5, <2>10, <3>5, <3>7
      <4> QED
        BY <1>3, <1>4, <2>2, <3>1, <3>2, <3>7, <4>1
    <3> QED
      BY <3>6, <3>7
  <2> QED
    BY <2>5, <2>6, <2>8, <2>10 DEF Showable
<1> QED
  BY <1>7, <1>8

-----------------------------------------------------------------------------
\* Times are numbers, also those of DROP events.
LEMMA ShownTimes ==
  ASSUME NEW e \in Shown
  PROVE  e.When \in Int
<1>1. CASE e \in Event
  BY <1>1, EventTimes
<1>2. CASE e \in {DROP(n) : n \in 1 .. MaxLogged}
  BY <1>2, EventLogAssumption DEF DROP
<1> QED
  BY <1>1, <1>2 DEF Shown

\* allEvents sorts the lines: what it leaves has the same lines, each as often
\* as before, and their times do not decrease.
THEOREM SortedIs ==
  ASSUME NEW s \in Seq(Line)
  PROVE  /\ Sorted(s) \in Seq(Line) /\ DOMAIN Sorted(s) = DOMAIN s
         /\ \A i, j \in DOMAIN s :
              i < j => Sorted(s)[i].evt.When <= Sorted(s)[j].evt.When
         /\ \E q \in [DOMAIN s -> DOMAIN s] :
              /\ \A i \in DOMAIN s : Sorted(s)[i] = s[q[i]]
              /\ \A i \in DOMAIN s : \E n \in DOMAIN s : q[n] = i
              /\ \A i, j \in DOMAIN s : q[i] = q[j] => i = j
<1>1. PICK D : D = DOMAIN s
  OBVIOUS
<1>2. D = 1 .. Len(s) /\ Len(s) \in Nat
  BY <1>1
<1>3. IsFiniteSet(D) /\ Cardinality(D) = Len(s)
  BY <1>2, FS_Interval, SMTT(30)
<1>4. \A i \in D : s[i] \in Line /\ s[i].evt.When \in Int
  <2>1. \A i \in D : s[i] \in Line
    BY <1>2
  <2>2. \A i \in D : s[i].evt \in Shown
    BY <2>1 DEF Line
  <2> QED
    BY <2>1, <2>2, ShownTimes
<1>5. PICK ord : ord = {p \in D \X D : Earlier(s, p[1], p[2])}
  OBVIOUS
<1>6. \A i, j \in D : <<i, j>> \in ord <=> Earlier(s, i, j)
  BY <1>5
<1>7. \A i, j \in D :
        Earlier(s, i, j) <=> \/ s[i].evt.When < s[j].evt.When
                             \/ s[i].evt.When = s[j].evt.When /\ i < j
  BY DEF Earlier
<1>8. StrictTotal(D, ord)
  <2>1. \A i \in D : <<i, i>> \notin ord
    BY <1>2, <1>4, <1>6, <1>7
  <2>2. \A i, j \in D : i # j => <<i, j>> \in ord \/ <<j, i>> \in ord
    BY <1>2, <1>4, <1>6, <1>7
  <2>3. \A i, j, k \in D :
          <<i, j>> \in ord /\ <<j, k>> \in ord => <<i, k>> \in ord
    BY <1>2, <1>4, <1>6, <1>7, SMTT(30)
  <2> QED
    BY <2>1, <2>2, <2>3 DEF StrictTotal
<1>9. PICK q : q = InOrder(D, ord)
  OBVIOUS
<1>10. /\ q \in [D -> D]
       /\ \A i \in D : \E n \in D : q[n] = i
       /\ \A i, j \in D : i < j => <<q[i], q[j]>> \in ord
  <2>1. Lists(q, D, ord)
    BY <1>3, <1>8, <1>9, InOrderLists
  <2> QED
    BY <1>2, <1>3, <2>1, Zenon DEF Lists
<1>11. ASSUME NEW i \in D, NEW j \in D, q[i] = q[j]
       PROVE  i = j
  <2>1. q[i] \in D /\ ~ (<<q[i], q[i]>> \in ord)
    BY <1>8, <1>10 DEF StrictTotal
  <2>2. ~ (i < j) /\ ~ (j < i)
    BY <1>10, <1>11, <2>1
  <2> QED
    BY <1>2, <2>2
<1>12. PICK r : r = Sorted(s)
  OBVIOUS
<1>13. r = [n \in D |-> s[q[n]]]
  BY <1>1, <1>5, <1>9, <1>12, Zenon DEF Sorted
<1>14. r \in [D -> Line] /\ \A i \in D : r[i] = s[q[i]]
  BY <1>4, <1>10, <1>13
<1>15. r \in Seq(Line) /\ DOMAIN r = D
  <2>1. \A n \in Nat : \A f \in [1 .. n -> Line] :
          f \in Seq(Line) /\ DOMAIN f = 1 .. n
    OBVIOUS
  <2> QED
    BY <1>2, <1>14, <2>1
<1>16. ASSUME NEW i \in D, NEW j \in D, i < j
       PROVE  r[i].evt.When <= r[j].evt.When
  <2>1. Earlier(s, q[i], q[j]) /\ q[i] \in D /\ q[j] \in D
    BY <1>6, <1>10, <1>16
  <2> QED
    BY <1>4, <1>7, <1>14, <2>1
<1>17. \A i, j \in D : i < j => r[i].evt.When <= r[j].evt.When
  BY <1>16
<1>18. \A i, j \in D : q[i] = q[j] => i = j
  BY <1>11
<1>19. \E f \in [DOMAIN s -> DOMAIN s] :
         /\ \A i \in DOMAIN s : Sorted(s)[i] = s[f[i]]
         /\ \A i \in DOMAIN s : \E n \in DOMAIN s : f[n] = i
         /\ \A i, j \in DOMAIN s : f[i] = f[j] => i = j
  <2> SUFFICES /\ q \in [DOMAIN s -> DOMAIN s]
               /\ \A i \in DOMAIN s : Sorted(s)[i] = s[q[i]]
               /\ \A i \in DOMAIN s : \E n \in DOMAIN s : q[n] = i
               /\ \A i, j \in DOMAIN s : q[i] = q[j] => i = j
    OBVIOUS
  <2> QED
    BY <1>1, <1>10, <1>12, <1>14, <1>18
<1> QED
  BY <1>1, <1>12, <1>15, <1>17, <1>19

(***************************************************************************)
(* The page while it is gathered.  What remains to be gathered are the     *)
(* pending calls: each trace that a line refers to, and the one asked for, *)
(* is seen or among them, and they nest no deeper than there are traces    *)
(* seen.                                                                   *)
(***************************************************************************)
Reached == seen \cup {calls[i].trace : i \in DOMAIN calls}

CallsOK ==
  /\ calls \in Seq([trace : Exists, depth : 0 .. Cardinality(seen)])
  /\ view # "gather" => calls = <<>>

LinesOK ==
  /\ evts \in Seq(Line)
  /\ \A i \in 1 .. Len(evts) :
       evts[i].trace \in seen /\ evts[i].evt.Ref \in Reached \cup {None}
  /\ \A i, j \in 1 .. Len(evts) :
       evts[i].trace = evts[j].trace /\ evts[i].evt = evts[j].evt => i = j

LastingOK ==
  /\ lasting \in [Trace -> SUBSET Shown]
  /\ \A t \in seen : \A e \in lasting[t] :
       \E i \in 1 .. Len(evts) : evts[i].trace = t /\ evts[i].evt = e

ViewOK ==
  /\ view \in {"idle", "gather", "render"}
  /\ trace \in Trace \cup {None}
  /\ view # "idle" => trace \in Reached
  /\ view = "idle" => seen = {} /\ evts = <<>>
  /\ seen \subseteq Exists

PageOK == ViewOK /\ CallsOK /\ LinesOK /\ LastingOK

PageInv == LogInv /\ EventsOK /\ PageOK

\* The sets of traces are finite, and smaller than the set of all.
LEMMA SeenFinite ==
  ASSUME NEW S \in SUBSET Trace
  PROVE  /\ IsFiniteSet(S) /\ Cardinality(S) \in Nat
         /\ Cardinality(Trace) \in Nat
         /\ Cardinality(S) <= Cardinality(Trace)
         /\ \A t \in Trace \ S :
              Cardinality(S \cup {t}) = Cardinality(S) + 1
<1>1. IsFiniteSet(S) /\ Cardinality(S) <= Cardinality(Trace)
  BY TracePageAssumption, FS_Subset
<1>2. Cardinality(S) \in Nat /\ Cardinality(Trace) \in Nat
  BY <1>1, TracePageAssumption, FS_CardinalityType
<1> QED
  BY <1>1, <1>2, FS_AddElement

\* The properties of a page follow from what is said of it.
LEMMA PageProperties ==
  ASSUME PageInv
  PROVE  PageTypeOK /\ ShownOnce /\ PageComplete
<1> USE DEF PageInv, PageOK
<1>1. /\ seen \in SUBSET Trace /\ Exists \subseteq Trace
      /\ Cardinality(seen) \in Nat /\ Cardinality(Trace) \in Nat
      /\ Cardinality(seen) <= Cardinality(Trace)
  BY SeenFinite DEF ViewOK, Exists
<1>2. /\ DOMAIN evts = 1 .. Len(evts) /\ evts \in Seq(Line)
      /\ DOMAIN calls = 1 .. Len(calls)
  BY DEF LinesOK, CallsOK
<1>3. PageTypeOK
  <2>1. TypeOK
    BY InvTypes
  <2>2. \A i \in DOMAIN calls :
          calls[i] \in [trace : Trace, depth : 0 .. Cardinality(Trace)]
    <3>1. \A i \in DOMAIN calls :
            calls[i] \in [trace : Exists, depth : 0 .. Cardinality(seen)]
      BY <1>2, ElementOfSeq DEF CallsOK
    <3>2. 0 .. Cardinality(seen) \subseteq 0 .. Cardinality(Trace)
      BY <1>1
    <3> QED
      BY <1>1, <3>1, <3>2
  <2> QED
    BY <1>1, <1>2, <2>1, <2>2 DEF PageTypeOK, ViewOK, LastingOK
<1>4. ShownOnce
  BY <1>2, Zenon DEF ShownOnce, LinesOK
<1>5. ASSUME view = "render"
      PROVE  /\ trace \in seen
             /\ \A i \in DOMAIN evts : evts[i].evt.Ref \in seen \cup {None}
             /\ \A t \in seen :
                  lasting[t] \subseteq
                    {l.evt : l \in {x \in ToSet(evts) : x.trace = t}}
  <2>1. calls = <<>>
    BY <1>5 DEF CallsOK
  <2>2. Reached = seen
    BY <2>1 DEF Reached
  <2>3. ASSUME NEW t \in seen, NEW e \in lasting[t]
        PROVE  e \in {l.evt : l \in {x \in ToSet(evts) : x.trace = t}}
    <3>1. PICK i \in 1 .. Len(evts) : evts[i].trace = t /\ evts[i].evt = e
      BY <2>3 DEF LastingOK
    <3>2. evts[i] \in {x \in ToSet(evts) : x.trace = t}
      BY <1>2, <3>1 DEF ToSet
    <3> QED
      BY <3>1, <3>2
  <2> QED
    BY <1>2, <1>5, <2>2, <2>3 DEF ViewOK, LinesOK
<1> QED
  BY <1>3, <1>4, <1>5 DEF PageComplete

\* The history that PageComplete speaks of only shrinks while a page is open.
LEMMA LastingShrinks ==
  ASSUME PageInv, NoteLasting
  PROVE  /\ lasting' \in [Trace -> SUBSET Shown]
         /\ view # "idle" => \A t \in Trace :
              lasting'[t] \subseteq lasting[t] /\ lasting'[t] \subseteq InLog(t)'
<1>1. \A t \in Trace : InLog(t) \in SUBSET Shown
  <2>1. \A t \in Exists : Events(t) \in Seq(Shown)
    BY EventsShowable DEF Showable, PageInv
  <2> QED
    BY <2>1 DEF InLog, ToSet
<1>2. lasting \in [Trace -> SUBSET Shown]
  BY DEF PageInv, PageOK, LastingOK
<1>3. lasting' = [t \in Trace |->
        IF view' = "idle" THEN {}
        ELSE IF view = "idle" THEN InLog(t)
        ELSE lasting[t] \cap InLog(t)']
  BY DEF NoteLasting
<1>4. lasting' \in [Trace -> SUBSET Shown]
  BY <1>1, <1>2, <1>3
<1>5. ASSUME view # "idle", NEW t \in Trace
      PROVE  lasting'[t] \subseteq lasting[t] /\ lasting'[t] \subseteq InLog(t)'
  BY <1>3, <1>5
<1> QED
  BY <1>4, <1>5

\* A goroutine logs while the page is gathered.
LEMMA LogStepPage ==
  ASSUME PageInv, LogInv', EventsOK', Exists \subseteq Exists',
         UNCHANGED pageVars, NoteLasting
  PROVE  PageInv'
<1> USE DEF PageInv, PageOK, pageVars
<1>1. /\ lasting' \in [Trace -> SUBSET Shown]
      /\ view # "idle" => \A t \in Trace : lasting'[t] \subseteq lasting[t]
  BY LastingShrinks
<1>2. ViewOK'
  BY DEF ViewOK, Reached
<1>3. CallsOK'
  <2>1. PICK T : T = [trace : Exists, depth : 0 .. Cardinality(seen)]
    OBVIOUS
  <2>2. PICK U : U = [trace : Exists', depth : 0 .. Cardinality(seen)]
    OBVIOUS
  <2>3. T \subseteq U
    BY <2>1, <2>2
  <2>4. calls \in Seq(U)
    BY <2>1, <2>3, SeqMonotonic DEF CallsOK
  <2> QED
    BY <2>2, <2>4 DEF CallsOK
<1>4. LinesOK'
  BY Zenon DEF LinesOK, Reached
<1>5. LastingOK'
  <2>1. seen \subseteq Trace /\ (view = "idle" => seen = {})
    BY DEF ViewOK, Exists
  <2> QED
    BY <1>1, <2>1 DEF LastingOK
<1> QED
  BY <1>2, <1>3, <1>4, <1>5

\* The traces that the events of a trace refer to.
LEMMA SubTracesAre ==
  ASSUME NEW e, Showable(e)
  PROVE  /\ SubTraces(e) \in Seq(Exists)
         /\ \A i \in 1 .. Len(e) : e[i].Ref # None =>
              \E n \in 1 .. Len(SubTraces(e)) : SubTraces(e)[n] = e[i].Ref
<1>1. PICK I : I = {i \in DOMAIN e : e[i].Ref # None}
  OBVIOUS
<1>2. PICK r : r = Selected(e, I)
  OBVIOUS
<1>3. e \in Seq(Shown) /\ I \in SUBSET DOMAIN e /\ DOMAIN e = 1 .. Len(e)
  BY <1>1 DEF Showable
<1>4. /\ r \in Seq(Shown)
      /\ \A n \in DOMAIN r : \E i \in I : r[n] = e[i]
      /\ \A i \in I : \E n \in DOMAIN r : r[n] = e[i]
  BY <1>2, <1>3, SelectedIs
<1>5. DOMAIN r = 1 .. Len(r) /\ Len(r) \in Nat
  BY <1>4
<1>6. PICK s : s = SubTraces(e)
  OBVIOUS
<1>7. s = [i \in 1 .. Len(r) |-> r[i].Ref]
  BY <1>1, <1>2, <1>6, Zenon DEF SubTraces
<1>8. \A n \in 1 .. Len(r) : r[n].Ref \in Exists
  <2>1. \A i \in I : e[i].Ref \in Exists
    BY <1>1, <1>3 DEF Showable
  <2> QED
    BY <1>4, <1>5, <2>1
<1>9. s \in Seq(Exists) /\ Len(s) = Len(r)
  <2>1. s \in [1 .. Len(r) -> Exists]
    BY <1>7, <1>8
  <2>2. \A n \in Nat : \A f \in [1 .. n -> Exists] :
          f \in Seq(Exists) /\ Len(f) = n
    OBVIOUS
  <2> QED
    BY <1>5, <2>1, <2>2
<1>10. ASSUME NEW i \in 1 .. Len(e), e[i].Ref # None
       PROVE  \E n \in 1 .. Len(s) : s[n] = e[i].Ref
  <2>1. i \in I
    BY <1>1, <1>3, <1>10
  <2>2. PICK n \in 1 .. Len(r) : r[n] = e[i]
    BY <1>4, <1>5, <2>1
  <2>3. s[n] = e[i].Ref /\ n \in 1 .. Len(s)
    BY <1>7, <1>9, <2>2
  <2> QED
    BY <2>3
<1> QED
  BY <1>6, <1>9, <1>10

\* The calls r that a call leaves to do: those it makes, new, and the others
\* of c.
Left(r, c, new) ==
  /\ \A i \in 1 .. Len(new) : \E n \in 1 .. Len(r) : r[n] = new[i]
  /\ \A i \in 1 .. Len(c) :
       \/ c[i] = Head(c)
       \/ \E n \in 1 .. Len(r) : r[n] = c[i]

\* They are there after the first call of c is gone.
LEMMA CallsLeft ==
  ASSUME NEW T, NEW c \in Seq(T), c # <<>>, NEW new \in Seq(T),
         NEW r, r = new \o Tail(c)
  PROVE  r \in Seq(T) /\ Left(r, c, new)
<1>1. PICK m, k : m = Len(new) /\ k = Len(Tail(c))
  OBVIOUS
<1>2. /\ Tail(c) \in Seq(T) /\ k = Len(c) - 1
      /\ \A i \in 1 .. k : Tail(c)[i] = c[i + 1]
      /\ Head(c) = c[1] /\ m \in Nat /\ k \in Nat
  BY <1>1, HeadTailProperties
<1>3. /\ r \in Seq(T) /\ Len(r) = m + k
      /\ \A i \in 1 .. m + k : r[i] = IF i <= m THEN new[i] ELSE Tail(c)[i - m]
  BY <1>1, <1>2, ConcatProperties
<1>4. ASSUME NEW i \in 1 .. m
      PROVE  \E n \in 1 .. Len(r) : r[n] = new[i]
  <2>1. i \in 1 .. Len(r) /\ r[i] = new[i]
    BY <1>2, <1>3
  <2> QED
    BY <2>1
<1>5. ASSUME NEW i \in 1 .. Len(c), i # 1
      PROVE  \E n \in 1 .. Len(r) : r[n] = c[i]
  <2>1. PICK j, a : j = m + a /\ a = i - 1
    OBVIOUS
  <2>2. /\ j \in 1 .. m + k /\ ~(j <= m) /\ j - m = a
        /\ a \in 1 .. k /\ a + 1 = i
    BY <1>2, <1>5, <2>1
  <2>3. r[j] = Tail(c)[j - m]
    BY <1>3, <2>2, Zenon
  <2>4. Tail(c)[a] = c[a + 1]
    BY <1>2, <2>2, Zenon
  <2>5. r[j] = c[i] /\ j \in 1 .. Len(r)
    BY <1>3, <2>2, <2>3, <2>4, Zenon
  <2> QED
    BY <2>5
<1> QED
  BY <1>1, <1>2, <1>3, <1>4, <1>5 DEF Left

\* A call for a trace that was seen.
LEMMA NothingKeepsPage ==
  ASSUME PageInv, AppendNothing, NoteLasting
  PROVE  PageOK'
<1> USE DEF PageInv, PageOK
<1>1. /\ view = "gather" /\ view' = view /\ trace' = trace /\ seen' = seen
      /\ evts' = evts /\ calls # <<>> /\ calls' = Tail(calls)
      /\ Head(calls).trace \in seen /\ UNCHANGED logVars
  BY DEF AppendNothing, Seen
<1>2. Exists' = Exists
  BY <1>1 DEF logVars, Exists
<1>3. PICK T : T = [trace : Exists, depth : 0 .. Cardinality(seen)]
  OBVIOUS
<1>4. calls \in Seq(T)
  BY <1>3 DEF CallsOK
<1>5. /\ Tail(calls) \in Seq(T) /\ Len(Tail(calls)) = Len(calls) - 1
      /\ \A i \in 1 .. Len(Tail(calls)) : Tail(calls)[i] = calls[i + 1]
      /\ DOMAIN calls = 1 .. Len(calls) /\ Len(calls) \in Nat
      /\ DOMAIN Tail(calls) = 1 .. Len(Tail(calls)) /\ Head(calls) = calls[1]
  BY <1>1, <1>4, HeadTailProperties
<1>6. Reached' = Reached
  <2>1. ASSUME NEW i \in DOMAIN calls
        PROVE  calls[i].trace \in Reached'
    <3>1. CASE i = 1
      BY <1>1, <1>5, <3>1 DEF Reached
    <3>2. CASE i # 1
      <4>1. i - 1 \in DOMAIN calls' /\ calls'[i - 1] = calls[i]
        BY <1>1, <1>5, <3>2
      <4> QED
        BY <4>1 DEF Reached
    <3> QED
      BY <3>1, <3>2
  <2>2. ASSUME NEW i \in DOMAIN calls'
        PROVE  calls'[i].trace \in Reached
    <3>1. i + 1 \in DOMAIN calls /\ calls'[i] = calls[i + 1]
      BY <1>1, <1>5
    <3> QED
      BY <3>1 DEF Reached
  <2> QED
    BY <1>1, <2>1, <2>2 DEF Reached
<1>7. ViewOK'
  BY <1>1, <1>2, <1>6 DEF ViewOK
<1>8. CallsOK'
  BY <1>1, <1>2, <1>3, <1>5 DEF CallsOK
<1>9. LinesOK'
  BY <1>1, <1>6, Zenon DEF LinesOK
<1>10. LastingOK'
  <2>1. seen \subseteq Trace
    BY DEF ViewOK, Exists
  <2>2. /\ lasting' \in [Trace -> SUBSET Shown]
        /\ \A t \in Trace : lasting'[t] \subseteq lasting[t]
    BY <1>1, LastingShrinks
  <2> QED
    BY <1>1, <2>1, <2>2 DEF LastingOK
<1> QED
  BY <1>7, <1>8, <1>9, <1>10

\* The lines of a trace, e its events.
LinesOf(t, e, depth) ==
  [i \in 1 .. Len(e) |-> [trace |-> t, evt |-> e[i], depth |-> depth]]

\* The lines l, and those of another trace t with the events e.
Grown(l1, l, t, e) ==
  /\ \A i \in 1 .. Len(l) : \E n \in 1 .. Len(l1) : l1[n] = l[i]
  /\ \A i \in 1 .. Len(e) : \E n \in 1 .. Len(l1) :
       l1[n].trace = t /\ l1[n].evt = e[i]

\* A call for another trace adds its lines to those of the others ...
LEMMA LinesGrow ==
  ASSUME LinesOK, NEW t \in Trace \ seen, NEW e, Showable(e),
         NEW depth \in 0 .. Cardinality(Trace) - 1,
         evts' = evts \o LinesOf(t, e, depth), seen' = seen \cup {t},
         Reached \subseteq Reached',
         \A i \in 1 .. Len(e) : e[i].Ref \in Reached' \cup {None}
  PROVE  LinesOK' /\ Grown(evts', evts, t, e)
<1>1. PICK new, k, m : /\ new = LinesOf(t, e, depth) /\ k = Len(evts)
                       /\ m = Len(e)
  OBVIOUS
<1>2. e \in Seq(Shown) /\ m \in Nat /\ \A i \in 1 .. m : e[i] \in Shown
  BY <1>1 DEF Showable
<1>3. /\ \A i \in 1 .. m : /\ new[i].trace = t /\ new[i].evt = e[i]
                           /\ new[i] \in Line
      /\ new \in [1 .. m -> Line]
  <2>1. new = [i \in 1 .. m |-> [trace |-> t, evt |-> e[i], depth |-> depth]]
    BY <1>1 DEF LinesOf
  <2> QED
    BY <1>2, <2>1 DEF Line
<1>4. new \in Seq(Line) /\ Len(new) = m
  <2>1. \A n \in Nat : \A f \in [1 .. n -> Line] :
          f \in Seq(Line) /\ Len(f) = n
    OBVIOUS
  <2> QED
    BY <1>2, <1>3, <2>1
<1>5. evts \in Seq(Line) /\ k \in Nat
  BY <1>1 DEF LinesOK
<1>6. /\ evts' \in Seq(Line) /\ Len(evts') = k + m
      /\ \A i \in 1 .. k + m : evts'[i] = IF i <= k THEN evts[i] ELSE new[i - k]
  <2>1. /\ evts \o new \in Seq(Line) /\ Len(evts \o new) = Len(evts) + Len(new)
        /\ \A i \in 1 .. Len(evts) + Len(new) :
             (evts \o new)[i] = IF i <= Len(evts) THEN evts[i]
                                ELSE new[i - Len(evts)]
    BY <1>4, <1>5, ConcatProperties, Zenon
  <2>2. evts' = evts \o new
    BY <1>1
  <2> QED
    BY <1>1, <1>4, <2>1, <2>2, Zenon
<1>7. ASSUME NEW i \in 1 .. k
      PROVE  i \in 1 .. k + m /\ evts'[i] = evts[i]
  BY <1>2, <1>5, <1>6
<1>8. ASSUME NEW i \in 1 .. m
      PROVE  /\ k + i \in 1 .. k + m
             /\ evts'[k + i].trace = t /\ evts'[k + i].evt = e[i]
  <2>1. PICK j : j = k + i
    OBVIOUS
  <2>2. j \in 1 .. k + m /\ ~(j <= k) /\ j - k = i
    BY <1>2, <1>5, <2>1
  <2>3. evts'[j] = new[i]
    BY <1>6, <2>2, Zenon
  <2> QED
    BY <1>3, <2>1, <2>2, <2>3
<1>9. ASSUME NEW i \in 1 .. k + m
      PROVE  i \in 1 .. k \/ \E j \in 1 .. m : i = k + j
  <2>1. ~(i <= k) => i - k \in 1 .. m /\ i = k + (i - k)
    BY <1>2, <1>5
  <2> QED
    BY <1>5, <2>1
<1>10. \A i \in 1 .. k : /\ evts[i].trace \in seen
                         /\ evts[i].evt.Ref \in Reached \cup {None}
  BY <1>1 DEF LinesOK
<1>11. ASSUME NEW i \in 1 .. k + m
       PROVE  /\ evts'[i].trace \in seen'
              /\ evts'[i].evt.Ref \in Reached' \cup {None}
  <2>1. CASE i \in 1 .. k
    BY <1>7, <1>10, <2>1
  <2>2. ASSUME NEW j \in 1 .. m, i = k + j
        PROVE  /\ evts'[i].trace \in seen'
               /\ evts'[i].evt.Ref \in Reached' \cup {None}
    BY <1>1, <1>8, <2>2
  <2> QED
    BY <1>9, <2>1, <2>2
<1>12. ASSUME NEW i \in 1 .. k + m, NEW j \in 1 .. k + m,
              evts'[i].trace = evts'[j].trace, evts'[i].evt = evts'[j].evt
       PROVE  i = j
  <2>1. CASE i \in 1 .. k /\ j \in 1 .. k
    BY <1>1, <1>7, <1>12, <2>1 DEF LinesOK
  <2>2. ASSUME i \in 1 .. k, NEW y \in 1 .. m, j = k + y
        PROVE  FALSE
    BY <1>7, <1>8, <1>10, <1>12, <2>2
  <2>3. ASSUME j \in 1 .. k, NEW x \in 1 .. m, i = k + x
        PROVE  FALSE
    BY <1>7, <1>8, <1>10, <1>12, <2>3
  <2>4. ASSUME NEW x \in 1 .. m, NEW y \in 1 .. m, i = k + x, j = k + y
        PROVE  i = j
    <3>1. e[x] = e[y]
      BY <1>8, <1>12, <2>4
    <3>2. x = y
      BY <1>1, <3>1 DEF Showable
    <3> QED
      BY <2>4, <3>2
  <2> QED
    BY <1>9, <2>1, <2>2, <2>3, <2>4
<1>13. LinesOK'
  BY <1>6, <1>11, <1>12 DEF LinesOK
<1> QED
  BY <1>1, <1>6, <1>7, <1>8, <1>13 DEF Grown

\* ... and leaves the traces that these refer to for other calls.
LEMMA AppendKeepsPage ==
  ASSUME PageInv, AppendAllEvents, NoteLasting
  PROVE  PageOK'
<1> USE DEF PageInv, PageOK
<1>1. PICK t, depth, e, subs : /\ t = Head(calls).trace
                               /\ depth = Head(calls).depth
                               /\ e = Events(t) /\ subs = SubTraces(e)
  OBVIOUS
<1>2. PICK new : new = [i \in 1 .. Len(subs) |-> Call(subs[i], depth + 1)]
  OBVIOUS
<1>3. /\ view = "gather" /\ view' = view /\ trace' = trace
      /\ seen' = seen \cup {t} /\ evts' = evts \o LinesOf(t, e, depth)
      /\ calls # <<>> /\ calls' = new \o Tail(calls)
      /\ t \notin seen /\ UNCHANGED logVars
  BY <1>1, <1>2, Zenon DEF AppendAllEvents, Seen, LinesOf
<1>4. Exists' = Exists /\ \A u \in Trace : InLog(u)' = InLog(u)
  <2>1. log' = log
    BY <1>3 DEF logVars
  <2> QED
    BY <2>1 DEF Exists, InLog, Events
<1>5. PICK T, U : /\ T = [trace : Exists, depth : 0 .. Cardinality(seen)]
                  /\ U = [trace : Exists, depth : 0 .. Cardinality(seen')]
  OBVIOUS
<1>6. calls \in Seq(T) /\ Head(calls) \in T
  BY <1>3, <1>5, HeadTailProperties DEF CallsOK
<1>7. t \in Exists /\ depth \in 0 .. Cardinality(seen) /\ t \in Trace
  BY <1>1, <1>5, <1>6 DEF Exists
<1>8. /\ seen \in SUBSET Trace /\ seen' \in SUBSET Trace
      /\ Cardinality(seen) \in Nat
      /\ Cardinality(seen') = Cardinality(seen) + 1
      /\ Cardinality(seen') <= Cardinality(Trace)
      /\ Cardinality(Trace) \in Nat
  <2>1. seen \in SUBSET Trace /\ seen' \in SUBSET Trace
    BY <1>3, <1>7 DEF ViewOK, Exists
  <2> QED
    BY <1>3, <1>7, <2>1, SeenFinite
<1>9. Showable(e)
  BY <1>1, <1>7, EventsShowable
<1>10. /\ subs \in Seq(Exists) /\ Len(subs) \in Nat
       /\ \A i \in 1 .. Len(e) : e[i].Ref # None =>
            \E n \in 1 .. Len(subs) : subs[n] = e[i].Ref
  BY <1>1, <1>9, SubTracesAre
<1>11. /\ new \in Seq(U) /\ Len(new) = Len(subs)
       /\ \A i \in 1 .. Len(subs) : new[i].trace = subs[i]
  <2>1. depth + 1 \in 0 .. Cardinality(seen')
    BY <1>7, <1>8
  <2>2. \A i \in 1 .. Len(subs) : subs[i] \in Exists
    BY <1>10
  <2>3. /\ new \in [1 .. Len(subs) -> U]
        /\ \A i \in 1 .. Len(subs) : new[i].trace = subs[i]
    BY <1>2, <1>5, <2>1, <2>2 DEF Call
  <2>4. \A n \in Nat : \A f \in [1 .. n -> U] : f \in Seq(U) /\ Len(f) = n
    OBVIOUS
  <2> QED
    BY <1>10, <2>3, <2>4
<1>12. calls \in Seq(U)
  <2>1. T \subseteq U
    BY <1>5, <1>8
  <2> QED
    BY <1>6, <2>1, SeqMonotonic
<1>13. /\ calls' \in Seq(U) /\ DOMAIN calls' = 1 .. Len(calls')
       /\ \A i \in 1 .. Len(new) :
            \E n \in 1 .. Len(calls') : calls'[n] = new[i]
       /\ \A i \in 1 .. Len(calls) :
            \/ calls[i] = Head(calls)
            \/ \E n \in 1 .. Len(calls') : calls'[n] = calls[i]
       /\ DOMAIN calls = 1 .. Len(calls)
  <2>1. calls # <<>> /\ new \in Seq(U) /\ calls' = new \o Tail(calls)
    BY <1>3, <1>11
  <2>2. calls' \in Seq(U) /\ Left(calls', calls, new)
    BY <1>12, <2>1, CallsLeft
  <2> QED
    BY <1>12, <2>2, LenProperties DEF Left
<1>14. Reached \subseteq Reached'
  <2>1. ASSUME NEW i \in DOMAIN calls
        PROVE  calls[i].trace \in Reached'
    BY <1>1, <1>3, <1>13 DEF Reached
  <2> QED
    BY <1>3, <2>1 DEF Reached
<1>15. \A i \in 1 .. Len(e) : e[i].Ref \in Reached' \cup {None}
  <2>1. ASSUME NEW n \in 1 .. Len(subs)
        PROVE  subs[n] \in Reached'
    <3>1. PICK j \in 1 .. Len(calls') : calls'[j] = new[n]
      BY <1>11, <1>13
    <3>2. calls'[j].trace = subs[n]
      BY <1>11, <3>1
    <3> QED
      BY <1>13, <3>2 DEF Reached
  <2> QED
    BY <1>10, <2>1
<1>16. LinesOK' /\ Grown(evts', evts, t, e)
  <2>1. depth \in 0 .. Cardinality(Trace) - 1
    BY <1>7, <1>8
  <2> QED
    <3>1. LinesOK /\ t \in Trace \ seen
      BY <1>3, <1>7
    <3>2. evts' = evts \o LinesOf(t, e, depth) /\ seen' = seen \cup {t}
      BY <1>3
    <3> QED
      BY <1>9, <1>14, <1>15, <2>1, <3>1, <3>2, LinesGrow, Zenon
<1>17. ViewOK'
  BY <1>3, <1>4, <1>7, <1>14 DEF ViewOK
<1>18. CallsOK'
  BY <1>3, <1>4, <1>5, <1>13 DEF CallsOK
<1>19. LastingOK'
  <2>1. /\ lasting' \in [Trace -> SUBSET Shown]
        /\ \A u \in Trace : /\ lasting'[u] \subseteq lasting[u]
                            /\ lasting'[u] \subseteq InLog(u)'
    BY <1>3, LastingShrinks
  <2>2. ASSUME NEW u \in seen, NEW x \in lasting'[u]
        PROVE  \E n \in 1 .. Len(evts') :
                 evts'[n].trace = u /\ evts'[n].evt = x
    <3>1. PICK i \in 1 .. Len(evts) : evts[i].trace = u /\ evts[i].evt = x
      BY <1>8, <2>1, <2>2 DEF LastingOK
    <3> QED
      BY <1>16, <3>1 DEF Grown
  <2>3. ASSUME NEW x \in lasting'[t]
        PROVE  \E n \in 1 .. Len(evts') :
                 evts'[n].trace = t /\ evts'[n].evt = x
    <3>1. x \in ToSet(e)
      BY <1>1, <1>4, <1>7, <2>1, <2>3 DEF InLog
    <3>2. PICK i \in 1 .. Len(e) : e[i] = x
      BY <1>9, <3>1 DEF ToSet, Showable
    <3> QED
      BY <1>16, <3>2 DEF Grown
  <2>4. \A u \in seen' : u \in seen \/ u = t
    BY <1>3
  <2>5. \A u \in seen' : \A x \in lasting'[u] : \E n \in 1 .. Len(evts') :
          evts'[n].trace = u /\ evts'[n].evt = x
    BY <2>2, <2>3, <2>4, Zenon
  <2> QED
    BY <2>1, <2>5, Zenon DEF LastingOK
<1> QED
  BY <1>16, <1>17, <1>18, <1>19

\* Sorting moves the lines and changes none.
LEMMA SortKeepsPage ==
  ASSUME PageInv, Sort, NoteLasting
  PROVE  PageOK'
<1> USE DEF PageInv, PageOK
<1>1. /\ view = "gather" /\ view' = "render" /\ trace' = trace
      /\ seen' = seen /\ calls = <<>> /\ calls' = calls
      /\ evts' = Sorted(evts) /\ UNCHANGED logVars
  BY DEF Sort
<1>2. Exists' = Exists /\ Reached' = Reached
  BY <1>1 DEF logVars, Exists, Reached
<1>3. evts \in Seq(Line) /\ DOMAIN evts = 1 .. Len(evts)
  BY DEF LinesOK
<1>4. evts' \in Seq(Line) /\ DOMAIN evts' = DOMAIN evts
  BY <1>1, <1>3, SortedIs
<1>5. PICK q \in [DOMAIN evts -> DOMAIN evts] :
        /\ \A i \in DOMAIN evts : evts'[i] = evts[q[i]]
        /\ \A i \in DOMAIN evts : \E n \in DOMAIN evts : q[n] = i
        /\ \A i, j \in DOMAIN evts : q[i] = q[j] => i = j
  <2>1. \E q \in [DOMAIN evts -> DOMAIN evts] :
          /\ \A i \in DOMAIN evts : Sorted(evts)[i] = evts[q[i]]
          /\ \A i \in DOMAIN evts : \E n \in DOMAIN evts : q[n] = i
          /\ \A i, j \in DOMAIN evts : q[i] = q[j] => i = j
    BY <1>3, SortedIs, Zenon
  <2> QED
    BY <1>1, <2>1
<1>6. DOMAIN evts' = 1 .. Len(evts')
  BY <1>4
<1>7. ViewOK'
  BY <1>1, <1>2 DEF ViewOK
<1>8. CallsOK'
  BY <1>1, <1>2 DEF CallsOK
<1>9. LinesOK'
  <2>1. \A i \in DOMAIN evts : q[i] \in 1 .. Len(evts)
    BY <1>3, <1>5
  <2>2. \A i \in DOMAIN evts :
          /\ evts'[i].trace \in seen
          /\ evts'[i].evt.Ref \in Reached \cup {None}
    BY <1>5, <2>1, SMTT(30) DEF LinesOK
  <2>3. ASSUME NEW i \in DOMAIN evts, NEW j \in DOMAIN evts,
               evts'[i].trace = evts'[j].trace, evts'[i].evt = evts'[j].evt
        PROVE  i = j
    <3>1. PICK a, b : a = q[i] /\ b = q[j]
      OBVIOUS
    <3>2. /\ a \in 1 .. Len(evts) /\ b \in 1 .. Len(evts)
          /\ evts'[i] = evts[a] /\ evts'[j] = evts[b]
      BY <1>5, <2>1, <3>1
    <3>3. a = b
      BY <2>3, <3>2 DEF LinesOK
    <3> QED
      BY <1>5, <3>1, <3>3
  <2> QED
    BY <1>1, <1>2, <1>4, <1>6, <2>2, <2>3, Zenon DEF LinesOK
<1>10. LastingOK'
  <2>1. /\ lasting' \in [Trace -> SUBSET Shown]
        /\ \A t \in Trace : lasting'[t] \subseteq lasting[t]
    BY <1>1, LastingShrinks
  <2>2. seen \subseteq Trace
    BY DEF ViewOK, Exists
  <2>3. ASSUME NEW t \in seen, NEW e \in lasting'[t]
        PROVE  \E n \in 1 .. Len(evts') :
                 evts'[n].trace = t /\ evts'[n].evt = e
    <3>1. PICK i \in DOMAIN evts : evts[i].trace = t /\ evts[i].evt = e
      BY <1>3, <2>1, <2>2, <2>3 DEF LastingOK
    <3>2. PICK n \in DOMAIN evts : q[n] = i
      BY <1>5
    <3>3. evts'[n] = evts[i] /\ n \in 1 .. Len(evts')
      BY <1>4, <1>5, <1>6, <3>2
    <3> QED
      BY <3>1, <3>3
  <2> QED
    BY <1>1, <2>1, <2>3 DEF LastingOK
<1> QED
  BY <1>7, <1>8, <1>9, <1>10

\* A page that is opened has a call for the trace asked for ...
LEMMA OpenKeepsPage ==
  ASSUME PageInv, NEW t \in Trace, RenderTraces(t), NoteLasting
  PROVE  PageOK'
<1> USE DEF PageInv, PageOK
<1>1. /\ view' = "gather" /\ trace' = t /\ t \in Exists
      /\ seen' = {} /\ evts' = <<>> /\ calls' = <<Call(t, 0)>>
      /\ UNCHANGED logVars
  BY DEF RenderTraces
<1>2. Exists' = Exists /\ Exists \subseteq Trace
  BY <1>1 DEF logVars, Exists
<1>3. Cardinality({}) = 0
  BY FS_EmptySet
<1>4. PICK U : U = [trace : Exists, depth : 0 .. Cardinality(seen')]
  OBVIOUS
<1>5. Call(t, 0) \in U /\ Call(t, 0).trace = t
  BY <1>1, <1>3, <1>4 DEF Call
<1>6. calls' \in Seq(U) /\ Len(calls') = 1 /\ calls'[1].trace = t
  BY <1>1, <1>5
<1>7. t \in Reached'
  BY <1>6 DEF Reached
<1>8. ViewOK'
  BY <1>1, <1>2, <1>7 DEF ViewOK
<1>9. CallsOK'
  BY <1>1, <1>2, <1>4, <1>6 DEF CallsOK
<1>10. LinesOK'
  BY <1>1 DEF LinesOK
<1>11. LastingOK'
  BY <1>1, LastingShrinks DEF LastingOK
<1> QED
  BY <1>8, <1>9, <1>10, <1>11

\* ... and nothing is left of one that was written.
LEMMA RenderedKeepsPage ==
  ASSUME PageInv, Rendered, NoteLasting
  PROVE  PageOK'
<1> USE DEF PageInv, PageOK
<1>1. /\ view = "render" /\ view' = "idle" /\ trace' = None
      /\ seen' = {} /\ evts' = <<>> /\ calls' = calls /\ UNCHANGED logVars
  BY DEF Rendered
<1>2. calls = <<>>
  BY <1>1 DEF CallsOK
<1>3. ViewOK'
  BY <1>1 DEF ViewOK
<1>4. CallsOK'
  BY <1>1, <1>2, EmptySeq DEF CallsOK
<1>5. LinesOK'
  BY <1>1 DEF LinesOK
<1>6. LastingOK'
  BY <1>1, LastingShrinks DEF LastingOK
<1> QED
  BY <1>3, <1>4, <1>5, <1>6

\* The initial state satisfies the invariant of the page ...
LEMMA InitPage ==
  ASSUME Init
  PROVE  PageInv
<1>1. LogInv
  BY InitInv
<1>2. EventsOK
  BY DEF Init, LogInit, EventsOK, TimesOK, RefsOK
<1>3. ViewOK /\ CallsOK /\ LinesOK /\ LastingOK
  BY EmptySeq DEF Init, ViewOK, CallsOK, LinesOK, LastingOK
<1> QED
  BY <1>1, <1>2, <1>3 DEF PageInv, PageOK

\* ... and every step keeps it.
LEMMA NextPage ==
  ASSUME PageInv, [Next]_vars
  PROVE  PageInv'
<1>1. [LogNext]_logVars
  BY PageKeepsLogs
<1>2. LogInv' /\ Exists \subseteq Exists'
  BY <1>1, NextInv, ExistsGrows DEF PageInv
<1>3. EventsOK'
  BY <1>1, <1>2, NextTimes DEF PageInv
<1>4. CASE UNCHANGED vars
  <2>1. PageOK' /\ UNCHANGED <<pageVars, lasting>>
    BY <1>4 DEF vars, pageVars, logVars, PageInv, PageOK, ViewOK, CallsOK,
                LinesOK, LastingOK, Reached, Exists
  <2> QED
    BY <1>2, <1>3, <2>1 DEF PageInv
<1>5. CASE LogNext /\ UNCHANGED pageVars /\ NoteLasting
  BY <1>2, <1>3, <1>5, LogStepPage
<1>6. CASE View /\ NoteLasting
  <2> SUFFICES PageOK'
    BY <1>2, <1>3 DEF PageInv
  <2>1. ASSUME NEW t \in Trace, RenderTraces(t)
        PROVE  PageOK'
    BY <1>6, <2>1, OpenKeepsPage
  <2>2. CASE AppendNothing
    BY <1>6, <2>2, NothingKeepsPage
  <2>3. CASE AppendAllEvents
    BY <1>6, <2>3, AppendKeepsPage
  <2>4. CASE Sort
    BY <1>6, <2>4, SortKeepsPage
  <2>5. CASE Rendered
    BY <1>6, <2>5, RenderedKeepsPage
  <2> QED
    BY <1>6, <2>1, <2>2, <2>3, <2>4, <2>5 DEF View
<1> QED
  BY <1>4, <1>5, <1>6 DEF Next

\* The types of a page's variables, for any finite set of traces; lines are
\* nested less deep than there are traces, however these refer to each other.
THEOREM PageTypeCorrect == Spec => []PageTypeOK
<1>1. PageInv => PageTypeOK
  BY PageProperties
<1> QED
  BY <1>1, InitPage, NextPage, PTL DEF Spec

\* No line is on a page twice, whatever circles the traces refer to each other
\* in and whatever is logged while the page is gathered.
THEOREM LinesShownOnce == Spec => []ShownOnce
<1>1. PageInv => ShownOnce
  BY PageProperties
<1> QED
  BY <1>1, InitPage, NextPage, PTL DEF Spec

\* A page that is rendered has every trace that one of its lines refers to, and
\* all the events these have kept.
THEOREM PagesComplete == Spec => []PageComplete
<1>1. PageInv => PageComplete
  BY PageProperties
<1> QED
  BY <1>1, InitPage, NextPage, PTL DEF Spec
=============================================================================
