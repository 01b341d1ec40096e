------------------------------ MODULE EventLog ------------------------------
(***************************************************************************)
(* internal/nettrace: the logs of traces (trace.append, Events,            *)
(* SetMaxEvents) and the ring the newer part of a log is kept in           *)
(* (evtring.go).                                                           *)
(*                                                                         *)
(* A trace keeps its first events in a slice and the latest ones in a      *)
(* ring.  The time of an event is read before the trace is locked, so      *)
(* goroutines that share a trace, which its lock allows, may append in     *)
(* another order than that of their times.                                 *)
(***************************************************************************)
EXTENDS Integers, Sequences, FiniteSets

CONSTANTS
  Trace,
  Writer,            \* goroutines that log to the traces
  Requested,         \* arguments given to SetMaxEvents
  DefaultMaxEvents,
  MinEvents,         \* the minimum of SetMaxEvents
  MaxLogged,         \* bound: events in a behaviour
  MaxRefs,           \* bound: events among them that refer to a trace
  None

\* An event refers to a trace (CHILD, LINK) or not (LOG).
Event == [When : 1 .. MaxLogged, Ref : Trace \cup {None}, drop : {FALSE}]

\* firstDrop is zero, the zero time, before a ring has dropped an event.
Ring == [evts : Seq(Event), max : Nat \ {0}, pos : Nat,
         firstDrop : 0 .. MaxLogged]

Log == [maxEvents : Nat, cutoff : Nat, firstEvents : Seq(Event),
        lastEvents : Ring \cup {None}]

ASSUME EventLogAssumption ==
  /\ MinEvents \in Nat /\ MinEvents >= 3
  /\ DefaultMaxEvents \in Nat /\ DefaultMaxEvents >= MinEvents
  /\ Requested \subseteq Int
  /\ MaxLogged \in Nat /\ MaxRefs \in Nat
  /\ None \notin Trace /\ None \notin Ring /\ None \notin Log

VARIABLES
  log,       \* per trace: its Log, None before it exists
  pending,   \* per writer: an event that has a time but is not in the log
  clock,     \* time.Now()
  refs,      \* number of events that refer to a trace
  logged     \* history: per trace, every event appended, in order

logVars == <<log, pending, clock, refs, logged>>

(***************************************************************************)
(* evtring.go.  The readings of the clock are distinct.  pos counts from 0.*)
(***************************************************************************)
newEvtRing(n) == [evts |-> <<>>, max |-> n, pos |-> -1, firstDrop |-> 0]

Add_LatestDrop(r, e) ==
  IF Len(r.evts) < r.max
  THEN [r EXCEPT !.evts = Append(@, e), !.pos = @ + 1]
  ELSE LET p == (r.pos + 1) % r.max
       IN [r EXCEPT !.pos = p,
                    !.firstDrop = r.evts[p + 1].When,
                    !.evts[p + 1] = e]

Add(r, e) ==
  IF Len(r.evts) < r.max
  THEN [r EXCEPT !.evts = Append(@, e), !.pos = @ + 1]
  ELSE LET p == (r.pos + 1) % r.max
       IN [r EXCEPT !.pos = p,
                    !.firstDrop = IF @ = 0 THEN r.evts[p + 1].When ELSE @,
                    !.evts[p + 1] = e]

\* The events in the order Do visits them.
Do(r) ==
  [i \in 1 .. Len(r.evts) |-> r.evts[((r.pos + i) % Len(r.evts)) + 1]]

(***************************************************************************)
(* trace.go                                                                *)
(***************************************************************************)
newTrace ==
  [maxEvents |-> DefaultMaxEvents, cutoff |-> DefaultMaxEvents \div 3,
   firstEvents |-> <<>>, lastEvents |-> None]

Exists == {t \in Trace : log[t] # None}

LogInit ==
  /\ log = [t \in Trace |-> None]
  /\ pending = [w \in Writer |-> None]
  /\ clock = 0
  /\ refs = 0
  /\ logged = [t \in Trace |-> <<>>]

New(t) ==
  /\ log[t] = None
  /\ log' = [log EXCEPT ![t] = newTrace]
  /\ UNCHANGED <<pending, clock, refs, logged>>

Truncated_NoMinimum(n) == IF n < 0 THEN 0 ELSE n

Truncated(n) == IF n < MinEvents THEN MinEvents ELSE n

\* "It must be called right after initialization": before there are events.
SetMaxEvents(t, n) ==
  /\ t \in Exists /\ logged[t] = <<>>
  /\ \A w \in Writer : pending[w] # None => pending[w].trace # t
  /\ log' = [log EXCEPT ![t].maxEvents = Truncated(n),
                        ![t].cutoff = Truncated(n) \div 3]
  /\ UNCHANGED <<pending, clock, refs, logged>>

\* Printf, Link and NewChild read the time of their event ...
ReadTime(w, t, other) ==
  /\ pending[w] = None
  /\ clock < MaxLogged
  /\ clock' = clock + 1
  /\ pending' = [pending EXCEPT ![w] =
       [trace |-> t,
        evt |-> [When |-> clock + 1, Ref |-> other, drop |-> FALSE]]]
  /\ UNCHANGED logged

Printf(w, t) == t \in Exists /\ ReadTime(w, t, None) /\ UNCHANGED <<log, refs>>

Link(w, t, other) ==
  /\ {t, other} \subseteq Exists /\ refs < MaxRefs
  /\ ReadTime(w, t, other)
  /\ refs' = refs + 1
  /\ UNCHANGED log

NewChild(w, t, c) ==
  /\ t \in Exists /\ log[c] = None /\ refs < MaxRefs
  /\ ReadTime(w, t, c)
  /\ refs' = refs + 1
  /\ log' = [log EXCEPT ![c] = newTrace]

\* The log of a trace with an event more.
Appended(l, e) ==
  IF Len(l.firstEvents) < l.cutoff
  THEN [l EXCEPT !.firstEvents = Append(@, e)]
  ELSE [l EXCEPT !.lastEvents =
          Add(IF @ = None THEN newEvtRing(l.maxEvents - l.cutoff) ELSE @, e)]

\* ... and then append it, with the trace locked.
append(w) ==
  /\ pending[w] # None
  /\ LET t == pending[w].trace
         e == pending[w].evt
     IN /\ log' = [log EXCEPT ![t] = Appended(@, e)]
        /\ logged' = [logged EXCEPT ![t] = Append(@, e)]
  /\ pending' = [pending EXCEPT ![w] = None]
  /\ UNCHANGED <<clock, refs>>

LogNext ==
  \/ \E t \in Trace : New(t)
  \/ \E t \in Trace, n \in Requested : SetMaxEvents(t, n)
  \/ \E w \in Writer, t \in Trace : Printf(w, t)
  \/ \E w \in Writer, t, o \in Trace : Link(w, t, o) \/ NewChild(w, t, o)
  \/ \E w \in Writer : append(w)

\* The DROP event that stands for those that are missing, and Events().
DROP(when) == [When |-> when, Ref |-> None, drop |-> TRUE]

Events(t) ==
  LET l == log[t]
  IN IF l.lastEvents = None THEN l.firstEvents
     ELSE l.firstEvents
          \o (IF l.lastEvents.firstDrop # 0
              THEN <<DROP(l.lastEvents.firstDrop)>> ELSE <<>>)
          \o Do(l.lastEvents)

-----------------------------------------------------------------------------
\* Types of the variables.
TypeOK ==
  /\ log \in [Trace -> Log \cup {None}]
  /\ \A t \in Exists :
       LET l == log[t]
       IN /\ l.maxEvents >= MinEvents /\ l.cutoff = l.maxEvents \div 3
          /\ l.lastEvents # None =>
               /\ l.lastEvents.pos < Len(l.lastEvents.evts)
               /\ Len(l.lastEvents.evts) <= l.lastEvents.max
  /\ pending \in [Writer -> [trace : Trace, evt : Event] \cup {None}]
  /\ \A w \in Writer : pending[w] # None => pending[w].trace \in Exists
  /\ clock \in 0 .. MaxLogged
  /\ refs \in 0 .. MaxRefs
  /\ logged \in [Trace -> Seq(Event)]

\* What Events() is for: the whole log while it fits, and otherwise its first
\* third, a DROP and as many of the latest events as there is room for, in the
\* order they were logged, whatever the position of the ring is.
EventsAreFirstAndLast ==
  \A t \in Exists :
    LET s == logged[t]
        n == Len(s)
        l == log[t]
    IN Events(t) =
         IF n <= l.maxEvents THEN s
         ELSE SubSeq(s, 1, l.cutoff) \o <<DROP(s[l.cutoff + 1].When)>>
              \o SubSeq(s, n - (l.maxEvents - l.cutoff) + 1, n)

=============================================================================
