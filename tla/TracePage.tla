------------------------------ MODULE TracePage ------------------------------
(***************************************************************************)
(* internal/nettrace/http.go: the page of one trace in /debug/traces,      *)
(* which gathers the events of the trace and of all the traces its events  *)
(* lead to (allEvents), while goroutines go on logging to them.            *)
(*                                                                         *)
(* Traces may refer to each other and to themselves.  Each trace is locked *)
(* while its own events are copied (Events) and at no other time.          *)
(***************************************************************************)
EXTENDS EventLog, Orders, SequencesExt

ASSUME TracePageAssumption == IsFiniteSet(Trace)

VARIABLES
  view,     \* the handler: "idle", "gather" (appendAllEvents) or "render"
  trace,    \* the trace asked for
  calls,    \* the calls of appendAllEvents that are still to come, in order
  seen,     \* IDs of the traces seen
  evts,     \* the slice of traceAndEvent
  lasting   \* history: per trace, the events in its log from the request on

pageVars == <<view, trace, calls, seen, evts>>
vars == <<logVars, pageVars, lasting>>

Call(t, depth) == [trace |-> t, depth |-> depth]

Init ==
  /\ LogInit
  /\ view = "idle" /\ trace = None
  /\ calls = <<>> /\ seen = {} /\ evts = <<>>
  /\ lasting = [t \in Trace |-> {}]

\* RenderTraces, for a trace that was found.
RenderTraces(t) ==
  /\ view = "idle" /\ t \in Exists
  /\ view' = "gather" /\ trace' = t
  /\ calls' = <<Call(t, 0)>> /\ seen' = {} /\ evts' = <<>>
  /\ UNCHANGED logVars

\* The traces that a list of events refers to, in order and as often.
SubTraces(s) ==
  LET e == Selected(s, {i \in DOMAIN s : s[i].Ref # None})
  IN [i \in 1 .. Len(e) |-> e[i].Ref]

Seen_Ignored(t) == FALSE

Seen(t) == t \in seen

\* appendAllEvents for a trace that was seen, which returns at once ...
AppendNothing ==
  /\ view = "gather" /\ calls # <<>> /\ Seen(Head(calls).trace)
  /\ calls' = Tail(calls)
  /\ UNCHANGED <<logVars, view, trace, seen, evts>>

AppendAllEvents_MarkSubTraces ==
  /\ view = "gather" /\ calls # <<>> /\ ~Seen(Head(calls).trace)
  /\ LET t == Head(calls).trace
         depth == Head(calls).depth
         subs == SubTraces(Events(t))
         new == Selected(subs, {i \in DOMAIN subs : subs[i] \notin seen})
     IN /\ seen' = seen \cup {t} \cup ToSet(new)
        /\ evts' = evts \o [i \in 1 .. Len(Events(t)) |->
             [trace |-> t, evt |-> Events(t)[i], depth |-> depth]]
        /\ calls' = [i \in 1 .. Len(new) |-> Call(new[i], depth + 1)]
                    \o Tail(calls)
  /\ UNCHANGED <<logVars, view, trace>>

\* ... and for another one: it copies its events and then calls itself for the
\* traces that these refer to.
AppendAllEvents ==
  /\ view = "gather" /\ calls # <<>> /\ ~Seen(Head(calls).trace)
  /\ LET t == Head(calls).trace
         depth == Head(calls).depth
         subs == SubTraces(Events(t))
     IN /\ seen' = seen \cup {t}
        /\ evts' = evts \o [i \in 1 .. Len(Events(t)) |->
             [trace |-> t, evt |-> Events(t)[i], depth |-> depth]]
        /\ calls' = [i \in 1 .. Len(subs) |-> Call(subs[i], depth + 1)]
                    \o Tail(calls)
  /\ UNCHANGED <<logVars, view, trace>>

\* By time.  No two lines have the same, so that it does not matter that
\* sort.Slice may put those in any order.
Earlier(s, i, j) ==
  \/ s[i].evt.When < s[j].evt.When
  \/ s[i].evt.When = s[j].evt.When /\ i < j

Sorted(s) ==
  LET order == InOrder(DOMAIN s,
                 {p \in (DOMAIN s) \X (DOMAIN s) : Earlier(s, p[1], p[2])})
  IN [n \in DOMAIN s |-> s[order[n]]]

\* allEvents sorts them, and the page is written.
Sort ==
  /\ view = "gather" /\ calls = <<>>
  /\ view' = "render"
  /\ evts' = Sorted(evts)
  /\ UNCHANGED <<logVars, trace, calls, seen>>

Rendered ==
  /\ view = "render"
  /\ view' = "idle" /\ trace' = None /\ seen' = {} /\ evts' = <<>>
  /\ UNCHANGED <<logVars, calls>>

View ==
  \/ \E t \in Trace : RenderTraces(t)
  \/ AppendNothing \/ AppendAllEvents
  \/ Sort \/ Rendered

InLog(t) == IF t \in Exists THEN ToSet(Events(t)) ELSE {}

NoteLasting ==
  lasting' = [t \in Trace |->
    IF view' = "idle" THEN {}
    ELSE IF view = "idle" THEN InLog(t)
    ELSE lasting[t] \cap InLog(t)']

Next ==
  /\ \/ LogNext /\ UNCHANGED pageVars
     \/ View
  /\ NoteLasting

Spec == Init /\ [][Next]_vars

-----------------------------------------------------------------------------
Shown == Event \cup {DROP(n) : n \in 1 .. MaxLogged}

Line == [trace : Trace, evt : Shown, depth : 0 .. Cardinality(Trace) - 1]

\* Types of the variables, those of the logs included; no trace is nested
\* deeper than there are others.
PageTypeOK ==
  /\ TypeOK
  /\ view \in {"idle", "gather", "render"}
  /\ trace \in Trace \cup {None}
  /\ \A i \in DOMAIN calls :
       calls[i] \in [trace : Trace, depth : 0 .. Cardinality(Trace)]
  /\ seen \subseteq Trace
  /\ evts \in Seq(Line)
  /\ lasting \in [Trace -> SUBSET Shown]

\* No line is gathered twice, also when the traces refer to each other in a
\* circle ("to avoid loops") or by several ways.
ShownOnce ==
  \A i, j \in DOMAIN evts :
    evts[i].trace = evts[j].trace /\ evts[i].evt = evts[j].evt => i = j

\* A rendered page is closed: the trace asked for and each that a
\* line on the page refers to is on it, with all the events that its log had
\* while the page was gathered.
PageComplete ==
  view = "render" =>
    /\ trace \in seen
    /\ \A i \in DOMAIN evts : evts[i].evt.Ref \in seen \cup {None}
    /\ \A t \in seen :
         lasting[t] \subseteq {l.evt : l \in {x \in ToSet(evts) : x.trace = t}}

=============================================================================
