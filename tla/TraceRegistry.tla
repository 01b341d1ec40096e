---------------------------- MODULE TraceRegistry ----------------------------
(***************************************************************************)
(* internal/nettrace: the traces of the process, by family: the active     *)
(* ones, rings of those that finished, by latency, a ring of those with an *)
(* error and a histogram of latencies; and the lookup of a trace for       *)
(* /debug/traces, which runs against goroutines that create and finish     *)
(* traces.                                                                 *)
(*                                                                         *)
(* Each trace is used by one goroutine, as "The trace should not be used   *)
(* after calling this method" of Finish asks.  A step is what happens      *)
(* under one lock.  The log of a trace is reduced to the traces its events *)
(* refer to (EventLog models it).                                          *)
(***************************************************************************)
EXTENDS Orders, FiniteSetsExt, SequencesExt

CONSTANTS
  Trace,           \* trace IDs
  Family,
  Bounds,          \* sequence of the lower bounds of the latency buckets
  TracesInBucket,
  Latencies,       \* bound: latencies that traces may have
  MaxRefs,         \* bound: references that the log of a trace has room for
  Looked,          \* traces that are looked up, in a run that has lookups
  None

NBuckets == Len(Bounds)
Bucket == 0 .. NBuckets - 1

ASSUME TraceRegistryAssumption ==
  /\ Bounds \in Seq(Nat) /\ Len(Bounds) > 0 /\ Bounds[1] = 0
  /\ \A i, j \in 1 .. Len(Bounds) : i < j => Bounds[i] < Bounds[j]
  /\ TracesInBucket \in Nat \ {0}
  /\ Latencies \subseteq Nat /\ MaxRefs \in Nat \ {0}
  /\ Looked \subseteq Trace
  /\ None \notin Trace /\ None \notin Family

VARIABLES
  \* the traces
  stage,      \* how far its goroutine is with it
  Parent,     \* field Parent, None is nil
  parentArg,  \* trace whose NewChild is creating this one
  fam, isError,
  latency,    \* end - Start, which is not negative since Go's clock is monotonic
  refs,       \* traces the events in its log refer to
  \* per family (familyTraces)
  active, finished, errors, latencies,
  \* a lookup by the HTTP handler
  pc, want, via, ref, answer,
  \* history
  done,       \* traces finalized, in order
  sure        \* whether the lookup has to succeed (see LookupSucceeds)

traceVars == <<stage, Parent, parentArg, fam, isError, latency, refs>>
familyVars == <<active, finished, errors, latencies>>
lookupVars == <<pc, want, via, ref, answer>>
vars == <<traceVars, familyVars, lookupVars, done, sure>>

(***************************************************************************)
(* findBucket: the first bucket that starts above the latency ends the     *)
(* search, and it is the one before.                                       *)
(***************************************************************************)
findBucket(d) ==
  LET above == {b \in Bucket : ~(d >= Bounds[b + 1])}
  IN IF above = {} THEN NBuckets - 1 ELSE Min(above) - 1

(***************************************************************************)
(* traceRing, on container/ring: next is the element ring points at, which *)
(* Add overwrites and which Do starts from.                                *)
(***************************************************************************)
newTraceRing ==
  [slots |-> [i \in 0 .. TracesInBucket - 1 |-> None], next |-> 0, l |-> 0]

AddTrace_Stuck(r, t) ==
  [slots |-> [r.slots EXCEPT ![r.next] = t],
   next |-> IF r.l < TracesInBucket THEN (r.next + 1) % TracesInBucket
            ELSE r.next,
   l |-> IF r.l < TracesInBucket THEN r.l + 1 ELSE r.l]

AddTrace_Uncapped(r, t) ==
  [slots |-> [r.slots EXCEPT ![r.next] = t],
   next |-> (r.next + 1) % TracesInBucket,
   l |-> r.l + 1]

AddTrace(r, t) ==
  [slots |-> [r.slots EXCEPT ![r.next] = t],
   next |-> (r.next + 1) % TracesInBucket,
   l |-> IF r.l < TracesInBucket THEN r.l + 1 ELSE r.l]

\* What Do visits, in order.
DoTraces(r) ==
  LET s == [i \in 1 .. TracesInBucket |->
              r.slots[(r.next + i - 1) % TracesInBucket]]
  IN Selected(s, {i \in DOMAIN s : s[i] # None})

InRing(r) == {r.slots[i] : i \in DOMAIN r.slots} \ {None}

(***************************************************************************)
(* histogram.go                                                            *)
(***************************************************************************)
emptyHistogram ==
  [count |-> [b \in Bucket |-> 0], totalQ |-> 0, totalT |-> 0,
   min |-> 0, max |-> 0]

AddLatency_MinFromZero(h, b, d) ==
  [count |-> [h.count EXCEPT ![b] = @ + 1],
   totalQ |-> h.totalQ + 1,
   totalT |-> h.totalT + d,
   min |-> IF h.min > d THEN d ELSE h.min,
   max |-> IF h.max < d THEN d ELSE h.max]

AddLatency(h, b, d) ==
  [count |-> [h.count EXCEPT ![b] = @ + 1],
   totalQ |-> h.totalQ + 1,
   totalT |-> h.totalT + d,
   min |-> IF h.totalQ = 0 \/ h.min > d THEN d ELSE h.min,
   max |-> IF h.max < d THEN d ELSE h.max]

-----------------------------------------------------------------------------
Init ==
  /\ stage = [t \in Trace |-> "none"]
  /\ Parent = [t \in Trace |-> None]
  /\ parentArg = [t \in Trace |-> None]
  /\ fam = [t \in Trace |-> None]
  /\ latency = [t \in Trace |-> 0]
  /\ isError = [t \in Trace |-> FALSE]
  /\ refs = [t \in Trace |-> {}]
  /\ active = [f \in Family |-> {}]
  /\ finished = [f \in Family |-> [b \in Bucket |-> newTraceRing]]
  /\ errors = [f \in Family |-> newTraceRing]
  /\ latencies = [f \in Family |-> emptyHistogram]
  /\ pc = "idle" /\ want = None /\ via = None /\ ref = None /\ answer = None
  /\ done = <<>>
  /\ sure = FALSE

\* A child is being created from t, in the goroutine that t belongs to.
Busy(t) == \E c \in Trace : parentArg[c] = t /\ stage[c] = "child"

Usable(t) == stage[t] = "open" /\ ~Busy(t)

(***************************************************************************)
(* newTrace, which nobody else sees until the lock of the family.  The     *)
(* families map only grows and a new entry of it is empty, so that here    *)
(* every family has its entry from the start.                              *)
(***************************************************************************)
newTrace(t, f, p) ==
  /\ stage[t] = "none"
  /\ active' = [active EXCEPT ![f] = @ \cup {t}]
  /\ fam' = [fam EXCEPT ![t] = f]
  /\ parentArg' = [parentArg EXCEPT ![t] = p]
  /\ stage' = [stage EXCEPT ![t] = IF p = None THEN "open" ELSE "child"]
  /\ UNCHANGED <<Parent, latency, isError, refs, finished, errors, latencies,
                 lookupVars, done>>

New(t, f) == newTrace(t, f, None)

NewChild(t, f, p) == Usable(p) /\ newTrace(t, f, p)

\* What an event that is logged does to the references: it may add one, and
\* it may push another one out of the ring, as it must if there is no room.
Logged(rs, new) ==
  {r \in {(rs \ {gone}) \cup new : gone \in rs \cup {None}} :
     Cardinality(r) <= MaxRefs}

\* The rest of NewChild: the parent pointer, which needs no lock, and the
\* event of the parent.
SetParent(t) ==
  /\ stage[t] = "child" /\ Parent[t] = None
  /\ Parent' = [Parent EXCEPT ![t] = parentArg[t]]
  /\ UNCHANGED <<stage, parentArg, fam, latency, isError, refs, familyVars,
                 lookupVars, done>>

LogChild(t) ==
  /\ stage[t] = "child" /\ Parent[t] # None
  /\ \E rs \in Logged(refs[Parent[t]], {t}) :
       refs' = [refs EXCEPT ![Parent[t]] = rs]
  /\ stage' = [stage EXCEPT ![t] = "open"]
  /\ UNCHANGED <<Parent, parentArg, fam, latency, isError, familyVars,
                 lookupVars, done>>

Link(t, other) ==
  /\ Usable(t) /\ stage[other] \in {"open", "done"}
  /\ \E rs \in Logged(refs[t], {other}) : refs' = [refs EXCEPT ![t] = rs]
  /\ UNCHANGED <<stage, Parent, parentArg, fam, latency, isError,
                 familyVars, lookupVars, done>>

Printf(t) ==
  /\ Usable(t)
  /\ \E rs \in Logged(refs[t], {}) : refs' = [refs EXCEPT ![t] = rs]
  /\ UNCHANGED <<stage, Parent, parentArg, fam, latency, isError,
                 familyVars, lookupVars, done>>

\* SetError, by which Errorf starts.
SetError(t) ==
  /\ Usable(t)
  /\ isError' = [isError EXCEPT ![t] = TRUE]
  /\ UNCHANGED <<stage, Parent, parentArg, fam, latency, refs, familyVars,
                 lookupVars, done>>

\* familyTraces.finalize
finalize(t, d) ==
  LET f == fam[t]
      b == findBucket(d)
  IN /\ active' = [active EXCEPT ![f] = @ \ {t}]
     /\ finished' = [finished EXCEPT ![f][b] = AddTrace(@, t)]
     /\ errors' = IF isError[t] THEN [errors EXCEPT ![f] = AddTrace(@, t)]
                  ELSE errors
     /\ latencies' = [latencies EXCEPT ![f] = AddLatency(@, b, d)]

\* Finish: it sets the end of the trace, which no lookup reads, and finalizes
\* it under the lock of the family.
Finish(t) ==
  /\ Usable(t)
  /\ \E d \in Latencies :
       latency' = [latency EXCEPT ![t] = d] /\ finalize(t, d)
  /\ stage' = [stage EXCEPT ![t] = "done"]
  /\ done' = Append(done, t)
  /\ UNCHANGED <<Parent, parentArg, fam, isError, refs, lookupVars>>

(***************************************************************************)
(* findInFamilies(traceID, refID), by the HTTP handler.                    *)
(***************************************************************************)
find_SkipErrors(t) ==
  LET f == fam[t]
  IN IF f # None
        /\ \/ t \in active[f]
           \/ \E b \in Bucket : t \in InRing(finished[f][b])
     THEN t ELSE None

\* familyTraces.find, which holds the lock of the family all along.
find(t) ==
  LET f == fam[t]
  IN IF f # None
        /\ \/ t \in active[f]
           \/ \E b \in Bucket : t \in InRing(finished[f][b])
           \/ t \in InRing(errors[f])
     THEN t ELSE None

Lookup(t, v) ==
  /\ pc = "idle"
  /\ pc' = "direct" /\ want' = t /\ via' = v /\ ref' = None /\ answer' = None
  /\ UNCHANGED <<traceVars, familyVars, done>>

Return(t) == pc' = "idle" /\ answer' = t /\ ref' = None
Proceed(where) == pc' = where /\ UNCHANGED <<ref, answer>>

FindDirect ==
  /\ pc = "direct"
  /\ IF find(want) # None \/ via = None THEN Return(find(want))
     ELSE Proceed("ref")
  /\ UNCHANGED <<traceVars, familyVars, want, via, done>>

FindRef ==
  /\ pc = "ref"
  /\ IF find(via) = None THEN Return(None)
     ELSE pc' = "parent" /\ ref' = find(via) /\ UNCHANGED answer
  /\ UNCHANGED <<traceVars, familyVars, want, via, done>>

FindParent ==
  /\ pc = "parent"
  /\ IF Parent[ref] = want THEN Return(want) ELSE Proceed("events")
  /\ UNCHANGED <<traceVars, familyVars, want, via, done>>

FindInEvents ==
  /\ pc = "events"
  /\ Return(IF want \in refs[ref] THEN want ELSE None)
  /\ UNCHANGED <<traceVars, familyVars, want, via, done>>

\* The trace is kept, or it is the parent of, or referred to by, one that is.
Kept(t) ==
  \E f \in Family :
    t \in active[f] \cup InRing(errors[f])
           \cup UNION {InRing(finished[f][b]) : b \in Bucket}
Reachable(t, v) ==
  \/ Kept(t)
  \/ v # None /\ Kept(v) /\ (parentArg[v] = t \/ t \in refs[v])

\* History: whether that has been so since the lookup started.
NoteReachable ==
  sure' = IF pc' = "idle" THEN sure
          ELSE Reachable(want, via)' /\ (pc = "idle" \/ sure)

TraceStep(t) ==
  \/ \E f \in Family : New(t, f)
  \/ \E f \in Family, p \in Trace : NewChild(t, f, p)
  \/ SetParent(t) \/ LogChild(t)
  \/ \E o \in Trace : Link(t, o)
  \/ Printf(t) \/ SetError(t) \/ Finish(t)

LookupStep ==
  \/ \E t \in Looked, v \in Trace \cup {None} : Lookup(t, v)
  \/ FindDirect \/ FindRef \/ FindParent \/ FindInEvents

Next ==
  /\ \/ \E t \in Trace : TraceStep(t)
     \/ LookupStep
  /\ NoteReachable

Spec == Init /\ [][Next]_vars

-----------------------------------------------------------------------------
Ring == [slots : [0 .. TracesInBucket - 1 -> Trace \cup {None}],
         next : 0 .. TracesInBucket - 1, l : 0 .. TracesInBucket]

\* Types of the variables.
TypeOK ==
  /\ stage \in [Trace -> {"none", "child", "open", "done"}]
  /\ Parent \in [Trace -> Trace \cup {None}]
  /\ parentArg \in [Trace -> Trace \cup {None}]
  /\ fam \in [Trace -> Family \cup {None}]
  /\ latency \in [Trace -> Latencies \cup {0}]
  /\ isError \in [Trace -> BOOLEAN]
  /\ refs \in [Trace -> SUBSET Trace]
  /\ active \in [Family -> SUBSET Trace]
  /\ finished \in [Family -> [Bucket -> Ring]]
  /\ errors \in [Family -> Ring]
  /\ latencies \in [Family -> [count : [Bucket -> Nat], totalQ : Nat,
                               totalT : Nat, min : Nat, max : Nat]]
  /\ pc \in {"idle", "direct", "ref", "parent", "events"}
  /\ want \in Trace \cup {None} /\ via \in Trace \cup {None}
  /\ ref \in Trace \cup {None} /\ answer \in Trace \cup {None}
  /\ done \in Seq(Trace)
  /\ sure \in BOOLEAN

\* Whether a finished trace belongs to a bucket ("Traces with a latency >=
\* $duration").
Belongs(t, b) ==
  /\ latency[t] >= Bounds[b + 1]
  /\ b + 1 < NBuckets => latency[t] < Bounds[b + 2]

\* The traces that finished, of family f and in bucket b or with an error.
DoneIn(f, b) ==
  Selected(done, {i \in DOMAIN done : fam[done[i]] = f /\ Belongs(done[i], b)})
DoneWithError(f) ==
  Selected(done, {i \in DOMAIN done : fam[done[i]] = f /\ isError[done[i]]})

Latest(s) == SubSeq(s, Max({1, Len(s) - TracesInBucket + 1}), Len(s))

\* Every bucket shows the latest traces of the family whose latency belongs to
\* it, and errors the latest ones with an error, in the order they finished:
\* a burst of quick or successful traces does not push out slow or failed ones.
RingsKeepLatest ==
  \A f \in Family :
    /\ \A b \in Bucket :
         /\ DoTraces(finished[f][b]) = Latest(DoneIn(f, b))
         /\ finished[f][b].l = Len(DoTraces(finished[f][b]))
    /\ DoTraces(errors[f]) = Latest(DoneWithError(f))

\* A unit of time for each one that the traces took.
Spent(ts) == UNION {{t} \X (1 .. latency[t]) : t \in ts}

\* The histogram counts every finished trace once, in the bucket of its
\* latency, also those the rings have dropped; its minimum is that of the
\* latencies and not the zero it starts from.
HistogramExact ==
  \A f \in Family :
    LET ts == {t \in ToSet(done) : fam[t] = f}
        h == latencies[f]
    IN /\ h.totalQ = Cardinality(ts)
       /\ \A b \in Bucket : h.count[b] = Cardinality({t \in ts : Belongs(t, b)})
       /\ h.totalT = Cardinality(Spent(ts))
       /\ ts # {} => /\ h.min = Min({latency[t] : t \in ts})
                     /\ h.max = Max({latency[t] : t \in ts})

\* A lookup finds a trace that can be reached all the time it runs, although
\* the trace, its parent and its children go on being created, logged to,
\* finished and pushed out of their rings between its steps.
LookupSucceeds == pc = "idle" /\ want # None /\ sure => answer = want

=============================================================================
