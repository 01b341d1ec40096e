-------------------------- MODULE TraceRegistryProofs --------------------------
(***************************************************************************)
(* Theorems about the registry of traces, for any number of traces,        *)
(* families and buckets and any size of the rings.                         *)
(*                                                                         *)
(* RegistryInv says how the stage of a trace, its family's tables and the  *)
(* traces it refers to belong together.  On it rest what the rings show    *)
(* (RingHolds: the place of every trace in a ring), what the histogram     *)
(* counts and what a lookup knows between two of its steps (LookupKnows).  *)
(***************************************************************************)
EXTENDS TraceRegistry, OrderTheorems

-----------------------------------------------------------------------------
(***************************************************************************)
(* Numbers.                                                                *)
(***************************************************************************)
\* The least and the greatest element of a finite set of numbers.
LEMMA MinIs ==
  ASSUME NEW S \in SUBSET Int, IsFiniteSet(S), S # {}
  PROVE  Min(S) \in S /\ \A y \in S : Min(S) <= y
<1> DEFINE N == Cardinality(S)
           q == Increasing(S)
<1>1. /\ q \in [1 .. N -> S]
      /\ \A x \in S : \E n \in 1 .. N : q[n] = x
      /\ \A i, j \in 1 .. N : i < j => q[i] < q[j]
  BY IncreasingLists
<1>2. N \in Nat
  BY FS_CardinalityType
<1> HIDE DEF N, q
<1>3. 1 \in 1 .. N
  <2>1. PICK x \in S : TRUE
    OBVIOUS
  <2>2. PICK n \in 1 .. N : q[n] = x
    BY <1>1
  <2> QED
    BY <1>2, <2>2
<1>4. q[1] \in S
  BY <1>1, <1>3
<1>5. ASSUME NEW y \in S
      PROVE  q[1] <= y
  <2>1. PICK n \in 1 .. N : q[n] = y
    BY <1>1
  <2>2. n = 1 \/ q[1] < q[n]
    BY <1>1, <1>2, <1>3
  <2>3. q[n] \in Int /\ q[1] \in Int
    BY <1>4, <2>1
  <2> QED
    BY <2>1, <2>2, <2>3
<1> QED
  BY <1>4, <1>5 DEF Min

\* Max, of the community modules, is the greatest element of a finite set.
LEMMA MaxIs ==
  ASSUME NEW S \in SUBSET Int, IsFiniteSet(S), S # {}
  PROVE  Max(S) \in S /\ \A y \in S : Max(S) >= y
<1> DEFINE N == Cardinality(S)
           q == Increasing(S)
<1>1. /\ q \in [1 .. N -> S]
      /\ \A x \in S : \E n \in 1 .. N : q[n] = x
      /\ \A i, j \in 1 .. N : i < j => q[i] < q[j]
  BY IncreasingLists
<1>2. N \in Nat
  BY FS_CardinalityType
<1> HIDE DEF N, q
<1>3. N \in 1 .. N
  <2>1. PICK x \in S : TRUE
    OBVIOUS
  <2>2. PICK n \in 1 .. N : q[n] = x
    BY <1>1
  <2> QED
    BY <1>2, <2>2
<1>4. q[N] \in S
  BY <1>1, <1>3
<1>5. ASSUME NEW y \in S
      PROVE  q[N] >= y
  <2>1. PICK n \in 1 .. N : q[n] = y
    BY <1>1
  <2>2. n = N \/ q[n] < q[N]
    BY <1>1, <1>2, <1>3
  <2>3. q[n] \in Int /\ q[N] \in Int
    BY <1>4, <2>1
  <2> QED
    BY <2>1, <2>2, <2>3
<1> QED
  BY <1>4, <1>5 DEF Max

\* What the remainder of a sum of two numbers within a ring is.
LEMMA RoundOnce ==
  ASSUME NEW m \in Nat \ {0}, NEW a \in Nat, a < 2 * m
  PROVE  a % m = IF a < m THEN a ELSE a - m
<1>1. CASE a < m
  BY <1>1
<1>2. CASE a >= m
  <2> DEFINE b == a - m
  <2>1. b \in Nat /\ b < m /\ a = b + m
    BY <1>2
  <2>2. b % m = b
    BY <2>1
  <2>3. (b + m) % m = b % m
    BY <2>1
  <2> QED
    BY <1>2, <2>1, <2>2, <2>3
<1> QED
  BY <1>1, <1>2

\* Every latency belongs to the bucket that findBucket finds, and to no other.
LEMMA BucketIs ==
  ASSUME NEW d \in Nat
  PROVE  /\ findBucket(d) \in Bucket
         /\ \A b \in Bucket :
              (d >= Bounds[b + 1] /\ (b + 1 < NBuckets => d < Bounds[b + 2]))
                <=> b = findBucket(d)
<1> DEFINE above == {b \in Bucket : ~(d >= Bounds[b + 1])}
           N == NBuckets
<1>1. /\ N \in Nat /\ N > 0 /\ Bounds[1] = 0
      /\ Bucket = 0 .. N - 1
      /\ \A i \in 1 .. N : Bounds[i] \in Nat
      /\ \A i, j \in 1 .. N : i < j => Bounds[i] < Bounds[j]
  BY TraceRegistryAssumption DEF NBuckets, Bucket
<1>2. \A b \in Bucket : b \in Nat /\ b + 1 \in 1 .. N
  BY <1>1
<1>3. above \in SUBSET Int /\ IsFiniteSet(above)
  <2>1. IsFiniteSet(Bucket) /\ above \in SUBSET Bucket
    BY <1>1, FS_Interval
  <2> QED
    BY <1>2, <2>1, FS_Subset
<1>4. CASE above = {}
  <2>1. findBucket(d) = N - 1
    BY <1>4 DEF findBucket
  <2>2. \A b \in Bucket : d >= Bounds[b + 1]
    BY <1>4
  <2>3. ASSUME NEW b \in Bucket, b + 1 < N
        PROVE  ~(d < Bounds[b + 2])
    <3>1. b + 1 \in Bucket /\ (b + 1) + 1 = b + 2 /\ b + 2 \in 1 .. N
      BY <1>1, <2>3
    <3> QED
      <4>1. d >= Bounds[(b + 1) + 1]
        BY <2>2, <3>1
      <4> QED
        BY <1>1, <3>1, <4>1
  <2> HIDE DEF above, N
  <2> QED
    BY <1>1, <1>2, <2>1, <2>2, <2>3 DEF N
<1>5. CASE above # {}
  <2>1. PICK m : m = Min(above)
    OBVIOUS
  <2> HIDE DEF above
  <2>2. m \in above /\ \A y \in above : m <= y
    BY <1>3, <1>5, <2>1, MinIs
  <2>3. m \in Bucket /\ d < Bounds[m + 1] /\ m # 0
    BY <1>1, <1>2, <2>2 DEF above
  <2>4. findBucket(d) = m - 1
    BY <1>5, <2>1 DEF findBucket, above
  <2>5. ASSUME NEW b \in Bucket, b < m
        PROVE  d >= Bounds[b + 1]
    <3>1. b \notin above
      BY <1>2, <2>2, <2>3, <2>5
    <3> QED
      BY <3>1 DEF above
  <2>6. ASSUME NEW b \in Bucket, b >= m
        PROVE  ~(d >= Bounds[b + 1])
    <3>1. b = m \/ Bounds[m + 1] < Bounds[b + 1]
      BY <1>1, <1>2, <2>3, <2>6
    <3> QED
      BY <1>1, <1>2, <2>3, <3>1
  <2>7. ASSUME NEW b \in Bucket, b < m - 1
        PROVE  b + 1 < N /\ ~(d < Bounds[b + 2])
    <3>1. /\ b + 1 \in Bucket /\ b + 1 < m /\ (b + 1) + 1 = b + 2
          /\ b + 2 \in 1 .. N /\ b + 1 < N
      BY <1>1, <2>3, <2>7
    <3> QED
      BY <1>1, <2>5, <3>1
  <2>8. m - 1 \in Bucket /\ (m - 1) + 2 = m + 1
    BY <1>1, <2>3
  <2> QED
    <3> HIDE DEF N
    <3>1. ASSUME NEW b \in Bucket
          PROVE  (d >= Bounds[b + 1] /\ (b + 1 < NBuckets => d < Bounds[b + 2]))
                   <=> b = m - 1
      <4>1. CASE b < m - 1
        BY <1>1, <1>2, <2>3, <2>7, <4>1 DEF N
      <4>2. CASE b = m - 1
        <5>1. d >= Bounds[b + 1]
          BY <1>2, <2>3, <2>5, <2>8, <4>2
        <5>2. d < Bounds[b + 2]
          BY <2>3, <2>8, <4>2
        <5> QED
          BY <4>2, <5>1, <5>2
      <4>3. CASE b >= m
        BY <1>1, <1>2, <2>3, <2>6, <4>3
      <4> QED
        BY <1>2, <2>3, <4>1, <4>2, <4>3
    <3> QED
      BY <2>4, <2>8, <3>1
<1> QED
  BY <1>4, <1>5

-----------------------------------------------------------------------------
(***************************************************************************)
(* The registry.                                                           *)
(***************************************************************************)
\* A trace that exists belongs to a family; a child becomes usable once it has
\* its parent, and until then the parent is not finished.
StagesOK ==
  /\ \A t \in Trace : stage[t] # "none" => fam[t] \in Family
  /\ \A t \in Trace : stage[t] = "none" => parentArg[t] = None
  /\ \A t \in Trace : stage[t] \in {"none", "child"} => refs[t] = {}
  /\ \A t \in Trace : Parent[t] = None \/ Parent[t] = parentArg[t]
  /\ \A t \in Trace :
       stage[t] \in {"open", "done"} => Parent[t] = parentArg[t]
  /\ \A t \in Trace :
       stage[t] = "child" =>
         parentArg[t] \in Trace /\ stage[parentArg[t]] = "open"

\* Parents and references are to traces that exist.
RefsOK ==
  \A t \in Trace :
    /\ parentArg[t] # None => stage[parentArg[t]] # "none"
    /\ \A r \in refs[t] : stage[r] # "none"

ActiveOK ==
  \A f \in Family :
    active[f] = {t \in Trace : stage[t] \in {"child", "open"} /\ fam[t] = f}

\* Every finished trace was finalized once.
DoneOK ==
  /\ \A i, j \in 1 .. Len(done) : i # j => done[i] # done[j]
  /\ \A i \in 1 .. Len(done) : stage[done[i]] = "done"
  /\ \A t \in Trace :
       stage[t] = "done" => \E i \in 1 .. Len(done) : done[i] = t

\* The rings of a family hold finished traces of it.
Finished(f) == {t \in Trace : stage[t] = "done" /\ fam[t] = f}
RingsOK ==
  \A f \in Family :
    /\ \A b \in Bucket : InRing(finished[f][b]) \in SUBSET Finished(f)
    /\ InRing(errors[f]) \in SUBSET Finished(f)

RegistryInv == TypeOK /\ StagesOK /\ RefsOK /\ ActiveOK /\ DoneOK /\ RingsOK

\* The actions of a trace, the two ways to create one as one.
Created(t, f, p) == (p = None \/ Usable(p)) /\ newTrace(t, f, p)

\* Next, action by action, with what is known of the bound variables.
LEMMA StepIs ==
  ASSUME Next
  PROVE  /\ NoteReachable
         /\ \/ \E t \in Trace, f \in Family, p \in Trace \cup {None} :
                 Created(t, f, p)
            \/ \E t \in Trace :
                 \/ SetParent(t) \/ LogChild(t)
                 \/ \E o \in Trace : Link(t, o)
                 \/ Printf(t) \/ SetError(t) \/ Finish(t)
            \/ LookupStep
<1>1. ASSUME NEW t \in Trace, NEW f \in Family, New(t, f)
      PROVE  Created(t, f, None)
  BY <1>1 DEF New, Created
<1>2. ASSUME NEW t \in Trace, NEW f \in Family, NEW p \in Trace,
             NewChild(t, f, p)
      PROVE  Created(t, f, p)
  BY <1>2 DEF NewChild, Created
<1> QED
  BY <1>1, <1>2, Zenon DEF Next, TraceStep

\* An event leaves no reference that was not there or is not its own.
LEMMA LoggedIs ==
  ASSUME NEW rs \in SUBSET Trace, NEW new \in SUBSET Trace,
         NEW r \in Logged(rs, new)
  PROVE  r \in SUBSET (rs \cup new)
BY DEF Logged

\* A ring with a trace added to it is a ring, of which the trace is the only
\* new element.
LEMMA AddTraceIs ==
  ASSUME NEW r \in Ring, NEW t \in Trace
  PROVE  /\ AddTrace(r, t) \in Ring
         /\ InRing(AddTrace(r, t)) \in SUBSET (InRing(r) \cup {t})
<1>1. TracesInBucket \in Nat \ {0}
  BY TraceRegistryAssumption
<1>2. /\ r.slots \in [0 .. TracesInBucket - 1 -> Trace \cup {None}]
      /\ r.next \in 0 .. TracesInBucket - 1
      /\ r.l \in 0 .. TracesInBucket
  BY DEF Ring
<1> DEFINE a == AddTrace(r, t)
<1>3. /\ a.slots = [r.slots EXCEPT ![r.next] = t]
      /\ a.next = (r.next + 1) % TracesInBucket
      /\ a.l = IF r.l < TracesInBucket THEN r.l + 1 ELSE r.l
      /\ a = [slots |-> a.slots, next |-> a.next, l |-> a.l]
  BY DEF AddTrace
<1> HIDE DEF a
<1>4. a.slots \in [0 .. TracesInBucket - 1 -> Trace \cup {None}]
  BY <1>2, <1>3
<1>5. a.next \in 0 .. TracesInBucket - 1
  BY <1>1, <1>2, <1>3
<1>6. a.l \in 0 .. TracesInBucket
  BY <1>1, <1>2, <1>3
<1>7. a \in Ring
  BY <1>3, <1>4, <1>5, <1>6, Zenon DEF Ring
<1>8. InRing(a) \in SUBSET (InRing(r) \cup {t})
  BY <1>2, <1>3 DEF InRing
<1> QED
  BY <1>7, <1>8 DEF a

\* newTraceRing makes a ring, with no trace in it.
LEMMA NewRingIs == newTraceRing \in Ring /\ InRing(newTraceRing) = {}
<1>1. TracesInBucket \in Nat \ {0}
  BY TraceRegistryAssumption
<1>2. newTraceRing \in Ring
  BY <1>1 DEF newTraceRing, Ring
<1>3. \A i \in DOMAIN newTraceRing.slots : newTraceRing.slots[i] = None
  BY DEF newTraceRing
<1> QED
  BY <1>2, <1>3 DEF InRing

\* The invariant holds in the families that newFamilyTraces makes.
LEMMA InitRegistry == Init => RegistryInv
<1> SUFFICES ASSUME Init PROVE RegistryInv
  OBVIOUS
<1> USE DEF Init
<1>1. TypeOK
  <2>1. finished \in [Family -> [Bucket -> Ring]] /\ errors \in [Family -> Ring]
    BY NewRingIs
  <2>2. latencies \in [Family -> [count : [Bucket -> Nat], totalQ : Nat,
                                  totalT : Nat, min : Nat, max : Nat]]
    BY DEF emptyHistogram
  <2>3. done \in Seq(Trace)
    OBVIOUS
  <2> QED
    BY <2>1, <2>2, <2>3 DEF TypeOK
<1>2. StagesOK
  BY DEF StagesOK
<1>3. RefsOK
  BY DEF RefsOK
<1>4. ActiveOK
  BY DEF ActiveOK
<1>5. DoneOK
  BY DEF DoneOK
<1>6. RingsOK
  BY NewRingIs DEF RingsOK
<1> QED
  BY <1>1, <1>2, <1>3, <1>4, <1>5, <1>6 DEF RegistryInv

\* sure stays a truth value, whatever the step.
LEMMA SureType ==
  ASSUME sure \in BOOLEAN, NoteReachable
  PROVE  sure' \in BOOLEAN
BY DEF NoteReachable

\* newTrace, for New and for NewChild: the trace is open and active, and
\* nothing refers to it yet.
LEMMA CreatedKeeps ==
  ASSUME RegistryInv, NoteReachable,
         NEW t \in Trace, NEW f \in Family, NEW p \in Trace \cup {None},
         Created(t, f, p)
  PROVE  RegistryInv'
<1> USE TraceRegistryAssumption DEF RegistryInv, Created, newTrace
<1>1. TypeOK'
  <2>1. sure' \in BOOLEAN
    BY SureType DEF TypeOK
  <2> QED
    BY <2>1 DEF TypeOK, lookupVars
<1>2. /\ stage[t] = "none" /\ t # p
      /\ p # None => p \in Trace /\ stage[p] = "open"
      /\ stage' = [stage EXCEPT ![t] = IF p = None THEN "open" ELSE "child"]
      /\ parentArg' = [parentArg EXCEPT ![t] = p]
      /\ fam' = [fam EXCEPT ![t] = f]
      /\ UNCHANGED <<Parent, refs>>
  BY DEF Usable
<1>3. StagesOK'
  <2>1. Parent[t] = None
    BY <1>2 DEF StagesOK, TypeOK
  <2>2. refs[t] = {}
    BY <1>2 DEF StagesOK, TypeOK
  <2> QED
    BY <1>2, <2>1, <2>2 DEF StagesOK, TypeOK
<1>4. RefsOK'
  BY <1>2 DEF RefsOK, TypeOK
<1>5. ActiveOK'
  <2> SUFFICES ASSUME NEW g \in Family
               PROVE  active'[g] = {u \in Trace :
                         stage'[u] \in {"child", "open"} /\ fam'[u] = g}
    BY DEF ActiveOK
  <2>1. active[g] = {u \in Trace :
                       stage[u] \in {"child", "open"} /\ fam[u] = g}
    BY DEF ActiveOK
  <2>2. active'[g] = IF g = f THEN active[g] \cup {t} ELSE active[g]
    BY DEF TypeOK
  <2>3. /\ stage'[t] \in {"child", "open"} /\ fam'[t] = f
        /\ stage[t] \notin {"child", "open"}
        /\ \A u \in Trace : u # t => stage'[u] = stage[u] /\ fam'[u] = fam[u]
    BY <1>2 DEF TypeOK
  <2> QED
    BY <2>1, <2>2, <2>3
<1>6. DoneOK'
  <2>1. \A i \in 1 .. Len(done) : done[i] \in Trace
    BY DEF TypeOK
  <2> QED
    BY <1>2, <2>1 DEF DoneOK, TypeOK
<1>7. RingsOK'
  <2>1. \A g \in Family : Finished(g)' = Finished(g)
    BY <1>2 DEF Finished, TypeOK
  <2> QED
    BY <2>1 DEF RingsOK
<1> QED
  BY <1>1, <1>3, <1>4, <1>5, <1>6, <1>7

\* What keeps the stages and families of the traces keeps the tables.
LEMMA TablesKept ==
  ASSUME RegistryInv, NoteReachable,
         UNCHANGED <<parentArg, fam, latency, familyVars, lookupVars, done>>,
         NEW t \in Trace,
         \/ stage' = stage
         \/ stage[t] = "child" /\ stage' = [stage EXCEPT ![t] = "open"],
         Parent' \in [Trace -> Trace \cup {None}],
         isError' \in [Trace -> BOOLEAN], refs' \in [Trace -> SUBSET Trace]
  PROVE  TypeOK' /\ ActiveOK' /\ DoneOK' /\ RingsOK'
<1> USE DEF RegistryInv
<1>1. TypeOK'
  <2>1. sure' \in BOOLEAN
    BY SureType DEF TypeOK
  <2> QED
    BY <2>1 DEF TypeOK, familyVars, lookupVars
<1>2. \A u \in Trace : /\ stage'[u] = "done" <=> stage[u] = "done"
                       /\ stage'[u] \in {"child", "open"}
                            <=> stage[u] \in {"child", "open"}
  BY DEF TypeOK
<1>3. ActiveOK'
  BY <1>2 DEF ActiveOK, familyVars
<1>4. DoneOK'
  <2>1. \A i \in 1 .. Len(done) : done[i] \in Trace
    BY DEF TypeOK
  <2> QED
    BY <1>2, <2>1 DEF DoneOK
<1>5. RingsOK'
  <2>1. \A g \in Family : Finished(g)' = Finished(g)
    BY <1>2 DEF Finished
  <2> QED
    BY <2>1 DEF RingsOK, familyVars
<1> QED
  BY <1>1, <1>3, <1>4, <1>5

\* NewChild sets the parent of the trace that it has just created.
LEMMA SetParentKeeps ==
  ASSUME RegistryInv, NoteReachable, NEW t \in Trace, SetParent(t)
  PROVE  RegistryInv'
<1>1. /\ stage[t] = "child"
      /\ Parent' = [Parent EXCEPT ![t] = parentArg[t]]
      /\ UNCHANGED <<stage, parentArg, fam, latency, isError, refs,
                     familyVars, lookupVars, done>>
  BY DEF SetParent
<1>2. TypeOK' /\ ActiveOK' /\ DoneOK' /\ RingsOK'
  <2>1. /\ Parent' \in [Trace -> Trace \cup {None}]
        /\ isError' \in [Trace -> BOOLEAN] /\ refs' \in [Trace -> SUBSET Trace]
    BY <1>1 DEF RegistryInv, TypeOK
  <2>2. UNCHANGED <<parentArg, fam, latency, familyVars, lookupVars, done>>
    BY <1>1
  <2> QED
    BY <1>1, <2>1, <2>2, TablesKept, Zenon
<1>3. StagesOK'
  BY <1>1 DEF StagesOK, RegistryInv, TypeOK
<1>4. RefsOK'
  BY <1>1 DEF RefsOK, RegistryInv
<1> QED
  BY <1>2, <1>3, <1>4 DEF RegistryInv

\* NewChild logs the child to the parent: an append, which may drop a reference.
LEMMA LogChildKeeps ==
  ASSUME RegistryInv, NoteReachable, NEW t \in Trace, LogChild(t)
  PROVE  RegistryInv'
<1> DEFINE p == Parent[t]
<1>1. PICK rs \in Logged(refs[p], {t}) : refs' = [refs EXCEPT ![p] = rs]
  BY Zenon DEF LogChild
<1>2. /\ stage[t] = "child" /\ p # None
      /\ stage' = [stage EXCEPT ![t] = "open"]
      /\ UNCHANGED <<Parent, parentArg, fam, latency, isError,
                     familyVars, lookupVars, done>>
  BY DEF LogChild
<1>3. p = parentArg[t] /\ p \in Trace /\ stage[p] = "open"
  BY <1>2 DEF RegistryInv, StagesOK
<1>4. rs \in SUBSET (refs[p] \cup {t}) /\ rs \in SUBSET Trace
  <2>1. refs[p] \in SUBSET Trace
    BY <1>3 DEF RegistryInv, TypeOK
  <2> QED
    BY <2>1, LoggedIs
<1> HIDE DEF p
<1>5. TypeOK' /\ ActiveOK' /\ DoneOK' /\ RingsOK'
  <2>1. /\ Parent' \in [Trace -> Trace \cup {None}]
        /\ isError' \in [Trace -> BOOLEAN] /\ refs' \in [Trace -> SUBSET Trace]
    BY <1>1, <1>2, <1>4 DEF RegistryInv, TypeOK
  <2>2. UNCHANGED <<parentArg, fam, latency, familyVars, lookupVars, done>>
    BY <1>2
  <2> QED
    BY <1>2, <2>1, <2>2, TablesKept, Zenon
<1>6. StagesOK'
  <2>1. Parent[t] = parentArg[t]
    BY <1>3 DEF p
  <2>2. t # p
    BY <1>2, <1>3
  <2> QED
    BY <1>1, <1>2, <1>3, <2>1, <2>2 DEF StagesOK, RegistryInv, TypeOK
<1>7. RefsOK'
  <2> SUFFICES ASSUME NEW u \in Trace
               PROVE  /\ parentArg[u] # None => stage'[parentArg[u]] # "none"
                      /\ \A r \in refs'[u] : stage'[r] # "none"
    BY <1>2 DEF RefsOK
  <2>1. \A v \in Trace : stage[v] # "none" => stage'[v] # "none"
    BY <1>2 DEF RegistryInv, TypeOK
  <2>2. parentArg[u] # None => stage'[parentArg[u]] # "none"
    BY <2>1 DEF RegistryInv, RefsOK, TypeOK
  <2>3. \A r \in refs'[u] : r \in refs[u] \/ r = t
    BY <1>1, <1>3, <1>4 DEF RegistryInv, TypeOK
  <2>4. \A r \in refs[u] : r \in Trace /\ stage[r] # "none"
    BY DEF RegistryInv, RefsOK, TypeOK
  <2>5. stage'[t] # "none"
    BY <1>2, <2>1
  <2> QED
    BY <2>1, <2>2, <2>3, <2>4, <2>5
<1> QED
  BY <1>5, <1>6, <1>7 DEF RegistryInv

\* Logging, to a trace in use, an event that may refer to one that exists.
LEMMA LoggingKeeps ==
  ASSUME RegistryInv, NoteReachable, NEW t \in Trace, Usable(t),
         NEW new \in SUBSET Trace, \A x \in new : stage[x] # "none",
         \E rs \in Logged(refs[t], new) : refs' = [refs EXCEPT ![t] = rs],
         UNCHANGED <<stage, Parent, parentArg, fam, latency, isError,
                     familyVars, lookupVars, done>>
  PROVE  RegistryInv'
<1>1. PICK rs \in Logged(refs[t], new) : refs' = [refs EXCEPT ![t] = rs]
  OBVIOUS
<1>2. rs \in SUBSET (refs[t] \cup new) /\ rs \in SUBSET Trace
  <2>1. refs[t] \in SUBSET Trace
    BY DEF RegistryInv, TypeOK
  <2> QED
    BY <2>1, LoggedIs
<1>3. TypeOK' /\ ActiveOK' /\ DoneOK' /\ RingsOK'
  <2>1. /\ Parent' \in [Trace -> Trace \cup {None}]
        /\ isError' \in [Trace -> BOOLEAN] /\ refs' \in [Trace -> SUBSET Trace]
    BY <1>1, <1>2 DEF RegistryInv, TypeOK
  <2>2. UNCHANGED <<parentArg, fam, latency, familyVars, lookupVars, done>>
    OBVIOUS
  <2> QED
    BY <2>1, <2>2, TablesKept, Zenon
<1>4. StagesOK'
  <2>1. stage[t] = "open"
    BY DEF Usable
  <2> QED
    BY <1>1, <2>1 DEF StagesOK, RegistryInv, TypeOK
<1>5. RefsOK'
  <2>1. \A u \in Trace : \A r \in refs'[u] : r \in refs[u] \/ r \in new
    BY <1>1, <1>2 DEF RegistryInv, TypeOK
  <2> QED
    BY <2>1 DEF RegistryInv, RefsOK
<1> QED
  BY <1>3, <1>4, <1>5 DEF RegistryInv

\* SetError of an open trace.
LEMMA SetErrorKeeps ==
  ASSUME RegistryInv, NoteReachable, NEW t \in Trace, SetError(t)
  PROVE  RegistryInv'
<1>1. /\ isError' = [isError EXCEPT ![t] = TRUE]
      /\ UNCHANGED <<stage, Parent, parentArg, fam, latency, refs,
                     familyVars, lookupVars, done>>
  BY DEF SetError
<1>2. TypeOK' /\ ActiveOK' /\ DoneOK' /\ RingsOK'
  <2>1. /\ Parent' \in [Trace -> Trace \cup {None}]
        /\ isError' \in [Trace -> BOOLEAN] /\ refs' \in [Trace -> SUBSET Trace]
    BY <1>1 DEF RegistryInv, TypeOK
  <2>2. UNCHANGED <<parentArg, fam, latency, familyVars, lookupVars, done>>
    BY <1>1
  <2> QED
    BY <1>1, <2>1, <2>2, TablesKept, Zenon
<1> QED
  BY <1>1, <1>2 DEF RegistryInv, StagesOK, RefsOK

\* The changes of Finish, with the latency that it takes.
Finishes(t, d) ==
  /\ Usable(t) /\ d \in Latencies
  /\ latency' = [latency EXCEPT ![t] = d]
  /\ finalize(t, d)
  /\ stage' = [stage EXCEPT ![t] = "done"]
  /\ done' = Append(done, t)
  /\ UNCHANGED <<Parent, parentArg, fam, isError, refs, lookupVars>>

\* Finish, with the latency that it measures as a witness.
LEMMA FinishIs ==
  ASSUME NEW t \in Trace, Finish(t)
  PROVE  \E d \in Latencies : Finishes(t, d)
BY DEF Finish, Finishes

\* What finalize does to the tables of the family of the trace and of others.
Finalized(t, c, d, f) ==
  /\ active'[f] = IF f = fam[t] THEN active[f] \ {t} ELSE active[f]
  /\ \A b \in Bucket :
       finished'[f][b] = IF f = fam[t] /\ b = c
                         THEN AddTrace(finished[f][b], t) ELSE finished[f][b]
  /\ errors'[f] = IF f = fam[t] /\ isError[t]
                  THEN AddTrace(errors[f], t) ELSE errors[f]
  /\ latencies'[f] = IF f = fam[t] THEN AddLatency(latencies[f], c, d)
                     ELSE latencies[f]

\* What finalize does to the family of the trace, and that it leaves the other
\* families alone.
LEMMA FinalizeIs ==
  ASSUME RegistryInv, NEW t \in Trace, NEW d \in Latencies, Finishes(t, d)
  PROVE  /\ fam[t] \in Family /\ findBucket(d) \in Bucket
         /\ finished' \in [Family -> [Bucket -> Ring]]
         /\ errors' \in [Family -> Ring]
         /\ \A f \in Family : Finalized(t, findBucket(d), d, f)
<1> USE DEF RegistryInv
<1> DEFINE g == fam[t]
           c == findBucket(d)
<1>1. stage[t] = "open" /\ g \in Family
  BY DEF Finishes, Usable, StagesOK
<1>2. c \in Bucket
  <2>1. d \in Nat
    BY TraceRegistryAssumption
  <2> QED
    BY <2>1, BucketIs
<1>3. /\ active' = [active EXCEPT ![g] = @ \ {t}]
      /\ finished' = [finished EXCEPT ![g][c] = AddTrace(@, t)]
      /\ errors' = IF isError[t] THEN [errors EXCEPT ![g] = AddTrace(@, t)]
                   ELSE errors
      /\ latencies' = [latencies EXCEPT ![g] = AddLatency(@, c, d)]
  BY DEF Finishes, finalize
<1> HIDE DEF g, c
<1>4. /\ active \in [Family -> SUBSET Trace]
      /\ finished \in [Family -> [Bucket -> Ring]]
      /\ errors \in [Family -> Ring]
      /\ DOMAIN latencies = Family
  BY DEF TypeOK
<1>5. AddTrace(finished[g][c], t) \in Ring /\ AddTrace(errors[g], t) \in Ring
  BY <1>1, <1>2, <1>4, AddTraceIs
<1>6. /\ finished' \in [Family -> [Bucket -> Ring]]
      /\ errors' \in [Family -> Ring]
  BY <1>1, <1>2, <1>3, <1>4, <1>5
<1>7. ASSUME NEW f \in Family
      PROVE  Finalized(t, c, d, f)
  BY <1>1, <1>2, <1>3, <1>4 DEF Finalized, g
<1>8. \A f \in Family : Finalized(t, c, d, f)
  BY <1>7
<1> QED
  BY <1>1, <1>2, <1>6, <1>8 DEF g, c

\* A histogram stays one.
LEMMA AddLatencyIs ==
  ASSUME NEW h, NEW b \in Bucket, NEW d \in Nat,
         h \in [count : [Bucket -> Nat], totalQ : Nat, totalT : Nat,
                min : Nat, max : Nat]
  PROVE  AddLatency(h, b, d)
           \in [count : [Bucket -> Nat], totalQ : Nat, totalT : Nat,
                min : Nat, max : Nat]
<1>1. /\ [h.count EXCEPT ![b] = @ + 1] \in [Bucket -> Nat]
      /\ h.totalQ + 1 \in Nat /\ h.totalT + d \in Nat
      /\ (IF h.totalQ = 0 \/ h.min > d THEN d ELSE h.min) \in Nat
      /\ (IF h.max < d THEN d ELSE h.max) \in Nat
  OBVIOUS
<1> QED
  BY <1>1, Zenon DEF AddLatency

\* Finish: the trace leaves the active ones and enters the rings.
LEMMA FinishKeeps ==
  ASSUME RegistryInv, NoteReachable,
         NEW t \in Trace, NEW d \in Latencies, Finishes(t, d)
  PROVE  RegistryInv'
<1> USE TraceRegistryAssumption DEF RegistryInv
<1> DEFINE g == fam[t]
           c == findBucket(d)
<1>1. /\ stage[t] = "open" /\ ~Busy(t)
      /\ stage' = [stage EXCEPT ![t] = "done"]
      /\ latency' = [latency EXCEPT ![t] = d]
      /\ done' = Append(done, t)
      /\ UNCHANGED <<Parent, parentArg, fam, isError, refs>>
      /\ UNCHANGED <<pc, want, via, ref, answer>>
  BY DEF Finishes, Usable, lookupVars
<1>2. /\ g \in Family /\ c \in Bucket
      /\ finished' \in [Family -> [Bucket -> Ring]]
      /\ errors' \in [Family -> Ring]
  BY FinalizeIs, Zenon
<1>3. \A f \in Family : Finalized(t, c, d, f)
  BY FinalizeIs, Zenon
<1> HIDE DEF g, c
<1>4. TypeOK'
  <2>1. sure' \in BOOLEAN
    BY SureType DEF TypeOK
  <2>2. active' \in [Family -> SUBSET Trace]
    BY <1>2 DEF TypeOK, Finishes, finalize, g
  <2>3. latencies' \in [Family -> [count : [Bucket -> Nat], totalQ : Nat,
                                   totalT : Nat, min : Nat, max : Nat]]
    <3>1. latencies' = [latencies EXCEPT ![g] = AddLatency(@, c, d)]
      BY DEF Finishes, finalize, g, c
    <3>2. latencies[g] \in [count : [Bucket -> Nat], totalQ : Nat,
                            totalT : Nat, min : Nat, max : Nat]
      BY <1>2 DEF TypeOK
    <3>3. d \in Nat
      OBVIOUS
    <3>4. AddLatency(latencies[g], c, d)
            \in [count : [Bucket -> Nat], totalQ : Nat,
                 totalT : Nat, min : Nat, max : Nat]
      BY <1>2, <3>2, <3>3, AddLatencyIs
    <3> QED
      BY <1>2, <3>1, <3>4 DEF TypeOK
  <2>4. done' \in Seq(Trace)
    BY <1>1, AppendProperties DEF TypeOK
  <2> QED
    BY <1>1, <1>2, <2>1, <2>2, <2>3, <2>4 DEF TypeOK
<1>5. StagesOK'
  <2>1. \A x \in Trace : stage[x] = "child" => parentArg[x] # t
    BY <1>1 DEF Busy
  <2> QED
    BY <1>1, <2>1 DEF StagesOK, TypeOK
<1>6. RefsOK'
  BY <1>1 DEF RefsOK, TypeOK
<1>7. ActiveOK'
  <2> SUFFICES ASSUME NEW f \in Family
               PROVE  active'[f] = {u \in Trace :
                         stage'[u] \in {"child", "open"} /\ fam'[u] = f}
    BY DEF ActiveOK
  <2>1. active[f] = {u \in Trace :
                       stage[u] \in {"child", "open"} /\ fam[u] = f}
    BY DEF ActiveOK
  <2>2. active'[f] = IF f = g THEN active[f] \ {t} ELSE active[f]
    BY <1>3 DEF Finalized, g
  <2>3. /\ stage'[t] = "done" /\ fam' = fam
        /\ \A u \in Trace : u # t => stage'[u] = stage[u]
    BY <1>1 DEF TypeOK
  <2> QED
    BY <2>1, <2>2, <2>3 DEF g
<1>8. DoneOK'
  <2>1. /\ Len(done') = Len(done) + 1 /\ Len(done) \in Nat
        /\ \A i \in 1 .. Len(done) : done'[i] = done[i] /\ done[i] \in Trace
        /\ done'[Len(done) + 1] = t
    BY <1>1, AppendProperties DEF TypeOK
  <2>2. /\ stage'[t] = "done"
        /\ \A u \in Trace : u # t => stage'[u] = stage[u]
    BY <1>1 DEF TypeOK
  <2>3. \A i \in 1 .. Len(done) : done[i] # t
    BY <1>1 DEF DoneOK
  <2>4. \A i \in 1 .. Len(done') : i = Len(done) + 1 \/ i \in 1 .. Len(done)
    BY <2>1
  <2>5. \A i, j \in 1 .. Len(done') : i # j => done'[i] # done'[j]
    BY <2>1, <2>3, <2>4, SMTT(30) DEF DoneOK
  <2>6. \A i \in 1 .. Len(done') : stage'[done'[i]] = "done"
    BY <2>1, <2>2, <2>3, <2>4, SMTT(30) DEF DoneOK
  <2>7. ASSUME NEW u \in Trace, stage'[u] = "done"
        PROVE  \E i \in 1 .. Len(done') : done'[i] = u
    <3>1. CASE u = t
      BY <2>1, <3>1
    <3>2. CASE u # t
      <4>1. PICK i \in 1 .. Len(done) : done[i] = u
        BY <2>2, <2>7, <3>2 DEF DoneOK
      <4> QED
        BY <2>1, <4>1
    <3> QED
      BY <3>1, <3>2
  <2> QED
    BY <2>5, <2>6, <2>7 DEF DoneOK
<1>9. RingsOK'
  <2>1. \A f \in Family : /\ Finished(f) \in SUBSET (Finished(f)')
                          /\ f = g => t \in Finished(f)'
    BY <1>1 DEF Finished, TypeOK, g
  <2>2. ASSUME NEW f \in Family, NEW b \in Bucket
        PROVE  InRing(finished'[f][b]) \in SUBSET (Finished(f)')
    <3>1. InRing(finished[f][b]) \in SUBSET Finished(f)
      BY DEF RingsOK
    <3>2. InRing(AddTrace(finished[f][b], t))
            \in SUBSET (InRing(finished[f][b]) \cup {t})
      <4>1. finished[f][b] \in Ring
        BY DEF TypeOK
      <4> QED
        BY <4>1, AddTraceIs
    <3>3. CASE finished'[f][b] = finished[f][b]
      BY <2>1, <3>1, <3>3
    <3>4. CASE f = g /\ finished'[f][b] = AddTrace(finished[f][b], t)
      BY <2>1, <3>1, <3>2, <3>4
    <3> QED
      BY <1>3, <3>3, <3>4 DEF Finalized, g
  <2>3. ASSUME NEW f \in Family
        PROVE  InRing(errors'[f]) \in SUBSET (Finished(f)')
    <3>1. InRing(errors[f]) \in SUBSET Finished(f)
      BY DEF RingsOK
    <3>2. InRing(AddTrace(errors[f], t)) \in SUBSET (InRing(errors[f]) \cup {t})
      <4>1. errors[f] \in Ring
        BY DEF TypeOK
      <4> QED
        BY <4>1, AddTraceIs
    <3>3. CASE errors'[f] = errors[f]
      BY <2>1, <3>1, <3>3
    <3>4. CASE f = g /\ errors'[f] = AddTrace(errors[f], t)
      BY <2>1, <3>1, <3>2, <3>4
    <3> QED
      BY <1>3, <3>3, <3>4 DEF Finalized, g
  <2> QED
    BY <2>2, <2>3 DEF RingsOK
<1> QED
  BY <1>4, <1>5, <1>6, <1>7, <1>8, <1>9

\* find returns the trace exactly if it is kept.
LEMMA FindIs ==
  ASSUME RegistryInv, NEW t \in Trace
  PROVE  find(t) = IF Kept(t) THEN t ELSE None
<1> USE DEF RegistryInv
<1>1. ASSUME NEW f \in Family,
             t \in active[f] \cup InRing(errors[f])
                     \cup UNION {InRing(finished[f][b]) : b \in Bucket}
      PROVE  f = fam[t]
  <2>1. t \in active[f] => fam[t] = f
    BY DEF ActiveOK
  <2>2. t \in InRing(errors[f]) => fam[t] = f
    BY DEF RingsOK, Finished
  <2>3. \A b \in Bucket : t \in InRing(finished[f][b]) => fam[t] = f
    BY DEF RingsOK, Finished
  <2> QED
    BY <1>1, <2>1, <2>2, <2>3
<1>2. Kept(t) <=> /\ fam[t] \in Family
                  /\ \/ t \in active[fam[t]]
                     \/ \E b \in Bucket : t \in InRing(finished[fam[t]][b])
                     \/ t \in InRing(errors[fam[t]])
  BY <1>1 DEF Kept
<1>3. fam[t] # None <=> fam[t] \in Family
  BY TraceRegistryAssumption DEF TypeOK
<1> QED
  BY <1>2, <1>3 DEF find

\* A lookup only reads.
LEMMA LookupKeeps ==
  ASSUME RegistryInv, NoteReachable, LookupStep
  PROVE  RegistryInv'
<1>1. UNCHANGED <<traceVars, familyVars, done>>
  BY DEF LookupStep, Lookup, FindDirect, FindRef, FindParent, FindInEvents
<1>2. UNCHANGED <<stage, Parent, parentArg, fam, isError, latency, refs, active,
                  finished, errors, latencies, done>>
  BY <1>1 DEF traceVars, familyVars
<1>3. /\ pc' \in {"idle", "direct", "ref", "parent", "events"}
      /\ want' \in Trace \cup {None} /\ via' \in Trace \cup {None}
      /\ ref' \in Trace \cup {None} /\ answer' \in Trace \cup {None}
  <2> USE TraceRegistryAssumption DEF RegistryInv, TypeOK
  <2>1. \A t : find(t) \in {t, None}
    BY DEF find
  <2>2. CASE \E t \in Looked, v \in Trace \cup {None} : Lookup(t, v)
    BY <2>2 DEF Lookup
  <2>3. CASE FindDirect
    BY <2>1, <2>3 DEF FindDirect, Return, Proceed
  <2>4. CASE FindRef
    BY <2>1, <2>4 DEF FindRef, Return
  <2>5. CASE FindParent
    BY <2>5 DEF FindParent, Return, Proceed
  <2>6. CASE FindInEvents
    BY <2>6 DEF FindInEvents, Return
  <2> QED
    BY <2>2, <2>3, <2>4, <2>5, <2>6 DEF LookupStep
<1>4. TypeOK'
  <2>1. sure' \in BOOLEAN
    BY SureType DEF RegistryInv, TypeOK
  <2> QED
    BY <1>2, <1>3, <2>1 DEF RegistryInv, TypeOK
<1>5. StagesOK' /\ RefsOK' /\ ActiveOK' /\ DoneOK'
  BY <1>2 DEF RegistryInv, StagesOK, RefsOK, ActiveOK, DoneOK
<1>6. RingsOK'
  BY <1>2 DEF RegistryInv, RingsOK, Finished
<1> QED
  BY <1>4, <1>5, <1>6 DEF RegistryInv

\* Every step keeps the invariant.
LEMMA RegistryKept == RegistryInv /\ [Next]_vars => RegistryInv'
<1> SUFFICES ASSUME RegistryInv, [Next]_vars
             PROVE  RegistryInv'
  OBVIOUS
<1>1. CASE UNCHANGED vars
  <2>1. UNCHANGED <<stage, Parent, parentArg, fam, isError, latency, refs,
                    active, finished, errors, latencies, pc, want, via, ref,
                    answer, done, sure>>
    BY <1>1 DEF vars, traceVars, familyVars, lookupVars
  <2>2. TypeOK' /\ StagesOK' /\ RefsOK' /\ ActiveOK' /\ DoneOK'
    BY <2>1
    DEF RegistryInv, TypeOK, StagesOK, RefsOK, ActiveOK, DoneOK
  <2>3. RingsOK'
    BY <2>1 DEF RegistryInv, RingsOK, Finished
  <2> QED
    BY <2>2, <2>3 DEF RegistryInv
<1>2. CASE Next
  <2>1. NoteReachable
    BY <1>2, StepIs
  <2>2. ASSUME NEW t \in Trace, NEW f \in Family, NEW p \in Trace \cup {None},
               Created(t, f, p)
        PROVE  RegistryInv'
    BY <2>1, <2>2, CreatedKeeps, Zenon
  <2>3. ASSUME NEW t \in Trace, SetParent(t)
        PROVE  RegistryInv'
    BY <2>1, <2>3, SetParentKeeps, Zenon
  <2>4. ASSUME NEW t \in Trace, LogChild(t)
        PROVE  RegistryInv'
    BY <2>1, <2>4, LogChildKeeps, Zenon
  <2>5. ASSUME NEW t \in Trace, NEW o \in Trace, Link(t, o)
        PROVE  RegistryInv'
    <3>1. /\ Usable(t) /\ stage[o] # "none"
          /\ \E rs \in Logged(refs[t], {o}) : refs' = [refs EXCEPT ![t] = rs]
          /\ UNCHANGED <<stage, Parent, parentArg, fam, latency, isError,
                         familyVars, lookupVars, done>>
      BY <2>5 DEF Link
    <3>2. {o} \in SUBSET Trace /\ \A x \in {o} : stage[x] # "none"
      BY <3>1
    <3> QED
      BY <2>1, <3>1, <3>2, LoggingKeeps, Zenon
  <2>6. ASSUME NEW t \in Trace, Printf(t)
        PROVE  RegistryInv'
    <3>1. /\ Usable(t)
          /\ \E rs \in Logged(refs[t], {}) : refs' = [refs EXCEPT ![t] = rs]
          /\ UNCHANGED <<stage, Parent, parentArg, fam, latency, isError,
                         familyVars, lookupVars, done>>
      BY <2>6 DEF Printf
    <3>2. {} \in SUBSET Trace /\ \A x \in {} : stage[x] # "none"
      OBVIOUS
    <3> QED
      BY <2>1, <3>1, <3>2, LoggingKeeps, Zenon
  <2>7. ASSUME NEW t \in Trace, SetError(t)
        PROVE  RegistryInv'
    BY <2>1, <2>7, SetErrorKeeps, Zenon
  <2>8. ASSUME NEW t \in Trace, Finish(t)
        PROVE  RegistryInv'
    <3>1. PICK d \in Latencies : Finishes(t, d)
      BY <2>8, FinishIs
    <3> QED
      BY <2>1, <3>1, FinishKeeps, Zenon
  <2>9. CASE LookupStep
    BY <2>1, <2>9, LookupKeeps, Zenon
  <2> QED
    BY <1>2, <2>2, <2>3, <2>4, <2>5, <2>6, <2>7, <2>8, <2>9, StepIs, Zenon
<1> QED
  BY <1>1, <1>2

\* The registry is consistent all along (New, NewChild, Finish): the tables of
\* a family hold its traces, the active ones and none but finished ones in the
\* rings, each finished once, and no trace loses its parent or refers to one
\* that was never created.
THEOREM RegistryConsistent == Spec => []RegistryInv
<1> QED
  BY InitRegistry, RegistryKept, PTL DEF Spec

\* The variables have their types all along, whatever newTrace, finalize and
\* findInFamilies do.
THEOREM TypeCorrect == Spec => []TypeOK
<1>1. RegistryInv => TypeOK
  BY DEF RegistryInv
<1> QED
  BY <1>1, RegistryConsistent, PTL

-----------------------------------------------------------------------------
(***************************************************************************)
(* Lookups.                                                                *)
(***************************************************************************)
\* What a lookup that has to succeed knows at each of its steps.  A finished
\* trace that is not kept is never kept again, so that once the direct lookup
\* failed, it is through via that the trace is reached until the end.
LookupKnows ==
  /\ pc # "idle" => want \in Looked
  /\ LookupSucceeds
  /\ pc # "idle" /\ sure => Reachable(want, via)
  /\ pc \in {"ref", "parent", "events"} /\ sure =>
       via # None /\ stage[want] = "done" /\ ~Kept(want)
  /\ pc \in {"parent", "events"} /\ sure => ref = via
  /\ pc = "events" /\ sure => parentArg[via] # want

\* Kept, table by table.
LEMMA KeptIs ==
  ASSUME NEW t
  PROVE  Kept(t) <=>
           \E f \in Family : \/ t \in active[f]
                             \/ t \in InRing(errors[f])
                             \/ \E b \in Bucket : t \in InRing(finished[f][b])
BY DEF Kept

\* Only a trace that exists is kept, and an unfinished one is.
LEMMA KeptExists ==
  ASSUME RegistryInv, NEW t \in Trace
  PROVE  /\ Kept(t) => stage[t] # "none"
         /\ ~Kept(t) /\ stage[t] # "none" => stage[t] = "done"
<1> USE DEF RegistryInv
<1>1. \A f \in Family :
        /\ t \in active[f] => stage[t] # "none"
        /\ t \in InRing(errors[f]) => stage[t] # "none"
        /\ \A b \in Bucket : t \in InRing(finished[f][b]) => stage[t] # "none"
  BY DEF ActiveOK, RingsOK, Finished
<1>2. stage[t] \in {"child", "open"} => fam[t] \in Family /\ t \in active[fam[t]]
  BY DEF StagesOK, ActiveOK
<1>3. stage[t] \in {"none", "child", "open", "done"}
  BY DEF TypeOK
<1> QED
  BY <1>1, <1>2, <1>3, KeptIs

\* What the steps of traces leave a lookup: a trace keeps the parent it was
\* created with, and one that was dropped stays so.
Preserved ==
  /\ UNCHANGED lookupVars
  /\ \A t \in Trace : stage[t] # "none" => parentArg'[t] = parentArg[t]
  /\ \A t \in Trace :
       stage[t] = "done" /\ ~Kept(t) => stage'[t] = "done" /\ ~(Kept(t)')

\* Creating a trace takes nothing from a lookup that goes on meanwhile.
LEMMA CreatedPreserves ==
  ASSUME RegistryInv, NEW t \in Trace, NEW f \in Family,
         NEW p \in Trace \cup {None}, Created(t, f, p)
  PROVE  Preserved
<1>1. /\ stage[t] = "none"
      /\ active' = [active EXCEPT ![f] = @ \cup {t}]
      /\ parentArg' = [parentArg EXCEPT ![t] = p]
      /\ stage' = [stage EXCEPT ![t] = IF p = None THEN "open" ELSE "child"]
      /\ UNCHANGED <<finished, errors, lookupVars>>
  BY DEF Created, newTrace
<1>2. \A u \in Trace : stage[u] # "none" =>
        stage'[u] = stage[u] /\ parentArg'[u] = parentArg[u]
  BY <1>1 DEF RegistryInv, TypeOK
<1>3. ASSUME NEW u \in Trace, stage[u] = "done", ~Kept(u)
      PROVE  ~(Kept(u)')
  <2>1. \A g \in Family : u \in active'[g] => u \in active[g]
    BY <1>1, <1>3 DEF RegistryInv, TypeOK
  <2> QED
    BY <1>1, <1>3, <2>1, KeptIs DEF Kept
<1> QED
  BY <1>1, <1>2, <1>3 DEF Preserved

\* Nor does Finish: a trace that the rings have dropped stays so.
LEMMA FinishPreserves ==
  ASSUME RegistryInv, NEW t \in Trace, NEW d \in Latencies, Finishes(t, d)
  PROVE  Preserved
<1>1. /\ stage[t] = "open"
      /\ stage' = [stage EXCEPT ![t] = "done"]
      /\ UNCHANGED <<parentArg, lookupVars>>
  BY DEF Finishes, Usable
<1>2. \A f \in Family : Finalized(t, findBucket(d), d, f)
  BY FinalizeIs, Zenon
<1>3. ASSUME NEW u \in Trace, stage[u] = "done", ~Kept(u)
      PROVE  ~(Kept(u)')
  <2> SUFFICES ASSUME NEW f \in Family
               PROVE  /\ u \notin active'[f] /\ u \notin InRing(errors'[f])
                      /\ \A b \in Bucket : u \notin InRing(finished'[f][b])
    BY DEF Kept
  <2>1. /\ u \notin active[f] /\ u \notin InRing(errors[f])
        /\ \A b \in Bucket : u \notin InRing(finished[f][b])
    BY <1>3, KeptIs
  <2>2. u # t
    BY <1>1, <1>3
  <2>3. /\ errors[f] \in Ring
        /\ \A b \in Bucket : finished[f][b] \in Ring
    BY DEF RegistryInv, TypeOK
  <2>4. /\ u \notin InRing(AddTrace(errors[f], t))
        /\ \A b \in Bucket : u \notin InRing(AddTrace(finished[f][b], t))
    BY <2>1, <2>2, <2>3, AddTraceIs
  <2>5. u \notin active'[f]
    BY <1>2, <2>1 DEF Finalized
  <2>6. u \notin InRing(errors'[f])
    BY <1>2, <2>1, <2>4 DEF Finalized
  <2>7. ASSUME NEW b \in Bucket
        PROVE  u \notin InRing(finished'[f][b])
    BY <1>2, <2>1, <2>4 DEF Finalized
  <2> QED
    BY <2>5, <2>6, <2>7
<1> QED
  BY <1>1, <1>3 DEF Preserved, RegistryInv, TypeOK

\* The other steps of traces change neither a table nor who is finished.
LEMMA OthersPreserve ==
  ASSUME RegistryInv, NEW t \in Trace,
         \/ SetParent(t) \/ LogChild(t) \/ \E o \in Trace : Link(t, o)
         \/ Printf(t) \/ SetError(t)
  PROVE  Preserved
<1>1. UNCHANGED <<parentArg, familyVars, lookupVars>>
  BY DEF SetParent, LogChild, Link, Printf, SetError
<1>2. \/ stage' = stage
      \/ stage[t] = "child" /\ stage' = [stage EXCEPT ![t] = "open"]
  BY DEF SetParent, LogChild, Link, Printf, SetError
<1>3. \A u \in Trace : stage[u] = "done" => stage'[u] = "done"
  BY <1>2 DEF RegistryInv, TypeOK
<1>4. \A u \in Trace : Kept(u)' = Kept(u)
  BY <1>1 DEF Kept, familyVars
<1> QED
  BY <1>1, <1>3, <1>4 DEF Preserved

\* Over a step of a trace, what the lookup knows stays true.
LEMMA PreservedKnows ==
  ASSUME RegistryInv, LookupKnows, NoteReachable, Preserved
  PROVE  LookupKnows'
<1>1. /\ pc' = pc /\ want' = want /\ via' = via /\ ref' = ref
      /\ answer' = answer
  BY DEF Preserved, lookupVars
<1>2. /\ pc = "idle" => sure' = sure
      /\ pc # "idle" => (sure' <=> Reachable(want, via)' /\ sure)
  BY <1>1 DEF NoteReachable
<1>3. (pc # "idle" => want' \in Looked) /\ LookupSucceeds'
  BY <1>1, <1>2 DEF LookupKnows, LookupSucceeds
<1>4. pc # "idle" /\ sure' => Reachable(want, via)'
  BY <1>2
<1>5. ASSUME pc \in {"ref", "parent", "events"}, sure'
      PROVE  /\ via # None /\ stage'[want] = "done" /\ ~(Kept(want)')
             /\ parentArg'[via] = parentArg[via]
  <2>1. /\ sure /\ Reachable(want, via)
        /\ via # None /\ stage[want] = "done" /\ ~Kept(want)
    BY <1>2, <1>5 DEF LookupKnows
  <2>2. want \in Trace /\ via \in Trace
    BY <1>5, <2>1, TraceRegistryAssumption
    DEF LookupKnows, RegistryInv, TypeOK
  <2>3. Kept(via)
    BY <2>1 DEF Reachable
  <2>4. stage[via] # "none"
    BY <2>2, <2>3, KeptExists
  <2>5. stage'[want] = "done"
    BY <2>1, <2>2 DEF Preserved
  <2>6. ~(Kept(want)')
    <3>1. \A t \in Trace : stage[t] = "done" /\ ~Kept(t) => ~(Kept(t)')
      BY DEF Preserved
    <3> QED
      BY <1>1, <2>1, <2>2, <3>1 DEF Kept
  <2> QED
    BY <2>1, <2>2, <2>4, <2>5, <2>6 DEF Preserved
<1> QED
  BY <1>1, <1>2, <1>3, <1>4, <1>5 DEF LookupKnows

\* Over its own steps, the lookup learns what it then knows.
LEMMA LookupStepKnows ==
  ASSUME RegistryInv, LookupKnows, NoteReachable, LookupStep
  PROVE  LookupKnows'
<1> USE TraceRegistryAssumption
<1>1. UNCHANGED <<stage, Parent, parentArg, fam, refs, active, finished, errors>>
  BY DEF LookupStep, Lookup, FindDirect, FindRef, FindParent, FindInEvents,
         traceVars, familyVars
<1>2. /\ \A t : Kept(t)' = Kept(t)
      /\ \A t, v : Reachable(t, v)' = Reachable(t, v)
  BY <1>1 DEF Kept, Reachable
<1>3. want \in Trace \cup {None} /\ via \in Trace \cup {None}
  BY DEF RegistryInv, TypeOK
<1>4. pc # "idle" => want \in Trace
  BY DEF LookupKnows
<1>5. Reachable(want, via)' = Reachable(want', via')
  BY <1>1 DEF Reachable, Kept
<1>6. sure' = IF pc' = "idle" THEN sure
              ELSE Reachable(want', via') /\ (pc = "idle" \/ sure)
  BY <1>5 DEF NoteReachable
<1>7. CASE \E t \in Looked, v \in Trace \cup {None} : Lookup(t, v)
  <2>1. pc' = "direct" /\ want' \in Looked
    BY <1>7 DEF Lookup
  <2>2. sure' => Reachable(want, via)'
    BY <1>5, <1>6, <2>1
  <2> QED
    BY <2>1, <2>2 DEF LookupKnows, LookupSucceeds
<1>8. CASE FindDirect
  <2>1. /\ pc = "direct" /\ want \in Trace /\ want' = want /\ via' = via
        /\ find(want) = IF Kept(want) THEN want ELSE None
        /\ IF find(want) # None \/ via = None THEN Return(find(want))
           ELSE Proceed("ref")
    BY <1>4, <1>8, FindIs DEF FindDirect
  <2>2. CASE Kept(want)
    <3>1. pc' = "idle" /\ answer' = want
      BY <2>1, <2>2 DEF Return
    <3> QED
      BY <2>1, <3>1 DEF LookupKnows, LookupSucceeds
  <2>3. CASE ~Kept(want) /\ via = None
    <3>1. pc' = "idle" /\ sure' = sure
      BY <1>6, <2>1, <2>3 DEF Return
    <3>2. ~sure
      BY <2>1, <2>3 DEF LookupKnows, Reachable
    <3> QED
      BY <2>1, <3>1, <3>2 DEF LookupKnows, LookupSucceeds
  <2>4. CASE ~Kept(want) /\ via # None
    <3>1. pc' = "ref" /\ (sure' => sure /\ Reachable(want, via))
      BY <1>6, <2>1, <2>4 DEF Proceed
    <3>2. via \in Trace
      BY <1>3, <2>4
    <3>3. Reachable(want, via) => stage[want] # "none"
      BY <2>1, <2>4, <3>2 DEF Reachable, RegistryInv, RefsOK
    <3>4. Reachable(want, via) => stage[want] = "done"
      BY <2>1, <2>4, <3>3, KeptExists
    <3>5. sure' => /\ Reachable(want, via)' /\ via' # None
                   /\ stage'[want'] = "done" /\ ~(Kept(want)')
      <4>1. Kept(want)' = Kept(want')
        BY <1>1 DEF Kept
      <4> QED
        BY <1>1, <1>5, <2>1, <2>4, <3>1, <3>4, <4>1
    <3> QED
      BY <2>1, <3>1, <3>5 DEF LookupKnows, LookupSucceeds
  <2> QED
    BY <2>2, <2>3, <2>4
<1>9. ASSUME pc \in {"ref", "parent", "events"}, sure
      PROVE  /\ via \in Trace /\ stage[want] = "done" /\ ~Kept(want)
             /\ Kept(via) /\ (parentArg[via] = want \/ want \in refs[via])
             /\ pc # "ref" => ref = via
             /\ pc = "events" => parentArg[via] # want
  BY <1>3, <1>9 DEF LookupKnows, Reachable
<1>10. ASSUME pc \in {"ref", "parent", "events"}, want' = want, via' = via,
              pc' = "idle" => (sure => answer' = want),
              pc' \in {"idle", "parent", "events"},
              pc' # "idle" => (sure => ref' = via),
              pc' = "events" => (sure => parentArg[via] # want)
       PROVE  LookupKnows'
  <2>1. Kept(want)' = Kept(want')
    BY <1>1 DEF Kept
  <2>2. sure' => sure
    BY <1>6, <1>10
  <2>3. pc' # "idle" => want' \in Looked
    BY <1>10 DEF LookupKnows
  <2>4. LookupSucceeds'
    BY <1>10, <2>2 DEF LookupSucceeds
  <2>5. pc' # "idle" /\ sure' => Reachable(want, via)'
    BY <1>5, <1>6
  <2>6. sure => via # None /\ stage[want] = "done" /\ ~Kept(want)
    BY <1>9, <1>10
  <2> QED
    BY <1>1, <1>10, <2>1, <2>2, <2>3, <2>4, <2>5, <2>6 DEF LookupKnows
<1>11. CASE FindRef
  <2>1. pc = "ref" /\ want' = want /\ via' = via
    BY <1>11 DEF FindRef
  <2>2. sure => find(via) = via
    BY <1>9, <2>1, FindIs
  <2>3. CASE find(via) = None
    <3>1. pc' = "idle" /\ ~sure
      BY <1>9, <1>11, <2>1, <2>2, <2>3 DEF FindRef, Return
    <3> QED
      BY <1>10, <2>1, <3>1
  <2>4. CASE find(via) # None
    <3>1. pc' = "parent" /\ ref' = find(via)
      BY <1>11, <2>4 DEF FindRef
    <3> QED
      BY <1>10, <2>1, <2>2, <3>1
  <2> QED
    BY <2>3, <2>4
<1>12. CASE FindParent
  <2>1. pc = "parent" /\ want' = want /\ via' = via
    BY <1>12 DEF FindParent
  <2>2. CASE Parent[ref] = want
    <3>1. pc' = "idle" /\ answer' = want
      BY <1>12, <2>2 DEF FindParent, Return
    <3> QED
      BY <1>10, <2>1, <3>1
  <2>3. CASE Parent[ref] # want
    <3>1. pc' = "events" /\ ref' = ref
      BY <1>12, <2>3 DEF FindParent, Proceed
    <3>2. ASSUME sure
          PROVE  parentArg[via] # want
      <4> SUFFICES ASSUME parentArg[via] = want PROVE FALSE
        OBVIOUS
      <4>1. /\ via \in Trace /\ ref = via /\ stage[want] = "done"
            /\ Kept(via)
        BY <1>9, <2>1, <3>2
      <4>2. stage[via] \in {"child", "open", "done"}
        BY <4>1, KeptExists DEF RegistryInv, TypeOK
      <4>3. stage[via] = "child"
        BY <2>3, <4>1, <4>2 DEF RegistryInv, StagesOK
      <4>4. stage[want] = "open"
        BY <4>1, <4>3 DEF RegistryInv, StagesOK
      <4> QED
        BY <4>1, <4>4
    <3>3. sure => ref' = via
      BY <1>9, <2>1, <3>1
    <3> QED
      BY <1>10, <2>1, <3>1, <3>2, <3>3
  <2> QED
    BY <2>2, <2>3
<1>13. CASE FindInEvents
  <2>1. /\ pc = "events" /\ want' = want /\ via' = via /\ pc' = "idle"
        /\ answer' = IF want \in refs[ref] THEN want ELSE None
    BY <1>13 DEF FindInEvents, Return
  <2>2. sure => want \in refs[ref]
    BY <1>9, <2>1
  <2> QED
    BY <1>10, <2>1, <2>2
<1> QED
  BY <1>7, <1>8, <1>11, <1>12, <1>13 DEF LookupStep

\* Every step keeps what a lookup knows.
LEMMA KnowsKept ==
  RegistryInv /\ LookupKnows /\ [Next]_vars => LookupKnows'
<1> SUFFICES ASSUME RegistryInv, LookupKnows, [Next]_vars
             PROVE  LookupKnows'
  OBVIOUS
<1>1. CASE UNCHANGED vars
  BY <1>1 DEF vars, traceVars, familyVars, lookupVars, LookupKnows,
              LookupSucceeds, Reachable, Kept
<1>2. CASE Next
  <2>1. NoteReachable
    BY <1>2, StepIs
  <2>2. ASSUME NEW t \in Trace, NEW f \in Family, NEW p \in Trace \cup {None},
               Created(t, f, p)
        PROVE  LookupKnows'
    <3>1. Preserved
      BY <2>2, CreatedPreserves, Zenon
    <3> QED
      BY <2>1, <3>1, PreservedKnows, Zenon
  <2>3. ASSUME NEW t \in Trace,
               \/ SetParent(t) \/ LogChild(t) \/ \E o \in Trace : Link(t, o)
               \/ Printf(t) \/ SetError(t)
        PROVE  LookupKnows'
    <3>1. Preserved
      BY <2>3, OthersPreserve, Zenon
    <3> QED
      BY <2>1, <3>1, PreservedKnows, Zenon
  <2>4. ASSUME NEW t \in Trace, Finish(t)
        PROVE  LookupKnows'
    <3>1. PICK d \in Latencies : Finishes(t, d)
      BY <2>4, FinishIs
    <3>2. Preserved
      BY <3>1, FinishPreserves, Zenon
    <3> QED
      BY <2>1, <3>2, PreservedKnows, Zenon
  <2>5. CASE LookupStep
    BY <2>1, <2>5, LookupStepKnows, Zenon
  <2> QED
    BY <1>2, <2>2, <2>3, <2>4, <2>5, StepIs, Zenon
<1> QED
  BY <1>1, <1>2

\* findInFamilies finds a trace that could be reached all the time it ran: it
\* takes no lock over its whole search, yet no step of another goroutine
\* between its own, not even the trace being finished and pushed out of its
\* ring, makes it miss the trace.
THEOREM LookupsSucceed == Spec => []LookupSucceeds
<1>1. Init => LookupKnows
  BY DEF Init, LookupKnows, LookupSucceeds
<1>2. LookupKnows => LookupSucceeds
  BY DEF LookupKnows
<1> QED
  BY <1>1, <1>2, KnowsKept, RegistryConsistent, PTL DEF Spec

-----------------------------------------------------------------------------
(***************************************************************************)
(* The rings.                                                              *)
(***************************************************************************)
\* Do meets the latest of the traces s, its last one at the end, and before
\* them as many empty elements as there is room left.
RingHolds(r, s) ==
  LET m == TracesInBucket
      n == Len(s)
  IN /\ r.l = IF n < m THEN n ELSE m
     /\ \A i \in 1 .. m :
          r.slots[(r.next + i - 1) % m] =
            IF n - m + i >= 1 THEN s[n - m + i] ELSE None

RingsHold ==
  \A f \in Family :
    /\ \A b \in Bucket : RingHolds(finished[f][b], DoneIn(f, b))
    /\ RingHolds(errors[f], DoneWithError(f))

\* The elements that Do meets after a trace was added are, but for the last one,
\* those it met before, one further on.
LEMMA NextSlots ==
  ASSUME NEW m \in Nat \ {0}, NEW x \in 0 .. m - 1, NEW i \in 1 .. m
  PROVE  /\ (((x + 1) % m) + i - 1) % m
              = IF i = m THEN x ELSE (x + (i + 1) - 1) % m
         /\ (x + i - 1) % m \in 0 .. m - 1
         /\ i < m => (x + (i + 1) - 1) % m # x
<1>1. (x + 1) % m = IF x + 1 < m THEN x + 1 ELSE 0
  <2>1. PICK b : b = x + 1
    OBVIOUS
  <2>2. b \in Nat /\ b < 2 * m /\ (b < m \/ b - m = 0)
    BY <2>1
  <2>3. b % m = IF b < m THEN b ELSE b - m
    BY <2>2, RoundOnce
  <2> QED
    BY <2>1, <2>2, <2>3
<1> DEFINE y == (x + 1) % m
<1>2. y \in 0 .. m - 1
  BY <1>1
<1>3. PICK a : a = y + i - 1
  OBVIOUS
<1> HIDE DEF y
<1>4. a \in Nat /\ a < 2 * m
  BY <1>2, <1>3
<1>5. a % m = IF a < m THEN a ELSE a - m
  BY <1>4, RoundOnce
<1>6. PICK c : c = x + i
  OBVIOUS
<1>7. c \in Nat /\ c < 2 * m
  BY <1>6
<1>8. c % m = IF c < m THEN c ELSE c - m
  BY <1>7, RoundOnce
<1>9. PICK e : e = x + i - 1
  OBVIOUS
<1>10. e \in Nat /\ e < 2 * m
  BY <1>9
<1>11. e % m = IF e < m THEN e ELSE e - m
  BY <1>10, RoundOnce
<1>12. (x + i - 1) % m \in 0 .. m - 1
  BY <1>9, <1>10, <1>11
<1>13. (x + (i + 1) - 1) % m = c % m
  BY <1>6
<1>14. i < m => c % m # x
  BY <1>6, <1>8
<1>15. a % m = IF i = m THEN x ELSE c % m
  BY <1>1, <1>3, <1>5, <1>6, <1>8 DEF y
<1> QED
  BY <1>3, <1>12, <1>13, <1>14, <1>15 DEF y

\* A new ring holds the latest of no traces.
LEMMA NewRingHolds == RingHolds(newTraceRing, <<>>)
<1>1. TracesInBucket \in Nat \ {0}
  BY TraceRegistryAssumption
<1>2. newTraceRing.l = 0 /\ newTraceRing.next = 0
  BY DEF newTraceRing
<1>3. \A j \in 0 .. TracesInBucket - 1 : newTraceRing.slots[j] = None
  BY DEF newTraceRing
<1>4. \A i \in 1 .. TracesInBucket :
        (0 + i - 1) % TracesInBucket \in 0 .. TracesInBucket - 1
  BY <1>1
<1> QED
  BY <1>1, <1>2, <1>3, <1>4 DEF RingHolds

\* Add makes a ring that held the latest of s hold the latest of s and t.
LEMMA RingGrows ==
  ASSUME NEW r \in Ring, NEW s \in Seq(Trace), NEW t \in Trace, RingHolds(r, s)
  PROVE  RingHolds(AddTrace(r, t), Append(s, t))
<1> DEFINE m == TracesInBucket
           n == Len(s)
           a == AddTrace(r, t)
           q == Append(s, t)
<1>1. m \in Nat \ {0}
  BY TraceRegistryAssumption
<1>2. /\ r.slots \in [0 .. m - 1 -> Trace \cup {None}]
      /\ r.next \in 0 .. m - 1 /\ r.l \in 0 .. m
  BY DEF Ring
<1>3. /\ a.slots = [r.slots EXCEPT ![r.next] = t]
      /\ a.next = (r.next + 1) % m
      /\ a.l = IF r.l < m THEN r.l + 1 ELSE r.l
  BY DEF AddTrace
<1>4. /\ n \in Nat /\ Len(q) = n + 1 /\ q[n + 1] = t
      /\ \A k \in 1 .. n : q[k] = s[k]
  BY AppendProperties
<1>5. /\ r.l = IF n < m THEN n ELSE m
      /\ \A i \in 1 .. m : r.slots[(r.next + i - 1) % m] =
           IF n - m + i >= 1 THEN s[n - m + i] ELSE None
  BY DEF RingHolds
<1> HIDE DEF m, n, a, q
<1>6. a.l = IF n + 1 < m THEN n + 1 ELSE m
  BY <1>1, <1>3, <1>4, <1>5
<1>7. ASSUME NEW i \in 1 .. m
      PROVE  a.slots[(a.next + i - 1) % m] =
               IF n + 1 - m + i >= 1 THEN q[n + 1 - m + i] ELSE None
  <2>3. /\ (((r.next + 1) % m) + i - 1) % m
             = IF i = m THEN r.next ELSE (r.next + (i + 1) - 1) % m
        /\ i < m => (r.next + (i + 1) - 1) % m # r.next
    <3>1. PICK x : x = r.next
      OBVIOUS
    <3>2. x \in 0 .. m - 1
      BY <1>2, <3>1
    <3>3. /\ (((x + 1) % m) + i - 1) % m
               = IF i = m THEN x ELSE (x + (i + 1) - 1) % m
          /\ i < m => (x + (i + 1) - 1) % m # x
      BY <1>1, <3>2, NextSlots
    <3> QED
      BY <3>1, <3>3
  <2>1. CASE i = m
    <3>1. (a.next + i - 1) % m = r.next
      BY <1>3, <2>1, <2>3
    <3>2. a.slots[r.next] = t
      BY <1>2, <1>3
    <3>3. n + 1 - m + i = n + 1 /\ n + 1 >= 1
      BY <1>1, <1>4, <2>1
    <3> QED
      BY <1>4, <3>1, <3>2, <3>3
  <2>2. CASE i # m
    <3>1. PICK j : j = i + 1
      OBVIOUS
    <3>2. j \in 1 .. m /\ i < m
      BY <1>1, <2>2, <3>1
    <3>3. PICK x : x = (r.next + j - 1) % m
      OBVIOUS
    <3>4. (a.next + i - 1) % m = x /\ x # r.next
      BY <1>3, <2>2, <2>3, <3>1, <3>2, <3>3
    <3>5. x \in 0 .. m - 1
      BY <1>1, <1>2, <3>2, <3>3, NextSlots
    <3>6. a.slots[x] = r.slots[x]
      BY <1>2, <1>3, <3>4, <3>5
    <3>7. r.slots[x] = IF n - m + j >= 1 THEN s[n - m + j] ELSE None
      BY <1>5, <3>2, <3>3
    <3>8. PICK k : k = n - m + j
      OBVIOUS
    <3>9. n + 1 - m + i = k
      BY <1>1, <1>4, <3>1, <3>8
    <3>10. k >= 1 => k \in 1 .. n
      BY <1>1, <1>4, <3>2, <3>8
    <3>11. k >= 1 => q[k] = s[k]
      BY <1>4, <3>10
    <3> QED
      BY <3>4, <3>6, <3>7, <3>8, <3>9, <3>11
  <2> QED
    BY <2>1, <2>2
<1>8. RingHolds(a, q)
  <2>1. a.l = IF Len(q) < m THEN Len(q) ELSE m
    BY <1>4, <1>6
  <2>2. ASSUME NEW i \in 1 .. m
        PROVE  a.slots[(a.next + i - 1) % m] =
                 IF Len(q) - m + i >= 1 THEN q[Len(q) - m + i] ELSE None
    BY <1>1, <1>4, <1>7
  <2> QED
    BY <2>1, <2>2 DEF RingHolds, m
<1> QED
  BY <1>8 DEF a, q

\* Do visits just the latest traces, the newest last.
LEMMA RingShows ==
  ASSUME NEW r \in Ring, NEW s \in Seq(Trace), RingHolds(r, s)
  PROVE  DoTraces(r) = Latest(s) /\ r.l = Len(DoTraces(r))
<1> DEFINE m == TracesInBucket
           n == Len(s)
           v == [i \in 1 .. m |-> r.slots[(r.next + i - 1) % m]]
           I == {i \in DOMAIN v : v[i] # None}
           first == Max({1, n - m + 1})
           T == Trace \cup {None}
<1>1. m \in Nat \ {0} /\ None \notin Trace
  BY TraceRegistryAssumption
<1>2. /\ r.slots \in [0 .. m - 1 -> T]
      /\ r.next \in 0 .. m - 1
  BY DEF Ring
<1>3. n \in Nat /\ \A k \in 1 .. n : s[k] \in Trace
  OBVIOUS
<1>4. /\ r.l = IF n < m THEN n ELSE m
      /\ \A i \in 1 .. m : v[i] = IF n - m + i >= 1 THEN s[n - m + i] ELSE None
  BY DEF RingHolds
<1>5. first = IF n - m + 1 > 1 THEN n - m + 1 ELSE 1
  <2>1. PICK S : S = {1, n - m + 1}
    OBVIOUS
  <2>2. S \in SUBSET Int /\ S # {}
    BY <1>1, <1>3, <2>1
  <2>3. IsFiniteSet(S)
    <3>1. S = ({} \cup {1}) \cup {n - m + 1}
      BY <2>1
    <3>2. IsFiniteSet({})
      BY FS_EmptySet
    <3>3. IsFiniteSet({} \cup {1})
      BY <3>2, FS_AddElement
    <3>4. IsFiniteSet(({} \cup {1}) \cup {n - m + 1})
      BY <3>3, FS_AddElement
    <3> QED
      BY <3>1, <3>4
  <2>4. Max(S) \in S /\ \A y \in S : Max(S) >= y
    BY <2>2, <2>3, MaxIs
  <2> QED
    BY <1>1, <1>3, <2>1, <2>4
<1>6. PICK lo : lo = first + m - n
  OBVIOUS
<1>7. DoTraces(r) = Selected(v, I)
  BY DEF DoTraces
<1>8. v \in Seq(T) /\ DOMAIN v = 1 .. m
  <2>1. \A i \in 1 .. m : (r.next + i - 1) % m \in 0 .. m - 1
    BY <1>1, <1>2, NextSlots
  <2>2. \A i \in 1 .. m : r.slots[(r.next + i - 1) % m] \in T
    BY <1>2, <2>1
  <2>3. v \in [1 .. m -> T]
    BY <2>2
  <2>4. \A k \in Nat : \A q \in [1 .. k -> T] : q \in Seq(T)
    OBVIOUS
  <2> HIDE DEF v, T
  <2> QED
    BY <1>1, <2>3, <2>4
<1> HIDE DEF v, first, m, n
<1>9. /\ first \in 1 .. n + 1 /\ lo \in 1 .. m + 1 /\ first = lo + n - m
      /\ \A i \in 1 .. m : i >= lo <=> n - m + i >= 1
      /\ m - lo + 1 = n - first + 1
      /\ r.l = n - first + 1
  <2>1. first \in 1 .. n + 1 /\ lo \in 1 .. m + 1 /\ first = lo + n - m
    BY <1>1, <1>3, <1>5, <1>6
  <2>2. \A i \in 1 .. m : i >= lo <=> n - m + i >= 1
    BY <1>1, <1>3, <1>5, <1>6
  <2>3. m - lo + 1 = n - first + 1
    BY <1>1, <1>3, <2>1
  <2>4. r.l = n - first + 1
    <3>1. r.l = IF n < m THEN n ELSE m
      BY <1>4
    <3> QED
      BY <1>1, <1>3, <1>5, <3>1
  <2> QED
    BY <2>1, <2>2, <2>3, <2>4
<1>10. I = lo .. m
  <2>1. ASSUME NEW i \in 1 .. m
        PROVE  v[i] # None <=> i >= lo
    <3>1. CASE i >= lo
      <4>1. PICK k : k = n - m + i
        OBVIOUS
      <4>2. k \in 1 .. n /\ v[i] = s[k]
        BY <1>1, <1>3, <1>4, <1>9, <3>1, <4>1
      <4> QED
        BY <1>1, <1>3, <3>1, <4>2
    <3>2. CASE ~(i >= lo)
      BY <1>4, <1>9, <3>2
    <3> QED
      BY <3>1, <3>2
  <2> QED
    BY <1>1, <1>8, <1>9, <2>1
<1> HIDE DEF I
<1>11. /\ Cardinality(I) = n - first + 1
       /\ \A k \in 1 .. n - first + 1 : Increasing(I)[k] = lo + k - 1
  <2>1. /\ Cardinality(lo .. m) = m - lo + 1
        /\ \A k \in 1 .. m - lo + 1 : Increasing(lo .. m)[k] = lo + k - 1
    BY <1>1, <1>9, IncreasingInterval
  <2> QED
    BY <1>9, <1>10, <2>1
<1>12. I \in SUBSET DOMAIN v
  BY <1>8 DEF I
<1>13. /\ Selected(v, I) \in Seq(T)
       /\ Len(Selected(v, I)) = Cardinality(I)
       /\ \A k \in 1 .. Cardinality(I) :
            Selected(v, I)[k] = v[Increasing(I)[k]]
  BY <1>8, <1>12, SelectedAt, Zenon
<1>14. /\ Latest(s) = SubSeq(s, first, n)
       /\ SubSeq(s, first, n) \in Seq(Trace)
       /\ Len(SubSeq(s, first, n)) = n - first + 1
       /\ \A k \in 1 .. n - first + 1 : SubSeq(s, first, n)[k] = s[first + k - 1]
  <2>1. Latest(s) = SubSeq(s, first, n)
    BY DEF Latest, first, m, n
  <2>2. n = Len(s)
    BY DEF n
  <2>3. /\ first \in 1 .. Len(s) + 1 /\ n \in first - 1 .. Len(s)
    BY <1>3, <1>9, <2>2
  <2>4. SubSeq(s, first, n) = [k \in 1 .. n - first + 1 |-> s[first + k - 1]]
    BY <1>3, <1>9, <2>2, SMTT(30)
  <2>5. SubSeq(s, first, n) \in Seq(Trace)
    <3>1. \A k \in 1 .. n - first + 1 : first + k - 1 \in 1 .. n
      BY <1>3, <1>9
    <3>2. [k \in 1 .. n - first + 1 |-> s[first + k - 1]]
            \in [1 .. n - first + 1 -> Trace]
      BY <1>3, <3>1
    <3>3. \A k \in Nat : \A q \in [1 .. k -> Trace] : q \in Seq(Trace)
      OBVIOUS
    <3>4. n - first + 1 \in Nat
      BY <1>3, <1>9
    <3> QED
      BY <2>4, <3>2, <3>3, <3>4
  <2>6. Len(SubSeq(s, first, n)) = n - first + 1
    BY <1>3, <1>9, <2>4
  <2> QED
    BY <2>1, <2>4, <2>5, <2>6
<1>15. ASSUME NEW k \in 1 .. n - first + 1
       PROVE  Selected(v, I)[k] = SubSeq(s, first, n)[k]
  <2>1. PICK i : i = lo + k - 1
    OBVIOUS
  <2>2. i \in 1 .. m /\ i >= lo /\ n - m + i = first + k - 1
    BY <1>1, <1>3, <1>9, <2>1
  <2>3. Selected(v, I)[k] = v[i]
    BY <1>11, <1>13, <2>1
  <2>4. v[i] = s[n - m + i]
    BY <1>4, <1>9, <2>2
  <2> QED
    BY <1>14, <2>2, <2>3, <2>4
<1>16. Selected(v, I) = SubSeq(s, first, n)
  <2>1. SubSeq(s, first, n) \in Seq(T)
    BY <1>14
  <2> HIDE DEF T
  <2> QED
    BY <1>11, <1>13, <1>14, <1>15, <2>1, SeqEqual
<1> QED
  BY <1>7, <1>9, <1>11, <1>13, <1>14, <1>16

\* A step that finishes no trace: the rings and histograms stay, and so does all
\* that they show of finished traces.
Quiet ==
  /\ UNCHANGED <<finished, errors, latencies, done>>
  /\ \A t \in Trace : stage[t] = "done" =>
       /\ fam'[t] = fam[t] /\ isError'[t] = isError[t]
       /\ latency'[t] = latency[t]

\* Only Finish changes what is done, in rings or in the history.
LEMMA QuietOrFinish ==
  ASSUME RegistryInv, [Next]_vars
  PROVE  Quiet \/ \E t \in Trace : \E d \in Latencies : Finishes(t, d)
<1> USE DEF RegistryInv
<1>1. CASE UNCHANGED vars
  BY <1>1 DEF vars, traceVars, familyVars, Quiet
<1>2. CASE Next
  <2>1. ASSUME NEW t \in Trace, NEW f \in Family, NEW p \in Trace \cup {None},
               Created(t, f, p)
        PROVE  Quiet
    <3>1. /\ stage[t] = "none" /\ fam' = [fam EXCEPT ![t] = f]
          /\ UNCHANGED <<latency, isError, finished, errors, latencies, done>>
      BY <2>1 DEF Created, newTrace
    <3> QED
      BY <3>1 DEF Quiet, TypeOK
  <2>2. ASSUME NEW t \in Trace,
               \/ SetParent(t) \/ LogChild(t) \/ \E o \in Trace : Link(t, o)
               \/ Printf(t)
        PROVE  Quiet
    <3>1. UNCHANGED <<fam, latency, isError, familyVars, done>>
      BY <2>2 DEF SetParent, LogChild, Link, Printf
    <3> QED
      BY <3>1 DEF Quiet, familyVars
  <2>3. ASSUME NEW t \in Trace, SetError(t)
        PROVE  Quiet
    <3>1. /\ stage[t] = "open" /\ isError' = [isError EXCEPT ![t] = TRUE]
          /\ UNCHANGED <<fam, latency, familyVars, done>>
      BY <2>3 DEF SetError, Usable
    <3> QED
      BY <3>1 DEF Quiet, familyVars, TypeOK
  <2>4. ASSUME NEW t \in Trace, Finish(t)
        PROVE  \E d \in Latencies : Finishes(t, d)
    BY <2>4, FinishIs
  <2>5. CASE LookupStep
    <3>1. UNCHANGED <<traceVars, familyVars, done>>
      BY <2>5 DEF LookupStep, Lookup, FindDirect, FindRef, FindParent,
                  FindInEvents
    <3> QED
      BY <3>1 DEF Quiet, traceVars, familyVars
  <2> QED
    BY <1>2, <2>1, <2>2, <2>3, <2>4, <2>5, StepIs, Zenon
<1> QED
  BY <1>1, <1>2

\* What has been done in a family is a sequence of traces.
LEMMA DoneInIs ==
  ASSUME RegistryInv, NEW f \in Family, NEW b \in Bucket
  PROVE  DoneIn(f, b) \in Seq(Trace) /\ DoneWithError(f) \in Seq(Trace)
<1>1. done \in Seq(Trace)
  BY DEF RegistryInv, TypeOK
<1>2. /\ {i \in DOMAIN done : fam[done[i]] = f /\ Belongs(done[i], b)}
           \in SUBSET DOMAIN done
      /\ {i \in DOMAIN done : fam[done[i]] = f /\ isError[done[i]]}
           \in SUBSET DOMAIN done
  OBVIOUS
<1> QED
  BY <1>1, <1>2, SelectedIs, Zenon DEF DoneIn, DoneWithError

\* A quiet step leaves what is done in each bucket as it is.
LEMMA QuietKeepsDone ==
  ASSUME RegistryInv, Quiet, NEW f \in Family, NEW b \in Bucket
  PROVE  DoneIn(f, b)' = DoneIn(f, b) /\ DoneWithError(f)' = DoneWithError(f)
<1>1. done' = done /\ DOMAIN done = 1 .. Len(done)
  BY DEF Quiet, RegistryInv, TypeOK
<1>2. ASSUME NEW i \in DOMAIN done
      PROVE  /\ fam'[done[i]] = fam[done[i]]
             /\ isError'[done[i]] = isError[done[i]]
             /\ Belongs(done[i], b)' <=> Belongs(done[i], b)
  <2>1. done[i] \in Trace /\ stage[done[i]] = "done"
    BY <1>1 DEF RegistryInv, DoneOK, TypeOK
  <2>2. /\ fam'[done[i]] = fam[done[i]]
        /\ isError'[done[i]] = isError[done[i]]
        /\ latency'[done[i]] = latency[done[i]]
    BY <2>1 DEF Quiet
  <2> QED
    BY <1>1, <2>2 DEF Belongs
<1>3. {i \in DOMAIN done : fam[done[i]] = f /\ Belongs(done[i], b)}'
        = {i \in DOMAIN done : fam[done[i]] = f /\ Belongs(done[i], b)}
  BY <1>1, <1>2
<1>4. {i \in DOMAIN done : fam[done[i]] = f /\ isError[done[i]]}'
        = {i \in DOMAIN done : fam[done[i]] = f /\ isError[done[i]]}
  BY <1>1, <1>2
<1> QED
  BY <1>1, <1>3, <1>4 DEF DoneIn, DoneWithError

\* A latency belongs to the bucket of its trace and to no other.
LEMMA FinishBelongs ==
  ASSUME RegistryInv, NEW t \in Trace, NEW d \in Latencies, Finishes(t, d),
         NEW b \in Bucket
  PROVE  /\ latency'[t] = d /\ d \in Nat
         /\ Belongs(t, b)' <=> b = findBucket(d)
<1>1. latency'[t] = d
  BY DEF Finishes, RegistryInv, TypeOK
<1>2. d \in Nat
  BY TraceRegistryAssumption
<1> QED
  BY <1>1, <1>2, BucketIs DEF Belongs

\* Finish appends to the one bucket that its trace belongs to, and to the errors
\* of its family if the trace has one.
LEMMA FinishGrowsDone ==
  ASSUME RegistryInv, NEW t \in Trace, NEW d \in Latencies, Finishes(t, d),
         NEW f \in Family, NEW b \in Bucket
  PROVE  /\ DoneIn(f, b)' = IF f = fam[t] /\ b = findBucket(d)
                            THEN Append(DoneIn(f, b), t) ELSE DoneIn(f, b)
         /\ DoneWithError(f)' = IF f = fam[t] /\ isError[t]
                                THEN Append(DoneWithError(f), t)
                                ELSE DoneWithError(f)
<1> DEFINE N == Len(done)
           I == {i \in DOMAIN done : fam[done[i]] = f /\ Belongs(done[i], b)}
           E == {i \in DOMAIN done : fam[done[i]] = f /\ isError[done[i]]}
<1>1. /\ stage[t] = "open" /\ done' = Append(done, t)
      /\ fam' = fam /\ isError' = isError
      /\ latency' = [latency EXCEPT ![t] = d]
  BY DEF Finishes, Usable
<1>2. done \in Seq(Trace) /\ N \in Nat /\ DOMAIN done = 1 .. N
  BY DEF RegistryInv, TypeOK
<1>3. /\ DOMAIN done' = 1 .. N + 1 /\ done'[N + 1] = t
      /\ \A i \in 1 .. N : done'[i] = done[i]
  BY <1>1, <1>2, AppendProperties
<1>4. ASSUME NEW i \in 1 .. N
      PROVE  /\ fam'[done'[i]] = fam[done[i]]
             /\ isError'[done'[i]] = isError[done[i]]
             /\ latency'[done'[i]] = latency[done[i]]
  <2>1. done[i] \in Trace /\ stage[done[i]] = "done"
    BY <1>2 DEF RegistryInv, DoneOK
  <2>2. done[i] # t
    BY <1>1, <2>1
  <2> QED
    BY <1>1, <1>3, <2>1, <2>2 DEF RegistryInv, TypeOK
<1>5. \A i \in 1 .. N : Belongs(done[i], b)' <=> Belongs(done[i], b)
  BY <1>3, <1>4 DEF Belongs
<1>6. PICK k : k = N + 1
  OBVIOUS
<1>7. Belongs(done[k], b)' <=> b = findBucket(d)
  <2>1. Belongs(t, b)' <=> b = findBucket(d)
    BY FinishBelongs
  <2> QED
    BY <1>3, <1>6, <2>1 DEF Belongs
<1>8. I \in SUBSET DOMAIN done /\ E \in SUBSET DOMAIN done
  OBVIOUS
<1>9. I' = IF f = fam[t] /\ b = findBucket(d) THEN I \cup {k} ELSE I
  <2>1. \A i \in 1 .. N + 1 : i \in 1 .. N \/ i = k
    BY <1>2, <1>6
  <2>2. k \in 1 .. N + 1 /\ k \notin 1 .. N /\ \A i \in 1 .. N : i \in 1 .. N + 1
    BY <1>2, <1>6
  <2>3. I' = {i \in 1 .. N + 1 : fam'[done'[i]] = f /\ Belongs(done[i], b)'}
    BY <1>3
  <2> QED
    BY <1>1, <1>2, <1>3, <1>4, <1>5, <1>7, <1>6, <2>1, <2>2, <2>3
<1>10. E' = IF f = fam[t] /\ isError[t] THEN E \cup {k} ELSE E
  <2>1. \A i \in 1 .. N + 1 : i \in 1 .. N \/ i = k
    BY <1>2, <1>6
  <2>2. E' = {i \in 1 .. N + 1 : fam'[done'[i]] = f /\ isError'[done'[i]]}
    BY <1>3
  <2> QED
    BY <1>1, <1>2, <1>3, <1>4, <1>6, <2>1, <2>2
<1>11. /\ DoneIn(f, b) = Selected(done, I)
       /\ DoneIn(f, b)' = Selected(done', I')
       /\ DoneWithError(f) = Selected(done, E)
       /\ DoneWithError(f)' = Selected(done', E')
  BY DEF DoneIn, DoneWithError
<1> HIDE DEF I, E
<1>12. /\ Selected(Append(done, t), I) = Selected(done, I)
       /\ Selected(Append(done, t), I \cup {k}) = Append(Selected(done, I), t)
       /\ Selected(Append(done, t), E) = Selected(done, E)
       /\ Selected(Append(done, t), E \cup {k}) = Append(Selected(done, E), t)
  <2>1. \A S \in SUBSET DOMAIN done :
          /\ Selected(Append(done, t), S) = Selected(done, S)
          /\ Selected(Append(done, t), S \cup {Len(done) + 1})
               = Append(Selected(done, S), t)
    BY <1>2, SelectedGrows, ZenonT(40)
  <2> QED
    BY <1>8, <1>6, <2>1
<1> HIDE DEF N
<1>13. DoneIn(f, b)' = IF f = fam[t] /\ b = findBucket(d)
                       THEN Append(DoneIn(f, b), t) ELSE DoneIn(f, b)
  BY <1>1, <1>9, <1>11, <1>12
<1>14. DoneWithError(f)' = IF f = fam[t] /\ isError[t]
                           THEN Append(DoneWithError(f), t)
                           ELSE DoneWithError(f)
  BY <1>1, <1>10, <1>11, <1>12
<1> QED
  BY <1>13, <1>14

\* In the beginning the rings are empty, and nothing is done.
LEMMA InitRings == Init => RingsHold
<1> SUFFICES ASSUME Init, NEW f \in Family
             PROVE  /\ \A b \in Bucket : RingHolds(finished[f][b], DoneIn(f, b))
                    /\ RingHolds(errors[f], DoneWithError(f))
  BY DEF RingsHold
<1>1. done = <<>> /\ DOMAIN done = {}
  BY DEF Init
<1>2. \A I : I \in SUBSET DOMAIN done => Selected(done, I) = <<>>
  <2> SUFFICES ASSUME NEW I, I = {} PROVE Selected(done, I) = <<>>
    BY <1>1
  <2>1. done \in Seq({}) /\ I \in SUBSET DOMAIN done
    BY <1>1
  <2>2. Selected(done, I) \in Seq({}) /\ Len(Selected(done, I)) = Cardinality(I)
    BY <2>1, SelectedIs, Zenon
  <2>3. Cardinality(I) = 0
    BY FS_EmptySet
  <2> QED
    BY <2>2, <2>3, EmptySeq
<1>3. \A b \in Bucket : DoneIn(f, b) = <<>> /\ DoneWithError(f) = <<>>
  BY <1>2 DEF DoneIn, DoneWithError
<1>4. /\ \A b \in Bucket : finished[f][b] = newTraceRing
      /\ errors[f] = newTraceRing
  BY DEF Init
<1>5. DoneWithError(f) = <<>>
  BY <1>2 DEF DoneWithError
<1> QED
  BY <1>3, <1>4, <1>5, NewRingHolds

\* Every step keeps the rings in line with what is done.
LEMMA RingsKept ==
  RegistryInv /\ RingsHold /\ [Next]_vars => RingsHold'
<1> SUFFICES ASSUME RegistryInv, RingsHold, [Next]_vars,
                    NEW f \in Family
             PROVE  /\ \A b \in Bucket :
                         RingHolds(finished[f][b], DoneIn(f, b))'
                    /\ RingHolds(errors[f], DoneWithError(f))'
  BY DEF RingsHold
<1>1. /\ \A r, s : RingHolds(r, s) \in BOOLEAN
      /\ \A b \in Bucket : RingHolds(finished[f][b], DoneIn(f, b))
      /\ RingHolds(errors[f], DoneWithError(f))
  BY DEF RingsHold, RingHolds
<1>2. SUFFICES /\ \A b \in Bucket : RingHolds(finished'[f][b], DoneIn(f, b)')
               /\ RingHolds(errors'[f], DoneWithError(f)')
  BY <1>2 DEF RingHolds
<1>3. CASE Quiet
  <2>1. finished' = finished /\ errors' = errors
    BY <1>3 DEF Quiet
  <2>2. 0 \in Bucket
    BY TraceRegistryAssumption DEF Bucket, NBuckets
  <2>3. \A b \in Bucket : DoneIn(f, b)' = DoneIn(f, b)
    BY <1>3, QuietKeepsDone, Zenon
  <2>4. DoneWithError(f)' = DoneWithError(f)
    BY <1>3, <2>2, QuietKeepsDone, Zenon
  <2> QED
    BY <1>1, <2>1, <2>3, <2>4
<1>4. ASSUME NEW t \in Trace, NEW d \in Latencies, Finishes(t, d)
      PROVE  /\ \A b \in Bucket : RingHolds(finished'[f][b], DoneIn(f, b)')
             /\ RingHolds(errors'[f], DoneWithError(f)')
  <2>1. Finalized(t, findBucket(d), d, f)
    BY <1>4, FinalizeIs, Zenon
  <2>2. /\ errors[f] \in Ring
        /\ \A b \in Bucket : finished[f][b] \in Ring
    BY DEF RegistryInv, TypeOK
  <2>3. ASSUME NEW b \in Bucket
        PROVE  RingHolds(finished'[f][b], DoneIn(f, b)')
    <3>1. DoneIn(f, b) \in Seq(Trace)
      BY DoneInIs
    <3>2. RingHolds(AddTrace(finished[f][b], t), Append(DoneIn(f, b), t))
      BY <1>1, <2>2, <3>1, RingGrows
    <3>3. DoneIn(f, b)' = IF f = fam[t] /\ b = findBucket(d)
                          THEN Append(DoneIn(f, b), t) ELSE DoneIn(f, b)
      BY <1>4, FinishGrowsDone, Zenon
    <3>4. finished'[f][b] = IF f = fam[t] /\ b = findBucket(d)
                            THEN AddTrace(finished[f][b], t)
                            ELSE finished[f][b]
      BY <2>1 DEF Finalized
    <3> QED
      BY <1>1, <3>2, <3>3, <3>4
  <2>4. RingHolds(errors'[f], DoneWithError(f)')
    <3>1. PICK b \in Bucket : TRUE
      BY TraceRegistryAssumption, SMTT(30) DEF Bucket, NBuckets
    <3>2. DoneWithError(f) \in Seq(Trace)
      BY DoneInIs
    <3>3. RingHolds(AddTrace(errors[f], t), Append(DoneWithError(f), t))
      BY <1>1, <2>2, <3>2, RingGrows
    <3>4. DoneWithError(f)' = IF f = fam[t] /\ isError[t]
                              THEN Append(DoneWithError(f), t)
                              ELSE DoneWithError(f)
      BY <1>4, FinishGrowsDone, Zenon
    <3>5. errors'[f] = IF f = fam[t] /\ isError[t]
                       THEN AddTrace(errors[f], t) ELSE errors[f]
      BY <2>1 DEF Finalized
    <3> QED
      BY <1>1, <3>3, <3>4, <3>5
  <2> QED
    BY <2>3, <2>4
<1> QED
  BY <1>3, <1>4, QuietOrFinish

\* Every ring shows the latest of the traces that belong in it, in the order
\* they finished, and neither misses one nor shows one twice while there is
\* room (traceRing.Add and Do, familyTraces.finalize), for any size of the
\* rings and any bounds of the buckets.
THEOREM RingsLatest == Spec => []RingsKeepLatest
<1>1. RegistryInv /\ RingsHold => RingsKeepLatest
  <2> SUFFICES ASSUME RegistryInv, RingsHold, NEW f \in Family, NEW b \in Bucket
               PROVE  /\ DoTraces(finished[f][b]) = Latest(DoneIn(f, b))
                      /\ finished[f][b].l = Len(DoTraces(finished[f][b]))
                      /\ DoTraces(errors[f]) = Latest(DoneWithError(f))
    <3>1. \E b \in Bucket : TRUE
      BY TraceRegistryAssumption DEF Bucket, NBuckets
    <3> QED
      BY <3>1 DEF RingsKeepLatest
  <2>1. errors[f] \in Ring /\ finished[f][b] \in Ring
    BY DEF RegistryInv, TypeOK
  <2>2. DoneIn(f, b) \in Seq(Trace) /\ DoneWithError(f) \in Seq(Trace)
    BY DoneInIs
  <2>3. /\ RingHolds(finished[f][b], DoneIn(f, b))
        /\ RingHolds(errors[f], DoneWithError(f))
    BY DEF RingsHold
  <2> QED
    BY <2>1, <2>2, <2>3, RingShows, Zenon
<1> QED
  BY <1>1, InitRings, RingsKept, RegistryConsistent, PTL DEF Spec

-----------------------------------------------------------------------------
(***************************************************************************)
(* The histograms.                                                         *)
(***************************************************************************)
\* The time that the traces ts took, and how fast and slow they were.
Times(ts, lat) == UNION {{t} \X (1 .. lat[t]) : t \in ts}
Speeds(ts, lat) == {lat[t] : t \in ts}

\* h is the histogram of the traces ts, whose latencies are lat.
HistogramOf(h, ts, lat) ==
  /\ IsFiniteSet(ts) /\ h.totalQ = Cardinality(ts)
  /\ \A b \in Bucket :
       h.count[b] = Cardinality({t \in ts : findBucket(lat[t]) = b})
  /\ IsFiniteSet(Times(ts, lat)) /\ h.totalT = Cardinality(Times(ts, lat))
  /\ IF ts = {} THEN h.max = 0
     ELSE h.min = Min(Speeds(ts, lat)) /\ h.max = Max(Speeds(ts, lat))

HistogramsHold ==
  \A f \in Family : HistogramOf(latencies[f], Finished(f), latency)

\* It depends on the latencies of these traces only.
LEMMA HistogramSame ==
  ASSUME NEW h, NEW ts, NEW lat, NEW lat2, HistogramOf(h, ts, lat),
         \A t \in ts : lat2[t] = lat[t]
  PROVE  HistogramOf(h, ts, lat2)
<1>1. Times(ts, lat2) = Times(ts, lat)
  BY DEF Times
<1>2. Speeds(ts, lat2) = Speeds(ts, lat)
  BY DEF Speeds
<1>3. \A b \in Bucket : {t \in ts : findBucket(lat2[t]) = b}
                          = {t \in ts : findBucket(lat[t]) = b}
  OBVIOUS
<1> QED
  BY <1>1, <1>2, <1>3 DEF HistogramOf

\* The histogram of no traces.
LEMMA EmptyHistogramIs ==
  ASSUME NEW lat
  PROVE  HistogramOf(emptyHistogram, {}, lat)
<1>1. IsFiniteSet({}) /\ Cardinality({}) = 0
  BY FS_EmptySet
<1>2. Times({}, lat) = {}
  BY DEF Times
<1>3. \A b \in Bucket : {t \in {} : findBucket(lat[t]) = b} = {}
  OBVIOUS
<1> QED
  BY <1>1, <1>2, <1>3 DEF HistogramOf, emptyHistogram

\* The latencies of finitely many traces have a minimum and a maximum.
LEMMA SpeedsFinite ==
  ASSUME NEW ts, IsFiniteSet(ts), NEW lat
  PROVE  IsFiniteSet(Speeds(ts, lat))
<1> DEFINE s == [t \in ts |-> lat[t]]
<1>1. s \in Surjection(ts, Speeds(ts, lat))
  <2>1. s \in [ts -> Speeds(ts, lat)]
    BY DEF Speeds
  <2>2. \A x \in Speeds(ts, lat) : \E t \in ts : s[t] = x
    BY DEF Speeds
  <2> QED
    BY <2>1, <2>2, Fun_IsSurj
<1> QED
  BY <1>1, FS_Surjection

\* histogram.Add makes the histogram of ts that of ts and t.
LEMMA HistogramGrows ==
  ASSUME NEW ts \in SUBSET Trace, NEW lat \in [Trace -> Nat],
         NEW t \in Trace \ ts, NEW d \in Nat, lat[t] = d,
         NEW h \in [count : [Bucket -> Nat], totalQ : Nat, totalT : Nat,
                    min : Nat, max : Nat],
         HistogramOf(h, ts, lat)
  PROVE  HistogramOf(AddLatency(h, findBucket(d), d), ts \cup {t}, lat)
<1> DEFINE us == ts \cup {t}
           c == findBucket(d)
           a == AddLatency(h, c, d)
<1>1. /\ a.count = [h.count EXCEPT ![c] = @ + 1]
      /\ a.totalQ = h.totalQ + 1 /\ a.totalT = h.totalT + d
      /\ a.min = IF h.totalQ = 0 \/ h.min > d THEN d ELSE h.min
      /\ a.max = IF h.max < d THEN d ELSE h.max
  BY DEF AddLatency
<1>2. c \in Bucket
  BY BucketIs
<1>3. /\ IsFiniteSet(ts) /\ h.totalQ = Cardinality(ts)
      /\ \A b \in Bucket :
           h.count[b] = Cardinality({u \in ts : findBucket(lat[u]) = b})
      /\ IsFiniteSet(Times(ts, lat)) /\ h.totalT = Cardinality(Times(ts, lat))
      /\ ts = {} => h.max = 0
      /\ ts # {} => /\ h.min = Min(Speeds(ts, lat))
                    /\ h.max = Max(Speeds(ts, lat))
  BY DEF HistogramOf
<1> HIDE DEF a, c
<1>4. IsFiniteSet(us) /\ a.totalQ = Cardinality(us)
  BY <1>1, <1>3, FS_AddElement
<1>5. ASSUME NEW b \in Bucket
      PROVE  a.count[b] = Cardinality({u \in us : findBucket(lat[u]) = b})
  <2>1. PICK S : S = {u \in ts : findBucket(lat[u]) = b}
    OBVIOUS
  <2>2. IsFiniteSet(S) /\ t \notin S
    BY <1>3, <2>1, FS_Subset
  <2>3. h.count[b] = Cardinality(S)
    BY <1>3, <2>1
  <2>4. CASE b = c
    <3>1. {u \in us : findBucket(lat[u]) = b} = S \cup {t}
      BY <2>1, <2>4 DEF c
    <3>2. a.count[b] = h.count[b] + 1
      BY <1>1, <1>2, <2>4
    <3> QED
      BY <2>2, <2>3, <3>1, <3>2, FS_AddElement
  <2>5. CASE b # c
    <3>1. {u \in us : findBucket(lat[u]) = b} = S
      BY <2>1, <2>5 DEF c
    <3>2. a.count[b] = h.count[b]
      BY <1>1, <1>2, <2>5
    <3> QED
      BY <2>3, <3>1, <3>2
  <2> QED
    BY <2>4, <2>5
<1>6. /\ IsFiniteSet(Times(us, lat))
      /\ a.totalT = Cardinality(Times(us, lat))
  <2>1. PICK S : S = Times(ts, lat)
    OBVIOUS
  <2>2. PICK D : D = {t} \X (1 .. d)
    OBVIOUS
  <2>3. Times(us, lat) = S \cup D
    BY <2>1, <2>2 DEF Times
  <2>4. S \cap D = {}
    BY <2>1, <2>2 DEF Times
  <2>5. IsFiniteSet(D) /\ Cardinality(D) = d
    <3>1. IsFiniteSet({}) /\ Cardinality({}) = 0
      BY FS_EmptySet
    <3>2. IsFiniteSet({} \cup {t}) /\ Cardinality({} \cup {t}) = 1
      BY <3>1, FS_AddElement
    <3>3. IsFiniteSet({t}) /\ Cardinality({t}) = 1
      <4>1. {} \cup {t} = {t}
        OBVIOUS
      <4> QED
        BY <3>2, <4>1
    <3>4. IsFiniteSet(1 .. d) /\ Cardinality(1 .. d) = d
      BY FS_Interval
    <3> QED
      BY <2>2, <3>3, <3>4, FS_Product, SMTT(30)
  <2>6. IsFiniteSet(S) /\ Cardinality(S) = h.totalT
    BY <1>3, <2>1
  <2>7. /\ IsFiniteSet(S \cup D)
        /\ Cardinality(S \cup D)
             = Cardinality(S) + Cardinality(D) - Cardinality(S \cap D)
    BY <2>5, <2>6, FS_Union
  <2>8. Cardinality(S \cap D) = 0
    BY <2>4, FS_EmptySet
  <2>9. Cardinality(S \cup D) = h.totalT + d
    BY <2>5, <2>6, <2>7, <2>8
  <2> QED
    BY <1>1, <2>3, <2>7, <2>9
<1>7. /\ us # {}
      /\ a.min = Min(Speeds(us, lat)) /\ a.max = Max(Speeds(us, lat))
  <2>1. PICK U : U = Speeds(us, lat)
    OBVIOUS
  <2>2. U \in SUBSET Int /\ d \in U /\ U = Speeds(ts, lat) \cup {d}
    BY <2>1 DEF Speeds
  <2>3. IsFiniteSet(U)
    BY <1>4, <2>1, SpeedsFinite
  <2>4. /\ Min(U) \in U /\ \A y \in U : Min(U) <= y
        /\ Max(U) \in U /\ \A y \in U : Max(U) >= y
    BY <2>2, <2>3, MinIs, MaxIs
  <2>5. CASE ts = {}
    <3>1. U = {d} /\ h.totalQ = 0
      BY <1>3, <2>2, <2>5, FS_EmptySet DEF Speeds
    <3>2. Min(U) = d /\ Max(U) = d
      BY <2>4, <3>1
    <3>3. a.min = d /\ a.max = d
      BY <1>1, <1>3, <2>5, <3>1
    <3> QED
      BY <2>1, <3>2, <3>3
  <2>6. CASE ts # {}
    <3>1. PICK S : S = Speeds(ts, lat)
      OBVIOUS
    <3>2. S \in SUBSET Int /\ S # {} /\ IsFiniteSet(S)
      <4>1. S \in SUBSET Int /\ S # {}
        BY <2>6, <3>1 DEF Speeds
      <4>2. IsFiniteSet(S)
        BY <1>3, <3>1, SpeedsFinite
      <4> QED
        BY <4>1, <4>2
    <3>3. /\ h.min \in S /\ \A y \in S : h.min <= y
          /\ h.max \in S /\ \A y \in S : h.max >= y
      <4>1. h.min = Min(S) /\ h.max = Max(S)
        BY <1>3, <2>6, <3>1
      <4> QED
        BY <3>2, <4>1, MinIs, MaxIs
    <3>4. h.totalQ # 0
      BY <1>3, <2>6, FS_EmptySet
    <3>5. U = S \cup {d}
      BY <2>2, <3>1
    <3>6. a.min = Min(U)
      <4>1. a.min = IF h.min > d THEN d ELSE h.min
        BY <1>1, <3>4
      <4>2. PICK x : x = Min(U)
        OBVIOUS
      <4>3. x \in U /\ \A y \in U : x <= y
        BY <2>4, <4>2
      <4>4. /\ x = d \/ (x \in S /\ h.min <= x)
            /\ x <= d /\ x <= h.min /\ x \in Int /\ h.min \in Int
        BY <2>2, <3>3, <3>5, <4>3
      <4> QED
        BY <4>1, <4>2, <4>4
    <3>7. a.max = Max(U)
      <4>1. a.max = IF h.max < d THEN d ELSE h.max
        BY <1>1
      <4>2. PICK x : x = Max(U)
        OBVIOUS
      <4>3. x \in U /\ \A y \in U : x >= y
        BY <2>4, <4>2
      <4>4. /\ x = d \/ (x \in S /\ h.max >= x)
            /\ x >= d /\ x >= h.max /\ x \in Int /\ h.max \in Int
        BY <2>2, <3>3, <3>5, <4>3
      <4> QED
        BY <4>1, <4>2, <4>4
    <3> QED
      BY <2>1, <3>6, <3>7
  <2> QED
    BY <2>5, <2>6
<1> HIDE DEF us
<1> QED
  BY <1>4, <1>5, <1>6, <1>7 DEF HistogramOf, us, a, c

\* The finished traces of a family, from the history of what is done.
LEMMA FinishedIs ==
  ASSUME RegistryInv, NEW f \in Family
  PROVE  Finished(f) = {t \in ToSet(done) : fam[t] = f}
<1>1. DOMAIN done = 1 .. Len(done) /\ \A i \in DOMAIN done : done[i] \in Trace
  BY DEF RegistryInv, TypeOK
<1>2. ToSet(done) = {t \in Trace : stage[t] = "done"}
  BY <1>1 DEF ToSet, RegistryInv, DoneOK
<1> QED
  BY <1>2 DEF Finished

\* In the beginning the histograms are empty, and nothing is finished.
LEMMA InitHistograms == Init => HistogramsHold
<1> SUFFICES ASSUME Init, NEW f \in Family
             PROVE  HistogramOf(latencies[f], Finished(f), latency)
  BY DEF HistogramsHold
<1>1. latencies[f] = emptyHistogram /\ Finished(f) = {}
  BY DEF Init, Finished
<1> QED
  BY <1>1, EmptyHistogramIs

\* Every step keeps the histograms in line with the finished traces.
LEMMA HistogramsKept ==
  RegistryInv /\ RegistryInv' /\ HistogramsHold /\ [Next]_vars
    => HistogramsHold'
<1> SUFFICES ASSUME RegistryInv, RegistryInv', HistogramsHold, [Next]_vars,
                    NEW f \in Family
             PROVE  HistogramOf(latencies'[f], Finished(f)', latency')
  BY DEF HistogramsHold, HistogramOf, Times, Speeds
<1>1. HistogramOf(latencies[f], Finished(f), latency)
  BY DEF HistogramsHold
<1>2. PICK ts : ts = Finished(f)
  OBVIOUS
<1>3. ts \in SUBSET Trace
  BY <1>2 DEF Finished
<1>4. CASE Quiet
  <2>1. done' = done /\ latencies' = latencies
    BY <1>4 DEF Quiet
  <2>2. \A t \in Trace : stage[t] = "done" <=> stage'[t] = "done"
    BY <2>1 DEF RegistryInv, DoneOK
  <2>3. Finished(f)' = ts
    BY <1>2, <1>4, <2>2 DEF Quiet, Finished
  <2>4. \A t \in ts : latency'[t] = latency[t]
    BY <1>2, <1>4 DEF Quiet, Finished
  <2>5. HistogramOf(latencies[f], ts, latency')
    BY <1>1, <1>2, <2>4, HistogramSame
  <2> QED
    BY <2>1, <2>3, <2>5
<1>5. ASSUME NEW t \in Trace, NEW d \in Latencies, Finishes(t, d)
      PROVE  HistogramOf(latencies'[f], Finished(f)', latency')
  <2>1. /\ stage[t] = "open" /\ fam' = fam
        /\ stage' = [stage EXCEPT ![t] = "done"]
        /\ latency' = [latency EXCEPT ![t] = d]
    BY <1>5 DEF Finishes, Usable
  <2>2. Finished(f)' = IF f = fam[t] THEN ts \cup {t} ELSE ts
    BY <1>2, <2>1 DEF Finished, RegistryInv, TypeOK
  <2>3. t \notin ts /\ \A u \in ts : latency'[u] = latency[u]
    BY <1>2, <2>1 DEF Finished, RegistryInv, TypeOK
  <2>4. HistogramOf(latencies[f], ts, latency')
    BY <1>1, <1>2, <2>3, HistogramSame
  <2>5. latencies'[f] = IF f = fam[t]
                        THEN AddLatency(latencies[f], findBucket(d), d)
                        ELSE latencies[f]
    <3>1. Finalized(t, findBucket(d), d, f)
      BY <1>5, FinalizeIs, Zenon
    <3> QED
      BY <3>1 DEF Finalized
  <2>6. /\ latency' \in [Trace -> Nat] /\ latency'[t] = d /\ d \in Nat
        /\ latencies[f] \in [count : [Bucket -> Nat], totalQ : Nat,
                             totalT : Nat, min : Nat, max : Nat]
    <3>1. latency \in [Trace -> Nat] /\ d \in Nat
      <4>1. Latencies \cup {0} \in SUBSET Nat
        BY TraceRegistryAssumption
      <4> QED
        BY <4>1 DEF RegistryInv, TypeOK
    <3> QED
      BY <2>1, <3>1 DEF RegistryInv, TypeOK
  <2>7. HistogramOf(AddLatency(latencies[f], findBucket(d), d), ts \cup {t},
                    latency')
    <3>1. t \in Trace \ ts
      BY <2>3
    <3> QED
      BY <1>3, <2>4, <2>6, <3>1, HistogramGrows, Zenon
  <2> QED
    BY <2>2, <2>4, <2>5, <2>7
<1> QED
  BY <1>4, <1>5, QuietOrFinish

\* The histogram of a family counts every trace of it that finished, once and in
\* the bucket of its latency, adds up the time they took, and has the smallest
\* and the largest of their latencies (histogram.Add, by finalize).
THEOREM HistogramsExact == Spec => []HistogramExact
<1>1. RegistryInv /\ HistogramsHold => HistogramExact
  <2> SUFFICES ASSUME RegistryInv, HistogramsHold, NEW f \in Family
               PROVE  LET ts == {t \in ToSet(done) : fam[t] = f}
                          h == latencies[f]
                      IN /\ h.totalQ = Cardinality(ts)
                         /\ \A b \in Bucket : h.count[b]
                              = Cardinality({t \in ts : Belongs(t, b)})
                         /\ h.totalT = Cardinality(Spent(ts))
                         /\ ts # {} => /\ h.min = Min({latency[t] : t \in ts})
                                       /\ h.max = Max({latency[t] : t \in ts})
    BY Zenon DEF HistogramExact
  <2> DEFINE ts == {t \in ToSet(done) : fam[t] = f}
             h == latencies[f]
  <2>1. ts = Finished(f)
    BY FinishedIs
  <2>2. HistogramOf(h, ts, latency)
    BY <2>1 DEF HistogramsHold
  <2>3. \A t \in ts : latency[t] \in Nat
    <3>1. Latencies \cup {0} \in SUBSET Nat
      BY TraceRegistryAssumption
    <3> QED
      BY <2>1, <3>1 DEF Finished, RegistryInv, TypeOK
  <2>4. \A t \in ts : \A b \in Bucket :
          Belongs(t, b) <=> findBucket(latency[t]) = b
    BY <2>3, BucketIs DEF Belongs
  <2>5. \A b \in Bucket : {t \in ts : Belongs(t, b)}
                            = {t \in ts : findBucket(latency[t]) = b}
    BY <2>4
  <2>6. /\ Spent(ts) = Times(ts, latency)
        /\ {latency[t] : t \in ts} = Speeds(ts, latency)
    BY DEF Spent, Times, Speeds
  <2> HIDE DEF ts, h
  <2>7. /\ h.totalQ = Cardinality(ts)
        /\ \A b \in Bucket :
             h.count[b] = Cardinality({t \in ts : Belongs(t, b)})
        /\ h.totalT = Cardinality(Spent(ts))
        /\ ts # {} => /\ h.min = Min({latency[t] : t \in ts})
                      /\ h.max = Max({latency[t] : t \in ts})
    BY <2>2, <2>5, <2>6 DEF HistogramOf
  <2> QED
    BY <2>7, Zenon DEF ts, h
<1>2. RegistryInv /\ HistogramsHold /\ [Next]_vars => HistogramsHold'
  BY RegistryKept, HistogramsKept
<1> QED
  BY <1>1, <1>2, InitHistograms, RegistryConsistent, PTL DEF Spec

==============================================================================
