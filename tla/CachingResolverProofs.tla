------------------------- MODULE CachingResolverProofs -------------------------
(***************************************************************************)
(* The cache, for any number of questions, callers and records, any        *)
(* capacity and any durations.                                             *)
(***************************************************************************)
EXTENDS CachingResolver, FiniteSetTheorems, TLAPS

(***************************************************************************)
(* Lemmas about the helpers.                                               *)
(***************************************************************************)
\* Rounding a duration down to whole seconds gives a number of seconds that is
\* no longer than it.
LEMMA WholeSeconds ==
  ASSUME NEW d \in Nat
  PROVE  d \div Second \in Nat /\ (d \div Second) * Second <= d
<1>1. Second \in Nat /\ Second > 0
  BY CacheAssumption
<1>2. d \div Second \in Nat
  BY <1>1
<1>3. d = Second * (d \div Second) + (d % Second) /\ d % Second >= 0
  BY <1>1
<1> QED
  BY <1>1, <1>2, <1>3

\* setTTL gives every record of an answer the same TTL.
LEMMA SetTTL ==
  ASSUME NEW ts \in Seq(Nat), NEW d \in Nat
  PROVE  /\ setTTL(ts, d) \in Seq(Nat)
         /\ Len(setTTL(ts, d)) = Len(ts)
         /\ \A i \in 1..Len(ts) : setTTL(ts, d)[i] = d \div Second
<1>1. DOMAIN ts = 1..Len(ts) /\ Len(ts) \in Nat /\ d \div Second \in Nat
  BY WholeSeconds
<1> QED
  BY <1>1 DEF setTTL

\* The TTL of a nonempty answer, as a duration, and its cap.
LEMMA FirstTTL ==
  ASSUME NEW ts \in Seq(Nat), Len(ts) # 0
  PROVE  /\ ts[1] \in Nat
         /\ getTTL(ts) \in Nat
         /\ limitTTL(ts) \in Nat /\ limitTTL(ts) <= maxTTL
<1>1. Second \in Nat /\ maxTTL \in Nat
  BY CacheAssumption
<1>2. Len(ts) \in Nat /\ 1 \in 1..Len(ts)
  OBVIOUS
<1>3. ts[1] \in Nat
  BY <1>2
<1>4. ts[1] * Second \in Nat
  BY <1>1, <1>3
<1> QED
  BY <1>1, <1>3, <1>4 DEF getTTL, limitTTL

\* What an allocation returns is memory nothing refers to.
LEMMA NewSliceIsFree == NewSlice \subseteq FreeSlices /\ FreeSlices \subseteq Slice
  BY DEF NewSlice, FreeSlices

(***************************************************************************)
(* The inductive invariant.                                                *)
(***************************************************************************)
\* What a caller knows about its query and, until it has recorded the reply or
\* not, about the reply.
CallerOK ==
  \A c \in Caller :
    /\ pc[c] \in {"lookup", "back", "record"} => question[c] \in Question
    /\ pc[c] = "record" =>
         /\ held[c] \in Slice /\ header[c] \in Header
         /\ Len(header[c].question) = 1 => owner[held[c]] = header[c].question[1]

\* A reply that may still be recorded is nobody else's: it is neither in the map
\* nor held by another caller.
Exclusive ==
  \A c \in Caller : pc[c] = "record" =>
    /\ \A q \in Question : answer[q] # held[c]
    /\ \A d \in Caller \ {c} : held[d] # held[c]

\* The loop of Maintain has only entries of the map left to visit, and no entry
\* is empty.
LoopOK == todo \subseteq Cached

NonEmpty == \A q \in Cached : Len(ttl[answer[q]]) # 0

Inv == TypeOK /\ CallerOK /\ Exclusive /\ LoopOK /\ NonEmpty

\* The invariant holds at the start.
LEMMA InitInv == Init => Inv
<1> SUFFICES ASSUME Init PROVE Inv
  OBVIOUS
<1>1. tick \in BOOLEAN
  BY Zenon DEF Init
<1>2. 0 \in 0..(maintenancePeriod - 1)
  BY CacheAssumption
<1>3. TypeOK
  BY <1>1, <1>2 DEF Init, TypeOK
<1>4. Cached = {}
  BY DEF Init, Cached
<1> QED
  BY <1>3, <1>4 DEF Init, Inv, CallerOK, Exclusive, LoopOK, NonEmpty

\* Every step preserves it.
LEMMA NextInv == Inv /\ [Next]_vars => Inv'
<1> SUFFICES ASSUME Inv, [Next]_vars PROVE Inv'
  OBVIOUS
<1>0. TypeOK /\ CallerOK /\ Exclusive /\ LoopOK /\ NonEmpty
  BY DEF Inv
<1> USE DEF mem, local, history
<1>1. ASSUME NEW c \in Caller, NEW q \in Question \cup {Multi}, Query(c, q)
      PROVE  Inv'
  <2>1. /\ stats' \in [Counter -> Nat]
        /\ pc' \in [Caller -> {"idle", "lookup", "back", "bypass", "record",
                              "return", "write"}]
        /\ pc'[c] = "lookup" => q \in Question
        /\ pc'[c] \in {"lookup", "bypass"}
        /\ \A d \in Caller \ {c} : pc'[d] = pc[d] /\ question'[d] = question[d]
        /\ question' = [question EXCEPT ![c] = q]
        /\ UNCHANGED <<mem, todo, header, held, view, phase, tick, history>>
    <3>1. /\ question' = [question EXCEPT ![c] = q]
          /\ UNCHANGED <<mem, todo, header, held, view, phase, tick, history>>
          /\ \A d \in Caller \ {c} : question'[d] = question[d]
      BY <1>0, <1>1 DEF Query, TypeOK
    <3>2. CASE q = Multi
      <4>1. /\ pc' = [pc EXCEPT ![c] = "bypass"]
            /\ stats' = [stats EXCEPT !["total"] = @ + 1, !["bypassed"] = @ + 1]
        BY <1>1, <3>2 DEF Query
      <4>2. stats' \in [Counter -> Nat]
        BY <1>0, <4>1, SMTT(30) DEF TypeOK, Counter
      <4> QED
        BY <1>0, <3>1, <4>1, <4>2 DEF TypeOK
    <3>3. CASE q # Multi
      <4>1. /\ pc' = [pc EXCEPT ![c] = "lookup"]
            /\ stats' = [stats EXCEPT !["total"] = @ + 1]
        BY <1>1, <3>3 DEF Query, Count
      <4>2. stats' \in [Counter -> Nat]
        BY <1>0, <4>1 DEF TypeOK, Counter
      <4> QED
        BY <1>0, <3>1, <3>3, <4>1, <4>2 DEF TypeOK
    <3> QED
      BY <3>2, <3>3
  <2>4. TypeOK'
    BY <1>0, <2>1 DEF TypeOK
  <2>2. CallerOK'
    <3> SUFFICES ASSUME NEW d \in Caller
                 PROVE  /\ pc'[d] \in {"lookup", "back", "record"}
                             => question'[d] \in Question
                        /\ pc'[d] = "record" =>
                             /\ held'[d] \in Slice /\ header'[d] \in Header
                             /\ Len(header'[d].question) = 1
                                  => owner'[held'[d]] = header'[d].question[1]
      BY DEF CallerOK
    <3>1. CASE d = c
      BY <1>0, <2>1, <3>1 DEF TypeOK
    <3>2. CASE d # c
      BY <1>0, <2>1, <3>2 DEF CallerOK
    <3> QED
      BY <3>1, <3>2
  <2>3. Exclusive'
    BY <1>0, <2>1 DEF TypeOK, Exclusive
  <2> QED
    BY <1>0, <2>1, <2>4, <2>2, <2>3 DEF Inv, LoopOK, NonEmpty, Cached
<1>2. ASSUME NEW c \in Caller, Hit(c) PROVE Inv'
  <2> DEFINE s == answer[question[c]]
  <2>1. s \in Slice
    BY <1>0, <1>2 DEF Hit, Cached, TypeOK
  <2>2. TypeOK'
    <3>1. held' \in [Caller -> Slice \cup {None}]
      BY <1>0, <1>2, <2>1 DEF Hit, TypeOK
    <3>2. view' \in [Caller -> Nat]
      <4>1. Len(ttl[s]) \in Nat
        BY <1>0, <2>1 DEF TypeOK
      <4> QED
        BY <1>0, <1>2, <4>1 DEF Hit, TypeOK
    <3>3. stats' \in [Counter -> Nat]
      BY <1>0, <1>2 DEF Hit, TypeOK, Count, Counter
    <3>4. pc' \in [Caller -> {"idle", "lookup", "back", "bypass", "record",
                             "return", "write"}]
      BY <1>0, <1>2 DEF Hit, TypeOK
    <3> QED
      BY <1>0, <1>2, <3>1, <3>2, <3>3, <3>4 DEF Hit, TypeOK
  <2>3. CallerOK'
    BY <1>0, <1>2 DEF Hit, TypeOK, CallerOK
  <2>4. Exclusive'
    BY <1>0, <1>2 DEF Hit, Cached, TypeOK, Exclusive
  <2> QED
    BY <1>0, <1>2, <2>2, <2>3, <2>4 DEF Hit, Inv, LoopOK, NonEmpty, Cached
<1>3. ASSUME NEW c \in Caller, Miss(c) PROVE Inv'
  <2>1. TypeOK'
    BY <1>0, <1>3 DEF Miss, TypeOK, Count, Counter
  <2>2. CallerOK'
    BY <1>0, <1>3 DEF Miss, TypeOK, CallerOK
  <2>3. Exclusive'
    BY <1>0, <1>3 DEF Miss, TypeOK, Exclusive
  <2> QED
    BY <1>0, <1>3, <2>1, <2>2, <2>3 DEF Miss, Inv, LoopOK, NonEmpty, Cached
<1>4. ASSUME NEW c \in Caller, BackReply(c) PROVE Inv'
  <2>1. PICK h \in BackHeader, ts \in BackTTLs, o \in Question, s \in NewSlice :
          /\ Len(h.question) = 1 => o = h.question[1]
          /\ ttl' = [ttl EXCEPT ![s] = ts]
          /\ owner' = [owner EXCEPT ![s] = o]
          /\ held' = [held EXCEPT ![c] = s]
          /\ view' = [view EXCEPT ![c] = Len(ts)]
          /\ IF pc[c] = "back"
               THEN /\ pc' = [pc EXCEPT ![c] = "record"]
                    /\ header' = [header EXCEPT ![c] = h]
               ELSE /\ pc' = [pc EXCEPT ![c] = "return"]
                    /\ UNCHANGED header
    BY <1>4 DEF BackReply
  <2>2. /\ s \in Slice /\ s \in FreeSlices /\ h \in Header
        /\ ts \in Seq(Nat) /\ Len(ts) \in Nat
    BY NewSliceIsFree, CacheAssumption
  <2>3. UNCHANGED <<answer, todo, question, stats, phase, tick, history>>
    BY <1>4 DEF BackReply
  <2>4. TypeOK'
    <3>1. pc' \in [Caller -> {"idle", "lookup", "back", "bypass", "record",
                             "return", "write"}]
          /\ header' \in [Caller -> Header \cup {None}]
      BY <1>0, <2>1, <2>2 DEF TypeOK
    <3> QED
      BY <1>0, <2>1, <2>2, <2>3, <3>1 DEF TypeOK
  <2>5. \A d \in Caller : pc'[d] = "record" /\ d # c =>
           /\ pc[d] = "record" /\ held'[d] = held[d] /\ header'[d] = header[d]
           /\ held[d] # s /\ owner'[held[d]] = owner[held[d]]
    BY <1>0, <2>1, <2>2 DEF TypeOK, FreeSlices
  <2>6. pc'[c] = "record" =>
           /\ pc[c] = "back" /\ held'[c] = s /\ header'[c] = h /\ owner'[s] = o
    BY <1>0, <2>1, <2>2 DEF TypeOK
  <2>7. CallerOK'
    <3> SUFFICES ASSUME NEW d \in Caller
                 PROVE  /\ pc'[d] \in {"lookup", "back", "record"}
                             => question'[d] \in Question
                        /\ pc'[d] = "record" =>
                             /\ held'[d] \in Slice /\ header'[d] \in Header
                             /\ Len(header'[d].question) = 1
                                  => owner'[held'[d]] = header'[d].question[1]
      BY DEF CallerOK
    <3>1. CASE d = c
      BY <1>0, <1>4, <2>1, <2>2, <2>3, <2>6, <3>1 DEF CallerOK, TypeOK, BackReply
    <3>2. CASE d # c
      BY <1>0, <2>1, <2>3, <2>5, <3>2 DEF CallerOK, TypeOK
    <3> QED
      BY <3>1, <3>2
  <2>8. Exclusive'
    <3> SUFFICES ASSUME NEW d \in Caller, pc'[d] = "record"
                 PROVE  /\ \A q \in Question : answer'[q] # held'[d]
                        /\ \A e \in Caller \ {d} : held'[e] # held'[d]
      BY DEF Exclusive
    <3>1. CASE d = c
      BY <1>0, <2>1, <2>2, <2>3, <2>6, <3>1 DEF FreeSlices, TypeOK
    <3>2. CASE d # c
      BY <1>0, <2>1, <2>3, <2>5, <3>2 DEF Exclusive, TypeOK
    <3> QED
      BY <3>1, <3>2
  <2>9. NonEmpty'
    BY <1>0, <2>1, <2>2, <2>3 DEF NonEmpty, Cached, FreeSlices, TypeOK
  <2> QED
    BY <1>0, <2>3, <2>4, <2>7, <2>8, <2>9 DEF Inv, LoopOK, Cached
<1>5. ASSUME NEW c \in Caller, BackError(c) PROVE Inv'
  <2>1. TypeOK'
    BY <1>0, <1>5 DEF BackError, TypeOK
  <2>2. CallerOK' /\ Exclusive'
    BY <1>0, <1>5 DEF BackError, TypeOK, CallerOK, Exclusive
  <2> QED
    BY <1>0, <1>5, <2>1, <2>2 DEF BackError, Inv, LoopOK, NonEmpty, Cached
<1>6. ASSUME NEW c \in Caller, Skip(c) PROVE Inv'
  <2>1. TypeOK'
    BY <1>0, <1>6 DEF Skip, TypeOK
  <2>2. CallerOK' /\ Exclusive'
    BY <1>0, <1>6 DEF Skip, TypeOK, CallerOK, Exclusive
  <2> QED
    BY <1>0, <1>6, <2>1, <2>2 DEF Skip, Inv, LoopOK, NonEmpty, Cached
<1>7. ASSUME NEW c \in Caller, Record(c) PROVE Inv'
  <2> DEFINE s == held[c]
             q == question[c]
             d == limitTTL(ttl[s])
  <2>1. s \in Slice /\ q \in Question /\ Len(ttl[s]) # 0 /\ ttl[s] \in Seq(Nat)
    BY <1>0, <1>7 DEF Record, CallerOK, Cacheable, wantToCache, TypeOK
  <2>2. d \in Nat
    BY <2>1, FirstTTL
  <2>3. setTTL(ttl[s], d) \in Seq(Nat) /\ Len(setTTL(ttl[s], d)) = Len(ttl[s])
    BY <2>1, <2>2, SetTTL
  <2>4. /\ ttl' = [ttl EXCEPT ![s] = setTTL(ttl[s], d)]
        /\ answer' = [answer EXCEPT ![q] = s]
        /\ stats' = [stats EXCEPT !["recorded"] = @ + 1]
        /\ pc' = [pc EXCEPT ![c] = "return"]
        /\ header' = [header EXCEPT ![c] = None]
        /\ age' = [age EXCEPT ![q] = 0]
        /\ granted' = [granted EXCEPT ![q] = d]
        /\ size' = [size EXCEPT ![q] = Len(ttl[s])]
        /\ UNCHANGED <<owner, todo, question, held, view, phase, tick>>
        /\ pc[c] = "record" /\ todo = {}
    BY <1>7 DEF Record, Count
  <2>5. Len(ttl[s]) \in Nat
    BY <2>1
  <2> HIDE DEF d
  <2>6. TypeOK'
    <3>1. ttl' \in [Slice -> Seq(Nat)] /\ answer' \in [Question -> Slice \cup {None}]
      BY <1>0, <2>1, <2>3, <2>4 DEF TypeOK
    <3>2. stats' \in [Counter -> Nat]
      BY <1>0, <2>4 DEF TypeOK, Counter
    <3>3. /\ age' \in [Question -> Nat] /\ granted' \in [Question -> Nat]
          /\ size' \in [Question -> Nat]
      BY <1>0, <2>1, <2>2, <2>4, <2>5 DEF TypeOK
    <3>4. /\ pc' \in [Caller -> {"idle", "lookup", "back", "bypass", "record",
                                "return", "write"}]
          /\ header' \in [Caller -> Header \cup {None}]
      BY <1>0, <2>4 DEF TypeOK
    <3> QED
      BY <1>0, <2>4, <3>1, <3>2, <3>3, <3>4 DEF TypeOK
  <2>7. CallerOK'
    BY <1>0, <2>4 DEF CallerOK, TypeOK
  <2>8. Exclusive'
    <3> SUFFICES ASSUME NEW e \in Caller, pc'[e] = "record"
                 PROVE  /\ \A p \in Question : answer'[p] # held'[e]
                        /\ \A f \in Caller \ {e} : held'[f] # held'[e]
      BY DEF Exclusive
    <3>1. e # c /\ pc[e] = "record"
      BY <1>0, <2>4 DEF TypeOK
    <3>2. held[c] # held[e]
      BY <1>0, <3>1 DEF Exclusive
    <3> QED
      BY <1>0, <2>1, <2>4, <3>1, <3>2 DEF Exclusive, TypeOK
  <2>9. NonEmpty'
    <3> SUFFICES ASSUME NEW p \in Question, answer'[p] # None
                 PROVE  Len(ttl'[answer'[p]]) # 0
      BY DEF NonEmpty, Cached
    <3>1. CASE p = q
      BY <1>0, <2>1, <2>3, <2>4, <3>1 DEF TypeOK
    <3>2. CASE p # q
      BY <1>0, <2>1, <2>4, <3>2 DEF TypeOK, NonEmpty, Cached, Exclusive
    <3> QED
      BY <3>1, <3>2
  <2> QED
    BY <1>0, <2>4, <2>6, <2>7, <2>8, <2>9 DEF Inv, LoopOK
<1>8. ASSUME NEW c \in Caller, Truncate(c) PROVE Inv'
  <2>1. TypeOK'
    BY <1>0, <1>8 DEF Truncate, TypeOK
  <2>2. CallerOK' /\ Exclusive'
    BY <1>0, <1>8 DEF Truncate, TypeOK, CallerOK, Exclusive
  <2> QED
    BY <1>0, <1>8, <2>1, <2>2 DEF Truncate, Inv, LoopOK, NonEmpty, Cached
<1>9. ASSUME NEW c \in Caller, WriteMsg(c) PROVE Inv'
  <2>1. TypeOK'
    BY <1>0, <1>9 DEF WriteMsg, TypeOK
  <2>2. CallerOK'
    BY <1>0, <1>9 DEF WriteMsg, TypeOK, CallerOK
  <2>3. Exclusive'
    BY <1>0, <1>9, CacheAssumption DEF WriteMsg, TypeOK, CallerOK, Exclusive
  <2> QED
    BY <1>0, <1>9, <2>1, <2>2, <2>3 DEF WriteMsg, Inv, LoopOK, NonEmpty, Cached
<1>10. CASE GCStart
  <2>1. tick' \in BOOLEAN
    BY <1>10, Zenon DEF GCStart
  <2>2. TypeOK'
    BY <1>0, <1>10, <2>1 DEF GCStart, TypeOK, Cached
  <2> QED
    BY <1>0, <1>10, <2>2
    DEF GCStart, Inv, LoopOK, NonEmpty, CallerOK, Exclusive, Cached
<1>11. ASSUME NEW q \in Question, GCEntry(q) PROVE Inv'
  <2> DEFINE old == answer[q]
             newTTL == getTTL(ttl[old]) - maintenancePeriod
  <2>1. old \in Slice /\ q \in Cached /\ q \in todo /\ ttl[old] \in Seq(Nat)
        /\ Len(ttl[old]) # 0 /\ Len(ttl[old]) \in Nat
    BY <1>0, <1>11
    DEF GCEntry, Visit, NewTTL, AgedCopy, Drop,
        LoopOK, NonEmpty, Cached, TypeOK
  <2>2. todo' = todo \ {q} /\ UNCHANGED <<local, stats, phase, tick>>
    BY <1>11 DEF GCEntry, Visit, NewTTL, AgedCopy, Drop
  <2>3. newTTL \in Int
    BY <2>1, FirstTTL, CacheAssumption
  <2>4. CASE newTTL > 0
    <3>1. PICK s \in NewSlice :
            /\ ttl' = [ttl EXCEPT ![s] = setTTL(ttl[old], newTTL)]
            /\ owner' = [owner EXCEPT ![s] = owner[old]]
            /\ answer' = [answer EXCEPT ![q] = s]
      BY <1>11, <2>3, <2>4 DEF GCEntry, Visit, NewTTL, AgedCopy, Drop
    <3>2. UNCHANGED history
      BY <1>11, <2>3, <2>4 DEF GCEntry, Visit, NewTTL, AgedCopy, Drop
    <3>3. newTTL \in Nat
      BY <2>3, <2>4
    <3> HIDE DEF newTTL
    <3>4. /\ setTTL(ttl[old], newTTL) \in Seq(Nat)
          /\ Len(setTTL(ttl[old], newTTL)) = Len(ttl[old])
      BY <2>1, <3>3, SetTTL
    <3>5. s \in Slice /\ s \in FreeSlices /\ s # None
      BY NewSliceIsFree, CacheAssumption
    <3>6. TypeOK'
      BY <1>0, <2>1, <2>2, <3>1, <3>2, <3>4, <3>5 DEF TypeOK
    <3>7. CallerOK' /\ Exclusive'
      BY <1>0, <2>1, <2>2, <3>1, <3>5 DEF CallerOK, Exclusive, FreeSlices, TypeOK
    <3>8. LoopOK'
      BY <1>0, <2>2, <3>1, <3>5 DEF LoopOK, Cached, TypeOK
    <3>9. NonEmpty'
      BY <1>0, <2>1, <3>1, <3>4, <3>5 DEF NonEmpty, Cached, FreeSlices, TypeOK
    <3> QED
      BY <3>6, <3>7, <3>8, <3>9 DEF Inv
  <2>5. CASE newTTL <= 0
    <3>1. Delete(q) /\ UNCHANGED <<ttl, owner>>
      BY <1>11, <2>3, <2>5 DEF GCEntry, Visit, NewTTL, AgedCopy, Drop
    <3> HIDE DEF newTTL
    <3>2. TypeOK'
      BY <1>0, <2>2, <3>1 DEF Delete, TypeOK
    <3>3. CallerOK' /\ Exclusive'
      BY <1>0, <2>2, <3>1, CacheAssumption DEF Delete, CallerOK, Exclusive, TypeOK
    <3>4. LoopOK' /\ NonEmpty'
      BY <1>0, <2>2, <3>1 DEF Delete, LoopOK, NonEmpty, Cached, TypeOK
    <3> QED
      BY <3>2, <3>3, <3>4 DEF Inv
  <2> QED
    BY <2>3, <2>4, <2>5
<1>12. CASE FlushCache
  <2>1. TypeOK'
    BY <1>0, <1>12 DEF FlushCache, TypeOK
  <2>2. CallerOK' /\ Exclusive'
    BY <1>0, <1>12, CacheAssumption DEF FlushCache, CallerOK, Exclusive, TypeOK
  <2> QED
    BY <1>0, <1>12, <2>1, <2>2 DEF FlushCache, Inv, LoopOK, NonEmpty, Cached
<1>13. CASE TimePasses
  <2>1. tick' \in BOOLEAN
    BY <1>13, Zenon DEF TimePasses
  <2>2. phase' \in 0..(maintenancePeriod - 1)
    BY <1>0, <1>13, CacheAssumption DEF TimePasses, TypeOK
  <2>3. age' \in [Question -> Nat]
    BY <1>0, <1>13 DEF TimePasses, TypeOK
  <2>4. TypeOK'
    BY <1>0, <1>13, <2>1, <2>2, <2>3 DEF TimePasses, TypeOK
  <2> QED
    BY <1>0, <1>13, <2>4
    DEF TimePasses, Inv, LoopOK, NonEmpty, CallerOK, Exclusive, Cached
<1>14. CASE UNCHANGED vars
  BY <1>0, <1>14
  DEF vars, Inv, TypeOK, LoopOK, NonEmpty, CallerOK, Exclusive, Cached
<1> QED
  BY <1>1, <1>2, <1>3, <1>4, <1>5, <1>6, <1>7, <1>8, <1>9, <1>10, <1>11, <1>12,
     <1>13, <1>14 DEF Next

\* The variables keep their types, whatever the callers, the maintenance loop
\* and flushes do to the memory they share.
THEOREM TypeCorrect == Spec => []TypeOK
<1>1. Inv => TypeOK
  BY DEF Inv
<1> QED
  BY <1>1, InitInv, NextInv, PTL DEF Spec

\* The invariant holds in every reachable state.
LEMMA InvHolds == Spec => []Inv
  BY InitInv, NextInv, PTL DEF Spec

(***************************************************************************)
(* Where the entries of the map come from.                                 *)
(***************************************************************************)
\* A step leaves the entry of q and its records alone,
Kept(q) ==
  /\ answer[q] # None /\ answer'[q] = answer[q]
  /\ ttl'[answer[q]] = ttl[answer[q]] /\ owner'[answer[q]] = owner[answer[q]]
  /\ granted'[q] = granted[q] /\ size'[q] = size[q]

\* records a reply as the entry of q,
RecordedNow(q) == \E c \in Caller : Record(c) /\ question[c] = q

\* or replaces the entry of q by an aged copy.
Aged(q) ==
  /\ answer[q] # None /\ answer'[q] # None
  /\ GCEntry(q) /\ getTTL(ttl[answer[q]]) - maintenancePeriod \in Nat
  /\ ttl'[answer'[q]] = setTTL(ttl[answer[q]],
                              getTTL(ttl[answer[q]]) - maintenancePeriod)
  /\ owner'[answer'[q]] = owner[answer[q]]
  /\ UNCHANGED history

\* These are the only ways for q to have an entry after a step.
LEMMA EntryStep ==
  ASSUME Inv, [Next]_vars, NEW q \in Question, answer'[q] # None
  PROVE  Kept(q) \/ RecordedNow(q) \/ Aged(q)
<1>0. TypeOK /\ CallerOK /\ Exclusive /\ LoopOK /\ NonEmpty
  BY DEF Inv
<1> USE DEF mem, history
<1>1. ASSUME NEW c \in Caller, BackReply(c) PROVE Kept(q)
  <2>1. PICK s \in NewSlice, o \in Question, ts \in BackTTLs :
          ttl' = [ttl EXCEPT ![s] = ts] /\ owner' = [owner EXCEPT ![s] = o]
    BY <1>1, ZenonT(40) DEF BackReply
  <2>2. answer[q] # s
    BY <2>1, NewSliceIsFree DEF FreeSlices
  <2> QED
    BY <1>0, <1>1, <2>1, <2>2 DEF BackReply, Kept, TypeOK
<1>2. ASSUME NEW c \in Caller, Record(c) PROVE Kept(q) \/ RecordedNow(q)
  <2>1. CASE question[c] = q
    BY <1>2, <2>1 DEF RecordedNow
  <2>2. CASE question[c] # q
    <3>1. answer[q] # held[c]
      BY <1>0, <1>2 DEF Record, Exclusive
    <3> QED
      BY <1>0, <1>2, <2>2, <3>1 DEF Record, Kept, TypeOK
  <2> QED
    BY <2>1, <2>2
<1>3. ASSUME NEW p \in Question, GCEntry(p) PROVE Kept(q) \/ Aged(q)
  <2> DEFINE newTTL == getTTL(ttl[answer[p]]) - maintenancePeriod
  <2>1. answer[p] \in Slice /\ ttl[answer[p]] \in Seq(Nat) /\ Len(ttl[answer[p]]) # 0
    BY <1>0, <1>3
    DEF GCEntry, Visit, NewTTL, AgedCopy, Drop,
        LoopOK, NonEmpty, Cached, TypeOK
  <2>2. newTTL \in Int
    BY <2>1, FirstTTL, CacheAssumption
  <2>3. CASE newTTL > 0
    <3>1. PICK s \in NewSlice :
            /\ ttl' = [ttl EXCEPT ![s] = setTTL(ttl[answer[p]], newTTL)]
            /\ owner' = [owner EXCEPT ![s] = owner[answer[p]]]
            /\ answer' = [answer EXCEPT ![p] = s]
      BY <1>3, <2>2, <2>3 DEF GCEntry, Visit, NewTTL, AgedCopy, Drop
    <3>2. UNCHANGED history /\ newTTL \in Nat
      BY <1>3, <2>2, <2>3 DEF GCEntry, Visit, NewTTL, AgedCopy, Drop
    <3>3. s \in Slice /\ answer[q] # s
      BY NewSliceIsFree DEF FreeSlices
    <3> HIDE DEF newTTL
    <3>4. CASE p = q
      <4>1. answer'[q] = s /\ ttl'[s] = setTTL(ttl[answer[q]], newTTL)
            /\ owner'[s] = owner[answer[q]]
        BY <1>0, <3>1, <3>3, <3>4 DEF TypeOK
      <4>2. answer[q] # None
        BY <2>1, <3>4, CacheAssumption
      <4> QED
        BY <1>3, <3>2, <3>4, <4>1, <4>2 DEF Aged, newTTL
    <3>5. CASE p # q
      BY <1>0, <3>1, <3>2, <3>3, <3>5 DEF Kept, TypeOK
    <3> QED
      BY <3>4, <3>5
  <2>4. CASE newTTL <= 0
    <3>1. Delete(p) /\ UNCHANGED <<ttl, owner>>
      BY <1>3, <2>2, <2>4 DEF GCEntry, Visit, NewTTL, AgedCopy, Drop
    <3>2. p # q
      BY <1>0, <3>1 DEF Delete, TypeOK
    <3> QED
      BY <1>0, <3>1, <3>2 DEF Delete, Kept, TypeOK
  <2> QED
    BY <2>2, <2>3, <2>4
<1>4. CASE FlushCache
  BY <1>4 DEF FlushCache
<1>5. CASE TimePasses
  BY <1>5 DEF TimePasses, Kept
<1>6. CASE UNCHANGED <<mem, history>>
  BY <1>6 DEF Kept
<1>7. ASSUME NEW c \in Caller,
             \/ \E p \in Question \cup {Multi} : Query(c, p)
             \/ Hit(c) \/ Miss(c) \/ BackError(c) \/ Skip(c)
             \/ Truncate(c) \/ WriteMsg(c)
      PROVE  UNCHANGED <<mem, history>>
  BY <1>7 DEF Query, Hit, Miss, BackError, Skip, Truncate, WriteMsg
<1>8. CASE GCStart
  BY <1>8, <1>6 DEF GCStart
<1>9. CASE UNCHANGED vars
  BY <1>9, <1>6 DEF vars
<1> QED
  BY <1>1, <1>2, <1>3, <1>4, <1>5, <1>6, <1>7, <1>8, <1>9 DEF Next

\* What RecordedNow and Aged make of the entry.
LEMMA RecordedEntry ==
  ASSUME Inv, NEW q \in Question, RecordedNow(q)
  PROVE  /\ answer'[q] \in Slice /\ owner'[answer'[q]] = q
         /\ granted'[q] \in Nat /\ granted'[q] <= maxTTL /\ age'[q] = 0
         /\ ttl'[answer'[q]] \in Seq(Nat) /\ Len(ttl'[answer'[q]]) # 0
         /\ \A i \in 1..Len(ttl'[answer'[q]]) :
              ttl'[answer'[q]][i] = granted'[q] \div Second
         /\ Len(ttl'[answer'[q]]) = size'[q]
<1>0. TypeOK /\ CallerOK
  BY DEF Inv
<1>1. PICK c \in Caller : Record(c) /\ question[c] = q
  BY DEF RecordedNow
<1> DEFINE s == held[c]
           d == limitTTL(ttl[s])
<1>2. /\ s \in Slice /\ ttl[s] \in Seq(Nat) /\ Len(ttl[s]) # 0 /\ owner[s] = q
  BY <1>0, <1>1 DEF Record, CallerOK, Cacheable, wantToCache, TypeOK
<1>3. d \in Nat /\ d <= maxTTL
  BY <1>2, FirstTTL
<1>4. /\ ttl' = [ttl EXCEPT ![s] = setTTL(ttl[s], d)]
      /\ answer' = [answer EXCEPT ![q] = s]
      /\ age' = [age EXCEPT ![q] = 0]
      /\ granted' = [granted EXCEPT ![q] = d]
      /\ size' = [size EXCEPT ![q] = Len(ttl[s])]
      /\ owner' = owner
  BY <1>1 DEF Record
<1> HIDE DEF d
<1>5. /\ answer'[q] = s /\ age'[q] = 0 /\ granted'[q] = d /\ size'[q] = Len(ttl[s])
      /\ ttl'[s] = setTTL(ttl[s], d)
  BY <1>0, <1>2, <1>4 DEF TypeOK
<1>6. /\ setTTL(ttl[s], d) \in Seq(Nat) /\ Len(setTTL(ttl[s], d)) = Len(ttl[s])
      /\ \A i \in 1..Len(ttl[s]) : setTTL(ttl[s], d)[i] = d \div Second
  BY <1>2, <1>3, SetTTL
<1> QED
  BY <1>2, <1>3, <1>4, <1>5, <1>6

(***************************************************************************)
(* Safety of the contents of the cache.                                    *)
(***************************************************************************)
\* The map never has more than maxCacheSize entries.
THEOREM CapacityRespected == Spec => []WithinCapacity
<1>1. Init => WithinCapacity
  <2> SUFFICES ASSUME Init PROVE WithinCapacity
    OBVIOUS
  <2>1. Cached = {}
    BY DEF Init, Cached
  <2> QED
    BY <2>1, FS_EmptySet, CacheAssumption DEF WithinCapacity
<1>2. Inv /\ WithinCapacity /\ [Next]_vars => WithinCapacity'
  <2> SUFFICES ASSUME Inv, WithinCapacity, [Next]_vars PROVE WithinCapacity'
    OBVIOUS
  <2>1. Cached \subseteq Question /\ IsFiniteSet(Cached)
    BY CacheAssumption, FS_Subset DEF Cached
  <2>2. Cardinality(Cached) \in Nat /\ maxCacheSize \in Nat
    BY <2>1, FS_CardinalityType, CacheAssumption
  <2>3. CASE \E q \in Question : RecordedNow(q)
    <3>1. PICK c \in Caller : Record(c) /\ question[c] \in Question
      BY <2>3 DEF RecordedNow
    <3>2. Cardinality(Cached) < maxCacheSize
      BY <3>1 DEF Record, HasRoom
    <3>3. Cached' \subseteq Cached \cup {question[c]}
      BY <3>1 DEF Record, Cached, Inv, TypeOK
    <3>4. /\ IsFiniteSet(Cached \cup {question[c]})
          /\ Cardinality(Cached \cup {question[c]}) <= Cardinality(Cached) + 1
      BY <2>1, <2>2, FS_AddElement
    <3>5. Cardinality(Cached') <= Cardinality(Cached \cup {question[c]})
      BY <3>3, <3>4, FS_Subset
    <3>6. Cardinality(Cached') \in Nat /\ Cardinality(Cached \cup {question[c]}) \in Nat
      BY <3>3, <3>4, FS_Subset, FS_CardinalityType
    <3> QED
      BY <2>2, <3>2, <3>4, <3>5, <3>6 DEF WithinCapacity
  <2>4. CASE ~\E q \in Question : RecordedNow(q)
    <3>1. Cached' \subseteq Cached
      BY <2>4, EntryStep DEF Cached, Kept, Aged
    <3>2. Cardinality(Cached') <= Cardinality(Cached) /\ Cardinality(Cached') \in Nat
      BY <2>1, <3>1, FS_Subset, FS_CardinalityType
    <3> QED
      BY <2>2, <3>2 DEF WithinCapacity
  <2> QED
    BY <2>3, <2>4
<1> QED
  BY <1>1, <1>2, InvHolds, PTL DEF Spec

\* Every entry answers the question it is filed under.
THEOREM AnswersMatch == Spec => []AnswerMatchesQuestion
<1>1. Init => AnswerMatchesQuestion
  BY DEF Init, AnswerMatchesQuestion, Cached
<1>2. Inv /\ AnswerMatchesQuestion /\ [Next]_vars => AnswerMatchesQuestion'
  <2> SUFFICES ASSUME Inv, AnswerMatchesQuestion, [Next]_vars,
                      NEW q \in Question, answer'[q] # None
               PROVE  owner'[answer'[q]] = q
    BY DEF AnswerMatchesQuestion, Cached
  <2>1. CASE RecordedNow(q)
    BY <2>1, RecordedEntry
  <2>2. CASE Kept(q)
    BY <2>2 DEF Kept, AnswerMatchesQuestion, Cached
  <2>3. CASE Aged(q)
    BY <2>3 DEF Aged, AnswerMatchesQuestion, Cached
  <2> QED
    BY <2>1, <2>2, <2>3, EntryStep
<1> QED
  BY <1>1, <1>2, InvHolds, PTL DEF Spec

\* An entry keeps all its records, however replies that share them are cut.
THEOREM EntriesComplete == Spec => []CachedComplete
<1>1. Init => CachedComplete
  BY DEF Init, CachedComplete, Cached
<1>2. Inv /\ CachedComplete /\ [Next]_vars => CachedComplete'
  <2> SUFFICES ASSUME Inv, CachedComplete, [Next]_vars,
                      NEW q \in Question, answer'[q] # None
               PROVE  Len(ttl'[answer'[q]]) = size'[q]
    BY DEF CachedComplete, Cached
  <2>1. CASE RecordedNow(q)
    BY <2>1, RecordedEntry
  <2>2. CASE Kept(q)
    BY <2>2 DEF Kept, CachedComplete, Cached
  <2>3. CASE Aged(q)
    <3>1. ttl[answer[q]] \in Seq(Nat)
      BY <2>3 DEF Aged, Inv, TypeOK
    <3>2. Len(ttl'[answer'[q]]) = Len(ttl[answer[q]])
      BY <2>3, <3>1, SetTTL DEF Aged
    <3> QED
      BY <2>3, <3>2 DEF Aged, CachedComplete, Cached, history
  <2> QED
    BY <2>1, <2>2, <2>3, EntryStep
<1> QED
  BY <1>1, <1>2, InvHolds, PTL DEF Spec

\* The records of a reply do not change between the moment Query returns it and
\* the moment it is written to the client.
THEOREM HeldRRsAreImmutable == Spec => HeldRRsImmutable
<1>1. Inv /\ [Next]_vars => [HeldUnchanged]_vars
  <2> SUFFICES ASSUME Inv, Next, NEW c \in Caller,
                      pc[c] \in {"return", "write"}, held[c] # None
               PROVE  /\ ttl'[held[c]] = ttl[held[c]]
                      /\ owner'[held[c]] = owner[held[c]]
    BY DEF HeldUnchanged
  <2>0. TypeOK /\ Exclusive /\ CallerOK
    BY DEF Inv
  <2>1. ASSUME NEW s \in NewSlice PROVE held[c] # s
    BY <2>1, NewSliceIsFree DEF FreeSlices
  <2>2. ASSUME NEW e \in Caller, BackReply(e)
        PROVE  ttl'[held[c]] = ttl[held[c]] /\ owner'[held[c]] = owner[held[c]]
    BY <2>0, <2>1, <2>2 DEF BackReply, TypeOK
  <2>3. ASSUME NEW e \in Caller, Record(e)
        PROVE  ttl'[held[c]] = ttl[held[c]] /\ owner'[held[c]] = owner[held[c]]
    <3>1. e # c /\ held[c] # held[e]
      BY <2>0, <2>3 DEF Record, Exclusive
    <3> QED
      BY <2>0, <2>3, <3>1 DEF Record, TypeOK
  <2>4. ASSUME NEW q \in Question, GCEntry(q)
        PROVE  ttl'[held[c]] = ttl[held[c]] /\ owner'[held[c]] = owner[held[c]]
    BY <2>0, <2>1, <2>4 DEF GCEntry, Visit, NewTTL, AgedCopy, Drop, TypeOK
  <2>5. ASSUME UNCHANGED <<ttl, owner>>
        PROVE  ttl'[held[c]] = ttl[held[c]] /\ owner'[held[c]] = owner[held[c]]
    BY <2>5
  <2>6. ASSUME NEW e \in Caller,
               \/ \E p \in Question \cup {Multi} : Query(e, p)
               \/ Hit(e) \/ Miss(e) \/ BackError(e) \/ Skip(e)
               \/ Truncate(e) \/ WriteMsg(e)
        PROVE  UNCHANGED <<ttl, owner>>
    BY <2>6 DEF Query, Hit, Miss, BackError, Skip, Truncate, WriteMsg, mem
  <2>7. GCStart \/ FlushCache \/ TimePasses => UNCHANGED <<ttl, owner>>
    BY DEF GCStart, FlushCache, TimePasses, mem
  <2> QED
    BY <2>2, <2>3, <2>4, <2>5, <2>6, <2>7 DEF Next
<1> QED
  BY <1>1, InvHolds, PTL DEF Spec, HeldRRsImmutable

(***************************************************************************)
(* Ageing.                                                                 *)
(***************************************************************************)
\* The durations that the ageing of an entry is about.
LEMMA EntryTTL ==
  ASSUME Inv, NEW q \in Question, answer[q] # None
  PROVE  /\ answer[q] \in Slice /\ ttl[answer[q]] \in Seq(Nat)
         /\ Len(ttl[answer[q]]) # 0 /\ getTTL(ttl[answer[q]]) \in Nat
<1>1. /\ answer[q] \in Slice /\ ttl[answer[q]] \in Seq(Nat)
      /\ Len(ttl[answer[q]]) # 0
  BY DEF Inv, TypeOK, NonEmpty, Cached
<1> QED
  BY <1>1, FirstTTL

Prompt == tick \/ todo # {} => phase <= MaxLag

\* A tick is pending, or a GC running, only shortly after the tick.
LEMMA PromptHolds == Spec => []Prompt
<1>1. Init => Prompt
  BY DEF Init, Prompt
<1>2. Inv /\ Prompt /\ [Next]_vars => Prompt'
  <2> SUFFICES ASSUME Inv, Prompt, [Next]_vars PROVE Prompt'
    OBVIOUS
  <2>1. CASE TimePasses
    <3>1. phase \in Nat /\ MaxLag \in Nat /\ maintenancePeriod \in Nat
      BY CacheAssumption DEF Inv, TypeOK
    <3>2. CASE phase + 1 = maintenancePeriod
      BY <2>1, <3>1, <3>2 DEF TimePasses, Prompt
    <3>3. CASE phase + 1 # maintenancePeriod
      <4>1. /\ tick' = tick /\ todo' = todo /\ phase' = phase + 1
            /\ tick \/ todo # {} => phase < MaxLag
        BY <2>1, <3>3 DEF TimePasses, Inv, TypeOK
      <4> QED
        BY <3>1, <4>1 DEF Prompt
    <3> QED
      BY <3>2, <3>3
  <2>2. CASE GCStart
    BY <2>2 DEF GCStart, Prompt
  <2>3. ASSUME NEW q \in Question, GCEntry(q) PROVE Prompt'
    BY <2>3 DEF GCEntry, Visit, NewTTL, AgedCopy, Drop, Prompt
  <2>4. CASE UNCHANGED <<tick, todo, phase>>
    BY <2>4 DEF Prompt
  <2>5. ASSUME NEW c \in Caller,
               \/ \E p \in Question \cup {Multi} : Query(c, p)
               \/ Hit(c) \/ Miss(c) \/ BackReply(c) \/ BackError(c) \/ Skip(c)
               \/ Record(c) \/ Truncate(c) \/ WriteMsg(c)
        PROVE  UNCHANGED <<tick, todo, phase>>
    BY <2>5 DEF Query, Hit, Miss, BackReply, BackError, Skip, Record, Truncate,
                WriteMsg
  <2>6. FlushCache \/ UNCHANGED vars => UNCHANGED <<tick, todo, phase>>
    BY DEF FlushCache, vars
  <2> QED
    BY <2>1, <2>2, <2>3, <2>4, <2>5, <2>6 DEF Next
<1> QED
  BY <1>1, <1>2, InvHolds, PTL DEF Spec

\* The sum of two durations is one.
LEMMA NatSum == \A a, b \in Nat : a + b \in Nat
  OBVIOUS

\* The entries that neither a recording nor the loop touches: their ages and
\* the time they are due for go on together.
LEMMA LagKept ==
  ASSUME Inv, [Next]_vars, NEW q \in Question, Kept(q), ~RecordedNow(q)
  PROVE  /\ age'[q] \in Nat /\ Due(q) \in Nat /\ Due(q)' \in Nat
         /\ age'[q] - age[q] = Due(q)' - Due(q)
<1> DEFINE P == maintenancePeriod
<1>0. /\ P \in Nat /\ MaxLag \in Nat /\ MaxLag < P
      /\ phase \in Nat /\ phase < P /\ age[q] \in Nat
  BY CacheAssumption DEF Inv, TypeOK
<1>1. phase' \in Nat /\ age'[q] \in Nat
  <2>1. TypeOK'
    BY NextInv DEF Inv
  <2> QED
    BY <2>1 DEF TypeOK
<1>2. Due(q) \in Nat /\ Due(q)' \in Nat
  <2>1. Due(q) = P + phase \/ Due(q) = phase
    BY DEF Due
  <2>2. Due(q)' = P + phase' \/ Due(q)' = phase'
    <3>1. CASE tick' \/ q \in todo'
      BY <3>1 DEF Due
    <3>2. CASE ~(tick' \/ q \in todo')
      BY <3>2 DEF Due
    <3> QED
      BY <3>1, <3>2
  <2> HIDE DEF P
  <2>3. P + phase \in Nat /\ P + phase' \in Nat
    BY <1>0, <1>1, NatSum, Zenon
  <2> QED
    BY <1>0, <1>1, <2>1, <2>2, <2>3
<1>3. CASE TimePasses
  <2>1. age'[q] = age[q] + 1
    BY <1>3 DEF TimePasses, Kept, Cached
  <2>2. Due(q)' = Due(q) + 1
    <3>1. CASE tick \/ q \in todo
      <4>1. phase + 1 # P /\ phase' = phase + 1
        BY <1>0, <1>3, <3>1 DEF TimePasses
      <4>2. tick' \/ q \in todo'
        BY <1>3, <3>1 DEF TimePasses
      <4> QED
        BY <1>0, <3>1, <4>1, <4>2 DEF Due
    <3>2. CASE ~tick /\ q \notin todo
      <4>1. CASE phase + 1 = P
        <5>1. tick' /\ phase' = 0
          BY <1>3, <4>1 DEF TimePasses
        <5> QED
          BY <1>0, <3>2, <4>1, <5>1 DEF Due
      <4>2. CASE phase + 1 # P
        <5>1. ~tick' /\ q \notin todo' /\ phase' = phase + 1
          BY <1>3, <3>2, <4>2 DEF TimePasses
        <5> QED
          BY <1>0, <3>2, <5>1 DEF Due
      <4> QED
        BY <4>1, <4>2
    <3> QED
      BY <3>1, <3>2
  <2> QED
    BY <1>0, <1>2, <2>1, <2>2
<1>4. CASE GCStart
  <2>1. q \in todo' /\ age'[q] = age[q] /\ phase' = phase /\ tick
    BY <1>4 DEF GCStart, Kept, Cached, history
  <2>2. Due(q)' = Due(q)
    BY <2>1 DEF Due
  <2> QED
    BY <1>0, <1>2, <2>1, <2>2
<1>5. CASE UNCHANGED <<tick, phase>> /\ (q \in todo' <=> q \in todo)
           /\ age'[q] = age[q]
  <2>1. Due(q)' = Due(q)
    BY <1>5 DEF Due
  <2> QED
    BY <1>0, <1>2, <1>5, <2>1
<1>6. ASSUME NEW p \in Question, GCEntry(p), p # q
      PROVE  UNCHANGED <<tick, phase>> /\ (q \in todo' <=> q \in todo)
             /\ age'[q] = age[q]
  <2>1. UNCHANGED <<tick, phase>> /\ (q \in todo' <=> q \in todo)
    BY <1>6 DEF GCEntry, Visit
  <2>2. age'[q] = age[q]
    BY <1>6 DEF GCEntry, Visit, NewTTL, AgedCopy, Drop, Delete, history, Inv,
                TypeOK
  <2> QED
    BY <2>1, <2>2
<1>7. ~GCEntry(q)
  BY NewSliceIsFree, CacheAssumption, EntryTTL
  DEF GCEntry, Visit, NewTTL, AgedCopy, Drop, Kept, FreeSlices, Delete, Inv,
      TypeOK
<1>8. ASSUME NEW c \in Caller, Record(c)
      PROVE  UNCHANGED <<tick, phase, todo>> /\ age'[q] = age[q]
  BY <1>8 DEF Record, RecordedNow, Inv, TypeOK
<1>9. ASSUME NEW c \in Caller,
              \/ \E p \in Question \cup {Multi} : Query(c, p)
              \/ Hit(c) \/ Miss(c) \/ BackReply(c) \/ BackError(c) \/ Skip(c)
              \/ Truncate(c) \/ WriteMsg(c)
       PROVE  UNCHANGED <<tick, phase, todo>> /\ age'[q] = age[q]
  BY <1>9 DEF Query, Hit, Miss, BackReply, BackError, Skip, Truncate,
               WriteMsg, history
<1>10. ~FlushCache
  BY DEF FlushCache, Kept
<1>11. UNCHANGED vars => UNCHANGED <<tick, phase, todo>> /\ age'[q] = age[q]
  BY DEF vars, history
<1> QED
  BY <1>1, <1>2, <1>3, <1>4, <1>5, <1>6, <1>7, <1>8, <1>9, <1>10, <1>11
  DEF Next

\* The TTLs in the map lag behind the clock by no more than the time since the
\* tick they were last aged for.
THEOREM AgeingIsExact == Spec => []AgeingExact
<1>1. Init => AgeingExact
  BY DEF Init, AgeingExact, Cached
<1>2. Inv /\ AgeingExact /\ [Next]_vars => AgeingExact'
  <2> SUFFICES ASSUME Inv, AgeingExact, [Next]_vars,
                      NEW q \in Question, answer'[q] # None
               PROVE  getTTL(ttl'[answer'[q]]) + age'[q] <= granted'[q] + Due(q)'
    BY DEF AgeingExact, Cached
  <2> DEFINE T == getTTL(ttl[answer[q]])
             P == maintenancePeriod
  <2>0. /\ P \in Nat /\ MaxLag \in Nat /\ MaxLag < P
        /\ phase \in Nat /\ phase < P
        /\ age[q] \in Nat /\ granted[q] \in Nat
    BY CacheAssumption DEF Inv, TypeOK
  <2>1. answer[q] # None => T \in Nat /\ T + age[q] <= granted[q] + Due(q)
    BY EntryTTL DEF AgeingExact, Cached
  <2>2. phase' \in Nat /\ Due(q)' \in Nat
    <3>1. TypeOK'
      BY NextInv DEF Inv
    <3>2. phase' \in Nat
      BY <2>0, <3>1 DEF TypeOK
    <3>3. Due(q)' = P + phase' \/ Due(q)' = phase'
      <4>1. CASE tick' \/ q \in todo'
        BY <4>1 DEF Due
      <4>2. CASE ~(tick' \/ q \in todo')
        BY <4>2 DEF Due
      <4> QED
        BY <4>1, <4>2
    <3>4. maintenancePeriod \in Nat
      BY CacheAssumption
    <3>5. maintenancePeriod + phase' \in Nat
      BY <3>2, <3>4, NatSum, Zenon
    <3> QED
      BY <3>2, <3>3, <3>5
  <2>3. CASE RecordedNow(q)
    <3> DEFINE ts == ttl'[answer'[q]]
    <3>1. /\ granted'[q] \in Nat /\ age'[q] = 0
          /\ ts[1] = granted'[q] \div Second
      BY <2>3, RecordedEntry
    <3>2. getTTL(ts) <= granted'[q] /\ getTTL(ts) \in Nat
      <4>1. /\ granted'[q] \div Second \in Nat
            /\ (granted'[q] \div Second) * Second <= granted'[q]
        BY <3>1, WholeSeconds
      <4>2. (granted'[q] \div Second) * Second \in Nat
        BY <4>1, CacheAssumption
      <4> QED
        BY <3>1, <4>1, <4>2 DEF getTTL
    <3>3. Due(q)' \in Nat
      BY <2>2
    <3> HIDE DEF ts
    <3>4. getTTL(ts) + age'[q] <= granted'[q] + Due(q)'
      BY <3>1, <3>2, <3>3
    <3> QED
      BY <3>4 DEF ts
  <2>4. CASE Aged(q)
    <3> DEFINE d == T - P
    <3>1. /\ T \in Nat /\ d \in Nat /\ T + age[q] <= granted[q] + Due(q)
          /\ age'[q] = age[q] /\ granted'[q] = granted[q]
      BY <2>1, <2>4 DEF Aged, history
    <3>2. getTTL(ttl'[answer'[q]]) \in Nat /\ getTTL(ttl'[answer'[q]]) <= d
      <4>1. /\ ttl[answer[q]] \in Seq(Nat) /\ Len(ttl[answer[q]]) # 0
            /\ Len(ttl[answer[q]]) \in Nat /\ 1 \in 1..Len(ttl[answer[q]])
        BY <2>4, EntryTTL DEF Aged
      <4>2. ttl'[answer'[q]] = setTTL(ttl[answer[q]], d)
        BY <2>4 DEF Aged
      <4> HIDE DEF d
      <4>3. ttl'[answer'[q]][1] = d \div Second
        BY <3>1, <4>1, <4>2, SetTTL, ZenonT(40)
      <4>4. d \div Second \in Nat /\ (d \div Second) * Second <= d
        BY <3>1, WholeSeconds
      <4>5. (d \div Second) * Second \in Nat
        BY <4>4, CacheAssumption
      <4> QED
        BY <4>3, <4>4, <4>5 DEF getTTL
    <3>3. Due(q) = P + phase /\ phase' = phase
      BY <2>4 DEF Aged, GCEntry, Visit, NewTTL, AgedCopy, Drop, Due
    <3>4. Due(q)' >= phase
      BY <2>0, <3>3 DEF Due
    <3> QED
      BY <2>0, <2>2, <3>1, <3>2, <3>3, <3>4
  <2>5. CASE Kept(q) /\ ~RecordedNow(q)
    <3>1. /\ T \in Nat /\ T + age[q] <= granted[q] + Due(q)
          /\ getTTL(ttl'[answer'[q]]) = T /\ granted'[q] = granted[q]
      BY <2>1, <2>5 DEF Kept
    <3>2. /\ age'[q] \in Nat /\ Due(q) \in Nat /\ Due(q)' \in Nat
          /\ age'[q] - age[q] = Due(q)' - Due(q)
      BY <2>5, LagKept
    <3> QED
      BY <2>0, <3>1, <3>2
  <2> QED
    BY <2>3, <2>4, <2>5, EntryStep
<1> QED
  BY <1>1, <1>2, InvHolds, PTL DEF Spec

\* No entry is stale by more than a maintenance period and a tick's lag.
THEOREM StalenessBounded == Spec => []StaleBound
<1>1. Inv /\ Prompt /\ AgeingExact => StaleBound
  <2> SUFFICES ASSUME Inv, Prompt, AgeingExact, NEW q \in Cached
               PROVE  getTTL(ttl[answer[q]]) + age[q]
                        <= granted[q] + maintenancePeriod + MaxLag
    BY DEF StaleBound
  <2>1. getTTL(ttl[answer[q]]) \in Nat
    BY EntryTTL DEF Cached
  <2>2. /\ age[q] \in Nat /\ granted[q] \in Nat /\ phase \in Nat
        /\ phase < maintenancePeriod
        /\ maintenancePeriod \in Nat /\ MaxLag \in Nat
    BY CacheAssumption DEF Inv, TypeOK, Cached
  <2>3. Due(q) \in Nat /\ Due(q) <= maintenancePeriod + MaxLag
    BY <2>2 DEF Due, Prompt
  <2>4. getTTL(ttl[answer[q]]) + age[q] <= granted[q] + Due(q)
    BY DEF AgeingExact
  <2> QED
    BY <2>1, <2>2, <2>3, <2>4
<1> QED
  BY <1>1, InvHolds, PromptHolds, AgeingIsExact, PTL

\* A record of a setTTL answer, as a duration, is at most the TTL set.
LEMMA UniformTTL ==
  ASSUME NEW ts \in Seq(Nat), Len(ts) # 0, NEW d \in Nat,
         \A i \in 1..Len(ts) : ts[i] = d \div Second
  PROVE  /\ \A i \in DOMAIN ts : ts[i] = ts[1]
         /\ getTTL(ts) \in Nat /\ getTTL(ts) <= d
<1>1. Len(ts) \in Nat /\ DOMAIN ts = 1..Len(ts) /\ 1 \in 1..Len(ts)
  OBVIOUS
<1>2. /\ d \div Second \in Nat /\ (d \div Second) * Second <= d
  BY WholeSeconds
<1>3. (d \div Second) * Second \in Nat
  BY <1>2, CacheAssumption
<1>4. ts[1] = d \div Second
  BY <1>1
<1> QED
  BY <1>1, <1>2, <1>3, <1>4 DEF getTTL

\* Every entry is nonempty, has one TTL, and none above maxTTL: the maintenance
\* loop, the dump and the replies can rely on its first record.
THEOREM EntriesWellFormed == Spec => []CachedWellFormed
<1>1. Init => CachedWellFormed
  BY DEF Init, CachedWellFormed, Cached
<1>2. Inv /\ CachedWellFormed /\ [Next]_vars => CachedWellFormed'
  <2> SUFFICES ASSUME Inv, CachedWellFormed, [Next]_vars,
                      NEW q \in Question, answer'[q] # None
               PROVE  /\ ttl'[answer'[q]] # <<>>
                      /\ \A i \in DOMAIN ttl'[answer'[q]] :
                           ttl'[answer'[q]][i] = ttl'[answer'[q]][1]
                      /\ getTTL(ttl'[answer'[q]]) <= maxTTL
    BY DEF CachedWellFormed, Cached
  <2> DEFINE ts == ttl'[answer'[q]]
  <2>0. maxTTL \in Nat
    BY CacheAssumption
  <2>1. CASE RecordedNow(q)
    <3>1. /\ granted'[q] \in Nat /\ granted'[q] <= maxTTL
          /\ ts \in Seq(Nat) /\ Len(ts) # 0
          /\ \A i \in 1..Len(ts) : ts[i] = granted'[q] \div Second
      BY <2>1, RecordedEntry
    <3> HIDE DEF ts
    <3>2. /\ \A i \in DOMAIN ts : ts[i] = ts[1]
          /\ getTTL(ts) \in Nat /\ getTTL(ts) <= granted'[q]
      BY <3>1, UniformTTL
    <3>3. ts # <<>> /\ getTTL(ts) <= maxTTL
      BY <2>0, <3>1, <3>2
    <3> QED
      BY <3>2, <3>3 DEF ts
  <2>2. CASE Kept(q)
    BY <2>2, SMTT(30) DEF Kept, CachedWellFormed, Cached
  <2>3. CASE Aged(q)
    <3> DEFINE old == ttl[answer[q]]
               d == getTTL(old) - maintenancePeriod
    <3>1. old \in Seq(Nat) /\ Len(old) # 0 /\ getTTL(old) \in Nat
      BY <2>3, EntryTTL DEF Aged
    <3>2. getTTL(old) <= maxTTL
      BY <2>3 DEF Aged, CachedWellFormed, Cached
    <3>3. d \in Nat /\ d <= maxTTL /\ ts = setTTL(old, d)
      BY <2>0, <2>3, <3>1, <3>2, CacheAssumption DEF Aged
    <3> HIDE DEF ts, d
    <3>4. /\ ts \in Seq(Nat) /\ Len(ts) = Len(old)
          /\ \A i \in 1..Len(ts) : ts[i] = d \div Second
      BY <3>1, <3>3, SetTTL
    <3>5. /\ \A i \in DOMAIN ts : ts[i] = ts[1]
          /\ getTTL(ts) \in Nat /\ getTTL(ts) <= d
      BY <3>1, <3>3, <3>4, UniformTTL
    <3>6. ts # <<>> /\ getTTL(ts) <= maxTTL
      BY <2>0, <3>1, <3>3, <3>4, <3>5
    <3> QED
      BY <3>5, <3>6 DEF ts
  <2> QED
    BY <2>1, <2>2, <2>3, EntryStep
<1> QED
  BY <1>1, <1>2, InvHolds, PTL DEF Spec

(***************************************************************************)
(* The cache is a lease on answers.                                        *)
(***************************************************************************)
\* The maintenance period and maxTTL are whole seconds, as they are in the code.
WholeDurations == maintenancePeriod % Second = 0 /\ maxTTL % Second = 0

\* A multiple of the second that is shorter than one is none.
LEMMA NoneShorter ==
  ASSUME NEW w \in Int, 0 <= Second * w, Second * w < Second
  PROVE  w = 0
<1>1. Second \in Nat /\ Second > 0
  BY CacheAssumption
<1>2. ASSUME w >= 1 PROVE FALSE
  <2>1. PICK v \in Nat : w = v + 1
    <3>1. w - 1 \in Nat /\ w = (w - 1) + 1
      BY <1>2
    <3> QED
      BY <3>1
  <2>2. Second * w = Second * v + Second /\ Second * v >= 0
    BY <1>1, <2>1
  <2> QED
    BY <1>1, <2>2
<1>3. ASSUME w <= -1 PROVE FALSE
  <2>1. PICK v \in Nat : w = -v - 1
    <3>1. -w - 1 \in Nat /\ w = -(-w - 1) - 1
      BY <1>3
    <3> QED
      BY <3>1
  <2>2. Second * w = -(Second * v) - Second /\ Second * v >= 0
    BY <1>1, <2>1
  <2> QED
    BY <1>1, <2>2
<1> QED
  BY <1>2, <1>3

\* Durations in whole seconds: a number of seconds is one, rounding leaves it
\* alone, and so is the difference of two.
LEMMA WholeMultiple ==
  ASSUME NEW n \in Int, n * Second \in Nat
  PROVE  (n * Second) % Second = 0
<1>1. Second \in Nat /\ Second > 0
  BY CacheAssumption
<1>2. PICK d \in Nat : d = n * Second
  OBVIOUS
<1>3. PICK z, r \in Int : z = d \div Second /\ r = d % Second
  BY <1>1
<1>4. d = Second * z + r /\ 0 <= r /\ r < Second
  BY <1>1, <1>3
<1>5. Second * (n - z) = r
  <2>1. Second * (n - z) = n * Second - Second * z
    BY <1>1
  <2> QED
    BY <1>1, <1>2, <1>4, <2>1
<1>6. n - z = 0
  BY <1>1, <1>4, <1>5, NoneShorter
<1>7. r = 0
  BY <1>1, <1>5, <1>6
<1> QED
  BY <1>2, <1>3, <1>7

LEMMA WholeRounds ==
  ASSUME NEW d \in Nat, d % Second = 0
  PROVE  (d \div Second) * Second = d
<1>1. Second \in Nat /\ Second > 0
  BY CacheAssumption
<1>2. PICK z \in Int : z = d \div Second
  BY <1>1
<1>3. d = Second * z + (d % Second)
  BY <1>1, <1>2
<1> QED
  BY <1>1, <1>2, <1>3

LEMMA WholeDifference ==
  ASSUME NEW a \in Nat, NEW b \in Nat, a % Second = 0, b % Second = 0,
         a - b \in Nat
  PROVE  (a - b) % Second = 0
<1>1. Second \in Nat /\ Second > 0
  BY CacheAssumption
<1>2. PICK x, y \in Int : x = a \div Second /\ y = b \div Second
  BY <1>1
<1>3. x * Second = a /\ y * Second = b
  BY <1>2, WholeRounds
<1>4. (x - y) * Second = a - b
  <2>1. (x - y) * Second = x * Second - y * Second
    BY <1>1
  <2> QED
    BY <1>3, <2>1
<1> QED
  BY <1>4, WholeMultiple

\* A reply is recorded with a TTL of whole seconds, which rounding leaves alone.
LEMMA RecordedWhole ==
  ASSUME WholeDurations, Inv, NEW q \in Question, RecordedNow(q)
  PROVE  /\ granted'[q] \in 1..maxTTL
         /\ getTTL(ttl'[answer'[q]]) = granted'[q]
<1>0. TypeOK /\ CallerOK
  BY DEF Inv
<1>1. PICK c \in Caller : Record(c) /\ question[c] = q
  BY DEF RecordedNow
<1>2. PICK ts : ts = ttl[held[c]]
  OBVIOUS
<1>3. ts \in Seq(Nat) /\ Len(ts) # 0 /\ limitTTL(ts) >= minTTL
  BY <1>0, <1>1, <1>2 DEF Record, CallerOK, Cacheable, wantToCache, TypeOK
<1>4. granted'[q] = limitTTL(ts)
  BY <1>0, <1>1, <1>2 DEF Record, TypeOK
<1>5. /\ ts[1] \in Nat /\ ts[1] * Second \in Nat
      /\ limitTTL(ts) \in Nat /\ limitTTL(ts) <= maxTTL
  BY <1>3, FirstTTL DEF getTTL
<1>6. limitTTL(ts) = maxTTL \/ limitTTL(ts) = ts[1] * Second
  BY DEF limitTTL
<1>7. (ts[1] * Second) % Second = 0
  BY <1>5, WholeMultiple
<1>8. limitTTL(ts) % Second = 0
  BY <1>6, <1>7 DEF WholeDurations
<1>9. (limitTTL(ts) \div Second) * Second = limitTTL(ts)
  BY <1>5, <1>8, WholeRounds
<1>10. PICK e : e = ttl'[answer'[q]]
  OBVIOUS
<1>11. e \in Seq(Nat) /\ Len(e) # 0
       /\ \A i \in 1..Len(e) : e[i] = granted'[q] \div Second
  BY <1>10, RecordedEntry
<1>12. e[1] = limitTTL(ts) \div Second
  BY <1>4, <1>11
<1>13. getTTL(e) = granted'[q]
  BY <1>4, <1>9, <1>12 DEF getTTL
<1>14. granted'[q] \in 1..maxTTL
  BY <1>3, <1>4, <1>5, CacheAssumption
<1> QED
  BY <1>10, <1>13, <1>14

\* Ageing takes exactly a period off the TTL of an entry, of which something is
\* left.
LEMMA AgedWhole ==
  ASSUME WholeDurations, Inv, NEW q \in Question, Aged(q)
  PROVE  /\ getTTL(ttl[answer[q]]) - maintenancePeriod > 0
         /\ getTTL(ttl'[answer'[q]])
              = getTTL(ttl[answer[q]]) - maintenancePeriod
         /\ age'[q] = age[q] /\ granted'[q] = granted[q]
         /\ q \in todo /\ q \notin todo' /\ tick' = tick /\ phase' = phase
<1>1. PICK ts : ts = ttl[answer[q]]
  OBVIOUS
<1>2. ts \in Seq(Nat) /\ Len(ts) # 0 /\ getTTL(ts) \in Nat
  BY <1>1, EntryTTL DEF Aged
<1>3. PICK d : d = getTTL(ts) - maintenancePeriod
  OBVIOUS
<1>4. /\ d \in Nat /\ ttl'[answer'[q]] = setTTL(ts, d)
      /\ age'[q] = age[q] /\ granted'[q] = granted[q]
  BY <1>1, <1>3 DEF Aged, history
<1>5. /\ q \in todo /\ q \notin todo' /\ tick' = tick /\ phase' = phase
      /\ NewTTL(q) > 0 \/ Drop(q)
  BY DEF Aged, GCEntry, Visit
<1>6. d > 0
  <2>1. ~Drop(q)
    BY DEF Aged, Drop, Delete, Inv, TypeOK
  <2> QED
    BY <1>1, <1>3, <1>5, <2>1 DEF NewTTL
<1>7. getTTL(ts) % Second = 0
  <2>1. ts[1] \in Nat /\ ts[1] * Second \in Nat
    BY <1>2, FirstTTL DEF getTTL
  <2> QED
    BY <2>1, WholeMultiple DEF getTTL
<1>8. d % Second = 0
  BY <1>2, <1>3, <1>4, <1>7, WholeDifference, CacheAssumption
  DEF WholeDurations
<1>9. (d \div Second) * Second = d
  BY <1>4, <1>8, WholeRounds
<1>10. setTTL(ts, d)[1] = d \div Second
  <2>1. 1 \in 1..Len(ts)
    BY <1>2
  <2> QED
    BY <1>2, <1>4, <2>1, SetTTL
<1>11. getTTL(setTTL(ts, d)) = d
  BY <1>9, <1>10 DEF getTTL
<1> QED
  BY <1>1, <1>3, <1>4, <1>5, <1>6, <1>11

\* What AgeingExact leaves open: a GC has taken its tick, every entry has time
\* left, and it is not aged early, apart from what was left of the period, and
\* the lag of a tick, when it was recorded.
OneTick == todo # {} => ~tick

TimeLeft == \A q \in Cached : getTTL(ttl[answer[q]]) > 0

AgeingDue ==
  \A q \in Cached :
    granted[q] + Due(q)
      <= getTTL(ttl[answer[q]]) + age[q] + maintenancePeriod + MaxLag

LeaseInv ==
  Inv /\ Prompt /\ OneTick /\ AgeingExact /\ TimeLeft /\ AgeingDue

\* A tick comes no earlier than a period after the one before, whose GC has
\* ended by then.
LEMMA OneTickHolds == Spec => []OneTick
<1>1. Init => OneTick
  BY DEF Init, OneTick
<1>2. Inv /\ OneTick /\ [Next]_vars => OneTick'
  <2> SUFFICES ASSUME Inv, OneTick, [Next]_vars PROVE OneTick'
    OBVIOUS
  <2>1. CASE TimePasses
    <3>1. /\ phase \in Nat /\ MaxLag \in Nat /\ maintenancePeriod \in Nat
          /\ MaxLag < maintenancePeriod
      BY CacheAssumption DEF Inv, TypeOK
    <3>2. todo' = todo
      BY <2>1 DEF TimePasses
    <3>3. CASE todo # {}
      <4>1. ~tick /\ phase < MaxLag
        BY <2>1, <3>3 DEF TimePasses, OneTick
      <4>2. phase + 1 # maintenancePeriod
        BY <3>1, <4>1
      <4>3. ~tick'
        BY <2>1, <4>1, <4>2 DEF TimePasses
      <4> QED
        BY <4>3 DEF OneTick
    <3> QED
      BY <3>2, <3>3 DEF OneTick
  <2>2. CASE GCStart
    BY <2>2 DEF GCStart, OneTick
  <2>3. ASSUME NEW q \in Question, GCEntry(q) PROVE OneTick'
    BY <2>3 DEF GCEntry, Visit, OneTick
  <2>4. CASE UNCHANGED <<tick, todo>>
    BY <2>4 DEF OneTick
  <2>5. ASSUME NEW c \in Caller,
               \/ \E p \in Question \cup {Multi} : Query(c, p)
               \/ Hit(c) \/ Miss(c) \/ BackReply(c) \/ BackError(c) \/ Skip(c)
               \/ Record(c) \/ Truncate(c) \/ WriteMsg(c)
        PROVE  UNCHANGED <<tick, todo>>
    BY <2>5 DEF Query, Hit, Miss, BackReply, BackError, Skip, Record, Truncate,
                WriteMsg
  <2>6. FlushCache \/ UNCHANGED vars => UNCHANGED <<tick, todo>>
    BY DEF FlushCache, vars
  <2> QED
    BY <2>1, <2>2, <2>3, <2>4, <2>5, <2>6 DEF Next
<1> QED
  BY <1>1, <1>2, InvHolds, PTL DEF Spec

\* Entries have time left, and are not aged early.
LEMMA EntriesDue ==
  ASSUME WholeDurations, Inv, Prompt, OneTick, TimeLeft, AgeingDue, [Next]_vars
  PROVE  TimeLeft' /\ AgeingDue'
<1> DEFINE P == maintenancePeriod
<1> SUFFICES ASSUME NEW q \in Question, answer'[q] # None
             PROVE  /\ getTTL(ttl'[answer'[q]]) > 0
                    /\ granted'[q] + Due(q)'
                         <= getTTL(ttl'[answer'[q]]) + age'[q] + P + MaxLag
  BY DEF TimeLeft, AgeingDue, Cached
<1>0. /\ P \in Nat /\ MaxLag \in Nat /\ MaxLag < P
      /\ phase \in Nat /\ phase < P
      /\ age[q] \in Nat /\ granted[q] \in Nat
  BY CacheAssumption DEF Inv, TypeOK
<1>1. PICK T : T = getTTL(ttl[answer[q]])
  OBVIOUS
<1>2. PICK U : U = getTTL(ttl'[answer'[q]])
  OBVIOUS
<1>3. answer[q] # None => /\ T \in Nat /\ T > 0
                          /\ granted[q] + Due(q) <= T + age[q] + P + MaxLag
  BY <1>1, EntryTTL DEF TimeLeft, AgeingDue, Cached
<1>4. CASE RecordedNow(q)
  <2>1. granted'[q] \in 1..maxTTL /\ U = granted'[q]
    BY <1>2, <1>4, RecordedWhole
  <2>2. age'[q] = 0
    BY <1>4, RecordedEntry
  <2>3. Due(q)' \in Nat /\ Due(q)' <= P + MaxLag
    <3>1. todo = {} /\ UNCHANGED <<todo, phase, tick>>
      BY <1>4 DEF RecordedNow, Record
    <3>2. tick => phase <= MaxLag
      BY DEF Prompt
    <3>3. CASE tick
      <4>1. Due(q)' = P + phase
        BY <3>1, <3>3 DEF Due
      <4> QED
        BY <1>0, <3>2, <3>3, <4>1
    <3>4. CASE ~tick
      <4>1. Due(q)' = phase
        BY <3>1, <3>4 DEF Due
      <4> QED
        BY <1>0, <4>1
    <3> QED
      BY <3>3, <3>4
  <2>4. granted'[q] \in Nat /\ granted'[q] > 0
    BY <2>1, CacheAssumption
  <2> QED
    BY <1>0, <1>2, <2>1, <2>2, <2>3, <2>4
<1>5. CASE Aged(q)
  <2>1. /\ U = T - P /\ T - P > 0
        /\ age'[q] = age[q] /\ granted'[q] = granted[q]
        /\ q \in todo /\ q \notin todo' /\ tick' = tick /\ phase' = phase
    BY <1>1, <1>2, <1>5, AgedWhole
  <2>2. ~tick
    BY <2>1 DEF OneTick
  <2>3. Due(q) = P + phase /\ Due(q)' = phase
    BY <2>1, <2>2 DEF Due
  <2>4. T \in Nat /\ granted[q] + Due(q) <= T + age[q] + P + MaxLag
    BY <1>3, <1>5 DEF Aged
  <2> QED
    BY <1>0, <1>2, <2>1, <2>3, <2>4
<1>6. CASE Kept(q) /\ ~RecordedNow(q)
  <2>1. /\ T \in Nat /\ T > 0
        /\ granted[q] + Due(q) <= T + age[q] + P + MaxLag
        /\ U = T /\ granted'[q] = granted[q]
    BY <1>1, <1>2, <1>3, <1>6 DEF Kept
  <2>2. /\ age'[q] \in Nat /\ Due(q) \in Nat /\ Due(q)' \in Nat
        /\ age'[q] - age[q] = Due(q)' - Due(q)
    BY <1>6, LagKept
  <2> QED
    BY <1>0, <1>2, <2>1, <2>2
<1> QED
  BY <1>4, <1>5, <1>6, EntryStep

\* The time left that a client is told, as ImplementsLease maps it.
Left ==
  [q \in Question |-> IF q \in Cached THEN getTTL(ttl[answer[q]]) ELSE 0]

\* The mapping of the state: what is kept, and what is left of it.
LEMMA LeaseState ==
  ASSUME LeaseInv
  PROVE  /\ Left \in [Question -> Nat]
         /\ Lease!Kept = Cached
         /\ granted \in [Question -> Nat] /\ age \in [Question -> Nat]
<1>1. \A q \in Cached : /\ getTTL(ttl[answer[q]]) \in Nat
                        /\ getTTL(ttl[answer[q]]) > 0
  BY EntryTTL DEF LeaseInv, TimeLeft, Cached
<1>2. Left \in [Question -> Nat]
  BY <1>1 DEF Left
<1>3. Lease!Kept = {q \in Question : Left[q] > 0}
  BY DEF Lease!Kept, Left
<1>4. Lease!Kept = Cached
  BY <1>1, <1>3 DEF Left, Cached
<1> QED
  BY <1>2, <1>4 DEF LeaseInv, Inv, TypeOK

\* What is left of the entries is not off by more than the lease allows.
Agreed == \A q \in Cached : Lease!Agrees(Left[q], age[q], granted[q])

LEMMA LeaseAgrees == LeaseInv => Agreed
<1> SUFFICES ASSUME LeaseInv, NEW q \in Cached
             PROVE  Lease!Agrees(Left[q], age[q], granted[q])
  BY DEF Agreed
<1> DEFINE P == maintenancePeriod
<1>1. PICK T : T = getTTL(ttl[answer[q]])
  OBVIOUS
<1>2. T \in Nat /\ Left[q] = T
  BY <1>1, EntryTTL DEF LeaseInv, Cached, Left
<1>3. /\ P \in Nat /\ MaxLag \in Nat /\ MaxLag < P
      /\ phase \in Nat /\ phase < P
      /\ age[q] \in Nat /\ granted[q] \in Nat
  BY CacheAssumption DEF LeaseInv, Inv, TypeOK, Cached
<1>4. Due(q) \in Nat /\ Due(q) <= P + MaxLag
  BY <1>3 DEF LeaseInv, Prompt, Due
<1>5. /\ T + age[q] <= granted[q] + Due(q)
      /\ granted[q] + Due(q) <= T + age[q] + P + MaxLag
  BY <1>1 DEF LeaseInv, AgeingExact, AgeingDue
<1>6. T + age[q] - granted[q] \in -(P + MaxLag)..(P + MaxLag)
  BY <1>2, <1>3, <1>4, <1>5
<1> QED
  BY <1>2, <1>6 DEF Lease!Agrees

\* The same, of the state after a step.
LEMMA LeaseAgreesNext == LeaseInv' => Agreed'
  BY LeaseAgrees, PTL

\* Recording a reply grants its answer, for the TTL that it is capped to.
LEMMA LeaseGrant ==
  ASSUME WholeDurations, LeaseInv, LeaseInv', NEW c \in Caller, Record(c)
  PROVE  Lease!Next
<1>1. PICK q \in Question : q = question[c]
  BY DEF Record, LeaseInv, Inv, CallerOK
<1>2. RecordedNow(q)
  BY <1>1 DEF RecordedNow
<1>3. /\ answer' = [answer EXCEPT ![q] = held[c]]
      /\ age' = [age EXCEPT ![q] = 0]
      /\ ttl' = [ttl EXCEPT ![held[c]] = ttl'[held[c]]]
      /\ held[c] \in Slice /\ held[c] # None
      /\ HasRoom
  BY <1>1, CacheAssumption
  DEF Record, LeaseInv, Inv, CallerOK, TypeOK
<1>4. PICK d : d = granted'[q]
  OBVIOUS
<1>5. granted' = [granted EXCEPT ![q] = d]
  BY <1>1, <1>4 DEF Record, LeaseInv, Inv, TypeOK
<1>6. d \in 1..maxTTL /\ getTTL(ttl'[answer'[q]]) = d
  BY <1>2, <1>4, RecordedWhole DEF LeaseInv
<1>7. Left' = [Left EXCEPT ![q] = d]
  <2>1. ASSUME NEW p \in Question, p # q
        PROVE  Left'[p] = Left[p]
    <3>1. answer'[p] = answer[p] /\ answer[p] # held[c]
      BY <1>3, <2>1 DEF Record, LeaseInv, Inv, Exclusive, TypeOK
    <3>2. answer[p] # None => ttl'[answer[p]] = ttl[answer[p]]
      BY <1>3, <3>1 DEF LeaseInv, Inv, TypeOK
    <3> QED
      BY <3>1, <3>2 DEF Left, Cached
  <2>2. Left'[q] = d
    BY <1>3, <1>6 DEF Left, Cached, LeaseInv, Inv, TypeOK
  <2> QED
    BY <2>1, <2>2 DEF Left
<1>8. Lease!Cardinality(Lease!Kept) < maxCacheSize
  BY <1>3, LeaseState DEF HasRoom, Cardinality, Lease!Cardinality
<1>9. Lease!Set(q, d, d, 0)
  BY <1>3, <1>5, <1>7 DEF Lease!Set, Left
<1>10. Lease!Grant(q)
  <2>1. \E e \in 1..maxTTL : Lease!Set(q, e, e, 0)
    BY <1>6, <1>9, Zenon
  <2> QED
    BY <1>8, <2>1 DEF Lease!Grant
<1> QED
  BY <1>10 DEF Lease!Next

\* An iteration of the maintenance loop brings an answer up to date, or lets it
\* expire, which it does no earlier than the lease allows.
LEMMA LeaseAge ==
  ASSUME WholeDurations, LeaseInv, LeaseInv', [Next]_vars,
         NEW q \in Question, GCEntry(q)
  PROVE  Lease!Next
<1> DEFINE P == maintenancePeriod
<1>1. PICK T : T = getTTL(ttl[answer[q]])
  OBVIOUS
<1>2. q \in Cached /\ q \in todo /\ answer[q] # None
  BY DEF GCEntry, Visit, LeaseInv, Inv, LoopOK, Cached
<1>3. T \in Nat /\ Left[q] = T
  BY <1>1, <1>2, EntryTTL DEF LeaseInv, Left
<1>4. /\ P \in Nat /\ P > 0 /\ MaxLag \in Nat /\ phase \in Nat
      /\ age[q] \in Nat /\ granted[q] \in Nat
  BY CacheAssumption DEF LeaseInv, Inv, TypeOK
<1>5. q \in Lease!Kept
  BY <1>2, LeaseState
<1>6. CASE NewTTL(q) > 0
  <2>1. PICK s \in NewSlice :
          /\ ttl' = [ttl EXCEPT ![s] = setTTL(ttl[answer[q]], NewTTL(q))]
          /\ answer' = [answer EXCEPT ![q] = s]
          /\ UNCHANGED history
    BY <1>1, <1>3, <1>4, <1>6 DEF GCEntry, AgedCopy, NewTTL
  <2>2. s \in Slice /\ s # None /\ \A p \in Question : answer[p] # s
    BY NewSliceIsFree, CacheAssumption DEF FreeSlices
  <2>3. answer'[q] # None /\ answer'[q] # answer[q]
    BY <2>1, <2>2 DEF LeaseInv, Inv, TypeOK
  <2>4. Aged(q)
    <3>1. ~RecordedNow(q)
      BY DEF RecordedNow, Record, GCEntry, Visit
    <3> QED
      BY <2>3, <3>1, EntryStep DEF LeaseInv, Kept
  <2>5. PICK d : d = T - P
    OBVIOUS
  <2>6. d > 0 /\ getTTL(ttl'[answer'[q]]) = d /\ age' = age /\ granted' = granted
    BY <1>1, <2>1, <2>4, <2>5, AgedWhole DEF LeaseInv, history
  <2>7. d \in 1..(Left[q] - 1)
    BY <1>3, <1>4, <2>5, <2>6
  <2>8. Left' = [Left EXCEPT ![q] = d]
    <3>1. ASSUME NEW p \in Question, p # q
          PROVE  Left'[p] = Left[p]
      <4>1. answer'[p] = answer[p] /\ answer[p] # s
        BY <2>1, <2>2, <3>1 DEF LeaseInv, Inv, TypeOK
      <4>2. answer[p] # None => ttl'[answer[p]] = ttl[answer[p]]
        BY <2>1, <4>1 DEF LeaseInv, Inv, TypeOK
      <4> QED
        BY <4>1, <4>2 DEF Left, Cached
    <3>2. Left'[q] = d
      BY <2>3, <2>6 DEF Left, Cached
    <3> QED
      BY <3>1, <3>2 DEF Left
  <2>9. Lease!Agrees(d, age[q], granted[q])
    <3>1. LeaseInv' /\ q \in Cached'
      BY <2>3 DEF Cached
    <3>2. Left'[q] + age'[q] - granted'[q] \in -(P + MaxLag)..(P + MaxLag)
      BY <3>1, LeaseAgreesNext DEF Agreed, Lease!Agrees
    <3>3. Left'[q] = d
      BY <2>3, <2>6 DEF Left, Cached
    <3> QED
      BY <2>6, <3>2, <3>3 DEF Lease!Agrees
  <2>10. Lease!Set(q, d, granted[q], age[q])
    <3>1. /\ granted' = [granted EXCEPT ![q] = granted[q]]
          /\ age' = [age EXCEPT ![q] = age[q]]
      BY <2>6 DEF LeaseInv, Inv, TypeOK
    <3> QED
      BY <2>8, <3>1 DEF Lease!Set, Left
  <2>11. \E e \in 1..(Left[q] - 1) :
           /\ Lease!Agrees(e, age[q], granted[q])
           /\ Lease!Set(q, e, granted[q], age[q])
    BY <2>7, <2>9, <2>10, Zenon
  <2>12. Lease!Refresh(q)
    BY <1>5, <2>11 DEF Lease!Refresh, Left
  <2> QED
    BY <2>12 DEF Lease!Next
<1>7. CASE ~(NewTTL(q) > 0)
  <2>1. Drop(q)
    BY <1>1, <1>3, <1>4, <1>7 DEF GCEntry
  <2>2. T <= P
    BY <1>1, <1>3, <1>4, <1>7 DEF NewTTL
  <2>3. granted[q] + (P + phase) <= T + age[q] + P + MaxLag
    BY <1>1, <1>2 DEF LeaseInv, AgeingDue, Due
  <2>4. age[q] >= granted[q] - (P + MaxLag)
    BY <1>3, <1>4, <2>2, <2>3
  <2>5. Left' = [Left EXCEPT ![q] = 0]
    <3>1. ASSUME NEW p \in Question, p # q
          PROVE  Left'[p] = Left[p]
      BY <2>1, <3>1 DEF Drop, Delete, Left, Cached, LeaseInv, Inv, TypeOK
    <3>2. Left'[q] = 0
      BY <2>1 DEF Drop, Delete, Left, Cached, LeaseInv, Inv, TypeOK
    <3> QED
      BY <3>1, <3>2 DEF Left
  <2>6. Lease!Set(q, 0, 0, 0)
    BY <2>1, <2>5 DEF Drop, Delete, Lease!Set, Left
  <2>7. Lease!Expire(q)
    BY <1>5, <2>4, <2>6 DEF Lease!Expire
  <2> QED
    BY <2>7 DEF Lease!Next
<1> QED
  BY <1>6, <1>7

\* The clock does not run past an answer that would be off by too much.
LEMMA LeaseTime ==
  ASSUME LeaseInv, LeaseInv', TimePasses
  PROVE  Lease!Next
<1>1. /\ UNCHANGED <<answer, ttl, granted>>
      /\ age' = [q \in Question |->
                   IF q \in Cached THEN age[q] + 1 ELSE age[q]]
  BY DEF TimePasses, mem
<1>2. Left' = Left /\ Cached' = Cached
  BY <1>1 DEF Left, Cached
<1>3. Lease!Kept = Cached
  BY LeaseState
<1>4. \A q \in Cached : Lease!Agrees(Left[q], age[q] + 1, granted[q])
  <2> SUFFICES ASSUME NEW q \in Cached
               PROVE  Lease!Agrees(Left[q], age[q] + 1, granted[q])
    OBVIOUS
  <2>1. LeaseInv' /\ q \in Cached'
    BY <1>2
  <2>2. Lease!Agrees(Left[q], age[q], granted[q])'
    BY <2>1, LeaseAgreesNext DEF Agreed
  <2>3. age'[q] = age[q] + 1
    BY <1>1 DEF Cached
  <2> QED
    BY <1>1, <1>2, <2>2, <2>3 DEF Lease!Agrees
<1>5. Lease!TimePasses
  BY <1>1, <1>2, <1>3, <1>4 DEF Lease!TimePasses, Left
<1> QED
  BY <1>5 DEF Lease!Next

\* Every step of the cache is one of the lease, or none.
LEMMA LeaseStep ==
  ASSUME WholeDurations, LeaseInv, LeaseInv', [Next]_vars
  PROVE  [Lease!Next]_(Lease!vars)
<1>1. ASSUME NEW c \in Caller, Record(c) PROVE Lease!Next
  BY <1>1, LeaseGrant
<1>2. ASSUME NEW q \in Question, GCEntry(q) PROVE Lease!Next
  BY <1>2, LeaseAge
<1>3. CASE TimePasses
  BY <1>3, LeaseTime
<1>4. CASE FlushCache
  <2>1. Left' = [q \in Question |-> 0]
    BY <1>4 DEF FlushCache, Left, Cached
  <2>2. Lease!Flush
    BY <1>4, <2>1 DEF FlushCache, Lease!Flush, Left
  <2> QED
    BY <2>2 DEF Lease!Next
<1>5. ASSUME Left' = Left, UNCHANGED <<granted, age>>
      PROVE  UNCHANGED Lease!vars
  BY <1>5 DEF Lease!vars, Left
<1>6. CASE UNCHANGED <<mem, history>>
  <2>1. Left' = Left
    BY <1>6 DEF Left, Cached, mem
  <2> QED
    BY <1>5, <1>6, <2>1 DEF history
<1>7. ASSUME NEW c \in Caller, BackReply(c)
      PROVE  UNCHANGED Lease!vars
  <2>1. PICK s \in NewSlice, ts \in BackTTLs : ttl' = [ttl EXCEPT ![s] = ts]
    BY <1>7 DEF BackReply
  <2>2. \A q \in Question : answer[q] # s
    BY NewSliceIsFree DEF FreeSlices
  <2>3. UNCHANGED <<answer, granted, age>>
    BY <1>7 DEF BackReply, history
  <2>4. \A q \in Cached : ttl'[answer[q]] = ttl[answer[q]]
    BY <2>1, <2>2 DEF Cached, LeaseInv, Inv, TypeOK
  <2>5. Left' = Left
    BY <2>3, <2>4 DEF Left, Cached
  <2> QED
    BY <1>5, <2>3, <2>5
<1>8. ASSUME NEW c \in Caller,
             \/ \E p \in Question \cup {Multi} : Query(c, p)
             \/ Hit(c) \/ Miss(c) \/ BackError(c) \/ Skip(c)
             \/ Truncate(c) \/ WriteMsg(c)
      PROVE  UNCHANGED <<mem, history>>
  BY <1>8 DEF Query, Hit, Miss, BackError, Skip, Truncate, WriteMsg
<1>9. GCStart \/ UNCHANGED vars => UNCHANGED <<mem, history>>
  BY DEF GCStart, vars
<1> QED
  BY <1>1, <1>2, <1>3, <1>4, <1>6, <1>7, <1>8, <1>9 DEF Next

\* The cache is a lease on answers (AnswerLease), for any number of questions
\* and callers, however late ticks are handled: what clients are told agrees
\* with the time that was granted, but for a maintenance period and the lag, and
\* no answer is given up any sooner.
THEOREM LeaseImplemented ==
  ASSUME WholeDurations
  PROVE  Spec => ImplementsLease
<1>1. Init => Lease!Init /\ TimeLeft /\ AgeingDue
  BY DEF Init, Lease!Init, TimeLeft, AgeingDue, Cached
<1>2. /\ Inv /\ Prompt /\ OneTick /\ TimeLeft /\ AgeingDue /\ [Next]_vars
      => TimeLeft' /\ AgeingDue'
  BY EntriesDue
<1>3. LeaseInv /\ LeaseInv' /\ [Next]_vars => [Lease!Next]_(Lease!vars)
  BY LeaseStep
<1>4. Spec => []LeaseInv
  BY <1>1, <1>2, InvHolds, PromptHolds, OneTickHolds, AgeingIsExact, PTL
  DEF Spec, LeaseInv
<1> QED
  BY <1>1, <1>3, <1>4, PTL DEF Spec, ImplementsLease, Lease!Spec

=============================================================================
