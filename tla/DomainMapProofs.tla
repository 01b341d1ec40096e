---------------------------- MODULE DomainMapProofs ----------------------------
(***************************************************************************)
(* GetMostSpecific is correct for every map and every order in which Go    *)
(* may visit it: the invariant of its loop, for all names and values.  The *)
(* queries that DomainStats models use the map as DomainMap describes, and *)
(* the two reports on them are right for any number of names and queries.  *)
(***************************************************************************)
EXTENDS DomainStats, OrderTheorems, SequenceTheorems, TLAPS

\* A domain stays one when it is written in the canonical way.
LEMMA CanonicalNameType == \A d \in Domain : CanonicalName(d) \in Domain
  BY DEF Domain, CanonicalName

\* The number of labels of a domain is a natural number.
LEMMA CountLabelType == \A d \in Domain : CountLabel(d) \in Nat
  BY DomainMapAssumption DEF Domain, CountLabel

\* The variables of the map and of its lookup keep their types (TypeOK).
THEOREM TypeCorrect == Spec => []TypeOK
<1>1. Init => TypeOK
  <2> SUFFICES ASSUME Init PROVE TypeOK
    OBVIOUS
  <2>1. DOMAIN m = {} /\ m \in [{} -> Value]
    BY DEF Init
  <2>2. m \in [DOMAIN m -> Value] /\ DOMAIN m \subseteq Domain
    BY <2>1
  <2>3. items \in Seq([labels : Name, value : Value])
    BY DEF Init
  <2> QED
    BY <2>2, <2>3 DEF Init, TypeOK
<1>2. TypeOK /\ [Next]_vars => TypeOK'
  <2> SUFFICES ASSUME TypeOK, [Next]_vars PROVE TypeOK'
    OBVIOUS
  <2> USE DEF TypeOK
  <2>1. ASSUME NEW d \in Domain, NEW v \in Value, ParseItem(d, v)
        PROVE TypeOK'
    <3>1. CanonicalName(d) \in Domain
      BY CanonicalNameType
    <3>2. /\ DOMAIN m' = DOMAIN m \cup {CanonicalName(d)}
          /\ \A k \in DOMAIN m' : m'[k] \in Value
          /\ m' \in [DOMAIN m' -> Value]
      BY <2>1 DEF ParseItem, Set
    <3>3. [labels |-> d.labels, value |-> v] \in [labels : Name, value : Value]
      BY DEF Domain
    <3>4. items' \in Seq([labels : Name, value : Value])
      BY <2>1, <3>3 DEF ParseItem
    <3> QED
      BY <2>1, <3>1, <3>2, <3>4 DEF ParseItem
  <2>2. CASE ParseError
    <3>1. DOMAIN m' = {} /\ m' \in [{} -> Value]
      BY <2>2 DEF ParseError
    <3> QED
      BY <2>2, <3>1 DEF ParseError
  <2>3. CASE ParseEnd
    BY <2>3 DEF ParseEnd
  <2>4. ASSUME NEW d \in Domain, Lookup(d)
        PROVE TypeOK'
    BY <2>4, CanonicalNameType DEF Lookup
  <2>5. ASSUME NEW d \in todo, Iterate(d)
        PROVE TypeOK'
    BY <2>5, CountLabelType DEF Iterate
  <2>6. CASE LoopEnd
    BY <2>6 DEF LoopEnd
  <2>7. CASE Return
    BY <2>7 DEF Return
  <2>8. CASE UNCHANGED vars
    BY <2>8 DEF vars
  <2> QED
    BY <2>1, <2>2, <2>3, <2>4, <2>5, <2>6, <2>7, <2>8 DEF Next
<1> QED
  BY <1>1, <1>2, PTL DEF Spec

\* What the loop has found is the most specific of the entries it has visited.
LEMMA LoopStep ==
  TypeOK /\ LoopInvariant /\ [Next]_vars => LoopInvariant'
<1> SUFFICES ASSUME TypeOK, LoopInvariant, [Next]_vars PROVE LoopInvariant'
  OBVIOUS
<1>1. ASSUME NEW d \in Domain, NEW v \in Value, ParseItem(d, v)
      PROVE LoopInvariant'
  BY <1>1 DEF ParseItem, LoopInvariant
<1>2. CASE ParseError
  BY <1>2 DEF ParseError, LoopInvariant
<1>3. CASE ParseEnd
  BY <1>3 DEF ParseEnd, LoopInvariant
<1>4. ASSUME NEW d \in Domain, Lookup(d)
      PROVE LoopInvariant'
  <2>1. domain' \in Domain
    BY <1>4, CanonicalNameType DEF Lookup
  <2>2. {e \in DOMAIN m' \ todo' : IsSubDomain(e, domain')} = {}
    BY <1>4 DEF Lookup
  <2> QED
    BY <1>4, <2>1, <2>2 DEF Lookup, LoopInvariant
<1>5. ASSUME NEW d \in todo, Iterate(d)
      PROVE LoopInvariant'
  <2> DEFINE Seen == {e \in DOMAIN m \ todo : IsSubDomain(e, domain)}
             SeenNow == {e \in DOMAIN m' \ todo' : IsSubDomain(e, domain')}
  <2>1. /\ pc = "loop" /\ pc' = "loop" /\ domain \in Domain
        /\ m' = m /\ domain' = domain
        /\ \A e \in Seen : CountLabel(e) <= mc
        /\ ok => mc > 0 /\ \E e \in Seen : CountLabel(e) = mc /\ mv = m[e]
        /\ ~ok => mc = 0
    BY <1>5 DEF Iterate, LoopInvariant
  <2>2. /\ d \in Domain /\ d \in DOMAIN m /\ mc \in Nat /\ CountLabel(d) \in Nat
        /\ \A e \in Seen : CountLabel(e) \in Nat
    BY CountLabelType DEF TypeOK
  <2>3. CASE IsSubDomain(d, domain) /\ Better(d)
    <3>1. mc' = CountLabel(d) /\ mv' = m[d] /\ ok' = TRUE /\ CountLabel(d) > mc
      BY <1>5, <2>3 DEF Iterate, Better
    <3>2. SeenNow = Seen \cup {d}
      BY <1>5, <2>1, <2>2, <2>3 DEF Iterate
    <3>3. \A e \in SeenNow : CountLabel(e) <= mc'
      BY <2>1, <2>2, <3>1, <3>2
    <3>4. mc' > 0 /\ d \in SeenNow
      BY <2>2, <3>1, <3>2
    <3> HIDE DEF Seen
    <3> QED
      BY <2>1, <3>1, <3>3, <3>4 DEF LoopInvariant, CountLabel
  <2>4. CASE ~(IsSubDomain(d, domain) /\ Better(d))
    <3>1. mc' = mc /\ mv' = mv /\ ok' = ok
      BY <1>5, <2>4 DEF Iterate
    <3>2. IsSubDomain(d, domain) => CountLabel(d) <= mc
      BY <2>2, <2>4 DEF Better
    <3>3. Seen \subseteq SeenNow /\ SeenNow \subseteq Seen \cup {d}
      BY <1>5, <2>1 DEF Iterate
    <3>4. \A e \in SeenNow : CountLabel(e) <= mc'
      <4> SUFFICES ASSUME NEW e \in SeenNow PROVE CountLabel(e) <= mc'
        OBVIOUS
      <4>1. CASE e = d
        BY <2>1, <3>1, <3>2, <4>1
      <4>2. CASE e \in Seen
        BY <2>1, <3>1, <4>2
      <4> QED
        BY <3>3, <4>1, <4>2
    <3>5. ok' => mc' > 0 /\ \E e \in SeenNow : CountLabel(e) = mc' /\ mv' = m'[e]
      BY <2>1, <3>1, <3>3
    <3> QED
      BY <2>1, <3>1, <3>4, <3>5 DEF LoopInvariant, CountLabel
  <2> QED
    BY <2>3, <2>4
<1>6. CASE LoopEnd
  BY <1>6 DEF LoopEnd, LoopInvariant, IsSubDomain, CountLabel
<1>7. CASE Return
  BY <1>7 DEF Return, LoopInvariant
<1>8. CASE UNCHANGED vars
  BY <1>8 DEF vars, LoopInvariant, IsSubDomain, CountLabel
<1> QED
  BY <1>1, <1>2, <1>3, <1>4, <1>5, <1>6, <1>7, <1>8 DEF Next

\* GetMostSpecific returns the longest matching entry below the root, or
\* nothing if there is none, in whatever order the map is visited.
THEOREM MostSpecificCorrect == Spec => []MostSpecific
<1>1. Init => LoopInvariant
  BY DEF Init, LoopInvariant
<1>2. TypeOK /\ LoopInvariant => MostSpecific
  <2> SUFFICES ASSUME TypeOK, LoopInvariant, pc = "done" PROVE MostSpecific
    BY DEF MostSpecific
  <2>1. todo = {} /\ domain \in Domain /\ mc \in Nat
    BY DEF TypeOK, LoopInvariant
  <2>2. Matches = {d \in DOMAIN m \ todo : IsSubDomain(d, domain)}
    BY <2>1 DEF Matches
  <2>3. /\ \A d \in Matches : CountLabel(d) <= mc
        /\ ok => mc > 0 /\ \E d \in Matches : CountLabel(d) = mc /\ mv = m[d]
        /\ ~ok => mc = 0
    BY <2>2 DEF LoopInvariant
  <2>4. \A d \in Matches : Len(d.labels) \in Nat
                           /\ (Root(d) <=> CountLabel(d) = 0)
    <3> SUFFICES ASSUME NEW d \in Matches
                 PROVE  Len(d.labels) \in Nat /\ (Root(d) <=> CountLabel(d) = 0)
      OBVIOUS
    <3>1. d.labels \in Seq(Label)
      BY DomainMapAssumption DEF Matches, TypeOK, Domain
    <3> QED
      BY <3>1 DEF Root, CountLabel
  <2>5. CASE ok
    <3>1. PICK d \in Matches : CountLabel(d) = mc /\ mv = m[d]
      BY <2>3, <2>5
    <3>2. mc > 0 /\ ~Root(d)
      BY <2>1, <2>3, <2>4, <2>5, <3>1
    <3> QED
      BY <2>3, <2>5, <3>1, <3>2 DEF MostSpecific
  <2>6. CASE ~ok
    <3>1. \A d \in Matches : CountLabel(d) <= 0
      BY <2>3, <2>6
    <3>2. \A d \in Matches : Root(d)
      BY <2>4, <3>1 DEF CountLabel
    <3> QED
      BY <2>6, <3>2 DEF MostSpecific
  <2> QED
    BY <2>5, <2>6
<1> QED
  BY <1>1, <1>2, LoopStep, TypeCorrect, PTL DEF Spec

-----------------------------------------------------------------------------
(***************************************************************************)
(* The handler and the counters.  A query is counted before it can count   *)
(* as overridden, and the report reads the two in the other order.         *)
(***************************************************************************)
CountersOK ==
  /\ stage \in {"idle", "counted", "recorded", "lookup"}
  /\ stage # "idle" => question \in Domain
  /\ total \in Nat /\ overrides \in Nat
  /\ overrides + (IF stage = "idle" THEN 0 ELSE 1) <= total

ReportOK ==
  \/ report.todo \in {<<>>, Keys} /\ DOMAIN report.read = {}
  \/ /\ report.todo = <<"total">> /\ DOMAIN report.read = {"override"}
     /\ report.read["override"] \in Nat /\ report.read["override"] <= overrides
  \/ /\ report.todo = <<>> /\ DOMAIN report.read = {"override", "total"}
     /\ report.read["override"] <= report.read["total"]

\* Every step keeps the counters as they should be.
LEMMA CountersStep ==
  ASSUME CountersOK, [StatsNext]_allVars
  PROVE  CountersOK' /\ overrides \in Nat /\ overrides' \in Nat
         /\ overrides <= overrides'
<1> USE DEF CountersOK
<1>1. CASE UNCHANGED <<stage, question, total, overrides>>
  BY <1>1
<1>2. CASE Parse
  BY <1>1, <1>2 DEF Parse, statVars
<1>3. ASSUME (\E d \in Domain : Handle(d)) \/ RejectQuestions
      PROVE  CountersOK' /\ overrides' = overrides
  BY <1>3 DEF Handle, RejectQuestions
<1>4. CASE RecordDomainQuery
  BY <1>4 DEF RecordDomainQuery
<1>5. CASE GetMostSpecific
  BY <1>5 DEF GetMostSpecific
<1>6. CASE Looking
  BY <1>1, <1>6 DEF Looking, statVars
<1>7. CASE Forward
  BY <1>7 DEF Forward
<1>8. CASE Report \/ Read \/ ReportTopDomains
  BY <1>1, <1>8 DEF Report, Read, ReportTopDomains
<1>9. CASE UNCHANGED allVars
  BY <1>1, <1>9 DEF allVars, statVars
<1> QED
  BY <1>2, <1>3, <1>4, <1>5, <1>6, <1>7, <1>8, <1>9 DEF StatsNext

\* Every step keeps what is read of a report, or reads one counter more.
LEMMA ReportStep ==
  ASSUME CountersOK, ReportOK, [StatsNext]_allVars
  PROVE  ReportOK'
<1>1. /\ overrides \in Nat /\ total \in Nat /\ overrides <= total
      /\ overrides' \in Nat /\ overrides <= overrides'
  BY CountersStep DEF CountersOK
<1>2. CASE report' = report
  BY <1>1, <1>2 DEF ReportOK
<1>3. CASE Report
  <2>1. report'.todo = Keys /\ DOMAIN report'.read = {}
    BY <1>3 DEF Report
  <2> QED
    BY <2>1 DEF ReportOK
<1>4. CASE Read
  <2>1. PICK key, value :
          /\ key = Head(report.todo)
          /\ value = IF key = "total" THEN total ELSE overrides
    OBVIOUS
  <2>2. PICK r1 : r1 = [k \in DOMAIN report.read \cup {key} |->
                          IF k = key THEN value ELSE report.read[k]]
    OBVIOUS
  <2>3. report' = [todo |-> Tail(report.todo), read |-> r1]
    BY <1>4, <2>1, <2>2 DEF Read
  <2>4. /\ report'.todo = Tail(report.todo) /\ report'.read = r1
        /\ overrides' = overrides /\ report.todo # <<>>
    BY <1>4, <2>3 DEF Read
  <2>5. CASE report.todo = Keys /\ DOMAIN report.read = {}
    <3>1. key = "override" /\ value = overrides
          /\ report'.todo = <<"total">>
      BY <2>1, <2>4, <2>5 DEF Keys
    <3>2. DOMAIN r1 = {"override"} /\ r1["override"] = overrides
      BY <2>2, <2>5, <3>1
    <3> QED
      BY <1>1, <2>4, <3>1, <3>2 DEF ReportOK
  <2>6. CASE /\ report.todo = <<"total">>
             /\ DOMAIN report.read = {"override"}
             /\ report.read["override"] \in Nat
             /\ report.read["override"] <= overrides
    <3>1. key = "total" /\ value = total /\ report'.todo = <<>>
      BY <2>1, <2>4, <2>6
    <3>2. /\ DOMAIN r1 = {"override", "total"}
          /\ r1["override"] = report.read["override"] /\ r1["total"] = total
      BY <2>2, <2>6, <3>1
    <3>3. r1["override"] <= r1["total"]
      BY <1>1, <2>6, <3>2
    <3> QED
      BY <2>4, <3>1, <3>2, <3>3 DEF ReportOK
  <2> QED
    BY <2>4, <2>5, <2>6 DEF ReportOK
<1> QED
  BY <1>2, <1>3, <1>4
     DEF StatsNext, allVars, statVars, Parse, Handle, RejectQuestions,
         RecordDomainQuery, GetMostSpecific, Looking, Forward, ReportTopDomains

\* A query uses the map as DomainMap describes.
LEMMA MapStep ==
  ASSUME CountersOK, [StatsNext]_allVars
  PROVE  [Next]_vars
<1>1. ASSUME (\E d \in Domain : Handle(d)) \/ RejectQuestions
      PROVE  UNCHANGED vars
  BY <1>1 DEF Handle, RejectQuestions
<1>2. CASE Parse
  BY <1>2 DEF Parse, Next
<1>3. CASE GetMostSpecific
  BY <1>3 DEF GetMostSpecific, Next, CountersOK
<1>4. CASE Looking
  BY <1>4 DEF Looking, Next
<1>5. CASE Forward
  BY <1>5 DEF Forward, Next
<1>6. CASE RecordDomainQuery \/ Report \/ Read \/ ReportTopDomains
  BY <1>6 DEF RecordDomainQuery, Report, Read, ReportTopDomains
<1>7. CASE UNCHANGED allVars
  BY <1>7 DEF allVars
<1> QED
  BY <1>1, <1>2, <1>3, <1>4, <1>5, <1>6, <1>7 DEF StatsNext

\* The server's use of its overrides implements DomainMap, so that what is
\* proved of every lookup holds for those of the queries.
THEOREM QueriesUseMap == StatsSpec => Spec
<1>1. StatsInit => Init /\ CountersOK
  BY DEF StatsInit, CountersOK
<1>2. CountersOK /\ [StatsNext]_allVars => CountersOK' /\ [Next]_vars
  BY CountersStep, MapStep
<1> QED
  BY <1>1, <1>2, PTL DEF StatsSpec, Spec

\* A report of the counters never has more overridden queries than queries,
\* however many go on between its readings.
THEOREM ReportsConsistent == StatsSpec => []ReportConsistent
<1>1. StatsInit => CountersOK /\ ReportOK
  BY DEF StatsInit, CountersOK, ReportOK
<1>2. CountersOK /\ ReportOK /\ [StatsNext]_allVars => CountersOK' /\ ReportOK'
  BY CountersStep, ReportStep
<1>3. ReportOK => ReportConsistent
  BY DEF ReportOK, ReportConsistent
<1> QED
  BY <1>1, <1>2, <1>3, PTL DEF StatsSpec

\* Every query with an override is answered by the closest one.
THEOREM QueriesMostSpecific == StatsSpec => [](TypeOK /\ MostSpecific)
BY QueriesUseMap, TypeCorrect, MostSpecificCorrect, PTL

-----------------------------------------------------------------------------
(***************************************************************************)
(* The counts of the domains, and the report on them.                      *)
(***************************************************************************)
CountsOK ==
  /\ asked \in Seq(Domain)
  /\ IsFiniteSet(DOMAIN counts) /\ DOMAIN counts = AskedNames
  /\ \A n \in AskedNames : counts[n] = Asked(n)

\* A name is asked for a natural number of times, and not at all if it is not
\* among the names.
LEMMA AskedType ==
  ASSUME asked \in Seq(Domain), NEW n
  PROVE  /\ IsFiniteSet({i \in DOMAIN asked : asked[i].labels = n})
         /\ Asked(n) \in Nat
         /\ n \notin AskedNames => Asked(n) = 0
<1>1. PICK S : S = {i \in DOMAIN asked : asked[i].labels = n}
  OBVIOUS
<1>2. IsFiniteSet(1 .. Len(asked))
  BY FS_Interval
<1>3. S \in SUBSET (1 .. Len(asked))
  BY <1>1
<1>4. IsFiniteSet(S) /\ Cardinality(S) \in Nat
  BY <1>2, <1>3, FS_Subset, FS_CardinalityType
<1>5. n \notin AskedNames => S = {}
  BY <1>1 DEF AskedNames
<1> QED
  BY <1>1, <1>4, <1>5, FS_EmptySet DEF Asked

\* Another query adds one to the times its name was asked for.
LEMMA AskedOnceMore ==
  ASSUME asked \in Seq(Domain), NEW d \in Domain, asked' = Append(asked, d)
  PROVE  /\ asked' \in Seq(Domain) /\ AskedNames' = AskedNames \cup {d.labels}
         /\ \A n : Asked(n)' = Asked(n) + (IF n = d.labels THEN 1 ELSE 0)
<1>1. /\ asked' \in Seq(Domain) /\ Len(asked) \in Nat
      /\ DOMAIN asked = 1 .. Len(asked)
      /\ DOMAIN asked' = DOMAIN asked \cup {Len(asked) + 1}
      /\ Len(asked) + 1 \notin DOMAIN asked
      /\ asked'[Len(asked) + 1] = d
      /\ \A i \in DOMAIN asked : asked'[i] = asked[i]
  OBVIOUS
<1>2. AskedNames' = AskedNames \cup {d.labels}
  BY <1>1 DEF AskedNames
<1>3. ASSUME NEW n
      PROVE  Asked(n)' = Asked(n) + (IF n = d.labels THEN 1 ELSE 0)
  <2>1. PICK S, S1 : /\ S = {i \in DOMAIN asked : asked[i].labels = n}
                     /\ S1 = {i \in DOMAIN asked' : asked'[i].labels = n}
    OBVIOUS
  <2>2. /\ IsFiniteSet(S) /\ Asked(n) = Cardinality(S) /\ Asked(n) \in Nat
        /\ Asked(n)' = Cardinality(S1)
    BY <2>1, AskedType DEF Asked
  <2>3. CASE n = d.labels
    <3>1. S1 = S \cup {Len(asked) + 1} /\ Len(asked) + 1 \notin S
      BY <1>1, <2>1, <2>3
    <3> QED
      BY <2>2, <2>3, <3>1, FS_AddElement
  <2>4. CASE n # d.labels
    <3>1. S1 = S
      BY <1>1, <2>1, <2>4
    <3> QED
      BY <2>2, <2>4, <3>1
  <2> QED
    BY <2>3, <2>4
<1> QED
  BY <1>1, <1>2, <1>3

\* Every step keeps the counts as they should be.
LEMMA CountsStep ==
  ASSUME CountersOK, CountsOK, [StatsNext]_allVars
  PROVE  CountsOK'
<1>1. CASE UNCHANGED <<counts, asked>>
  BY <1>1 DEF CountsOK, AskedNames, Asked
<1>2. CASE RecordDomainQuery
  <2>1. PICK d, key : d = question /\ key = d.labels
    OBVIOUS
  <2>2. d \in Domain /\ asked' = Append(asked, d)
    BY <1>2, <2>1 DEF RecordDomainQuery, CountersOK
  <2>3. CanonicalName(question).labels = key
    BY <2>1, <2>2 DEF CanonicalName, Domain
  <2>4. counts' = [n \in DOMAIN counts \cup {key} |->
                     (IF n \in DOMAIN counts THEN counts[n] ELSE 0)
                     + (IF n = key THEN 1 ELSE 0)]
    BY <1>2, <2>3 DEF RecordDomainQuery
  <2>5. /\ asked' \in Seq(Domain) /\ AskedNames' = AskedNames \cup {key}
        /\ \A n : Asked(n)' = Asked(n) + (IF n = key THEN 1 ELSE 0)
    BY <2>1, <2>2, AskedOnceMore DEF CountsOK
  <2>6. DOMAIN counts' = AskedNames' /\ IsFiniteSet(AskedNames')
    BY <2>4, <2>5, FS_AddElement DEF CountsOK
  <2>7. ASSUME NEW n \in AskedNames'
        PROVE  counts'[n] = Asked(n)'
    <3>1. counts'[n] = (IF n \in AskedNames THEN counts[n] ELSE 0)
                       + (IF n = key THEN 1 ELSE 0)
      BY <2>4, <2>5, <2>7 DEF CountsOK
    <3>2. (IF n \in AskedNames THEN counts[n] ELSE 0) = Asked(n)
      BY AskedType DEF CountsOK
    <3> QED
      BY <2>5, <3>1, <3>2
  <2> QED
    BY <2>5, <2>6, <2>7 DEF CountsOK
<1> QED
  BY <1>1, <1>2
     DEF StatsNext, allVars, statVars, Parse, Handle, RejectQuestions,
         GetMostSpecific, Looking, Forward, Report, Read, ReportTopDomains

\* No two names have the same rank.
LEMMA RankType ==
  ASSUME NEW n \in Name
  PROVE  Rank(n) \in DOMAIN Alphabet /\ Rank(n) \in Nat
         /\ Alphabet[Rank(n)] = n
<1>1. \E i \in DOMAIN Alphabet : Alphabet[i] = n
  BY DomainStatsAssumption DEF Range
<1>2. DOMAIN Alphabet \subseteq Nat
  BY DomainStatsAssumption
<1> QED
  BY <1>1, <1>2 DEF Rank

\* The entries of the counts, and that Before orders them like their names.
LEMMA EntriesAre ==
  ASSUME CountsOK
  PROVE  /\ IsFiniteSet(Entries)
         /\ \A e \in Entries : /\ e.name \in AskedNames /\ e.name \in Name
                               /\ e.count = Asked(e.name)
                               /\ e.count \in Nat
         /\ \A n \in AskedNames : \E e \in Entries : e.name = n
         /\ \A e, f \in Entries : e.name = f.name => e = f
         /\ \A e, f \in Entries : Before(e, f) <=> Outranks(e.name, f.name)
<1>1. AskedNames \subseteq Name /\ IsFiniteSet(AskedNames)
  <2>1. \A i \in DOMAIN asked : asked[i] \in Domain
    BY DEF CountsOK
  <2> QED
    BY <2>1 DEF CountsOK, AskedNames, Domain
<1>2. Entries = {[name |-> n, count |-> counts[n]] : n \in AskedNames}
  BY DEF Entries, CountsOK
<1>3. PICK f : f = [n \in AskedNames |-> [name |-> n, count |-> counts[n]]]
  OBVIOUS
<1>4. f \in Surjection(AskedNames, Entries)
  BY <1>2, <1>3, Fun_IsSurj
<1>5. IsFiniteSet(Entries)
  BY <1>1, <1>4, FS_Surjection
<1>6. \A e \in Entries : /\ e.name \in AskedNames /\ e.name \in Name
                         /\ e.count = Asked(e.name)
  BY <1>1, <1>2 DEF CountsOK
<1>7. \A e \in Entries : e.count \in Nat
  <2>1. \A n : Asked(n) \in Nat
    BY AskedType DEF CountsOK
  <2> QED
    BY <1>6, <2>1
<1>8. ASSUME NEW n \in AskedNames
      PROVE  \E e \in Entries : e.name = n
  <2>1. PICK e : e = [name |-> n, count |-> counts[n]]
    OBVIOUS
  <2>2. e \in Entries /\ e.name = n
    BY <1>2, <2>1
  <2> QED
    BY <2>2
<1>9. \A x, y \in Entries : x.name = y.name => x = y
  BY <1>2
<1>10. \A x, y \in Entries : Before(x, y) <=> Outranks(x.name, y.name)
  BY <1>6, Zenon DEF Before, Outranks
<1> QED
  BY <1>5, <1>6, <1>7, <1>8, <1>9, <1>10

\* A list of all the entries, cut off at Limit.
LEMMA CutIs ==
  ASSUME CountsOK, NEW q, NEW ord, Lists(q, Entries, ord),
         \A e, f \in Entries : <<e, f>> \in ord => Before(e, f)
  PROVE  TopOfAsked(Cut(q))
<1>1. PICK N, E, t : N = Cardinality(Entries) /\ E = Entries /\ t = Cut(q)
  OBVIOUS
<1>2. /\ IsFiniteSet(E) /\ N \in Nat
      /\ \A e \in E : /\ e.name \in AskedNames /\ e.name \in Name
                      /\ e.count = Asked(e.name)
                      /\ e.count \in Nat
      /\ \A n \in AskedNames : \E e \in E : e.name = n
      /\ \A e, f \in E : e.name = f.name => e = f
      /\ \A e, f \in E : Before(e, f) <=> Outranks(e.name, f.name)
  BY <1>1, EntriesAre, FS_CardinalityType
<1>3. /\ q \in [1 .. N -> E]
      /\ \A e \in E : \E n \in 1 .. N : q[n] = e
      /\ \A i, j \in 1 .. N : i < j => <<q[i], q[j]>> \in ord
  BY <1>1 DEF Lists
<1>4. \A n \in Nat : \A f \in [1 .. n -> E] : f \in Seq(E) /\ Len(f) = n
  OBVIOUS
<1>5. q \in Seq(E) /\ Len(q) = N
  BY <1>2, <1>3, <1>4
<1>6. PICK L : L = IF N > Limit THEN Limit ELSE N
  OBVIOUS
<1>7. L \in Nat /\ L <= N /\ Limit \in Nat /\ L \in Int
      /\ (L = N \/ L = Limit)
  BY <1>2, <1>6, DomainStatsAssumption
<1>8. /\ t \in Seq(E) /\ Len(t) = L /\ DOMAIN t = 1 .. L
      /\ \A i \in 1 .. L : t[i] = q[i]
  <2>1. CASE N > Limit
    <3>1. t = SubSeq(q, 1, L) /\ L >= 1
      <4>1. Limit >= 1 /\ L = Limit
        BY <1>6, <2>1, DomainStatsAssumption
      <4>2. Len(q) > Limit
        BY <1>5, <2>1
      <4>3. t = SubSeq(q, 1, Limit)
        BY <1>1, <4>2, Zenon DEF Cut
      <4> QED
        BY <4>1, <4>3
    <3>2. \A i \in 1 .. L : q[i] \in E
      <4>1. \A i \in 1 .. L : i \in 1 .. N
        BY <1>2, <1>7
      <4> QED
        BY <1>3, <4>1
    <3>3. /\ t \in Seq(E) /\ Len(t) = IF 1 <= L THEN L - 1 + 1 ELSE 0
          /\ \A i \in 1 .. L - 1 + 1 : t[i] = q[1 + i - 1]
      BY <1>7, <3>1, <3>2, SubSeqProperties
    <3> QED
      BY <1>7, <3>1, <3>3
  <2>2. CASE ~(N > Limit)
    <3>1. t = q /\ L = N
      BY <1>1, <1>5, <1>6, <2>2, Zenon DEF Cut
    <3> QED
      BY <1>3, <1>5, <3>1
  <2> QED
    BY <2>1, <2>2
<1>9. \A i \in 1 .. L : t[i] \in E /\ i \in 1 .. N
  <2>1. \A i \in 1 .. L : i \in 1 .. N
    BY <1>2, <1>7
  <2>2. \A i \in 1 .. N : q[i] \in E
    BY <1>3
  <2> QED
    BY <1>8, <2>1, <2>2
<1>10. ASSUME NEW i \in 1 .. N, NEW j \in 1 .. N, i < j
       PROVE  Before(q[i], q[j]) /\ q[i] \in E /\ q[j] \in E
  BY <1>1, <1>3, <1>10
<1>11. \A e, f \in E : Before(e, f) => ~Before(f, e)
  <2> SUFFICES ASSUME NEW e \in E, NEW f \in E, Before(e, f), Before(f, e)
               PROVE  FALSE
    OBVIOUS
  <2>1. e.count \in Nat /\ f.count \in Nat
        /\ Rank(e.name) \in Nat /\ Rank(f.name) \in Nat
    BY <1>2, RankType
  <2> QED
    BY <2>1 DEF Before
<1>12. \A i, j \in 1 .. N : q[i] = q[j] => i = j
  <2> SUFFICES ASSUME NEW i \in 1 .. N, NEW j \in 1 .. N, q[i] = q[j], i < j
               PROVE  FALSE
    BY <1>2
  <2>1. Before(q[i], q[j]) /\ q[i] \in E
    BY <1>10
  <2> QED
    BY <1>11, <2>1
<1>13. PICK Listed : Listed = {t[i].name : i \in DOMAIN t}
  OBVIOUS
<1>14. Listed \subseteq AskedNames
  BY <1>2, <1>8, <1>9, <1>13
<1>15. L = Cardinality(Listed)
  <2>1. PICK f : f = [i \in 1 .. L |-> t[i].name]
    OBVIOUS
  <2>2. f \in Surjection(1 .. L, Listed)
    BY <1>8, <1>13, <2>1, Fun_IsSurj
  <2>3. ASSUME NEW i \in 1 .. L, NEW j \in 1 .. L, f[i] = f[j]
        PROVE  i = j
    <3>1. t[i].name = t[j].name
      BY <2>1, <2>3
    <3>2. q[i] = q[j]
      BY <1>2, <1>8, <1>9, <3>1
    <3> QED
      BY <1>9, <1>12, <3>2
  <2>4. f \in [1 .. L -> Listed]
    BY <1>8, <1>13, <2>1
  <2>5. f \in Injection(1 .. L, Listed)
    BY <2>3, <2>4, Fun_IsInj
  <2>6. IsFiniteSet(1 .. L) /\ Cardinality(1 .. L) = L
    BY <1>7, FS_Interval
  <2> QED
    BY <2>2, <2>5, <2>6, FS_Surjection
<1>16. L = Limit \/ Listed = AskedNames
  <2> SUFFICES ASSUME L = N, NEW n \in AskedNames PROVE n \in Listed
    BY <1>7, <1>14
  <2>1. PICK e \in E : e.name = n
    BY <1>2
  <2>2. PICK k \in 1 .. N : q[k] = e
    BY <1>3
  <2> QED
    BY <1>8, <1>13, <2>1, <2>2
<1>17. ASSUME NEW i \in 1 .. L, NEW n \in AskedNames, Outranks(n, t[i].name)
       PROVE  \E j \in 1 .. i - 1 : t[j].name = n
  <2>1. PICK e \in E : e.name = n
    BY <1>2
  <2>2. PICK k \in 1 .. N : q[k] = e
    BY <1>3
  <2>3. Before(e, q[i]) /\ q[i] \in E /\ i \in 1 .. N
    BY <1>2, <1>8, <1>9, <1>17, <2>1
  <2>4. ~Before(q[i], e)
    BY <1>11, <2>3
  <2>5. k # i
    BY <2>2, <2>3, <2>4
  <2>6. ~(i < k)
    BY <1>10, <2>2, <2>3, <2>4
  <2>7. k \in 1 .. i - 1 /\ k \in 1 .. L
    BY <1>2, <1>7, <2>5, <2>6
  <2> QED
    BY <1>8, <2>1, <2>2, <2>7
<1>18. \A i \in 1 .. L : t[i].count = Asked(t[i].name)
  BY <1>2, <1>9
<1>19. \A i \in 1 .. L : \A n \in AskedNames : Outranks(n, t[i].name) =>
         \E j \in 1 .. i - 1 : t[j].name = n
  BY <1>17, Zenon
<1>20. TopOfAsked(t)
  BY <1>8, <1>13, <1>14, <1>15, <1>16, <1>18, <1>19, Zenon DEF TopOfAsked
<1> QED
  BY <1>1, <1>20

\* topDomains returns the names asked for most.
LEMMA TopDomainsAre ==
  ASSUME CountsOK
  PROVE  TopOfAsked(topDomains)
<1>1. PICK E, ord : E = Entries /\ ord = {p \in E \X E : Before(p[1], p[2])}
  OBVIOUS
<1>2. \A e, f \in E : <<e, f>> \in ord <=> Before(e, f)
  BY <1>1
<1>3. \A e \in E : e.count \in Nat /\ Rank(e.name) \in Nat
  BY <1>1, EntriesAre, RankType
<1>4. \A e, f \in E : e # f => Rank(e.name) # Rank(f.name)
  <2> SUFFICES ASSUME NEW e \in E, NEW f \in E, Rank(e.name) = Rank(f.name)
               PROVE  e = f
    OBVIOUS
  <2>1. e.name = f.name
    BY <1>1, EntriesAre, RankType
  <2> QED
    BY <1>1, <2>1, EntriesAre
<1>5. StrictTotal(E, ord)
  <2>1. \A e \in E : <<e, e>> \notin ord
    BY <1>2, <1>3 DEF Before
  <2>2. \A e, f \in E : e # f => <<e, f>> \in ord \/ <<f, e>> \in ord
    BY <1>2, <1>3, <1>4 DEF Before
  <2>3. \A e, f, g \in E :
          <<e, f>> \in ord /\ <<f, g>> \in ord => <<e, g>> \in ord
    BY <1>2, <1>3 DEF Before
  <2> QED
    BY <2>1, <2>2, <2>3 DEF StrictTotal
<1>6. Lists(InOrder(E, ord), E, ord)
  BY <1>1, <1>5, EntriesAre, InOrderLists
<1>7. TopOfAsked(Cut(InOrder(E, ord)))
  BY <1>1, <1>2, <1>6, CutIs
<1>8. topDomains = Cut(InOrder(E, ord))
  BY <1>1, Zenon DEF topDomains, Sorted
<1> QED
  BY <1>7, <1>8

\* Every report of the top domains is right when it is made: those asked for
\* most, with the number of times, in their order, whatever the spellings and
\* however many names there are.
THEOREM TopReported == StatsSpec => TopIsTop
<1>1. StatsInit => CountersOK /\ CountsOK
  <2> SUFFICES ASSUME StatsInit PROVE CountersOK /\ CountsOK
    OBVIOUS
  <2>1. DOMAIN counts = {} /\ asked = <<>> /\ AskedNames = {}
    BY DEF StatsInit, AskedNames
  <2> QED
    BY <2>1, FS_EmptySet DEF StatsInit, CountersOK, CountsOK
<1>2. CountersOK /\ CountsOK /\ [StatsNext]_allVars => CountersOK' /\ CountsOK'
  BY CountersStep, CountsStep
<1>3. CountsOK /\ ReportTopDomains => TopOfAsked(top')
  BY TopDomainsAre DEF ReportTopDomains
<1> QED
  BY <1>1, <1>2, <1>3, PTL DEF StatsSpec, TopIsTop
=============================================================================
