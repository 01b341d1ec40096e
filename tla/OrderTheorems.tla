----------------------------- MODULE OrderTheorems -----------------------------
(***************************************************************************)
(* What the operators of Orders do, for every finite set and strict total  *)
(* order.  An element's place is the number of those ahead of it; as no    *)
(* two have the same place, and there are as many places as elements,      *)
(* every place is taken.                                                   *)
(***************************************************************************)
EXTENDS Orders, FiniteSetTheorems, FunctionTheorems, SequenceTheorems,
        TLAPS

StrictTotal(S, ord) ==
  /\ \A x \in S : <<x, x>> \notin ord
  /\ \A x, y \in S : x # y => <<x, y>> \in ord \/ <<y, x>> \in ord
  /\ \A x, y, z \in S : <<x, y>> \in ord /\ <<y, z>> \in ord => <<x, z>> \in ord

\* q lists the elements of S, each once, in the order ord.
Lists(q, S, ord) ==
  /\ q \in [1 .. Cardinality(S) -> S]
  /\ \A x \in S : \E n \in 1 .. Cardinality(S) : q[n] = x
  /\ \A i, j \in 1 .. Cardinality(S) : i < j => <<q[i], q[j]>> \in ord

\* The elements ahead of x are finitely many and fewer than all.
LEMMA AheadFinite ==
  ASSUME NEW S, IsFiniteSet(S), NEW ord, StrictTotal(S, ord), NEW x \in S
  PROVE  /\ IsFiniteSet(Ahead(S, ord, x))
         /\ Cardinality(Ahead(S, ord, x)) \in 0 .. Cardinality(S) - 1
<1>1. Ahead(S, ord, x) \in SUBSET S /\ Ahead(S, ord, x) # S
  BY DEF Ahead, StrictTotal
<1>2. /\ IsFiniteSet(Ahead(S, ord, x))
      /\ Cardinality(Ahead(S, ord, x)) <= Cardinality(S)
      /\ Cardinality(S) # Cardinality(Ahead(S, ord, x))
  BY <1>1, FS_Subset
<1>3. Cardinality(Ahead(S, ord, x)) \in Nat /\ Cardinality(S) \in Nat
  BY <1>2, FS_CardinalityType
<1> QED
  BY <1>2, <1>3

\* Fewer are ahead of an element than of one behind it.
LEMMA AheadGrows ==
  ASSUME NEW S, IsFiniteSet(S), NEW ord, StrictTotal(S, ord),
         NEW x \in S, NEW y \in S, <<x, y>> \in ord
  PROVE  Cardinality(Ahead(S, ord, x)) < Cardinality(Ahead(S, ord, y))
<1>1. /\ Ahead(S, ord, x) \in SUBSET Ahead(S, ord, y)
      /\ Ahead(S, ord, x) # Ahead(S, ord, y)
  BY DEF Ahead, StrictTotal
<1>2. /\ IsFiniteSet(Ahead(S, ord, x)) /\ IsFiniteSet(Ahead(S, ord, y))
      /\ Cardinality(Ahead(S, ord, x)) \in Nat
      /\ Cardinality(Ahead(S, ord, y)) \in Nat
  BY AheadFinite
<1>3. /\ Cardinality(Ahead(S, ord, x)) <= Cardinality(Ahead(S, ord, y))
      /\ Cardinality(Ahead(S, ord, y)) # Cardinality(Ahead(S, ord, x))
  BY <1>1, <1>2, FS_Subset
<1> QED
  BY <1>2, <1>3

\* Every place has an element.
LEMMA InOrderPlaces ==
  ASSUME NEW S, IsFiniteSet(S), NEW ord, StrictTotal(S, ord)
  PROVE  \A n \in 1 .. Cardinality(S) :
           /\ InOrder(S, ord)[n] \in S
           /\ Cardinality(Ahead(S, ord, InOrder(S, ord)[n])) = n - 1
<1> DEFINE N == Cardinality(S)
           place == [x \in S |-> Cardinality(Ahead(S, ord, x)) + 1]
<1>1. N \in Nat
  BY FS_CardinalityType
<1>2. place \in [S -> 1 .. N]
  BY <1>1, AheadFinite
<1>3. ASSUME NEW x \in S, NEW y \in S, <<x, y>> \in ord
      PROVE  place[x] < place[y]
  BY <1>3, AheadGrows, AheadFinite
<1>4. ASSUME NEW x \in S, NEW y \in S, place[x] = place[y]
      PROVE  x = y
  <2> SUFFICES ASSUME x # y PROVE FALSE
    OBVIOUS
  <2>1. place[x] \in 1 .. N /\ place[y] \in 1 .. N
    BY <1>2
  <2>2. place[x] < place[y] \/ place[y] < place[x]
    BY <1>3 DEF StrictTotal
  <2> HIDE DEF place
  <2> QED
    BY <1>1, <1>4, <2>1, <2>2
<1>5. place \in Injection(S, 1 .. N)
  BY <1>2, <1>4, Fun_IsInj
<1>6. /\ IsFiniteSet(1 .. N) /\ Cardinality(1 .. N) = N
  BY <1>1, FS_Interval
<1>7. place \in Surjection(S, 1 .. N)
  <2>1. Cardinality(S) = Cardinality(1 .. N)
    BY <1>6
  <2> HIDE DEF place, N
  <2> QED
    BY <1>5, <1>6, <2>1, FS_Injection
<1>8. \A n \in 1 .. N : \E x \in S : place[x] = n
  <2> HIDE DEF place, N
  <2> QED
    BY <1>7, Fun_SurjectionProperties
<1> SUFFICES ASSUME NEW n \in 1 .. N
             PROVE  /\ InOrder(S, ord)[n] \in S
                    /\ Cardinality(Ahead(S, ord, InOrder(S, ord)[n])) = n - 1
  OBVIOUS
<1>9. PICK x \in S : place[x] = n
  BY <1>8
<1>10. Cardinality(Ahead(S, ord, x)) = n - 1
  BY <1>2, <1>9, AheadFinite
<1>11. InOrder(S, ord)[n]
         = CHOOSE y \in S : Cardinality(Ahead(S, ord, y)) = n - 1
  BY DEF InOrder
<1> QED
  BY <1>10, <1>11

\* A place has one element.
LEMMA InOrderAt ==
  ASSUME NEW S, IsFiniteSet(S), NEW ord, StrictTotal(S, ord), NEW x \in S,
         NEW n \in 1 .. Cardinality(S),
         Cardinality(Ahead(S, ord, x)) = n - 1
  PROVE  InOrder(S, ord)[n] = x
<1>1. InOrder(S, ord)[n] = CHOOSE y \in S : Cardinality(Ahead(S, ord, y)) = n - 1
  BY DEF InOrder
<1> DEFINE z == CHOOSE y \in S : Cardinality(Ahead(S, ord, y)) = n - 1
<1>2. z \in S /\ Cardinality(Ahead(S, ord, z)) = n - 1
  OBVIOUS
<1> HIDE DEF z
<1>3. z = x
  <2> SUFFICES ASSUME z # x PROVE FALSE
    OBVIOUS
  <2>1. <<z, x>> \in ord \/ <<x, z>> \in ord
    BY <1>2 DEF StrictTotal
  <2>2. \/ Cardinality(Ahead(S, ord, z)) < Cardinality(Ahead(S, ord, x))
        \/ Cardinality(Ahead(S, ord, x)) < Cardinality(Ahead(S, ord, z))
    BY <1>2, <2>1, AheadGrows
  <2>3. n - 1 \in Int
    OBVIOUS
  <2> QED
    BY <1>2, <2>2, <2>3
<1> QED
  BY <1>1, <1>3 DEF z

\* InOrder lists a set in its order.
THEOREM InOrderLists ==
  ASSUME NEW S, IsFiniteSet(S), NEW ord, StrictTotal(S, ord)
  PROVE  Lists(InOrder(S, ord), S, ord)
<1> DEFINE N == Cardinality(S)
           q == InOrder(S, ord)
<1>1. N \in Nat
  BY FS_CardinalityType
<1>2. \A n \in 1 .. N :
        q[n] \in S /\ Cardinality(Ahead(S, ord, q[n])) = n - 1
  BY InOrderPlaces
<1>3. q \in [1 .. N -> S]
  BY <1>2 DEF InOrder
<1>4. ASSUME NEW x \in S
      PROVE  \E n \in 1 .. N : q[n] = x
  <2>1. PICK n : n = Cardinality(Ahead(S, ord, x)) + 1
    OBVIOUS
  <2>2. n \in 1 .. N /\ Cardinality(Ahead(S, ord, x)) = n - 1
    BY <1>1, <2>1, AheadFinite
  <2> QED
    BY <2>2, InOrderAt
<1>5. ASSUME NEW i \in 1 .. N, NEW j \in 1 .. N, i < j
      PROVE  <<q[i], q[j]>> \in ord
  <2>1. q[i] # q[j]
    BY <1>1, <1>2, <1>5
  <2>2. ~ (<<q[j], q[i]>> \in ord)
    <3> SUFFICES ASSUME <<q[j], q[i]>> \in ord PROVE FALSE
      OBVIOUS
    <3>1. Cardinality(Ahead(S, ord, q[j])) < Cardinality(Ahead(S, ord, q[i]))
      BY <1>2, AheadGrows
    <3> QED
      BY <1>1, <1>2, <1>5, <3>1
  <2> QED
    BY <1>2, <2>1, <2>2 DEF StrictTotal
<1> QED
  BY <1>3, <1>4, <1>5 DEF Lists

\* The indices of a sequence, or some of them, in their order.
Increasing(I) == InOrder(I, {p \in I \X I : p[1] < p[2]})

\* Increasing lists the indices, each once.
LEMMA IncreasingLists ==
  ASSUME NEW I \in SUBSET Int, IsFiniteSet(I)
  PROVE  /\ Increasing(I) \in [1 .. Cardinality(I) -> I]
         /\ \A x \in I : \E n \in 1 .. Cardinality(I) : Increasing(I)[n] = x
         /\ \A i, j \in 1 .. Cardinality(I) :
              i < j => Increasing(I)[i] < Increasing(I)[j]
<1> DEFINE ord == {p \in I \X I : p[1] < p[2]}
<1>1. \A x, y \in I : <<x, y>> \in ord <=> x < y
  OBVIOUS
<1>2. StrictTotal(I, ord)
  BY <1>1 DEF StrictTotal
<1> HIDE DEF ord
<1>3. Lists(InOrder(I, ord), I, ord)
  BY <1>2, InOrderLists
<1>4. Increasing(I) = InOrder(I, ord)
  BY DEF Increasing, ord
<1>5. \A i, j \in 1 .. Cardinality(I) :
        Increasing(I)[i] \in I /\ Increasing(I)[j] \in I
  BY <1>3, <1>4 DEF Lists
<1> QED
  BY <1>1, <1>3, <1>4, <1>5 DEF Lists

\* What is selected of a sequence is a subsequence of it, and all that was asked
\* for.
THEOREM SelectedIs ==
  ASSUME NEW T, NEW s \in Seq(T), NEW I \in SUBSET DOMAIN s
  PROVE  /\ Selected(s, I) \in Seq(T)
         /\ Len(Selected(s, I)) = Cardinality(I)
         /\ IsFiniteSet(I)
         /\ \A n \in DOMAIN Selected(s, I) :
              \E i \in I : Selected(s, I)[n] = s[i]
         /\ \A i \in I :
              \E n \in DOMAIN Selected(s, I) : Selected(s, I)[n] = s[i]
<1>1. I \in SUBSET Int /\ DOMAIN s = 1 .. Len(s) /\ Len(s) \in Nat
  OBVIOUS
<1>2. IsFiniteSet(I) /\ Cardinality(I) \in Nat
  <2>1. IsFiniteSet(1 .. Len(s)) /\ I \in SUBSET (1 .. Len(s))
    BY <1>1, FS_Interval
  <2> QED
    BY <2>1, FS_Subset, FS_CardinalityType
<1>3. Selected(s, I) = [n \in 1 .. Cardinality(I) |-> s[Increasing(I)[n]]]
  BY DEF Selected, Increasing
<1>4. /\ Increasing(I) \in [1 .. Cardinality(I) -> I]
      /\ \A x \in I : \E n \in 1 .. Cardinality(I) : Increasing(I)[n] = x
  BY <1>1, <1>2, IncreasingLists
<1>5. \A i \in I : s[i] \in T
  BY <1>1
<1>6. \A n \in 1 .. Cardinality(I) :
        Selected(s, I)[n] = s[Increasing(I)[n]] /\ Increasing(I)[n] \in I
  BY <1>3, <1>4
<1>7. Selected(s, I) \in [1 .. Cardinality(I) -> T]
  BY <1>3, <1>4, <1>5
<1>8. \A n \in Nat : \A q \in [1 .. n -> T] :
        q \in Seq(T) /\ Len(q) = n /\ DOMAIN q = 1 .. n
  OBVIOUS
<1>9. /\ Selected(s, I) \in Seq(T)
      /\ Len(Selected(s, I)) = Cardinality(I)
      /\ DOMAIN Selected(s, I) = 1 .. Cardinality(I)
  BY <1>2, <1>7, <1>8
<1>10. \A i \in I :
         \E n \in 1 .. Cardinality(I) : Selected(s, I)[n] = s[i]
  BY <1>4, <1>6
<1> QED
  BY <1>2, <1>6, <1>9, <1>10

\* The numbers of a set below one of its elements say which place it has.
LEMMA IncreasingAt ==
  ASSUME NEW I \in SUBSET Int, IsFiniteSet(I), NEW x \in I, NEW n \in Nat,
         Cardinality({y \in I : y < x}) = n - 1
  PROVE  n \in 1 .. Cardinality(I) /\ Increasing(I)[n] = x
<1> DEFINE ord == {p \in I \X I : p[1] < p[2]}
<1>1. \A a, b \in I : <<a, b>> \in ord <=> a < b
  OBVIOUS
<1>2. StrictTotal(I, ord)
  BY <1>1 DEF StrictTotal
<1>3. Ahead(I, ord, x) = {y \in I : y < x}
  BY <1>1 DEF Ahead
<1>4. Increasing(I) = InOrder(I, ord)
  BY DEF Increasing
<1> HIDE DEF ord
<1>5. Cardinality(Ahead(I, ord, x)) = n - 1
  BY <1>3
<1>6. n \in 1 .. Cardinality(I)
  <2>1. Cardinality(Ahead(I, ord, x)) \in 0 .. Cardinality(I) - 1
    BY <1>2, AheadFinite
  <2>2. Cardinality(I) \in Nat
    BY FS_CardinalityType
  <2> QED
    BY <1>5, <2>1, <2>2
<1>7. InOrder(I, ord)[n] = x
  BY <1>2, <1>5, <1>6, InOrderAt
<1> QED
  BY <1>4, <1>6, <1>7

\* The other way around.
LEMMA IncreasingBelow ==
  ASSUME NEW I \in SUBSET Int, IsFiniteSet(I), NEW n \in 1 .. Cardinality(I)
  PROVE  Cardinality({y \in I : y < Increasing(I)[n]}) = n - 1
<1> DEFINE ord == {p \in I \X I : p[1] < p[2]}
           q == InOrder(I, ord)
<1>1. \A a, b \in I : <<a, b>> \in ord <=> a < b
  OBVIOUS
<1>2. StrictTotal(I, ord)
  BY <1>1 DEF StrictTotal
<1>3. Increasing(I) = q
  BY DEF Increasing
<1> HIDE DEF ord
<1>4. q[n] \in I /\ Cardinality(Ahead(I, ord, q[n])) = n - 1
  BY <1>2, InOrderPlaces
<1>5. Ahead(I, ord, q[n]) = {y \in I : y < q[n]}
  BY <1>1, <1>4 DEF Ahead
<1> QED
  BY <1>3, <1>4, <1>5

\* An interval.
LEMMA IncreasingInterval ==
  ASSUME NEW a \in Int, NEW b \in Int, a <= b + 1
  PROVE  /\ IsFiniteSet(a .. b) /\ Cardinality(a .. b) = b - a + 1
         /\ \A n \in 1 .. b - a + 1 : Increasing(a .. b)[n] = a + n - 1
<1>1. IsFiniteSet(a .. b) /\ Cardinality(a .. b) = b - a + 1
  BY FS_Interval
<1>2. ASSUME NEW n \in 1 .. b - a + 1
      PROVE  Increasing(a .. b)[n] = a + n - 1
  <2>1. PICK x : x = a + n - 1
    OBVIOUS
  <2>2. x \in a .. b /\ x - 1 \in Int
    BY <2>1
  <2>3. {y \in a .. b : y < x} = a .. (x - 1)
    BY <2>2
  <2>4. Cardinality(a .. (x - 1)) = n - 1
    BY <2>1, <2>2, FS_Interval
  <2>5. a .. b \in SUBSET Int /\ n \in Nat
    OBVIOUS
  <2>6. Cardinality({y \in a .. b : y < x}) = n - 1
    BY <2>3, <2>4
  <2> QED
    BY <1>1, <2>1, <2>2, <2>5, <2>6, IncreasingAt
<1> QED
  BY <1>1, <1>2

\* What is selected, place by place.
LEMMA SelectedAt ==
  ASSUME NEW T, NEW s \in Seq(T), NEW I \in SUBSET DOMAIN s
  PROVE  /\ I \in SUBSET Int /\ IsFiniteSet(I) /\ Cardinality(I) \in Nat
         /\ Selected(s, I) \in Seq(T)
         /\ Len(Selected(s, I)) = Cardinality(I)
         /\ DOMAIN Selected(s, I) = 1 .. Cardinality(I)
         /\ \A n \in 1 .. Cardinality(I) :
              /\ Increasing(I)[n] \in I
              /\ Selected(s, I)[n] = s[Increasing(I)[n]]
<1>1. /\ Selected(s, I) \in Seq(T)
      /\ Len(Selected(s, I)) = Cardinality(I)
      /\ IsFiniteSet(I)
  BY SelectedIs
<1>2. I \in SUBSET Int
  OBVIOUS
<1>3. Cardinality(I) \in Nat
  BY <1>1, FS_CardinalityType
<1>4. Selected(s, I) = [n \in 1 .. Cardinality(I) |-> s[Increasing(I)[n]]]
  BY DEF Selected, Increasing
<1>5. Increasing(I) \in [1 .. Cardinality(I) -> I]
  BY <1>1, <1>2, IncreasingLists
<1> QED
  BY <1>1, <1>2, <1>3, <1>4, <1>5

\* What is selected of a sequence that grows: the same, or one more.
THEOREM SelectedGrows ==
  ASSUME NEW T, NEW s \in Seq(T), NEW e \in T, NEW I \in SUBSET DOMAIN s
  PROVE  /\ Selected(Append(s, e), I) = Selected(s, I)
         /\ Selected(Append(s, e), I \cup {Len(s) + 1})
              = Append(Selected(s, I), e)
<1> DEFINE N == Len(s) + 1
           a == Append(s, e)
           J == I \cup {N}
           c == Cardinality(I)
<1>1. /\ N \in Nat /\ a \in Seq(T) /\ DOMAIN a = 1 .. N
      /\ DOMAIN s = 1 .. N - 1
      /\ a[N] = e /\ \A i \in DOMAIN s : a[i] = s[i]
  BY AppendProperties
<1>2. I \in SUBSET DOMAIN a /\ J \in SUBSET DOMAIN a
  BY <1>1
<1>3. N \notin I /\ \A i \in I : i < N /\ i \in Int
  BY <1>1
<1> HIDE DEF N, a
<1>4. /\ I \in SUBSET Int /\ IsFiniteSet(I) /\ c \in Nat
      /\ Selected(s, I) \in Seq(T)
      /\ Len(Selected(s, I)) = c
      /\ \A n \in 1 .. c :
           /\ Increasing(I)[n] \in I
           /\ Selected(s, I)[n] = s[Increasing(I)[n]]
  BY SelectedAt
<1>5. /\ Selected(a, I) \in Seq(T)
      /\ Len(Selected(a, I)) = c
      /\ \A n \in 1 .. c : Selected(a, I)[n] = a[Increasing(I)[n]]
  BY <1>1, <1>2, SelectedAt
<1>6. Selected(a, I) = Selected(s, I)
  BY <1>1, <1>4, <1>5, SeqEqual
<1>7. IsFiniteSet(J) /\ Cardinality(J) = c + 1
  BY <1>3, <1>4, FS_AddElement
<1>8. /\ J \in SUBSET Int
      /\ Selected(a, J) \in Seq(T)
      /\ Len(Selected(a, J)) = c + 1
      /\ \A n \in 1 .. c + 1 : Selected(a, J)[n] = a[Increasing(J)[n]]
  <2> HIDE DEF J
  <2>1. /\ J \in SUBSET Int
        /\ Selected(a, J) \in Seq(T)
        /\ Len(Selected(a, J)) = Cardinality(J)
        /\ \A n \in 1 .. Cardinality(J) :
             Selected(a, J)[n] = a[Increasing(J)[n]]
    BY <1>1, <1>2, SelectedAt
  <2> QED
    BY <1>7, <2>1
<1>9. Increasing(J)[c + 1] = N
  <2>1. {y \in J : y < N} = I
    BY <1>1, <1>3
  <2>2. N \in J /\ c + 1 \in Nat /\ c = (c + 1) - 1
    BY <1>4
  <2>3. Cardinality({y \in J : y < N}) = (c + 1) - 1
    BY <2>1, <2>2
  <2> HIDE DEF J, c
  <2> QED
    BY <1>7, <1>8, <2>2, <2>3, IncreasingAt
<1>10. ASSUME NEW n \in 1 .. c
       PROVE  Increasing(J)[n] = Increasing(I)[n]
  <2>1. PICK x : x = Increasing(I)[n]
    OBVIOUS
  <2>2. x \in I /\ x \in J
    BY <1>4, <2>1
  <2>3. {y \in J : y < x} = {y \in I : y < x}
    BY <1>1, <1>3, <2>2
  <2>4. Cardinality({y \in I : y < x}) = n - 1
    BY <1>4, <2>1, IncreasingBelow
  <2>5. Cardinality({y \in J : y < x}) = n - 1
    BY <2>3, <2>4
  <2> HIDE DEF J
  <2>6. J \in SUBSET Int /\ IsFiniteSet(J)
    BY <1>7, <1>8
  <2>7. Increasing(J)[n] = x
    BY <1>4, <2>2, <2>5, <2>6, IncreasingAt
  <2> QED
    BY <2>1, <2>7
<1>11. /\ Append(Selected(s, I), e) \in Seq(T)
       /\ Len(Append(Selected(s, I), e)) = c + 1
       /\ \A n \in 1 .. c : Append(Selected(s, I), e)[n] = Selected(s, I)[n]
       /\ Append(Selected(s, I), e)[c + 1] = e
  <2>1. PICK q : q = Selected(s, I)
    OBVIOUS
  <2>2. q \in Seq(T) /\ Len(q) = c
    BY <1>4, <2>1
  <2> HIDE DEF c
  <2>3. /\ Append(q, e) \in Seq(T)
        /\ Len(Append(q, e)) = Len(q) + 1
        /\ \A i \in 1 .. Len(q) : Append(q, e)[i] = q[i]
        /\ Append(q, e)[Len(q) + 1] = e
    BY <2>2, AppendProperties
  <2> QED
    BY <2>1, <2>2, <2>3
<1>12. \A n \in 1 .. c + 1 : Selected(a, J)[n] = Append(Selected(s, I), e)[n]
  <2> SUFFICES ASSUME NEW n \in 1 .. c + 1
               PROVE  Selected(a, J)[n] = Append(Selected(s, I), e)[n]
    OBVIOUS
  <2>1. CASE n = c + 1
    BY <1>1, <1>8, <1>9, <1>11, <2>1
  <2>2. CASE n \in 1 .. c
    <3> HIDE DEF c, J
    <3>1. Selected(a, J)[n] = a[Increasing(I)[n]]
      BY <1>8, <1>10, <2>2
    <3>2. a[Increasing(I)[n]] = s[Increasing(I)[n]]
      BY <1>1, <1>4, <2>2
    <3>3. Append(Selected(s, I), e)[n] = s[Increasing(I)[n]]
      BY <1>4, <1>11, <2>2
    <3> QED
      BY <3>1, <3>2, <3>3
  <2> HIDE DEF c
  <2> QED
    BY <1>4, <2>1, <2>2
<1>13. Selected(a, J) = Append(Selected(s, I), e)
  BY <1>8, <1>11, <1>12, SeqEqual
<1> QED
  BY <1>6, <1>13 DEF a, N

===============================================================================
