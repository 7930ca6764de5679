---------------------------- MODULE UpdatesProofs ----------------------------
(* The settings and the updates, for any formats, registries, pages and     *)
(* releases, and any number of events.  The lists of formats are folds, so  *)
(* what is needed of them is proved by induction first.                     *)
EXTENDS Updates, FiniteSetTheorems, SequenceTheorems, TLAPS

-----------------------------------------------------------------------------
(* Numbers                                                                 *)

\* What 0 has and each successor inherits, every number has.
LEMMA Induction ==
    ASSUME NEW S, 0 \in S, \A n \in Nat : n \in S => n + 1 \in S
    PROVE  Nat \subseteq S
  <1> SUFFICES ASSUME ~(Nat \subseteq S) PROVE FALSE
    OBVIOUS
  <1> DEFINE T == {n \in Nat : n \notin S}
  <1>1. T \subseteq Nat /\ T # {}
    OBVIOUS
  <1>2. IsWellFoundedOn(OpToRel(<, Nat), Nat)
    BY NatLessThanWellFounded
  <1>3. \E x \in T : \A y \in T : ~(<<y, x>> \in OpToRel(<, Nat))
    <2> HIDE DEF T
    <2> QED
      BY <1>1, <1>2, WFMin
  <1>4. PICK x \in T : \A y \in T : ~(y < x)
    BY <1>3 DEF OpToRel
  <1>5. x # 0 /\ x - 1 \in Nat
    OBVIOUS
  <1>6. x - 1 \in S
    BY <1>4, <1>5
  <1> QED
    BY <1>5, <1>6

\* The greatest of the first numbers.
LEMMA MaxIs ==
    ASSUME NEW s, NEW m \in Nat, s \subseteq 1..m, m \in s
    PROVE  Max(s) = m
  <1> DEFINE Top(x) == x \in s /\ \A y \in s : x >= y
  <1>1. \A x \in s : x \in Int /\ m >= x
    OBVIOUS
  <1>2. Top(m) /\ \A x : Top(x) => x >= m /\ x \in s
    BY <1>1
  <1>3. \A x : Top(x) => x = m
    BY <1>1, <1>2
  <1> QED
    BY <1>2, <1>3 DEF Max

\* A set of the first numbers has a greatest one.
LEMMA Greatest ==
    ASSUME NEW m \in Nat, NEW s \in SUBSET (1..m), s # {}
    PROVE  Max(s) \in s
  <1> DEFINE Has == {j \in Nat : \A t \in SUBSET (1..j) : t # {} =>
                       \E x \in t : \A y \in t : x >= y}
  <1>1. 0 \in Has
    <2>1. 1..0 = {}
      OBVIOUS
    <2> QED
      BY <2>1
  <1>2. ASSUME NEW j \in Nat, j \in Has
        PROVE  j + 1 \in Has
    <2> SUFFICES ASSUME NEW t \in SUBSET (1..(j + 1)), t # {}
                 PROVE  \E x \in t : \A y \in t : x >= y
      OBVIOUS
    <2>1. CASE j + 1 \in t
      BY <2>1
    <2>2. CASE j + 1 \notin t
      <3>1. t \in SUBSET (1..j)
        BY <2>2
      <3> QED
        BY <3>1, <1>2
    <2> QED
      BY <2>1, <2>2
  <1>3. m \in Has
    <2> HIDE DEF Has
    <2> QED
      BY <1>1, <1>2, Induction
  <1>4. \E x \in s : \A y \in s : x >= y
    BY <1>3
  <1> QED
    BY <1>4 DEF Max

-----------------------------------------------------------------------------
(* What FoldLeft computes                                                  *)

\* What the next element adds: it may be away, or be there already.
Step(once, away, kept, x) ==
    IF x \in away \/ (once = "once" /\ Contains(kept, x))
    THEN kept ELSE Append(kept, x)

\* What FoldLeft computes of each set of places.
Folds(it, once, away, list) ==
    it = [s \in SUBSET DOMAIN list |->
            IF s = {} THEN <<>>
            ELSE Step(once, away, it[s \ {Max(s)}], list[Max(s)])]
Fold(once, away, list) == CHOOSE it : Folds(it, once, away, list)

\* Without is the fold that leaves some elements away.
LEMMA WithoutIs ==
    ASSUME NEW list, NEW away
    PROVE  Without(list, away) = Fold("any", away, list)[DOMAIN list]
  <1> DEFINE F(it) ==
               it = [s \in SUBSET DOMAIN list |->
                       IF s = {} THEN <<>>
                       ELSE IF list[Max(s)] \in away THEN it[s \ {Max(s)}]
                            ELSE Append(it[s \ {Max(s)}], list[Max(s)])]
  <1>1. Without(list, away) = (CHOOSE it : F(it))[DOMAIN list]
    BY DEF Without, FoldLeft, MapThenFoldSet
  <1>2. \A it : F(it) <=> Folds(it, "any", away, list)
    BY DEF Folds, Step
  <1> HIDE DEF F
  <1>3. (CHOOSE it : F(it)) = CHOOSE it : Folds(it, "any", away, list)
    BY <1>2
  <1> QED
    BY <1>1, <1>3 DEF Fold

\* Distinct is the fold that leaves away what is there already.
LEMMA DistinctIs ==
    ASSUME NEW list
    PROVE  Distinct(list) = Fold("once", {}, list)[DOMAIN list]
  <1> DEFINE F(it) ==
               it = [s \in SUBSET DOMAIN list |->
                       IF s = {} THEN <<>>
                       ELSE IF Contains(it[s \ {Max(s)}], list[Max(s)])
                            THEN it[s \ {Max(s)}]
                            ELSE Append(it[s \ {Max(s)}], list[Max(s)])]
  <1>1. Distinct(list) = (CHOOSE it : F(it))[DOMAIN list]
    BY DEF Distinct, FoldLeft, MapThenFoldSet
  <1>2. \A it : F(it) <=> Folds(it, "once", {}, list)
    <2>1. \A kept, x : Step("once", {}, kept, x) =
             IF Contains(kept, x) THEN kept ELSE Append(kept, x)
      BY Zenon DEF Step
    <2> QED
      BY <2>1 DEF Folds
  <1> HIDE DEF F
  <1>3. (CHOOSE it : F(it)) = CHOOSE it : Folds(it, "once", {}, list)
    BY <1>2
  <1> QED
    BY <1>1, <1>3 DEF Fold

\* There is such a function.
LEMMA FoldsExist ==
    ASSUME NEW n \in Nat, NEW list, DOMAIN list = 1..n, NEW once, NEW away
    PROVE  \E it : Folds(it, once, away, list)
  <1> DEFINE FoldsUpTo(it, m) ==
               it = [s \in SUBSET (1..m) |->
                       IF s = {} THEN <<>>
                       ELSE Step(once, away, it[s \ {Max(s)}], list[Max(s)])]
             Good == {m \in Nat : \E it : FoldsUpTo(it, m)}
  <1>1. 0 \in Good
    <2>1. 1..0 = {}
      OBVIOUS
    <2>2. FoldsUpTo([s \in SUBSET (1..0) |-> <<>>], 0)
      BY <2>1
    <2> QED
      BY <2>2
  <1>2. ASSUME NEW m \in Nat, m \in Good
        PROVE  m + 1 \in Good
    <2>1. PICK it : FoldsUpTo(it, m)
      BY <1>2
    <2> DEFINE k == m + 1
               more == [s \in SUBSET (1..k) |->
                          IF k \in s
                          THEN Step(once, away, it[s \ {k}], list[k])
                          ELSE it[s]]
    <2>2. ASSUME NEW s \in SUBSET (1..k)
          PROVE  more[s] = IF s = {} THEN <<>>
                           ELSE Step(once, away, more[s \ {Max(s)}],
                                     list[Max(s)])
      <3>1. CASE k \in s
        <4>1. Max(s) = k /\ s # {}
          <5>1. k \in Nat /\ s \subseteq 1..k
            OBVIOUS
          <5> HIDE DEF k
          <5> QED
            BY <3>1, <5>1, MaxIs
        <4>2. s \ {k} \in SUBSET (1..k) /\ k \notin s \ {k}
          OBVIOUS
        <4>3. more[s \ {k}] = it[s \ {k}]
          BY <4>2
        <4> QED
          BY <3>1, <4>1, <4>3
      <3>2. CASE k \notin s
        <4>1. s \in SUBSET (1..m)
          BY <3>2
        <4>2. more[s] = it[s]
          BY <3>2
        <4>3. s # {} => Max(s) \in s
          BY <4>1, Greatest
        <4>4. s # {} => k \notin s \ {Max(s)} /\ s \ {Max(s)} \in SUBSET (1..k)
          BY <3>2
        <4>5. s # {} => more[s \ {Max(s)}] = it[s \ {Max(s)}]
          BY <4>4
        <4>6. it[s] = IF s = {} THEN <<>>
                      ELSE Step(once, away, it[s \ {Max(s)}], list[Max(s)])
          BY <2>1, <4>1
        <4> QED
          BY <4>2, <4>5, <4>6
      <3> QED
        BY <3>1, <3>2
    <2>3. FoldsUpTo(more, k)
      <3> SUFFICES more = [s \in SUBSET (1..k) |->
                       IF s = {} THEN <<>>
                       ELSE Step(once, away, more[s \ {Max(s)}], list[Max(s)])]
        OBVIOUS
      <3> HIDE DEF k
      <3> DEFINE rhs == [s \in SUBSET (1..k) |->
                       IF s = {} THEN <<>>
                       ELSE Step(once, away, more[s \ {Max(s)}], list[Max(s)])]
      <3>1. \A s \in SUBSET (1..k) : more[s] = rhs[s]
        <4> HIDE DEF more
        <4> QED
          BY <2>2
      <3>2. DOMAIN more = SUBSET (1..k) /\ DOMAIN rhs = SUBSET (1..k)
        OBVIOUS
      <3>3. /\ more = [s \in DOMAIN more |-> more[s]]
            /\ rhs = [s \in DOMAIN rhs |-> rhs[s]]
        OBVIOUS
      <3> QED
        BY <3>1, <3>2, <3>3
    <2>4. \E f : FoldsUpTo(f, k)
      <3> HIDE DEF more, k
      <3> QED
        BY <2>3
    <2> HIDE DEF FoldsUpTo
    <2> QED
      BY <2>4
  <1>3. n \in Good
    <2> HIDE DEF Good
    <2> QED
      BY <1>1, <1>2, Induction
  <1> QED
    BY <1>3 DEF Folds

\* So the one that CHOOSE takes is such a function.
LEMMA FoldFolds ==
    ASSUME NEW n \in Nat, NEW list, DOMAIN list = 1..n, NEW once, NEW away
    PROVE  Folds(Fold(once, away, list), once, away, list)
  BY FoldsExist DEF Fold

\* The places of a list, one by one.
LEMMA FoldGoesOn ==
    ASSUME NEW n \in Nat, NEW list, DOMAIN list = 1..n, NEW once, NEW away,
           NEW it, Folds(it, once, away, list)
    PROVE  /\ it[1..0] = <<>>
           /\ \A k \in 1..n :
                it[1..k] = Step(once, away, it[1..(k - 1)], list[k])
  <1>1. it[1..0] = <<>>
    <2>1. 1..0 = {} /\ {} \in SUBSET (1..n)
      OBVIOUS
    <2> QED
      BY <2>1 DEF Folds
  <1>2. ASSUME NEW k \in 1..n
        PROVE  it[1..k] = Step(once, away, it[1..(k - 1)], list[k])
    <2> DEFINE all == 1..k
    <2>1. k \in Nat /\ all \subseteq 1..k /\ k \in all
          /\ all \in SUBSET (1..n) /\ all \ {k} = 1..(k - 1)
      OBVIOUS
    <2> HIDE DEF all
    <2>2. Max(all) = k /\ all # {}
      BY <2>1, MaxIs
    <2>3. it[all] = Step(once, away, it[all \ {k}], list[k])
      BY <2>1, <2>2 DEF Folds
    <2> QED
      BY <2>1, <2>3 DEF all
  <1> QED
    BY <1>1, <1>2

\* One more element is one more step.
LEMMA OneMore ==
    ASSUME NEW n \in Nat, NEW list, DOMAIN list = 1..n, NEW once, NEW away,
           NEW more, DOMAIN more = 1..(n + 1),
           \A k \in 1..n : more[k] = list[k]
    PROVE  Fold(once, away, more)[1..(n + 1)] =
             Step(once, away, Fold(once, away, list)[1..n], more[n + 1])
  <1> DEFINE it == Fold(once, away, list)
             jt == Fold(once, away, more)
  <1>1. n + 1 \in Nat
    OBVIOUS
  <1>2. Folds(it, once, away, list) /\ Folds(jt, once, away, more)
    BY <1>1, FoldFolds
  <1> HIDE DEF it, jt
  <1>3. /\ it[1..0] = <<>>
        /\ \A k \in 1..n :
              it[1..k] = Step(once, away, it[1..(k - 1)], list[k])
    BY <1>2, FoldGoesOn
  <1>4. /\ jt[1..0] = <<>>
        /\ \A k \in 1..(n + 1) :
              jt[1..k] = Step(once, away, jt[1..(k - 1)], more[k])
    BY <1>1, <1>2, FoldGoesOn
  <1> DEFINE Same == {k \in Nat : k <= n => it[1..k] = jt[1..k]}
  <1>5. 0 \in Same
    BY <1>3, <1>4
  <1>6. ASSUME NEW k \in Nat, k \in Same
        PROVE  k + 1 \in Same
    <2> SUFFICES ASSUME k + 1 <= n
                 PROVE  it[1..(k + 1)] = jt[1..(k + 1)]
      OBVIOUS
    <2>1. it[1..k] = jt[1..k]
      BY <1>6
    <2>2. k + 1 \in 1..n /\ k + 1 \in 1..(n + 1) /\ (k + 1) - 1 = k
      OBVIOUS
    <2>3. /\ it[1..(k + 1)] = Step(once, away, it[1..k], list[k + 1])
          /\ jt[1..(k + 1)] = Step(once, away, jt[1..k], more[k + 1])
      BY <1>3, <1>4, <2>2
    <2> QED
      BY <2>1, <2>2, <2>3
  <1>7. n \in Same
    <2> HIDE DEF Same
    <2> QED
      BY <1>5, <1>6, Induction
  <1>8. it[1..n] = jt[1..n]
    BY <1>7
  <1>9. jt[1..(n + 1)] = Step(once, away, jt[1..n], more[n + 1])
    <2>1. n + 1 \in 1..(n + 1) /\ (n + 1) - 1 = n
      OBVIOUS
    <2> QED
      BY <1>4, <2>1
  <1> QED
    BY <1>8, <1>9 DEF it, jt

-----------------------------------------------------------------------------
(* Lists without some elements, and with each once                         *)

\* Without, of the empty list and of a list with one more element.
LEMMA WithoutStep ==
    ASSUME NEW S, NEW list \in Seq(S), NEW x \in S, NEW away
    PROVE  /\ Without(<<>>, away) = <<>>
           /\ Without(Append(list, x), away) =
                IF x \in away THEN Without(list, away)
                              ELSE Append(Without(list, away), x)
  <1>1. Without(<<>>, away) = <<>>
    <2>1. DOMAIN <<>> = 1..0 /\ 0 \in Nat
      OBVIOUS
    <2>2. Folds(Fold("any", away, <<>>), "any", away, <<>>)
      BY <2>1, FoldFolds
    <2>3. Fold("any", away, <<>>)[1..0] = <<>>
      BY <2>1, <2>2, FoldGoesOn
    <2> QED
      BY <2>1, <2>3, WithoutIs
  <1> DEFINE n == Len(list)
             more == Append(list, x)
  <1>2. /\ n \in Nat /\ DOMAIN list = 1..n /\ DOMAIN more = 1..(n + 1)
        /\ more[n + 1] = x /\ \A k \in 1..n : more[k] = list[k]
    OBVIOUS
  <1> HIDE DEF n, more
  <1>3. Fold("any", away, more)[1..(n + 1)] =
          Step("any", away, Fold("any", away, list)[1..n], x)
    BY <1>2, OneMore
  <1>4. Without(more, away) = Step("any", away, Without(list, away), x)
    BY <1>2, <1>3, WithoutIs
  <1> QED
    BY <1>1, <1>4 DEF more, Step

\* Distinct, of the empty list and of a list with one more element.
LEMMA DistinctStep ==
    ASSUME NEW S, NEW list \in Seq(S), NEW x \in S
    PROVE  /\ Distinct(<<>>) = <<>>
           /\ Distinct(Append(list, x)) =
                IF Contains(Distinct(list), x) THEN Distinct(list)
                                               ELSE Append(Distinct(list), x)
  <1>1. Distinct(<<>>) = <<>>
    <2>1. DOMAIN <<>> = 1..0 /\ 0 \in Nat
      OBVIOUS
    <2>2. Folds(Fold("once", {}, <<>>), "once", {}, <<>>)
      BY <2>1, FoldFolds
    <2>3. Fold("once", {}, <<>>)[1..0] = <<>>
      BY <2>1, <2>2, FoldGoesOn
    <2> QED
      BY <2>1, <2>3, DistinctIs
  <1> DEFINE n == Len(list)
             more == Append(list, x)
  <1>2. /\ n \in Nat /\ DOMAIN list = 1..n /\ DOMAIN more = 1..(n + 1)
        /\ more[n + 1] = x /\ \A k \in 1..n : more[k] = list[k]
    OBVIOUS
  <1> HIDE DEF n, more
  <1>3. Fold("once", {}, more)[1..(n + 1)] =
          Step("once", {}, Fold("once", {}, list)[1..n], x)
    BY <1>2, OneMore
  <1>4. Distinct(more) = Step("once", {}, Distinct(list), x)
    BY <1>2, <1>3, DistinctIs
  <1> QED
    BY <1>1, <1>4, Zenon DEF more, Step

\* What holds of the empty list, and of each list with one more element, holds
\* of every list.
LEMMA ListInduction ==
    ASSUME NEW S, NEW T, <<>> \in T,
           \A l \in Seq(S) : \A x \in S : l \in T => Append(l, x) \in T
    PROVE  Seq(S) \subseteq T
  <1> DEFINE Good == {n \in Nat : \A l \in Seq(S) : Len(l) = n => l \in T}
  <1>1. 0 \in Good
    BY EmptySeq
  <1>2. ASSUME NEW n \in Nat, n \in Good
        PROVE  n + 1 \in Good
    <2> SUFFICES ASSUME NEW l \in Seq(S), Len(l) = n + 1
                 PROVE  l \in T
      OBVIOUS
    <2>1. l # <<>>
      OBVIOUS
    <2>2. PICK m \in Seq(S), x \in S : l = Append(m, x)
      BY <2>1, SequenceEmptyOrAppend
    <2>3. Len(m) = n
      BY <2>2
    <2> QED
      BY <1>2, <2>2, <2>3
  <1>3. Nat \subseteq Good
    <2> HIDE DEF Good
    <2> QED
      BY <1>1, <1>2, Induction
  <1> QED
    BY <1>3

\* An appended element is there, and nothing else is new.
LEMMA AppendHas ==
    ASSUME NEW S, NEW l \in Seq(S), NEW x, NEW y
    PROVE  /\ ~Contains(<<>>, y)
           /\ Contains(Append(l, x), y) <=> Contains(l, y) \/ y = x
  BY DEF Contains

\* The two lists, of the empty one and of one with an element more.
LEMMA WithoutEmpty == \A away : Without(<<>>, away) = <<>>
  <1>1. <<>> \in Seq({0}) /\ 0 \in {0}
    OBVIOUS
  <1> QED
    BY <1>1, WithoutStep, Zenon

\* Of no format there is none twice.
LEMMA DistinctEmpty == Distinct(<<>>) = <<>>
  <1>1. <<>> \in Seq({0}) /\ 0 \in {0}
    OBVIOUS
  <1> QED
    BY <1>1, DistinctStep, Zenon

\* Without, of a list of formats with one more format.
LEMMA WithoutAppend ==
    ASSUME NEW list \in Seq(Formats), NEW x \in Formats, NEW away
    PROVE  Without(Append(list, x), away) =
             IF x \in away THEN Without(list, away)
                           ELSE Append(Without(list, away), x)
  BY WithoutStep, Zenon

\* Distinct, of a list of formats with one more format.
LEMMA DistinctAppend ==
    ASSUME NEW list \in Seq(Formats), NEW x \in Formats
    PROVE  Distinct(Append(list, x)) =
             IF Contains(Distinct(list), x) THEN Distinct(list)
                                           ELSE Append(Distinct(list), x)
  BY DistinctStep, Zenon

\* Induction over lists of formats.
LEMMA FormatInduction ==
    ASSUME NEW T, <<>> \in T,
           \A l \in Seq(Formats) : \A x \in Formats :
              l \in T => Append(l, x) \in T
    PROVE  Seq(Formats) \subseteq T
  BY ListInduction, Zenon

\* Without gives a list of the other formats, not a longer one.
LEMMA WithoutTyped ==
    ASSUME NEW list \in Seq(Formats), NEW away
    PROVE  /\ Without(list, away) \in Seq(Formats \ away)
           /\ Without(list, away) \in Seq(Formats)
           /\ Len(Without(list, away)) <= Len(list)
  <1> DEFINE E == Formats \ away
             w(l) == Without(l, away)
             T == {l \in Seq(Formats) : /\ w(l) \in Seq(E)
                                        /\ w(l) \in Seq(Formats)
                                        /\ Len(w(l)) <= Len(l)}
  <1>0. \A y : y \in E <=> y \in Formats /\ y \notin away
    OBVIOUS
  <1> HIDE DEF E
  <1>1. <<>> \in T
    <2>1. w(<<>>) = <<>>
      BY WithoutEmpty
    <2> HIDE DEF w
    <2>0. <<>> \in Seq(E) /\ <<>> \in Seq(Formats)
      OBVIOUS
    <2>2. w(<<>>) \in Seq(E) /\ w(<<>>) \in Seq(Formats)
      BY <2>0, <2>1, Zenon
    <2>3. Len(w(<<>>)) <= Len(<<>>) /\ <<>> \in Seq(Formats)
      BY <2>1
    <2> QED
      BY <2>2, <2>3
  <1>2. ASSUME NEW l \in Seq(Formats), NEW x \in Formats, l \in T
        PROVE  Append(l, x) \in T
    <2>1. w(Append(l, x)) = IF x \in away THEN w(l) ELSE Append(w(l), x)
      BY WithoutAppend
    <2> HIDE DEF w
    <2>2. x \notin away => x \in E
      BY <1>0
    <2>3. w(l) \in Seq(E) /\ w(l) \in Seq(Formats) /\ Len(w(l)) <= Len(l)
      BY <1>2
    <2>4. /\ w(Append(l, x)) \in Seq(E) /\ w(Append(l, x)) \in Seq(Formats)
          /\ Len(w(Append(l, x))) <= Len(Append(l, x))
      BY <2>1, <2>2, <2>3
    <2>9. Append(l, x) \in Seq(Formats)
      OBVIOUS
    <2> QED
      BY <2>4, <2>9
  <1>3. Seq(Formats) \subseteq T
    <2> HIDE DEF T
    <2> QED
      BY <1>1, <1>2, FormatInduction
  <1> QED
    BY <1>3 DEF E

\* What is left are the elements that are not away.
LEMMA WithoutHas ==
    ASSUME NEW list \in Seq(Formats), NEW away, NEW y
    PROVE  Contains(Without(list, away), y)
             <=> Contains(list, y) /\ y \notin away
  <1> DEFINE w(l) == Without(l, away)
             T == {l \in Seq(Formats) :
                     Contains(w(l), y) <=> Contains(l, y) /\ y \notin away}
  <1>1. <<>> \in T
    BY WithoutEmpty, AppendHas
  <1>2. ASSUME NEW l \in Seq(Formats), NEW x \in Formats, l \in T
        PROVE  Append(l, x) \in T
    <2>1. w(l) \in Seq(Formats)
      BY WithoutTyped
    <2>2. w(Append(l, x)) = IF x \in away THEN w(l) ELSE Append(w(l), x)
      BY WithoutAppend
    <2>3. Contains(Append(l, x), y) <=> Contains(l, y) \/ y = x
      BY AppendHas
    <2> HIDE DEF w
    <2>4. Contains(Append(w(l), x), y) <=> Contains(w(l), y) \/ y = x
      BY <2>1, AppendHas
    <2>5. Contains(w(l), y) <=> Contains(l, y) /\ y \notin away
      BY <1>2
    <2>6. Contains(w(Append(l, x)), y)
             <=> Contains(Append(l, x), y) /\ y \notin away
      BY <2>2, <2>3, <2>4, <2>5
    <2>9. Append(l, x) \in Seq(Formats)
      OBVIOUS
    <2> QED
      BY <2>6, <2>9
  <1>3. Seq(Formats) \subseteq T
    <2> HIDE DEF T
    <2> QED
      BY <1>1, <1>2, FormatInduction
  <1> QED
    BY <1>3

\* An element that is not there yet leaves each element there once.
LEMMA InjectiveAppend ==
    ASSUME NEW l \in Seq(Formats), NEW x \in Formats
    PROVE  IsInjective(Append(l, x)) <=> IsInjective(l) /\ ~Contains(l, x)
  <1>1. /\ DOMAIN Append(l, x) = 1..(Len(l) + 1)
        /\ Append(l, x)[Len(l) + 1] = x
        /\ DOMAIN l = 1..Len(l) /\ Len(l) \in Nat
        /\ \A i \in 1..Len(l) : Append(l, x)[i] = l[i]
    OBVIOUS
  <1>2. ASSUME IsInjective(Append(l, x))
        PROVE  IsInjective(l) /\ ~Contains(l, x)
    <2>1. \A i, j \in 1..(Len(l) + 1) :
             Append(l, x)[i] = Append(l, x)[j] => i = j
      BY <1>1, <1>2 DEF IsInjective
    <2>2. \A i, j \in 1..Len(l) : l[i] = l[j] => i = j
      BY <1>1, <2>1
    <2>3. \A i \in 1..Len(l) : l[i] # x
      BY <1>1, <2>1
    <2> QED
      BY <1>1, <2>2, <2>3 DEF IsInjective, Contains
  <1>3. ASSUME IsInjective(l), ~Contains(l, x)
        PROVE  IsInjective(Append(l, x))
    <2>1. \A i \in 1..Len(l) : l[i] # x
      BY <1>3 DEF Contains
    <2>2. \A i, j \in 1..Len(l) : l[i] = l[j] => i = j
      BY <1>1, <1>3 DEF IsInjective
    <2>3. \A i, j \in 1..(Len(l) + 1) :
             Append(l, x)[i] = Append(l, x)[j] => i = j
      BY <1>1, <2>1, <2>2
    <2> QED
      BY <1>1, <2>3 DEF IsInjective
  <1> QED
    BY <1>2, <1>3

\* Distinct gives each element once, and not a longer list.
LEMMA DistinctTyped ==
    ASSUME NEW list \in Seq(Formats)
    PROVE  /\ Distinct(list) \in Seq(Formats)
           /\ Len(Distinct(list)) <= Len(list)
           /\ IsInjective(Distinct(list))
  <1> DEFINE T == {l \in Seq(Formats) : /\ Distinct(l) \in Seq(Formats)
                                  /\ Len(Distinct(l)) <= Len(l)
                                  /\ IsInjective(Distinct(l))}
  <1>1. <<>> \in T
    <2>1. IsInjective(<<>>)
      BY DEF IsInjective
    <2>3. <<>> \in Seq(Formats) /\ Len(<<>>) <= Len(<<>>)
      OBVIOUS
    <2>2. /\ Distinct(<<>>) \in Seq(Formats) /\ <<>> \in Seq(Formats)
          /\ Len(Distinct(<<>>)) <= Len(<<>>) /\ IsInjective(Distinct(<<>>))
      BY <2>1, <2>3, DistinctEmpty, Zenon
    <2> QED
      BY <2>2
  <1>2. ASSUME NEW l \in Seq(Formats), NEW x \in Formats, l \in T
        PROVE  Append(l, x) \in T
    <2>1. /\ Distinct(l) \in Seq(Formats) /\ Len(Distinct(l)) <= Len(l)
          /\ IsInjective(Distinct(l))
      BY <1>2
    <2>2. Distinct(Append(l, x)) =
             IF Contains(Distinct(l), x) THEN Distinct(l)
                                         ELSE Append(Distinct(l), x)
      BY DistinctAppend
    <2>3. IsInjective(Append(Distinct(l), x)) <=>
             IsInjective(Distinct(l)) /\ ~Contains(Distinct(l), x)
      BY <2>1, InjectiveAppend
    <2>4. /\ Distinct(Append(l, x)) \in Seq(Formats)
          /\ Len(Distinct(Append(l, x))) <= Len(Append(l, x))
      BY <2>1, <2>2
    <2>5. IsInjective(Distinct(Append(l, x)))
      BY <2>1, <2>2, <2>3
    <2>9. Append(l, x) \in Seq(Formats)
      OBVIOUS
    <2> QED
      BY <2>4, <2>5, <2>9
  <1>3. Seq(Formats) \subseteq T
    <2> HIDE DEF T
    <2> QED
      BY <1>1, <1>2, FormatInduction
  <1> QED
    BY <1>3

\* Distinct loses no element.
LEMMA DistinctHas ==
    ASSUME NEW list \in Seq(Formats), NEW y
    PROVE  Contains(Distinct(list), y) <=> Contains(list, y)
  <1> DEFINE T == {l \in Seq(Formats) :
                     Contains(Distinct(l), y) <=> Contains(l, y)}
  <1>1. <<>> \in T
    BY DistinctEmpty
  <1>2. ASSUME NEW l \in Seq(Formats), NEW x \in Formats, l \in T
        PROVE  Append(l, x) \in T
    <2>1. Distinct(l) \in Seq(Formats)
      BY DistinctTyped
    <2>2. Distinct(Append(l, x)) =
             IF Contains(Distinct(l), x) THEN Distinct(l)
                                         ELSE Append(Distinct(l), x)
      BY DistinctAppend
    <2>3. Contains(Append(l, x), y) <=> Contains(l, y) \/ y = x
      BY AppendHas
    <2>4. Contains(Append(Distinct(l), x), y)
             <=> Contains(Distinct(l), y) \/ y = x
      BY <2>1, AppendHas
    <2>5. Contains(Distinct(l), y) <=> Contains(l, y)
      BY <1>2
    <2>6. Contains(Distinct(Append(l, x)), y) <=> Contains(Append(l, x), y)
      <3>1. CASE Contains(Distinct(l), x)
        <4>1. y = x => Contains(Distinct(l), y)
          BY <3>1
        <4> QED
          BY <3>1, <4>1, <2>2, <2>3, <2>5
      <3>2. CASE ~Contains(Distinct(l), x)
        BY <3>2, <2>2, <2>3, <2>4, <2>5
      <3> QED
        BY <3>1, <3>2
    <2>9. Append(l, x) \in Seq(Formats)
      OBVIOUS
    <2> QED
      BY <2>6, <2>9
  <1>3. Seq(Formats) \subseteq T
    <2> HIDE DEF T
    <2> QED
      BY <1>1, <1>2, FormatInduction
  <1> QED
    BY <1>3

\* Leaving away what is not there changes nothing.
LEMMA NoneAway ==
    ASSUME NEW list \in Seq(Formats), NEW away,
           \A y \in away : ~Contains(list, y)
    PROVE  Without(list, away) = list
  <1> DEFINE T == {l \in Seq(Formats) : (\A y \in away : ~Contains(l, y))
                                    => Without(l, away) = l}
  <1>1. <<>> \in T
    BY WithoutEmpty
  <1>2. ASSUME NEW l \in Seq(Formats), NEW x \in Formats, l \in T
        PROVE  Append(l, x) \in T
    BY <1>2, WithoutAppend, AppendHas
  <1>3. Seq(Formats) \subseteq T
    <2> HIDE DEF T
    <2> QED
      BY <1>1, <1>2, FormatInduction
  <1> QED
    BY <1>3

\* A list that has each element once stays as it is.
LEMMA DistinctAlready ==
    ASSUME NEW list \in Seq(Formats), IsInjective(list)
    PROVE  Distinct(list) = list
  <1> DEFINE T == {l \in Seq(Formats) : IsInjective(l) => Distinct(l) = l}
  <1>1. <<>> \in T
    BY DistinctEmpty
  <1>2. ASSUME NEW l \in Seq(Formats), NEW x \in Formats, l \in T
        PROVE  Append(l, x) \in T
    <2> SUFFICES ASSUME IsInjective(Append(l, x))
                 PROVE  Distinct(Append(l, x)) = Append(l, x)
      OBVIOUS
    <2>1. IsInjective(l) /\ ~Contains(l, x)
      BY InjectiveAppend
    <2> QED
      BY <1>2, <2>1, DistinctAppend
  <1>3. Seq(Formats) \subseteq T
    <2> HIDE DEF T
    <2> QED
      BY <1>1, <1>2, FormatInduction
  <1> QED
    BY <1>3

\* Leaving away one set and then another leaves away both.
LEMMA WithoutBoth ==
    ASSUME NEW list \in Seq(Formats), NEW D, NEW E
    PROVE  Without(Without(list, D), E) = Without(list, D \union E)
  <1> DEFINE w(l) == Without(l, D)
             v(l) == Without(l, E)
             u(l) == Without(l, D \union E)
             T == {l \in Seq(Formats) : v(w(l)) = u(l)}
  <1>1. <<>> \in T
    BY WithoutEmpty
  <1>2. ASSUME NEW l \in Seq(Formats), NEW x \in Formats, l \in T
        PROVE  Append(l, x) \in T
    <2>1. w(l) \in Seq(Formats)
      BY WithoutTyped
    <2>2. /\ w(Append(l, x)) = IF x \in D THEN w(l) ELSE Append(w(l), x)
          /\ u(Append(l, x)) = IF x \in D \union E THEN u(l)
                                                   ELSE Append(u(l), x)
      BY WithoutAppend
    <2>0. v(w(l)) = u(l)
      BY <1>2
    <2> HIDE DEF w
    <2>3. v(Append(w(l), x)) = IF x \in E THEN v(w(l)) ELSE Append(v(w(l)), x)
      BY <2>1, WithoutAppend
    <2> HIDE DEF u, v
    <2>4. v(w(Append(l, x))) = u(Append(l, x))
      BY <2>0, <2>2, <2>3
    <2>9. Append(l, x) \in Seq(Formats)
      OBVIOUS
    <2> QED
      BY <2>4, <2>9
  <1>3. Seq(Formats) \subseteq T
    <2> HIDE DEF T
    <2> QED
      BY <1>1, <1>2, FormatInduction
  <1> QED
    BY <1>3

\* It does not matter which of the two comes first.
LEMMA DistinctWithout ==
    ASSUME NEW list \in Seq(Formats), NEW away
    PROVE  Distinct(Without(list, away)) = Without(Distinct(list), away)
  <1> DEFINE w(l) == Without(l, away)
             T == {l \in Seq(Formats) : Distinct(w(l)) = w(Distinct(l))}
  <1>1. <<>> \in T
    BY WithoutEmpty, DistinctEmpty
  <1>2. ASSUME NEW l \in Seq(Formats), NEW x \in Formats, l \in T
        PROVE  Append(l, x) \in T
    <2>1. w(l) \in Seq(Formats) /\ Distinct(l) \in Seq(Formats)
      BY WithoutTyped, DistinctTyped
    <2>2. Distinct(w(l)) = w(Distinct(l))
      BY <1>2
    <2>3. /\ Contains(w(l), x) <=> Contains(l, x) /\ x \notin away
          /\ Contains(Distinct(l), x) <=> Contains(l, x)
      BY WithoutHas, DistinctHas
    <2>4. w(Append(l, x)) = IF x \in away THEN w(l) ELSE Append(w(l), x)
      BY WithoutAppend
    <2>5. w(Append(Distinct(l), x)) =
             IF x \in away THEN w(Distinct(l)) ELSE Append(w(Distinct(l)), x)
      BY <2>1, WithoutAppend
    <2>6. Distinct(Append(l, x)) =
             IF Contains(Distinct(l), x) THEN Distinct(l)
                                         ELSE Append(Distinct(l), x)
      BY DistinctAppend
    <2> HIDE DEF w
    <2>7. Distinct(Append(w(l), x)) =
             IF Contains(Distinct(w(l)), x) THEN Distinct(w(l))
                                            ELSE Append(Distinct(w(l)), x)
      BY <2>1, DistinctAppend
    <2>8. Contains(Distinct(w(l)), x) <=> Contains(w(l), x)
      BY <2>1, DistinctHas
    <2>10. Distinct(w(Append(l, x))) = w(Distinct(Append(l, x)))
      <3>1. CASE x \in away
        BY <3>1, <2>2, <2>4, <2>5, <2>6
      <3>2. CASE x \notin away
        <4>1. Contains(Distinct(w(l)), x) <=> Contains(Distinct(l), x)
          BY <3>2, <2>3, <2>8
        <4>2. CASE Contains(Distinct(l), x)
          BY <3>2, <4>1, <4>2, <2>2, <2>4, <2>6, <2>7
        <4>3. CASE ~Contains(Distinct(l), x)
          BY <3>2, <4>1, <4>3, <2>2, <2>4, <2>5, <2>6, <2>7
        <4> QED
          BY <4>2, <4>3
      <3> QED
        BY <3>1, <3>2
    <2>9. Append(l, x) \in Seq(Formats)
      OBVIOUS
    <2> QED
      BY <2>9, <2>10
  <1>3. Seq(Formats) \subseteq T
    <2> HIDE DEF T
    <2> QED
      BY <1>1, <1>2, FormatInduction
  <1> QED
    BY <1>3

\* One list after another.
LEMMA ConcatAppend ==
    ASSUME NEW l \in Seq(Formats), NEW m \in Seq(Formats), NEW x \in Formats
    PROVE  /\ l \o <<>> = l /\ l \o m \in Seq(Formats)
           /\ l \o Append(m, x) = Append(l \o m, x)
  <1>1. l \o <<>> = l /\ l \o m \in Seq(Formats)
    OBVIOUS
  <1>2. l \o Append(m, x) = Append(l \o m, x)
    OBVIOUS
  <1> QED
    BY <1>1, <1>2

\* Two lists in a row have the elements of both.
LEMMA ConcatHas ==
    ASSUME NEW l \in Seq(Formats), NEW m \in Seq(Formats), NEW y
    PROVE  Contains(l \o m, y) <=> Contains(l, y) \/ Contains(m, y)
  <1>1. /\ Len(l \o m) = Len(l) + Len(m) /\ Len(l) \in Nat /\ Len(m) \in Nat
        /\ \A i \in 1..Len(l) : (l \o m)[i] = l[i]
        /\ \A i \in 1..Len(m) : (l \o m)[Len(l) + i] = m[i]
    OBVIOUS
  <1>2. ASSUME Contains(l \o m, y)
        PROVE  Contains(l, y) \/ Contains(m, y)
    <2>1. PICK i \in 1..Len(l \o m) : (l \o m)[i] = y
      BY <1>2 DEF Contains
    <2>2. CASE i <= Len(l)
      BY <1>1, <2>1, <2>2 DEF Contains
    <2>3. CASE i > Len(l)
      <3>1. i - Len(l) \in 1..Len(m) /\ Len(l) + (i - Len(l)) = i
        BY <1>1, <2>1, <2>3
      <3> QED
        BY <1>1, <2>1, <3>1 DEF Contains
    <2> QED
      BY <1>1, <2>1, <2>2, <2>3
  <1>3. ASSUME Contains(l, y)
        PROVE  Contains(l \o m, y)
    BY <1>1, <1>3 DEF Contains
  <1>4. ASSUME Contains(m, y)
        PROVE  Contains(l \o m, y)
    <2>1. PICK i \in 1..Len(m) : m[i] = y
      BY <1>4 DEF Contains
    <2>2. Len(l) + i \in 1..Len(l \o m)
      BY <1>1, <2>1
    <2> QED
      BY <1>1, <2>1, <2>2 DEF Contains
  <1> QED
    BY <1>2, <1>3, <1>4

\* Without, of two lists in a row.
LEMMA WithoutConcat ==
    ASSUME NEW l \in Seq(Formats), NEW list \in Seq(Formats), NEW away
    PROVE  Without(l \o list, away) = Without(l, away) \o Without(list, away)
  <1> DEFINE w(m) == Without(m, away)
             T == {m \in Seq(Formats) : w(l \o m) = w(l) \o w(m)}
  <1>1. <<>> \in T
    <2>1. w(l) \in Seq(Formats) /\ w(<<>>) = <<>>
      BY WithoutTyped, WithoutEmpty
    <2>2. l \o <<>> = l /\ <<>> \in Seq(Formats)
      OBVIOUS
    <2> HIDE DEF w
    <2>3. w(l) \o <<>> = w(l)
      BY <2>1
    <2>4. w(l \o <<>>) = w(l) \o w(<<>>)
      BY <2>1, <2>2, <2>3
    <2> QED
      BY <2>2, <2>4
  <1>2. ASSUME NEW m \in Seq(Formats), NEW x \in Formats, m \in T
        PROVE  Append(m, x) \in T
    <2>1. l \o m \in Seq(Formats) /\ l \o Append(m, x) = Append(l \o m, x)
      BY ConcatAppend
    <2>2. w(l) \in Seq(Formats) /\ w(m) \in Seq(Formats)
      BY WithoutTyped
    <2>3. w(Append(m, x)) = IF x \in away THEN w(m) ELSE Append(w(m), x)
      BY WithoutAppend
    <2>4. w(Append(l \o m, x)) =
             IF x \in away THEN w(l \o m) ELSE Append(w(l \o m), x)
      BY <2>1, WithoutAppend
    <2>5. w(l \o m) = w(l) \o w(m)
      BY <1>2
    <2> HIDE DEF w
    <2>6. w(l) \o Append(w(m), x) = Append(w(l) \o w(m), x)
      BY <2>2, ConcatAppend
    <2>7. w(l \o Append(m, x)) = w(l) \o w(Append(m, x))
      <3>1. CASE x \in away
        BY <3>1, <2>1, <2>3, <2>4, <2>5
      <3>2. CASE x \notin away
        BY <3>2, <2>1, <2>3, <2>4, <2>5, <2>6
      <3> QED
        BY <3>1, <3>2
    <2>9. Append(m, x) \in Seq(Formats)
      OBVIOUS
    <2> QED
      BY <2>7, <2>9
  <1>3. Seq(Formats) \subseteq T
    <2> HIDE DEF T
    <2> QED
      BY <1>1, <1>2, FormatInduction
  <1> QED
    BY <1>3

\* A list with one element first.
LEMMA DistinctCons ==
    ASSUME NEW a \in Formats, NEW list \in Seq(Formats)
    PROVE  Distinct(<<a>> \o list) =
             <<a>> \o Without(Distinct(list), {a})
  <1> DEFINE w(l) == Without(l, {a})
             one == <<a>>
             T == {l \in Seq(Formats) :
                     Distinct(one \o l) = one \o w(Distinct(l))}
  <1>0. one \in Seq(Formats) /\ <<>> \in Seq(Formats)
        /\ one = Append(<<>>, a) /\ one \o <<>> = one
    OBVIOUS
  <1>9. \A y : Contains(one, y) <=> y = a
    BY DEF Contains
  <1> HIDE DEF one
  <1>1. <<>> \in T
    <2>1. Distinct(<<>>) = <<>> /\ w(<<>>) = <<>>
      BY DistinctEmpty, WithoutEmpty
    <2>2. ~Contains(<<>>, a)
      BY DEF Contains
    <2>3. Distinct(Append(<<>>, a)) =
             IF Contains(Distinct(<<>>), a) THEN Distinct(<<>>)
                                            ELSE Append(Distinct(<<>>), a)
      BY <1>0, DistinctAppend
    <2>4. Distinct(one) = one
      BY <1>0, <2>1, <2>2, <2>3
    <2> HIDE DEF w
    <2>5. Distinct(one \o <<>>) = one \o w(Distinct(<<>>))
      BY <1>0, <2>1, <2>4
    <2> QED
      BY <1>0, <2>5
  <1>2. ASSUME NEW l \in Seq(Formats), NEW x \in Formats, l \in T
        PROVE  Append(l, x) \in T
    <2> DEFINE d == Distinct(l)
               k == one \o l
    <2>1. k \in Seq(Formats) /\ one \o Append(l, x) = Append(k, x)
      BY <1>0, ConcatAppend
    <2>2. d \in Seq(Formats)
      BY DistinctTyped
    <2>3. Distinct(k) = one \o w(d)
      BY <1>2
    <2>4. Distinct(Append(l, x)) = IF Contains(d, x) THEN d
                                                     ELSE Append(d, x)
      BY DistinctAppend
    <2> HIDE DEF d, k
    <2>5. Distinct(Append(k, x)) =
             IF Contains(Distinct(k), x) THEN Distinct(k)
                                         ELSE Append(Distinct(k), x)
      BY <2>1, DistinctAppend
    <2>6. w(d) \in Seq(Formats)
      BY <2>2, WithoutTyped
    <2>7. w(Append(d, x)) = IF x \in {a} THEN w(d) ELSE Append(w(d), x)
      BY <2>2, WithoutAppend
    <2>8. Contains(w(d), x) <=> Contains(d, x) /\ x \notin {a}
      BY <2>2, WithoutHas
    <2> HIDE DEF w
    <2>10. Contains(one \o w(d), x) <=> Contains(one, x) \/ Contains(w(d), x)
      BY <1>0, <2>6, ConcatHas
    <2>11. one \o Append(w(d), x) = Append(one \o w(d), x)
      BY <1>0, <2>6, ConcatAppend
    <2>12. Distinct(one \o Append(l, x)) = one \o w(Distinct(Append(l, x)))
      <3>1. CASE x = a
        <4>1. Distinct(Append(k, x)) = Distinct(k)
          BY <3>1, <1>9, <2>3, <2>5, <2>10
        <4>2. w(Distinct(Append(l, x))) = w(d)
          BY <3>1, <2>4, <2>7
        <4> QED
          BY <2>1, <2>3, <4>1, <4>2
      <3>2. CASE x # a
        <4>1. Contains(one \o w(d), x) <=> Contains(d, x)
          BY <3>2, <1>9, <2>8, <2>10
        <4>2. CASE Contains(d, x)
          BY <4>1, <4>2, <2>1, <2>3, <2>4, <2>5
        <4>3. CASE ~Contains(d, x)
          <5>1. Distinct(Append(k, x)) = Append(one \o w(d), x)
            BY <4>1, <4>3, <2>3, <2>5
          <5>2. w(Distinct(Append(l, x))) = Append(w(d), x)
            BY <3>2, <4>3, <2>4, <2>7
          <5> QED
            BY <5>1, <5>2, <2>1, <2>11
        <4> QED
          BY <4>2, <4>3
      <3> QED
        BY <3>1, <3>2
    <2>13. Append(l, x) \in Seq(Formats)
      OBVIOUS
    <2> QED
      BY <2>12, <2>13
  <1>3. Seq(Formats) \subseteq T
    <2> HIDE DEF T
    <2> QED
      BY <1>1, <1>2, FormatInduction
  <1> QED
    BY <1>3 DEF one

\* Where each element is there once, leaving one out makes it shorter by one.
LEMMA OneLess ==
    ASSUME NEW list \in Seq(Formats), IsInjective(list), NEW g
    PROVE  Len(Without(list, {g})) >= Len(list) - 1
  <1> DEFINE w(l) == Without(l, {g})
             T == {l \in Seq(Formats) :
                     IsInjective(l) => Len(w(l)) >= Len(l) - 1}
  <1>1. <<>> \in T
    <2>1. w(<<>>) = <<>>
      BY WithoutEmpty
    <2> HIDE DEF w
    <2>2. Len(w(<<>>)) >= Len(<<>>) - 1 /\ <<>> \in Seq(Formats)
      BY <2>1
    <2> QED
      BY <2>2
  <1>2. ASSUME NEW l \in Seq(Formats), NEW x \in Formats, l \in T
        PROVE  Append(l, x) \in T
    <2>1. Append(l, x) \in Seq(Formats) /\ Len(Append(l, x)) = Len(l) + 1
          /\ Len(l) \in Nat
      OBVIOUS
    <2>2. ASSUME IsInjective(Append(l, x))
          PROVE  Len(w(Append(l, x))) >= Len(Append(l, x)) - 1
      <3>1. IsInjective(l) /\ ~Contains(l, x)
        BY <2>2, InjectiveAppend
      <3>2. w(Append(l, x)) = IF x \in {g} THEN w(l) ELSE Append(w(l), x)
        BY WithoutAppend
      <3>3. CASE x = g
        <4>1. w(l) = l
          <5>1. \A y \in {g} : ~Contains(l, y)
            BY <3>1, <3>3
          <5> QED
            BY <5>1, NoneAway
        <4> HIDE DEF w
        <4> QED
          BY <2>1, <3>2, <3>3, <4>1
      <3>4. CASE x # g
        <4>1. Len(w(l)) >= Len(l) - 1
          BY <1>2, <3>1
        <4>2. w(l) \in Seq(Formats)
          BY WithoutTyped
        <4> HIDE DEF w
        <4>3. Len(Append(w(l), x)) = Len(w(l)) + 1 /\ Len(w(l)) \in Nat
          BY <4>2
        <4>4. w(Append(l, x)) = Append(w(l), x)
          BY <3>2, <3>4
        <4> QED
          BY <2>1, <4>1, <4>3, <4>4
      <3> QED
        BY <3>3, <3>4
    <2> HIDE DEF w
    <2> QED
      BY <2>1, <2>2
  <1>3. Seq(Formats) \subseteq T
    <2> HIDE DEF T
    <2> QED
      BY <1>1, <1>2, FormatInduction
  <1> QED
    BY <1>3

\* The lesser of two numbers.
LEMMA MinIs ==
    ASSUME NEW a \in Int, NEW b \in Int
    PROVE  Min({a, b}) = IF a <= b THEN a ELSE b
  <1> DEFINE m == IF a <= b THEN a ELSE b
             Low(x) == x \in {a, b} /\ \A y \in {a, b} : x <= y
  <1>1. Low(m) /\ \A x : Low(x) => x = m
    OBVIOUS
  <1>2. Min({a, b}) = CHOOSE x : Low(x)
    BY DEF Min
  <1> HIDE DEF m, Low
  <1>3. Min({a, b}) = m
    BY <1>1, <1>2
  <1> QED
    BY <1>3 DEF m

\* The greater of two numbers.
LEMMA MaxOfTwo ==
    ASSUME NEW a \in Int, NEW b \in Int
    PROVE  Max({a, b}) = IF a <= b THEN b ELSE a
  <1> DEFINE m == IF a <= b THEN b ELSE a
             High(x) == x \in {a, b} /\ \A y \in {a, b} : x >= y
  <1>1. High(m) /\ \A x : High(x) => x = m
    OBVIOUS
  <1>2. Max({a, b}) = CHOOSE x : High(x)
    BY DEF Max
  <1> HIDE DEF m, High
  <1>3. Max({a, b}) = m
    BY <1>1, <1>2
  <1> QED
    BY <1>3 DEF m

-----------------------------------------------------------------------------
(* The beginning of a list                                                 *)

\* The first entries of a list, as many as it may have.
LEMMA TakeIs ==
    ASSUME NEW list \in Seq(Formats)
    PROVE  /\ Take(list) \in Seq(Formats)
           /\ Len(Take(list)) = IF Len(list) <= MaxFormatHistory
                                THEN Len(list) ELSE MaxFormatHistory
           /\ Len(list) <= MaxFormatHistory => Take(list) = list
           /\ \A i \in 1..Len(Take(list)) : Take(list)[i] = list[i]
  <1> DEFINE n == IF Len(list) <= MaxFormatHistory
                  THEN Len(list) ELSE MaxFormatHistory
  <1>1. MaxFormatHistory \in Nat /\ Len(list) \in Nat
    BY SettingsAssumption
  <1>2. Min({Len(list), MaxFormatHistory}) = n
    BY <1>1, MinIs
  <1>3. n \in 0..Len(list) /\ (Len(list) <= MaxFormatHistory => n = Len(list))
    BY <1>1
  <1>4. Take(list) = SubSeq(list, 1, n)
    BY <1>2 DEF Take
  <1> HIDE DEF n
  <1>5. /\ SubSeq(list, 1, n) \in Seq(Formats)
        /\ Len(SubSeq(list, 1, n)) = n
        /\ \A i \in 1..n : SubSeq(list, 1, n)[i] = list[i]
    BY <1>3
  <1>6. SubSeq(list, 1, Len(list)) = list
    OBVIOUS
  <1> QED
    BY <1>3, <1>4, <1>5, <1>6 DEF n

\* Which part of which list a list is.
LEMMA PrefixIs ==
    ASSUME NEW l \in Seq(Formats), NEW m \in Seq(Formats)
    PROVE  IsPrefix(l, m) <=> /\ Len(l) <= Len(m)
                              /\ \A i \in 1..Len(l) : l[i] = m[i]
  <1>1. Len(l) \in Nat /\ Len(m) \in Nat /\ SubSeq(l, 1, Len(l)) = l
    OBVIOUS
  <1>2. ASSUME Len(l) <= Len(m)
        PROVE  SubSeq(m, 1, Len(l)) = l <=> \A i \in 1..Len(l) : l[i] = m[i]
    <2> DEFINE p == SubSeq(m, 1, Len(l))
    <2>1. /\ p \in Seq(Formats) /\ Len(p) = Len(l)
          /\ \A i \in 1..Len(l) : p[i] = m[i]
      BY <1>1, <1>2
    <2> HIDE DEF p
    <2>2. (\A i \in 1..Len(l) : l[i] = m[i]) => p = l
      BY <2>1
    <2>3. p = l => \A i \in 1..Len(l) : l[i] = m[i]
      BY <2>1
    <2> QED
      BY <2>2, <2>3 DEF p
  <1> QED
    BY <1>1, <1>2 DEF IsPrefix

\* A list that another begins with leaves a rest.
LEMMA PrefixRest ==
    ASSUME NEW l \in Seq(Formats), NEW m \in Seq(Formats), IsPrefix(l, m)
    PROVE  \E r \in Seq(Formats) : m = l \o r
  <1> DEFINE r == SubSeq(m, Len(l) + 1, Len(m))
  <1>1. /\ Len(l) <= Len(m) /\ Len(l) \in Nat /\ Len(m) \in Nat
        /\ \A i \in 1..Len(l) : l[i] = m[i]
    BY PrefixIs
  <1>2. /\ r \in Seq(Formats) /\ Len(r) = Len(m) - Len(l)
        /\ \A i \in 1..(Len(m) - Len(l)) : r[i] = m[Len(l) + i]
    BY <1>1
  <1> HIDE DEF r
  <1>3. /\ l \o r \in Seq(Formats) /\ Len(l \o r) = Len(m)
        /\ \A i \in 1..Len(m) : (l \o r)[i] = IF i <= Len(l) THEN l[i]
                                              ELSE r[i - Len(l)]
    BY <1>1, <1>2
  <1>4. \A i \in 1..Len(m) : (l \o r)[i] = m[i]
    BY <1>1, <1>2, <1>3
  <1>5. m = l \o r
    <2> DEFINE k == l \o r
    <2>1. /\ k \in Seq(Formats) /\ Len(k) = Len(m)
          /\ \A i \in 1..Len(m) : k[i] = m[i]
      BY <1>3, <1>4
    <2> HIDE DEF k
    <2>2. k = m
      BY <2>1
    <2> QED
      BY <2>2 DEF k
  <1> QED
    BY <1>2, <1>5

\* A list in a row with another is what both begin with.
LEMMA ConcatPrefix ==
    ASSUME NEW l \in Seq(Formats), NEW r \in Seq(Formats)
    PROVE  IsPrefix(l, l \o r)
  <1>1. /\ l \o r \in Seq(Formats) /\ Len(l) <= Len(l \o r)
        /\ \A i \in 1..Len(l) : l[i] = (l \o r)[i]
    OBVIOUS
  <1> QED
    BY <1>1, PrefixIs

\* Three lists in a row.
LEMMA ConcatThree ==
    ASSUME NEW l \in Seq(Formats), NEW m \in Seq(Formats),
           NEW r \in Seq(Formats)
    PROVE  (l \o m) \o r = l \o (m \o r)
  OBVIOUS

\* What both are without begins the same way, and after the same list too.
LEMMA PrefixWithout ==
    ASSUME NEW l \in Seq(Formats), NEW m \in Seq(Formats), IsPrefix(l, m),
           NEW away, NEW first \in Seq(Formats)
    PROVE  IsPrefix(first \o Without(l, away), first \o Without(m, away))
  <1>1. PICK r \in Seq(Formats) : m = l \o r
    BY PrefixRest
  <1> DEFINE w(k) == Without(k, away)
  <1>2. w(m) = w(l) \o w(r)
    BY <1>1, WithoutConcat
  <1>3. w(l) \in Seq(Formats) /\ w(r) \in Seq(Formats)
    BY WithoutTyped
  <1> HIDE DEF w
  <1>4. first \o w(m) = (first \o w(l)) \o w(r)
    <2> DEFINE p == w(l)
               q == w(r)
    <2>1. p \in Seq(Formats) /\ q \in Seq(Formats) /\ w(m) = p \o q
      BY <1>2, <1>3
    <2> HIDE DEF p, q
    <2>2. (first \o p) \o q = first \o (p \o q)
      BY <2>1, ConcatThree
    <2> QED
      BY <2>1, <2>2 DEF p, q
  <1>5. first \o w(l) \in Seq(Formats)
    BY <1>3
  <1>6. IsPrefix(first \o w(l), first \o w(m))
    BY <1>3, <1>4, <1>5, ConcatPrefix
  <1> QED
    BY <1>6 DEF w

\* The first entries of what a list begins with.
LEMMA TakePrefix ==
    ASSUME NEW l \in Seq(Formats), NEW m \in Seq(Formats), IsPrefix(l, m)
    PROVE  IsPrefix(Take(l), m)
  <1>1. /\ Take(l) \in Seq(Formats) /\ Len(Take(l)) <= Len(l)
        /\ \A i \in 1..Len(Take(l)) : Take(l)[i] = l[i]
    BY TakeIs, SettingsAssumption
  <1>2. Len(l) <= Len(m) /\ \A i \in 1..Len(l) : l[i] = m[i]
    BY PrefixIs
  <1>3. Len(Take(l)) \in Nat /\ Len(l) \in Nat /\ Len(m) \in Nat
    BY <1>1
  <1>4. Len(Take(l)) <= Len(m) /\ \A i \in 1..Len(Take(l)) : Take(l)[i] = m[i]
    BY <1>1, <1>2, <1>3
  <1> QED
    BY <1>1, <1>4, PrefixIs

\* The first entries are there once, too.
LEMMA TakeInjective ==
    ASSUME NEW l \in Seq(Formats), IsInjective(l)
    PROVE  IsInjective(Take(l))
  <1>1. /\ Take(l) \in Seq(Formats) /\ Len(Take(l)) <= Len(l)
        /\ \A i \in 1..Len(Take(l)) : Take(l)[i] = l[i]
    BY TakeIs, SettingsAssumption
  <1>2. \A i, j \in 1..Len(l) : l[i] = l[j] => i = j
    BY DEF IsInjective
  <1>3. Len(Take(l)) \in Nat /\ Len(l) \in Nat
    BY <1>1
  <1>4. \A i, j \in 1..Len(Take(l)) : Take(l)[i] = Take(l)[j] => i = j
    BY <1>1, <1>2, <1>3
  <1>5. DOMAIN Take(l) = 1..Len(Take(l))
    BY <1>1
  <1> QED
    BY <1>4, <1>5 DEF IsInjective

-----------------------------------------------------------------------------
(* Loading, saving, and the settings page                                  *)

\* The settings of a running WinDV, and what may be stored of them.
SettingsType ==
    [format : Formats, history : Seq(Formats), loss : 0..MaxSignalLossSeconds,
     check : BOOLEAN, last : 0..MaxDay, latest : 0..MaxRelease,
     dismissed : 0..MaxRelease]
RegistryType ==
    [format : Stored(Formats), history : Stored(Seq(Formats)),
     loss : Stored(Int), check : Stored(BOOLEAN), last : Stored(0..MaxDay),
     latest : Stored(0..MaxRelease), dismissed : Stored(0..MaxRelease)]

\* A number in its range stays, and each comes into it.
LEMMA ClampIs ==
    ASSUME NEW x \in Int
    PROVE  /\ Clamp(0, x, MaxSignalLossSeconds) \in 0..MaxSignalLossSeconds
           /\ x \in 0..MaxSignalLossSeconds =>
                 Clamp(0, x, MaxSignalLossSeconds) = x
  <1> DEFINE m == IF x <= MaxSignalLossSeconds THEN x ELSE MaxSignalLossSeconds
  <1>1. MaxSignalLossSeconds \in Nat
    BY SettingsAssumption
  <1>2. Min({x, MaxSignalLossSeconds}) = m /\ m \in Int
    BY <1>1, MinIs
  <1> HIDE DEF m
  <1>3. Max({0, m}) = IF 0 <= m THEN m ELSE 0
    BY <1>2, MaxOfTwo
  <1>4. Clamp(0, x, MaxSignalLossSeconds) = IF 0 <= m THEN m ELSE 0
    BY <1>2, <1>3 DEF Clamp
  <1> QED
    BY <1>1, <1>4 DEF m

\* A value, or its fallback.
Of(stored, fallback) == IF stored = Absent THEN fallback ELSE stored

\* What Load makes of a registry, value by value.
LEMMA LoadIs ==
    ASSUME NEW r
    PROVE  Load(r) =
             [format |-> Of(r.format, DefaultFormat),
              history |-> Without(Of(r.history, DefaultFormatHistory),
                                  {NoFormat}),
              loss |-> Clamp(0, Of(r.loss, 0), MaxSignalLossSeconds),
              check |-> Of(r.check, TRUE), last |-> Of(r.last, 0),
              latest |-> Of(r.latest, 0), dismissed |-> Of(r.dismissed, 0)]
  <1> DEFINE d == [f \in DOMAIN Defaults |->
                     IF r[f] = Absent THEN Defaults[f] ELSE r[f]]
             e == [format |-> Of(r.format, DefaultFormat),
                   history |-> Of(r.history, DefaultFormatHistory),
                   loss |-> Of(r.loss, 0), check |-> Of(r.check, TRUE),
                   last |-> Of(r.last, 0), latest |-> Of(r.latest, 0),
                   dismissed |-> Of(r.dismissed, 0)]
  <1>1. DOMAIN Defaults = {"format", "history", "loss", "check", "last",
                           "latest", "dismissed"}
    BY DEF Defaults
  <1>2. /\ Defaults["format"] = DefaultFormat
        /\ Defaults["history"] = DefaultFormatHistory
        /\ Defaults["loss"] = 0 /\ Defaults["check"] = TRUE
        /\ Defaults["last"] = 0 /\ Defaults["latest"] = 0
        /\ Defaults["dismissed"] = 0
    BY DEF Defaults
  <1> DEFINE D == DOMAIN Defaults
  <1>3. d = e
    <2>1. DOMAIN e = D /\ DOMAIN d = D
      BY <1>1
    <2>2. ASSUME NEW f \in D
          PROVE  d[f] = e[f]
      <3>1. d[f] = Of(r[f], Defaults[f])
        BY DEF Of
      <3>2. /\ e["format"] = Of(r["format"], DefaultFormat)
            /\ e["history"] = Of(r["history"], DefaultFormatHistory)
            /\ e["loss"] = Of(r["loss"], 0)
            /\ e["check"] = Of(r["check"], TRUE)
            /\ e["last"] = Of(r["last"], 0) /\ e["latest"] = Of(r["latest"], 0)
            /\ e["dismissed"] = Of(r["dismissed"], 0)
        OBVIOUS
      <3>3. \/ f = "format" \/ f = "history" \/ f = "loss" \/ f = "check"
            \/ f = "last" \/ f = "latest" \/ f = "dismissed"
        BY <1>1
      <3> HIDE DEF d, e, D
      <3> QED
        BY <1>2, <3>1, <3>2, <3>3, Zenon
    <2>3. d = [f \in D |-> d[f]] /\ e = [f \in DOMAIN e |-> e[f]]
      OBVIOUS
    <2> HIDE DEF d, e, D
    <2> QED
      BY <2>1, <2>2, <2>3
  <1>4. Load(r) = [d EXCEPT !.history = Without(@, {NoFormat}),
                            !.loss = Clamp(0, @, MaxSignalLossSeconds)]
    BY DEF Load
  <1> HIDE DEF d
  <1>5. Load(r) = [e EXCEPT !.history = Without(@, {NoFormat}),
                            !.loss = Clamp(0, @, MaxSignalLossSeconds)]
    BY <1>3, <1>4
  <1> QED
    BY <1>5

\* The settings that a registry gives are of their types.
LEMMA LoadTyped ==
    ASSUME NEW r \in RegistryType
    PROVE  /\ Load(r) \in SettingsType
           /\ ~Contains(Load(r).history, NoFormat)
  <1> DEFINE h == Of(r.history, DefaultFormatHistory)
             w == Without(h, {NoFormat})
             c == Clamp(0, Of(r.loss, 0), MaxSignalLossSeconds)
  <1>1. h \in Seq(Formats)
    <2>1. r.history \in {Absent} \union Seq(Formats)
      BY DEF RegistryType, Stored
    <2> QED
      BY <2>1, UpdatesAssumption DEF Of
  <1> HIDE DEF h
  <1>3. w \in Seq(Formats) /\ ~Contains(w, NoFormat)
    <2>1. w \in Seq(Formats)
      BY <1>1, WithoutTyped
    <2>2. Contains(w, NoFormat)
             <=> Contains(h, NoFormat) /\ NoFormat \notin {NoFormat}
      BY <1>1, WithoutHas, Zenon
    <2> QED
      BY <2>1, <2>2
  <1> HIDE DEF w
  <1>6. c \in 0..MaxSignalLossSeconds
    <2>1. Of(r.loss, 0) \in Int
      BY DEF Of, RegistryType, Stored
    <2> QED
      BY <2>1, ClampIs
  <1> HIDE DEF c
  <1>7. /\ Of(r.format, DefaultFormat) \in Formats
        /\ Of(r.check, TRUE) \in BOOLEAN
        /\ Of(r.last, 0) \in 0..MaxDay
        /\ Of(r.latest, 0) \in 0..MaxRelease
        /\ Of(r.dismissed, 0) \in 0..MaxRelease
    <2>1. DefaultFormat \in Formats /\ MaxDay \in Nat /\ MaxRelease \in Nat
      BY UpdatesAssumption
    <2>2. /\ r.format \in {Absent} \union Formats
          /\ r.check \in {Absent} \union BOOLEAN
          /\ r.last \in {Absent} \union (0..MaxDay)
          /\ r.latest \in {Absent} \union (0..MaxRelease)
          /\ r.dismissed \in {Absent} \union (0..MaxRelease)
      BY DEF RegistryType, Stored
    <2>3. Of(r.format, DefaultFormat) \in Formats
      BY <2>1, <2>2 DEF Of
    <2>4. Of(r.check, TRUE) \in BOOLEAN
      BY <2>2 DEF Of
    <2>5. /\ Of(r.last, 0) \in 0..MaxDay
          /\ Of(r.latest, 0) \in 0..MaxRelease
          /\ Of(r.dismissed, 0) \in 0..MaxRelease
      BY <2>1, <2>2 DEF Of
    <2> QED
      BY <2>3, <2>4, <2>5
  <1>8. Load(r) =
             [format |-> Of(r.format, DefaultFormat),
              history |-> w, loss |-> c,
              check |-> Of(r.check, TRUE), last |-> Of(r.last, 0),
              latest |-> Of(r.latest, 0), dismissed |-> Of(r.dismissed, 0)]
    BY LoadIs DEF w, h, c
  <1>9. Load(r).history = w
    BY <1>8
  <1>10. Load(r) \in SettingsType
    <2>1. \A f \in Formats, k \in BOOLEAN, t \in 0..MaxDay,
             l, x \in 0..MaxRelease :
             [format |-> f, history |-> w, loss |-> c, check |-> k,
              last |-> t, latest |-> l, dismissed |-> x] \in SettingsType
      BY <1>3, <1>6 DEF SettingsType
    <2> QED
      BY <1>7, <1>8, <2>1, Zenon
  <1> QED
    BY <1>3, <1>9, <1>10

\* The value that is the k-th to be saved, when n are.
Kth(k, n, new, old) == IF k <= n THEN new ELSE old

\* What Save leaves in the registry, value by value.
LEMMA SaveIs ==
    ASSUME NEW r \in RegistryType, NEW s \in SettingsType,
           NEW n \in 0..Len(SaveOrder)
    PROVE  /\ Save(r, s, n) =
                [format |-> Kth(1, n, s.format, r.format),
                 history |-> Kth(2, n, s.history, r.history),
                 loss |-> Kth(3, n, s.loss, r.loss),
                 check |-> Kth(4, n, s.check, r.check),
                 last |-> Kth(5, n, s.last, r.last),
                 latest |-> Kth(6, n, s.latest, r.latest),
                 dismissed |-> Kth(7, n, s.dismissed, r.dismissed)]
           /\ Save(r, s, n) \in RegistryType
  <1> DEFINE e == [format |-> Kth(1, n, s.format, r.format),
                   history |-> Kth(2, n, s.history, r.history),
                   loss |-> Kth(3, n, s.loss, r.loss),
                   check |-> Kth(4, n, s.check, r.check),
                   last |-> Kth(5, n, s.last, r.last),
                   latest |-> Kth(6, n, s.latest, r.latest),
                   dismissed |-> Kth(7, n, s.dismissed, r.dismissed)]
             D == {"format", "history", "loss", "check", "last", "latest",
                   "dismissed"}
             d == Save(r, s, n)
  <1>1. /\ Len(SaveOrder) = 7
        /\ SaveOrder[1] = "format" /\ SaveOrder[2] = "history"
        /\ SaveOrder[3] = "loss" /\ SaveOrder[4] = "check"
        /\ SaveOrder[5] = "last" /\ SaveOrder[6] = "latest"
        /\ SaveOrder[7] = "dismissed"
    BY DEF SaveOrder
  <1>2. DOMAIN s = D /\ DOMAIN e = D
    BY DEF SettingsType
  <1>3. d = [f \in D |-> IF \E i \in 1..n : SaveOrder[i] = f
                         THEN s[f] ELSE r[f]]
    BY <1>2 DEF Save
  <1> HIDE DEF d
  <1>4. ASSUME NEW f \in D, NEW k \in 1..7, SaveOrder[k] = f
        PROVE  d[f] = Kth(k, n, s[f], r[f])
    <2>1. n \in Nat /\ n <= 7
      BY <1>1
    <2>2. \A i \in 1..n : i \in 1..7
      BY <2>1
    <2>3. \A i \in 1..7 : SaveOrder[i] = f => i = k
      BY <1>1, <1>4
    <2>4. (\E i \in 1..n : SaveOrder[i] = f) <=> k <= n
      BY <1>4, <2>1, <2>2, <2>3
    <2>5. d[f] = IF \E i \in 1..n : SaveOrder[i] = f THEN s[f] ELSE r[f]
      BY <1>3
    <2> QED
      BY <2>4, <2>5 DEF Kth
  <1>5. /\ d["format"] = Kth(1, n, s["format"], r["format"])
        /\ d["history"] = Kth(2, n, s["history"], r["history"])
        /\ d["loss"] = Kth(3, n, s["loss"], r["loss"])
        /\ d["check"] = Kth(4, n, s["check"], r["check"])
        /\ d["last"] = Kth(5, n, s["last"], r["last"])
        /\ d["latest"] = Kth(6, n, s["latest"], r["latest"])
        /\ d["dismissed"] = Kth(7, n, s["dismissed"], r["dismissed"])
    BY <1>1, <1>4
  <1>6. /\ e["format"] = Kth(1, n, s["format"], r["format"])
        /\ e["history"] = Kth(2, n, s["history"], r["history"])
        /\ e["loss"] = Kth(3, n, s["loss"], r["loss"])
        /\ e["check"] = Kth(4, n, s["check"], r["check"])
        /\ e["last"] = Kth(5, n, s["last"], r["last"])
        /\ e["latest"] = Kth(6, n, s["latest"], r["latest"])
        /\ e["dismissed"] = Kth(7, n, s["dismissed"], r["dismissed"])
    OBVIOUS
  <1>7. d = e
    <2>1. d = [f \in D |-> d[f]] /\ e = [f \in D |-> e[f]]
      BY <1>2, <1>3
    <2>2. \A f \in D : d[f] = e[f]
      <3> HIDE DEF e
      <3> QED
        BY <1>5, <1>6
    <2> HIDE DEF e, D
    <2> QED
      BY <2>1, <2>2
  <1>8. /\ Kth(1, n, s.format, r.format) \in Stored(Formats)
        /\ Kth(2, n, s.history, r.history) \in Stored(Seq(Formats))
        /\ Kth(3, n, s.loss, r.loss) \in Stored(Int)
        /\ Kth(4, n, s.check, r.check) \in Stored(BOOLEAN)
        /\ Kth(5, n, s.last, r.last) \in Stored(0..MaxDay)
        /\ Kth(6, n, s.latest, r.latest) \in Stored(0..MaxRelease)
        /\ Kth(7, n, s.dismissed, r.dismissed) \in Stored(0..MaxRelease)
    <2>1. /\ s.format \in Stored(Formats)
          /\ s.history \in Stored(Seq(Formats))
          /\ s.loss \in Stored(Int) /\ s.check \in Stored(BOOLEAN)
          /\ s.last \in Stored(0..MaxDay)
          /\ s.latest \in Stored(0..MaxRelease)
          /\ s.dismissed \in Stored(0..MaxRelease)
      BY SettingsAssumption DEF SettingsType, Stored
    <2>2. /\ r.format \in Stored(Formats)
          /\ r.history \in Stored(Seq(Formats))
          /\ r.loss \in Stored(Int) /\ r.check \in Stored(BOOLEAN)
          /\ r.last \in Stored(0..MaxDay)
          /\ r.latest \in Stored(0..MaxRelease)
          /\ r.dismissed \in Stored(0..MaxRelease)
      BY DEF RegistryType
    <2>3. \A k, new, old, S :
             new \in S /\ old \in S => Kth(k, n, new, old) \in S
      BY Zenon DEF Kth
    <2> QED
      BY <2>1, <2>2, <2>3, Zenon
  <1>9. e \in RegistryType
    <2>1. \A f \in Stored(Formats), h \in Stored(Seq(Formats)),
             c \in Stored(Int), k \in Stored(BOOLEAN),
             t \in Stored(0..MaxDay), l, x \in Stored(0..MaxRelease) :
             [format |-> f, history |-> h, loss |-> c, check |-> k,
              last |-> t, latest |-> l, dismissed |-> x] \in RegistryType
      BY DEF RegistryType
    <2> QED
      BY <1>8, <2>1, Zenon
  <1> QED
    BY <1>7, <1>9 DEF d

\* What a start after it finds.
LEMMA SavedLoads ==
    ASSUME NEW r \in RegistryType, NEW s \in SettingsType,
           ~Contains(s.history, NoFormat), NEW n \in 0..Len(SaveOrder)
    PROVE  LET new == Load(Save(r, s, n))
           IN  /\ new.latest = Kth(6, n, s.latest, Load(r).latest)
               /\ new.dismissed = Kth(7, n, s.dismissed, Load(r).dismissed)
               /\ new.format = Kth(1, n, s.format, Load(r).format)
               /\ new.history = Kth(2, n, s.history, Load(r).history)
  <1> DEFINE d == Save(r, s, n)
             new == Load(d)
  <1>1. /\ d.format = Kth(1, n, s.format, r.format)
        /\ d.history = Kth(2, n, s.history, r.history)
        /\ d.latest = Kth(6, n, s.latest, r.latest)
        /\ d.dismissed = Kth(7, n, s.dismissed, r.dismissed)
    <2> HIDE DEF d
    <2>1. d = [format |-> Kth(1, n, s.format, r.format),
                 history |-> Kth(2, n, s.history, r.history),
                 loss |-> Kth(3, n, s.loss, r.loss),
                 check |-> Kth(4, n, s.check, r.check),
                 last |-> Kth(5, n, s.last, r.last),
                 latest |-> Kth(6, n, s.latest, r.latest),
                 dismissed |-> Kth(7, n, s.dismissed, r.dismissed)]
      BY SaveIs DEF d
    <2> QED
      BY <2>1
  <1> HIDE DEF d
  <1>2. /\ new.format = Of(d.format, DefaultFormat)
        /\ new.history = Without(Of(d.history, DefaultFormatHistory),
                                 {NoFormat})
        /\ new.latest = Of(d.latest, 0) /\ new.dismissed = Of(d.dismissed, 0)
    BY LoadIs
  <1>3. /\ Load(r).format = Of(r.format, DefaultFormat)
        /\ Load(r).history = Without(Of(r.history, DefaultFormatHistory),
                                     {NoFormat})
        /\ Load(r).latest = Of(r.latest, 0)
        /\ Load(r).dismissed = Of(r.dismissed, 0)
    BY LoadIs
  <1>4. /\ s.format # Absent /\ s.history # Absent /\ s.latest # Absent
        /\ s.dismissed # Absent
    BY UpdatesAssumption DEF SettingsType
  <1>5. /\ Of(s.format, DefaultFormat) = s.format
        /\ Of(s.history, DefaultFormatHistory) = s.history
        /\ Of(s.latest, 0) = s.latest /\ Of(s.dismissed, 0) = s.dismissed
    BY <1>4, Zenon DEF Of
  <1>6. Without(s.history, {NoFormat}) = s.history
    <2>1. s.history \in Seq(Formats)
      BY DEF SettingsType
    <2>2. \A y \in {NoFormat} : ~Contains(s.history, y)
      OBVIOUS
    <2> QED
      BY <2>1, <2>2, NoneAway
  <1> HIDE DEF new
  <1>7. /\ new.latest = Kth(6, n, s.latest, Load(r).latest)
        /\ new.dismissed = Kth(7, n, s.dismissed, Load(r).dismissed)
    BY <1>1, <1>2, <1>3, <1>5 DEF Kth
  <1>8. /\ new.format = Kth(1, n, s.format, Load(r).format)
        /\ new.history = Kth(2, n, s.history, Load(r).history)
    BY <1>1, <1>2, <1>3, <1>5, <1>6 DEF Kth
  <1> QED
    BY <1>7, <1>8 DEF new, d

\* The formats that are left to remember, before the oldest are dropped.
Places(s, format) ==
    Distinct(Without(<<s.format>> \o s.history, {NoFormat, format}))

\* What choosing a format leaves.
LEMMA UseFormatIs ==
    ASSUME NEW s \in SettingsType, NEW g \in Formats
    PROVE  LET new == UseDateTimeFormat(s, g)
           IN  /\ new \in SettingsType /\ new.format = g
               /\ new.history = Take(Places(s, g))
               /\ ~Contains(new.history, NoFormat) /\ ~Contains(new.history, g)
               /\ IsInjective(new.history)
               /\ new.check = s.check /\ new.last = s.last
               /\ new.latest = s.latest /\ new.dismissed = s.dismissed
  <1> DEFINE one == <<s.format>>
             all == one \o s.history
             w == Without(all, {NoFormat, g})
             p == Distinct(w)
             h == Take(p)
  <1>1. s.history \in Seq(Formats) /\ s.format \in Formats
    BY DEF SettingsType
  <1>2. all \in Seq(Formats)
    BY <1>1
  <1> HIDE DEF all
  <1>3. /\ w \in Seq(Formats)
        /\ ~Contains(w, NoFormat) /\ ~Contains(w, g)
    <2>1. w \in Seq(Formats)
      BY <1>2, WithoutTyped
    <2>2. /\ Contains(w, NoFormat)
              <=> Contains(all, NoFormat) /\ NoFormat \notin {NoFormat, g}
          /\ Contains(w, g) <=> Contains(all, g) /\ g \notin {NoFormat, g}
      BY <1>2, WithoutHas, Zenon
    <2> QED
      BY <2>1, <2>2
  <1> HIDE DEF w
  <1>4. /\ p \in Seq(Formats) /\ IsInjective(p)
        /\ ~Contains(p, NoFormat) /\ ~Contains(p, g)
    BY <1>3, DistinctTyped, DistinctHas
  <1> HIDE DEF p
  <1>5. /\ h \in Seq(Formats) /\ IsInjective(h)
        /\ Len(h) <= MaxFormatHistory /\ Len(h) <= Len(p)
        /\ \A i \in 1..Len(h) : h[i] = p[i]
    BY <1>4, TakeIs, TakeInjective, SettingsAssumption
  <1>6. ~Contains(h, NoFormat) /\ ~Contains(h, g)
    <2>1. Len(h) \in Nat /\ Len(p) \in Nat
      BY <1>4, <1>5
    <2> QED
      BY <1>4, <1>5, <2>1 DEF Contains
  <1> HIDE DEF h
  <1> DEFINE new == [s EXCEPT !.history = h, !.format = g]
  <1>8. /\ new \in SettingsType /\ new.format = g /\ new.history = h
        /\ new.check = s.check /\ new.last = s.last
        /\ new.latest = s.latest /\ new.dismissed = s.dismissed
    BY <1>5 DEF SettingsType
  <1>9. UseDateTimeFormat(s, g) = new /\ Places(s, g) = p
    BY DEF UseDateTimeFormat, Places, p, w, all, h
  <1> HIDE DEF new
  <1> QED
    BY <1>5, <1>6, <1>8, <1>9 DEF h

\* What saving the page leaves.
LEMMA FromPageIs ==
    ASSUME NEW s \in SettingsType, NEW page \in Pages
    PROVE  LET new == FromPage(s, page)
           IN  /\ new \in SettingsType
               /\ new.format = page.format /\ page.format \in Formats
               /\ new.history = Take(Places(s, page.format))
               /\ ~Contains(new.history, NoFormat)
               /\ ~Contains(new.history, page.format)
               /\ IsInjective(new.history)
               /\ new.check = page.check
               /\ new.latest = s.latest /\ new.dismissed = s.dismissed
  <1> DEFINE u == UseDateTimeFormat(s, page.format)
             box == ReadNumber(page.lossBox, 1, DefaultSignalLossSeconds)
             c == IF page.lossOn THEN Clamp(0, box, MaxSignalLossSeconds)
                  ELSE 0
             new == [u EXCEPT !.loss = c, !.check = page.check]
  <1>1. /\ page.format \in Formats /\ page.lossOn \in BOOLEAN
        /\ page.lossBox \in Int \union {NaN} /\ page.check \in BOOLEAN
    BY UpdatesAssumption
  <1>2. box \in Int
    <2>1. CASE page.lossBox = NaN
      BY <2>1, SettingsAssumption DEF ReadNumber
    <2>2. CASE page.lossBox # NaN
      <3>1. page.lossBox \in Int
        BY <1>1, <2>2
      <3>2. Max({1, page.lossBox}) \in Int
        BY <3>1, MaxOfTwo
      <3> QED
        BY <2>2, <3>2 DEF ReadNumber
    <2> QED
      BY <2>1, <2>2
  <1> HIDE DEF box
  <1>3. c \in 0..MaxSignalLossSeconds
    <2>1. Clamp(0, box, MaxSignalLossSeconds) \in 0..MaxSignalLossSeconds
      BY <1>2, ClampIs
    <2> QED
      BY <2>1, SettingsAssumption
  <1> HIDE DEF c
  <1>4. /\ u \in SettingsType /\ u.format = page.format
        /\ u.history = Take(Places(s, page.format))
        /\ ~Contains(u.history, NoFormat)
        /\ ~Contains(u.history, page.format)
        /\ IsInjective(u.history)
        /\ u.latest = s.latest /\ u.dismissed = s.dismissed
    BY <1>1, UseFormatIs
  <1> HIDE DEF u
  <1>5. /\ new \in SettingsType /\ new.format = u.format
        /\ new.history = u.history /\ new.check = page.check
        /\ new.latest = u.latest /\ new.dismissed = u.dismissed
    BY <1>1, <1>3, <1>4 DEF SettingsType
  <1>6. FromPage(s, page) = new
    BY DEF FromPage, u, c, box
  <1> HIDE DEF new
  <1> QED
    BY <1>1, <1>4, <1>5, <1>6

-----------------------------------------------------------------------------
(* The formats that were used                                              *)

\* The reverse of a list, and of one with a format more at either end.
LEMMA ReverseIs ==
    ASSUME NEW u \in Seq(Formats), NEW g \in Formats
    PROVE  /\ Reverse(u) \in Seq(Formats) /\ Reverse(Reverse(u)) = u
           /\ Reverse(Append(u, g)) = <<g>> \o Reverse(u)
           /\ Reverse(<<g>> \o u) = Append(Reverse(u), g)
  <1>1. /\ Reverse(u) \in Seq(Formats) /\ Len(Reverse(u)) = Len(u)
        /\ \A i \in 1..Len(u) : Reverse(u)[i] = u[(Len(u) - i) + 1]
    BY DEF Reverse
  <1> DEFINE r == Reverse(u)
             a == Append(u, g)
             b == <<g>> \o u
  <1>2. Reverse(r) = u
    <2> HIDE DEF r
    <2>1. Reverse(r) = [i \in 1..Len(u) |-> r[(Len(u) - i) + 1]]
      BY <1>1 DEF Reverse, r
    <2>2. \A i \in 1..Len(u) : r[(Len(u) - i) + 1] = u[i]
      <3> SUFFICES ASSUME NEW i \in 1..Len(u)
                   PROVE  r[(Len(u) - i) + 1] = u[i]
        OBVIOUS
      <3> DEFINE j == (Len(u) - i) + 1
      <3>1. j \in 1..Len(u) /\ (Len(u) - j) + 1 = i
        OBVIOUS
      <3> HIDE DEF j
      <3>2. r[j] = u[(Len(u) - j) + 1]
        BY <1>1, <3>1 DEF r
      <3> QED
        BY <3>1, <3>2 DEF j
    <2>3. u = [i \in 1..Len(u) |-> u[i]]
      OBVIOUS
    <2> QED
      BY <2>1, <2>2, <2>3
  <1>3. Reverse(a) = <<g>> \o r
    <2>1. /\ Len(a) = Len(u) + 1 /\ a[Len(u) + 1] = g
          /\ \A i \in 1..Len(u) : a[i] = u[i]
      OBVIOUS
    <2>2. Reverse(a) = [i \in 1..(Len(u) + 1) |-> a[((Len(u) + 1) - i) + 1]]
      BY <2>1 DEF Reverse
    <2> HIDE DEF a, r
    <2>3. r \in Seq(Formats) /\ Len(r) = Len(u)
          /\ \A i \in 1..Len(u) : r[i] = u[(Len(u) - i) + 1]
      BY <1>1 DEF r
    <2>4. /\ <<g>> \o r \in Seq(Formats) /\ Len(<<g>> \o r) = Len(u) + 1
          /\ (<<g>> \o r)[1] = g
          /\ \A i \in 2..(Len(u) + 1) : (<<g>> \o r)[i] = r[i - 1]
      BY <2>3
    <2>5. ASSUME NEW i \in 1..(Len(u) + 1)
          PROVE  a[((Len(u) + 1) - i) + 1] = (<<g>> \o r)[i]
      <3>1. CASE i = 1
        BY <3>1, <2>1, <2>4
      <3>2. CASE i # 1
        <4> DEFINE j == i - 1
        <4>1. j \in 1..Len(u) /\ i \in 2..(Len(u) + 1)
              /\ ((Len(u) + 1) - i) + 1 = (Len(u) - j) + 1
              /\ (Len(u) - j) + 1 \in 1..Len(u)
          BY <3>2
        <4> HIDE DEF j
        <4>2. (<<g>> \o r)[i] = u[(Len(u) - j) + 1]
          BY <4>1, <2>3, <2>4 DEF j
        <4> QED
          BY <4>1, <4>2, <2>1
      <3> QED
        BY <3>1, <3>2
    <2> DEFINE c == <<g>> \o r
    <2>6. c = [i \in 1..(Len(u) + 1) |-> c[i]]
      BY <2>4
    <2> HIDE DEF c
    <2>7. \A i \in 1..(Len(u) + 1) : a[((Len(u) + 1) - i) + 1] = c[i]
      BY <2>5 DEF c
    <2>8. Reverse(a) = c
      BY <2>2, <2>6, <2>7
    <2> QED
      BY <2>8 DEF c
  <1>4. Reverse(b) = Append(r, g)
    <2>1. /\ b \in Seq(Formats) /\ Len(b) = Len(u) + 1 /\ b[1] = g
          /\ \A i \in 2..(Len(u) + 1) : b[i] = u[i - 1]
      OBVIOUS
    <2>2. Reverse(b) = [i \in 1..(Len(u) + 1) |-> b[((Len(u) + 1) - i) + 1]]
      BY <2>1 DEF Reverse
    <2> HIDE DEF b, r
    <2>3. r \in Seq(Formats) /\ Len(r) = Len(u)
          /\ \A i \in 1..Len(u) : r[i] = u[(Len(u) - i) + 1]
      BY <1>1 DEF r
    <2> DEFINE c == Append(r, g)
    <2>4. /\ c \in Seq(Formats) /\ Len(c) = Len(u) + 1 /\ c[Len(u) + 1] = g
          /\ \A i \in 1..Len(u) : c[i] = r[i]
      BY <2>3
    <2> HIDE DEF c
    <2>5. ASSUME NEW i \in 1..(Len(u) + 1)
          PROVE  b[((Len(u) + 1) - i) + 1] = c[i]
      <3>1. CASE i = Len(u) + 1
        BY <3>1, <2>1, <2>4
      <3>2. CASE i # Len(u) + 1
        <4> DEFINE j == ((Len(u) + 1) - i) + 1
        <4>1. i \in 1..Len(u) /\ j \in 2..(Len(u) + 1)
              /\ j - 1 = (Len(u) - i) + 1
          BY <3>2
        <4> HIDE DEF j
        <4>2. b[j] = u[(Len(u) - i) + 1]
          BY <4>1, <2>1
        <4> QED
          BY <4>1, <4>2, <2>3, <2>4 DEF j
      <3> QED
        BY <3>1, <3>2
    <2>6. c = [i \in 1..(Len(u) + 1) |-> c[i]]
      BY <2>4
    <2>7. \A i \in 1..(Len(u) + 1) : b[((Len(u) + 1) - i) + 1] = c[i]
      BY <2>5
    <2>8. Reverse(b) = c
      BY <2>2, <2>6, <2>7
    <2> QED
      BY <2>8 DEF c
  <1> QED
    BY <1>1, <1>2, <1>3, <1>4

\* Without, of a list of one format.
LEMMA WithoutOne ==
    ASSUME NEW a \in Formats, NEW away
    PROVE  Without(<<a>>, away) = IF a \in away THEN <<>> ELSE <<a>>
  <1>1. <<>> \in Seq(Formats) /\ Append(<<>>, a) = <<a>>
    OBVIOUS
  <1>2. Without(Append(<<>>, a), away) =
           IF a \in away THEN Without(<<>>, away)
                         ELSE Append(Without(<<>>, away), a)
    BY <1>1, WithoutAppend
  <1>3. Without(<<>>, away) = <<>>
    BY WithoutEmpty
  <1> QED
    BY <1>1, <1>2, <1>3

\* A list with one element first, without some.
LEMMA WithoutCons ==
    ASSUME NEW a \in Formats, NEW list \in Seq(Formats), NEW D, NEW E
    PROVE  Without(<<a>> \o Without(list, D), E) =
             IF a \in E THEN Without(list, D \union E)
                        ELSE <<a>> \o Without(list, D \union E)
  <1> DEFINE w == Without(list, D)
             v == Without(list, D \union E)
             one == <<a>>
  <1>1. w \in Seq(Formats) /\ v \in Seq(Formats) /\ Without(w, E) = v
    <2>1. w \in Seq(Formats) /\ v \in Seq(Formats)
      BY WithoutTyped, Zenon
    <2>2. Without(Without(list, D), E) = Without(list, D \union E)
      BY WithoutBoth
    <2> QED
      BY <2>1, <2>2
  <1>2. one \in Seq(Formats)
        /\ Without(one, E) = IF a \in E THEN <<>> ELSE one
    BY WithoutOne
  <1> HIDE DEF w, v, one
  <1>3. Without(one \o w, E) = Without(one, E) \o v
    BY <1>1, <1>2, WithoutConcat
  <1>4. <<>> \o v = v
    BY <1>1
  <1>5. CASE a \in E
    BY <1>2, <1>3, <1>4, <1>5 DEF w, v, one
  <1>6. CASE a \notin E
    BY <1>2, <1>3, <1>6 DEF w, v, one
  <1> QED
    BY <1>5, <1>6

\* f in front of the list, unless it is away.
First(f, E, list) == IF f \in E THEN list ELSE <<f>> \o list

\* What the settings page offers, without the repeats that were stored.
Listed(s) == Distinct(Offered(s))

\* The list of the settings page when another format is chosen.
LEMMA PlacesAre ==
    ASSUME NEW s \in SettingsType, ~Contains(s.history, NoFormat),
           NEW g \in Formats
    PROVE  Places(s, g) = First(s.format, {NoFormat, g},
                                Without(Listed(s), {g}))
  <1> DEFINE h == s.history
             f == s.format
             E == {NoFormat, g}
  <1>1. h \in Seq(Formats) /\ f \in Formats
    BY DEF SettingsType
  <1>2. Places(s, g) = Distinct(Without(<<f>> \o h, E))
    BY DEF Places
  <1>4. ~Contains(h, NoFormat)
    OBVIOUS
  <1>13. Listed(s) = Distinct(Without(h, {f}))
    BY DEF Listed, Offered
  <1> HIDE DEF h, f
  <1> DEFINE k == Distinct(h)
  <1>3. k \in Seq(Formats) /\ Listed(s) = Without(k, {f})
    BY <1>1, <1>13, DistinctTyped, DistinctWithout
  <1>5. <<f>> \o h \in Seq(Formats)
    BY <1>1
  <1>6. ~Contains(k, NoFormat)
    BY <1>1, <1>4, DistinctHas
  <1>7. Distinct(<<f>> \o h) = <<f>> \o Without(k, {f})
    BY <1>1, DistinctCons
  <1>8. Distinct(Without(<<f>> \o h, E)) = Without(Distinct(<<f>> \o h), E)
    BY <1>5, DistinctWithout
  <1> HIDE DEF k
  <1>0. \A D, F : Without(<<f>> \o Without(k, D), F) =
                     IF f \in F THEN Without(k, D \union F)
                                ELSE <<f>> \o Without(k, D \union F)
    BY <1>1, <1>3, WithoutCons
  <1>9. Without(<<f>> \o Without(k, {f}), E) =
           IF f \in E THEN Without(k, {f} \union E)
                      ELSE <<f>> \o Without(k, {f} \union E)
    BY <1>0, Zenon
  <1>10. Without(k, {f} \union E) = Without(Listed(s), {g})
    <2>1. Without(k, {NoFormat}) = k
      <3>1. \A y \in {NoFormat} : ~Contains(k, y)
        BY <1>6
      <3> QED
        BY <1>3, <3>1, NoneAway
    <2>2. Without(Without(k, {f}), {g}) = Without(k, {f} \union {g})
      BY <1>3, WithoutBoth
    <2>3. Without(Without(k, {NoFormat}), {f} \union {g}) =
             Without(k, {NoFormat} \union ({f} \union {g}))
      BY <1>3, WithoutBoth
    <2>4. {NoFormat} \union ({f} \union {g}) = {f} \union E
      OBVIOUS
    <2> HIDE DEF E
    <2> QED
      BY <1>3, <2>1, <2>2, <2>3, <2>4
  <1> HIDE DEF E
  <1> QED
    BY <1>2, <1>7, <1>8, <1>9, <1>10 DEF First, f, h, k, E

\* The formats used before f, the latest first, each once.
Since(u, f) == Distinct(Without(Reverse(u), {NoFormat, f}))

\* They change as the list of the settings page does.
LEMMA SinceMoves ==
    ASSUME NEW u \in Seq(Formats), NEW f \in Formats, NEW g \in Formats
    PROVE  /\ Since(Append(u, f), f) \in Seq(Formats)
           /\ Since(Append(u, f), f) =
                Without(Distinct(Reverse(u)), {f} \union {NoFormat, f})
           /\ Since(Append(Append(u, f), g), g) =
                First(f, {NoFormat, g},
                      Without(Since(Append(u, f), f), {g}))
  <1> DEFINE k == Reverse(u)
             R == Distinct(k)
             uf == Append(u, f)
             E == {NoFormat, g}
  <1>1. k \in Seq(Formats) /\ R \in Seq(Formats) /\ uf \in Seq(Formats)
    <2>1. k \in Seq(Formats)
      BY ReverseIs
    <2> HIDE DEF k
    <2> QED
      BY <2>1, DistinctTyped
  <1>2. Reverse(uf) = <<f>> \o k
    BY ReverseIs
  <1> HIDE DEF k
  <1>3. Distinct(<<f>> \o k) = <<f>> \o Without(R, {f})
    BY <1>1, DistinctCons
  <1> HIDE DEF R, uf
  <1>4. Reverse(uf) \in Seq(Formats)
    BY <1>1, <1>2
  <1>0. \A D, F : Without(<<f>> \o Without(R, D), F) =
                     IF f \in F THEN Without(R, D \union F)
                                ELSE <<f>> \o Without(R, D \union F)
    BY <1>1, WithoutCons
  <1>5. ASSUME NEW away
        PROVE  Distinct(Without(Reverse(uf), away)) =
                 Without(<<f>> \o Without(R, {f}), away)
    BY <1>2, <1>3, <1>4, DistinctWithout
  <1>6. Since(uf, f) = Without(R, {f} \union {NoFormat, f})
    <2>1. Without(<<f>> \o Without(R, {f}), {NoFormat, f}) =
             IF f \in {NoFormat, f}
             THEN Without(R, {f} \union {NoFormat, f})
             ELSE <<f>> \o Without(R, {f} \union {NoFormat, f})
      BY <1>0, Zenon
    <2>2. f \in {NoFormat, f}
      OBVIOUS
    <2>3. Since(uf, f) = Without(<<f>> \o Without(R, {f}), {NoFormat, f})
      BY <1>5 DEF Since
    <2> QED
      BY <2>1, <2>2, <2>3
  <1>7. Since(uf, f) \in Seq(Formats)
    BY <1>1, <1>6, WithoutTyped
  <1>8. Without(<<f>> \o Without(R, {f}), E) =
           IF f \in E THEN Without(R, {f} \union E)
                      ELSE <<f>> \o Without(R, {f} \union E)
    BY <1>0, Zenon
  <1>9. Without(R, {f} \union E) = Without(Since(uf, f), {g})
    <2>1. Without(Without(R, {f} \union {NoFormat, f}), {g}) =
             Without(R, ({f} \union {NoFormat, f}) \union {g})
      BY <1>1, WithoutBoth
    <2>2. ({f} \union {NoFormat, f}) \union {g} = {f} \union E
      OBVIOUS
    <2> HIDE DEF E
    <2> QED
      BY <1>6, <2>1, <2>2
  <1>10. Since(Append(uf, g), g) = Without(Distinct(Reverse(uf)), E)
    <2> DEFINE j == Reverse(uf)
    <2>1. Reverse(Append(uf, g)) = <<g>> \o j /\ j \in Seq(Formats)
      BY <1>1, <1>4, ReverseIs
    <2> HIDE DEF j
    <2>2. Distinct(<<g>> \o j) = <<g>> \o Without(Distinct(j), {g})
      BY <2>1, DistinctCons
    <2>3. Distinct(Without(<<g>> \o j, E)) = Without(Distinct(<<g>> \o j), E)
      <3>1. <<g>> \o j \in Seq(Formats)
        BY <2>1
      <3> QED
        BY <3>1, DistinctWithout
    <2>4. Distinct(j) \in Seq(Formats)
      BY <2>1, DistinctTyped
    <2>8. \A D, F : Without(<<g>> \o Without(Distinct(j), D), F) =
                       IF g \in F THEN Without(Distinct(j), D \union F)
                       ELSE <<g>> \o Without(Distinct(j), D \union F)
      BY <2>4, WithoutCons
    <2>5. Without(<<g>> \o Without(Distinct(j), {g}), E) =
             IF g \in E THEN Without(Distinct(j), {g} \union E)
                        ELSE <<g>> \o Without(Distinct(j), {g} \union E)
      BY <2>8, Zenon
    <2>6. g \in E /\ {g} \union E = E
      OBVIOUS
    <2>7. Since(Append(uf, g), g) = Distinct(Without(<<g>> \o j, E))
      BY <2>1 DEF Since
    <2> HIDE DEF E
    <2> QED
      BY <2>2, <2>3, <2>5, <2>6, <2>7 DEF j
  <1>11. Distinct(Reverse(uf)) = <<f>> \o Without(R, {f})
    BY <1>2, <1>3
  <1>12. Since(Append(uf, g), g) = First(f, E, Without(Since(uf, f), {g}))
    <2> HIDE DEF E
    <2> QED
      BY <1>8, <1>9, <1>10, <1>11 DEF First
  <1> QED
    BY <1>6, <1>7, <1>12 DEF uf, R, k

\* How many formats the page offers at least, when as many were used.
Room(f) == IF f = NoFormat THEN MaxFormatHistory ELSE MaxFormatHistory - 1

\* The list that goes with the formats u, of which the last is current.
Recall(s, u) ==
    /\ \E v \in Seq(Formats) : u = Append(v, s.format)
    /\ IsPrefix(Listed(s), Since(u, s.format))
    /\ \/ Len(Listed(s)) >= Room(s.format)
       \/ Listed(s) = Since(u, s.format)

\* The page offers formats, and not the current one.
LEMMA OfferedIs ==
    ASSUME NEW s \in SettingsType, ~Contains(s.history, NoFormat)
    PROVE  /\ s.format \in Formats /\ s.history \in Seq(Formats)
           /\ Listed(s) \in Seq(Formats) /\ IsInjective(Listed(s))
           /\ ~Contains(Listed(s), NoFormat)
           /\ ~Contains(Listed(s), s.format)
  <1> DEFINE h == s.history
             f == s.format
             o == Without(h, {f})
  <1>1. h \in Seq(Formats) /\ f \in Formats
    BY DEF SettingsType
  <1>2. ~Contains(h, NoFormat) /\ Listed(s) = Distinct(o)
    BY DEF Listed, Offered
  <1> HIDE DEF h, f
  <1>3. o \in Seq(Formats)
    BY <1>1, WithoutTyped
  <1>4. /\ Contains(o, NoFormat)
              <=> Contains(h, NoFormat) /\ NoFormat \notin {f}
        /\ Contains(o, f) <=> Contains(h, f) /\ f \notin {f}
    BY <1>1, WithoutHas, Zenon
  <1> HIDE DEF o
  <1>5. /\ Distinct(o) \in Seq(Formats) /\ IsInjective(Distinct(o))
        /\ Contains(Distinct(o), NoFormat) <=> Contains(o, NoFormat)
        /\ Contains(Distinct(o), f) <=> Contains(o, f)
    BY <1>3, DistinctTyped, DistinctHas
  <1> QED
    BY <1>1, <1>2, <1>4, <1>5 DEF h, f

\* Choosing a format keeps the list that goes with the formats used: it
\* becomes Take of the list that the formats used would give.
LEMMA RecallMoves ==
    ASSUME NEW s \in SettingsType, ~Contains(s.history, NoFormat),
           NEW u, Recall(s, u), NEW g \in Formats,
           NEW new \in SettingsType, new.format = g,
           new.history = Take(Places(s, g)),
           ~Contains(new.history, g), IsInjective(new.history)
    PROVE  Recall(new, Append(u, g))
  <1> DEFINE f == s.format
             O == Listed(s)
             E == {NoFormat, g}
             P == Places(s, g)
             M == Since(u, f)
             N == Since(Append(u, g), g)
             WO == Without(O, {g})
             WM == Without(M, {g})
  <1>1. PICK v \in Seq(Formats) : u = Append(v, f)
    BY DEF Recall
  <1>2. /\ f \in Formats /\ O \in Seq(Formats) /\ IsInjective(O)
        /\ ~Contains(O, NoFormat) /\ ~Contains(O, f)
    BY OfferedIs
  <1>3. u \in Seq(Formats)
    BY <1>1, <1>2
  <1>4. M \in Seq(Formats) /\ N = First(f, E, WM)
    BY <1>1, <1>2, SinceMoves
  <1>5. P = First(f, E, WO)
    BY PlacesAre
  <1>6. IsPrefix(O, M) /\ (Len(O) >= Room(f) \/ O = M)
    BY DEF Recall
  <1>7. /\ new.format = g /\ new.history = Take(P) /\ ~Contains(Take(P), g)
        /\ IsInjective(Take(P))
    OBVIOUS
  <1>8. Listed(new) = Distinct(Without(Take(P), {g}))
    BY <1>7 DEF Listed, Offered
  <1> HIDE DEF O, P, M, N, f
  <1>9. WO \in Seq(Formats) /\ WM \in Seq(Formats)
    BY <1>2, <1>4, WithoutTyped
  <1>10. /\ <<>> \in Seq(Formats) /\ <<f>> \in Seq(Formats)
         /\ <<>> \o WO = WO /\ <<>> \o WM = WM
         /\ <<f>> \o WO \in Seq(Formats) /\ <<f>> \o WM \in Seq(Formats)
    BY <1>2, <1>9
  <1>11. IsPrefix(P, N) /\ P \in Seq(Formats) /\ N \in Seq(Formats)
    <2>1. CASE f \in E
      <3>1. P = WO /\ N = WM
        BY <2>1, <1>4, <1>5 DEF First
      <3>2. IsPrefix(<<>> \o WO, <<>> \o WM)
        BY <1>2, <1>4, <1>6, <1>10, PrefixWithout
      <3> QED
        BY <3>1, <3>2, <1>9, <1>10
    <2>2. CASE f \notin E
      <3>1. P = <<f>> \o WO /\ N = <<f>> \o WM
        BY <2>2, <1>4, <1>5 DEF First
      <3>2. IsPrefix(<<f>> \o WO, <<f>> \o WM)
        BY <1>2, <1>4, <1>6, <1>10, PrefixWithout
      <3> QED
        BY <3>1, <3>2, <1>10
    <2> QED
      BY <2>1, <2>2
  <1>12. /\ Take(P) \in Seq(Formats) /\ IsPrefix(Take(P), N)
         /\ Len(Take(P)) = IF Len(P) <= MaxFormatHistory
                           THEN Len(P) ELSE MaxFormatHistory
         /\ Len(P) <= MaxFormatHistory => Take(P) = P
    BY <1>11, TakeIs, TakePrefix
  <1>13. Listed(new) = Take(P)
    <2>1. \A y \in {g} : ~Contains(Take(P), y)
      BY <1>7
    <2>2. Without(Take(P), {g}) = Take(P)
      BY <1>12, <2>1, NoneAway
    <2> QED
      BY <1>7, <1>8, <1>12, <2>2, DistinctAlready
  <1>14. /\ MaxFormatHistory \in Nat /\ Len(P) \in Nat /\ Len(O) \in Nat
         /\ Len(WO) \in Nat /\ Len(<<f>> \o WO) = Len(WO) + 1
    BY <1>2, <1>9, <1>11, SettingsAssumption
  <1>15. Room(g) <= MaxFormatHistory /\ Room(f) \in Int /\ Room(g) \in Int
    BY <1>14 DEF Room
  <1>16. ASSUME Len(O) >= Room(f)
         PROVE  Len(P) >= Room(g)
    <2>1. Len(WO) >= Len(O) - 1
      BY <1>2, OneLess
    <2>2. g = NoFormat \/ g = f => WO = O
      <3>1. ASSUME g = NoFormat \/ g = f
            PROVE  \A y \in {g} : ~Contains(O, y)
        BY <1>2, <3>1
      <3> QED
        BY <1>2, <3>1, NoneAway
    <2>3. CASE f \in E
      <3>1. P = WO /\ (f = NoFormat \/ f = g)
        BY <2>3, <1>5 DEF First
      <3>2. CASE f = NoFormat
        <4>1. CASE g = NoFormat
          BY <3>1, <3>2, <4>1, <2>2, <1>14, <1>16 DEF Room
        <4>2. CASE g # NoFormat
          BY <3>1, <3>2, <4>2, <2>1, <1>14, <1>16 DEF Room
        <4> QED
          BY <4>1, <4>2
      <3>3. CASE f = g
        BY <3>1, <3>3, <2>2, <1>14, <1>16 DEF Room
      <3> QED
        BY <3>1, <3>2, <3>3
    <2>4. CASE f \notin E
      <3>1. Len(P) = Len(WO) + 1 /\ f # NoFormat
        BY <2>4, <1>5, <1>14 DEF First
      <3>2. CASE g = NoFormat
        BY <3>1, <3>2, <2>2, <1>14, <1>16 DEF Room
      <3>3. CASE g # NoFormat
        BY <3>1, <3>3, <2>1, <1>14, <1>16 DEF Room
      <3> QED
        BY <3>2, <3>3
    <2> QED
      BY <2>3, <2>4
  <1>17. ASSUME O = M
         PROVE  P = N
    BY <1>17, <1>4, <1>5
  <1>18. Len(Take(P)) >= Room(g) \/ Take(P) = N
    <2>1. CASE Len(O) >= Room(f)
      BY <2>1, <1>12, <1>14, <1>15, <1>16
    <2>2. CASE O = M
      <3>1. CASE Len(P) <= MaxFormatHistory
        BY <2>2, <3>1, <1>12, <1>17
      <3>2. CASE ~(Len(P) <= MaxFormatHistory)
        BY <3>2, <1>12, <1>14, <1>15
      <3> QED
        BY <3>1, <3>2
    <2> QED
      BY <1>6, <2>1, <2>2
  <1>19. \E x \in Seq(Formats) : Append(u, g) = Append(x, new.format)
    BY <1>3, <1>7
  <1> QED
    BY <1>7, <1>12, <1>13, <1>18, <1>19 DEF Recall, N

\* What was loaded goes with the formats that it is taken to come from.
LEMMA RecallUses ==
    ASSUME NEW s \in SettingsType, ~Contains(s.history, NoFormat)
    PROVE  Recall(s, Uses(s))
  <1> DEFINE f == s.format
             h == s.history
             v == Reverse(h)
             M == Since(Uses(s), f)
             k == Distinct(h)
  <1>1. f \in Formats /\ h \in Seq(Formats) /\ ~Contains(h, NoFormat)
    BY OfferedIs
  <1>2. /\ Listed(s) = Distinct(Without(h, {f}))
        /\ Uses(s) = Reverse(<<f>> \o h)
    BY DEF Listed, Offered, Uses
  <1>3. s.format = f
    OBVIOUS
  <1> HIDE DEF f, h
  <1>4. v \in Seq(Formats) /\ Uses(s) = Append(v, f) /\ Reverse(v) = h
    BY <1>1, <1>2, ReverseIs
  <1> HIDE DEF v
  <1>5. Since(Append(v, f), f) =
           Without(Distinct(Reverse(v)), {f} \union {NoFormat, f})
    BY <1>1, <1>4, SinceMoves
  <1>6. /\ k \in Seq(Formats) /\ ~Contains(k, NoFormat)
        /\ Listed(s) = Without(k, {f})
    BY <1>1, <1>2, DistinctTyped, DistinctHas, DistinctWithout
  <1>7. M = Without(k, {f} \union {NoFormat, f})
    BY <1>4, <1>5
  <1> HIDE DEF k
  <1>8. Without(k, {f} \union {NoFormat, f}) = Without(k, {f})
    <2>1. \A y \in {NoFormat} : ~Contains(k, y)
      BY <1>6
    <2>2. Without(k, {NoFormat}) = k
      BY <1>6, <2>1, NoneAway
    <2>3. Without(Without(k, {NoFormat}), {f}) =
             Without(k, {NoFormat} \union {f})
      BY <1>6, WithoutBoth
    <2>4. {NoFormat} \union {f} = {f} \union {NoFormat, f}
      OBVIOUS
    <2> QED
      BY <2>2, <2>3, <2>4
  <1>9. Listed(s) \in Seq(Formats) /\ Listed(s) = M
    BY <1>6, <1>7, <1>8, WithoutTyped
  <1> HIDE DEF M
  <1>10. IsPrefix(Listed(s), M)
    <2> DEFINE o == Listed(s)
    <2>1. o \in Seq(Formats) /\ o = M
      BY <1>9
    <2> HIDE DEF o
    <2>2. Len(o) <= Len(o) /\ \A i \in 1..Len(o) : o[i] = o[i]
      BY <2>1
    <2> QED
      BY <2>1, <2>2, PrefixIs DEF o
  <1> QED
    BY <1>3, <1>4, <1>9, <1>10 DEF Recall, M

-----------------------------------------------------------------------------
(* Types                                                                   *)

\* Types of the variables.
Stages == {"closed", "starting", "scripted", "interactive", "closing"}
Asks == [force : BOOLEAN, now : Days, tag : {0} \union Releases]
Installs == [at : {"none", "asks", "headers", "body", "launches"},
             tag : {0} \union Releases]
Fetching == {"headers", "body", "launches"}

\* The types of the variables, and what a closed WinDV does not have.
Typed ==
    /\ settings \in SettingsType /\ ~Contains(settings.history, NoFormat)
    /\ registry \in RegistryType
    /\ stage \in Stages /\ notice \in {0} \union Releases
    /\ asks \in Seq(Asks) /\ Len(asks) <= MaxAsks
    /\ install \in Installs /\ hops \in 0..MaxRedirects
    /\ install.at \in Fetching => install.tag \in Releases
    /\ current \in Releases /\ published \in Releases
    /\ installers \in Seq(Releases) /\ day \in Days
    /\ stage = "closed" => notice = 0 /\ asks = <<>>

\* The bounds, and the numbers within them.
LEMMA Bounds ==
    /\ MaxRelease \in Nat \ {0} /\ MaxDay \in Nat \ {0}
    /\ MaxAsks \in Nat /\ MaxRedirects \in Nat
    /\ 1 \in Releases /\ 1 \in Days
    /\ \A x : x \in {0} \union Releases <=> x \in 0..MaxRelease
    /\ \A x : x \in Days => x \in 0..MaxDay
  BY UpdatesAssumption DEF Releases, Days

\* A list with one entry removed.
LEMMA OneAway ==
    ASSUME NEW S, NEW l \in Seq(S), NEW i \in DOMAIN l
    PROVE  /\ RemoveAt(l, i) \in Seq(S)
           /\ Len(RemoveAt(l, i)) <= Len(l)
           /\ l[i] \in S
  <1> DEFINE a == SubSeq(l, 1, i - 1)
             b == SubSeq(l, i + 1, Len(l))
  <1>1. i \in 1..Len(l) /\ Len(l) \in Nat /\ l[i] \in S
    OBVIOUS
  <1>2. /\ a \in Seq(S) /\ Len(a) = i - 1
        /\ b \in Seq(S) /\ Len(b) = Len(l) - i
    BY <1>1
  <1> HIDE DEF a, b
  <1>3. a \o b \in Seq(S) /\ Len(a \o b) = Len(a) + Len(b)
    <2>1. a \in Seq(S) /\ b \in Seq(S)
      BY <1>2
    <2> QED
      BY <2>1
  <1>4. RemoveAt(l, i) = a \o b
    BY DEF RemoveAt, a, b
  <1> QED
    BY <1>1, <1>2, <1>3, <1>4

\* The requests when one of them is over.
LEMMA OneAskLess ==
    ASSUME asks \in Seq(Asks), Len(asks) <= MaxAsks, NEW i \in DOMAIN asks
    PROVE  /\ RemoveAt(asks, i) \in Seq(Asks)
           /\ Len(RemoveAt(asks, i)) <= MaxAsks
           /\ asks[i] \in Asks /\ asks # <<>>
  <1>1. /\ RemoveAt(asks, i) \in Seq(Asks)
        /\ Len(RemoveAt(asks, i)) <= Len(asks) /\ asks[i] \in Asks
    BY OneAway, Zenon
  <1>2. /\ MaxAsks \in Nat /\ Len(asks) \in Nat
        /\ Len(RemoveAt(asks, i)) \in Nat
    BY <1>1, Bounds
  <1>3. asks # <<>>
    OBVIOUS
  <1> QED
    BY <1>1, <1>2, <1>3

\* What a check leaves of the notice and the requests.
LEMMA ChecksTyped ==
    ASSUME NEW s \in SettingsType, NEW force \in BOOLEAN, Typed,
           CheckForUpdates(s, force)
    PROVE  /\ notice' \in {0} \union Releases
           /\ asks' \in Seq(Asks) /\ Len(asks') <= MaxAsks
  <1>1. s.latest \in {0} \union Releases
    <2>1. s.latest \in 0..MaxRelease
      BY DEF SettingsType
    <2> QED
      BY <2>1, Bounds
  <1>2. CASE notice' = notice /\ asks' = asks
    BY <1>2 DEF Typed
  <1>3. CASE /\ notice' = ShowKnownUpdate(s, notice)
             /\ asks' = asks
    <2>1. notice' \in {0} \union Releases
      BY <1>1, <1>3 DEF ShowKnownUpdate, Typed
    <2> QED
      BY <1>3, <2>1 DEF Typed
  <1>4. CASE /\ notice' = ShowKnownUpdate(s, notice)
             /\ Len(asks) < MaxAsks
             /\ asks' = Append(asks, [force |-> force, now |-> day, tag |-> 0])
    <2>1. notice' \in {0} \union Releases
      BY <1>1, <1>4 DEF ShowKnownUpdate, Typed
    <2> DEFINE a == [force |-> force, now |-> day, tag |-> 0]
    <2>2. a \in Asks
      BY DEF Typed, Asks
    <2> HIDE DEF a
    <2>3. asks' = Append(asks, a)
      BY <1>4 DEF a
    <2>4. asks \in Seq(Asks) /\ MaxAsks \in Nat
      BY Bounds DEF Typed
    <2>5. asks' \in Seq(Asks) /\ Len(asks') = Len(asks) + 1
      BY <2>2, <2>3, <2>4
    <2>6. Len(asks') <= MaxAsks
      BY <1>4, <2>4, <2>5
    <2> QED
      BY <2>1, <2>5, <2>6
  <1> QED
    BY <1>2, <1>3, <1>4 DEF CheckForUpdates

\* The types hold of what is there at first.
LEMMA TypedInit == Init => Typed
  <1> SUFFICES ASSUME Init PROVE Typed
    OBVIOUS
  <1>1. registry \in RegistryType
    BY UpdatesAssumption DEF Init, StoredSettings, RegistryType
  <1>2. settings = Load(registry)
    BY DEF Init
  <1>3. settings \in SettingsType /\ ~Contains(settings.history, NoFormat)
    BY <1>1, <1>2, LoadTyped
  <1>4. /\ stage = "closed" /\ notice = 0 /\ asks = <<>>
        /\ install = NoInstall /\ hops = 0 /\ current = 1
        /\ installers = <<>> /\ published = 1 /\ day = 1
    BY DEF Init
  <1>5. /\ asks \in Seq(Asks) /\ Len(asks) <= MaxAsks
        /\ installers \in Seq(Releases) /\ hops \in 0..MaxRedirects
    BY <1>4, Bounds
  <1>6. install \in Installs /\ install.at \notin Fetching
    BY <1>4 DEF NoInstall, Installs, Fetching
  <1> QED
    BY <1>1, <1>3, <1>4, <1>5, <1>6, Bounds DEF Typed, Stages

\* The actions that change the settings or the registry.
LEMMA TypedSettings ==
    ASSUME Typed,
           \/ Start
           \/ \E page \in Pages : SavePage(page)
           \/ \E i \in DOMAIN asks : Answer(i)
           \/ DismissUpdate
           \/ \E n \in 0..Len(SaveOrder) : Shutdown(n)
    PROVE  Typed'
  <1>1. CASE Start
    <2>1. /\ Load(registry) \in SettingsType
          /\ ~Contains(Load(registry).history, NoFormat)
      BY LoadTyped DEF Typed
    <2>2. settings' = Load(registry) /\ stage' = "starting"
          /\ UNCHANGED <<registry, notice, asks, install, hops, current,
                         installers, published, day>>
      BY <1>1 DEF Start, world
    <2> QED
      BY <2>1, <2>2 DEF Typed, Stages
  <1>2. ASSUME NEW page \in Pages, SavePage(page)
        PROVE  Typed'
    <2> DEFINE s == FromPage(settings, page)
    <2>1. settings \in SettingsType
      BY DEF Typed
    <2>2. s \in SettingsType /\ ~Contains(s.history, NoFormat)
      BY <2>1, FromPageIs
    <2>3. /\ Up /\ settings' = s
          /\ UNCHANGED <<registry, stage, install, hops, current, installers,
                         published, day>>
          /\ \/ notice' = 0 /\ asks' = asks
             \/ CheckForUpdates(s, FALSE)
             \/ notice' = notice /\ asks' = asks
      BY <1>2 DEF SavePage, world
    <2> HIDE DEF s
    <2>4. /\ notice' \in {0} \union Releases
          /\ asks' \in Seq(Asks) /\ Len(asks') <= MaxAsks
      BY <2>2, <2>3, ChecksTyped DEF Typed
    <2> QED
      BY <2>2, <2>3, <2>4 DEF Typed, Up
  <1>3. ASSUME NEW i \in DOMAIN asks, Answer(i)
        PROVE  Typed'
    <2> DEFINE s == [settings EXCEPT !.last = asks[i].now,
                                     !.latest = asks[i].tag]
    <2>1. /\ RemoveAt(asks, i) \in Seq(Asks)
          /\ Len(RemoveAt(asks, i)) <= MaxAsks
          /\ asks[i] \in Asks /\ asks # <<>>
      BY OneAskLess DEF Typed
    <2>2. asks[i].now \in 0..MaxDay /\ asks[i].tag \in 0..MaxRelease
      BY <2>1, Bounds DEF Asks
    <2>3. s \in SettingsType /\ s.history = settings.history
          /\ s.latest = asks[i].tag
      BY <2>2 DEF Typed, SettingsType
    <2>4. /\ settings' = s /\ notice' = ShowKnownUpdate(s, notice)
          /\ asks' = RemoveAt(asks, i)
          /\ UNCHANGED <<stage, registry, install, hops, current, installers,
                         published, day>>
      BY <1>3 DEF Answer, world
    <2> HIDE DEF s
    <2>5. notice' \in {0} \union Releases
      BY <2>2, <2>3, <2>4, Bounds DEF ShowKnownUpdate, Typed
    <2>6. stage # "closed"
      BY <2>1 DEF Typed
    <2> QED
      BY <2>1, <2>3, <2>4, <2>5, <2>6 DEF Typed
  <1>4. CASE DismissUpdate
    <2> DEFINE s == [settings EXCEPT !.dismissed = settings.latest]
    <2>1. s \in SettingsType /\ s.history = settings.history
      BY DEF Typed, SettingsType
    <2>2. /\ settings' = s /\ notice' = 0
          /\ UNCHANGED <<stage, asks, install, hops, registry, current,
                         installers, published, day>>
      BY <1>4 DEF DismissUpdate, world
    <2> HIDE DEF s
    <2> QED
      BY <2>1, <2>2 DEF Typed
  <1>5. ASSUME NEW n \in 0..Len(SaveOrder), Shutdown(n)
        PROVE  Typed'
    <2>1. Save(registry, settings, n) \in RegistryType
      BY SaveIs DEF Typed
    <2>2. /\ registry' = Save(registry, settings, n)
          /\ stage' = "closed" /\ notice' = 0 /\ asks' = <<>>
          /\ install' = NoInstall /\ hops' = 0
          /\ UNCHANGED <<settings, current, installers, published, day>>
      BY <1>5 DEF Shutdown, Ends
    <2>3. /\ asks' \in Seq(Asks) /\ Len(asks') <= MaxAsks
          /\ hops' \in 0..MaxRedirects
      BY <2>2, Bounds
    <2>4. install' \in Installs /\ install'.at \notin Fetching
      BY <2>2 DEF NoInstall, Installs, Fetching
    <2> QED
      BY <2>1, <2>2, <2>3, <2>4 DEF Typed, Stages
  <1> QED
    BY <1>1, <1>2, <1>3, <1>4, <1>5

\* The other actions of the process.
LEMMA TypedProcess ==
    ASSUME Typed,
           \/ Loaded \/ CloseWindow \/ EndUnsaved \/ CheckNow
           \/ \E i \in DOMAIN asks : Serve(i) \/ CheckFailed(i)
    PROVE  Typed'
  <1>1. CASE Loaded
    <2>1. /\ stage' \in {"scripted", "interactive"}
          /\ UNCHANGED <<settings, install, hops, registry, current,
                         installers, published, day>>
          /\ \/ notice' = notice /\ asks' = asks
             \/ CheckForUpdates(settings, FALSE)
      BY <1>1 DEF Loaded, world
    <2>2. settings \in SettingsType
      BY DEF Typed
    <2>3. /\ notice' \in {0} \union Releases
          /\ asks' \in Seq(Asks) /\ Len(asks') <= MaxAsks
      BY <2>1, <2>2, ChecksTyped DEF Typed
    <2> QED
      BY <2>1, <2>3 DEF Typed, Stages
  <1>2. CASE CloseWindow
    BY <1>2 DEF CloseWindow, Typed, Stages, world
  <1>3. CASE EndUnsaved
    <2>2. /\ stage' = "closed" /\ notice' = 0 /\ asks' = <<>>
          /\ install' = NoInstall /\ hops' = 0
          /\ UNCHANGED <<registry, settings, current, installers, published,
                         day>>
      BY <1>3 DEF EndUnsaved, Ends, world
    <2>3. /\ asks' \in Seq(Asks) /\ Len(asks') <= MaxAsks
          /\ hops' \in 0..MaxRedirects
      BY <2>2, Bounds
    <2>4. install' \in Installs /\ install'.at \notin Fetching
      BY <2>2 DEF NoInstall, Installs, Fetching
    <2> QED
      BY <2>2, <2>3, <2>4 DEF Typed, Stages
  <1>4. CASE CheckNow
    <2>1. /\ Up /\ CheckForUpdates(settings, TRUE)
          /\ UNCHANGED <<settings, stage, install, hops, registry, current,
                         installers, published, day>>
      BY <1>4 DEF CheckNow, world
    <2>2. settings \in SettingsType
      BY DEF Typed
    <2>3. /\ notice' \in {0} \union Releases
          /\ asks' \in Seq(Asks) /\ Len(asks') <= MaxAsks
      BY <2>1, <2>2, ChecksTyped
    <2> QED
      BY <2>1, <2>3 DEF Typed, Up
  <1>5. ASSUME NEW i \in DOMAIN asks, Serve(i)
        PROVE  Typed'
    <2>1. /\ asks' = [asks EXCEPT ![i].tag = published]
          /\ UNCHANGED <<settings, stage, notice, install, hops, registry,
                         current, installers, published, day>>
      BY <1>5 DEF Serve, world
    <2>2. asks \in Seq(Asks) /\ published \in Releases /\ asks[i] \in Asks
          /\ asks # <<>>
      BY DEF Typed
    <2> DEFINE a == [asks[i] EXCEPT !.tag = published]
    <2>3. a \in Asks
      BY <2>2 DEF Asks
    <2> HIDE DEF a
    <2>4. asks' = [asks EXCEPT ![i] = a]
      BY <2>1 DEF a
    <2>5. asks' \in Seq(Asks) /\ Len(asks') = Len(asks)
      BY <2>2, <2>3, <2>4
    <2> QED
      BY <2>1, <2>2, <2>5 DEF Typed
  <1>6. ASSUME NEW i \in DOMAIN asks, CheckFailed(i)
        PROVE  Typed'
    <2>1. /\ RemoveAt(asks, i) \in Seq(Asks)
          /\ Len(RemoveAt(asks, i)) <= MaxAsks
          /\ asks[i] \in Asks /\ asks # <<>>
      BY OneAskLess DEF Typed
    <2>2. /\ asks' = RemoveAt(asks, i)
          /\ UNCHANGED <<settings, stage, notice, install, hops, registry,
                         current, installers, published, day>>
      BY <1>6 DEF CheckFailed, world
    <2> QED
      BY <2>1, <2>2 DEF Typed
  <1> QED
    BY <1>1, <1>2, <1>3, <1>4, <1>5, <1>6

\* The actions of an installation, and of the world.
LEMMA TypedInstall ==
    ASSUME Typed,
           \/ InstallUpdate \/ InstallFails \/ Download
           \/ \E host \in Hosts : Redirect(host)
           \/ Headers \/ Downloaded \/ Launch
           \/ \E i \in DOMAIN installers : InstallerEnds(i)
           \/ Publish \/ SetClock
    PROVE  Typed'
  <1>0. /\ NoInstall \in Installs /\ NoInstall.at \notin Fetching
        /\ 0 \in 0..MaxRedirects
    BY Bounds DEF NoInstall, Installs, Fetching
  <1>1. CASE InstallUpdate
    <2>1. /\ install' = [at |-> "asks", tag |-> 0]
          /\ UNCHANGED <<settings, stage, notice, asks, hops, registry,
                         current, installers, published, day>>
      BY <1>1 DEF InstallUpdate, world
    <2>2. install' \in Installs /\ install'.at \notin Fetching
      BY <2>1 DEF Installs, Fetching
    <2> QED
      BY <2>1, <2>2 DEF Typed
  <1>2. CASE InstallFails
    <2>1. /\ install' = NoInstall /\ hops' = 0
          /\ UNCHANGED <<settings, stage, notice, asks, registry,
                         current, installers, published, day>>
      BY <1>2 DEF InstallFails, world
    <2> QED
      BY <1>0, <2>1 DEF Typed
  <1>3. CASE Download
    <2>1. /\ install' = [at |-> "headers", tag |-> published]
          /\ UNCHANGED <<settings, stage, notice, asks, hops, registry,
                         current, installers, published, day>>
      BY <1>3 DEF Download, world
    <2>2. install' \in Installs /\ install'.tag \in Releases
      BY <2>1 DEF Installs, Typed
    <2> QED
      BY <2>1, <2>2 DEF Typed
  <1>4. ASSUME NEW host \in Hosts, Redirect(host)
        PROVE  Typed'
    <2>1. /\ \/ hops < MaxRedirects /\ hops' = hops + 1 /\ install' = install
             \/ hops' = 0 /\ install' = NoInstall
          /\ UNCHANGED <<settings, stage, notice, asks, registry,
                         current, installers, published, day>>
      BY <1>4 DEF Redirect, world
    <2>2. hops' \in 0..MaxRedirects
      BY <2>1, Bounds DEF Typed
    <2>3. install' \in Installs
          /\ (install'.at \in Fetching => install'.tag \in Releases)
      BY <1>0, <2>1 DEF Typed
    <2> QED
      BY <2>1, <2>2, <2>3 DEF Typed
  <1>5. ASSUME NEW where \in {"body", "launches"},
               install' = [install EXCEPT !.at = where],
               install.at \in Fetching,
               UNCHANGED <<settings, stage, notice, asks, hops, registry,
                           current, installers, published, day>>
        PROVE  Typed'
    <2>1. install' \in Installs /\ install'.tag = install.tag
      BY <1>5 DEF Typed, Installs
    <2>2. install'.tag \in Releases
      BY <1>5, <2>1 DEF Typed
    <2> QED
      BY <1>5, <2>1, <2>2 DEF Typed
  <1>6. CASE Headers
    BY <1>5, <1>6 DEF Headers, world, Fetching
  <1>7. CASE Downloaded
    BY <1>5, <1>7 DEF Downloaded, world, Fetching
  <1>9. CASE Launch
    <2>1. /\ install.at \in Fetching /\ stage' = "closing"
          /\ installers' = Append(installers, install.tag)
          /\ install' = NoInstall /\ hops' = 0
          /\ UNCHANGED <<settings, notice, asks, registry, current,
                         published, day>>
      BY <1>9 DEF Launch, Fetching
    <2>2. installers' \in Seq(Releases)
      BY <2>1 DEF Typed
    <2> QED
      BY <1>0, <2>1, <2>2 DEF Typed, Stages
  <1>10. ASSUME NEW i \in DOMAIN installers, InstallerEnds(i)
         PROVE  Typed'
    <2>1. /\ installers' = RemoveAt(installers, i)
          /\ current' \in {current, installers[i]}
          /\ UNCHANGED <<settings, stage, notice, asks, install, hops,
                         registry, published, day>>
      BY <1>10 DEF InstallerEnds, process
    <2>2. installers \in Seq(Releases) /\ current \in Releases
      BY DEF Typed
    <2>3. RemoveAt(installers, i) \in Seq(Releases)
          /\ installers[i] \in Releases
      BY <2>2, OneAway, Zenon
    <2> QED
      BY <2>1, <2>2, <2>3 DEF Typed
  <1>11. CASE Publish
    <2>1. /\ published < MaxRelease /\ published' = published + 1
          /\ UNCHANGED <<settings, stage, notice, asks, install, hops,
                         registry, current, installers, day>>
      BY <1>11 DEF Publish, process
    <2>2. published' \in Releases
      BY <2>1, Bounds DEF Typed, Releases
    <2> QED
      BY <2>1, <2>2 DEF Typed
  <1>12. CASE SetClock
    <2>1. /\ day' \in Days
          /\ UNCHANGED <<settings, stage, notice, asks, install, hops,
                         registry, current, installers, published>>
      BY <1>12 DEF SetClock, process
    <2> QED
      BY <2>1 DEF Typed
  <1> QED
    BY <1>1, <1>2, <1>3, <1>4, <1>6, <1>7, <1>9, <1>10, <1>11, <1>12

\* Every step keeps the types.
LEMMA TypedStep == Typed /\ [Next]_vars => Typed'
  <1> SUFFICES ASSUME Typed, [Next]_vars PROVE Typed'
    OBVIOUS
  <1>1. CASE vars' = vars
    BY <1>1 DEF Typed, vars, process, world, history
  <1>2. CASE Next
    BY <1>2, TypedSettings, TypedProcess, TypedInstall DEF Next
  <1> QED
    BY <1>1, <1>2

\* A list that is not too long.
LEMMA Bounded ==
    ASSUME NEW S, NEW n \in Nat, NEW l \in Seq(S), Len(l) <= n
    PROVE  l \in BoundedSeq(S, n)
  <1>1. l \in [1..Len(l) -> S] /\ Len(l) \in Nat
    OBVIOUS
  <1>2. Len(l) \in 0..n
    BY <1>1
  <1> QED
    BY <1>1, <1>2, Zenon DEF BoundedSeq, SeqOf

\* The types imply the type invariant.
LEMMA TypedIsTypeOK == Typed => TypeOK
  <1> SUFFICES ASSUME Typed PROVE TypeOK
    OBVIOUS
  <1>1. settings.history \in Seq(Formats \ {NoFormat})
    <2> DEFINE h == settings.history
               F == Formats \ {NoFormat}
    <2>1. h \in Seq(Formats) /\ ~Contains(h, NoFormat)
      BY DEF Typed, SettingsType
    <2> HIDE DEF h
    <2>2. \A i \in 1..Len(h) : h[i] \in F
      BY <2>1 DEF Contains
    <2> HIDE DEF F
    <2>3. h \in Seq(F)
      BY <2>1, <2>2
    <2> QED
      BY <2>3 DEF h, F
  <1>2. /\ settings.format \in Formats
        /\ settings.loss \in 0..MaxSignalLossSeconds
        /\ settings.check \in BOOLEAN /\ settings.last \in 0..MaxDay
        /\ settings.latest \in {0} \union Releases
        /\ settings.dismissed \in {0} \union Releases
    <2>1. /\ settings.format \in Formats
          /\ settings.loss \in 0..MaxSignalLossSeconds
          /\ settings.check \in BOOLEAN /\ settings.last \in 0..MaxDay
          /\ settings.latest \in 0..MaxRelease
          /\ settings.dismissed \in 0..MaxRelease
      BY DEF Typed, SettingsType
    <2> QED
      BY <2>1, Bounds
  <1>3. /\ notice \in {0} \union Releases
        /\ install.tag \in {0} \union Releases
        /\ install.at \in {"none", "asks", "headers", "body", "launches"}
    BY DEF Typed, Installs
  <1>4. ToSet(installers) \subseteq Releases
    BY DEF Typed, ToSet
  <1>5. DOMAIN registry = DOMAIN Defaults
    BY DEF Typed, RegistryType, Defaults
  <1>6. asks \in BoundedSeq(Asks, MaxAsks)
    BY Bounds, Bounded DEF Typed
  <1> QED
    BY <1>1, <1>2, <1>3, <1>4, <1>5, <1>6 DEF TypeOK, Typed, Stages, Asks

\* Every variable keeps to its values, and the settings of a running WinDV
\* (SettingsStore.Load, Save_Click) to their ranges: numbers that were stored
\* are brought into theirs, and empty formats are left out of the history,
\* which may be stored with any length and with repeats.
THEOREM TypeCorrect == Spec => []TypeOK
  <1>1. Spec => []Typed
    BY TypedInit, TypedStep, PTL DEF Spec
  <1> QED
    BY <1>1, TypedIsTypeOK, PTL

-----------------------------------------------------------------------------
(* The notice                                                              *)

\* What is known of the notices closed: the last release is among them only
\* when it is the one that is noted.
Seen(s, c) ==
    /\ s.dismissed <= s.latest
    /\ s.dismissed # 0 => s.dismissed \in c
    /\ \A x \in c : x \in Releases /\ x <= s.latest
    /\ s.latest \in c => s.dismissed = s.latest

\* When ShowKnownUpdate shows the latest release.
Shown(s) == s.check /\ s.latest # s.dismissed /\ NewerThanCurrent(s.latest)

\* The notice, while no answer came after a later one.
InTime ==
    /\ Seen(settings, closed) /\ Seen(Load(registry), closedSaved)
    /\ Load(registry).latest <= settings.latest
    /\ notice # 0 => notice = settings.latest /\ Shown(settings)
    /\ stage = "interactive" => (Shown(settings) => notice = settings.latest)

Noticed == ~overtaken => InTime

\* The releases of some settings are numbers.
LEMMA Numbers ==
    ASSUME NEW s \in SettingsType
    PROVE  /\ s.latest \in Nat /\ s.dismissed \in Nat
           /\ s.latest <= MaxRelease /\ s.dismissed <= MaxRelease
           /\ s.check \in BOOLEAN
           /\ \A x : x \in Releases <=> x \in Nat /\ 1 <= x /\ x <= MaxRelease
  <1>1. /\ s.latest \in 0..MaxRelease /\ s.dismissed \in 0..MaxRelease
        /\ s.check \in BOOLEAN
    BY DEF SettingsType
  <1> QED
    BY <1>1, Bounds DEF Releases

\* The notice is right at first.
LEMMA NoticedInit == Init => Noticed
  <1> SUFFICES ASSUME Init PROVE InTime
    BY DEF Noticed
  <1>1. settings = Load(registry)
    BY DEF Init
  <1>2. Load(registry).dismissed <= Load(registry).latest
    BY UpdatesAssumption DEF Init, StoredSettings
  <1>3. settings \in SettingsType
    BY TypedInit DEF Typed
  <1>4. /\ stage = "closed" /\ notice = 0
        /\ closed = {settings.dismissed} \ {0} /\ closedSaved = closed
    BY DEF Init
  <1>5. Seen(settings, closed)
    BY <1>1, <1>2, <1>3, <1>4, Numbers DEF Seen
  <1>6. Seen(Load(registry), closedSaved)
    BY <1>1, <1>4, <1>5
  <1>7. Load(registry).latest <= settings.latest
    BY <1>1, <1>3, Numbers
  <1> QED
    BY <1>4, <1>5, <1>6, <1>7 DEF InTime

\* A later release is not among the notices closed.
LEMMA SeenLater ==
    ASSUME NEW s \in SettingsType, NEW new \in SettingsType, NEW c,
           Seen(s, c), s.latest <= new.latest, new.dismissed = s.dismissed
    PROVE  Seen(new, c)
  <1>1. /\ s.latest \in Nat /\ new.latest \in Nat /\ s.dismissed \in Nat
        /\ \A x : x \in Releases => x \in Nat
    BY Numbers
  <1>2. new.dismissed <= new.latest
    BY <1>1 DEF Seen
  <1>3. new.dismissed # 0 => new.dismissed \in c
    BY DEF Seen
  <1>4. \A x \in c : x \in Releases /\ x <= new.latest
    BY <1>1 DEF Seen
  <1>5. ASSUME new.latest \in c
        PROVE  new.dismissed = new.latest
    <2>1. new.latest <= s.latest
      BY <1>5 DEF Seen
    <2>2. new.latest = s.latest
      BY <1>1, <2>1
    <2> QED
      BY <1>5, <2>2 DEF Seen
  <1> QED
    BY <1>2, <1>3, <1>4, <1>5 DEF Seen

\* What only the notice and the stage see of a step.
LEMMA InTimeShows ==
    ASSUME Typed, Typed', InTime,
           UNCHANGED <<registry, closed, closedSaved, current>>,
           settings'.latest = settings.latest,
           settings'.dismissed = settings.dismissed,
           notice' # 0 => notice' = settings'.latest /\ Shown(settings)',
           stage' = "interactive" =>
              (Shown(settings)' => notice' = settings'.latest)
    PROVE  InTime'
  <1>1. settings \in SettingsType /\ settings' \in SettingsType
    BY DEF Typed
  <1>2. Seen(settings', closed')
    <2>1. settings.latest <= settings'.latest
      BY <1>1, Numbers
    <2>2. Seen(settings, closed)
      BY DEF InTime
    <2>3. Seen(settings', closed)
      BY <1>1, <2>1, <2>2, SeenLater
    <2> QED
      BY <2>3
  <1>3. Seen(Load(registry'), closedSaved')
    BY DEF InTime
  <1>4. Load(registry').latest <= settings'.latest
    BY DEF InTime
  <1> QED
    BY <1>2, <1>3, <1>4 DEF InTime

\* A check shows a release exactly when it is to be shown.
LEMMA ChecksShow ==
    ASSUME NEW s \in SettingsType, NEW force \in BOOLEAN,
           CheckForUpdates(s, force)
    PROVE  notice' = IF Shown(s) THEN s.latest ELSE notice
  <1>1. s.check \in BOOLEAN
    BY Numbers
  <1>2. ShowKnownUpdate(s, notice) = IF Shown(s) THEN s.latest ELSE notice
    BY DEF ShowKnownUpdate, Shown
  <1>3. CASE ~force /\ ~s.check
    BY <1>3 DEF CheckForUpdates, Shown
  <1>4. CASE ~(~force /\ ~s.check)
    BY <1>2, <1>4 DEF CheckForUpdates
  <1> QED
    BY <1>3, <1>4

\* A step that leaves the settings alone, with what Shown says of them.
LEMMA InTimeKeeps ==
    ASSUME Typed, Typed', InTime,
           UNCHANGED <<settings, registry, closed, closedSaved>>,
           \/ notice' = 0
           \/ notice' = notice /\ current' = current
           \/ notice' = settings.latest /\ Shown(settings)
              /\ current' = current,
           stage' = "interactive" =>
              (Shown(settings)' => notice' = settings'.latest)
    PROVE  InTime'
  <1>1. Seen(settings', closed') /\ Seen(Load(registry'), closedSaved')
    BY DEF InTime
  <1>2. Load(registry').latest <= settings'.latest
    BY DEF InTime
  <1>3. notice' # 0 => notice' = settings'.latest /\ Shown(settings)'
    <2>1. CASE notice' = 0
      BY <2>1
    <2>2. CASE notice' = notice /\ current' = current
      BY <2>2 DEF InTime, Shown, NewerThanCurrent
    <2>3. CASE notice' = settings.latest /\ Shown(settings)
               /\ current' = current
      BY <2>3 DEF Shown, NewerThanCurrent
    <2> QED
      BY <2>1, <2>2, <2>3
  <1> QED
    BY <1>1, <1>2, <1>3 DEF InTime

\* The actions that change the settings or the registry keep the notice
\* right: a start, the page, an answer, closing the notice, saving the first n
\* values.
LEMMA NoticedSettings ==
    ASSUME Typed, Typed', InTime, ~overtaken',
           \/ Start
           \/ \E page \in Pages : SavePage(page)
           \/ \E i \in DOMAIN asks : Answer(i)
           \/ DismissUpdate
           \/ \E n \in 0..Len(SaveOrder) : Shutdown(n)
    PROVE  InTime'
  <1>0. /\ settings \in SettingsType /\ settings' \in SettingsType
        /\ registry \in RegistryType
        /\ Load(registry) \in SettingsType
    BY LoadTyped DEF Typed
  <1>1. CASE Start
    <2>1. /\ settings' = Load(registry) /\ stage = "closed"
          /\ stage' = "starting" /\ closed' = closedSaved
          /\ UNCHANGED <<registry, notice, closedSaved, current>>
      BY <1>1 DEF Start, world
    <2>2. notice' = 0
      BY <2>1 DEF Typed
    <2>3. Load(registry').latest <= settings'.latest
      BY <1>0, <2>1, Numbers
    <2>4. Seen(settings', closed') /\ Seen(Load(registry'), closedSaved')
      BY <2>1 DEF InTime
    <2> QED
      BY <2>1, <2>2, <2>3, <2>4 DEF InTime
  <1>2. ASSUME NEW page \in Pages, SavePage(page)
        PROVE  InTime'
    <2> DEFINE s == FromPage(settings, page)
    <2>1. /\ s \in SettingsType /\ s.check = page.check
          /\ s.latest = settings.latest /\ s.dismissed = settings.dismissed
      BY <1>0, FromPageIs
    <2>2. /\ settings' = s
          /\ UNCHANGED <<registry, current, closed, closedSaved>>
          /\ IF ~s.check THEN notice' = 0
             ELSE IF notice = 0 THEN CheckForUpdates(s, FALSE)
             ELSE notice' = notice
      BY <1>2 DEF SavePage, world
    <2> HIDE DEF s
    <2>3. Shown(settings)' <=> Shown(s)
      BY <2>2 DEF Shown, NewerThanCurrent
    <2>4. CASE ~s.check
      <3>1. notice' = 0 /\ ~Shown(s)
        BY <2>2, <2>4 DEF Shown
      <3> QED
        BY <2>1, <2>2, <2>3, <3>1, InTimeShows
    <2>5. CASE s.check /\ notice = 0
      <3>1. notice' = IF Shown(s) THEN s.latest ELSE 0
        BY <2>1, <2>2, <2>5, ChecksShow
      <3> QED
        BY <2>1, <2>2, <2>3, <3>1, InTimeShows
    <2>6. CASE s.check /\ notice # 0
      <3>1. notice' = settings.latest /\ Shown(settings)
        BY <2>2, <2>6 DEF InTime
      <3>2. Shown(s)
        BY <2>1, <2>6, <3>1 DEF Shown
      <3> QED
        BY <2>1, <2>2, <2>3, <3>1, <3>2, InTimeShows
    <2> QED
      BY <2>4, <2>5, <2>6
  <1>3. ASSUME NEW i \in DOMAIN asks, Answer(i)
        PROVE  InTime'
    <2>1. asks[i] \in Asks
      BY OneAskLess DEF Typed
    <2> DEFINE t == asks[i].tag
               s == [settings EXCEPT !.last = asks[i].now, !.latest = t]
    <2>2. /\ settings' = s /\ notice' = ShowKnownUpdate(s, notice)
          /\ UNCHANGED <<stage, registry, current, closed, closedSaved>>
          /\ ~(t < settings.latest)
      BY <1>3 DEF Answer, world
    <2>3. /\ s.latest = t /\ s.dismissed = settings.dismissed
          /\ s.check = settings.check
      BY <1>0 DEF SettingsType
    <2>4. s \in SettingsType
      BY <1>0, <2>2
    <2> HIDE DEF s
    <2>5. /\ settings.latest \in Nat /\ t \in Nat
          /\ settings.dismissed \in Nat /\ Load(registry).latest \in Nat
      BY <1>0, <2>3, <2>4, Numbers
    <2>6. settings.latest <= s.latest
      BY <2>2, <2>3, <2>5
    <2>7. Seen(s, closed)
      BY <1>0, <2>3, <2>4, <2>6, SeenLater DEF InTime
    <2>8. Load(registry).latest <= s.latest
      BY <2>3, <2>5, <2>6 DEF InTime
    <2>9. Shown(settings)' <=> Shown(s)
      BY <2>2 DEF Shown, NewerThanCurrent
    <2>10. notice' = IF Shown(s) THEN s.latest ELSE notice
      BY <2>2 DEF ShowKnownUpdate, Shown
    <2>11. notice # 0 => Shown(s)
      <3>1. ASSUME notice # 0
            PROVE  Shown(s)
        <4>1. Shown(settings)
          BY <3>1 DEF InTime
        <4>2. NewerThanCurrent(t)
          <5>1. current \in Nat
            BY Bounds DEF Typed, Releases
          <5> QED
            BY <4>1, <5>1, <2>3, <2>5, <2>6 DEF Shown, NewerThanCurrent
        <4>3. t # s.dismissed
          <5>1. settings.latest # settings.dismissed
                /\ settings.dismissed <= settings.latest
            BY <4>1 DEF Shown, InTime, Seen
          <5> QED
            BY <5>1, <2>3, <2>5, <2>6
        <4> QED
          BY <4>1, <4>2, <4>3, <2>3 DEF Shown
      <3> QED
        BY <3>1
    <2>12. /\ notice' # 0 => notice' = settings'.latest /\ Shown(settings)'
           /\ stage' = "interactive" =>
                 (Shown(settings)' => notice' = settings'.latest)
      BY <2>2, <2>9, <2>10, <2>11
    <2>13. /\ Seen(settings', closed')
           /\ Seen(Load(registry'), closedSaved')
           /\ Load(registry').latest <= settings'.latest
      BY <2>2, <2>7, <2>8 DEF InTime
    <2> QED
      BY <2>12, <2>13 DEF InTime
  <1>4. CASE DismissUpdate
    <2> DEFINE s == [settings EXCEPT !.dismissed = settings.latest]
    <2>1. /\ notice # 0 /\ notice' = 0 /\ settings' = s
          /\ closed' = closed \union {notice}
          /\ UNCHANGED <<stage, registry, closedSaved, current>>
      BY <1>4 DEF DismissUpdate, world
    <2>2. s.latest = settings.latest /\ s.dismissed = settings.latest
      BY <1>0 DEF SettingsType
    <2> HIDE DEF s
    <2>3. notice = settings.latest /\ notice \in Releases
      BY <2>1 DEF InTime, Typed
    <2>4. settings.latest \in Nat
      BY <1>0, Numbers
    <2>5. Seen(s, closed \union {notice})
      BY <2>2, <2>3, <2>4 DEF Seen, InTime
    <2>6. /\ Load(registry).latest <= s.latest
          /\ Seen(Load(registry), closedSaved)
      BY <2>2 DEF InTime
    <2>7. ~Shown(settings)'
      BY <2>1, <2>2 DEF Shown
    <2> QED
      BY <2>1, <2>5, <2>6, <2>7 DEF InTime
  <1>5. ASSUME NEW n \in 0..Len(SaveOrder), Shutdown(n)
        PROVE  InTime'
    <2> DEFINE r == Save(registry, settings, n)
               l == Load(registry)
               new == Load(r)
    <2>1. /\ registry' = r /\ stage' = "closed" /\ notice' = 0
          /\ closedSaved' = IF n = Len(SaveOrder) THEN closed ELSE closedSaved
          /\ UNCHANGED <<settings, current, closed>>
      BY <1>5 DEF Shutdown, Ends
    <2>2. r \in RegistryType
      BY <1>0, SaveIs
    <2>3. /\ new.latest = Kth(6, n, settings.latest, l.latest)
          /\ new.dismissed = Kth(7, n, settings.dismissed, l.dismissed)
      BY <1>0, SavedLoads DEF Typed
    <2>4. new \in SettingsType
      BY <2>2, LoadTyped
    <2>5. n \in 0..7 /\ Len(SaveOrder) = 7
      BY DEF SaveOrder
    <2>6. /\ Seen(l, closedSaved) /\ Seen(settings, closed)
          /\ l.latest <= settings.latest
      BY DEF InTime
    <2>7. l \in SettingsType
      BY <1>0
    <2> HIDE DEF r, l, new
    <2>8. /\ settings.latest \in Nat /\ l.latest \in Nat
      BY <1>0, <2>7, Numbers
    <2>9. CASE n = 7
      <3>1. new.latest = settings.latest
            /\ new.dismissed = settings.dismissed
        BY <2>3, <2>9 DEF Kth
      <3>2. Seen(new, closed)
        <4>1. settings.latest <= new.latest
          BY <2>8, <3>1
        <4> QED
          BY <1>0, <2>4, <2>6, <3>1, <4>1, SeenLater
      <3>3. new.latest <= settings.latest
        BY <2>8, <3>1
      <3> QED
        BY <2>1, <2>5, <2>6, <2>9, <3>2, <3>3 DEF InTime, new
    <2>10. CASE n # 7
      <3>1. /\ new.dismissed = l.dismissed
            /\ new.latest = l.latest \/ new.latest = settings.latest
        BY <2>3, <2>5, <2>10 DEF Kth
      <3>2. l.latest <= new.latest /\ new.latest <= settings.latest
        BY <2>6, <2>8, <3>1
      <3>3. Seen(new, closedSaved)
        BY <2>4, <2>6, <2>7, <3>1, <3>2, SeenLater
      <3> QED
        BY <2>1, <2>5, <2>6, <2>10, <3>2, <3>3 DEF InTime, new
    <2> QED
      BY <2>9, <2>10
  <1> QED
    BY <1>1, <1>2, <1>3, <1>4, <1>5

\* So do the others.
LEMMA NoticedOthers ==
    ASSUME Typed, Typed', InTime,
           \/ Loaded \/ CloseWindow \/ EndUnsaved \/ CheckNow
           \/ \E i \in DOMAIN asks : Serve(i) \/ CheckFailed(i)
           \/ InstallUpdate \/ InstallFails \/ Download
           \/ \E host \in Hosts : Redirect(host)
           \/ Headers \/ Downloaded \/ Launch
           \/ \E i \in DOMAIN installers : InstallerEnds(i)
           \/ Publish \/ SetClock \/ vars' = vars
    PROVE  InTime'
  <1>0. settings \in SettingsType
    BY DEF Typed
  <1>1. CASE Loaded
    <2>1. /\ UNCHANGED <<settings, registry, closed, closedSaved, current>>
          /\ \/ stage' = "scripted" /\ notice' = notice
             \/ stage' = "interactive" /\ CheckForUpdates(settings, FALSE)
      BY <1>1 DEF Loaded, world, history
    <2>2. Shown(settings)' <=> Shown(settings)
      BY <2>1 DEF Shown, NewerThanCurrent
    <2>3. CASE stage' = "scripted" /\ notice' = notice
      BY <2>1, <2>3, InTimeKeeps
    <2>4. CASE stage' = "interactive" /\ CheckForUpdates(settings, FALSE)
      <3>1. notice' = IF Shown(settings) THEN settings.latest ELSE notice
        BY <1>0, <2>4, ChecksShow
      <3> QED
        BY <2>1, <2>2, <3>1, InTimeKeeps
    <2> QED
      BY <2>1, <2>3, <2>4
  <1>2. CASE CheckNow
    <2>1. /\ UNCHANGED <<settings, registry, closed, closedSaved, current>>
          /\ CheckForUpdates(settings, TRUE)
      BY <1>2 DEF CheckNow, world, history
    <2>2. Shown(settings)' <=> Shown(settings)
      BY <2>1 DEF Shown, NewerThanCurrent
    <2>3. notice' = IF Shown(settings) THEN settings.latest ELSE notice
      BY <1>0, <2>1, ChecksShow
    <2> QED
      BY <2>1, <2>2, <2>3, InTimeKeeps
  <1>3. CASE CloseWindow \/ Launch
    <2>1. /\ UNCHANGED <<settings, registry, closed, closedSaved, current,
                         notice>>
          /\ stage' = "closing"
      BY <1>3 DEF CloseWindow, Launch, world, history
    <2> QED
      BY <2>1, InTimeKeeps
  <1>4. CASE EndUnsaved
    <2>1. /\ UNCHANGED <<settings, registry, closed, closedSaved>>
          /\ notice' = 0 /\ stage' = "closed"
      BY <1>4 DEF EndUnsaved, Ends, world, history
    <2> QED
      BY <2>1, InTimeKeeps
  <1>5. ASSUME NEW i \in DOMAIN installers, InstallerEnds(i)
        PROVE  InTime'
    <2>1. /\ UNCHANGED <<settings, registry, closed, closedSaved, notice>>
          /\ stage = "closed" /\ stage' = stage
      BY <1>5 DEF InstallerEnds, process, history
    <2>2. notice' = 0
      BY <2>1 DEF Typed
    <2> QED
      BY <2>1, <2>2, InTimeKeeps
  <1>6. ASSUME UNCHANGED <<settings, registry, closed, closedSaved, notice,
                           current, stage>>
        PROVE  InTime'
    <2>1. stage' = "interactive" =>
             (Shown(settings)' => notice' = settings'.latest)
      BY <1>6 DEF InTime, Shown, NewerThanCurrent
    <2> QED
      BY <1>6, <2>1, InTimeKeeps
  <1>7. ASSUME NEW i \in DOMAIN asks, Serve(i) \/ CheckFailed(i)
        PROVE  InTime'
    BY <1>6, <1>7 DEF Serve, CheckFailed, world, history
  <1>8. CASE InstallUpdate \/ InstallFails \/ Download
    BY <1>6, <1>8 DEF InstallUpdate, InstallFails, Download, world, history
  <1>9. ASSUME NEW host \in Hosts, Redirect(host)
        PROVE  InTime'
    BY <1>6, <1>9 DEF Redirect, world, history
  <1>10. CASE Headers \/ Downloaded
    BY <1>6, <1>10
       DEF Headers, Downloaded, InstallFails, world, history
  <1>11. CASE Publish \/ SetClock
    BY <1>6, <1>11 DEF Publish, SetClock, process, history
  <1>12. CASE vars' = vars
    BY <1>6, <1>12 DEF vars, process, world, history
  <1> QED
    BY <1>1, <1>2, <1>3, <1>4, <1>5, <1>7, <1>8, <1>9, <1>10, <1>11, <1>12

\* Every step keeps the notice right.
LEMMA NoticedStep == Typed /\ Typed' /\ Noticed /\ [Next]_vars => Noticed'
  <1> SUFFICES ASSUME Typed, Typed', Noticed, [Next]_vars, ~overtaken'
               PROVE  InTime'
    BY DEF Noticed
  <1>1. ~overtaken
    BY DEF Next, vars, process, world, history, Start, Loaded, CloseWindow,
           EndUnsaved, Shutdown, SavePage, CheckNow, DismissUpdate, Serve,
           Answer, CheckFailed, InstallUpdate, InstallFails, Download,
           Redirect, Headers, Downloaded, Launch, InstallerEnds,
           Publish, SetClock
  <1>2. InTime
    BY <1>1 DEF Noticed
  <1> QED
    BY <1>2, NoticedSettings, NoticedOthers DEF Next

\* The invariant implies the property.
LEMMA InTimeIsNews == Typed /\ Noticed => NoticeIsNews
  <1> SUFFICES ASSUME Typed, InTime, stage = "interactive"
               PROVE  notice = IF /\ settings.check
                                  /\ NewerThanCurrent(settings.latest)
                                  /\ settings.latest \notin closed
                               THEN settings.latest ELSE 0
    BY DEF NoticeIsNews, Noticed
  <1>1. settings \in SettingsType /\ current \in Nat /\ current > 0
    BY Bounds DEF Typed, Releases
  <1>2. settings.latest \in Nat /\ settings.dismissed \in Nat
    BY <1>1, Numbers
  <1>3. notice # 0 => notice = settings.latest /\ Shown(settings)
    BY DEF InTime
  <1>4. Shown(settings) => notice = settings.latest
    BY DEF InTime
  <1>5. NewerThanCurrent(settings.latest) => settings.latest # 0
    BY <1>1, <1>2 DEF NewerThanCurrent
  <1>6. settings.latest # 0 =>
           (settings.latest \in closed
              <=> settings.latest = settings.dismissed)
    BY DEF InTime, Seen
  <1>7. Shown(settings) <=> /\ settings.check
                            /\ NewerThanCurrent(settings.latest)
                            /\ settings.latest \notin closed
    BY <1>5, <1>6 DEF Shown
  <1> QED
    BY <1>3, <1>4, <1>7

\* The update bar is there exactly for a release that is newer, known, not
\* closed before, and only while checking is on (MainViewModel.ShowKnownUpdate,
\* DismissUpdate, ApplySettings), over restarts, crashes and saving that breaks
\* off, with any number of requests under way, as long as no answer comes after
\* a later one.
THEOREM NoticesAreNews == Spec => []NoticeIsNews
  <1>1. Spec => [](Typed /\ Noticed)
    BY TypedInit, TypedStep, NoticedInit, NoticedStep, PTL DEF Spec
  <1> QED
    BY <1>1, InTimeIsNews, PTL

-----------------------------------------------------------------------------
(* The formats                                                             *)

\* The list in memory and the stored one.
Formatted ==
    ~torn => Recall(settings, used) /\ Recall(Load(registry), usedSaved)

\* The list goes with the formats used at first.
LEMMA FormattedInit == Init => Formatted
  <1> SUFFICES ASSUME Init PROVE Formatted
    OBVIOUS
  <1>1. settings \in SettingsType /\ ~Contains(settings.history, NoFormat)
    BY TypedInit DEF Typed
  <1>2. /\ settings = Load(registry) /\ used = Uses(settings)
        /\ usedSaved = used
    BY DEF Init
  <1>3. Recall(settings, used)
    BY <1>1, <1>2, RecallUses
  <1> QED
    BY <1>2, <1>3 DEF Formatted

\* Only the format and the history matter.
LEMMA RecallSame ==
    ASSUME NEW s, NEW new, NEW u, Recall(s, u),
           new.format = s.format, new.history = s.history
    PROVE  Recall(new, u)
  <1>1. Offered(new) = Offered(s)
    BY DEF Offered
  <1> QED
    BY <1>1 DEF Recall, Listed

\* What is stored when the window closes goes with what is to be found again.
LEMMA FormattedShutdown ==
    ASSUME Typed, Formatted, NEW n \in 0..Len(SaveOrder), Shutdown(n)
    PROVE  Formatted'
  <1> SUFFICES ASSUME ~torn'
               PROVE  /\ Recall(settings, used)'
                      /\ Recall(Load(registry), usedSaved)'
    BY DEF Formatted
  <1> DEFINE new == Load(Save(registry, settings, n))
             old == Load(registry)
  <1>1. /\ registry' = Save(registry, settings, n)
        /\ usedSaved' = CASE n = 0 -> usedSaved
                          [] n = 1 -> IF Torn(n) THEN Append(usedSaved,
                                                             settings.format)
                                      ELSE usedSaved
                          [] OTHER -> used
        /\ torn' = (torn \/ Torn(n))
        /\ UNCHANGED <<settings, used>>
    BY DEF Shutdown
  <1>2. ~torn /\ ~Torn(n)
    BY <1>1
  <1>3. /\ settings \in SettingsType /\ registry \in RegistryType
        /\ ~Contains(settings.history, NoFormat)
    BY DEF Typed
  <1>4. Recall(settings, used) /\ Recall(old, usedSaved)
    BY <1>2 DEF Formatted
  <1>5. /\ new.format = Kth(1, n, settings.format, old.format)
        /\ new.history = Kth(2, n, settings.history, old.history)
    BY <1>3, SavedLoads
  <1>6. n \in Nat
    BY DEF SaveOrder
  <1>7. n = 1 => settings.format = old.format
    BY <1>2 DEF Torn
  <1>8. Load(registry)' = new
    BY <1>1
  <1> HIDE DEF new, old
  <1>9. CASE n >= 2
    <2>1. new.format = settings.format /\ new.history = settings.history
      BY <1>5, <1>6, <1>9 DEF Kth
    <2>2. usedSaved' = used
      BY <1>1, <1>6, <1>9
    <2>3. Recall(new, used)
      BY <1>4, <2>1, RecallSame
    <2> QED
      BY <1>1, <1>4, <1>8, <2>2, <2>3
  <1>10. CASE n < 2
    <2>1. n = 0 \/ n = 1
      BY <1>6, <1>10
    <2>2. new.format = old.format /\ new.history = old.history
      BY <1>5, <1>7, <2>1 DEF Kth
    <2>3. usedSaved' = usedSaved
      BY <1>1, <1>2, <2>1
    <2>4. Recall(new, usedSaved)
      BY <1>4, <2>2, RecallSame
    <2> QED
      BY <1>1, <1>4, <1>8, <2>3, <2>4
  <1> QED
    BY <1>6, <1>9, <1>10

\* Every step keeps the list, in memory and as it is stored.
LEMMA FormattedStep ==
    Typed /\ Formatted /\ [Next]_vars => Formatted'
  <1> SUFFICES ASSUME Typed, Formatted, [Next]_vars PROVE Formatted'
    OBVIOUS
  <1>0. /\ settings \in SettingsType
        /\ ~Contains(settings.history, NoFormat)
        /\ ~torn => Recall(settings, used) /\ Recall(Load(registry), usedSaved)
    BY DEF Typed, Formatted
  <1>1. CASE Start
    BY <1>0, <1>1 DEF Start, Formatted, world
  <1>2. ASSUME NEW page \in Pages, SavePage(page)
        PROVE  Formatted'
    <2> DEFINE s == FromPage(settings, page)
               g == page.format
    <2>1. /\ s \in SettingsType /\ s.format = g /\ g \in Formats
          /\ s.history = Take(Places(settings, g))
          /\ ~Contains(s.history, g) /\ IsInjective(s.history)
      BY <1>0, FromPageIs
    <2>2. /\ settings' = s /\ used' = Append(used, g)
          /\ UNCHANGED <<registry, usedSaved, torn>>
      BY <1>2 DEF SavePage, world
    <2> HIDE DEF s, g
    <2>3. ~torn => Recall(s, Append(used, g))
      BY <1>0, <2>1, RecallMoves
    <2> QED
      BY <1>0, <2>2, <2>3 DEF Formatted
  <1>3. ASSUME NEW i \in DOMAIN asks, Answer(i)
        PROVE  Formatted'
    <2>1. /\ settings'.format = settings.format
          /\ settings'.history = settings.history
          /\ UNCHANGED <<registry, used, usedSaved, torn>>
      BY <1>0, <1>3 DEF Answer, world, SettingsType
    <2>2. ~torn => Recall(settings', used)
      BY <1>0, <2>1, RecallSame
    <2> QED
      BY <1>0, <2>1, <2>2 DEF Formatted
  <1>4. CASE DismissUpdate
    <2>1. /\ settings'.format = settings.format
          /\ settings'.history = settings.history
          /\ UNCHANGED <<registry, used, usedSaved, torn>>
      BY <1>0, <1>4 DEF DismissUpdate, world, SettingsType
    <2>2. ~torn => Recall(settings', used)
      BY <1>0, <2>1, RecallSame
    <2> QED
      BY <1>0, <2>1, <2>2 DEF Formatted
  <1>5. ASSUME NEW n \in 0..Len(SaveOrder), Shutdown(n)
        PROVE  Formatted'
    BY <1>5, FormattedShutdown
  <1>6. ASSUME UNCHANGED <<settings, registry, used, usedSaved, torn>>
        PROVE  Formatted'
    BY <1>0, <1>6 DEF Formatted
  <1>7. CASE Loaded \/ CloseWindow \/ EndUnsaved \/ CheckNow
    BY <1>6, <1>7 DEF Loaded, CloseWindow, EndUnsaved, CheckNow, world, history
  <1>8. ASSUME NEW i \in DOMAIN asks, Serve(i) \/ CheckFailed(i)
        PROVE  Formatted'
    BY <1>6, <1>8 DEF Serve, CheckFailed, world, history
  <1>9. CASE InstallUpdate \/ InstallFails \/ Download \/ Launch
    BY <1>6, <1>9
       DEF InstallUpdate, InstallFails, Download, Launch, world, history
  <1>10. ASSUME NEW host \in Hosts, Redirect(host)
        PROVE  Formatted'
    BY <1>6, <1>10 DEF Redirect, world, history
  <1>11. CASE Headers \/ Downloaded
    BY <1>6, <1>11
       DEF Headers, Downloaded, InstallFails, world, history
  <1>12. CASE Publish \/ SetClock
    BY <1>6, <1>12 DEF Publish, SetClock, process, history
  <1>13. ASSUME NEW i \in DOMAIN installers, InstallerEnds(i)
         PROVE  Formatted'
    BY <1>6, <1>13 DEF InstallerEnds, process, history
  <1>14. CASE vars' = vars
    BY <1>6, <1>14 DEF vars, process, world, history
  <1> QED
    BY <1>1, <1>2, <1>3, <1>4, <1>5, <1>7, <1>8, <1>9, <1>10, <1>11, <1>12,
       <1>13, <1>14 DEF Next

\* The invariant implies the property.
LEMMA FormattedIsRemembered == Typed /\ Formatted => FormatsRemembered
  <1> SUFFICES ASSUME Typed, Formatted, ~torn PROVE OffersRemembered
    BY DEF FormatsRemembered
  <1> DEFINE O == Listed(settings)
             R == Remembered
  <1>1. R = Since(used, settings.format)
    BY DEF Remembered, Since
  <1>2. /\ IsPrefix(O, R)
        /\ Len(O) >= Room(settings.format) \/ O = R
    BY <1>1 DEF Formatted, Recall
  <1>3. settings.format \in Formats /\ O \in Seq(Formats)
    BY OfferedIs DEF Typed
  <1>4. R \in Seq(Formats)
    <2>1. PICK v \in Seq(Formats) : used = Append(v, settings.format)
      BY DEF Formatted, Recall
    <2> QED
      BY <1>1, <1>3, <2>1, SinceMoves
  <1> HIDE DEF O, R
  <1>5. /\ Len(O) \in Nat /\ Len(R) \in Nat /\ MaxFormatHistory \in Nat
    BY <1>3, <1>4, SettingsAssumption
  <1>6. Room(settings.format) >= MaxFormatHistory - 1
        /\ Room(settings.format) \in Int
    BY <1>5 DEF Room
  <1>7. Min({MaxFormatHistory - 1, Len(R)}) =
           IF MaxFormatHistory - 1 <= Len(R)
           THEN MaxFormatHistory - 1 ELSE Len(R)
    BY <1>5, MinIs
  <1>8. Len(O) >= Min({MaxFormatHistory - 1, Len(R)})
    BY <1>2, <1>5, <1>6, <1>7
  <1> QED
    BY <1>2, <1>8 DEF OffersRemembered, Listed, O, R

\* The settings page offers the formats used last, the latest first, and lacks
\* none but the oldest (SettingsStore.UseDateTimeFormat), for any formats and
\* any list that was stored: over restarts, ends without saving, and saving
\* (Save) that breaks off before or after the format and its history, or
\* between them while the format is the one that was stored.
THEOREM FormatsAreRemembered == Spec => []FormatsRemembered
  <1>1. Spec => [](Typed /\ Formatted)
    BY TypedInit, TypedStep, FormattedInit, FormattedStep, PTL DEF Spec
  <1> QED
    BY <1>1, FormattedIsRemembered, PTL
=============================================================================
