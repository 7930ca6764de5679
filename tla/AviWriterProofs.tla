--------------------------- MODULE AviWriterProofs ---------------------------
(* What AviWriter promises about the files of a folder, for any programs,   *)
(* settings, files of others and frames.                                    *)
(*                                                                          *)
(* A picked name is later than all it was picked after: the loop over the   *)
(* listing is a fold, and what a fold computes is shown by induction over   *)
(* the places of the list.                                                  *)
EXTENDS AviWriter, FiniteSetTheorems, TLAPS

-----------------------------------------------------------------------------
(* Induction over a list                                                    *)

\* What 0 has and each successor inherits, every number has.
LEMMA Induction ==
    ASSUME NEW S, 0 \in S, \A n \in Nat : n \in S => n + 1 \in S
    PROVE  Nat \subseteq S
  <1> SUFFICES ASSUME ~(Nat \subseteq S) PROVE FALSE
    OBVIOUS
  <1> DEFINE T == {n \in Nat : n \notin S}
  <1>1. T \subseteq Nat /\ T # {}
    OBVIOUS
  <1>2. IsWellFoundedOn(OpToRel(<, Nat), Nat)
    BY NatLessThanWellFounded
  <1>3. \E x \in T : \A y \in T : ~(<<y, x>> \in OpToRel(<, Nat))
    <2> HIDE DEF T
    <2> QED
      BY <1>1, <1>2, WFMin
  <1>4. PICK x \in T : \A y \in T : ~(y < x)
    BY <1>3 DEF OpToRel
  <1>5. x # 0 /\ x - 1 \in Nat
    OBVIOUS
  <1>6. x - 1 \in S
    BY <1>4, <1>5
  <1> QED
    BY <1>5, <1>6

\* The greatest of the first numbers.
LEMMA MaxIs ==
    ASSUME NEW s, NEW m \in Nat, s \subseteq 1..m, m \in s
    PROVE  Max(s) = m
  <1> DEFINE Top(x) == x \in s /\ \A y \in s : x >= y
  <1>1. \A x \in s : x \in Int /\ m >= x
    OBVIOUS
  <1>2. Top(m) /\ \A x : Top(x) => x >= m /\ x \in s
    BY <1>1
  <1>3. \A x : Top(x) => x = m
    BY <1>1, <1>2
  <1> QED
    BY <1>2, <1>3 DEF Max

\* A set of the first numbers has a greatest one.
LEMMA Greatest ==
    ASSUME NEW m \in Nat, NEW s \in SUBSET (1..m), s # {}
    PROVE  Max(s) \in s
  <1> DEFINE Has == {j \in Nat : \A t \in SUBSET (1..j) : t # {} =>
                       \E x \in t : \A y \in t : x >= y}
  <1>1. 0 \in Has
    <2>1. 1..0 = {}
      OBVIOUS
    <2> QED
      BY <2>1
  <1>2. ASSUME NEW j \in Nat, j \in Has
        PROVE  j + 1 \in Has
    <2> SUFFICES ASSUME NEW t \in SUBSET (1..(j + 1)), t # {}
                 PROVE  \E x \in t : \A y \in t : x >= y
      OBVIOUS
    <2>1. CASE j + 1 \in t
      BY <2>1
    <2>2. CASE j + 1 \notin t
      <3>1. t \in SUBSET (1..j)
        BY <2>2
      <3> QED
        BY <3>1, <1>2
    <2> QED
      BY <2>1, <2>2
  <1>3. m \in Has
    <2> HIDE DEF Has
    <2> QED
      BY <1>1, <1>2, Induction
  <1>4. \E x \in s : \A y \in s : x >= y
    BY <1>3
  <1> QED
    BY <1>4 DEF Max

\* What FoldLeft computes of each set of places.
Folds(it, base, list) ==
    it = [s \in SUBSET DOMAIN list |->
            IF s = {} THEN base
                      ELSE Take(it[s \ {Max(s)}], list[Max(s)])]

\* There is such a function.
LEMMA FoldsExist ==
    ASSUME NEW n \in Nat, NEW list, DOMAIN list = 1..n, NEW base
    PROVE  \E it : Folds(it, base, list)
  <1> DEFINE Up(it, m) ==
               it = [s \in SUBSET (1..m) |->
                       IF s = {} THEN base
                       ELSE Take(it[s \ {Max(s)}], list[Max(s)])]
             Good == {m \in Nat : \E it : Up(it, m)}
  <1>1. 0 \in Good
    <2>1. 1..0 = {}
      OBVIOUS
    <2>2. Up([s \in SUBSET (1..0) |-> base], 0)
      BY <2>1
    <2> QED
      BY <2>2
  <1>2. ASSUME NEW m \in Nat, m \in Good
        PROVE  m + 1 \in Good
    <2>1. PICK it : Up(it, m)
      BY <1>2
    <2> DEFINE k == m + 1
               more == [s \in SUBSET (1..k) |->
                          IF k \in s THEN Take(it[s \ {k}], list[k])
                                     ELSE it[s]]
    <2>2. ASSUME NEW s \in SUBSET (1..k)
          PROVE  more[s] = IF s = {} THEN base
                           ELSE Take(more[s \ {Max(s)}], list[Max(s)])
      <3>1. CASE k \in s
        <4>1. Max(s) = k /\ s # {}
          <5>1. k \in Nat /\ s \subseteq 1..k
            OBVIOUS
          <5> HIDE DEF k
          <5> QED
            BY <3>1, <5>1, MaxIs
        <4>2. s \ {k} \in SUBSET (1..k) /\ k \notin s \ {k}
          OBVIOUS
        <4>3. more[s \ {k}] = it[s \ {k}]
          BY <4>2
        <4> QED
          BY <3>1, <4>1, <4>3
      <3>2. CASE k \notin s
        <4>1. s \in SUBSET (1..m)
          BY <3>2
        <4>2. more[s] = it[s]
          BY <3>2
        <4>3. s # {} => Max(s) \in s
          BY <4>1, Greatest
        <4>4. s # {} => k \notin s \ {Max(s)} /\ s \ {Max(s)} \in SUBSET (1..k)
          BY <3>2
        <4>5. s # {} => more[s \ {Max(s)}] = it[s \ {Max(s)}]
          BY <4>4
        <4>6. it[s] = IF s = {} THEN base
                      ELSE Take(it[s \ {Max(s)}], list[Max(s)])
          BY <2>1, <4>1
        <4> QED
          BY <4>2, <4>5, <4>6
      <3> QED
        BY <3>1, <3>2
    <2>3. Up(more, k)
      <3> SUFFICES more = [s \in SUBSET (1..k) |->
                       IF s = {} THEN base
                       ELSE Take(more[s \ {Max(s)}], list[Max(s)])]
        OBVIOUS
      <3> HIDE DEF k
      <3> DEFINE rhs == [s \in SUBSET (1..k) |->
                       IF s = {} THEN base
                       ELSE Take(more[s \ {Max(s)}], list[Max(s)])]
      <3>1. \A s \in SUBSET (1..k) : more[s] = rhs[s]
        <4> HIDE DEF more
        <4> QED
          BY <2>2
      <3>2. DOMAIN more = SUBSET (1..k) /\ DOMAIN rhs = SUBSET (1..k)
        OBVIOUS
      <3>3. /\ more = [s \in DOMAIN more |-> more[s]]
            /\ rhs = [s \in DOMAIN rhs |-> rhs[s]]
        OBVIOUS
      <3> QED
        BY <3>1, <3>2, <3>3
    <2>4. \E f : Up(f, k)
      <3> HIDE DEF more, k
      <3> QED
        BY <2>3
    <2> HIDE DEF Up
    <2> QED
      BY <2>4
  <1>3. n \in Good
    <2> HIDE DEF Good
    <2> QED
      BY <1>1, <1>2, Induction
  <1> QED
    BY <1>3 DEF Folds

\* What holds of the base, and of each step after the one before, holds of the
\* fold of the whole list.
LEMMA FoldHas ==
    ASSUME NEW n \in Nat, NEW list, DOMAIN list = 1..n, NEW base,
           NEW Has, base \in Has[0],
           \A k \in 1..n : \A found \in Has[k - 1] :
               Take(found, list[k]) \in Has[k]
    PROVE  FoldLeft(Take, base, list) \in Has[n]
  <1> DEFINE it == CHOOSE f : Folds(f, base, list)
  <1>1. FoldLeft(Take, base, list) = it[1..n]
    BY DEF FoldLeft, MapThenFoldSet, Folds
  <1>2. Folds(it, base, list)
    BY FoldsExist
  <1> HIDE DEF it
  <1> DEFINE Good == {k \in Nat : k <= n => it[1..k] \in Has[k]}
  <1>3. 0 \in Good
    <2>1. 1..0 = {} /\ {} \in SUBSET (1..n)
      OBVIOUS
    <2>2. it[{}] = base
      BY <1>2, <2>1 DEF Folds
    <2> QED
      BY <2>1, <2>2
  <1>4. ASSUME NEW k \in Nat, k \in Good
        PROVE  k + 1 \in Good
    <2> SUFFICES ASSUME k + 1 <= n
                 PROVE  it[1..(k + 1)] \in Has[k + 1]
      OBVIOUS
    <2> HIDE DEF Good
    <2>1. /\ 1..(k + 1) \in SUBSET (1..n) /\ k + 1 \in 1..(k + 1)
          /\ (1..(k + 1)) \ {k + 1} = 1..k
      OBVIOUS
    <2>2. Max(1..(k + 1)) = k + 1 /\ 1..(k + 1) # {}
      <3> DEFINE all == 1..(k + 1)
      <3>1. k + 1 \in Nat /\ all \subseteq 1..(k + 1) /\ k + 1 \in all
        OBVIOUS
      <3> HIDE DEF all
      <3>2. Max(all) = k + 1 /\ all # {}
        BY <3>1, MaxIs
      <3> QED
        BY <3>2 DEF all
    <2>3. it[1..(k + 1)] = Take(it[1..k], list[k + 1])
      BY <1>2, <2>1, <2>2 DEF Folds
    <2>4. it[1..k] \in Has[k] /\ k + 1 \in 1..n /\ (k + 1) - 1 = k
      BY <1>4 DEF Good
    <2> QED
      BY <2>3, <2>4
  <1>5. n \in Good
    <2> HIDE DEF Good
    <2> QED
      BY <1>3, <1>4, Induction
  <1> QED
    BY <1>1, <1>5

\* The powers that there are.
LEMMA Powers ==
    /\ 10^0 = 1 /\ 10^1 = 10 /\ 10^2 = 100 /\ 10^3 = 1000 /\ 10^4 = 10000
    /\ 10^5 = 100000 /\ 10^6 = 1000000 /\ 10^7 = 10000000
    /\ 10^8 = 100000000 /\ 10^9 = 1000000000 /\ 10^10 = 10000000000
  OBVIOUS

\* They are numbers, and grow.
LEMMA PowersGrow ==
    ASSUME NEW j \in 0..10, NEW k \in 0..10, j <= k
    PROVE  /\ 10^j \in Nat /\ 10^k \in Nat /\ 10^j <= 10^k
           /\ j >= 1 => 10^j >= 10
  <1> DEFINE p == [i \in 0..10 |-> 10^i]
  <1>1. /\ p[0] = 1 /\ p[1] = 10 /\ p[2] = 100 /\ p[3] = 1000 /\ p[4] = 10000
        /\ p[5] = 100000 /\ p[6] = 1000000 /\ p[7] = 10000000
        /\ p[8] = 100000000 /\ p[9] = 1000000000 /\ p[10] = 10000000000
    BY Powers
  <1>2. 10^j = p[j] /\ 10^k = p[k]
    OBVIOUS
  <1> HIDE DEF p
  <1>3. p[j] \in Nat /\ p[k] \in Nat /\ p[j] <= p[k] /\ (j >= 1 => p[j] >= 10)
    BY <1>1
  <1> QED BY <1>2, <1>3

\* Each is a number.
LEMMA PowersTyped == ASSUME NEW k \in 0..10 PROVE 10^k \in Nat
  <1>1. k <= k
    OBVIOUS
  <1> QED
    BY <1>1, PowersGrow, Zenon

\* How long a number of up to ten digits is.
LEMMA Digits10 ==
    ASSUME NEW n \in Nat, n < 10^10
    PROVE  /\ DigitsOf(n) \in 1..10 /\ n < 10^DigitsOf(n)
           /\ DigitsOf(n) = 1 \/ n >= 10^(DigitsOf(n) - 1)
  <1>1. \E k \in 1..10 : n < 10^k /\ (k = 1 \/ n >= 10^(k - 1))
    <2>1. CASE n < 10
      BY <2>1, Powers
    <2>2. CASE n >= 10 /\ n < 100
      BY <2>2, Powers
    <2>3. CASE n >= 100 /\ n < 1000
      BY <2>3, Powers
    <2>4. CASE n >= 1000 /\ n < 10000
      BY <2>4, Powers
    <2>5. CASE n >= 10000 /\ n < 100000
      BY <2>5, Powers
    <2>6. CASE n >= 100000 /\ n < 1000000
      BY <2>6, Powers
    <2>7. CASE n >= 1000000 /\ n < 10000000
      BY <2>7, Powers
    <2>8. CASE n >= 10000000 /\ n < 100000000
      BY <2>8, Powers
    <2>9. CASE n >= 100000000 /\ n < 1000000000
      BY <2>9, Powers
    <2>10. CASE n >= 1000000000
      BY <2>10, Powers
    <2> QED BY <2>1, <2>2, <2>3, <2>4, <2>5, <2>6, <2>7, <2>8, <2>9, <2>10
  <1> QED BY <1>1 DEF DigitsOf

-----------------------------------------------------------------------------
(* The names that are picked                                                *)

Stems == [temp : BOOLEAN, date : Dates \cup {NoTime, -1}]
Names == [stem : Stems, width : Nat, number : Nat]
NameOK(n) ==
    /\ n.width \in Nat /\ n.number \in Nat /\ n.number <= 10^MaxDigits
    /\ n.width <= MaxDigits => n.number < 10^MaxDigits
FolderInv ==
    /\ IsFiniteSet(DOMAIN dir) /\ DOMAIN dir \subseteq Names
    /\ \A n \in DOMAIN dir : NameOK(n)

\* There are that many names with numbers not too long.
LEMMA MostNames == 10^MaxDigits \in Nat /\ 10^MaxDigits >= 10
  <1>1. MaxDigits \in 0..10 /\ MaxDigits >= 1 /\ MaxDigits <= MaxDigits
    BY WriterAssumption
  <1> QED
    BY <1>1, PowersGrow, Zenon

\* How long a number is, and where numbers get too long.
LEMMA DigitsTyped ==
    ASSUME NEW n \in Nat, n <= 10^MaxDigits
    PROVE  /\ DigitsOf(n) \in 1..10
           /\ DigitsOf(n) <= MaxDigits => n < 10^MaxDigits
           /\ DigitsOf(n) > MaxDigits => n >= 10^MaxDigits
  <1>1. /\ MaxDigits \in 0..10 /\ MaxDigits \in 1..9 /\ 9 \in 0..10
        /\ MaxDigits <= 9
    BY WriterAssumption
  <1>2. n < 10^10
    <2>1. 10^MaxDigits <= 10^9 /\ 10^MaxDigits \in Nat
      BY <1>1, PowersGrow, Zenon
    <2> QED
      BY <2>1, Powers
  <1>3. /\ DigitsOf(n) \in 1..10 /\ n < 10^DigitsOf(n)
        /\ DigitsOf(n) = 1 \/ n >= 10^(DigitsOf(n) - 1)
    BY <1>2, Digits10
  <1> DEFINE d == DigitsOf(n)
  <1> HIDE DEF d
  <1>4. d \in 1..10 /\ n < 10^d /\ (d = 1 \/ n >= 10^(d - 1))
    BY <1>3 DEF d
  <1>5. d <= MaxDigits => n < 10^MaxDigits
    <2> SUFFICES ASSUME d <= MaxDigits PROVE n < 10^MaxDigits
      OBVIOUS
    <2>1. d \in 0..10
      BY <1>4
    <2>2. 10^d <= 10^MaxDigits /\ 10^d \in Nat /\ 10^MaxDigits \in Nat
      BY <1>1, <2>1, PowersGrow, Zenon
    <2> QED
      BY <1>4, <2>2
  <1>6. d > MaxDigits => n >= 10^MaxDigits
    <2> SUFFICES ASSUME d > MaxDigits PROVE n >= 10^MaxDigits
      OBVIOUS
    <2> DEFINE c == d - 1
    <2>1. c \in 0..10 /\ MaxDigits <= c /\ n >= 10^c
      BY <1>1, <1>4
    <2> HIDE DEF c
    <2>2. 10^MaxDigits <= 10^c /\ 10^c \in Nat /\ 10^MaxDigits \in Nat
      BY <1>1, <2>1, PowersGrow, Zenon
    <2> QED
      BY <2>1, <2>2
  <1> QED
    BY <1>4, <1>5, <1>6 DEF d

\* A listing has all names with the stem, and no other.
LEMMA Listing ==
    ASSUME IsFiniteSet(DOMAIN dir), NEW stem, NEW list \in FindFiles(stem)
    PROVE  \E n \in Nat :
             /\ DOMAIN list = 1..n
             /\ \A i \in 1..n : list[i] \in DOMAIN dir /\ list[i].stem = stem
             /\ \A x \in DOMAIN dir : x.stem = stem =>
                  \E i \in 1..n : list[i] = x
  <1> DEFINE names == {name \in DOMAIN dir : name.stem = stem}
             n == Cardinality(names)
  <1>1. IsFiniteSet(names)
    BY FS_Subset
  <1>2. n \in Nat
    BY <1>1, FS_CardinalityType
  <1>3. /\ list \in [1..n -> names]
        /\ \A i, j \in 1..n : i # j => list[i] # list[j]
    BY DEF FindFiles, SetToSeqs
  <1> HIDE DEF names, n
  <1>4. list \in Injection(1..n, names)
    BY <1>3 DEF Injection, IsInjective
  <1>5. Cardinality(1..n) = n
    BY <1>2, FS_Interval
  <1>6. list \in Surjection(1..n, names)
    <2>1. Cardinality(names) = n
      BY DEF n
    <2> QED
      BY <1>1, <1>4, <1>5, <2>1, FS_Injection
  <1>7. \A x \in names : \E i \in 1..n : list[i] = x
    BY <1>6 DEF Surjection
  <1> QED
    BY <1>2, <1>3, <1>7 DEF names

\* What the loop over the listing knows after its first k names: "none" stands
\* for highest = -1.
Founds == [width : 0..MaxDigits, highest : Nat, none : BOOLEAN,
           plainExists : BOOLEAN]
Knows(found, name) ==
    /\ name.width = 0 => found.plainExists
    /\ name.width \in 1..MaxDigits =>
         \/ name.width < found.width
         \/ /\ name.width = found.width /\ ~found.none
            /\ name.number <= found.highest
Reads(digits, list, k) ==
    {found \in Founds :
        /\ found.width >= digits /\ found.highest < 10^MaxDigits
        /\ found.none => found.width = digits
        /\ \A i \in 1..k : list[i].width >= digits \/ list[i].width = 0
                             => Knows(found, list[i])}

\* One more name.
LEMMA TakeReads ==
    ASSUME NEW digits \in 0..MaxDigits, NEW list, NEW k \in Nat \ {0},
           \A i \in 1..k : NameOK(list[i]),
           NEW found \in Reads(digits, list, k - 1)
    PROVE  Take(found, list[k]) \in Reads(digits, list, k)
  <1> DEFINE name == list[k]
             next == Take(found, name)
  <1> USE WriterAssumption
  <1>1. /\ found \in Founds /\ found.width >= digits
        /\ found.width \in 0..MaxDigits /\ found.highest \in Nat
        /\ found.none \in BOOLEAN /\ found.plainExists \in BOOLEAN
        /\ found.highest < 10^MaxDigits
        /\ found.none => found.width = digits
    BY DEF Reads, Founds
  <1>2. /\ name.width \in Nat /\ name.number \in Nat
        /\ name.width <= MaxDigits => name.number < 10^MaxDigits
    BY DEF NameOK
  <1>3. CASE name.width = 0
    <2>1. /\ next \in Founds /\ next.plainExists
          /\ next.width = found.width /\ next.highest = found.highest
          /\ next.none = found.none
      BY <1>1, <1>3 DEF Take, Founds
    <2> QED
      BY <1>1, <1>3, <2>1 DEF Reads, Knows
  <1>4. CASE /\ name.width # 0 /\ name.width \in found.width..MaxDigits
             /\ \/ name.width > found.width
                \/ name.number > found.highest \/ found.none
    <2>1. next = [width |-> name.width, highest |-> name.number,
                  none |-> FALSE, plainExists |-> found.plainExists]
      <3>1. found = [width |-> found.width, highest |-> found.highest,
                     none |-> found.none,
                     plainExists |-> found.plainExists]
        BY <1>1 DEF Founds
      <3>2. next = [found EXCEPT !.width = name.width,
                                 !.highest = name.number, !.none = FALSE]
        BY <1>4 DEF Take
      <3> QED
        BY <3>1, <3>2
    <2>3. next \in Founds
      BY <1>1, <1>2, <1>4, <2>1 DEF Founds
    <2>2. ASSUME NEW i \in 1..k,
                 list[i].width >= digits \/ list[i].width = 0
          PROVE  Knows(next, list[i])
      <3>1. CASE i = k
        BY <1>2, <1>4, <2>1, <3>1 DEF Knows
      <3>2. CASE i \in 1..(k - 1)
        <4>1. Knows(found, list[i])
          BY <2>2, <3>2 DEF Reads
        <4>2. list[i].width \in Nat /\ list[i].number \in Nat
          BY <3>2 DEF NameOK
        <4>3. /\ next.plainExists = found.plainExists
              /\ next.width = name.width /\ next.highest = name.number
              /\ ~next.none
          BY <2>1
        <4> DEFINE x == list[i]
        <4> HIDE DEF next, x
        <4>4. CASE x.width = 0
          BY <4>1, <4>3, <4>4 DEF Knows, x
        <4>5. CASE x.width < found.width
          BY <1>1, <1>2, <1>4, <4>1, <4>2, <4>3, <4>5 DEF Knows, x
        <4>6. CASE /\ x.width = found.width /\ ~found.none
                   /\ x.number <= found.highest
          BY <1>1, <1>2, <1>4, <4>1, <4>2, <4>3, <4>6 DEF Knows, x
        <4>7. x.width \notin 1..MaxDigits => Knows(next, x)
          BY <4>1, <4>3 DEF Knows, x
        <4> QED
          BY <4>1, <4>4, <4>5, <4>6, <4>7 DEF Knows, x
      <3> QED
        BY <3>1, <3>2
    <2>4. /\ next.width >= digits /\ next.highest < 10^MaxDigits
          /\ ~next.none
      BY <1>1, <1>2, <1>4, <2>1
    <2>5. \A i \in 1..k : list[i].width >= digits \/ list[i].width = 0
                           => Knows(next, list[i])
      BY <2>2
    <2>6. next \in Reads(digits, list, k)
      <3> HIDE DEF next
      <3> QED
        BY <2>3, <2>4, <2>5 DEF Reads
    <2> QED
      BY <2>6
  <1>5. CASE /\ name.width # 0
             /\ ~(/\ name.width \in found.width..MaxDigits
                  /\ \/ name.width > found.width
                     \/ name.number > found.highest \/ found.none)
    <2>1. next = found
      BY <1>5 DEF Take
    <2>2. name.width >= digits => Knows(found, name)
      BY <1>1, <1>2, <1>5 DEF Knows
    <2> QED
      BY <1>1, <1>5, <2>1, <2>2 DEF Reads
  <1> QED
    BY <1>3, <1>4, <1>5

\* The whole listing.
LEMMA ListRead ==
    ASSUME NEW digits \in 0..MaxDigits, NEW list, NEW n \in Nat,
           DOMAIN list = 1..n, \A i \in 1..n : NameOK(list[i])
    PROVE  FoldLeft(Take, [width |-> digits, highest |-> 0, none |-> TRUE,
                           plainExists |-> FALSE], list)
             \in Reads(digits, list, n)
  <1> DEFINE base == [width |-> digits, highest |-> 0, none |-> TRUE,
                      plainExists |-> FALSE]
             Has == [k \in Nat |-> Reads(digits, list, k)]
  <1>1. base \in Has[0]
    <2>1. 10^MaxDigits \in Nat /\ 10^MaxDigits >= 10
      BY MostNames
    <2> QED
      BY <2>1, WriterAssumption DEF Reads, Founds
  <1>2. ASSUME NEW k \in 1..n, NEW found \in Has[k - 1]
        PROVE  Take(found, list[k]) \in Has[k]
    BY TakeReads
  <1>3. Has[n] = Reads(digits, list, n)
    OBVIOUS
  <1> HIDE DEF base, Has
  <1>4. FoldLeft(Take, base, list) \in Has[n]
    BY <1>1, <1>2, FoldHas
  <1> QED
    BY <1>3, <1>4 DEF base

\* A picked name comes later than every name of its stem that is not too long.
LEMMA PickedName ==
    ASSUME FolderInv, NEW stem, NEW digits \in 0..MaxDigits,
           NEW name \in NextFree(stem, digits)
    PROVE  /\ name.stem = stem /\ NameOK(name)
           /\ name.width > MaxDigits => name.number >= 10^MaxDigits
           /\ \A x \in DOMAIN dir :
                x.stem = stem /\ x.width <= MaxDigits => Later(x, name)
  <1> DEFINE base == [width |-> digits, highest |-> 0, none |-> TRUE,
                      plainExists |-> FALSE]
  <1>1. PICK list \in FindFiles(stem) :
          name = NextCaptureFilename(stem, digits, list)
    BY DEF NextFree
  <1>2. PICK n \in Nat :
          /\ DOMAIN list = 1..n
          /\ \A i \in 1..n : list[i] \in DOMAIN dir /\ list[i].stem = stem
          /\ \A x \in DOMAIN dir : x.stem = stem =>
               \E i \in 1..n : list[i] = x
    BY Listing DEF FolderInv
  <1>3. \A i \in 1..n : NameOK(list[i])
    BY <1>2 DEF FolderInv
  <1> DEFINE found == FoldLeft(Take, base, list)
             number == IF found.none THEN 0 ELSE found.highest + 1
             width == IF DigitsOf(number) > found.width
                        THEN DigitsOf(number) ELSE found.width
  <1>4. found \in Reads(digits, list, n)
    BY <1>2, <1>3, ListRead
  <1>5. name = IF found.width = 0 /\ ~found.plainExists
                 THEN Plain(stem) ELSE Numbered(stem, found.width, number)
    BY <1>1 DEF NextCaptureFilename
  <1> HIDE DEF found
  <1>6. /\ found.width \in digits..MaxDigits /\ found.highest \in Nat
        /\ found.none \in BOOLEAN /\ found.plainExists \in BOOLEAN
        /\ found.highest < 10^MaxDigits
        /\ found.none => found.width = digits
    BY <1>4 DEF Reads, Founds
  <1>7. CASE found.width = 0 /\ ~found.plainExists
    <2>1. name.stem = stem /\ name.width = 0 /\ name.number = 0
      BY <1>5, <1>7 DEF Plain
    <2>2. NameOK(name)
      BY <2>1, MostNames DEF NameOK
    <2>3. ASSUME NEW x \in DOMAIN dir, x.stem = stem, x.width <= MaxDigits
          PROVE  FALSE
      <3>1. PICK i \in 1..n : list[i] = x
        BY <1>2, <2>3
      <3>2. x.width \in Nat /\ x.width >= digits /\ digits = 0
        BY <1>3, <1>6, <1>7, <3>1 DEF NameOK
      <3>3. Knows(found, x)
        BY <1>4, <3>1, <3>2 DEF Reads
      <3> QED
        BY <1>6, <1>7, <2>3, <3>2, <3>3 DEF Knows
    <2>4. MaxDigits \in Nat
      BY WriterAssumption
    <2> QED
      BY <2>1, <2>2, <2>3, <2>4
  <1>8. CASE found.width # 0 \/ found.plainExists
    <2>1. number \in Nat /\ number <= 10^MaxDigits
      BY <1>6, MostNames
    <2>2. /\ DigitsOf(number) \in 1..10
          /\ DigitsOf(number) <= MaxDigits => number < 10^MaxDigits
          /\ DigitsOf(number) > MaxDigits => number >= 10^MaxDigits
      BY <2>1, DigitsTyped
    <2>3. name.stem = stem /\ name.width = width /\ name.number = number
      BY <1>5, <1>8 DEF Numbered
    <2> DEFINE d == DigitsOf(number)
    <2>4. /\ width \in Nat /\ width >= found.width /\ width >= 1
          /\ width <= MaxDigits => number < 10^MaxDigits
          /\ width > MaxDigits => number >= 10^MaxDigits
      <3>1. d \in 1..10 /\ MaxDigits \in Nat /\ found.width \in 0..MaxDigits
        BY <1>6, <2>2, WriterAssumption
      <3> HIDE DEF d, number
      <3>2. width = IF d > found.width THEN d ELSE found.width
        BY DEF d
      <3> QED
        BY <2>2, <3>1, <3>2 DEF d
    <2>5. NameOK(name)
      BY <2>1, <2>3, <2>4 DEF NameOK
    <2>6. ASSUME NEW x \in DOMAIN dir, x.stem = stem, x.width <= MaxDigits
          PROVE  Later(x, name)
      <3>1. PICK i \in 1..n : list[i] = x
        BY <1>2, <2>6
      <3>2. x.width \in Nat /\ x.number \in Nat
        BY <1>3, <3>1 DEF NameOK
      <3>3. CASE x.width = 0
        BY <2>3, <2>4, <3>3 DEF Later
      <3>4. CASE x.width # 0 /\ x.width < digits
        BY <1>6, <2>3, <2>4, <3>2, <3>4 DEF Later
      <3>5. CASE x.width # 0 /\ x.width >= digits
        <4>1. Knows(found, x)
          BY <1>4, <3>1, <3>5 DEF Reads
        <4>2. \/ x.width < found.width
              \/ /\ x.width = found.width /\ ~found.none
                 /\ x.number <= found.highest
          BY <2>6, <3>2, <3>5, <4>1 DEF Knows
        <4>3. ~found.none => number = found.highest + 1
          OBVIOUS
        <4> HIDE DEF number, width
        <4> QED
          BY <1>6, <2>1, <2>3, <2>4, <3>2, <4>2, <4>3 DEF Later
      <3>6. digits \in Nat
        OBVIOUS
      <3> QED
        BY <3>2, <3>3, <3>4, <3>5, <3>6
    <2> HIDE DEF number, width
    <2> QED
      BY <2>3, <2>4, <2>5, <2>6
  <1> QED
    BY <1>6, <1>7, <1>8

-----------------------------------------------------------------------------
(* The inductive invariant                                                  *)

\* What a file holds.
Contents == [of : Nat, open : BOOLEAN]

\* Each file of the folder is one capture, or of others; a finished one that
\* is still there has the name it was given.
FileInv ==
    /\ dir \in [DOMAIN dir -> Contents]
    /\ FolderInv
    /\ \A n \in DOMAIN dir :
         /\ dir[n].of <= captures
         /\ n.stem.temp => dir[n].of # 0
         /\ dir[n].of # 0 =>
              \A m \in DOMAIN dir : dir[m].of = dir[n].of => m = n
    /\ captures \in 0..MaxCaptures /\ foreign \in 0..MaxForeign

Saves == {file \in [by : Writers, name : Names, of : Nat \ {0}] :
             ~file.name.stem.temp}
SavedInv ==
    /\ saved \in Seq(Saves)
    /\ \A i \in DOMAIN saved :
         /\ saved[i].of <= captures
         /\ \A n \in DOMAIN dir : dir[n].of = saved[i].of => n = saved[i].name

\* A writer that has a file has it under a temporary name, open while it
\* writes, and no two writers have one open.
WriterAt(w) ==
    /\ pc[w] # "none" => tmpfile[w].stem.temp
    /\ pc[w] = "moving" => ~filename[w].stem.temp
    /\ pc[w] \in {"writing", "unwinding"} =>
         tmpfile[w] \in DOMAIN dir /\ dir[tmpfile[w]].open
Writes == {w \in Writers : pc[w] \in {"writing", "unwinding"}}
WriterInv ==
    /\ pc \in [Writers -> {"none", "creating", "writing", "unwinding",
                           "stopped", "moving"}]
    /\ tmpfile \in [Writers -> Names] /\ filename \in [Writers -> Names]
    /\ dvTime \in [Writers -> Dates \cup {NoTime}]
    /\ ndigits \in [Writers -> 0..MaxDigits]
    /\ \A w \in Writers : WriterAt(w) /\ NameOK(tmpfile[w])
                          /\ NameOK(filename[w])
    /\ \A v, w \in Writes : tmpfile[v] = tmpfile[w] => v = w

\* A name that was looked for comes later than those given to what is there.
OrderInv ==
    /\ NamesGrow
    /\ \A w \in Writers : pc[w] = "moving" =>
         \A i \in DOMAIN saved :
             /\ saved[i].by = w /\ saved[i].name.stem = filename[w].stem
             /\ saved[i].name.width <= MaxDigits /\ StillThere(saved[i])
             => Later(saved[i].name, filename[w])

IInv == FileInv /\ SavedInv /\ WriterInv /\ OrderInv

\* What is looked for is a name like the others.
LEMMA NameTyped ==
    ASSUME FolderInv, NEW stem \in Stems, NEW digits \in 0..MaxDigits,
           NEW name \in NextFree(stem, digits)
    PROVE  name \in Names /\ NameOK(name) /\ name.stem = stem
  <1>1. /\ name.stem = stem /\ NameOK(name)
        /\ name.width \in Nat /\ name.number \in Nat
    BY PickedName DEF NameOK
  <1>2. name = [stem |-> name.stem, width |-> name.width,
                number |-> name.number]
    BY DEF NextFree, NextCaptureFilename, Plain, Numbered
  <1> QED
    BY <1>1, <1>2 DEF Names

-----------------------------------------------------------------------------
(* What happens to the files                                                *)

\* Nothing that is there is taken for a file saved before.
NoneComesBack ==
    \A i \in DOMAIN saved : StillThere(saved[i])' => StillThere(saved[i])

\* Nothing happens to them.
LEMMA SameFiles ==
    ASSUME FileInv, SavedInv, UNCHANGED <<dir, saved, captures, foreign>>
    PROVE  FileInv' /\ SavedInv' /\ NoneComesBack
  BY DEF FileInv, SavedInv, FolderInv, NoneComesBack, StillThere

\* A file that is closed keeps what it holds.
LEMMA Content ==
    /\ \A id \in Nat : /\ [of |-> id, open |-> TRUE] \in Contents
                      /\ [of |-> id, open |-> FALSE] \in Contents
    /\ \A c \in Contents : [c EXCEPT !.open = FALSE]
                             = [of |-> c.of, open |-> FALSE]
    /\ \A c \in Contents : c.of \in Nat
  <1>2. ASSUME NEW c \in Contents
        PROVE  [c EXCEPT !.open = FALSE] = [of |-> c.of, open |-> FALSE]
    <2>1. c = [of |-> c.of, open |-> c.open]
      BY DEF Contents
    <2> DEFINE a == c.of
               b == c.open
               d == [c EXCEPT !.open = FALSE]
    <2>2. d = [c EXCEPT !.open = FALSE]
      OBVIOUS
    <2> HIDE DEF a, b, d
    <2>3. c = [of |-> a, open |-> b]
      BY <2>1 DEF a, b
    <2>4. d = [of |-> a, open |-> FALSE]
      BY <2>2, <2>3
    <2> QED
      BY <2>4 DEF a, d
  <1> QED
    BY <1>2 DEF Contents

\* One is closed.
LEMMA FileClosed ==
    ASSUME FileInv, SavedInv, NEW t \in DOMAIN dir,
           dir' = [dir EXCEPT ![t].open = FALSE],
           UNCHANGED <<saved, captures, foreign>>
    PROVE  FileInv' /\ SavedInv' /\ NoneComesBack
  <1>1. /\ DOMAIN dir' = DOMAIN dir
        /\ dir' \in [DOMAIN dir -> Contents]
        /\ \A n \in DOMAIN dir : dir'[n].of = dir[n].of
    <2>1. \A n \in DOMAIN dir : dir[n] \in Contents
      BY DEF FileInv
    <2>2. [dir[t] EXCEPT !.open = FALSE] = [of |-> dir[t].of, open |-> FALSE]
      BY <2>1, Content
    <2>3. /\ DOMAIN dir' = DOMAIN dir /\ dir' = [n \in DOMAIN dir |-> dir'[n]]
          /\ dir'[t] = [of |-> dir[t].of, open |-> FALSE]
          /\ \A n \in DOMAIN dir \ {t} : dir'[n] = dir[n]
      BY <2>2
    <2>4. \A n \in DOMAIN dir : dir'[n].of = dir[n].of
                                /\ dir'[n] \in Contents
      <3>1. dir[t].of \in Nat
        BY <2>1, Content
      <3>2. dir'[t] \in Contents
        BY <2>3, <3>1, Content
      <3> QED
        BY <2>1, <2>3, <3>2
    <2> QED
      BY <2>3, <2>4
  <1> QED
    BY <1>1 DEF FileInv, SavedInv, FolderInv, NoneComesBack, StillThere

\* One is created or overwritten under a temporary name.
LEMMA FileOpened ==
    ASSUME FileInv, SavedInv, NEW t \in Names, NameOK(t), t.stem.temp,
           captures < MaxCaptures, captures' = captures + 1,
           dir' = With(t, Recording(captures')), UNCHANGED <<saved, foreign>>
    PROVE  FileInv' /\ SavedInv' /\ NoneComesBack
  <1>1. /\ DOMAIN dir' = DOMAIN dir \cup {t}
        /\ dir'[t] = [of |-> captures + 1, open |-> TRUE]
        /\ \A n \in DOMAIN dir \ {t} : dir'[n] = dir[n]
    BY DEF With, Recording
  <1>2. dir' = [n \in DOMAIN dir' |-> dir'[n]]
    BY DEF With
  <1>3. captures \in Nat /\ captures' \in 0..MaxCaptures /\ captures' \in Nat
    BY WriterAssumption DEF FileInv
  <1>4. dir' \in [DOMAIN dir' -> Contents]
    <2>1. \A n \in DOMAIN dir : dir[n] \in Contents
      BY DEF FileInv
    <2>2. dir'[t] \in Contents
      <3>1. captures + 1 \in Nat
        BY <1>3
      <3> QED
        BY <1>1, <3>1, Content
    <2>3. \A n \in DOMAIN dir' : dir'[n] \in Contents
      BY <1>1, <2>1, <2>2
    <2> QED
      BY <1>2, <2>3
  <1>5. FolderInv'
    BY <1>1, FS_AddElement DEF FileInv, FolderInv, NameOK
  <1>6. \A n \in DOMAIN dir : dir[n].of \in Nat /\ dir[n].of <= captures
    BY DEF FileInv, Contents
  <1>7. \A n \in DOMAIN dir' :
          /\ dir'[n].of <= captures'
          /\ n.stem.temp => dir'[n].of # 0
          /\ dir'[n].of # 0 =>
               \A m \in DOMAIN dir' : dir'[m].of = dir'[n].of => m = n
    BY <1>1, <1>3, <1>6 DEF FileInv
  <1>8. FileInv'
    BY <1>3, <1>4, <1>5, <1>7 DEF FileInv
  <1>9. \A i \in DOMAIN saved : saved[i].of \in Nat /\ saved[i].of <= captures
    BY DEF SavedInv, Saves
  <1>10. SavedInv'
    BY <1>1, <1>3, <1>9 DEF SavedInv
  <1>11. NoneComesBack
    BY <1>1, <1>3, <1>9 DEF NoneComesBack, StillThere
  <1> QED
    BY <1>8, <1>10, <1>11

\* One gets its name.
LEMMA FileMoved ==
    ASSUME FileInv, SavedInv, NEW t \in DOMAIN dir, t.stem.temp,
           NEW f \in Names, NameOK(f), ~f.stem.temp, f \notin DOMAIN dir,
           dir' = [n \in (DOMAIN dir \ {t}) \cup {f} |->
                     IF n = f THEN dir[t] ELSE dir[n]],
           NEW w \in Writers,
           saved' = Append(saved, [by |-> w, name |-> f, of |-> dir[t].of]),
           UNCHANGED <<captures, foreign>>
    PROVE  FileInv' /\ SavedInv' /\ NoneComesBack
  <1>1. /\ DOMAIN dir' = (DOMAIN dir \ {t}) \cup {f} /\ t # f
        /\ dir'[f] = dir[t]
        /\ \A n \in DOMAIN dir \ {t} : dir'[n] = dir[n]
    OBVIOUS
  <1>2. dir' \in [DOMAIN dir' -> Contents]
    <2>1. \A n \in DOMAIN dir' : dir'[n] \in Contents
      BY <1>1 DEF FileInv
    <2>2. dir' = [n \in DOMAIN dir' |-> dir'[n]]
      BY <1>1
    <2> QED
      BY <2>1, <2>2
  <1>3. FolderInv'
    <2>1. IsFiniteSet(DOMAIN dir \ {t})
      BY FS_RemoveElement DEF FileInv, FolderInv
    <2>2. IsFiniteSet(DOMAIN dir')
      BY <1>1, <2>1, FS_AddElement
    <2> QED
      BY <1>1, <2>2 DEF FileInv, FolderInv, NameOK
  <1>4. \A n \in DOMAIN dir' :
          /\ dir'[n].of <= captures
          /\ n.stem.temp => dir'[n].of # 0
          /\ dir'[n].of # 0 =>
               \A m \in DOMAIN dir' : dir'[m].of = dir'[n].of => m = n
    BY <1>1 DEF FileInv
  <1>5. FileInv'
    BY <1>2, <1>3, <1>4 DEF FileInv
  <1> DEFINE file == [by |-> w, name |-> f, of |-> dir[t].of]
  <1>6. file \in Saves
    BY DEF FileInv, Contents, Saves
  <1> HIDE DEF file
  <1>7. /\ saved \in Seq(Saves) /\ saved' = Append(saved, file)
        /\ saved' \in Seq(Saves) /\ Len(saved') = Len(saved) + 1
        /\ DOMAIN saved = 1..Len(saved) /\ Len(saved) \in Nat
        /\ DOMAIN saved' = 1..(Len(saved) + 1)
        /\ saved'[Len(saved) + 1] = file
        /\ \A i \in DOMAIN saved : saved'[i] = saved[i]
    BY <1>6 DEF SavedInv, file
  <1>8. \A i \in DOMAIN saved : dir[t].of # saved[i].of
    BY <1>7 DEF SavedInv, Saves
  <1>9. \A i \in DOMAIN saved : \A n \in DOMAIN dir' :
          dir'[n].of = saved[i].of => n = saved[i].name
    BY <1>1, <1>8 DEF SavedInv
  <1>10. \A n \in DOMAIN dir' : dir'[n].of = dir[t].of => n = f
    BY <1>1 DEF FileInv
  <1>11. /\ file.of = dir[t].of /\ file.name = f /\ file.of <= captures
    BY DEF file, FileInv
  <1>12. \A i \in DOMAIN saved' :
           /\ saved'[i].of <= captures
           /\ \A n \in DOMAIN dir' :
                dir'[n].of = saved'[i].of => n = saved'[i].name
    <2> SUFFICES ASSUME NEW i \in DOMAIN saved'
                 PROVE  /\ saved'[i].of <= captures
                        /\ \A n \in DOMAIN dir' :
                             dir'[n].of = saved'[i].of => n = saved'[i].name
      OBVIOUS
    <2>1. CASE i \in DOMAIN saved
      <3>1. saved'[i] = saved[i] /\ saved[i].of <= captures
        BY <1>7, <2>1 DEF SavedInv
      <3>2. \A n \in DOMAIN dir' :
              dir'[n].of = saved[i].of => n = saved[i].name
        BY <1>9, <2>1
      <3> QED
        BY <3>1, <3>2
    <2>2. CASE i = Len(saved) + 1
      <3>1. saved'[i] = file
        BY <1>7, <2>2
      <3> QED
        BY <1>10, <1>11, <3>1
    <2>3. i \in DOMAIN saved \/ i = Len(saved) + 1
      BY <1>7
    <2> QED
      BY <2>1, <2>2, <2>3
  <1>13. SavedInv'
    BY <1>7, <1>12 DEF SavedInv
  <1>14. NoneComesBack
    BY <1>1, <1>7, <1>8 DEF NoneComesBack, StillThere
  <1> QED
    BY <1>5, <1>13, <1>14

\* One of others goes or comes.
LEMMA FileRemoved ==
    ASSUME FileInv, SavedInv, NEW t \in DOMAIN dir, dir' = Without(t),
           foreign < MaxForeign, foreign' = foreign + 1,
           UNCHANGED <<saved, captures>>
    PROVE  FileInv' /\ SavedInv' /\ NoneComesBack
  <1>1. /\ DOMAIN dir' = DOMAIN dir \ {t}
        /\ \A n \in DOMAIN dir \ {t} : dir'[n] = dir[n]
        /\ dir' = [n \in DOMAIN dir' |-> dir'[n]]
    BY DEF Without
  <1>2. dir' \in [DOMAIN dir' -> Contents]
    <2>1. \A n \in DOMAIN dir' : dir'[n] \in Contents
      BY <1>1 DEF FileInv
    <2> QED
      BY <1>1, <2>1
  <1>3. FolderInv'
    BY <1>1, FS_RemoveElement DEF FileInv, FolderInv, NameOK
  <1>4. foreign' \in 0..MaxForeign
    BY WriterAssumption DEF FileInv
  <1>5. \A n \in DOMAIN dir' :
          /\ dir'[n].of <= captures
          /\ n.stem.temp => dir'[n].of # 0
          /\ dir'[n].of # 0 =>
               \A m \in DOMAIN dir' : dir'[m].of = dir'[n].of => m = n
    BY <1>1 DEF FileInv
  <1>6. FileInv'
    BY <1>2, <1>3, <1>4, <1>5 DEF FileInv
  <1> QED
    BY <1>1, <1>6 DEF SavedInv, NoneComesBack, StillThere

\* And comes, with a name of its own.
LEMMA FileAdded ==
    ASSUME FileInv, SavedInv, NEW t \in Names, NameOK(t), ~t.stem.temp,
           t \notin DOMAIN dir, dir' = With(t, Foreign),
           foreign < MaxForeign, foreign' = foreign + 1,
           UNCHANGED <<saved, captures>>
    PROVE  FileInv' /\ SavedInv' /\ NoneComesBack
  <1>1. /\ DOMAIN dir' = DOMAIN dir \cup {t}
        /\ dir'[t] = [of |-> 0, open |-> FALSE]
        /\ \A n \in DOMAIN dir : dir'[n] = dir[n]
        /\ dir' = [n \in DOMAIN dir' |-> dir'[n]]
    BY DEF With, Foreign
  <1>2. dir' \in [DOMAIN dir' -> Contents]
    <2>1. \A n \in DOMAIN dir : dir[n] \in Contents
      BY DEF FileInv
    <2>2. dir'[t] \in Contents
      BY <1>1, Content
    <2>3. \A n \in DOMAIN dir' : dir'[n] \in Contents
      BY <1>1, <2>1, <2>2
    <2> QED
      BY <1>1, <2>3
  <1>3. FolderInv'
    BY <1>1, FS_AddElement DEF FileInv, FolderInv, NameOK
  <1>4. foreign' \in 0..MaxForeign /\ 0 <= captures
    BY WriterAssumption DEF FileInv
  <1>5. \A n \in DOMAIN dir' :
          /\ dir'[n].of <= captures
          /\ n.stem.temp => dir'[n].of # 0
          /\ dir'[n].of # 0 =>
               \A m \in DOMAIN dir' : dir'[m].of = dir'[n].of => m = n
    BY <1>1, <1>4 DEF FileInv
  <1>6. FileInv'
    BY <1>2, <1>3, <1>4, <1>5 DEF FileInv
  <1>7. \A i \in DOMAIN saved : saved[i].of # 0
    BY DEF SavedInv, Saves
  <1> QED
    BY <1>1, <1>6, <1>7 DEF SavedInv, NoneComesBack, StillThere

-----------------------------------------------------------------------------
(* What happens to the writers                                              *)

\* What the variables of writers are.
WriterTyped ==
    /\ pc \in [Writers -> {"none", "creating", "writing", "unwinding",
                           "stopped", "moving"}]
    /\ tmpfile \in [Writers -> Names] /\ filename \in [Writers -> Names]
    /\ dvTime \in [Writers -> Dates \cup {NoTime}]
    /\ ndigits \in [Writers -> 0..MaxDigits]

\* One writer moves; the others keep what they have.
LEMMA OneMoves ==
    ASSUME WriterInv, NEW w \in Writers, WriterTyped',
           \A v \in Writers \ {w} :
               pc'[v] = pc[v] /\ tmpfile'[v] = tmpfile[v]
               /\ filename'[v] = filename[v],
           \A v \in Writes \ {w} :
               /\ tmpfile[v] \in DOMAIN dir' /\ dir'[tmpfile[v]].open
               /\ w \in Writes' => tmpfile[v] # tmpfile'[w],
           WriterAt(w)', NameOK(tmpfile'[w]), NameOK(filename'[w])
    PROVE  WriterInv'
  <1>1. \A v \in Writers : /\ WriterAt(v)' /\ NameOK(tmpfile'[v])
                           /\ NameOK(filename'[v])
    BY DEF WriterInv, WriterAt, Writes
  <1>2. \A u, v \in Writes' : tmpfile'[u] = tmpfile'[v] => u = v
    <2>1. \A v \in Writes' \ {w} : v \in Writes \ {w}
                                   /\ tmpfile'[v] = tmpfile[v]
      BY DEF Writes
    <2> QED
      BY <2>1 DEF WriterInv
  <1> QED
    BY <1>1, <1>2 DEF WriterInv, WriterTyped, NameOK

\* No writer moves.
LEMMA NoneMoves ==
    ASSUME WriterInv, UNCHANGED <<pc, tmpfile, filename>>, WriterTyped',
           \A v \in Writes : /\ tmpfile[v] \in DOMAIN dir'
                             /\ dir'[tmpfile[v]].open
    PROVE  WriterInv'
  BY DEF WriterInv, WriterTyped, WriterAt, Writes, NameOK

\* What a writer that is gone has.
LEMMA NoNameOK == NoName \in Names /\ NameOK(NoName) /\ ~NoName.stem.temp
  BY MostNames, WriterAssumption
     DEF NoName, Plain, CaptureStem, Names, Stems, NameOK

\* One writer is gone.
LEMMA OneGone ==
    ASSUME WriterInv, NEW w \in Writers, Gone(w),
           \A v \in Writes \ {w} : /\ tmpfile[v] \in DOMAIN dir'
                                   /\ dir'[tmpfile[v]].open
    PROVE  WriterInv'
  <1>1. /\ pc'[w] = "none" /\ tmpfile'[w] = NoName /\ filename'[w] = NoName
        /\ \A v \in Writers \ {w} :
               pc'[v] = pc[v] /\ tmpfile'[v] = tmpfile[v]
               /\ filename'[v] = filename[v]
    BY DEF Gone, Edited, WriterInv
  <1>2. WriterTyped'
    BY NoNameOK, WriterAssumption DEF Gone, Edited, WriterInv, WriterTyped
  <1>3. WriterAt(w)' /\ w \notin Writes'
    BY <1>1 DEF WriterAt, Writes
  <1> QED
    BY <1>1, <1>2, <1>3, NoNameOK, OneMoves

\* One looks for a temporary name.
LEMMA WriterCreates ==
    ASSUME IInv, NEW w \in Writers, Create(w)
    PROVE  WriterInv'
  <1>1. PICK frame \in Frames, digits \in Digits :
          /\ dvTime' = Edited(dvTime, w, TimeOf[frame])
          /\ ndigits' = Edited(ndigits, w, digits)
          /\ \E name \in NextFree(CaptureStem(TRUE, TimeOf[frame]), digits) :
               tmpfile' = Edited(tmpfile, w, name)
    BY DEF Create
  <1> DEFINE stem == CaptureStem(TRUE, TimeOf[frame])
  <1>2. PICK name \in NextFree(stem, digits) :
          tmpfile' = Edited(tmpfile, w, name)
    BY <1>1
  <1>3. /\ stem \in Stems /\ stem.temp
        /\ TimeOf[frame] \in Dates /\ digits \in 0..MaxDigits
    BY WriterAssumption DEF Stems, CaptureStem, Dates
  <1> HIDE DEF stem
  <1>4. FolderInv
    BY DEF IInv, FileInv
  <1>5. name \in Names /\ NameOK(name) /\ name.stem = stem
    BY <1>3, <1>4, NameTyped
  <1>6. WriterInv /\ pc[w] = "none" /\ UNCHANGED <<dir, filename>>
        /\ pc' = [pc EXCEPT ![w] = "creating"]
        /\ tmpfile' = [tmpfile EXCEPT ![w] = name]
        /\ dvTime' = [dvTime EXCEPT ![w] = TimeOf[frame]]
        /\ ndigits' = [ndigits EXCEPT ![w] = digits]
    BY <1>1, <1>2 DEF Create, Edited, IInv
  <1>7. WriterTyped'
    BY <1>3, <1>5, <1>6 DEF WriterInv, WriterTyped
  <1>8. /\ pc'[w] = "creating" /\ tmpfile'[w] = name
        /\ filename'[w] = filename[w]
        /\ \A v \in Writers \ {w} :
               pc'[v] = pc[v] /\ tmpfile'[v] = tmpfile[v]
               /\ filename'[v] = filename[v]
    BY <1>6 DEF WriterInv
  <1>9. WriterAt(w)' /\ w \notin Writes' /\ NameOK(filename'[w])
    BY <1>3, <1>5, <1>6, <1>8 DEF WriterAt, Writes, WriterInv
  <1>10. \A v \in Writes \ {w} : /\ tmpfile[v] \in DOMAIN dir'
                                 /\ dir'[tmpfile[v]].open
    BY <1>6 DEF WriterInv, WriterAt, Writes
  <1>11. NameOK(tmpfile'[w])
    BY <1>5, <1>8
  <1> QED
    BY <1>6, <1>7, <1>8, <1>9, <1>10, <1>11, OneMoves

\* Those that write have their files open.
LEMMA TheirFiles ==
    ASSUME WriterInv
    PROVE  \A v \in Writes : /\ tmpfile[v] \in DOMAIN dir
                             /\ dir[tmpfile[v]].open
  BY DEF WriterInv, WriterAt, Writes

\* It opens the file.
LEMMA WriterRuns ==
    ASSUME IInv, NEW w \in Writers, Run(w)
    PROVE  WriterInv'
  <1>0. WriterInv
    BY DEF IInv
  <1>1. CASE Gone(w) /\ UNCHANGED dir
    BY <1>0, <1>1, TheirFiles, OneGone
  <1>2. CASE /\ ~(tmpfile[w] \in DOMAIN dir /\ dir[tmpfile[w]].open)
             /\ dir' = With(tmpfile[w], Recording(captures'))
             /\ pc' = Edited(pc, w, "writing") /\ UNCHANGED writer
    <2>1. /\ pc'[w] = "writing" /\ tmpfile' = tmpfile /\ filename' = filename
          /\ \A v \in Writers \ {w} : pc'[v] = pc[v]
      BY <1>0, <1>2 DEF Edited, WriterInv, writer
    <2>2. WriterTyped'
      BY <1>0, <1>2 DEF Edited, WriterInv, WriterTyped, writer
    <2>3. /\ tmpfile[w] \in DOMAIN dir' /\ dir'[tmpfile[w]].open
          /\ \A n \in DOMAIN dir \ {tmpfile[w]} :
               n \in DOMAIN dir' /\ dir'[n] = dir[n]
      BY <1>2 DEF With, Recording
    <2>4. \A v \in Writes \ {w} : tmpfile[v] # tmpfile[w]
      BY <1>0, <1>2, TheirFiles
    <2>5. \A v \in Writes \ {w} : /\ tmpfile[v] \in DOMAIN dir'
                                  /\ dir'[tmpfile[v]].open
      BY <1>0, <2>3, <2>4, TheirFiles
    <2>6. pc[w] = "creating" /\ tmpfile[w].stem.temp
      BY <1>0 DEF Run, WriterInv, WriterAt
    <2>7. WriterAt(w)'
      BY <2>1, <2>3, <2>6 DEF WriterAt
    <2>8. NameOK(tmpfile'[w]) /\ NameOK(filename'[w])
      BY <1>0, <2>1 DEF WriterInv
    <2> QED
      BY <1>0, <2>1, <2>2, <2>4, <2>5, <2>7, <2>8, OneMoves
  <1> QED
    BY <1>1, <1>2 DEF Run

\* What does not touch the files, nor the names.
LEMMA WriterGoesOn ==
    ASSUME IInv, NEW w \in Writers,
           HandleFrame(w) \/ HandleFrameFails(w) \/ DiskFails(w)
    PROVE  WriterInv' /\ UNCHANGED <<dir, tmpfile, filename, history>>
  <1>0. WriterInv
    BY DEF IInv
  <1>1. UNCHANGED <<dir, tmpfile, filename, ndigits, history>>
        /\ (UNCHANGED pc \/ pc' = [pc EXCEPT ![w] = "unwinding"])
        /\ pc[w] = "writing"
    BY DEF HandleFrame, HandleFrameFails, DiskFails, CheckForErrors, Throws,
           Edited, writer
  <1>2. dvTime' \in [Writers -> Dates \cup {NoTime}]
    <2>1. CASE UNCHANGED dvTime
      BY <1>0, <2>1 DEF WriterInv
    <2>2. CASE TakeTime(w)
      <3>1. PICK frame \in Frames :
              dvTime' = [dvTime EXCEPT ![w] =
                           IF dvTime[w] = NoTime THEN TimeOf[frame]
                                                 ELSE dvTime[w]]
        BY <2>2 DEF TakeTime, Edited
      <3>2. TimeOf[frame] \in Dates
        BY DEF Dates
      <3> QED
        BY <1>0, <3>1, <3>2 DEF WriterInv
    <2> QED
      BY <2>1, <2>2 DEF HandleFrame, HandleFrameFails, DiskFails, writer
  <1>3. WriterTyped'
    BY <1>0, <1>1, <1>2 DEF WriterInv, WriterTyped
  <1>4. /\ pc'[w] \in {"writing", "unwinding"}
        /\ \A v \in Writers \ {w} : pc'[v] = pc[v]
    BY <1>0, <1>1 DEF WriterInv
  <1>5. \A v \in Writes \ {w} : /\ tmpfile[v] \in DOMAIN dir'
                                /\ dir'[tmpfile[v]].open
                                /\ tmpfile[v] # tmpfile'[w]
    BY <1>0, <1>1, TheirFiles DEF WriterInv, Writes
  <1>6. WriterAt(w)'
    BY <1>0, <1>1, <1>4 DEF WriterInv, WriterAt
  <1>7. NameOK(tmpfile'[w]) /\ NameOK(filename'[w])
    BY <1>0, <1>1 DEF WriterInv
  <1> QED
    BY <1>0, <1>1, <1>3, <1>4, <1>5, <1>6, <1>7, OneMoves

\* One closes the file it wrote.
LEMMA OthersFiles ==
    ASSUME WriterInv, NEW w \in Writes,
           dir' = [dir EXCEPT ![tmpfile[w]].open = FALSE]
    PROVE  \A v \in Writes \ {w} : /\ tmpfile[v] \in DOMAIN dir'
                                   /\ dir'[tmpfile[v]].open
  <1>1. /\ DOMAIN dir' = DOMAIN dir
        /\ \A n \in DOMAIN dir \ {tmpfile[w]} : dir'[n] = dir[n]
    OBVIOUS
  <1>2. \A v \in Writes \ {w} : tmpfile[v] # tmpfile[w]
    BY DEF WriterInv
  <1> QED
    BY <1>1, <1>2, TheirFiles

\* It ends the file.
LEMMA WriterFinishes ==
    ASSUME IInv, NEW w \in Writers, Finish(w)
    PROVE  WriterInv'
  <1>1. /\ WriterInv /\ w \in Writes
        /\ dir' = [dir EXCEPT ![tmpfile[w]].open = FALSE]
        /\ pc' = [pc EXCEPT ![w] = "stopped"] /\ UNCHANGED writer
    BY DEF IInv, Finish, Edited, Writes
  <1>2. /\ pc'[w] = "stopped" /\ tmpfile' = tmpfile /\ filename' = filename
        /\ \A v \in Writers \ {w} : pc'[v] = pc[v]
    BY <1>1 DEF WriterInv, writer
  <1>3. WriterTyped'
    BY <1>1 DEF WriterInv, WriterTyped, writer
  <1>4. WriterAt(w)' /\ w \notin Writes'
    BY <1>1, <1>2 DEF WriterInv, WriterAt, Writes
  <1>5. NameOK(tmpfile'[w]) /\ NameOK(filename'[w])
    BY <1>1, <1>2 DEF WriterInv
  <1> QED
    BY <1>1, <1>2, <1>3, <1>4, <1>5, OthersFiles, OneMoves

\* What is picked for the file that is moved next.
LEMMA FinalName ==
    ASSUME IInv, NEW w \in Writers, FinishName(w)
    PROVE  \E name \in NextFree(CaptureStem(FALSE, dvTime[w]), ndigits[w]) :
             /\ filename' = [filename EXCEPT ![w] = name]
             /\ filename'[w] = name /\ name \in Names /\ NameOK(name)
             /\ name.stem = CaptureStem(FALSE, dvTime[w])
             /\ ~name.stem.temp
  <1> DEFINE stem == CaptureStem(FALSE, dvTime[w])
  <1>1. PICK name \in NextFree(stem, ndigits[w]) :
          filename' = [filename EXCEPT ![w] = name]
    BY DEF FinishName, Edited
  <1>2. FolderInv /\ WriterInv
    BY DEF IInv, FileInv
  <1>3. stem \in Stems /\ ~stem.temp /\ ndigits[w] \in 0..MaxDigits
    BY <1>2 DEF Stems, CaptureStem, WriterInv
  <1>4. filename'[w] = name
    BY <1>1, <1>2 DEF WriterInv
  <1> HIDE DEF stem
  <1>5. name \in Names /\ NameOK(name) /\ name.stem = stem
    BY <1>2, <1>3, NameTyped
  <1> QED
    BY <1>1, <1>3, <1>4, <1>5 DEF stem

\* It looks for the final name.
LEMMA WriterNames ==
    ASSUME IInv, NEW w \in Writers, FinishName(w)
    PROVE  WriterInv'
  <1>1. PICK name :
             /\ filename' = [filename EXCEPT ![w] = name]
             /\ filename'[w] = name /\ name \in Names /\ NameOK(name)
             /\ ~name.stem.temp
    BY FinalName
  <1>2. /\ WriterInv /\ pc[w] = "stopped"
        /\ pc' = [pc EXCEPT ![w] = "moving"]
        /\ UNCHANGED <<dir, tmpfile, dvTime, ndigits>>
    BY DEF IInv, FinishName, Edited
  <1>3. /\ pc'[w] = "moving"
        /\ \A v \in Writers \ {w} : /\ pc'[v] = pc[v]
                                    /\ filename'[v] = filename[v]
    BY <1>1, <1>2 DEF WriterInv
  <1>4. WriterTyped'
    BY <1>1, <1>2 DEF WriterInv, WriterTyped
  <1>5. WriterAt(w)' /\ w \notin Writes'
    BY <1>1, <1>2, <1>3 DEF WriterInv, WriterAt, Writes
  <1>6. NameOK(tmpfile'[w]) /\ NameOK(filename'[w])
    BY <1>1, <1>2 DEF WriterInv
  <1>7. \A v \in Writes \ {w} : /\ tmpfile[v] \in DOMAIN dir'
                                /\ dir'[tmpfile[v]].open
    BY <1>2, TheirFiles
  <1> QED
    BY <1>2, <1>3, <1>4, <1>5, <1>6, <1>7, OneMoves

\* It moves the file, or not, and is gone.
LEMMA WriterMoves ==
    ASSUME IInv, NEW w \in Writers, FinishMove(w)
    PROVE  WriterInv'
  <1>1. WriterInv /\ Gone(w) /\ pc[w] = "moving" /\ w \notin Writes
    BY DEF IInv, FinishMove, Writes
  <1>2. CASE UNCHANGED dir
    BY <1>1, <1>2, TheirFiles, OneGone
  <1>3. CASE Move(w)
    <2>1. /\ ~dir[tmpfile[w]].open
          /\ \A n \in DOMAIN dir \ {tmpfile[w]} :
               n \in DOMAIN dir' /\ dir'[n] = dir[n]
      BY <1>3 DEF Move, Closed
    <2>2. \A v \in Writes : tmpfile[v] \in DOMAIN dir \ {tmpfile[w]}
      BY <1>1, <2>1, TheirFiles
    <2>3. \A v \in Writes : /\ tmpfile[v] \in DOMAIN dir'
                            /\ dir'[tmpfile[v]].open
      BY <1>1, <2>1, <2>2, TheirFiles
    <2> QED
      BY <1>1, <2>3, OneGone
  <1> QED
    BY <1>2, <1>3 DEF FinishMove

\* Or its program ends before.
LEMMA WriterCrashes ==
    ASSUME IInv, NEW w \in Writers, Crash(w)
    PROVE  WriterInv'
  <1>1. WriterInv /\ Gone(w)
    BY DEF IInv, Crash
  <1>2. CASE w \in Writes
    <2>1. dir' = [dir EXCEPT ![tmpfile[w]].open = FALSE]
      BY <1>2 DEF Crash, Writes
    <2> QED
      BY <1>1, <1>2, <2>1, OthersFiles, OneGone
  <1>3. CASE w \notin Writes
    <2>1. dir' = dir
      BY <1>3 DEF Crash, Writes
    <2> QED
      BY <1>1, <2>1, TheirFiles, OneGone
  <1> QED
    BY <1>2, <1>3

\* The files of others do not matter to the writers.
LEMMA OthersComeAndGo ==
    ASSUME IInv, RemoveFile \/ AddFile
    PROVE  WriterInv'
  <1>1. WriterInv /\ UNCHANGED <<pc, tmpfile, filename, dvTime, ndigits>>
    BY DEF IInv, RemoveFile, AddFile, writer
  <1>2. WriterTyped'
    BY <1>1 DEF WriterInv, WriterTyped
  <1>3. \A n \in DOMAIN dir :
          dir[n].open => n \in DOMAIN dir' /\ dir'[n] = dir[n]
    <2>1. CASE RemoveFile
      BY <2>1 DEF RemoveFile, Closed, Without
    <2>2. CASE AddFile
      BY <2>2 DEF AddFile, With
    <2> QED
      BY <2>1, <2>2
  <1>4. \A v \in Writes : /\ tmpfile[v] \in DOMAIN dir'
                          /\ dir'[tmpfile[v]].open
    BY <1>1, <1>3, TheirFiles
  <1> QED
    BY <1>1, <1>2, <1>4, NoneMoves

-----------------------------------------------------------------------------
(* The order of the names                                                   *)

\* Nothing is saved, and no other name is looked for.
LEMMA OrderKept ==
    ASSUME OrderInv, NoneComesBack, UNCHANGED saved,
           \A v \in Writers : pc'[v] = "moving" =>
               pc[v] = "moving" /\ filename'[v] = filename[v]
    PROVE  OrderInv'
  <1>1. \A i \in DOMAIN saved' :
          /\ saved'[i] = saved[i]
          /\ StillThere(saved[i])' => StillThere(saved[i])
    BY DEF NoneComesBack
  <1>2. NamesGrow'
    BY <1>1 DEF OrderInv, NamesGrow, Later
  <1> QED
    BY <1>1, <1>2 DEF OrderInv, Later

\* A name is looked for.
LEMMA OrderNamed ==
    ASSUME IInv, NEW w \in Writers, FinishName(w)
    PROVE  OrderInv'
  <1>1. PICK name \in NextFree(CaptureStem(FALSE, dvTime[w]), ndigits[w]) :
             /\ filename' = [filename EXCEPT ![w] = name]
             /\ filename'[w] = name
             /\ name.stem = CaptureStem(FALSE, dvTime[w])
    BY FinalName
  <1> DEFINE stem == CaptureStem(FALSE, dvTime[w])
  <1>2. FolderInv /\ ndigits[w] \in 0..MaxDigits
    BY DEF IInv, FileInv, WriterInv
  <1>3. \A x \in DOMAIN dir :
          x.stem = stem /\ x.width <= MaxDigits => Later(x, name)
    <2> HIDE DEF stem
    <2>1. name \in NextFree(stem, ndigits[w])
      BY <1>1 DEF stem
    <2> QED
      BY <1>2, <2>1, PickedName
  <1>4. UNCHANGED <<dir, saved>>
    BY DEF FinishName, history
  <1>5. \A v \in Writers \ {w} : pc'[v] = pc[v] /\ filename'[v] = filename[v]
    BY <1>1 DEF FinishName, Edited, IInv, WriterInv
  <1>6. NamesGrow'
    BY <1>4 DEF IInv, OrderInv, NamesGrow, Later, StillThere
  <1>7. \A i \in DOMAIN saved' :
          /\ saved'[i].by = w /\ saved'[i].name.stem = filename'[w].stem
          /\ saved'[i].name.width <= MaxDigits /\ StillThere(saved[i])'
          => Later(saved[i].name, filename[w])'
    <2> SUFFICES ASSUME NEW i \in DOMAIN saved,
                        saved[i].name.stem = stem,
                        saved[i].name.width <= MaxDigits, StillThere(saved[i])
                 PROVE  Later(saved[i].name, name)
      BY <1>1, <1>4 DEF StillThere, Later
    <2> HIDE DEF stem
    <2> QED
      BY <1>3 DEF StillThere
  <1> QED
    BY <1>4, <1>5, <1>6, <1>7 DEF IInv, OrderInv, StillThere, Later

\* A file that is saved comes after those of its program that are there.
LEMMA OrderMoved ==
    ASSUME IInv, NEW w \in Writers, pc[w] = "moving", pc'[w] # "moving",
           \A v \in Writers \ {w} :
               pc'[v] = pc[v] /\ filename'[v] = filename[v],
           NEW id,
           saved' = Append(saved, [by |-> w, name |-> filename[w], of |-> id]),
           NoneComesBack
    PROVE  OrderInv'
  <1> DEFINE file == [by |-> w, name |-> filename[w], of |-> id]
             last == Len(saved) + 1
  <1>1. /\ DOMAIN saved = 1..Len(saved) /\ Len(saved) \in Nat
        /\ DOMAIN saved' = 1..last /\ saved'[last] = file
        /\ \A i \in DOMAIN saved : saved'[i] = saved[i]
    BY DEF IInv, SavedInv
  <1>2. file.by = w /\ file.name = filename[w]
    OBVIOUS
  <1> HIDE DEF file
  <1>3. \A i \in DOMAIN saved :
          /\ saved'[i] = saved[i]
          /\ StillThere(saved[i])' => StillThere(saved[i])
    BY <1>1 DEF NoneComesBack, StillThere
  <1>4. ASSUME NEW i \in DOMAIN saved', NEW j \in DOMAIN saved', i < j,
               saved'[i].by = saved'[j].by,
               saved'[i].name.stem = saved'[j].name.stem,
               StillThere(saved[i])', StillThere(saved[j])',
               saved'[i].name.width <= MaxDigits
        PROVE  Later(saved'[i].name, saved'[j].name)
    <2>1. i \in DOMAIN saved /\ StillThere(saved[i]) /\ saved'[i] = saved[i]
      <3>1. i \in DOMAIN saved
        BY <1>1, <1>4
      <3> QED
        BY <1>3, <1>4, <3>1
    <2>2. CASE j \in DOMAIN saved
      <3>1. saved'[j] = saved[j] /\ StillThere(saved[j])
        BY <1>3, <1>4, <2>2
      <3> QED
        BY <1>4, <2>1, <2>2, <3>1 DEF IInv, OrderInv, NamesGrow
    <2>3. CASE j = last
      <3>1. saved'[j].by = w /\ saved'[j].name = filename[w]
        BY <1>1, <1>2, <2>3
      <3> QED
        BY <1>4, <2>1, <3>1 DEF IInv, OrderInv
    <2> QED
      BY <1>1, <2>2, <2>3
  <1>5. NamesGrow'
    BY <1>4 DEF NamesGrow, Later
  <1>6. ASSUME NEW v \in Writers, pc'[v] = "moving",
               NEW i \in DOMAIN saved', saved'[i].by = v,
               saved'[i].name.stem = filename'[v].stem,
               saved'[i].name.width <= MaxDigits, StillThere(saved[i])'
        PROVE  Later(saved'[i].name, filename'[v])
    <2>1. v # w /\ pc[v] = "moving" /\ filename'[v] = filename[v]
      BY <1>6
    <2>2. i \in DOMAIN saved
      BY <1>1, <1>2, <1>6, <2>1
    <2>3. saved'[i] = saved[i] /\ StillThere(saved[i])
      BY <1>3, <1>6, <2>2
    <2> QED
      BY <1>6, <2>1, <2>2, <2>3 DEF IInv, OrderInv
  <1> QED
    BY <1>5, <1>6 DEF OrderInv, StillThere, Later

-----------------------------------------------------------------------------
(* The start                                                                *)

\* The names that the files of others have.
LEMMA ForeignName ==
    ASSUME NEW k \in ForeignNumbers \cup {[width |-> 0, number |-> 0]},
           NEW date \in Dates
    PROVE  LET n == [stem |-> CaptureStem(FALSE, date), width |-> k.width,
                     number |-> k.number]
           IN  n \in Names /\ NameOK(n) /\ ~n.stem.temp
  <1> DEFINE n == [stem |-> CaptureStem(FALSE, date), width |-> k.width,
                   number |-> k.number]
             width == k.width
             number == k.number
  <1>1. n.stem \in Stems /\ ~n.stem.temp
    BY DEF Stems, CaptureStem
  <1>2. width \in Nat /\ number \in Nat
        /\ width <= MaxDigits /\ number < 10^MaxDigits
    <2>1. CASE k = [width |-> 0, number |-> 0]
      BY <2>1, MostNames, WriterAssumption
    <2>2. CASE k \in ForeignNumbers
      <3>1. width \in 1..MaxDigits /\ number \in Nat /\ number < 10^width
        BY <2>2, WriterAssumption
      <3> HIDE DEF width, number
      <3>2. /\ width \in 0..10 /\ MaxDigits \in 0..10 /\ width <= MaxDigits
        BY <3>1, WriterAssumption
      <3>3. 10^width <= 10^MaxDigits /\ 10^width \in Nat
            /\ 10^MaxDigits \in Nat
        BY <3>2, PowersGrow, Zenon
      <3> QED
        BY <3>1, <3>2, <3>3
    <2> QED
      BY <2>1, <2>2
  <1>3. n.width = width /\ n.number = number
        /\ n = [stem |-> n.stem, width |-> width, number |-> number]
    OBVIOUS
  <1>4. NameOK(n)
    <2> HIDE DEF n, width, number
    <2> QED
      BY <1>2, <1>3, MostNames DEF NameOK
  <1>5. n \in Names
    <2> HIDE DEF n, width, number
    <2> QED
      BY <1>1, <1>2, <1>3 DEF Names
  <1> QED
    BY <1>1, <1>4, <1>5

\* The folder at first.
LEMMA InitInv == Init => IInv
  <1> SUFFICES ASSUME Init PROVE IInv
    OBVIOUS
  <1>1. PICK numbers \in SUBSET ForeignNumbers, date \in Dates \ {NoTime} :
          dir = [n \in {[stem |-> CaptureStem(FALSE, date), width |-> k.width,
                         number |-> k.number] : k \in numbers} |-> Foreign]
    BY DEF Init
  <1> DEFINE N(k) == [stem |-> CaptureStem(FALSE, date), width |-> k.width,
                      number |-> k.number]
             names == {N(k) : k \in numbers}
  <1>2. /\ DOMAIN dir = names
        /\ \A n \in names : dir[n] = Foreign
        /\ dir = [n \in DOMAIN dir |-> dir[n]]
    BY <1>1
  <1>3. IsFiniteSet(names)
    <2>1. IsFiniteSet(numbers)
      BY FS_Subset, WriterAssumption
    <2> DEFINE f == [k \in numbers |-> N(k)]
    <2>2. f \in Surjection(numbers, names)
      BY DEF Surjection
    <2> HIDE DEF f, names
    <2> QED
      BY <2>1, <2>2, FS_Surjection
  <1>4. \A n \in names : n \in Names /\ NameOK(n) /\ ~n.stem.temp
    BY ForeignName
  <1> HIDE DEF names
  <1>5. Foreign \in Contents /\ Foreign.of = 0
    BY Content DEF Foreign
  <1>6. dir \in [DOMAIN dir -> Contents]
    <2>1. \A n \in DOMAIN dir : dir[n] \in Contents
      BY <1>2, <1>5
    <2>2. dir = [n \in DOMAIN dir |-> dir[n]]
      BY <1>2
    <2> QED
      BY <2>1, <2>2
  <1>7. FolderInv
    BY <1>2, <1>3, <1>4 DEF FolderInv
  <1>8. captures = 0 /\ foreign = 0 /\ saved = <<>>
    BY DEF Init
  <1>9. FileInv
    BY <1>2, <1>4, <1>5, <1>6, <1>7, <1>8, WriterAssumption DEF FileInv
  <1>10. SavedInv /\ OrderInv
    BY <1>8 DEF SavedInv, OrderInv, NamesGrow, Init
  <1>11. WriterInv
    BY NoNameOK, WriterAssumption DEF Init, WriterInv, WriterAt, Writes
  <1> QED
    BY <1>9, <1>10, <1>11 DEF IInv

-----------------------------------------------------------------------------
(* Every step                                                               *)

\* A writer that is gone names nothing.
LEMMA GoneKeeps ==
    ASSUME IInv, NEW w \in Writers, Gone(w)
    PROVE  \A v \in Writers : pc'[v] = "moving" =>
               v # w /\ pc[v] = "moving" /\ filename'[v] = filename[v]
  BY DEF IInv, WriterInv, Gone, Edited

\* Every step keeps the invariant.
LEMMA StepInv == IInv /\ [Next]_vars => IInv'
  <1> SUFFICES ASSUME IInv, [Next]_vars PROVE IInv'
    OBVIOUS
  <1>0. FileInv /\ SavedInv /\ WriterInv /\ OrderInv
    BY DEF IInv
  <1>1. CASE UNCHANGED vars
    <2>1. WriterTyped'
      BY <1>0, <1>1 DEF vars, writer, WriterInv, WriterTyped
    <2>2. WriterInv'
      BY <1>0, <1>1, <2>1, TheirFiles, NoneMoves DEF vars, writer
    <2>3. FileInv' /\ SavedInv' /\ NoneComesBack
      BY <1>0, <1>1, SameFiles DEF vars, history
    <2>4. OrderInv'
      BY <1>0, <1>1, <2>3, OrderKept DEF vars, writer, history
    <2> QED
      BY <2>2, <2>3, <2>4 DEF IInv
  <1>2. ASSUME NEW w \in Writers, Create(w)
        PROVE  IInv'
    <2>1. FileInv' /\ SavedInv' /\ NoneComesBack
      BY <1>0, <1>2, SameFiles DEF Create, history
    <2>2. OrderInv'
      <3>1. \A v \in Writers : pc'[v] = "moving" =>
               pc[v] = "moving" /\ filename'[v] = filename[v]
        BY <1>0, <1>2 DEF Create, Edited, WriterInv
      <3> QED
        BY <1>0, <1>2, <2>1, <3>1, OrderKept DEF Create, history
    <2> QED
      BY <1>2, <2>1, <2>2, WriterCreates DEF IInv
  <1>3. ASSUME NEW w \in Writers, Run(w)
        PROVE  IInv'
    <2>1. FileInv' /\ SavedInv' /\ NoneComesBack /\ UNCHANGED saved
      <3>1. CASE UNCHANGED <<dir, captures>>
        BY <1>0, <1>3, <3>1, SameFiles DEF Run
      <3>2. CASE /\ captures < MaxCaptures /\ captures' = captures + 1
                 /\ dir' = With(tmpfile[w], Recording(captures'))
        <4>1. /\ tmpfile[w] \in Names /\ NameOK(tmpfile[w])
              /\ tmpfile[w].stem.temp
          BY <1>0, <1>3 DEF Run, WriterInv, WriterAt
        <4> QED
          BY <1>0, <1>3, <3>2, <4>1, FileOpened DEF Run
      <3> QED
        BY <1>3, <3>1, <3>2 DEF Run
    <2>2. \A v \in Writers : pc'[v] = "moving" =>
               pc[v] = "moving" /\ filename'[v] = filename[v]
      <3>1. CASE Gone(w)
        BY <3>1, GoneKeeps
      <3>2. CASE ~Gone(w)
        BY <1>0, <1>3, <3>2 DEF Run, Edited, WriterInv, writer
      <3> QED
        BY <3>1, <3>2
    <2>3. OrderInv'
      BY <1>0, <2>1, <2>2, OrderKept
    <2> QED
      BY <1>3, <2>1, <2>3, WriterRuns DEF IInv
  <1>4. ASSUME NEW w \in Writers,
               HandleFrame(w) \/ HandleFrameFails(w) \/ DiskFails(w)
        PROVE  IInv'
    <2>1. WriterInv' /\ UNCHANGED <<dir, tmpfile, filename, history>>
      BY <1>4, WriterGoesOn
    <2>2. FileInv' /\ SavedInv' /\ NoneComesBack
      BY <1>0, <2>1, SameFiles DEF history
    <2>3. \A v \in Writers : pc'[v] = "moving" => pc[v] = "moving"
      BY <1>0, <1>4 DEF HandleFrame, HandleFrameFails, DiskFails,
                        CheckForErrors, Throws, Edited, WriterInv
    <2>4. OrderInv'
      BY <1>0, <2>1, <2>2, <2>3, OrderKept DEF history
    <2> QED
      BY <2>1, <2>2, <2>4 DEF IInv
  <1>5. ASSUME NEW w \in Writers, Finish(w)
        PROVE  IInv'
    <2>1. tmpfile[w] \in DOMAIN dir
      BY <1>0, <1>5 DEF Finish, WriterInv, WriterAt
    <2>2. FileInv' /\ SavedInv' /\ NoneComesBack
      BY <1>0, <1>5, <2>1, FileClosed DEF Finish, history
    <2>3. \A v \in Writers : pc'[v] = "moving" =>
               pc[v] = "moving" /\ filename'[v] = filename[v]
      BY <1>0, <1>5 DEF Finish, Edited, WriterInv, writer
    <2>4. OrderInv'
      BY <1>0, <1>5, <2>2, <2>3, OrderKept DEF Finish, history
    <2> QED
      BY <1>5, <2>2, <2>4, WriterFinishes DEF IInv
  <1>6. ASSUME NEW w \in Writers, FinishName(w)
        PROVE  IInv'
    <2>1. FileInv' /\ SavedInv'
      BY <1>0, <1>6, SameFiles DEF FinishName, history
    <2> QED
      BY <1>6, <2>1, OrderNamed, WriterNames DEF IInv
  <1>7. ASSUME NEW w \in Writers, FinishMove(w)
        PROVE  IInv'
    <2>1. /\ Gone(w) /\ pc[w] = "moving" /\ UNCHANGED <<captures, foreign>>
      BY <1>7 DEF FinishMove
    <2>2. CASE UNCHANGED <<dir, saved>>
      <3>1. FileInv' /\ SavedInv' /\ NoneComesBack
        BY <1>0, <2>1, <2>2, SameFiles
      <3>2. OrderInv'
        BY <1>0, <2>1, <2>2, <3>1, GoneKeeps, OrderKept
      <3> QED
        BY <1>7, <3>1, <3>2, WriterMoves DEF IInv
    <2>3. CASE /\ Move(w)
               /\ saved' = Append(saved, [by |-> w, name |-> filename[w],
                                          of |-> dir[tmpfile[w]].of])
      <3>1. /\ tmpfile[w] \in DOMAIN dir /\ tmpfile[w].stem.temp
            /\ filename[w] \in Names /\ NameOK(filename[w])
            /\ ~filename[w].stem.temp
        BY <1>0, <2>1, <2>3 DEF WriterInv, WriterAt, Move, Closed
      <3>2. FileInv' /\ SavedInv' /\ NoneComesBack
        BY <1>0, <2>1, <2>3, <3>1, FileMoved DEF Move
      <3>3. /\ pc'[w] # "moving"
            /\ \A v \in Writers \ {w} :
                 pc'[v] = pc[v] /\ filename'[v] = filename[v]
        BY <1>0, <2>1 DEF Gone, Edited, WriterInv
      <3>4. OrderInv'
        BY <2>1, <2>3, <3>2, <3>3, OrderMoved
      <3> QED
        BY <1>7, <3>2, <3>4, WriterMoves DEF IInv
    <2> QED
      BY <1>7, <2>2, <2>3 DEF FinishMove
  <1>8. ASSUME NEW w \in Writers, Crash(w)
        PROVE  IInv'
    <2>1. Gone(w) /\ UNCHANGED history
      BY <1>8 DEF Crash
    <2>2. FileInv' /\ SavedInv' /\ NoneComesBack
      <3>1. CASE UNCHANGED dir
        BY <1>0, <2>1, <3>1, SameFiles DEF history
      <3>2. CASE /\ pc[w] \in {"writing", "unwinding"}
                 /\ dir' = [dir EXCEPT ![tmpfile[w]].open = FALSE]
        <4>1. tmpfile[w] \in DOMAIN dir
          BY <1>0, <3>2 DEF WriterInv, WriterAt
        <4> QED
          BY <1>0, <2>1, <3>2, <4>1, FileClosed DEF history
      <3> QED
        BY <1>8, <3>1, <3>2 DEF Crash
    <2>3. OrderInv'
      BY <1>0, <2>1, <2>2, GoneKeeps, OrderKept DEF history
    <2> QED
      BY <1>8, <2>2, <2>3, WriterCrashes DEF IInv
  <1>9. CASE RemoveFile \/ AddFile
    <2>1. FileInv' /\ SavedInv' /\ NoneComesBack
      <3>1. CASE RemoveFile
        BY <1>0, <3>1, FileRemoved DEF RemoveFile
      <3>2. CASE AddFile
        <4>1. PICK k \in ForeignNumbers \cup {[width |-> 0, number |-> 0]},
                   date \in Dates :
                LET n == [stem |-> CaptureStem(FALSE, date),
                          width |-> k.width, number |-> k.number]
                IN  n \notin DOMAIN dir /\ dir' = With(n, Foreign)
          BY <3>2 DEF AddFile
        <4> DEFINE n == [stem |-> CaptureStem(FALSE, date),
                         width |-> k.width, number |-> k.number]
        <4>2. n \in Names /\ NameOK(n) /\ ~n.stem.temp
          BY ForeignName
        <4>3. n \notin DOMAIN dir /\ dir' = With(n, Foreign)
          BY <4>1
        <4> HIDE DEF n
        <4> QED
          BY <1>0, <3>2, <4>2, <4>3, FileAdded DEF AddFile
      <3> QED
        BY <1>9, <3>1, <3>2
    <2>2. OrderInv'
      BY <1>0, <1>9, <2>1, OrderKept DEF RemoveFile, AddFile, writer
    <2> QED
      BY <1>9, <2>1, <2>2, OthersComeAndGo DEF IInv
  <1> QED
    BY <1>1, <1>2, <1>3, <1>4, <1>5, <1>6, <1>7, <1>8, <1>9 DEF Next

\* The invariant holds throughout.
LEMMA Inductive == Spec => []IInv
  BY InitInv, StepInv, PTL DEF Spec

-----------------------------------------------------------------------------
(* What follows                                                             *)

Kept == \A n \in DOMAIN dir : ~n.stem.temp =>
            n \in DOMAIN dir' /\ dir'[n] = dir[n]

\* A step that leaves the other programs' files alone changes files with a
\* temporary name only, and gives none a name that is taken.
LEMMA StepKeeps ==
    ASSUME IInv, Next, foreign' = foreign
    PROVE  Kept
  <1>1. CASE UNCHANGED dir
    BY <1>1 DEF Kept
  <1>2. ASSUME NEW w \in Writers, Run(w)
        PROVE  Kept
    <2>1. tmpfile[w].stem.temp = TRUE
      BY <1>2 DEF Run, IInv, WriterInv, WriterAt
    <2> QED
      BY <1>2, <2>1, <1>1 DEF Run, With, Kept
  <1>3. ASSUME NEW w \in Writers, Finish(w) \/ Crash(w)
        PROVE  Kept
    <2>1. tmpfile[w].stem.temp = TRUE
      BY <1>3 DEF Finish, Crash, IInv, WriterInv, WriterAt
    <2>2. \/ UNCHANGED dir
          \/ dir' = [dir EXCEPT ![tmpfile[w]].open = FALSE]
      BY <1>3 DEF Finish, Crash
    <2> QED
      BY <2>1, <2>2 DEF Kept
  <1>4. ASSUME NEW w \in Writers, FinishMove(w)
        PROVE  Kept
    <2>1. tmpfile[w].stem.temp = TRUE
      BY <1>4 DEF FinishMove, IInv, WriterInv, WriterAt
    <2>2. CASE Move(w)
      BY <2>1, <2>2 DEF Move, Kept
    <2> QED
      BY <1>1, <1>4, <2>2 DEF FinishMove
  <1>5. ~RemoveFile /\ ~AddFile
    <2>1. foreign \in Nat
      BY WriterAssumption DEF IInv, FileInv
    <2>2. foreign' # foreign + 1
      BY <2>1, SMT
    <2> QED
      BY <2>2 DEF RemoveFile, AddFile
  <1>6. ASSUME NEW w \in Writers,
               \/ Create(w) \/ HandleFrame(w) \/ HandleFrameFails(w)
               \/ DiskFails(w) \/ FinishName(w)
        PROVE  UNCHANGED dir
    BY <1>6 DEF Create, HandleFrame, HandleFrameFails, DiskFails, FinishName
  <1> QED
    BY <1>1, <1>2, <1>3, <1>4, <1>5, <1>6 DEF Next

\* Whoever captures into the folder at the same time, no file that has its
\* final name is overwritten or lost (the flags of MoveFileExW,
\* AviWriter.cpp:88).
THEOREM FinishedFilesAreKept == Spec => FinishedKept
  <1>1. IInv /\ [Next]_vars => [foreign' = foreign => Kept]_vars
    BY StepKeeps
  <1> QED
    BY <1>1, Inductive, PTL DEF Spec, FinishedKept, Kept

\* A name that is picked is free, unless numbers have run out.
LEMMA PickedIsFree ==
    ASSUME FolderInv, NEW stem, NEW digits \in 0..MaxDigits,
           NEW name \in NextFree(stem, digits), ~RunOut
    PROVE  name \notin DOMAIN dir
  <1>1. /\ name.stem = stem /\ NameOK(name)
        /\ name.width > MaxDigits => name.number >= 10^MaxDigits
        /\ \A x \in DOMAIN dir :
             x.stem = stem /\ x.width <= MaxDigits => Later(x, name)
    BY PickedName
  <1> SUFFICES ASSUME name \in DOMAIN dir PROVE FALSE
    OBVIOUS
  <1>2. name.width \in Nat /\ name.number \in Nat /\ MaxDigits \in Nat
    BY <1>1, WriterAssumption DEF NameOK
  <1>3. CASE name.width <= MaxDigits
    BY <1>1, <1>2, <1>3 DEF Later
  <1>4. CASE name.width > MaxDigits
    BY <1>1, <1>4 DEF RunOut
  <1> QED
    BY <1>2, <1>3, <1>4

Free == \A w \in Writers : ~RunOut =>
          /\ tmpfile'[w] \notin DOMAIN dir
               \/ tmpfile'[w] \in {tmpfile[w], NoName}
          /\ filename'[w] \notin DOMAIN dir
               \/ filename'[w] \in {filename[w], NoName}

\* A step picks names that are free.
LEMMA StepPicksFree ==
    ASSUME IInv, Next
    PROVE  Free
  <1>0. WriterInv /\ FolderInv
    BY DEF IInv, FileInv
  <1>1. CASE UNCHANGED <<tmpfile, filename>>
    BY <1>1 DEF Free
  <1>2. ASSUME NEW w \in Writers, Gone(w)
        PROVE  Free
    BY <1>0, <1>2 DEF Gone, Edited, Free, WriterInv
  <1>3. ASSUME NEW w \in Writers, Create(w)
        PROVE  Free
    <2>1. PICK frame \in Frames, digits \in Digits :
            \E name \in NextFree(CaptureStem(TRUE, TimeOf[frame]), digits) :
                tmpfile' = Edited(tmpfile, w, name)
      BY <1>3 DEF Create
    <2>2. PICK name \in NextFree(CaptureStem(TRUE, TimeOf[frame]), digits) :
            tmpfile' = Edited(tmpfile, w, name)
      BY <2>1
    <2>3. digits \in 0..MaxDigits
      BY WriterAssumption
    <2>4. ~RunOut => name \notin DOMAIN dir
      BY <1>0, <2>3, PickedIsFree
    <2> QED
      BY <1>0, <1>3, <2>2, <2>4 DEF Create, Edited, Free, WriterInv
  <1>4. ASSUME NEW w \in Writers, FinishName(w)
        PROVE  Free
    <2>1. PICK name \in NextFree(CaptureStem(FALSE, dvTime[w]), ndigits[w]) :
            filename' = Edited(filename, w, name)
      BY <1>4 DEF FinishName
    <2>2. ndigits[w] \in 0..MaxDigits
      BY <1>0 DEF WriterInv
    <2>3. ~RunOut => name \notin DOMAIN dir
      BY <1>0, <2>2, PickedIsFree
    <2> QED
      BY <1>0, <1>4, <2>1, <2>3 DEF FinishName, Edited, Free, WriterInv
  <1>5. ASSUME NEW w \in Writers, Run(w) \/ FinishMove(w) \/ Crash(w)
        PROVE  Free
    BY <1>1, <1>2, <1>5 DEF Run, FinishMove, Crash, writer
  <1>6. ASSUME NEW w \in Writers,
               \/ HandleFrame(w) \/ HandleFrameFails(w) \/ DiskFails(w)
               \/ Finish(w)
        PROVE  Free
    BY <1>1, <1>6 DEF HandleFrame, HandleFrameFails, DiskFails, Finish, writer
  <1>7. CASE RemoveFile \/ AddFile
    BY <1>1, <1>7 DEF RemoveFile, AddFile, writer
  <1> QED
    BY <1>3, <1>4, <1>5, <1>6, <1>7 DEF Next

\* A name that was just picked is free, also the temporary one, as long as
\* nine digits have not run out (CaptureNaming.cpp:44).
THEOREM NamesAreFree == Spec => NameIsFree
  <1>1. IInv /\ [Next]_vars => [Free]_vars
    BY StepPicksFree
  <1> QED
    BY <1>1, Inductive, PTL DEF Spec, NameIsFree, Free

\* The files of one program that are still there keep the order they were
\* captured in (NextCaptureFilename, CaptureNaming.cpp:44).
THEOREM NamesKeepOrder == Spec => []NamesGrow
  <1>1. IInv => NamesGrow
    BY DEF IInv, OrderInv
  <1> QED
    BY <1>1, Inductive, PTL

-----------------------------------------------------------------------------
(* Write errors                                                             *)

\* What is unnoticed of an error came since the events were last read.
UnnoticedAt(w) ==
    /\ pc[w] = "writing" => unnoticed[w] <= since[w]
    /\ ~event[w] => unnoticed[w] = 0
    /\ pc[w] \in {"none", "creating"} => since[w] = 0 /\ unnoticed[w] = 0
UnnoticedInv ==
    /\ DOMAIN pc = Writers /\ event \in [Writers -> BOOLEAN]
    /\ since \in [Writers -> 0..(CheckEvery - 1)]
    /\ unnoticed \in [Writers -> Nat]
    /\ \A w \in Writers : UnnoticedAt(w)

\* No events, no frames.
LEMMA UnnoticedInit == Init => UnnoticedInv
  BY WriterAssumption DEF Init, UnnoticedInv, UnnoticedAt

\* A step of one writer that keeps its own part keeps all.
Only(w) ==
    /\ DOMAIN pc' = Writers /\ event' \in [Writers -> BOOLEAN]
    /\ since' \in [Writers -> 0..(CheckEvery - 1)]
    /\ unnoticed' \in [Writers -> Nat]
    /\ \A v \in Writers \ {w} :
         /\ pc'[v] = pc[v] /\ event'[v] = event[v]
         /\ since'[v] = since[v] /\ unnoticed'[v] = unnoticed[v]

LEMMA OneWriter ==
    ASSUME UnnoticedInv, NEW w \in Writers, Only(w), UnnoticedAt(w)'
    PROVE  UnnoticedInv'
  BY DEF UnnoticedInv, UnnoticedAt, Only

\* Every step keeps what is known of events.
LEMMA UnnoticedStep == UnnoticedInv /\ [Next]_vars => UnnoticedInv'
  <1> SUFFICES ASSUME UnnoticedInv, [Next]_vars PROVE UnnoticedInv'
    OBVIOUS
  <1> USE WriterAssumption DEF Edited
  <1>1. CASE UNCHANGED <<pc, checks>>
    BY <1>1 DEF UnnoticedInv, UnnoticedAt, checks
  <1>2. ASSUME NEW w \in Writers, Gone(w)
        PROVE  UnnoticedInv'
    BY <1>2, OneWriter DEF Gone, Only, UnnoticedInv, UnnoticedAt
  <1>3. ASSUME NEW w \in Writers, Create(w) \/ Run(w)
        PROVE  UnnoticedInv'
    <2>1. CASE Gone(w)
      BY <1>2, <2>1
    <2>2. CASE ~Gone(w)
      <3>1. /\ UNCHANGED checks
            /\ \/ pc[w] = "none" /\ pc' = [pc EXCEPT ![w] = "creating"]
               \/ pc[w] = "creating" /\ pc' = [pc EXCEPT ![w] = "writing"]
        BY <1>3, <2>2 DEF Create, Run
      <3>2. Only(w)
        BY <3>1 DEF checks, Only, UnnoticedInv
      <3>3. UnnoticedAt(w)'
        BY <3>1 DEF checks, UnnoticedInv, UnnoticedAt
      <3> QED
        BY <3>2, <3>3, OneWriter
    <2> QED
      BY <2>1, <2>2
  <1>4. ASSUME NEW w \in Writers, HandleFrame(w)
        PROVE  UnnoticedInv'
    <2> DEFINE notFull == since[w] + 1 < CheckEvery
    <2>1. /\ pc[w] = "writing" /\ event' = event
          /\ unnoticed' = IF event[w]
                            THEN [unnoticed EXCEPT ![w] = unnoticed[w] + 1]
                            ELSE unnoticed
          /\ since' = [since EXCEPT ![w] = IF notFull THEN since[w] + 1
                                                      ELSE 0]
          /\ \/ notFull \/ ~event[w]
             \/ pc' = [pc EXCEPT ![w] = "unwinding"]
          /\ UNCHANGED pc \/ pc' = [pc EXCEPT ![w] = "unwinding"]
      BY <1>4 DEF HandleFrame, CheckForErrors, Throws, UnnoticedInv
    <2>2. Only(w)
      BY <2>1 DEF Only, UnnoticedInv
    <2>3. UnnoticedAt(w)'
      BY <2>1 DEF UnnoticedInv, UnnoticedAt
    <2> QED
      BY <2>2, <2>3, OneWriter
  <1>5. ASSUME NEW w \in Writers,
               HandleFrameFails(w) \/ DiskFails(w) \/ FinishName(w)
        PROVE  UnnoticedInv'
    <2>1. /\ UNCHANGED <<since, unnoticed>>
          /\ \/ UNCHANGED event /\ pc' = [pc EXCEPT ![w] = "unwinding"]
             \/ UNCHANGED event /\ pc' = [pc EXCEPT ![w] = "moving"]
             \/ UNCHANGED pc /\ event' = [event EXCEPT ![w] = TRUE]
      BY <1>5 DEF HandleFrameFails, Throws, DiskFails, FinishName, checks
    <2>2. Only(w)
      BY <2>1 DEF Only, UnnoticedInv
    <2>3. UnnoticedAt(w)'
      BY <2>1 DEF UnnoticedInv, UnnoticedAt
    <2> QED
      BY <2>2, <2>3, OneWriter
  <1>6. ASSUME NEW w \in Writers, Finish(w)
        PROVE  UnnoticedInv'
    <2>1. Only(w)
      BY <1>6 DEF Finish, Only, UnnoticedInv
    <2>2. UnnoticedAt(w)'
      BY <1>6 DEF Finish, UnnoticedInv, UnnoticedAt
    <2> QED
      BY <2>1, <2>2, OneWriter
  <1>7. ASSUME NEW w \in Writers, FinishMove(w) \/ Crash(w)
        PROVE  UnnoticedInv'
    BY <1>2, <1>7 DEF FinishMove, Crash
  <1>8. CASE RemoveFile \/ AddFile
    BY <1>1, <1>8 DEF RemoveFile, AddFile
  <1> QED
    BY <1>1, <1>3, <1>4, <1>5, <1>6, <1>7, <1>8 DEF Next, vars

\* While frames come, fewer than CheckEvery of them follow a write error
\* unnoticed (COutputGraph::CheckForErrors, OutputGraph.cpp:171).
THEOREM ErrorsAreNoticed == Spec => []ErrorsNoticed
  <1>1. UnnoticedInv => ErrorsNoticed
    BY WriterAssumption DEF UnnoticedInv, UnnoticedAt, ErrorsNoticed
  <1> QED
    BY <1>1, UnnoticedInit, UnnoticedStep, PTL DEF Spec

\* Every variable keeps to its values.
THEOREM TypeCorrect == Spec => []TypeOK
  <1>1. IInv /\ UnnoticedInv => TypeOK
    BY WriterAssumption DEF IInv, FileInv, WriterInv, WriterAt, NameOK,
                            UnnoticedInv, TypeOK
  <1> QED
    BY <1>1, Inductive, UnnoticedInit, UnnoticedStep, PTL DEF Spec
=============================================================================
