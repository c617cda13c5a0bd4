-------------------------- MODULE GlobMatchProofs --------------------------
(***************************************************************************)
(* The greedy search decides what a glob means, for every pattern and      *)
(* every text, over any letters.                                           *)
(*                                                                         *)
(* The argument: up to a star the pattern reaches a set of offsets of the  *)
(* text, and behind the star every offset from the least of them on.  So   *)
(* only the least matters, and the first occurrence of the next segment is *)
(* what leads to the next least.  If a segment occurs nowhere, nothing is  *)
(* reached any more.                                                       *)
(*                                                                         *)
(* Reach is recursive over the pattern.  The induction it takes is over a  *)
(* set: a set of numbers with zero and the successor of each of its        *)
(* elements has all of them, because the others would have a least one.    *)
(***************************************************************************)
EXTENDS GlobMatch, FiniteSetTheorems, TLAPS

InputsOK == pattern \in Seq(Char) /\ text \in Seq(Char)

\* Induction, over a set instead of a predicate.
LEMMA SetInduction ==
    ASSUME NEW T, 0 \in T, \A n \in Nat : n \in T => n + 1 \in T
    PROVE  \A n \in Nat : n \in T
  <1> DEFINE Others == Nat \ T
  <1> SUFFICES ASSUME Others # {}
               PROVE  FALSE
    OBVIOUS
  <1>1. PICK n \in Others : \A m \in Others : ~(<<m, n>> \in OpToRel(<, Nat))
    <2>1. IsWellFoundedOn(OpToRel(<, Nat), Nat)
      BY NatLessThanWellFounded
    <2>2. Others \subseteq Nat
      OBVIOUS
    <2> HIDE DEF Others
    <2> QED BY <2>1, <2>2, WFMin
  <1>2. \A m \in Nat : m < n => m \in T
    BY <1>1 DEF OpToRel
  <1>3. n # 0 /\ n - 1 \in Nat /\ n - 1 < n
    OBVIOUS
  <1>4. n - 1 \in T
    BY <1>2, <1>3
  <1> QED BY <1>3, <1>4

\* A set of numbers that is not empty has a least one.
LEMMA LeastExists ==
    ASSUME NEW S \in SUBSET Nat, S # {}
    PROVE  \E x \in S : \A y \in S : x <= y
  <1>1. PICK n \in S : \A m \in S : ~(<<m, n>> \in OpToRel(<, Nat))
    <2>1. IsWellFoundedOn(OpToRel(<, Nat), Nat)
      BY NatLessThanWellFounded
    <2> QED BY <2>1, WFMin
  <1>2. ASSUME NEW m \in S
        PROVE  n <= m
    <2>1. n \in Nat /\ m \in Nat
      OBVIOUS
    <2>2. ~(m < n)
      BY <1>1, <2>1 DEF OpToRel
    <2> QED BY <2>1, <2>2
  <1> QED BY <1>2

-----------------------------------------------------------------------------
(* The cuts: the k-th of them is the k-th smallest end.                    *)

\* The ends before one; their number is its rank.
Before(i) == {j \in Ends : j < i}

\* The ends are finitely many numbers.
LEMMA EndsFinite ==
    ASSUME InputsOK
    PROVE  /\ Ends \subseteq 0 .. Len(pattern) + 1
           /\ IsFiniteSet(Ends) /\ IsFiniteSet(Stars)
           /\ Cardinality(Stars) \in Nat
           /\ Cardinality(Ends) = NumParts + 1
           /\ \A i : IsFiniteSet(Before(i)) /\ Cardinality(Before(i)) \in Nat
  <1> DEFINE m == Len(pattern)
  <1>1. m \in Nat
    BY DEF InputsOK
  <1>2. Stars \subseteq 1 .. m /\ Ends \subseteq 0 .. m + 1
    BY <1>1 DEF Stars, Ends
  <1>3. IsFiniteSet(Ends)
    <2>1. IsFiniteSet(0 .. m + 1)
      BY <1>1, FS_Interval
    <2> QED BY <1>2, <2>1, FS_Subset
  <1>4. IsFiniteSet(Stars)
    <2>1. Stars \in SUBSET Ends
      BY DEF Ends
    <2> QED BY <1>3, <2>1, FS_Subset
  <1>5. Cardinality(Stars) \in Nat
    BY <1>4, FS_CardinalityType
  <1>6. Cardinality(Ends) = Cardinality(Stars) + 2
    <2>1. 0 \notin Stars /\ m + 1 \notin Stars \cup {0}
      BY <1>1, <1>2
    <2>2. IsFiniteSet(Stars \cup {0}) /\ Cardinality(Stars \cup {0}) = Cardinality(Stars) + 1
      BY <1>4, <2>1, FS_AddElement
    <2>3. Cardinality((Stars \cup {0}) \cup {m + 1}) = Cardinality(Stars \cup {0}) + 1
      BY <2>1, <2>2, FS_AddElement
    <2>4. Ends = (Stars \cup {0}) \cup {m + 1}
      BY DEF Ends
    <2> QED BY <1>5, <2>2, <2>3, <2>4
  <1>7. ASSUME NEW i
        PROVE  IsFiniteSet(Before(i)) /\ Cardinality(Before(i)) \in Nat
    <2>1. Before(i) \in SUBSET Ends
      BY DEF Before
    <2> QED BY <1>3, <2>1, FS_Subset, FS_CardinalityType
  <1> QED BY <1>2, <1>3, <1>4, <1>5, <1>6, <1>7 DEF NumParts

\* Of two ends, the earlier has fewer before it.
LEMMA BeforeGrows ==
    ASSUME InputsOK, NEW i \in Ends, NEW j \in Ends, i < j
    PROVE  Cardinality(Before(i)) < Cardinality(Before(j))
  <1>1. i \in Nat /\ j \in Nat
    BY EndsFinite DEF InputsOK
  <1>2. Before(i) \cup {i} \in SUBSET Before(j)
    <2>1. Ends \subseteq Nat
      BY EndsFinite DEF InputsOK
    <2>2. \A e \in Ends : e < i \/ e = i => e < j
      BY <1>1, <2>1
    <2> QED BY <2>2 DEF Before
  <1>3. i \notin Before(i)
    BY <1>1 DEF Before
  <1>4. Cardinality(Before(i) \cup {i}) = Cardinality(Before(i)) + 1
    BY <1>3, EndsFinite, FS_AddElement
  <1>5. Cardinality(Before(i) \cup {i}) <= Cardinality(Before(j))
    BY <1>2, EndsFinite, FS_Subset
  <1> QED BY <1>4, <1>5, EndsFinite

\* Every end but the last has a next one, whose rank is one more.
LEMMA NextEnd ==
    ASSUME InputsOK, NEW i \in Ends, i # Len(pattern) + 1
    PROVE  \E j \in Ends : /\ i < j /\ \A e \in Ends : ~(i < e /\ e < j)
                           /\ Cardinality(Before(j)) = Cardinality(Before(i)) + 1
  <1>1. Ends \subseteq Nat /\ i \in Nat /\ i < Len(pattern) + 1 /\ Len(pattern) + 1 \in Ends
    BY EndsFinite DEF InputsOK, Ends
  <1> DEFINE later == {e \in Ends : i < e}
  <1>2. PICK j \in later : \A e \in later : j <= e
    <2>1. later \in SUBSET Nat /\ later # {}
      BY <1>1
    <2> HIDE DEF later
    <2> QED BY <2>1, LeastExists
  <1>3. j \in Nat /\ i < j /\ \A e \in Ends : ~(i < e /\ e < j)
    BY <1>1, <1>2
  <1>4. Before(j) = Before(i) \cup {i} /\ i \notin Before(i)
    <2>1. \A e \in Ends : e < j <=> e < i \/ e = i
      BY <1>1, <1>3
    <2>2. i \notin Before(i)
      BY <1>1 DEF Before
    <2> QED BY <2>1, <2>2 DEF Before
  <1>5. Cardinality(Before(j)) = Cardinality(Before(i)) + 1
    BY <1>4, EndsFinite, FS_AddElement
  <1> QED BY <1>2, <1>3, <1>5

\* The first end is 0, the last is behind the pattern.
LEMMA OuterEnds ==
    ASSUME InputsOK
    PROVE  /\ 0 \in Ends /\ Cardinality(Before(0)) = 0
           /\ Len(pattern) + 1 \in Ends
           /\ Cardinality(Before(Len(pattern) + 1)) = NumParts
  <1>1. Ends \subseteq 0 .. Len(pattern) + 1 /\ Len(pattern) \in Nat
    BY EndsFinite DEF InputsOK
  <1>2. 0 \in Ends /\ Len(pattern) + 1 \in Ends
    BY DEF Ends
  <1>3. Before(0) = {}
    <2>1. \A e \in Ends : ~(e < 0)
      BY <1>1
    <2> QED BY <2>1 DEF Before
  <1>4. Before(Len(pattern) + 1) = Ends \ {Len(pattern) + 1}
    <2>1. \A e \in Ends : e < Len(pattern) + 1 <=> e # Len(pattern) + 1
      BY <1>1
    <2> QED BY <2>1 DEF Before
  <1>5. Cardinality(Before(Len(pattern) + 1)) = Cardinality(Ends) - 1
    BY <1>2, <1>4, EndsFinite, FS_RemoveElement
  <1>6. NumParts \in Nat
    BY EndsFinite DEF NumParts
  <1> QED BY <1>2, <1>3, <1>5, <1>6, EndsFinite, FS_EmptySet

\* Cut(k) is the k-th end.
LEMMA CutIsEnd ==
    ASSUME InputsOK, NEW k \in 1 .. NumParts + 1
    PROVE  Cut(k) \in Ends /\ Cardinality(Before(Cut(k))) = k - 1
  <1> DEFINE HasEnd(r) == \E i \in Ends : Cardinality(Before(i)) = r
             T == {r \in Nat : r <= NumParts => HasEnd(r)}
  <1>1. NumParts \in Nat
    BY EndsFinite DEF NumParts
  <1>2. 0 \in T
    BY OuterEnds
  <1>3. ASSUME NEW r \in Nat, r \in T, r + 1 <= NumParts
        PROVE  HasEnd(r + 1)
    <2>1. PICK i \in Ends : Cardinality(Before(i)) = r
      BY <1>1, <1>3
    <2>2. i # Len(pattern) + 1
      BY <1>1, <1>3, <2>1, OuterEnds
    <2> QED BY <2>1, <2>2, NextEnd
  <1> HIDE DEF HasEnd
  <1>4. \A r \in Nat : r \in T => r + 1 \in T
    BY <1>3
  <1>5. k - 1 \in T
    <2> HIDE DEF T
    <2> QED BY <1>1, <1>2, <1>4, SetInduction
  <1>6. \E i \in Ends : Cardinality(Before(i)) = k - 1
    BY <1>1, <1>5 DEF HasEnd
  <1> QED BY <1>6 DEF Cut, Before

\* The last cut is behind the pattern, the first before it, and those between
\* them are stars.
LEMMA CutsAre ==
    ASSUME InputsOK
    PROVE  /\ NumParts \in Nat \ {0}
           /\ Cut(1) = 0 /\ Cut(NumParts + 1) = Len(pattern) + 1
           /\ \A k \in 2 .. NumParts : Cut(k) \in Stars
  <1>1. NumParts \in Nat \ {0} /\ Ends \subseteq Nat
    BY EndsFinite DEF NumParts
  <1>2. ASSUME NEW k \in 1 .. NumParts + 1, NEW e \in Ends, Cardinality(Before(e)) = k - 1
        PROVE  Cut(k) = e
    <2>1. Cut(k) \in Ends /\ Cardinality(Before(Cut(k))) = k - 1
      BY CutIsEnd
    <2>2. Cut(k) \in Nat /\ e \in Nat
      BY <1>1, <2>1
    <2>3. ~(Cut(k) < e)
      <3> SUFFICES ASSUME Cut(k) < e
                   PROVE  FALSE
        OBVIOUS
      <3>1. Cardinality(Before(Cut(k))) < Cardinality(Before(e))
        BY <2>1, BeforeGrows
      <3> QED BY <1>1, <1>2, <2>1, <3>1
    <2>4. ~(e < Cut(k))
      <3> SUFFICES ASSUME e < Cut(k)
                   PROVE  FALSE
        OBVIOUS
      <3>1. Cardinality(Before(e)) < Cardinality(Before(Cut(k)))
        BY <2>1, BeforeGrows
      <3> QED BY <1>1, <1>2, <2>1, <3>1
    <2> QED BY <2>2, <2>3, <2>4
  <1>3. Cut(1) = 0 /\ Cut(NumParts + 1) = Len(pattern) + 1
    <2>1. Cardinality(Before(0)) = 1 - 1
      BY OuterEnds
    <2>2. Cardinality(Before(Len(pattern) + 1)) = NumParts + 1 - 1
      BY <1>1, OuterEnds
    <2> QED BY <1>1, <1>2, <2>1, <2>2, OuterEnds
  <1>4. ASSUME NEW k \in 2 .. NumParts
        PROVE  Cut(k) \in Stars
    <2>1. Cut(k) \in Ends /\ Cardinality(Before(Cut(k))) = k - 1
      BY <1>1, CutIsEnd
    <2>2. Cut(k) # 0 /\ Cut(k) # Len(pattern) + 1
      BY <1>1, <2>1, OuterEnds
    <2> QED BY <2>1, <2>2 DEF Ends
  <1> QED BY <1>1, <1>3, <1>4

\* Between a cut and the next there is no star.
LEMMA NoStarInPart ==
    ASSUME InputsOK, NEW k \in 1 .. NumParts
    PROVE  /\ Cut(k) \in 0 .. Len(pattern) /\ Cut(k + 1) \in 1 .. Len(pattern) + 1
           /\ Cut(k) < Cut(k + 1)
           /\ \A i \in Cut(k) + 1 .. Cut(k + 1) - 1 : i \in 1 .. Len(pattern) /\ pattern[i] # Star
  <1>1. NumParts \in Nat \ {0} /\ Ends \subseteq 0 .. Len(pattern) + 1 /\ Len(pattern) \in Nat
    BY CutsAre, EndsFinite DEF InputsOK
  <1>2. k \in 1 .. NumParts + 1 /\ k + 1 \in 1 .. NumParts + 1 /\ k \in Nat
    BY <1>1
  <1>3. /\ Cut(k) \in Ends /\ Cardinality(Before(Cut(k))) = k - 1
        /\ Cut(k + 1) \in Ends /\ Cardinality(Before(Cut(k + 1))) = k + 1 - 1
    BY <1>2, CutIsEnd
  <1>4. Cut(k) \in 0 .. Len(pattern) + 1 /\ Cut(k + 1) \in 0 .. Len(pattern) + 1
    BY <1>1, <1>3
  <1>5. Cut(k) < Cut(k + 1)
    <2>1. Cut(k) # Cut(k + 1)
      BY <1>2, <1>3
    <2>2. ~(Cut(k + 1) < Cut(k))
      BY <1>2, <1>3, BeforeGrows
    <2> QED BY <1>4, <2>1, <2>2
  <1>6. ASSUME NEW i \in Cut(k) + 1 .. Cut(k + 1) - 1
        PROVE  i \in 1 .. Len(pattern) /\ pattern[i] # Star
    <2>1. i \in 1 .. Len(pattern) /\ Cut(k) < i /\ i < Cut(k + 1) /\ i \in Int
      BY <1>1, <1>4
    <2>2. i \notin Ends
      <3> SUFFICES ASSUME i \in Ends
                   PROVE  FALSE
        OBVIOUS
      <3>1. /\ Cardinality(Before(Cut(k))) < Cardinality(Before(i))
            /\ Cardinality(Before(i)) < Cardinality(Before(Cut(k + 1)))
        BY <1>3, <2>1, BeforeGrows
      <3> QED BY <1>2, <1>3, <3>1, EndsFinite
    <2> QED BY <2>1, <2>2 DEF Ends, Stars
  <1> QED BY <1>1, <1>4, <1>5, <1>6
-----------------------------------------------------------------------------
(* What the patterns reach.                                                *)

\* What character i of the pattern makes of the reach before it.
Extended(i, reach) ==
    IF pattern[i] = Star
    THEN {j \in 0 .. Len(text) : \E k \in reach : k <= j}
    ELSE {j \in 1 .. Len(text) : pattern[i] = text[j] /\ j - 1 \in reach}

\* f has the reaches of the first n characters.
Reaches(f, n) ==
    /\ f[0] = {0}
    /\ \A i \in 1 .. n : f[i] = Extended(i, f[i - 1])

\* Every pattern has its reaches.
LEMMA ReachExists ==
    ASSUME InputsOK
    PROVE  \E f \in [0 .. Len(pattern) -> SUBSET (0 .. Len(text))] : Reaches(f, Len(pattern))
  <1> DEFINE HasReach(n) == \E f \in [0 .. n -> SUBSET (0 .. Len(text))] : Reaches(f, n)
             T == {n \in Nat : n <= Len(pattern) => HasReach(n)}
  <1>1. Len(pattern) \in Nat /\ Len(text) \in Nat
    BY DEF InputsOK
  <1>2. 0 \in T
    <2>1. [i \in 0 .. 0 |-> {0}] \in [0 .. 0 -> SUBSET (0 .. Len(text))]
          /\ Reaches([i \in 0 .. 0 |-> {0}], 0)
      BY <1>1 DEF Reaches
    <2> QED BY <2>1
  <1>3. ASSUME NEW n \in Nat, n \in T, n + 1 <= Len(pattern)
        PROVE  HasReach(n + 1)
    <2>1. PICK f \in [0 .. n -> SUBSET (0 .. Len(text))] : Reaches(f, n)
      BY <1>1, <1>3
    <2> DEFINE next == Extended(n + 1, f[n])
               g == [i \in 0 .. n + 1 |-> IF i = n + 1 THEN next ELSE f[i]]
    <2>2. next \in SUBSET (0 .. Len(text))
      BY DEF Extended
    <2> HIDE DEF next
    <2>3. g \in [0 .. n + 1 -> SUBSET (0 .. Len(text))]
      BY <2>2
    <2>4. g[0] = {0} /\ g[n + 1] = next /\ \A i \in 0 .. n : g[i] = f[i]
      BY <2>1 DEF Reaches
    <2> HIDE DEF g
    <2>5. \A i \in 1 .. n + 1 : g[i] = Extended(i, g[i - 1])
      <3> SUFFICES ASSUME NEW i \in 1 .. n + 1
                   PROVE  g[i] = Extended(i, g[i - 1])
        OBVIOUS
      <3>1. CASE i \in 1 .. n
        <4>1. i \in 0 .. n /\ i - 1 \in 0 .. n
          BY <3>1
        <4>2. f[i] = Extended(i, f[i - 1])
          BY <2>1, <3>1 DEF Reaches
        <4> QED BY <2>4, <4>1, <4>2
      <3>2. CASE i = n + 1
        <4>1. i - 1 = n /\ n \in 0 .. n
          BY <3>2
        <4> QED BY <2>4, <3>2, <4>1 DEF next
      <3> QED BY <3>1, <3>2
    <2>6. Reaches(g, n + 1)
      BY <2>4, <2>5 DEF Reaches
    <2> QED BY <2>3, <2>6
  <1> HIDE DEF HasReach
  <1>4. \A n \in Nat : n \in T => n + 1 \in T
    BY <1>3
  <1>5. Len(pattern) \in T
    <2> HIDE DEF T
    <2> QED BY <1>1, <1>2, <1>4, SetInduction
  <1> QED BY <1>1, <1>5 DEF HasReach

\* Reach has them.
LEMMA ReachUnfolds ==
    ASSUME InputsOK
    PROVE  /\ Reach[0] = {0}
           /\ \A i \in 1 .. Len(pattern) : Reach[i] = Extended(i, Reach[i - 1])
           /\ \A i \in 0 .. Len(pattern) : Reach[i] \subseteq 0 .. Len(text)
  <1> DEFINE IsReach(f) ==
                 f = [i \in 0 .. Len(pattern) |->
                         IF i = 0 THEN {0}
                         ELSE IF pattern[i] = Star
                              THEN {j \in 0 .. Len(text) : \E k \in f[i - 1] : k <= j}
                              ELSE {j \in 1 .. Len(text) :
                                       pattern[i] = text[j] /\ j - 1 \in f[i - 1]}]
             reach == CHOOSE f : IsReach(f)
  <1>1. Len(pattern) \in Nat /\ Len(text) \in Nat
    BY DEF InputsOK
  <1>2. PICK f \in [0 .. Len(pattern) -> SUBSET (0 .. Len(text))] : Reaches(f, Len(pattern))
    BY ReachExists
  <1>3. IsReach(f)
    <2>1. \A i \in 0 .. Len(pattern) :
              f[i] = IF i = 0 THEN {0} ELSE Extended(i, f[i - 1])
      BY <1>1, <1>2 DEF Reaches
    <2> QED BY <2>1 DEF Extended
  <1>4. IsReach(reach)
    <2> HIDE DEF IsReach
    <2> QED BY <1>3
  <1>5. Reach = reach
    BY DEF Reach
  <1> HIDE DEF reach
  <1>6. \A i \in 0 .. Len(pattern) :
            Reach[i] = IF i = 0 THEN {0} ELSE Extended(i, Reach[i - 1])
    BY <1>4, <1>5 DEF Extended
  <1>7. Reach[0] = {0} /\ \A i \in 1 .. Len(pattern) : Reach[i] = Extended(i, Reach[i - 1])
    BY <1>1, <1>6
  <1>8. ASSUME NEW i \in 0 .. Len(pattern)
        PROVE  Reach[i] \subseteq 0 .. Len(text)
    <2>1. CASE i = 0
      BY <1>1, <1>7, <2>1
    <2>2. CASE i # 0
      <3>1. Reach[i] = Extended(i, Reach[i - 1])
        BY <1>1, <1>6, <2>2
      <3>2. 1 .. Len(text) \subseteq 0 .. Len(text)
        BY <1>1
      <3> QED BY <3>1, <3>2 DEF Extended
    <2> QED BY <2>1, <2>2
  <1> QED BY <1>7, <1>8

\* From place c of the pattern and offset o of the text, q letters agree.
Agree(c, q, o) == \A x \in 1 .. q : pattern[c + x] = text[o + x]

\* A stretch of letters reaches where it occurs after something reached.
LEMMA LettersReach ==
    ASSUME InputsOK, NEW c \in 0 .. Len(pattern), NEW q \in 0 .. Len(pattern) - c,
           \A x \in 1 .. q : pattern[c + x] # Star
    PROVE  \A j \in 0 .. Len(text) :
               j \in Reach[c + q] <=> j >= q /\ j - q \in Reach[c] /\ Agree(c, q, j - q)
  <1> DEFINE Holds(l) ==
                 \A j \in 0 .. Len(text) :
                     j \in Reach[c + l] <=> j >= l /\ j - l \in Reach[c] /\ Agree(c, l, j - l)
             T == {l \in Nat : l <= q => Holds(l)}
  <1>1. Len(pattern) \in Nat /\ Len(text) \in Nat /\ c \in Nat /\ q \in Nat /\ c + q <= Len(pattern)
    BY DEF InputsOK
  <1>2. 0 \in T
    <2>1. c + 0 = c /\ \A j \in Nat : j - 0 = j /\ Agree(c, 0, j)
      BY <1>1 DEF Agree
    <2> QED BY <1>1, <2>1
  <1>3. ASSUME NEW l \in Nat, l \in T, l + 1 <= q
        PROVE  Holds(l + 1)
    <2> SUFFICES ASSUME NEW j \in 0 .. Len(text)
                 PROVE  j \in Reach[c + (l + 1)] <=>
                            /\ j >= l + 1 /\ j - (l + 1) \in Reach[c]
                            /\ Agree(c, l + 1, j - (l + 1))
      OBVIOUS
    <2> DEFINE e == c + (l + 1)
    <2>1. e \in 1 .. Len(pattern) /\ e - 1 = c + l /\ pattern[e] # Star
      <3>1. l + 1 \in 1 .. q
        <4> HIDE DEF T
        <4> QED BY <1>1, <1>3
      <3> QED BY <1>1, <3>1
    <2>2. Reach[e] = Extended(e, Reach[e - 1])
      BY <2>1, ReachUnfolds
    <2>3. j \in Reach[e] <=> j >= 1 /\ pattern[e] = text[j] /\ j - 1 \in Reach[c + l]
      BY <2>1, <2>2 DEF Extended
    <2> HIDE DEF e
    <2>4. CASE j = 0
      <3>1. ~(j >= 1) /\ ~(j >= l + 1)
        BY <2>4
      <3> QED BY <2>3, <3>1 DEF e
    <2>5. CASE j # 0
      <3> DEFINE o == j - (l + 1)
      <3>1. j - 1 \in 0 .. Len(text) /\ j - 1 - l = o /\ j >= 1 /\ (j - 1 >= l <=> j >= l + 1)
        BY <1>1, <2>5
      <3>2. j - 1 \in Reach[c + l] <=> j - 1 >= l /\ o \in Reach[c] /\ Agree(c, l, o)
        <4>1. Holds(l)
          BY <1>1, <1>3
        <4> QED BY <3>1, <4>1
      <3>3. o + (l + 1) = j /\ e = c + (l + 1)
        BY <1>1 DEF e
      <3> HIDE DEF o
      <3>4. Agree(c, l + 1, o) <=> Agree(c, l, o) /\ pattern[e] = text[j]
        <4>1. \A x \in 1 .. l + 1 : x \in 1 .. l \/ x = l + 1
          OBVIOUS
        <4>2. l + 1 \in 1 .. l + 1 /\ 1 .. l \subseteq 1 .. l + 1
          OBVIOUS
        <4> QED BY <3>3, <4>1, <4>2 DEF Agree
      <3>5. j \in Reach[e] <=> j >= l + 1 /\ o \in Reach[c] /\ Agree(c, l + 1, o)
        BY <2>3, <3>1, <3>2, <3>4
      <3> QED BY <3>5 DEF o, e
    <2> QED BY <2>4, <2>5
  <1> HIDE DEF Holds
  <1>4. \A l \in Nat : l \in T => l + 1 \in T
    BY <1>3
  <1>5. q \in T
    <2> HIDE DEF T
    <2> QED BY <1>1, <1>2, <1>4, SetInduction
  <1> QED BY <1>1, <1>5 DEF Holds

\* Once nothing is reached, nothing is reached any more.
LEMMA NothingReached ==
    ASSUME InputsOK, NEW i \in 0 .. Len(pattern), Reach[i] = {}
    PROVE  Reach[Len(pattern)] = {}
  <1> DEFINE Nothing(l) == Reach[i + l] = {}
             T == {l \in Nat : l <= Len(pattern) - i => Nothing(l)}
  <1>1. Len(pattern) \in Nat /\ i \in Nat /\ Len(pattern) - i \in Nat
        /\ i + (Len(pattern) - i) = Len(pattern)
    BY DEF InputsOK
  <1>2. 0 \in T
    BY <1>1
  <1>3. ASSUME NEW l \in Nat, l \in T, l + 1 <= Len(pattern) - i
        PROVE  Nothing(l + 1)
    <2> DEFINE e == i + (l + 1)
    <2>1. e \in 1 .. Len(pattern) /\ e - 1 = i + l
      BY <1>1, <1>3
    <2>2. Reach[i + l] = {}
      BY <1>1, <1>3
    <2> HIDE DEF e
    <2>3. Reach[e] = Extended(e, {})
      BY <2>1, <2>2, ReachUnfolds
    <2>4. Reach[e] = {}
      BY <2>3 DEF Extended
    <2> QED BY <2>4 DEF e
  <1> HIDE DEF Nothing
  <1>4. \A l \in Nat : l \in T => l + 1 \in T
    BY <1>3
  <1>5. Len(pattern) - i \in T
    <2> HIDE DEF T
    <2> QED BY <1>1, <1>2, <1>4, SetInduction
  <1> QED BY <1>1, <1>5 DEF Nothing

\* A star reaches everything from the least that was reached.
LEMMA StarReaches ==
    ASSUME InputsOK, NEW i \in 1 .. Len(pattern), pattern[i] = Star,
           NEW least \in Reach[i - 1], \A k \in Reach[i - 1] : least <= k
    PROVE  Reach[i] = least .. Len(text)
  <1>1. Len(pattern) \in Nat /\ Len(text) \in Nat /\ i - 1 \in 0 .. Len(pattern)
    BY DEF InputsOK
  <1>2. Reach[i - 1] \subseteq 0 .. Len(text)
    BY <1>1, ReachUnfolds
  <1>3. \A j : j \in Reach[i] <=> j \in 0 .. Len(text) /\ \E k \in Reach[i - 1] : k <= j
    BY ReachUnfolds DEF Extended
  <1>4. ASSUME NEW j
        PROVE  j \in Reach[i] <=> j \in least .. Len(text)
    <2>1. least \in Nat /\ \A k \in Reach[i - 1] : k \in Nat
      BY <1>1, <1>2
    <2>2. ASSUME j \in 0 .. Len(text)
          PROVE  (\E k \in Reach[i - 1] : k <= j) <=> least <= j
      BY <1>1, <2>1, <2>2
    <2>3. j \in least .. Len(text) <=> j \in 0 .. Len(text) /\ least <= j
      BY <1>1, <2>1
    <2> QED BY <1>3, <2>2, <2>3
  <1> QED BY <1>4
-----------------------------------------------------------------------------
(* The parts.                                                              *)

\* What is after two prefixes is after both.
LEMMA AfterAfter ==
    ASSUME InputsOK, NEW p \in 0 .. Len(text), NEW i \in 0 .. Len(text) - p
    PROVE  /\ After(text, p) \in Seq(Char) /\ Len(After(text, p)) = Len(text) - p
           /\ \A x \in 1 .. Len(text) - p : After(text, p)[x] = text[p + x]
           /\ After(After(text, p), i) = After(text, p + i)
  <1>1. Len(text) \in Nat /\ text \in Seq(Char)
    BY DEF InputsOK
  <1>2. ASSUME NEW o \in 0 .. Len(text)
        PROVE  /\ After(text, o) \in Seq(Char) /\ Len(After(text, o)) = Len(text) - o
               /\ \A x \in 1 .. Len(text) - o : After(text, o)[x] = text[o + x]
    BY <1>1 DEF After
  <1> DEFINE s == After(text, p)
             t == After(text, p + i)
  <1>3. s \in Seq(Char) /\ Len(s) = Len(text) - p
        /\ \A x \in 1 .. Len(text) - p : s[x] = text[p + x]
    BY <1>2
  <1>4. p + i \in 0 .. Len(text)
    BY <1>1
  <1>5. t \in Seq(Char) /\ Len(t) = Len(text) - (p + i)
        /\ \A x \in 1 .. Len(text) - (p + i) : t[x] = text[(p + i) + x]
    BY <1>2, <1>4
  <1> HIDE DEF s, t
  <1>6. After(s, i) = t
    <2> DEFINE u == After(s, i)
    <2>1. u \in Seq(Char) /\ Len(u) = Len(s) - i
          /\ \A x \in 1 .. Len(s) - i : u[x] = s[i + x]
      BY <1>1, <1>3 DEF After
    <2> HIDE DEF u
    <2>2. Len(u) = Len(t)
      BY <1>1, <1>3, <1>5, <2>1
    <2>3. ASSUME NEW x \in 1 .. Len(t)
          PROVE  u[x] = t[x]
      <3>1. x \in 1 .. Len(s) - i /\ i + x \in 1 .. Len(text) - p /\ p + (i + x) = (p + i) + x
        BY <1>1, <1>3, <1>5
      <3> QED BY <1>1, <1>3, <1>5, <2>1, <3>1
    <2>4. u \in Seq(Char) /\ t \in Seq(Char)
      BY <1>5, <2>1
    <2>5. u = t
      BY <2>2, <2>3, <2>4
    <2> QED BY <2>5 DEF u
  <1> QED BY <1>3, <1>6 DEF s, t

\* The k-th part is the letters of the pattern between two cuts.
LEMMA PartIs ==
    ASSUME InputsOK, NEW k \in 1 .. NumParts
    PROVE  /\ Part(k) \in Seq(Char)
           /\ Cut(k) \in 0 .. Len(pattern) /\ Cut(k + 1) \in 1 .. Len(pattern) + 1
           /\ Len(Part(k)) \in 0 .. Len(pattern) - Cut(k)
           /\ Cut(k) + Len(Part(k)) = Cut(k + 1) - 1
           /\ \A x \in 1 .. Len(Part(k)) : /\ Part(k)[x] = pattern[Cut(k) + x]
                                           /\ pattern[Cut(k) + x] # Star
  <1> DEFINE c == Cut(k)
             d == Cut(k + 1)
             m == Len(pattern)
  <1>1. /\ c \in 0 .. m /\ d \in 1 .. m + 1 /\ c < d
        /\ \A i \in c + 1 .. d - 1 : i \in 1 .. m /\ pattern[i] # Star
    BY NoStarInPart
  <1>2. m \in Nat /\ pattern \in Seq(Char)
    BY DEF InputsOK
  <1>3. Part(k) = SubSeq(pattern, c + 1, d - 1)
    BY DEF Part
  <1> HIDE DEF c, d
  <1>4. Part(k) \in Seq(Char) /\ Len(Part(k)) = d - 1 - c
    BY <1>1, <1>2, <1>3
  <1>5. \A x \in 1 .. d - 1 - c : Part(k)[x] = pattern[c + x]
    BY <1>1, <1>2, <1>3
  <1>6. \A x \in 1 .. d - 1 - c : c + x \in c + 1 .. d - 1
    BY <1>1, <1>2
  <1>7. Len(Part(k)) \in 0 .. m - c /\ c + Len(Part(k)) = d - 1
    BY <1>1, <1>2, <1>4
  <1>8. \A x \in 1 .. Len(Part(k)) : Part(k)[x] = pattern[c + x] /\ pattern[c + x] # Star
    BY <1>1, <1>4, <1>5, <1>6
  <1> QED BY <1>1, <1>4, <1>7, <1>8 DEF c, d

\* A part is a prefix of a rest of the text where its letters agree.
LEMMA PrefixAgrees ==
    ASSUME InputsOK, NEW k \in 1 .. NumParts, NEW o \in 0 .. Len(text)
    PROVE  IsPrefix(Part(k), After(text, o)) <=>
               o + Len(Part(k)) <= Len(text) /\ Agree(Cut(k), Len(Part(k)), o)
  <1> DEFINE s == Part(k)
             t == After(text, o)
             q == Len(Part(k))
             n == Len(text)
  <1>1. n \in Nat /\ o \in Nat /\ 0 \in 0 .. n - o
    BY DEF InputsOK
  <1>2. /\ s \in Seq(Char) /\ Len(s) = q /\ q \in Nat
        /\ \A x \in 1 .. q : s[x] = pattern[Cut(k) + x]
    BY PartIs
  <1>3. /\ t \in Seq(Char) /\ Len(t) = n - o
        /\ \A x \in 1 .. n - o : t[x] = text[o + x]
    BY <1>1, AfterAfter
  <1> HIDE DEF s, t, q
  <1>4. CASE q <= n - o
    <2>1. SubSeq(s, 1, q) \in Seq(Char) /\ Len(SubSeq(s, 1, q)) = q
          /\ \A x \in 1 .. q : SubSeq(s, 1, q)[x] = s[x]
      BY <1>2
    <2>2. SubSeq(t, 1, q) \in Seq(Char) /\ Len(SubSeq(t, 1, q)) = q
          /\ \A x \in 1 .. q : SubSeq(t, 1, q)[x] = t[x]
      BY <1>1, <1>2, <1>3, <1>4
    <2>3. SubSeq(s, 1, q) = SubSeq(t, 1, q) <=> \A x \in 1 .. q : s[x] = t[x]
      BY <1>2, <2>1, <2>2
    <2>4. \A x \in 1 .. q : s[x] = pattern[Cut(k) + x] /\ t[x] = text[o + x]
      BY <1>1, <1>2, <1>3, <1>4
    <2>5. IsPrefix(s, t) <=> Agree(Cut(k), q, o)
      BY <1>1, <1>2, <1>3, <1>4, <2>3, <2>4 DEF IsPrefix, Agree
    <2> QED BY <1>1, <1>2, <1>4, <2>5 DEF s, t, q
  <1>5. CASE ~(q <= n - o)
    <2>1. ~IsPrefix(s, t)
      BY <1>2, <1>3, <1>5 DEF IsPrefix
    <2> QED BY <1>1, <1>2, <1>5, <2>1 DEF s, t, q
  <1> QED BY <1>4, <1>5

\* It is a suffix where they agree at the end.
LEMMA SuffixAgrees ==
    ASSUME InputsOK, NEW k \in 1 .. NumParts, NEW p \in 0 .. Len(text)
    PROVE  IsSuffix(Part(k), After(text, p)) <=>
               /\ p + Len(Part(k)) <= Len(text)
               /\ Agree(Cut(k), Len(Part(k)), Len(text) - Len(Part(k)))
  <1> DEFINE s == Part(k)
             t == After(text, p)
             q == Len(Part(k))
             n == Len(text)
  <1>1. n \in Nat /\ p \in Nat /\ p <= n /\ 0 \in 0 .. n - p
    BY DEF InputsOK
  <1>2. /\ s \in Seq(Char) /\ Len(s) = q /\ q \in Nat
        /\ \A x \in 1 .. q : s[x] = pattern[Cut(k) + x]
    BY PartIs
  <1>3. /\ t \in Seq(Char) /\ Len(t) = n - p
        /\ \A x \in 1 .. n - p : t[x] = text[p + x]
    BY <1>1, AfterAfter
  <1> HIDE DEF s, t, q
  <1>4. /\ Reverse(s) \in Seq(Char) /\ Len(Reverse(s)) = q
        /\ \A x \in 1 .. q : Reverse(s)[x] = s[q - x + 1]
    BY <1>2 DEF Reverse
  <1>5. /\ Reverse(t) \in Seq(Char) /\ Len(Reverse(t)) = n - p
        /\ \A x \in 1 .. n - p : Reverse(t)[x] = t[n - p - x + 1]
    BY <1>1, <1>3 DEF Reverse
  <1>6. CASE q <= n - p
    <2>1. SubSeq(Reverse(s), 1, q) \in Seq(Char) /\ Len(SubSeq(Reverse(s), 1, q)) = q
          /\ \A x \in 1 .. q : SubSeq(Reverse(s), 1, q)[x] = s[q - x + 1]
      BY <1>2, <1>4
    <2>2. SubSeq(Reverse(t), 1, q) \in Seq(Char) /\ Len(SubSeq(Reverse(t), 1, q)) = q
          /\ \A x \in 1 .. q : SubSeq(Reverse(t), 1, q)[x] = t[n - p - x + 1]
      BY <1>1, <1>2, <1>5, <1>6
    <2>3. SubSeq(Reverse(s), 1, q) = SubSeq(Reverse(t), 1, q)
              <=> \A x \in 1 .. q : s[q - x + 1] = t[n - p - x + 1]
      BY <1>2, <2>1, <2>2
    <2>4. ASSUME NEW x \in 1 .. q
          PROVE  /\ q - x + 1 \in 1 .. q
                 /\ s[x] = pattern[Cut(k) + x]
                 /\ t[n - p - (q - x + 1) + 1] = text[(n - q) + x]
                 /\ q - (q - x + 1) + 1 = x
      <3> DEFINE z == n - p - (q - x + 1) + 1
      <3>1. z \in 1 .. n - p /\ p + z = (n - q) + x
        BY <1>1, <1>2, <1>6
      <3>2. q - x + 1 \in 1 .. q /\ q - (q - x + 1) + 1 = x
        BY <1>2
      <3> HIDE DEF z
      <3>3. t[z] = text[(n - q) + x]
        BY <1>3, <3>1
      <3> QED BY <1>2, <3>2, <3>3 DEF z
    <2>5. (\A x \in 1 .. q : s[q - x + 1] = t[n - p - x + 1]) <=> Agree(Cut(k), q, n - q)
      <3>1. ASSUME \A x \in 1 .. q : s[q - x + 1] = t[n - p - x + 1], NEW x \in 1 .. q
            PROVE  pattern[Cut(k) + x] = text[(n - q) + x]
        <4>1. s[q - (q - x + 1) + 1] = t[n - p - (q - x + 1) + 1]
          BY <2>4, <3>1
        <4> QED BY <2>4, <4>1
      <3>2. ASSUME Agree(Cut(k), q, n - q), NEW x \in 1 .. q
            PROVE  s[q - x + 1] = t[n - p - x + 1]
        <4> DEFINE y == q - x + 1
        <4>1. y \in 1 .. q /\ q - y + 1 = x
          BY <2>4, <1>2
        <4>2. s[y] = t[n - p - (q - y + 1) + 1]
          <5> HIDE DEF y
          <5> QED BY <2>4, <3>2, <4>1 DEF Agree
        <4> QED BY <4>1, <4>2
      <3> QED BY <3>1, <3>2 DEF Agree
    <2>6. IsSuffix(s, t) <=> Agree(Cut(k), q, n - q)
      <3>1. IsSuffix(s, t) <=> SubSeq(Reverse(s), 1, q) = SubSeq(Reverse(t), 1, q)
        BY <1>4, <1>5, <1>6 DEF IsSuffix, IsPrefix
      <3> QED BY <2>3, <2>5, <3>1
    <2> QED BY <1>1, <1>2, <1>6, <2>6 DEF s, t, q
  <1>7. CASE ~(q <= n - p)
    <2>1. ~IsSuffix(s, t)
      BY <1>4, <1>5, <1>7 DEF IsSuffix, IsPrefix
    <2> QED BY <1>1, <1>2, <1>7, <2>1 DEF s, t, q
  <1> QED BY <1>6, <1>7
-----------------------------------------------------------------------------
(* The search.                                                             *)

\* What is reached up to the next cut: the part, after something reached.
LEMMA PartReaches ==
    ASSUME InputsOK, NEW k \in 1 .. NumParts, NEW j \in 0 .. Len(text)
    PROVE  j \in Reach[Cut(k + 1) - 1] <=>
               /\ j >= Len(Part(k)) /\ j - Len(Part(k)) \in Reach[Cut(k)]
               /\ Agree(Cut(k), Len(Part(k)), j - Len(Part(k)))
  <1>1. /\ Cut(k) \in 0 .. Len(pattern) /\ Len(Part(k)) \in 0 .. Len(pattern) - Cut(k)
        /\ Cut(k) + Len(Part(k)) = Cut(k + 1) - 1
        /\ \A x \in 1 .. Len(Part(k)) : pattern[Cut(k) + x] # Star
    BY PartIs
  <1>2. j \in Reach[Cut(k) + Len(Part(k))] <=>
               /\ j >= Len(Part(k)) /\ j - Len(Part(k)) \in Reach[Cut(k)]
               /\ Agree(Cut(k), Len(Part(k)), j - Len(Part(k)))
    BY <1>1, LettersReach
  <1> QED BY <1>1, <1>2

\* If nothing is reached up to a cut, the pattern does not match.
LEMMA PartMissing ==
    ASSUME InputsOK, NEW k \in 1 .. NumParts, Reach[Cut(k + 1) - 1] = {}
    PROVE  ~GlobMatches
  <1>1. Cut(k + 1) - 1 \in 0 .. Len(pattern)
    BY NoStarInPart DEF InputsOK
  <1> QED BY <1>1, NothingReached DEF GlobMatches

\* If something is, the star there reaches all from the least on.
LEMMA PartFound ==
    ASSUME InputsOK, NEW k \in 1 .. NumParts - 1,
           NEW least \in Reach[Cut(k + 1) - 1],
           \A j \in Reach[Cut(k + 1) - 1] : least <= j
    PROVE  Reach[Cut(k + 1)] = least .. Len(text)
  <1>1. NumParts \in Nat /\ k + 1 \in 2 .. NumParts
    BY CutsAre
  <1>2. Cut(k + 1) \in Stars
    BY <1>1, CutsAre
  <1>3. Cut(k + 1) \in 1 .. Len(pattern) /\ pattern[Cut(k + 1)] = Star
    BY <1>2 DEF Stars
  <1> QED BY <1>3, StarReaches

\* Without a star only the pattern itself matches.
LEMMA LiteralExact ==
    ASSUME InputsOK, NumParts = 1
    PROVE  GlobMatches <=> pattern = text
  <1> DEFINE m == Len(pattern)
             n == Len(text)
  <1>1. /\ m \in Nat /\ n \in Nat
        /\ pattern \in Seq(Char) /\ text \in Seq(Char)
    BY DEF InputsOK
  <1>2. Cut(1) = 0 /\ Cut(1 + 1) = m + 1 /\ Cut(1 + 1) - 1 = m
    BY <1>1, CutsAre
  <1>3. Len(Part(1)) = m
    BY <1>1, <1>2, PartIs
  <1>4. Reach[0] = {0}
    BY ReachUnfolds
  <1>5. GlobMatches <=> n >= m /\ n - m \in Reach[0] /\ Agree(0, m, n - m)
    <2>1. 1 \in 1 .. NumParts /\ n \in 0 .. n
      BY <1>1
    <2> QED BY <1>2, <1>3, <2>1, PartReaches DEF GlobMatches
  <1>6. GlobMatches <=> n = m /\ Agree(0, m, 0)
    BY <1>1, <1>4, <1>5
  <1>7. n = m /\ Agree(0, m, 0) <=> pattern = text
    <2>1. Agree(0, m, 0) <=> \A x \in 1 .. m : pattern[x] = text[x]
      BY <1>1 DEF Agree
    <2>2. pattern = text => n = m /\ \A x \in 1 .. m : pattern[x] = text[x]
      OBVIOUS
    <2>3. n = m /\ (\A x \in 1 .. m : pattern[x] = text[x]) => pattern = text
      BY <1>1
    <2> QED BY <2>1, <2>2, <2>3
  <1> QED BY <1>6, <1>7

\* The prefix: all that comes after it is reached, or nothing.
LEMMA PrefixExact ==
    ASSUME InputsOK, NumParts > 1
    PROVE  IF IsPrefix(Part(1), text)
           THEN /\ Len(Part(1)) \in 0 .. Len(text)
                /\ Reach[Cut(2)] = Len(Part(1)) .. Len(text)
           ELSE ~GlobMatches
  <1> DEFINE q == Len(Part(1))
             n == Len(text)
  <1>1. n \in Nat /\ NumParts \in Nat /\ 1 \in 1 .. NumParts /\ 1 \in 1 .. NumParts - 1
    BY CutsAre DEF InputsOK
  <1>2. After(text, 0) = text
    BY DEF After, InputsOK
  <1>3. Cut(1) = 0 /\ q \in Nat /\ Reach[0] = {0}
    BY <1>1, CutsAre, PartIs, ReachUnfolds DEF InputsOK
  <1>4. IsPrefix(Part(1), text) <=> 0 + q <= n /\ Agree(0, q, 0)
    <2>1. 0 \in 0 .. n
      BY <1>1
    <2> QED BY <1>1, <1>2, <1>3, <2>1, PrefixAgrees
  <1>5. \A j \in 0 .. n : j \in Reach[Cut(1 + 1) - 1] <=>
            j >= q /\ j - q \in Reach[0] /\ Agree(0, q, j - q)
    BY <1>1, <1>3, PartReaches
  <1> HIDE DEF q
  <1>6. \A j \in 0 .. n : j \in Reach[Cut(1 + 1) - 1] <=> j = q /\ Agree(0, q, 0)
    <2>1. ASSUME NEW j \in 0 .. n
          PROVE  j \in Reach[Cut(1 + 1) - 1] <=> j = q /\ Agree(0, q, 0)
      <3>1. j >= q /\ j - q \in Reach[0] <=> j = q
        BY <1>1, <1>3
      <3>2. j = q => j - q = 0
        BY <1>3
      <3> QED BY <1>5, <3>1, <3>2
    <2> QED BY <2>1
  <1>7. Reach[Cut(1 + 1) - 1] \subseteq 0 .. n
    <2>1. Cut(1 + 1) - 1 \in 0 .. Len(pattern)
      BY <1>1, NoStarInPart DEF InputsOK
    <2> QED BY <2>1, ReachUnfolds
  <1>8. CASE IsPrefix(Part(1), text)
    <2>1. q \in 0 .. n /\ Agree(0, q, 0)
      BY <1>1, <1>3, <1>4, <1>8
    <2>2. q \in Reach[Cut(1 + 1) - 1] /\ \A j \in Reach[Cut(1 + 1) - 1] : q <= j
      BY <1>3, <1>6, <1>7, <2>1
    <2>3. Reach[Cut(1 + 1)] = q .. n
      BY <1>1, <2>2, PartFound
    <2> QED BY <1>8, <2>1, <2>3 DEF q
  <1>9. CASE ~IsPrefix(Part(1), text)
    <2>1. ~(q \in 0 .. n /\ Agree(0, q, 0))
      BY <1>1, <1>3, <1>4, <1>9
    <2>2. Reach[Cut(1 + 1) - 1] = {}
      BY <1>6, <1>7, <2>1
    <2> QED BY <1>1, <1>9, <2>2, PartMissing
  <1> QED BY <1>8, <1>9

\* A middle part: all that comes after its first occurrence is reached, or
\* nothing.  A later occurrence would reach less.
LEMMA MiddleExact ==
    ASSUME InputsOK, NEW k \in 2 .. NumParts - 1,
           NEW p \in 0 .. Len(text), Reach[Cut(k)] = p .. Len(text)
    PROVE  LET found == Occurrences(Part(k), After(text, p))
               next == p + (Min(found) + Len(Part(k)))
           IN  IF found # {}
               THEN /\ next \in 0 .. Len(text) /\ Reach[Cut(k + 1)] = next .. Len(text)
                    /\ After(After(text, p), Min(found) + Len(Part(k))) = After(text, next)
               ELSE ~GlobMatches
  <1> DEFINE found == Occurrences(Part(k), After(text, p))
             next == p + (Min(found) + Len(Part(k)))
             q == Len(Part(k))
             n == Len(text)
             Occurs(i) == p + i + q <= n /\ Agree(Cut(k), q, p + i)
             before == Cut(k + 1) - 1
  <1>1. /\ n \in Nat /\ p \in Nat /\ p <= n /\ NumParts \in Nat
        /\ k \in 1 .. NumParts /\ k \in 1 .. NumParts - 1
    BY CutsAre DEF InputsOK
  <1>2. q \in Nat /\ before \in 0 .. Len(pattern)
    <2>1. q \in 0 .. Len(pattern) - Cut(k) /\ Cut(k) + q = before /\ Cut(k) \in 0 .. Len(pattern)
      BY <1>1, PartIs
    <2>2. Len(pattern) \in Nat
      BY DEF InputsOK
    <2> HIDE DEF q, before
    <2> QED BY <2>1, <2>2
  <1>3. \A i : i \in found <=> i \in 0 .. n - p /\ Occurs(i)
    <2>1. Len(After(text, p)) = n - p
      <3>1. 0 \in 0 .. n - p
        BY <1>1
      <3> QED BY <3>1, AfterAfter
    <2>2. ASSUME NEW i \in 0 .. n - p
          PROVE  IsPrefix(Part(k), After(After(text, p), i)) <=> Occurs(i)
      <3>1. After(After(text, p), i) = After(text, p + i)
        BY AfterAfter
      <3>2. p + i \in 0 .. n
        BY <1>1
      <3> QED BY <1>1, <3>1, <3>2, PrefixAgrees
    <2> HIDE DEF Occurs
    <2> QED BY <2>1, <2>2 DEF Occurrences
  <1>4. \A j \in 0 .. n : j \in Reach[before] <=>
            j >= q /\ j - q \in p .. n /\ Agree(Cut(k), q, j - q)
    BY <1>1, PartReaches
  <1>5. Reach[before] \subseteq 0 .. n
    BY <1>2, ReachUnfolds
  <1> HIDE DEF q, before, found
  <1>6. ASSUME NEW j \in Reach[before]
        PROVE  j - q - p \in found /\ j = p + ((j - q - p) + q) /\ j \in Nat
    <2>1. j \in 0 .. n /\ j >= q /\ j - q \in p .. n /\ Agree(Cut(k), q, j - q)
      BY <1>4, <1>5
    <2>2. j - q - p \in 0 .. n - p /\ p + (j - q - p) = j - q /\ p + (j - q - p) + q <= n
      BY <1>1, <1>2, <2>1
    <2>3. j - q - p \in found
      BY <1>3, <2>1, <2>2
    <2> QED BY <1>1, <1>2, <2>1, <2>3
  <1>7. ASSUME NEW i \in found
        PROVE  p + (i + q) \in Reach[before] /\ i \in 0 .. n - p /\ p + (i + q) \in 0 .. n
    <2> DEFINE j == p + (i + q)
    <2>1. i \in 0 .. n - p /\ p + i + q <= n /\ Agree(Cut(k), q, p + i)
      BY <1>3
    <2>2. j \in 0 .. n /\ j >= q /\ j - q = p + i /\ p + i \in p .. n
      BY <1>1, <1>2, <2>1
    <2> HIDE DEF j
    <2>3. j \in Reach[before]
      BY <1>4, <2>1, <2>2
    <2> QED BY <2>1, <2>2, <2>3 DEF j
  <1>8. CASE found # {}
    <2>1. Min(found) \in found /\ \A i \in found : Min(found) <= i
      <3>1. found \in SUBSET Nat
        BY <1>1, <1>3
      <3>2. \E i \in found : \A j \in found : i <= j
        BY <1>8, <3>1, LeastExists
      <3> QED BY <3>2 DEF Min
    <2> DEFINE first == Min(found)
    <2> HIDE DEF first
    <2>2. /\ first \in 0 .. n - p /\ p + (first + q) \in Reach[before]
          /\ p + (first + q) \in 0 .. n
      BY <1>7, <2>1 DEF first
    <2>3. ASSUME NEW j \in Reach[before]
          PROVE  p + (first + q) <= j
      <3>1. first <= j - q - p
        BY <1>6, <2>1 DEF first
      <3>2. j \in Nat
        BY <1>6
      <3> QED BY <1>1, <1>2, <2>2, <3>1, <3>2
    <2>4. Reach[Cut(k + 1)] = p + (first + q) .. n
      BY <1>1, <2>2, <2>3, PartFound DEF before
    <2>5. After(After(text, p), first + q) = After(text, p + (first + q))
      <3>1. first + q \in 0 .. n - p
        BY <1>1, <1>2, <2>2
      <3> QED BY <3>1, AfterAfter
    <2> QED BY <1>8, <2>2, <2>4, <2>5 DEF first, q, found
  <1>9. CASE found = {}
    <2>1. Reach[before] = {}
      BY <1>6, <1>9
    <2>2. ~GlobMatches
      BY <1>1, <2>1, PartMissing DEF before
    <2> QED BY <1>9, <2>2 DEF found
  <1> QED BY <1>8, <1>9

\* The last part: it ends the text, after all that must come before it.
LEMMA SuffixExact ==
    ASSUME InputsOK, NumParts > 1,
           NEW p \in 0 .. Len(text), Reach[Cut(NumParts)] = p .. Len(text)
    PROVE  GlobMatches <=> IsSuffix(Part(NumParts), After(text, p))
  <1> DEFINE q == Len(Part(NumParts))
             n == Len(text)
             c == Cut(NumParts)
  <1>1. /\ n \in Nat /\ p \in Nat /\ p <= n /\ NumParts \in 1 .. NumParts
        /\ Len(pattern) \in Nat
    BY CutsAre DEF InputsOK
  <1>2. q \in Nat
    BY <1>1, PartIs
  <1>3. Cut(NumParts + 1) - 1 = Len(pattern)
    BY <1>1, CutsAre
  <1>4. GlobMatches <=> n >= q /\ n - q \in p .. n /\ Agree(c, q, n - q)
    <2>1. n \in 0 .. n
      BY <1>1
    <2> QED BY <1>1, <1>3, <2>1, PartReaches DEF GlobMatches
  <1>5. IsSuffix(Part(NumParts), After(text, p)) <=> p + q <= n /\ Agree(c, q, n - q)
    BY <1>1, SuffixAgrees
  <1> HIDE DEF q, c
  <1>6. n >= q /\ n - q \in p .. n <=> p + q <= n
    BY <1>1, <1>2
  <1> QED BY <1>4, <1>5, <1>6

-----------------------------------------------------------------------------
(* The steps.                                                              *)

\* While the search runs, what is left of the text is what comes after the
\* least that the pattern reaches up to its last cut.
SearchInv ==
    /\ InputsOK
    /\ part \in 1 .. NumParts
    /\ part = 1 => remainder = text
    /\ part > 1 => \E p \in 0 .. Len(text) : /\ remainder = After(text, p)
                                             /\ Reach[Cut(part)] = p .. Len(text)
    /\ GreedyIsExact

\* Nothing is searched yet.
LEMMA SearchInit == GlobInit => SearchInv
  <1> SUFFICES ASSUME GlobInit
               PROVE  SearchInv
    OBVIOUS
  <1>1. InputsOK
    <2>1. PICK n \in 0 .. MaxPattern : pattern \in [1 .. n -> Char]
      BY DEF GlobInit, Patterns
    <2>2. PICK l \in 0 .. MaxText : text \in [1 .. l -> Char]
      BY DEF GlobInit, Texts
    <2>3. n \in Nat /\ l \in Nat
      OBVIOUS
    <2> QED BY <2>1, <2>2, <2>3 DEF InputsOK
  <1>2. 1 \in 1 .. NumParts
    BY <1>1, CutsAre
  <1> QED BY <1>1, <1>2 DEF GlobInit, SearchInv, GreedyIsExact

\* No step touches pattern or text, and with them nothing that is read off
\* them changes.
LEMMA InputsStay ==
    ASSUME UNCHANGED <<pattern, text>>
    PROVE  /\ InputsOK' = InputsOK /\ NumParts' = NumParts /\ Reach' = Reach
           /\ GlobMatches' = GlobMatches
  <1>1. InputsOK' = InputsOK
    BY DEF InputsOK
  <1>2. NumParts' = NumParts
    BY DEF NumParts, Stars
  <1>3. Reach' = Reach
    BY DEF Reach
  <1>4. GlobMatches' = GlobMatches
    BY <1>3 DEF GlobMatches
  <1> QED BY <1>1, <1>2, <1>3, <1>4

\* A verdict that is right keeps the invariant.
LEMMA RightVerdict ==
    ASSUME SearchInv, NEW verdict, Return(verdict), (verdict = "match") = GlobMatches
    PROVE  SearchInv'
  <1>1. /\ InputsOK' = InputsOK /\ NumParts' = NumParts /\ Reach' = Reach
        /\ GlobMatches' = GlobMatches
    BY InputsStay DEF Return
  <1>2. Cut(part)' = Cut(part)
    BY DEF Return, Cut, Ends, Stars
  <1>3. UNCHANGED <<pattern, text, remainder, part>> /\ result' = verdict
    BY DEF Return
  <1>4. GreedyIsExact'
    BY <1>1, <1>3 DEF GreedyIsExact
  <1> QED BY <1>1, <1>2, <1>3, <1>4 DEF SearchInv, After

\* So does going on to the next part after the least that is reached.
LEMMA NextPart ==
    ASSUME SearchInv, result = "running", UNCHANGED <<pattern, text, result>>,
           part' = part + 1, part + 1 \in 2 .. NumParts,
           NEW p \in 0 .. Len(text), remainder' = After(text, p),
           Reach[Cut(part + 1)] = p .. Len(text)
    PROVE  SearchInv'
  <1>1. InputsOK' = InputsOK /\ NumParts' = NumParts /\ Reach' = Reach
    BY InputsStay
  <1>2. Cut(part)' = Cut(part + 1)
    BY DEF Cut, Ends, Stars
  <1>3. GreedyIsExact'
    BY DEF GreedyIsExact
  <1>4. part' \in 1 .. NumParts /\ part' # 1
    BY CutsAre DEF SearchInv
  <1>5. Reach[Cut(part)]' = p .. Len(text)
    BY <1>1, <1>2
  <1> QED BY <1>1, <1>3, <1>4, <1>5 DEF SearchInv, After

\* Each step finds a part where the next least offset is, or says rightly that
\* there is none.
LEMMA SearchStep ==
    ASSUME SearchInv, [GlobNext]_globVars
    PROVE  SearchInv'
  <1>1. InputsOK /\ NumParts \in Nat \ {0} /\ part \in 1 .. NumParts
    BY CutsAre DEF SearchInv
  <1>2. CASE MatchLiteral
    <2>1. NumParts = 1 /\ Return(Verdict(pattern = text))
      BY <1>2 DEF MatchLiteral
    <2>2. (Verdict(pattern = text) = "match") = GlobMatches
      BY <1>1, <2>1, LiteralExact DEF Verdict, GlobMatches
    <2> QED BY <2>1, <2>2, RightVerdict
  <1>3. CASE MatchPrefix
    <2>1. NumParts > 1 /\ part = 1 /\ result = "running"
      BY <1>3 DEF MatchPrefix
    <2>2. CASE IsPrefix(Part(1), text)
      <3>1. /\ Len(Part(1)) \in 0 .. Len(text)
            /\ Reach[Cut(2)] = Len(Part(1)) .. Len(text)
        BY <1>1, <2>1, <2>2, PrefixExact
      <3>2. /\ remainder' = After(text, Len(Part(1))) /\ part' = 2
            /\ UNCHANGED <<pattern, text, result>>
        BY <1>3, <2>2 DEF MatchPrefix
      <3>3. part' = part + 1 /\ part + 1 \in 2 .. NumParts /\ part + 1 = 2
        BY <1>1, <2>1, <3>2
      <3> QED BY <2>1, <3>1, <3>2, <3>3, NextPart
    <2>3. CASE ~IsPrefix(Part(1), text)
      <3>1. ~GlobMatches
        BY <1>1, <2>1, <2>3, PrefixExact
      <3>2. Return("mismatch")
        BY <1>3, <2>3 DEF MatchPrefix
      <3>3. ("mismatch" = "match") = GlobMatches
        BY <3>1 DEF GlobMatches
      <3> QED BY <3>2, <3>3, RightVerdict
    <2> QED BY <2>2, <2>3
  <1>4. CASE MatchMiddle
    <2> DEFINE found == Occurrences(Part(part), remainder)
    <2>1. part \in 2 .. NumParts - 1 /\ result = "running"
      BY <1>4 DEF MatchMiddle
    <2>2. PICK p \in 0 .. Len(text) : /\ remainder = After(text, p)
                                      /\ Reach[Cut(part)] = p .. Len(text)
      BY <1>1, <2>1 DEF SearchInv
    <2>3. CASE found # {}
      <3> DEFINE next == p + (Min(found) + Len(Part(part)))
      <3>1. /\ next \in 0 .. Len(text) /\ Reach[Cut(part + 1)] = next .. Len(text)
            /\ After(remainder, Min(found) + Len(Part(part))) = After(text, next)
        BY <1>1, <2>1, <2>2, <2>3, MiddleExact
      <3>2. /\ remainder' = After(remainder, Min(found) + Len(Part(part)))
            /\ part' = part + 1 /\ UNCHANGED <<pattern, text, result>>
        BY <1>4, <2>3 DEF MatchMiddle
      <3>3. part + 1 \in 2 .. NumParts
        BY <1>1, <2>1
      <3> HIDE DEF next, found
      <3> QED BY <2>1, <3>1, <3>2, <3>3, NextPart
    <2>4. CASE found = {}
      <3>1. ~GlobMatches
        BY <1>1, <2>1, <2>2, <2>4, MiddleExact
      <3>2. Return("mismatch")
        BY <1>4, <2>4 DEF MatchMiddle
      <3>3. ("mismatch" = "match") = GlobMatches
        BY <3>1 DEF GlobMatches
      <3> QED BY <3>2, <3>3, RightVerdict
    <2> QED BY <2>3, <2>4
  <1>5. CASE MatchSuffix
    <2>1. NumParts > 1 /\ part = NumParts /\ Return(Verdict(IsSuffix(Part(NumParts), remainder)))
      BY <1>5 DEF MatchSuffix
    <2>2. PICK p \in 0 .. Len(text) : /\ remainder = After(text, p)
                                      /\ Reach[Cut(part)] = p .. Len(text)
      BY <1>1, <2>1 DEF SearchInv
    <2>3. GlobMatches <=> IsSuffix(Part(NumParts), remainder)
      BY <1>1, <2>1, <2>2, SuffixExact
    <2>4. (Verdict(IsSuffix(Part(NumParts), remainder)) = "match") = GlobMatches
      BY <2>3 DEF Verdict, GlobMatches
    <2> QED BY <2>1, <2>4, RightVerdict
  <1>6. CASE UNCHANGED globVars
    <2>1. /\ InputsOK' = InputsOK /\ NumParts' = NumParts /\ Reach' = Reach
          /\ GlobMatches' = GlobMatches
      BY <1>6, InputsStay DEF globVars
    <2>2. Cut(part)' = Cut(part)
      BY <1>6 DEF globVars, Cut, Ends, Stars
    <2> QED BY <1>6, <2>1, <2>2 DEF globVars, SearchInv, After, GreedyIsExact
  <1> QED BY <1>2, <1>3, <1>4, <1>5, <1>6 DEF GlobNext

\* Searching each segment at its first occurrence, without going back, decides
\* the declarative meaning of the pattern, whatever pattern and text are.
THEOREM GreedyAlwaysExact == GlobSpec => []GreedyIsExact
  <1>1. SearchInv => GreedyIsExact
    BY DEF SearchInv
  <1> QED BY <1>1, SearchInit, SearchStep, PTL DEF GlobSpec
=============================================================================
