---------------------------- MODULE Base62Proofs ----------------------------
(***************************************************************************)
(* Encoding round-trips for every base and every value, the code's 62 and  *)
(* 2^64 included.                                                          *)
(*                                                                         *)
(* Decode is recursive over the digits.  The induction it takes is over a  *)
(* set: a set of numbers with zero and the successor of each of its        *)
(* elements has all of them, because the others would have a least one.    *)
(***************************************************************************)
EXTENDS Base62, Integers, WellFoundedInduction, TLAPS

\* Induction, over a set instead of a predicate.
LEMMA SetInduction ==
    ASSUME NEW T, 0 \in T, \A n \in Nat : n \in T => n + 1 \in T
    PROVE  \A n \in Nat : n \in T
  <1> DEFINE Others == Nat \ T
  <1> SUFFICES ASSUME Others # {}
               PROVE  FALSE
    OBVIOUS
  <1>1. PICK n \in Others : \A m \in Others : ~(<<m, n>> \in OpToRel(<, Nat))
    <2>1. IsWellFoundedOn(OpToRel(<, Nat), Nat)
      BY NatLessThanWellFounded
    <2>2. Others \subseteq Nat
      OBVIOUS
    <2> HIDE DEF Others
    <2> QED BY <2>1, <2>2, WFMin
  <1>2. \A m \in Nat : m < n => m \in T
    BY <1>1 DEF OpToRel
  <1>3. n # 0 /\ n - 1 \in Nat /\ n - 1 < n
    OBVIOUS
  <1>4. n - 1 \in T
    BY <1>2, <1>3
  <1> QED BY <1>3, <1>4

-----------------------------------------------------------------------------
(* What Decode computes.                                                   *)

\* One digit more makes a number of a number.
LEMMA DigitIsNat ==
    ASSUME NEW n \in Nat, NEW d \in Nat
    PROVE  n * Base + d \in Nat
  <1>1. n * Base \in Nat
    BY BaseAssumption
  <1> QED BY <1>1

\* f has the numbers that the first n digits denote.
Denotes(f, digits, n) ==
    /\ f[0] = 0
    /\ \A m \in 1 .. n : f[m] = f[m - 1] * Base + digits[m]

\* Every sequence of digits denotes a number.
LEMMA NumberExists ==
    ASSUME NEW digits \in Seq(Nat)
    PROVE  \E f \in [0 .. Len(digits) -> Nat] : Denotes(f, digits, Len(digits))
  <1> DEFINE HasNumber(n) == \E f \in [0 .. n -> Nat] : Denotes(f, digits, n)
             T == {n \in Nat : n <= Len(digits) => HasNumber(n)}
  <1>1. 0 \in T
    <2>1. [m \in 0 .. 0 |-> 0] \in [0 .. 0 -> Nat]
          /\ Denotes([m \in 0 .. 0 |-> 0], digits, 0)
      BY DEF Denotes
    <2> QED BY <2>1
  <1>2. ASSUME NEW n \in Nat, n \in T, n + 1 <= Len(digits)
        PROVE  HasNumber(n + 1)
    <2>1. PICK f \in [0 .. n -> Nat] : Denotes(f, digits, n)
      BY <1>2
    <2> DEFINE next == f[n] * Base + digits[n + 1]
               g == [m \in 0 .. n + 1 |-> IF m = n + 1 THEN next ELSE f[m]]
    <2>2. next \in Nat
      <3>1. f[n] \in Nat /\ digits[n + 1] \in Nat
        BY <1>2
      <3> QED BY <3>1, DigitIsNat
    <2>3. g \in [0 .. n + 1 -> Nat]
      BY <2>2
    <2>4. g[0] = 0 /\ g[n + 1] = g[n] * Base + digits[n + 1]
      BY <2>1 DEF Denotes
    <2>5. \A m \in 1 .. n : g[m] = g[m - 1] * Base + digits[m]
      BY <2>1 DEF Denotes
    <2> HIDE DEF next, g
    <2>6. \A m \in 1 .. n + 1 : g[m] = g[m - 1] * Base + digits[m]
      <3> SUFFICES ASSUME NEW m \in 1 .. n + 1
                   PROVE  g[m] = g[m - 1] * Base + digits[m]
        OBVIOUS
      <3>1. CASE m \in 1 .. n
        BY <2>5, <3>1
      <3>2. CASE m = n + 1
        BY <2>4, <3>2
      <3> QED BY <3>1, <3>2
    <2>7. Denotes(g, digits, n + 1)
      BY <2>4, <2>6 DEF Denotes
    <2> QED BY <2>3, <2>7
  <1> HIDE DEF HasNumber
  <1>3. \A n \in Nat : n \in T => n + 1 \in T
    BY <1>2
  <1>4. Len(digits) \in T
    <2> HIDE DEF T
    <2> QED BY <1>1, <1>3, SetInduction
  <1> QED BY <1>4 DEF HasNumber

\* Decode is the last of the numbers that the digits denote.
LEMMA DecodeUnfolds ==
    ASSUME NEW digits \in Seq(Nat)
    PROVE  \E f \in [0 .. Len(digits) -> Nat] :
               Denotes(f, digits, Len(digits)) /\ Decode(digits) = f[Len(digits)]
  <1> DEFINE IsNumber(f) == f = [n \in 0 .. Len(digits) |->
                                     IF n = 0 THEN 0 ELSE f[n - 1] * Base + digits[n]]
             number == CHOOSE f : IsNumber(f)
  <1>1. PICK f \in [0 .. Len(digits) -> Nat] : Denotes(f, digits, Len(digits))
    BY NumberExists
  <1>2. IsNumber(f)
    BY <1>1 DEF Denotes
  <1>3. IsNumber(number)
    <2> HIDE DEF IsNumber
    <2> QED BY <1>2
  <1>4. Decode(digits) = number[Len(digits)]
    BY DEF Decode
  <1> HIDE DEF number
  <1>5. Denotes(number, digits, Len(digits))
    BY <1>3 DEF Denotes
  <1>6. \A n \in Nat : n \in {m \in Nat : m <= Len(digits) => number[m] \in Nat}
    <2> DEFINE T == {m \in Nat : m <= Len(digits) => number[m] \in Nat}
    <2>1. 0 \in T
      BY <1>5 DEF Denotes
    <2>2. ASSUME NEW n \in Nat, n \in T, n + 1 <= Len(digits)
          PROVE  number[n + 1] \in Nat
      <3>1. number[n] \in Nat /\ digits[n + 1] \in Nat
        BY <2>2
      <3>2. number[n + 1] = number[n] * Base + digits[n + 1]
        BY <1>5, <2>2 DEF Denotes
      <3> QED BY <3>1, <3>2, DigitIsNat
    <2>3. \A n \in Nat : n \in T => n + 1 \in T
      BY <2>2
    <2> HIDE DEF T
    <2>4. \A n \in Nat : n \in T
      BY <2>1, <2>3, SetInduction
    <2> QED BY <2>4 DEF T
  <1>7. number \in [0 .. Len(digits) -> Nat]
    BY <1>3, <1>6
  <1> QED BY <1>4, <1>5, <1>7

\* After k and l digits, the two go on alike.
GoOnAlike(s, k, t, l) ==
    /\ k \in 0 .. Len(s) /\ l \in 0 .. Len(t)
    /\ Len(s) - k = Len(t) - l
    /\ \A n \in 1 .. Len(s) - k : s[k + n] = t[l + n]

\* If they denote the same up to there, they denote the same.
LEMMA SameTail ==
    ASSUME NEW s \in Seq(Nat), NEW t \in Seq(Nat),
           NEW f, Denotes(f, s, Len(s)), NEW g, Denotes(g, t, Len(t)),
           NEW k, NEW l, GoOnAlike(s, k, t, l), f[k] = g[l]
    PROVE  f[Len(s)] = g[Len(t)]
  <1> USE DEF GoOnAlike
  <1> DEFINE T == {n \in Nat : n <= Len(s) - k => f[k + n] = g[l + n]}
  <1>1. 0 \in T
    OBVIOUS
  <1>2. ASSUME NEW n \in Nat, n \in T, n + 1 <= Len(s) - k
        PROVE  f[k + (n + 1)] = g[l + (n + 1)]
    <2>1. f[k + n] = g[l + n] /\ s[k + (n + 1)] = t[l + (n + 1)]
      <3>1. n <= Len(s) - k /\ n + 1 \in 1 .. Len(s) - k
        BY <1>2
      <3> QED BY <1>2, <3>1
    <2>2. k + (n + 1) \in 1 .. Len(s) /\ l + (n + 1) \in 1 .. Len(t)
      BY <1>2
    <2>3. k + (n + 1) - 1 = k + n /\ l + (n + 1) - 1 = l + n
      OBVIOUS
    <2>4. /\ f[k + (n + 1)] = f[k + n] * Base + s[k + (n + 1)]
          /\ g[l + (n + 1)] = g[l + n] * Base + t[l + (n + 1)]
      BY <2>2, <2>3 DEF Denotes
    <2> QED BY <2>1, <2>4
  <1>3. \A n \in Nat : n \in T => n + 1 \in T
    BY <1>2
  <1>4. f[k + (Len(s) - k)] = g[l + (Len(s) - k)]
    <2> DEFINE rest == Len(s) - k
    <2>1. rest \in Nat /\ rest <= Len(s) - k
      OBVIOUS
    <2>2. rest \in T
      <3> HIDE DEF T, rest
      <3> QED BY <1>1, <1>3, <2>1, SetInduction
    <2> QED BY <2>1, <2>2
  <1>5. k + (Len(s) - k) = Len(s) /\ l + (Len(s) - k) = Len(t)
    OBVIOUS
  <1> QED BY <1>4, <1>5

\* A single digit denotes itself.
LEMMA DecodeDigit ==
    ASSUME NEW d \in Nat
    PROVE  Decode(<<d>>) = d
  <1> DEFINE s == <<d>>
  <1>1. s \in Seq(Nat) /\ Len(s) = 1 /\ s[1] = d
    OBVIOUS
  <1> HIDE DEF s
  <1>2. PICK f : Denotes(f, s, Len(s)) /\ Decode(s) = f[Len(s)]
    BY <1>1, DecodeUnfolds
  <1>3. f[1] = f[1 - 1] * Base + s[1] /\ f[0] = 0
    BY <1>1, <1>2 DEF Denotes
  <1>4. Decode(s) = d
    BY <1>1, <1>2, <1>3, BaseAssumption
  <1> QED BY <1>4 DEF s

\* A leading zero denotes nothing.
LEMMA DecodeLeadingZero ==
    ASSUME NEW digits \in Seq(Nat)
    PROVE  Decode(<<0>> \o digits) = Decode(digits)
  <1> DEFINE s == <<0>> \o digits
  <1>1. /\ s \in Seq(Nat) /\ Len(s) = Len(digits) + 1 /\ s[1] = 0
        /\ \A n \in 1 .. Len(digits) : s[1 + n] = digits[0 + n]
    OBVIOUS
  <1> HIDE DEF s
  <1>2. PICK f : Denotes(f, s, Len(s)) /\ Decode(s) = f[Len(s)]
    BY <1>1, DecodeUnfolds
  <1>3. PICK g : Denotes(g, digits, Len(digits)) /\ Decode(digits) = g[Len(digits)]
    BY DecodeUnfolds
  <1>4. f[1] = f[1 - 1] * Base + s[1] /\ f[0] = 0 /\ g[0] = 0
    BY <1>1, <1>2, <1>3 DEF Denotes
  <1>5. f[1] = g[0]
    BY <1>1, <1>4, BaseAssumption
  <1>6. f[Len(s)] = g[Len(digits)]
    <2>1. GoOnAlike(s, 1, digits, 0)
      BY <1>1 DEF GoOnAlike
    <2> QED BY <1>1, <1>2, <1>3, <1>5, <2>1, SameTail
  <1> QED BY <1>2, <1>3, <1>6 DEF s

\* Splitting the leading number in two digits leaves what it denotes.
LEMMA DecodeSplit ==
    ASSUME NEW v \in Nat, NEW digits \in Seq(Nat)
    PROVE  Decode(<<v \div Base>> \o (<<v % Base>> \o digits)) = Decode(<<v>> \o digits)
  <1> DEFINE s == <<v>> \o digits
             t == <<v \div Base>> \o (<<v % Base>> \o digits)
  <1>1. /\ (v \div Base) * Base + (v % Base) = v
        /\ v \div Base \in Nat /\ v % Base \in Nat
    BY BaseAssumption
  <1>2. /\ s \in Seq(Nat) /\ Len(s) = Len(digits) + 1 /\ s[1] = v
        /\ \A n \in 1 .. Len(digits) : s[1 + n] = digits[n]
    OBVIOUS
  <1>3. /\ t \in Seq(Nat) /\ Len(t) = Len(digits) + 2
        /\ t[1] = v \div Base /\ t[2] = v % Base
        /\ \A n \in 1 .. Len(digits) : t[2 + n] = digits[n]
    BY <1>1
  <1> HIDE DEF s, t
  <1>4. PICK f : Denotes(f, s, Len(s)) /\ Decode(s) = f[Len(s)]
    BY <1>2, DecodeUnfolds
  <1>5. PICK g : Denotes(g, t, Len(t)) /\ Decode(t) = g[Len(t)]
    BY <1>3, DecodeUnfolds
  <1>6. f[0] = 0 /\ f[1] = f[1 - 1] * Base + s[1]
    BY <1>2, <1>4 DEF Denotes
  <1>7. g[0] = 0 /\ g[1] = g[1 - 1] * Base + t[1] /\ g[2] = g[2 - 1] * Base + t[2]
    BY <1>3, <1>5 DEF Denotes
  <1>8. f[1] = v
    BY <1>2, <1>6, BaseAssumption
  <1>9. g[1] = v \div Base
    BY <1>1, <1>3, <1>7, BaseAssumption
  <1>10. g[2] = v
    BY <1>1, <1>3, <1>7, <1>9
  <1>11. f[Len(s)] = g[Len(t)]
    <2>1. GoOnAlike(s, 1, t, 2)
      BY <1>2, <1>3 DEF GoOnAlike
    <2>2. f[1] = g[2]
      BY <1>8, <1>10
    <2>3. /\ s \in Seq(Nat) /\ Denotes(f, s, Len(s))
          /\ t \in Seq(Nat) /\ Denotes(g, t, Len(t))
      BY <1>2, <1>3, <1>4, <1>5
    <2> QED BY <2>1, <2>2, <2>3, SameTail
  <1> QED BY <1>4, <1>5, <1>11 DEF s, t

-----------------------------------------------------------------------------
(* The loop.                                                               *)

\* The last digit pushed, the highest, is not zero once the loop is done.
Inv ==
    /\ input \in Nat /\ value \in Nat /\ chars \in Seq(0 .. Base - 1)
    /\ LoopInvariant
    /\ value = 0 /\ chars # <<>> => chars[Len(chars)] # 0
    /\ RoundTrip

\* Pushing at the end is putting in front of the reverse.
LEMMA ReversePush ==
    ASSUME NEW digits \in Seq(Nat), NEW d \in Nat
    PROVE  /\ Reverse(digits) \in Seq(Nat)
           /\ Reverse(Append(digits, d)) = <<d>> \o Reverse(digits)
  BY DEF Reverse

\* Nothing is pushed yet, and the value is the input.
LEMMA InvInit == Init => Inv
  <1> SUFFICES ASSUME Init
               PROVE  Inv
    OBVIOUS
  <1>1. input \in Nat /\ value \in Nat /\ chars \in Seq(0 .. Base - 1)
    BY BaseAssumption DEF Init
  <1>2. <<value>> \o Reverse(chars) = <<value>>
    BY DEF Init, Reverse
  <1>3. LoopInvariant
    BY <1>1, <1>2, DecodeDigit DEF Init, LoopInvariant
  <1> QED BY <1>1, <1>3 DEF Init, Inv, RoundTrip

\* Each iteration moves one digit from the value to the characters.
LEMMA InvStep ==
    ASSUME Inv, [Next]_vars
    PROVE  Inv'
  <1>1. /\ input \in Nat /\ value \in Nat /\ chars \in Seq(Nat)
        /\ chars \in Seq(0 .. Base - 1)
    BY BaseAssumption DEF Inv
  <1>2. CASE EncodeZero
    <2>1. Decode(<<0>>) = 0
      BY DecodeDigit
    <2> QED BY <1>2, <2>1 DEF EncodeZero, Inv, LoopInvariant, RoundTrip
  <1>3. CASE PushDigit
    <2>1. /\ value > 0 /\ chars' = Append(chars, value % Base)
          /\ value' = value \div Base /\ input' = input /\ slug' = slug
      BY <1>3 DEF PushDigit
    <2>2. /\ value \div Base \in Nat /\ value % Base \in 0 .. Base - 1
          /\ value \div Base = 0 => value % Base # 0
      BY <1>1, <2>1, BaseAssumption
    <2>3. chars' \in Seq(0 .. Base - 1) /\ chars'[Len(chars')] = value % Base
      BY <1>1, <2>1, <2>2
    <2>4. LoopInvariant'
      <3>1. Reverse(chars)' = <<value % Base>> \o Reverse(chars) /\ Reverse(chars) \in Seq(Nat)
        BY <1>1, <2>1, <2>2, ReversePush
      <3> QED BY <1>1, <2>1, <3>1, DecodeSplit DEF Inv, LoopInvariant
    <2> QED BY <1>1, <2>1, <2>2, <2>3, <2>4 DEF Inv, RoundTrip
  <1>4. CASE Finish
    <2>1. /\ slug' = Reverse(chars) /\ value = 0
          /\ UNCHANGED <<input, value, chars>>
      BY <1>4 DEF Finish
    <2>2. Reverse(chars) \in Seq(Nat)
      BY <1>1, ReversePush
    <2>3. Decode(Reverse(chars)) = input
      BY <2>1, <2>2, DecodeLeadingZero DEF Inv, LoopInvariant
    <2>4. Len(Reverse(chars)) > 1 => Reverse(chars)[1] # 0
      BY <1>1, <2>1 DEF Inv, Reverse
    <2> QED BY <2>1, <2>3, <2>4 DEF Inv, LoopInvariant, RoundTrip
  <1>5. CASE UNCHANGED vars
    BY <1>5 DEF vars, Inv, LoopInvariant, RoundTrip
  <1> QED BY <1>2, <1>3, <1>4, <1>5 DEF Next

\* At every iteration the digits pushed and the value left make up the input,
\* in every base.
THEOREM LoopAlwaysInvariant == Spec => []LoopInvariant
  <1>1. Inv => LoopInvariant
    BY DEF Inv
  <1> QED BY <1>1, InvInit, InvStep, PTL DEF Spec

\* Decoding the slug gives the value back, whatever it was, and the slug has
\* no leading zero.
THEOREM AlwaysRoundTrips == Spec => []RoundTrip
  <1>1. Inv => RoundTrip
    BY DEF Inv
  <1> QED BY <1>1, InvInit, InvStep, PTL DEF Spec
=============================================================================
