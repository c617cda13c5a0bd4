------------------------------- MODULE Base62 -------------------------------
(***************************************************************************)
(* base62_encode_u64 of crate labman-core, the last step of                *)
(* encode_model_slug: the slug of a model is the 64-bit prefix of a hash,  *)
(* written in base 62.                                                     *)
(*                                                                         *)
(* A character of the alphabet is its index.  Base and Limit are           *)
(* parameters; the code has 62 and 2^64.                                   *)
(***************************************************************************)
EXTENDS Naturals, Sequences, SequencesExt

CONSTANTS
    Base,
    Limit       \* values are below it

ASSUME BaseAssumption == Base \in Nat \ {0, 1} /\ Limit \in Nat \ {0}

VARIABLES
    input,
    value,      \* what is left to encode
    chars,      \* the digits so far, lowest first
    slug        \* the result, <<>> while the loop runs

vars == <<input, value, chars, slug>>

Init ==
    /\ input \in 0 .. Limit - 1
    /\ value = input
    /\ chars = <<>>
    /\ slug = <<>>

\* Zero is special: the loop would produce no digit.
EncodeZero ==
    /\ slug = <<>>
    /\ input = 0
    /\ slug' = <<0>>
    /\ UNCHANGED <<input, value, chars>>

\* Mutant of PushDigit: digits from one (bijective numeration).
PushDigitFromOne ==
    /\ value > 0
    /\ chars' = Append(chars, value % Base)
    /\ value' = (value - 1) \div Base
    /\ UNCHANGED <<input, slug>>

PushDigit ==
    /\ value > 0
    /\ chars' = Append(chars, value % Base)
    /\ value' = value \div Base
    /\ UNCHANGED <<input, slug>>

\* Mutant of Finish: the digits are not reversed.
FinishLowestFirst ==
    /\ slug = <<>>
    /\ input > 0
    /\ value = 0
    /\ slug' = chars
    /\ UNCHANGED <<input, value, chars>>

Finish ==
    /\ slug = <<>>
    /\ input > 0
    /\ value = 0
    /\ slug' = Reverse(chars)
    /\ UNCHANGED <<input, value, chars>>

Next == EncodeZero \/ PushDigit \/ Finish

Spec == Init /\ [][Next]_vars

-----------------------------------------------------------------------------
(* Properties.                                                             *)

\* The number a sequence of digits denotes, highest digit first.
Decode(digits) ==
    LET number[n \in 0 .. Len(digits)] ==
            IF n = 0 THEN 0 ELSE number[n - 1] * Base + digits[n]
    IN  number[Len(digits)]

\* Decoding the slug gives the hash prefix back, so distinct prefixes have
\* distinct slugs; no slug is empty or has a leading zero, so the slug of a
\* prefix is unique as well.
RoundTrip ==
    slug # <<>> => /\ Decode(slug) = input
                   /\ Len(slug) > 1 => slug[1] # 0

\* At every iteration the digits pushed and the value left make up the input.
LoopInvariant == Decode(<<value>> \o Reverse(chars)) = input
=============================================================================
