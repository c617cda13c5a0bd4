----------------------------- MODULE GlobMatch -----------------------------
(***************************************************************************)
(* glob_match of crate labman-endpoints, the test behind models_include    *)
(* and models_exclude: the segments of the pattern between its stars are   *)
(* looked for one after the other, each at its first occurrence in what is *)
(* left of the text.                                                       *)
(*                                                                         *)
(* A character is an element of Letter or the star; one step of the module *)
(* is one segment.                                                         *)
(***************************************************************************)
EXTENDS Naturals, Sequences, SequencesExt, FiniteSetsExt

CONSTANTS
    Letter,         \* the other characters
    Star,
    MaxPattern,     \* bounds on the inputs
    MaxText

VARIABLES
    pattern, text,
    remainder,      \* the text after the last segment found
    part,           \* the segment to look for next, from 1
    result          \* "running", "match" or "mismatch"

globVars == <<pattern, text, remainder, part, result>>

\* A star in a text is a character like any other.
Char == Letter \cup {Star}
Patterns == UNION {[1 .. n -> Char] : n \in 0 .. MaxPattern}
Texts == UNION {[1 .. n -> Char] : n \in 0 .. MaxText}

\* pattern.split('*').
Stars == {i \in 1 .. Len(pattern) : pattern[i] = Star}
Ends == {0, Len(pattern) + 1} \cup Stars
Cut(k) == CHOOSE i \in Ends : Cardinality({j \in Ends : j < i}) = k - 1
NumParts == Cardinality(Stars) + 1
Part(k) == SubSeq(pattern, Cut(k) + 1, Cut(k + 1) - 1)

After(s, n) == SubSeq(s, n + 1, Len(s))

\* str::find: the offsets at which segment occurs in s.
Occurrences(segment, s) ==
    {i \in 0 .. Len(s) : IsPrefix(segment, After(s, i))}

GlobInit ==
    /\ pattern \in Patterns
    /\ text \in Texts
    /\ remainder = text
    /\ part = 1
    /\ result = "running"

Return(verdict) ==
    /\ result' = verdict
    /\ UNCHANGED <<pattern, text, remainder, part>>

Verdict(test) == IF test THEN "match" ELSE "mismatch"

\* No star: the pattern is the text.  (The pattern "*" alone needs no case:
\* its two segments are empty.)
MatchLiteral ==
    /\ result = "running"
    /\ NumParts = 1
    /\ Return(Verdict(pattern = text))

\* The first segment is a prefix.
MatchPrefix ==
    /\ result = "running"
    /\ NumParts > 1
    /\ part = 1
    /\ IF IsPrefix(Part(1), text)
       THEN /\ remainder' = After(text, Len(Part(1)))
            /\ part' = 2
            /\ UNCHANGED <<pattern, text, result>>
       ELSE Return("mismatch")

\* Mutant of MatchMiddle: rfind instead of find.
MatchMiddleLast ==
    /\ result = "running"
    /\ part \in 2 .. NumParts - 1
    /\ LET found == Occurrences(Part(part), remainder)
       IN  IF found # {}
           THEN /\ remainder' = After(remainder, Max(found) + Len(Part(part)))
                /\ part' = part + 1
                /\ UNCHANGED <<pattern, text, result>>
           ELSE Return("mismatch")

\* A middle segment is taken at its first occurrence.
MatchMiddle ==
    /\ result = "running"
    /\ part \in 2 .. NumParts - 1
    /\ LET found == Occurrences(Part(part), remainder)
       IN  IF found # {}
           THEN /\ remainder' = After(remainder, Min(found) + Len(Part(part)))
                /\ part' = part + 1
                /\ UNCHANGED <<pattern, text, result>>
           ELSE Return("mismatch")

\* The last segment is a suffix of what is left.
MatchSuffix ==
    /\ result = "running"
    /\ NumParts > 1
    /\ part = NumParts
    /\ Return(Verdict(IsSuffix(Part(NumParts), remainder)))

GlobNext == MatchLiteral \/ MatchPrefix \/ MatchMiddle \/ MatchSuffix

GlobSpec == GlobInit /\ [][GlobNext]_globVars

-----------------------------------------------------------------------------
(* Properties.                                                             *)

\* What a glob means: the lengths of the prefixes of the text that the first i
\* characters of the pattern match.  Letters agree, and every star stands for
\* some stretch of the text.
Reach[i \in 0 .. Len(pattern)] ==
    IF i = 0 THEN {0}
    ELSE IF pattern[i] = Star
         THEN {j \in 0 .. Len(text) : \E k \in Reach[i - 1] : k <= j}
         ELSE {j \in 1 .. Len(text) : pattern[i] = text[j] /\ j - 1 \in Reach[i - 1]}
GlobMatches == Len(text) \in Reach[Len(pattern)]

\* Searching greedily from left to right, without ever going back, decides
\* exactly the declarative meaning of the pattern, also where segments
\* overlap in the text ("a*a" does not match "a") and where stars repeat.
GreedyIsExact == result # "running" => (result = "match") = GlobMatches
=============================================================================
