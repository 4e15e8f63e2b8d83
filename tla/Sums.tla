-------------------------------- MODULE Sums --------------------------------
(***************************************************************************)
(* The sum of the values of a function or a queue of numbers.  A sum counts*)
(* units instead of adding values up: without recursion, what it is after a*)
(* step follows from facts about finite sets (CountingLemmas).             *)
(***************************************************************************)
EXTENDS Integers, FiniteSets

\* The units of f, each named by where it is and by its number there.
Units(f) == UNION {{x} \X (1..f[x]) : x \in DOMAIN f}

SumOf(f) == Cardinality(Units(f))

=============================================================================
