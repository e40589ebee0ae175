-------------------------- MODULE LineNumbers --------------------------
(***************************************************************************)
(* Lines picked by their numbers: out of the log (LogBook.cs), out of what *)
(* two versions have in common (control/diff.ts).                          *)
(***************************************************************************)
EXTENDS Integers, FiniteSets

\* The numbers of a set as a sequence, least first.
InOrderOf(numbers) ==
  [k \in 1..Cardinality(numbers) |-> CHOOSE n \in numbers : Cardinality({m \in numbers : m <= n}) = k]
============================================================================
