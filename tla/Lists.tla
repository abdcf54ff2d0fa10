-------------------------------- MODULE Lists --------------------------------
(***************************************************************************)
(* What the code asks of the lists of its language, for the modules that   *)
(* work on texts, tags and messages.                                       *)
(***************************************************************************)
EXTENDS Naturals, Sequences, FiniteSets

\* filter: the entries of s at the positions in kept, in their order.
Filtered(s, kept) ==
  [n \in 1 .. Cardinality(kept) |-> s[CHOOSE i \in kept : Cardinality({j \in kept : j <= i}) = n]]

\* The sum a loop over a list of numbers comes to.
SumOf(numbers) ==
  LET to[i \in 0 .. Len(numbers)] == IF i = 0 THEN 0 ELSE to[i - 1] + numbers[i]
  IN  to[Len(numbers)]
=============================================================================
