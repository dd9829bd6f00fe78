--------------------------------- MODULE Sums ---------------------------------
(***************************************************************************)
(* Sums and products over sequences, as the program's sum() over lists and *)
(* its running factors; recursion as a function.                           *)
(***************************************************************************)
EXTENDS Integers, Sequences

\* The product of the numbers of a sequence.
Product(seq) ==
    LET prod[n \in 0 .. Len(seq)] == IF n = 0 THEN 1 ELSE prod[n - 1] * seq[n]
    IN  prod[Len(seq)]

Summed(seq) ==
    LET sum[n \in 0 .. Len(seq)] == IF n = 0 THEN 0 ELSE sum[n - 1] + seq[n]
    IN  sum[Len(seq)]
=============================================================================
