----------------------------- MODULE MCTextMode -----------------------------
(* A video of two rows and two columns, and terminals of its size, taller and smaller *)
EXTENDS TextMode, TLC

CONSTANTS a, b

Letters == {a, b}
Sizes == {[rows |-> 2, columns |-> 2], [rows |-> 3, columns |-> 2], [rows |-> 1, columns |-> 3]}

\* Nothing tells one letter from another
Symmetry == Permutations(Letters)

=============================================================================
