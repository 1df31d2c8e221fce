--------------------------- MODULE MCFakeProvider ---------------------------
(* Two goroutines, two of the four kinds of operations, which are alike.   *)
EXTENDS FakeProvider, TLC

Symmetry == Permutations(Callers) \union Permutations(Kinds)
            \union Permutations(Results) \union Permutations(Errors)
            \union Permutations(Requests)
=============================================================================
