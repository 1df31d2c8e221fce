----------------------------- MODULE MCLoginFlow -----------------------------
(* Two logins, in tabs of one browser or in two, and two callbacks.        *)
EXTENDS LoginFlow, TLC

Symmetry == Permutations(Browsers) \union Permutations(Providers)
            \union Permutations(Flows) \union Permutations(Requests)
=============================================================================
