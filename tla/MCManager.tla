------------------------------ MODULE MCManager ------------------------------
(* Two goroutines, three providers of which two share a name, an alias and  *)
(* spellings that differ in blanks.                                         *)
EXTENDS Manager

CONSTANTS github, githubPadded, gitlab, gh, empty, o1, o2, o3

MCSpellings == {github, githubPadded, gitlab, gh, empty}
MCTrim == [n \in MCSpellings |-> IF n = githubPadded THEN github ELSE n]
MCNameOf == [o \in {o1, o2, o3} |->
               CASE o = o1 -> github [] o = o2 -> githubPadded [] o = o3 -> gitlab]
=============================================================================
