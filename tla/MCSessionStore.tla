--------------------------- MODULE MCSessionStore ---------------------------
(* Small instances of SessionStore for TLC. *)
EXTENDS SessionStore

CONSTANTS github, githubPadded, google

\* " github " and "github" are one provider once trimmed.
MCNames == {github, githubPadded, google}
MCTrim == [n \in MCNames |-> IF n = githubPadded THEN github ELSE n]

=============================================================================
