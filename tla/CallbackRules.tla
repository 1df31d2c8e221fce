---------------------------- MODULE CallbackRules ----------------------------
(* What a provider makes of an authorization callback before it sends      *)
(* anything (oauth2provider/provider.go).  Empty is an absent value: "",    *)
(* and for a code, which is trimmed before it is looked at, a string of    *)
(* blanks as well.  Every other value is opaque.                           *)
CONSTANT Empty

\* A slip: an absent state matches an absent state.
SameState(expected, received) == expected = received

\* validState: two present values that are the same string.
ValidState(expected, received) ==
  /\ expected # Empty
  /\ received # Empty
  /\ expected = received

\* A slip: the verifier is looked at only where a state was.
VerdictPKCEWithState(pkce, callback, session) ==
  IF callback.error THEN "authorization_denied"
  ELSE IF callback.code = Empty THEN "invalid_request"
  ELSE IF session.disabled THEN "ok"
  ELSE IF ~ValidState(session.state, callback.state) THEN "state_validation_failed"
  ELSE IF pkce /\ session.verifier = Empty THEN "invalid_request"
  ELSE "ok"

\* Complete's early returns, in the order the code makes them.
Verdict(pkce, callback, session) ==
  IF callback.error THEN "authorization_denied"
  ELSE IF callback.code = Empty THEN "invalid_request"
  ELSE IF ~session.disabled /\ ~ValidState(session.state, callback.state)
    THEN "state_validation_failed"
  ELSE IF pkce /\ session.verifier = Empty THEN "invalid_request"
  ELSE "ok"
=============================================================================
