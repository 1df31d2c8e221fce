----------------------------- MODULE AtomicBegin -----------------------------
(* What Begin promises to concurrent callers: every call is answered at one  *)
(* instant.  It returns a session that fits its request and the provider,    *)
(* with values no other session has, or it returns an error and nothing of   *)
(* a session, and it fails only where there is a reason.                     *)
CONSTANTS Callers, Requests, Inadmissible, Empty, NotBuilt, Refused,
          NoRequest, NoSession

VARIABLES provider, request, session, result

vars == <<provider, request, session, result>>

Init ==
  /\ provider = NotBuilt
  /\ request = [c \in Callers |-> NoRequest]
  /\ session = [c \in Callers |-> NoSession]
  /\ result = [c \in Callers |-> "none"]

\* The random values of a session, and those that sessions have already.
ValuesOf(s) == {s.state, s.verifier} \ {Empty}
Taken == UNION {ValuesOf(session[c]) : c \in Callers}

\* A session for a request: with a state unless the request disables it, with a
\* verifier if the provider uses PKCE, and both of them new.
Fits(s, r) ==
  /\ s.disabled = r.disableState
  /\ s.state = Empty <=> r.disableState
  /\ s.verifier = Empty <=> ~provider.pkce
  /\ s.state = s.verifier => s.state = Empty
  /\ ValuesOf(s) \intersect Taken = {}

\* The random source is read, and may fail, only for a value that is wanted.
Reason(r, code) ==
  \/ code = "transport_failed"
  \/ code = "invalid_request" /\ r \in Inadmissible
  \/ code = "invalid_configuration" /\ r \notin Inadmissible
       /\ (~r.disableState \/ provider.pkce)

-----------------------------------------------------------------------------
Build == provider = NotBuilt /\ provider' # NotBuilt /\ UNCHANGED <<request, session, result>>

Answer(c, r, s, code) ==
  /\ provider \notin {NotBuilt, Refused} /\ result[c] = "none"
  /\ request' = [request EXCEPT ![c] = r]
  /\ session' = [session EXCEPT ![c] = s]
  /\ result' = [result EXCEPT ![c] = code]
  /\ UNCHANGED provider

Succeed(c, r) ==
  /\ r \notin Inadmissible /\ Fits(session'[c], r)
  /\ Answer(c, r, session'[c], "ok")

Fail(c, r, code) == Reason(r, code) /\ Answer(c, r, NoSession, code)

Next ==
  \/ Build
  \/ \E c \in Callers, r \in Requests :
       \/ Succeed(c, r)
       \/ \E code \in {"transport_failed", "invalid_request", "invalid_configuration"} :
            Fail(c, r, code)

Spec == Init /\ [][Next]_vars
=============================================================================
