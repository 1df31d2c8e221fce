----------------------------- MODULE CallOutcomes -----------------------------
(* What Complete, User and Refresh promise their callers: one answer to each *)
(* call.  The request decides it first: a refused one is answered with its   *)
(* refusal, whatever happens to its context, and nothing is sent for it.  The *)
(* context is next, if it ends before the answer.  Only then does it matter   *)
(* what the provider said, and no operation reports another's failure.        *)
EXTENDS CallbackRules

CONSTANTS Calls, CompleteRequests, TokenRequests, ErrorCodes

VARIABLES caps, loader, op, input, ended, sent, result

vars == <<caps, loader, op, input, ended, sent, result>>

Nothing == [code |-> Empty, verifier |-> Empty]

Init ==
  /\ caps \in [pkce: BOOLEAN, refresh: BOOLEAN]
  /\ loader \in {"mapped", "github", "custom"}
  /\ op = [c \in Calls |-> "none"]
  /\ input = [c \in Calls |-> [token |-> Empty]]
  /\ ended = [c \in Calls |-> FALSE]
  /\ sent = [c \in Calls |-> Nothing]
  /\ result = [c \in Calls |-> "none"]

Running(c) == op[c] # "none" /\ result[c] = "none"

\* Why a request is refused, "ok" when it is not.
RefreshVerdict(c) ==
  IF ~caps.refresh THEN "unsupported_operation"
  ELSE IF input[c].token = Empty THEN "invalid_request" ELSE "ok"

RequestVerdict(c) ==
  IF op[c] = "complete" THEN Verdict(caps.pkce, input[c].callback, input[c].session)
  ELSE IF op[c] = "refresh" THEN RefreshVerdict(c)
  ELSE IF input[c].token = Empty THEN "invalid_request" ELSE "ok"

\* What a token request, and the loading of a user, can fail with.
TokenFailures(c) ==
  {"transport_failed", "response_too_large",
   IF op[c] = "refresh" THEN "token_refresh_failed" ELSE "token_exchange_failed"}

LoaderFailures ==
  IF loader = "custom" THEN ErrorCodes
  ELSE {"transport_failed", "response_too_large", "provider_response_failed",
        "response_decoding_failed"}

Failures(c) ==
  (IF op[c] = "user" THEN {} ELSE TokenFailures(c))
    \union (IF op[c] = "refresh" THEN {} ELSE LoaderFailures)

Answers(c) ==
  IF RequestVerdict(c) # "ok" THEN {RequestVerdict(c)}
  ELSE IF ended[c] THEN {"transport_failed"}
  ELSE {"ok"} \union Failures(c)

-----------------------------------------------------------------------------
Ask(c, o, i) ==
  /\ op[c] = "none"
  /\ op' = [op EXCEPT ![c] = o]
  /\ input' = [input EXCEPT ![c] = i]
  /\ UNCHANGED <<caps, loader, ended, sent, result>>

\* The call's context ends before its answer.
End(c) ==
  /\ Running(c) /\ ~ended[c]
  /\ ended' = [ended EXCEPT ![c] = TRUE]
  /\ UNCHANGED <<caps, loader, op, input, sent, result>>

\* The code leaves, once, with the verifier of its session.
Send(c) ==
  /\ Running(c) /\ op[c] = "complete" /\ RequestVerdict(c) = "ok"
  /\ sent[c] = Nothing
  /\ sent' = [sent EXCEPT ![c] =
       [code |-> input[c].callback.code,
        verifier |-> IF caps.pkce THEN input[c].session.verifier ELSE Empty]]
  /\ UNCHANGED <<caps, loader, op, input, ended, result>>

\* The answer: no login ends otherwise than refused before its code was sent.
Answer(c, a) ==
  /\ Running(c) /\ a \in Answers(c)
  /\ op[c] = "complete" => (sent[c] = Nothing <=> RequestVerdict(c) # "ok")
  /\ result' = [result EXCEPT ![c] = a]
  /\ UNCHANGED <<caps, loader, op, input, ended, sent>>

Next ==
  \E c \in Calls :
    \/ \E i \in CompleteRequests : Ask(c, "complete", i)
    \/ \E o \in {"user", "refresh"}, i \in TokenRequests : Ask(c, o, i)
    \/ End(c) \/ Send(c)
    \/ \E a \in ErrorCodes \union {"ok"} : Answer(c, a)

Spec == Init /\ [][Next]_vars
=============================================================================
