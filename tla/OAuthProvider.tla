---------------------------- MODULE OAuthProvider ----------------------------
(***************************************************************************)
(* The operations of oauth2provider.Provider that talk to a provider:       *)
(* Complete, User and Refresh, with the token request, the user request,    *)
(* the user loader, the caller's context and the HTTP client's timeout.     *)
(* The context is cancelled by somebody else, at any moment; the code reads *)
(* it at a few points only, and answers arrive in between.                  *)
(***************************************************************************)
EXTENDS Naturals, CallbackRules

CONSTANTS Calls,       \* operations in flight
          Codes,       \* authorization codes
          States,      \* state values
          Verifiers,   \* PKCE verifiers
          Tokens,      \* access and refresh tokens
          HasTimeout   \* http.Client.Timeout is set, as the default client's is

ASSUME EmptyAssumption == Empty \notin Codes \union States \union Verifiers \union Tokens
ASSUME TimeoutAssumption == HasTimeout \in BOOLEAN

VARIABLES
  caps,        \* Capabilities, fixed by New
  loader,      \* "mapped" (endpoint and mapper), "github" or "custom" (a UserLoader)
  capFirst,    \* golang.org/x/oauth2 reads no further into a token body than
               \* MaxResponseSize allows: so it is by default (config.go:20)
  pc,          \* where each call is
  op,          \* which operation it runs
  input,       \* its request
  ctx,         \* its context: "live" or "cancelled"
  reply,       \* what came of its last HTTP request
  loaderErr,   \* what the user loader returned
  result,      \* "none", "ok" or the error code returned
  asked,       \* history: whether its loader asked for e-mail addresses
  cancelledIn, \* history: the pc the call was at when its context ended
  posted       \* history: what its token request carried

vars == <<caps, loader, capFirst, asked, pc, op, input, ctx, reply, loaderErr, result, cancelledIn, posted>>

-----------------------------------------------------------------------------
PCs == {"idle", "validate", "token_wait", "token_done", "load",
        "fetch_wait", "fetch_done", "email_wait", "email_done", "loader_done", "done"}

ErrorCodes == {"invalid_configuration", "invalid_request", "authorization_denied",
               "state_validation_failed", "token_exchange_failed", "token_refresh_failed",
               "transport_failed", "provider_response_failed", "response_decoding_failed",
               "unsupported_operation", "response_too_large", "unknown",
               "provider_not_found", "duplicate_provider"}

Callbacks == [error: BOOLEAN, code: Codes \union {Empty}, state: States \union {Empty}]
AuthorizationSessions == [state: States \union {Empty}, verifier: Verifiers \union {Empty},
                          disabled: BOOLEAN]
CompleteRequests == [callback: Callbacks, session: AuthorizationSessions]
TokenRequests == [token: Tokens \union {Empty}]

\* "declared": the Content-Length is over the limit; "streamed": the body is;
\* "unreachable": no response came; "body_cut": the connection failed, or the
\* client gave up, while the body was read.  Of a token body over the limit
\* golang.org/x/oauth2 may drop the end before the limit is met (BoundedBody's
\* TokenCap): "cut" leaves nothing it can decode, of "padded" only padding goes.
Oversize == {"declared", "streamed"}
Shortened == {"cut", "padded"}
TokenReplies == {"token", "refused", "unreachable", "body_cut"} \union Oversize
                  \union Shortened
Accepted == {"token", "padded"}
UserReplies == {"document", "bad_status", "garbage", "unreachable", "body_cut"}
                 \union Oversize
Broken == {"unreachable", "body_cut"}

NoPost == [code |-> Empty, verifier |-> Empty]

Init ==
  /\ caps \in [pkce: BOOLEAN, refresh: BOOLEAN]
  /\ loader \in {"mapped", "github", "custom"}
  /\ capFirst \in BOOLEAN
  /\ asked = [c \in Calls |-> FALSE]
  /\ pc = [c \in Calls |-> "idle"]
  /\ op = [c \in Calls |-> "none"]
  /\ input = [c \in Calls |-> [token |-> Empty]]
  /\ ctx = [c \in Calls |-> "live"]
  /\ reply = [c \in Calls |-> "none"]
  /\ loaderErr = [c \in Calls |-> "none"]
  /\ result = [c \in Calls |-> "none"]
  /\ cancelledIn = [c \in Calls |-> "never"]
  /\ posted = [c \in Calls |-> NoPost]

Cancelled(c) == ctx[c] = "cancelled"

Goto(c, p) == pc' = [pc EXCEPT ![c] = p] /\ UNCHANGED result

Return(c, r) ==
  /\ pc' = [pc EXCEPT ![c] = "done"]
  /\ result' = [result EXCEPT ![c] = r]

-----------------------------------------------------------------------------
(* The caller. *)

Start(c, o, i) ==
  /\ pc[c] = "idle"
  /\ op' = [op EXCEPT ![c] = o]
  /\ input' = [input EXCEPT ![c] = i]
  /\ Goto(c, "validate")
  /\ UNCHANGED <<caps, loader, capFirst, asked, ctx, reply, loaderErr, cancelledIn, posted>>

\* The caller, its deadline or a closed connection ends the context.
Cancel(c) ==
  /\ pc[c] # "idle"
  /\ ~Cancelled(c)
  /\ ctx' = [ctx EXCEPT ![c] = "cancelled"]
  /\ cancelledIn' = [cancelledIn EXCEPT ![c] = pc[c]]
  /\ UNCHANGED <<caps, loader, capFirst, asked, pc, op, input, reply, loaderErr, result, posted>>

-----------------------------------------------------------------------------
(* Validation: nothing is sent before it, and it does not read the context. *)

ValidateComplete(c) ==
  LET verdict == Verdict(caps.pkce, input[c].callback, input[c].session) IN
  /\ pc[c] = "validate" /\ op[c] = "complete"
  /\ \/ /\ verdict # "ok"
        /\ Return(c, verdict)
        /\ UNCHANGED posted
     \/ /\ verdict = "ok"
        /\ Goto(c, "token_wait")
        /\ posted' = [posted EXCEPT ![c] =
             [code |-> input[c].callback.code,
              verifier |-> IF caps.pkce THEN input[c].session.verifier ELSE Empty]]
  /\ UNCHANGED <<caps, loader, capFirst, asked, op, input, ctx, reply, loaderErr, cancelledIn>>

ValidateUser(c) ==
  /\ pc[c] = "validate" /\ op[c] = "user"
  /\ IF input[c].token = Empty THEN Return(c, "invalid_request") ELSE Goto(c, "load")
  /\ UNCHANGED <<caps, loader, capFirst, asked, op, input, ctx, reply, loaderErr, cancelledIn, posted>>

ValidateRefresh(c) ==
  /\ pc[c] = "validate" /\ op[c] = "refresh"
  /\ \/ /\ ~caps.refresh
        /\ Return(c, "unsupported_operation")
     \/ /\ caps.refresh /\ input[c].token = Empty
        /\ Return(c, "invalid_request")
     \/ /\ caps.refresh /\ input[c].token # Empty
        /\ Goto(c, "token_wait")
  /\ UNCHANGED <<caps, loader, capFirst, asked, op, input, ctx, reply, loaderErr, cancelledIn, posted>>

-----------------------------------------------------------------------------
(* HTTP. *)

Answered(c, r) ==
  /\ \/ pc[c] = "token_wait" /\ Goto(c, "token_done")
     \/ pc[c] = "fetch_wait" /\ Goto(c, "fetch_done")
     \/ pc[c] = "email_wait" /\ Goto(c, "email_done")
  /\ reply' = [reply EXCEPT ![c] = r]
  /\ UNCHANGED <<caps, loader, capFirst, asked, op, input, ctx, loaderErr, cancelledIn, posted>>

\* The provider's servers and the network, which may also never answer.
TokenEndpoint(c, r) ==
  /\ pc[c] = "token_wait"
  /\ IF capFirst THEN r # "streamed" ELSE r \notin Shortened
  /\ Answered(c, r)

UserEndpoint(c, r) == pc[c] \in {"fetch_wait", "email_wait"} /\ Answered(c, r)

\* A slip: the client is built without a timeout.
ClientGivesUpIfAsked(c, r) ==
  /\ Cancelled(c)
  /\ Answered(c, r)

\* The client ends the request: its context is over, or its timeout is.
ClientGivesUp(c, r) ==
  /\ Cancelled(c) \/ HasTimeout
  /\ Answered(c, r)

-----------------------------------------------------------------------------
\* A slip: the context is looked at last.
TokenOperationErrorLate(c) ==
  IF reply[c] \in Oversize THEN "response_too_large"
  ELSE IF reply[c] = "unreachable" \/ Cancelled(c) THEN "transport_failed"
  ELSE IF op[c] = "refresh" THEN "token_refresh_failed"
  ELSE "token_exchange_failed"

\* A slip: an oversized body is taken for any other failed read.
TokenOperationErrorPlain(c) ==
  IF Cancelled(c) THEN "transport_failed"
  ELSE IF reply[c] = "declared" THEN "response_too_large"
  ELSE IF reply[c] = "unreachable" THEN "transport_failed"
  ELSE IF op[c] = "refresh" THEN "token_refresh_failed"
  ELSE "token_exchange_failed"

\* tokenOperationError: the context first, then what the error says.  Only an
\* error of the request itself still is a net.Error; golang.org/x/oauth2 makes
\* a new error of what goes wrong while it reads the body.
TokenOperationError(c) ==
  IF Cancelled(c) THEN "transport_failed"
  ELSE IF reply[c] \in Oversize THEN "response_too_large"
  ELSE IF reply[c] = "unreachable" THEN "transport_failed"
  ELSE IF op[c] = "refresh" THEN "token_refresh_failed"
  ELSE "token_exchange_failed"

TokenFails(c) ==
  /\ pc[c] = "token_done" /\ reply[c] \notin Accepted
  /\ Return(c, TokenOperationError(c))
  /\ UNCHANGED <<caps, loader, capFirst, asked, op, input, ctx, reply, loaderErr, cancelledIn, posted>>

\* Refresh reads the context once more before it returns the token.
RefreshReturns(c) ==
  /\ pc[c] = "token_done" /\ reply[c] \in Accepted /\ op[c] = "refresh"
  /\ Return(c, IF Cancelled(c) THEN "transport_failed" ELSE "ok")
  /\ UNCHANGED <<caps, loader, capFirst, asked, op, input, ctx, reply, loaderErr, cancelledIn, posted>>

Exchanged(c) ==
  /\ pc[c] = "token_done" /\ reply[c] \in Accepted /\ op[c] = "complete"
  /\ Goto(c, "load")
  /\ UNCHANGED <<caps, loader, capFirst, asked, op, input, ctx, reply, loaderErr, cancelledIn, posted>>

-----------------------------------------------------------------------------
\* loadUser, up to the loader's request.
Load(c) ==
  /\ pc[c] = "load"
  /\ IF Cancelled(c) THEN Return(c, "transport_failed") ELSE Goto(c, "fetch_wait")
  /\ UNCHANGED <<caps, loader, capFirst, asked, op, input, ctx, reply, loaderErr, cancelledIn, posted>>

\* GetJSON's error for the reply, "none" for a document it could decode.  A body
\* over the limit is noticed before the context is looked at, a response
\* declared too large after.
FetchError(c) ==
  CASE reply[c] = "document" -> "none"
    [] reply[c] = "bad_status" -> "provider_response_failed"
    [] reply[c] = "garbage" -> "response_decoding_failed"
    [] reply[c] = "streamed" -> "response_too_large"
    [] reply[c] = "declared" -> IF Cancelled(c) THEN "transport_failed"
                                ELSE "response_too_large"
    [] reply[c] \in Broken -> "transport_failed"

\* mappedUserLoader hands GetJSON's error on, and calls the mapper otherwise, as
\* GitHub's loader does when it needs no e-mail address (user.go:33-51); a UserLoader
\* of the application returns what it likes, and need not wait for the answer.
LoaderReturns(c, e) ==
  /\ pc[c] = "fetch_done" \/ (pc[c] = "fetch_wait" /\ loader = "custom")
  /\ loader # "custom" => IF FetchError(c) = "none"
                          THEN e \in {"none", "response_decoding_failed"}
                          ELSE e = FetchError(c)
  /\ loaderErr' = [loaderErr EXCEPT ![c] = e]
  /\ Goto(c, "loader_done")
  /\ UNCHANGED <<caps, loader, capFirst, asked, op, input, ctx, reply, cancelledIn, posted>>

\* GitHub's loader found no address in the document and the token's scopes do not
\* forbid it to ask for them.
GitHubAsksForEmail(c) ==
  /\ pc[c] = "fetch_done" /\ loader = "github" /\ FetchError(c) = "none"
  /\ asked' = [asked EXCEPT ![c] = TRUE]
  /\ Goto(c, "email_wait")
  /\ UNCHANGED <<caps, loader, capFirst, op, input, ctx, reply, loaderErr, cancelledIn, posted>>

\* A slip: what goes wrong with the addresses goes wrong with the login.
GitHubReturnsError(c) ==
  /\ pc[c] = "email_done"
  /\ loaderErr' = [loaderErr EXCEPT ![c] = FetchError(c)]
  /\ Goto(c, "loader_done")
  /\ UNCHANGED <<caps, loader, capFirst, asked, op, input, ctx, reply, cancelledIn, posted>>

\* fallbackEmail: an error counts only when the context is over.
GitHubReturns(c) ==
  /\ pc[c] = "email_done"
  /\ loaderErr' = [loaderErr EXCEPT ![c] = IF Cancelled(c) THEN FetchError(c) ELSE "none"]
  /\ Goto(c, "loader_done")
  /\ UNCHANGED <<caps, loader, capFirst, asked, op, input, ctx, reply, cancelledIn, posted>>

\* A slip: an error without a category is returned as it is.
LoadReturnsAsIs(c) ==
  /\ pc[c] = "loader_done"
  /\ \/ Cancelled(c) /\ Return(c, "transport_failed")
     \/ ~Cancelled(c) /\ loaderErr[c] = "none" /\ Return(c, "ok")
     \/ ~Cancelled(c) /\ loaderErr[c] # "none" /\ Return(c, loaderErr[c])
  /\ UNCHANGED <<caps, loader, capFirst, asked, op, input, ctx, reply, loaderErr, cancelledIn, posted>>

\* loadUser's second half: the context decides, whatever the loader returned.
LoadReturns(c) ==
  /\ pc[c] = "loader_done"
  /\ \/ Cancelled(c) /\ Return(c, "transport_failed")
     \/ ~Cancelled(c) /\ loaderErr[c] = "none" /\ Return(c, "ok")
     \/ ~Cancelled(c) /\ loaderErr[c] = "uncategorised" /\ Return(c, "response_decoding_failed")
     \/ ~Cancelled(c) /\ loaderErr[c] \in ErrorCodes /\ Return(c, loaderErr[c])
  /\ UNCHANGED <<caps, loader, capFirst, asked, op, input, ctx, reply, loaderErr, cancelledIn, posted>>

-----------------------------------------------------------------------------
Step(c) ==
  \/ ValidateComplete(c) \/ ValidateUser(c) \/ ValidateRefresh(c)
  \/ \E r \in Broken : ClientGivesUp(c, r)
  \/ TokenFails(c) \/ RefreshReturns(c) \/ Exchanged(c)
  \/ Load(c)
  \/ \E e \in ErrorCodes \union {"none", "uncategorised"} : LoaderReturns(c, e)
  \/ GitHubAsksForEmail(c) \/ GitHubReturns(c)
  \/ LoadReturns(c)

Environment(c) ==
  \/ \E i \in CompleteRequests : Start(c, "complete", i)
  \/ \E o \in {"user", "refresh"}, i \in TokenRequests : Start(c, o, i)
  \/ Cancel(c)
  \/ \E r \in TokenReplies : TokenEndpoint(c, r)
  \/ \E r \in UserReplies : UserEndpoint(c, r)

Next == \E c \in Calls : Step(c) \/ Environment(c)

\* The code runs on and the client's timer fires; callers, servers and whoever
\* cancels owe nothing.
Fairness == \A c \in Calls : WF_vars(Step(c))

Spec == Init /\ [][Next]_vars /\ Fairness

-----------------------------------------------------------------------------
(* Properties *)

TypeOK ==
  /\ caps \in [pkce: BOOLEAN, refresh: BOOLEAN]
  /\ loader \in {"mapped", "github", "custom"}
  /\ capFirst \in BOOLEAN
  /\ asked \in [Calls -> BOOLEAN]
  /\ pc \in [Calls -> PCs]
  /\ op \in [Calls -> {"none", "complete", "user", "refresh"}]
  /\ input \in [Calls -> CompleteRequests \union TokenRequests]
  /\ ctx \in [Calls -> {"live", "cancelled"}]
  /\ reply \in [Calls -> {"none"} \union TokenReplies \union UserReplies]
  /\ loaderErr \in [Calls -> {"none", "uncategorised"} \union ErrorCodes]
  /\ result \in [Calls -> {"none", "ok"} \union ErrorCodes]
  /\ cancelledIn \in [Calls -> {"never"} \union PCs]
  /\ posted \in [Calls -> [code: Codes \union {Empty}, verifier: Verifiers \union {Empty}]]

CancelledBeforeReturn(c) == cancelledIn[c] \notin {"never", "done"}

\* An operation whose context ended while it ran never reports success, however
\* good the answers that arrive afterwards are (CHANGELOG.md:25-26): every
\* stretch of the code that can run after a cancellation ends in a check of the
\* context.
CancelledNeverSucceeds ==
  \A c \in Calls : CancelledBeforeReturn(c) => result[c] # "ok"

\* ... and what it reports is the context, as a transport failure, whichever
\* error the race with the cancellation produced; unless the request was
\* rejected before anything was sent (provider.go:68-79, 95, 103-108).
Rejections == {"authorization_denied", "invalid_request", "state_validation_failed",
               "unsupported_operation"}

CancellationIsTransport ==
  \A c \in Calls : CancelledBeforeReturn(c) /\ pc[c] = "done" =>
    \/ result[c] = "transport_failed"
    \/ result[c] \in Rejections /\ reply[c] = "none"

\* A code reaches the token endpoint only with a callback that was checked
\* against its session, and with the session's verifier exactly when the
\* provider uses PKCE, with state verification switched off as well
\* (provider.go:68-84, TestStateDisabledFlowRetainsPKCE).
CodeSentWhenChecked ==
  \A c \in Calls : posted[c] # NoPost =>
    LET callback == input[c].callback
        session == input[c].session
    IN  /\ op[c] = "complete"
        /\ ~callback.error
        /\ posted[c].code = callback.code /\ callback.code # Empty
        /\ session.disabled \/ (callback.state = session.state /\ session.state # Empty)
        /\ caps.pkce => posted[c].verifier = session.verifier /\ session.verifier # Empty
        /\ ~caps.pkce => posted[c].verifier = Empty

\* An answer over the limit is reported as one, and nothing else is: at both
\* endpoints, and whether its size was declared or came to light while it was read.
\* The one exception is a token body that golang.org/x/oauth2 cuts before the limit
\* is met, which takes a MaxResponseSize of its own cap or more.
TooLong == Oversize \union Shortened

OversizeReported ==
  \A c \in Calls :
    /\ pc[c] = "done"
    /\ ~CancelledBeforeReturn(c)
    /\ loader # "custom"
    /\ ~asked[c]
    => (result[c] = "response_too_large" <=>
          reply[c] \in TooLong /\ (capFirst => reply[c] \in Oversize))

\* An e-mail address is optional: once the user document is there, no answer of the
\* address endpoint, and no missing answer, fails the operation
\* (providers/github/user.go:65-71); unless the context ended.
EmailIsOptional ==
  \A c \in Calls :
    asked[c] /\ pc[c] = "done" /\ ~CancelledBeforeReturn(c) => result[c] = "ok"

Outcomes == INSTANCE CallOutcomes WITH
  ended <- [c \in Calls |-> CancelledBeforeReturn(c)], sent <- posted

\* One answer to each call, never taken back: the request's own refusal, or else the
\* context's end, or else what the provider said, under a code of this operation's; and
\* one token request at most, for a callback that was not refused (provider.go:66-163).
ImplementsCallOutcomes == Outcomes!Spec

\* With a client that has a timeout every operation returns, whether or not the
\* provider's servers ever answer.
CallsReturn == \A c \in Calls : pc[c] # "idle" ~> pc[c] = "done"

\* What holds of every call at every moment, and makes the above inductive.
CallInv(c) ==
  /\ ctx[c] = "live" <=> cancelledIn[c] = "never"
  /\ pc[c] = "done" \/ (result[c] = "none" /\ cancelledIn[c] # "done")
  /\ pc[c] \in {"idle", "validate"} => reply[c] = "none" /\ posted[c] = NoPost
  /\ pc[c] = "idle" => ctx[c] = "live"
  /\ op[c] = "complete" => input[c] \in CompleteRequests
  /\ pc[c] \in {"token_wait", "load", "fetch_wait"} => reply[c] \in {"none"} \union Accepted
  /\ pc[c] \in {"token_wait", "token_done"} => op[c] \in {"complete", "refresh"}
  /\ pc[c] = "token_done" => reply[c] \in TokenReplies
  /\ reply[c] \in Shortened => capFirst
  /\ pc[c] = "loader_done" /\ loader # "custom" /\ ~asked[c] =>
       Cancelled(c) \/ (loaderErr[c] = "response_too_large" <=> reply[c] \in Oversize)
  /\ pc[c] \in {"fetch_done", "loader_done"} /\ loader # "custom" => reply[c] \in UserReplies
  /\ pc[c] \in {"email_wait", "email_done"} => asked[c]
  /\ asked[c] => pc[c] \in {"email_wait", "email_done", "loader_done", "done"}
  /\ asked[c] /\ pc[c] = "loader_done" => loaderErr[c] = "none" \/ Cancelled(c)
  /\ pc[c] = "email_done" => reply[c] \in UserReplies

IInv ==
  /\ TypeOK
  /\ \A c \in Calls : CallInv(c)
  /\ CancelledNeverSucceeds
  /\ CancellationIsTransport
  /\ CodeSentWhenChecked
  /\ OversizeReported
  /\ EmailIsOptional

\* CHANGELOG.md:28, "Classify token endpoint network failures as transport
\* errors": the code does so only for failures before the response's header.
NetworkFailureIsTransport ==
  \A c \in Calls :
    pc[c] = "done" /\ reply[c] \in Broken /\ op[c] \in {"complete", "refresh"}
      /\ loader = "mapped"
    => result[c] = "transport_failed"

\* CHANGELOG.md:30, "Report streamed oversized token responses with the response-size
\* error category": the code does so only below golang.org/x/oauth2's own cap.
StreamedTokenReported ==
  \A c \in Calls :
    /\ pc[c] = "done" /\ ~CancelledBeforeReturn(c)
    /\ op[c] = "refresh" \/ posted[c] # NoPost
    /\ reply[c] \in {"streamed"} \union Shortened
    /\ loader = "mapped"
    => result[c] = "response_too_large"
=============================================================================
