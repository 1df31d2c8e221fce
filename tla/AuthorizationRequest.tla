------------------------- MODULE AuthorizationRequest -------------------------
(***************************************************************************)
(* Begin (oauth2provider/provider.go): goroutines ask one provider for      *)
(* authorization URLs.  They share its configuration, which the application *)
(* handed to New and may go on changing, and its random source, any         *)
(* io.Reader, behind a mutex.  Everything else is local to a call.          *)
(***************************************************************************)
EXTENDS BundledProviders, FiniteSets

CONSTANTS
  Callers,  \* goroutines, each of which makes one call
  Configs,  \* configurations an application gives to oauth2provider.New
  Options,  \* options it gives to a bundled provider's New
  Requests, \* BeginRequest values
  Values    \* values of parameters

ASSUME EmptyAssumption ==
  Empty \notin Nat \union {"code", "github", "google", "discord", "gitlab"}
ASSUME CallersAssumption == IsFiniteSet(Callers)

\* url.Values: some names, each with a sequence of values, which may be empty.
IsValues(values) ==
  /\ DOMAIN values \subseteq Keys
  /\ \A k \in DOMAIN values : values[k] \in Seq(Values)

\* What the code could not be compiled without.
ASSUME ConfigsAssumption ==
  \A c \in Configs : /\ c.pkce \in BOOLEAN /\ c.authURL.fragment \in BOOLEAN
                     /\ IsValues(c.authURL.query)
ASSUME OptionsAssumption == \A o \in Options : DOMAIN o.baseURL = DOMAIN HttpsURL
ASSUME RequestsAssumption ==
  \A r \in Requests : r.disableState \in BOOLEAN /\ IsValues(r.parameters)

VARIABLES
  config,   \* history: the configuration as it was given to New
  given,    \* the application's scopes and parameters, which it may change
  provider, \* NotBuilt, Refused or what New returned
  pc,       \* where each call is
  request,  \* its request
  session,  \* the AuthorizationSession it is filling in
  url,      \* the query of the URL it returned: each key's values
  result,   \* "none", "ok" or the error code it returned
  next,     \* the random source's position: every 32 bytes are new
  reading   \* the position each call's read began at, Empty outside randomMu

locals == <<pc, request, session, url, result>>
source == <<next, reading>>
vars == <<config, given, provider, locals, source>>

NotBuilt == [refused |-> FALSE]
NoURLYet == [k \in Keys |-> <<>>]
NoSession == [state |-> Empty, verifier |-> Empty, disabled |-> FALSE]
NoRequest == [scopes |-> <<>>, parameters |-> NoParameters, disableState |-> FALSE]

Built == provider \notin {NotBuilt, Refused}

PCs == {"idle", "state", "verifier", "url", "done"}

TypeOK ==
  /\ pc \in [Callers -> PCs]
  /\ request \in [Callers -> Requests \union {NoRequest}]
  /\ session \in [Callers -> [state: Nat \union {Empty}, verifier: Nat \union {Empty},
                              disabled: BOOLEAN]]
  /\ DOMAIN url = Callers /\ \A c \in Callers : DOMAIN url[c] = Keys
  /\ result \in [Callers -> {"none", "ok", "transport_failed", "invalid_request",
                             "invalid_configuration"}]
  /\ next \in Nat /\ next <= 2 * Cardinality(Callers)
  /\ reading \in [Callers -> Nat \union {Empty}]
  /\ \A c \in Callers : reading[c] # Empty => reading[c] = next

Init ==
  /\ config = NotBuilt /\ provider = NotBuilt
  /\ given = [scopes |-> <<>>, parameters |-> NoParameters]
  /\ pc = [c \in Callers |-> "idle"]
  /\ request = [c \in Callers |-> NoRequest]
  /\ session = [c \in Callers |-> NoSession]
  /\ url = [c \in Callers |-> NoURLYet]
  /\ result = [c \in Callers |-> "none"]
  /\ next = 0 /\ reading = [c \in Callers |-> Empty]

-----------------------------------------------------------------------------
(* The application. *)

Construct(configuration, new) ==
  /\ provider = NotBuilt
  /\ config' = configuration
  /\ provider' = new
  /\ given' = [scopes |-> configuration.scopes, parameters |-> configuration.parameters]
  /\ UNCHANGED <<locals, source>>

ConstructAny ==
  \/ \E c \in Configs : Construct(c, New(c))
  \/ \E o \in Options :
       \/ Construct(GitHub(o), NewGitHub(o))
       \/ Construct(Google(o), NewGoogle(o))
       \/ Construct(Discord(o), NewDiscord(o))
       \/ Construct(GitLab(o), NewGitLab(o))

\* It empties the slice and the map it gave to New.
Reuse ==
  /\ Built
  /\ given' = [scopes |-> <<>>, parameters |-> NoParameters]
  /\ UNCHANGED <<config, provider, locals, source>>

-----------------------------------------------------------------------------
(* Begin. *)

Return(c, code) ==
  /\ pc' = [pc EXCEPT ![c] = "done"]
  /\ result' = [result EXCEPT ![c] = code]

\* After the state, or without one: a verifier if the provider uses PKCE.
AfterState == IF provider.pkce THEN "verifier" ELSE "url"

\* The context is looked at once, then the names of the parameters.
Enter(c, r, cancelled) ==
  /\ Built /\ pc[c] = "idle"
  /\ request' = [request EXCEPT ![c] = r]
  /\ \/ /\ cancelled
        /\ Return(c, "transport_failed")
        /\ UNCHANGED session
     \/ /\ ~cancelled /\ InvalidAuthorizationParameters(r.parameters)
        /\ Return(c, "invalid_request")
        /\ UNCHANGED session
     \/ /\ ~cancelled /\ ~InvalidAuthorizationParameters(r.parameters)
        /\ session' = [session EXCEPT ![c].disabled = r.disableState]
        /\ pc' = [pc EXCEPT ![c] = IF r.disableState THEN AfterState ELSE "state"]
        /\ UNCHANGED result
  /\ UNCHANGED <<config, given, provider, url, source>>

\* A slip: the random source is read without the mutex.
DrawUnlocked(c) ==
  /\ pc[c] \in {"state", "verifier"} /\ reading[c] = Empty
  /\ reading' = [reading EXCEPT ![c] = next]
  /\ UNCHANGED <<config, given, provider, locals, next>>

\* randomValue takes the mutex and starts to read.
Draw(c) ==
  /\ pc[c] \in {"state", "verifier"}
  /\ \A d \in Callers : reading[d] = Empty
  /\ reading' = [reading EXCEPT ![c] = next]
  /\ UNCHANGED <<config, given, provider, locals, next>>

\* The 32 bytes are read and the mutex is released.
Drawn(c) ==
  /\ reading[c] # Empty
  /\ next' = reading[c] + 1
  /\ \/ /\ pc[c] = "state"
        /\ session' = [session EXCEPT ![c].state = reading[c]]
        /\ pc' = [pc EXCEPT ![c] = AfterState]
     \/ /\ pc[c] = "verifier"
        /\ session' = [session EXCEPT ![c].verifier = reading[c]]
        /\ pc' = [pc EXCEPT ![c] = "url"]
  /\ reading' = [reading EXCEPT ![c] = Empty]
  /\ UNCHANGED <<config, given, provider, request, url, result>>

\* A slip: the unlock is missed on the way out with an error.
DrawFailsLocked(c) ==
  /\ reading[c] # Empty /\ pc[c] \in {"state", "verifier"}
  /\ Return(c, "invalid_configuration")
  /\ session' = [session EXCEPT ![c] = NoSession]
  /\ UNCHANGED <<config, given, provider, request, url, source>>

\* A slip: the session is returned as far as it has come.
DrawFailsKeeps(c) ==
  /\ reading[c] # Empty
  /\ reading' = [reading EXCEPT ![c] = Empty]
  /\ Return(c, "invalid_configuration")
  /\ UNCHANGED <<config, given, provider, request, session, url, next>>

\* The source fails, for the first value or the second: the call returns the zero
\* Authorization, without the state it may have drawn.
DrawFails(c) ==
  /\ reading[c] # Empty
  /\ reading' = [reading EXCEPT ![c] = Empty]
  /\ Return(c, "invalid_configuration")
  /\ session' = [session EXCEPT ![c] = NoSession]
  /\ UNCHANGED <<config, given, provider, request, url, next>>

-----------------------------------------------------------------------------
(* The URL. *)

\* A slip: New keeps the configuration's slice, which the application may change.
ScopesShared(c) == IF request[c].scopes = <<>> THEN given.scopes ELSE request[c].scopes

\* oauthConfig: the request's scopes replace the provider's, unless there are none.
Scopes(c) == IF request[c].scopes = <<>> THEN provider.scopes ELSE request[c].scopes

\* What proves the verifier in the URL (S256ChallengeOption).
Challenge(verifier) == [s256 |-> verifier]

\* The query AuthCodeURL appends to the authorization endpoint.
AuthCodeQuery(c) ==
  [k \in Keys |->
     CASE k = "response_type" -> <<"code">>
       [] k = "client_id" -> <<provider.clientID>>
       [] k = "redirect_uri" -> <<provider.redirectURL>>
       [] k = "scope" /\ Scopes(c) # <<>> -> <<Scopes(c)>>
       [] k = "state" /\ session[c].state # Empty -> <<session[c].state>>
       [] k = "code_challenge" /\ provider.pkce -> <<Challenge(session[c].verifier)>>
       [] k = "code_challenge_method" /\ provider.pkce -> <<"S256">>
       [] OTHER -> <<>>]

\* A URL with both queries, unless its fragment swallows the second one.
AuthCodeURL(c) ==
  LET endpoint == provider.authURL IN
  [k \in Keys |->
     (IF k \in DOMAIN endpoint.query THEN endpoint.query[k] ELSE <<>>)
       \o (IF endpoint.fragment THEN <<>> ELSE AuthCodeQuery(c)[k])]

\* applyAuthorizationParameters deletes and adds: a name without values is deleted.
ApplyAuthorizationParameters(query, parameters) ==
  [k \in Keys |-> IF k \in DOMAIN parameters THEN parameters[k] ELSE query[k]]

WithoutState(c, query) ==
  IF request[c].disableState THEN [query EXCEPT !["state"] = <<>>] ELSE query

\* The URL is built and returned with the session.  It always parses: its endpoint
\* did in New, and what is appended is encoded.
BuildURL(c) ==
  LET own == WithoutState(c, AuthCodeURL(c))
      reusable == ApplyAuthorizationParameters(own, provider.parameters)
  IN
  /\ pc[c] = "url"
  /\ url' = [url EXCEPT ![c] = ApplyAuthorizationParameters(reusable, request[c].parameters)]
  /\ Return(c, "ok")
  /\ UNCHANGED <<config, given, provider, request, session, source>>

-----------------------------------------------------------------------------
\* What a call does once it has begun.
Continue(c) == Draw(c) \/ Drawn(c) \/ DrawFails(c) \/ BuildURL(c)

Next ==
  \/ ConstructAny
  \/ Reuse
  \/ \E c \in Callers :
       \/ \E r \in Requests, cancelled \in BOOLEAN : Enter(c, r, cancelled)
       \/ Continue(c)

\* The random source answers or fails, and the mutex is fair to those who wait.
Fairness == \A c \in Callers : WF_vars(Continue(c))

Spec == Init /\ [][Next]_vars /\ Fairness

-----------------------------------------------------------------------------
(* Properties *)

\* Calls that succeeded, with an endpoint that has no fragment, as RFC 6749 wants it.
Accepted == {c \in Callers : result[c] = "ok" /\ ~config.authURL.fragment}

OneOrNone(wanted, value) == IF wanted THEN <<value>> ELSE <<>>

\* The protocol's own part of a URL, from the configuration as it was given to New,
\* from the call's request and from the session it returned.
ProtocolPart(c) ==
  LET r == request[c]
      scopes == IF r.scopes = <<>> THEN config.scopes ELSE r.scopes
  IN [response_type |-> <<"code">>,
      client_id |-> <<config.clientID>>,
      redirect_uri |-> <<config.redirectURL>>,
      scope |-> OneOrNone(scopes # <<>>, scopes),
      state |-> OneOrNone(~r.disableState, session[c].state),
      code_challenge |-> OneOrNone(config.pkce, Challenge(session[c].verifier)),
      code_challenge_method |-> OneOrNone(config.pkce, "S256")]

\* The nearest of a request, a configuration and an endpoint that name a parameter.
NearestPart(c, k) ==
  LET sources == <<request[c].parameters, config.parameters, config.authURL.query>>
      naming == {i \in 1..3 : k \in DOMAIN sources[i]}
  IN IF naming = {} THEN <<>>
     ELSE LET nearest == CHOOSE i \in naming : \A j \in naming : i <= j
          IN sources[nearest][k]

\* Whatever the endpoint's query, the configuration and the request say, and whatever
\* the application does to its slices and maps meanwhile, a URL says exactly what the
\* session, the configuration and the scopes say, once each and in no other spelling, and
\* the nearest of what was said of any other parameter (README.md:225, 388;
\* provider.go:49-61).
URLIsAsAsked ==
  \A c \in Accepted, k \in Keys :
    url[c][k] = IF k \in ProtocolKeys THEN ProtocolPart(c)[k]
                ELSE IF Lower[k] \in ProtocolKeys THEN <<>>
                ELSE NearestPart(c, k)

\* The callback of a browser that was sent to d's URL, and the provider's comparison of
\* c's verifier with the challenge in that URL.
CallbackOf(d) ==
  [error |-> FALSE, code |-> "code",
   state |-> IF url[d]["state"] = <<>> THEN Empty ELSE url[d]["state"][1]]
Completes(c, d) == Verdict(provider.pkce, CallbackOf(d), session[c]) = "ok"
Proves(c, d) == url[d]["code_challenge"] = <<Challenge(session[c].verifier)>>

\* A session that Begin returned passes the checks of Complete with the callback of its
\* own URL, and with no other's unless its state is disabled; its verifier proves its own
\* URL's challenge, and no other's even then, and is in no URL: however the calls that
\* drew these values interleave (provider.go:33-46, 164-172, README.md:239-241).
OnlyItsOwnCallback ==
  \A c, d \in Accepted :
    /\ Completes(c, d) <=> c = d \/ session[c].disabled
    /\ provider.pkce =>
         /\ Proves(c, d) <=> c = d
         /\ url[d]["state"] # <<session[c].verifier>>

\* Every call returns, after a random source that failed others as well: the mutex is
\* released on every way out (provider.go:164-172).
BeginReturns == \A c \in Callers : pc[c] # "idle" ~> pc[c] = "done"

\* Begin with its steps, its lock and its random source looks to callers as if each call
\* were answered at one instant, with a whole session of new values or with an error
\* that has a reason and nothing of a session (provider.go:33-65).
Returned(c) == pc[c] = "done"
RequestsAnswered == [c \in Callers |-> IF Returned(c) THEN request[c] ELSE NoRequest]
SessionsReturned == [c \in Callers |-> IF Returned(c) THEN session[c] ELSE NoSession]
Inadmissible == {r \in Requests : InvalidAuthorizationParameters(r.parameters)}
Atomic == INSTANCE AtomicBegin WITH
  request <- RequestsAnswered, session <- SessionsReturned
ImplementsAtomicBegin == Atomic!Spec

-----------------------------------------------------------------------------
(* The inductive invariant. *)

\* The provider is a copy of a configuration that New found acceptable.
FromConfig ==
  \/ provider \in {NotBuilt, Refused}
  \/ /\ Acceptable(config)
     /\ provider = New(config)
     /\ config.pkce \in BOOLEAN /\ config.authURL.fragment \in BOOLEAN
     /\ IsValues(config.authURL.query)

\* A call that has been let in, and has not failed.
Admitted(c) == pc[c] \in {"state", "verifier", "url"} \/ result[c] = "ok"

\* What a call's position says of its request and of the values it has drawn.
CallInv(c) ==
  /\ result[c] = "none" <=> pc[c] # "done"
  /\ pc[c] # "idle" => Built
  /\ pc[c] = "state" => ~request[c].disableState
  /\ pc[c] = "verifier" => provider.pkce
  /\ ~Admitted(c) => session[c] = NoSession
  /\ Admitted(c) =>
       /\ ~InvalidAuthorizationParameters(request[c].parameters)
       /\ session[c].disabled = request[c].disableState
       /\ session[c].state = Empty <=> request[c].disableState \/ pc[c] = "state"
       /\ session[c].verifier = Empty <=> ~provider.pkce \/ pc[c] \in {"state", "verifier"}

\* One call at a time is inside randomMu.
OneReader ==
  \A c \in Callers : reading[c] # Empty =>
    /\ pc[c] \in {"state", "verifier"}
    /\ \A d \in Callers \ {c} : reading[d] = Empty

\* The positions a call has drawn its values at, and that no other call has.
Held(c) == {session[c].state, session[c].verifier} \ {Empty}
Fresh ==
  \A c \in Callers :
    /\ \A position \in Held(c) : position < next
    /\ session[c].state = session[c].verifier => session[c].state = Empty
    /\ \A d \in Callers \ {c} : Held(c) \intersect Held(d) = {}

\* A call leaves "state" and "verifier" once each, and no value is drawn elsewhere.
PastState == {c \in Callers : pc[c] \in {"verifier", "url", "done"}}
PastVerifier == {c \in Callers : pc[c] \in {"url", "done"}}
Counted == next <= Cardinality(PastState) + Cardinality(PastVerifier)

IInv ==
  /\ TypeOK
  /\ FromConfig
  /\ \A c \in Callers : CallInv(c)
  /\ OneReader
  /\ Fresh
  /\ Counted
  /\ URLIsAsAsked
=============================================================================
