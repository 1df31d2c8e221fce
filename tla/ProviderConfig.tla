---------------------------- MODULE ProviderConfig ----------------------------
(***************************************************************************)
(* What oauth2provider.New makes of a configuration (config.go): the        *)
(* checks on URLs and parameter names, and the provider it returns.  A URL  *)
(* is the record of what the checks ask about it; its query, like any       *)
(* url.Values, is a function from some parameter names to sequences.        *)
(* Every refusal is an invalid_configuration error, so their order is left  *)
(* out, and names, secrets and values are opaque.                           *)
(***************************************************************************)
EXTENDS Integers, Sequences, CallbackRules

CONSTANTS
  Keys,      \* parameter names as maps and URLs spell them
  Lower,     \* strings.ToLower on Keys
  BlankKeys, \* the names that are empty once trimmed
  MaxInt64   \* the largest limit an int64 can hold

\* The keys of AuthCodeURL.
ProtocolKeys == {"response_type", "client_id", "redirect_uri", "scope", "state",
                 "code_challenge", "code_challenge_method"}

ASSUME KeysAssumption ==
  /\ ProtocolKeys \subseteq Keys /\ BlankKeys \subseteq Keys
  /\ Lower \in [Keys -> Keys]
  /\ \A k \in ProtocolKeys : Lower[k] = k
ASSUME LimitAssumption == MaxInt64 \in Nat /\ MaxInt64 > 1

NoParameters == [k \in {} |-> <<>>]

-----------------------------------------------------------------------------
(* URLs *)

\* "plain": no "." or ".." or escaped slash in a path, no "?" without a query.
HttpsURL == [blank |-> FALSE, parses |-> TRUE, scheme |-> "https", host |-> TRUE,
             user |-> FALSE, fragment |-> FALSE, plain |-> TRUE, query |-> NoParameters]

\* url.ParseRequestURI refuses some strings, and the empty one.
NotAURL == [HttpsURL EXCEPT !.parses = FALSE, !.scheme = "", !.host = FALSE]
NoURL == [NotAURL EXCEPT !.blank = TRUE]

\* validHTTPURL
ValidHTTPURL(u) == u.parses /\ ~u.user /\ u.host /\ u.scheme \in {"https", "http"}

\* validRedirectURL: applications on a device have schemes of their own.
ValidRedirectURL(u) ==
  /\ u.parses /\ ~u.user
  /\ u.scheme \notin {"", "data", "file", "javascript", "vbscript"}
  /\ u.scheme \in {"http", "https"} => u.host

-----------------------------------------------------------------------------
(* Parameter names *)

\* isProtectedAuthorizationParameter
IsProtected(key) ==
  Lower[key] \in ProtocolKeys \union
    {"access_token", "client_secret", "code", "code_verifier", "id_token", "refresh_token"}

\* isSensitiveEndpointParameter
IsSensitive(key) ==
  Lower[key] \in {"access_token", "client_secret", "code", "code_verifier", "refresh_token"}

\* invalidAuthorizationParameters: a name that would come between the library and
\* its own parameters, in any mixture of cases, or none at all.
InvalidAuthorizationParameters(parameters) ==
  \E key \in DOMAIN parameters : key \in BlankKeys \/ IsProtected(key)

HasProtectedEndpointParameter(u) == InvalidAuthorizationParameters(u.query)

HasSensitiveEndpointParameter(u) == \E key \in DOMAIN u.query : IsSensitive(key)

-----------------------------------------------------------------------------
(* New *)

Refused == [refused |-> TRUE]

\* configuredUserLoader: a loader alone, or a mapper with an endpoint.
HasUserLoader(config) ==
  \/ /\ config.userLoader /\ ~config.userMapper
     /\ config.userEndpoint.blank
  \/ /\ ~config.userLoader /\ config.userMapper
     /\ ValidHTTPURL(config.userEndpoint)
     /\ ~HasSensitiveEndpointParameter(config.userEndpoint)

\* Zero asks for the default limit.  The largest integer is refused: one more is read.
ValidLimit(limit) == limit = 0 \/ (limit >= 1 /\ limit # MaxInt64)

Acceptable(config) ==
  /\ config.name # Empty /\ config.clientID # Empty
  /\ ValidHTTPURL(config.authURL) /\ ValidHTTPURL(config.tokenURL)
  /\ ValidRedirectURL(config.redirectURL)
  /\ ~HasProtectedEndpointParameter(config.authURL)
  /\ ~HasSensitiveEndpointParameter(config.tokenURL)
  /\ ~InvalidAuthorizationParameters(config.parameters)
  /\ HasUserLoader(config)
  /\ ValidLimit(config.limit)

\* The provider has copies of the scopes and of the parameters (cloneStrings,
\* cloneValues): in a model, values.
New(config) ==
  IF Acceptable(config)
    THEN [name |-> config.name, clientID |-> config.clientID,
          redirectURL |-> config.redirectURL, authURL |-> config.authURL,
          scopes |-> config.scopes, parameters |-> config.parameters,
          pkce |-> config.pkce]
    ELSE Refused
=============================================================================
