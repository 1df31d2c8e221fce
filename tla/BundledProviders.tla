--------------------------- MODULE BundledProviders ---------------------------
(***************************************************************************)
(* The constructors of the bundled providers (providers/github, google,     *)
(* discord and gitlab): each turns its own options into a configuration of  *)
(* oauth2provider, or refuses them.                                         *)
(***************************************************************************)
EXTENDS ProviderConfig

\* Every constructor asks for both credentials and somewhere to redirect to.
HasCredentials(options) ==
  options.clientID # Empty /\ options.clientSecret # Empty /\ ~options.redirectURL.blank

\* An empty list of scopes gets the provider's own.
ScopesOr(options, default) == IF options.scopes = <<>> THEN default ELSE options.scopes

\* What the four configurations have in common: one Config literal, with the
\* endpoints of the provider's own server at base.
Common(name, options, base) ==
  [name |-> name, clientID |-> options.clientID, redirectURL |-> options.redirectURL,
   authURL |-> base, tokenURL |-> base, userEndpoint |-> base,
   scopes |-> options.scopes, parameters |-> NoParameters, pkce |-> TRUE,
   userLoader |-> FALSE, userMapper |-> TRUE, limit |-> options.limit]

GitHub(options) ==
  [Common("github", options, HttpsURL) EXCEPT
     !.userLoader = TRUE, !.userMapper = FALSE, !.userEndpoint = NoURL]

Google(options) ==
  [Common("google", options, HttpsURL) EXCEPT
     !.scopes = ScopesOr(options, <<"openid", "profile", "email">>),
     !.parameters = options.parameters]

Discord(options) ==
  [Common("discord", options, HttpsURL) EXCEPT
     !.scopes = ScopesOr(options, <<"identify", "email">>)]

\* normalizeBaseURL: a blank base is gitlab.com, any other an https URL without
\* user or query, and with a plain path.
ValidBaseURL(u) ==
  \/ u.blank
  \/ /\ u.parses /\ u.scheme = "https" /\ u.host /\ ~u.user
     /\ u.query = NoParameters /\ u.plain

\* The three endpoints are joined to the base; what looked like a fragment has become
\* an escaped part of the path.
GitLab(options) ==
  [Common("gitlab", options,
          IF options.baseURL.blank THEN HttpsURL ELSE [options.baseURL EXCEPT !.fragment = FALSE])
     EXCEPT !.scopes = ScopesOr(options, <<"read_user">>)]

\* The constructors' New: options are refused, or handed to oauth2provider.New.
NewGitHub(options) == IF HasCredentials(options) THEN New(GitHub(options)) ELSE Refused
NewGoogle(options) == IF HasCredentials(options) THEN New(Google(options)) ELSE Refused
NewDiscord(options) == IF HasCredentials(options) THEN New(Discord(options)) ELSE Refused
NewGitLab(options) ==
  IF ValidBaseURL(options.baseURL) /\ HasCredentials(options)
    THEN New(GitLab(options))
    ELSE Refused
=============================================================================
