------------------------ MODULE MCAuthorizationRequest ------------------------
(* Two goroutines and one provider: every bundled one, and configurations   *)
(* of an application that differ from a good one in one or two places.      *)
EXTENDS AuthorizationRequest

CONSTANTS client, secret, v1, v2

MCKeys == ProtocolKeys \union {"prompt", "State", "access_token", " "}
MCLower == [k \in MCKeys |-> IF k = "State" THEN "state" ELSE k]
MCBlankKeys == {" "}

MCValues == {v1, v2}

Prompt == [k \in {"prompt"} |-> <<v1>>]
TwoPrompts == [k \in {"prompt"} |-> <<v1, v2>>]
NoPrompt == [k \in {"prompt"} |-> <<>>]
OtherState == [k \in {"State"} |-> <<v1>>]
OtherClient == [k \in {"client_id"} |-> <<v1>>]
BlankName == [k \in {" "} |-> <<v1>>]
SomeToken == [k \in {"access_token"} |-> <<v1>>]

Good == [name |-> "custom", clientID |-> client, redirectURL |-> HttpsURL,
         authURL |-> HttpsURL, tokenURL |-> HttpsURL, userEndpoint |-> HttpsURL,
         scopes |-> <<"read">>, parameters |-> NoParameters, pkce |-> TRUE,
         userLoader |-> FALSE, userMapper |-> TRUE, limit |-> 0]

With(u, query) == [u EXCEPT !.query = query]

\* Where an endpoint's query, a configuration's parameters and a request's meet.
Layered == {[Good EXCEPT !.authURL = With(HttpsURL, q), !.parameters = p, !.pkce = x] :
              q \in {NoParameters, Prompt, OtherClient},
              p \in {NoParameters, TwoPrompts, OtherState}, x \in BOOLEAN}

Unusual == {
  [Good EXCEPT !.name = Empty],
  [Good EXCEPT !.clientID = Empty],
  [Good EXCEPT !.scopes = <<>>],
  [Good EXCEPT !.parameters = BlankName],
  [Good EXCEPT !.authURL.fragment = TRUE],
  [Good EXCEPT !.authURL.host = FALSE],
  [Good EXCEPT !.tokenURL = With(HttpsURL, SomeToken)],
  [Good EXCEPT !.userEndpoint = With(HttpsURL, SomeToken)],
  [Good EXCEPT !.redirectURL = NotAURL],
  [Good EXCEPT !.redirectURL.scheme = "app", !.redirectURL.host = FALSE],
  [Good EXCEPT !.redirectURL.scheme = "javascript"],
  [Good EXCEPT !.userLoader = TRUE],
  [Good EXCEPT !.userLoader = TRUE, !.userMapper = FALSE, !.userEndpoint = NoURL],
  [Good EXCEPT !.limit = MaxInt64]}

MCConfigs == Layered \union Unusual

Plain == [clientID |-> client, clientSecret |-> secret, redirectURL |-> HttpsURL,
          scopes |-> <<>>, parameters |-> Prompt, baseURL |-> NoURL, limit |-> 0]

MCOptions == {
  Plain,
  [Plain EXCEPT !.clientSecret = Empty],
  [Plain EXCEPT !.scopes = <<"read">>, !.baseURL = HttpsURL],
  [Plain EXCEPT !.baseURL = [HttpsURL EXCEPT !.fragment = TRUE]],
  [Plain EXCEPT !.baseURL = [HttpsURL EXCEPT !.scheme = "http"]]}

Ask(scopes, parameters, disable) ==
  [scopes |-> scopes, parameters |-> parameters, disableState |-> disable]

MCRequests == {
  NoRequest,
  Ask(<<>>, NoParameters, TRUE),
  Ask(<<"write">>, Prompt, FALSE),
  Ask(<<>>, NoPrompt, FALSE),
  Ask(<<>>, OtherState, FALSE),
  Ask(<<>>, BlankName, FALSE)}
=============================================================================
