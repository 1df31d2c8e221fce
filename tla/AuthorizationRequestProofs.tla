---------------------- MODULE AuthorizationRequestProofs ----------------------
(***************************************************************************)
(* Theorems about Begin, for every number of goroutines, every              *)
(* configuration, every bundled provider's options and every request.       *)
(* First what the operators make of parameters, then that the steps keep    *)
(* IInv (in AuthorizationRequest), then what follows from it.               *)
(***************************************************************************)
EXTENDS AuthorizationRequest, FiniteSetTheorems, SequenceTheorems, TLAPS

-----------------------------------------------------------------------------
(* Parameters and URLs. *)

\* A map without protected names says nothing of the protocol's parameters, in any
\* spelling.
LEMMA NoProtocolName ==
  ASSUME NEW parameters, ~InvalidAuthorizationParameters(parameters),
         NEW k \in Keys, Lower[k] \in ProtocolKeys
  PROVE  k \notin DOMAIN parameters
BY DEF InvalidAuthorizationParameters, IsProtected

LEMMA LowerProtocol == \A k \in ProtocolKeys : k \in Keys /\ Lower[k] \in ProtocolKeys
BY KeysAssumption

\* The value nearest to a call is the request's, then the configuration's, then the
\* endpoint's.
LEMMA NearestFirst ==
  ASSUME NEW c \in Callers, NEW k
  PROVE  NearestPart(c, k) =
           IF k \in DOMAIN request[c].parameters THEN request[c].parameters[k]
           ELSE IF k \in DOMAIN config.parameters THEN config.parameters[k]
           ELSE IF k \in DOMAIN config.authURL.query THEN config.authURL.query[k]
           ELSE <<>>
<1> DEFINE sources == <<request[c].parameters, config.parameters, config.authURL.query>>
           naming == {i \in 1..3 : k \in DOMAIN sources[i]}
           nearest == CHOOSE i \in naming : \A j \in naming : i <= j
<1>1. /\ sources[1] = request[c].parameters
      /\ sources[2] = config.parameters
      /\ sources[3] = config.authURL.query
  OBVIOUS
<1>2. NearestPart(c, k) = IF naming = {} THEN <<>> ELSE sources[nearest][k]
  BY DEF NearestPart
<1>3. ASSUME NEW n \in naming, \A j \in naming : n <= j
      PROVE  nearest = n
  <2>1. \E i \in naming : \A j \in naming : i <= j
    BY <1>3
  <2>2. nearest \in naming /\ \A j \in naming : nearest <= j
    BY <2>1, Zenon
  <2>3. nearest <= n /\ n <= nearest /\ n \in 1..3 /\ nearest \in 1..3
    BY <1>3, <2>2
  <2> HIDE DEF nearest, naming
  <2> QED
    BY <2>3
<1> HIDE DEF nearest
<1>4. CASE k \in DOMAIN request[c].parameters
  <2>1. 1 \in naming /\ \A j \in naming : 1 <= j
    BY <1>1, <1>4
  <2>2. nearest = 1
    BY <1>3, <2>1
  <2> QED
    BY <1>1, <1>2, <1>4, <2>1, <2>2
<1>5. CASE k \notin DOMAIN request[c].parameters /\ k \in DOMAIN config.parameters
  <2>1. 2 \in naming /\ \A j \in naming : 2 <= j
    BY <1>1, <1>5
  <2>2. nearest = 2
    BY <1>3, <2>1
  <2> QED
    BY <1>1, <1>2, <1>5, <2>1, <2>2
<1>6. CASE /\ k \notin DOMAIN request[c].parameters
           /\ k \notin DOMAIN config.parameters
           /\ k \in DOMAIN config.authURL.query
  <2>1. 3 \in naming /\ \A j \in naming : 3 <= j
    BY <1>1, <1>6
  <2>2. nearest = 3
    BY <1>3, <2>1
  <2> QED
    BY <1>1, <1>2, <1>6, <2>1, <2>2
<1>7. CASE /\ k \notin DOMAIN request[c].parameters
           /\ k \notin DOMAIN config.parameters
           /\ k \notin DOMAIN config.authURL.query
  <2>1. naming = {}
    BY <1>1, <1>7
  <2> QED
    BY <1>2, <1>7, <2>1
<1> QED
  BY <1>4, <1>5, <1>6, <1>7

\* What AuthCodeURL appends, name by name.
LEMMA AuthCodeQueryParts ==
  ASSUME NEW c \in Callers
  PROVE  /\ AuthCodeQuery(c)["response_type"] = <<"code">>
         /\ AuthCodeQuery(c)["client_id"] = <<provider.clientID>>
         /\ AuthCodeQuery(c)["redirect_uri"] = <<provider.redirectURL>>
         /\ AuthCodeQuery(c)["scope"] = OneOrNone(Scopes(c) # <<>>, Scopes(c))
         /\ AuthCodeQuery(c)["state"] = OneOrNone(session[c].state # Empty, session[c].state)
         /\ AuthCodeQuery(c)["code_challenge"] =
              OneOrNone(provider.pkce, Challenge(session[c].verifier))
         /\ AuthCodeQuery(c)["code_challenge_method"] = OneOrNone(provider.pkce, "S256")
         /\ \A k \in Keys \ ProtocolKeys : AuthCodeQuery(c)[k] = <<>>
<1>1. \A k \in ProtocolKeys : k \in Keys
  BY LowerProtocol
<1>2. AuthCodeQuery(c)["response_type"] = <<"code">>
  BY <1>1 DEF AuthCodeQuery, ProtocolKeys
<1>3. AuthCodeQuery(c)["client_id"] = <<provider.clientID>>
  BY <1>1 DEF AuthCodeQuery, ProtocolKeys
<1>4. AuthCodeQuery(c)["redirect_uri"] = <<provider.redirectURL>>
  BY <1>1 DEF AuthCodeQuery, ProtocolKeys
<1>5. AuthCodeQuery(c)["scope"] = OneOrNone(Scopes(c) # <<>>, Scopes(c))
  BY <1>1 DEF AuthCodeQuery, ProtocolKeys, OneOrNone
<1>6. AuthCodeQuery(c)["state"] = OneOrNone(session[c].state # Empty, session[c].state)
  BY <1>1 DEF AuthCodeQuery, ProtocolKeys, OneOrNone
<1>7. AuthCodeQuery(c)["code_challenge"] =
        OneOrNone(provider.pkce, Challenge(session[c].verifier))
  BY <1>1 DEF AuthCodeQuery, ProtocolKeys, OneOrNone
<1>8. AuthCodeQuery(c)["code_challenge_method"] = OneOrNone(provider.pkce, "S256")
  BY <1>1 DEF AuthCodeQuery, ProtocolKeys, OneOrNone
<1>9. \A k \in Keys \ ProtocolKeys : AuthCodeQuery(c)[k] = <<>>
  BY DEF AuthCodeQuery, ProtocolKeys
<1> QED
  BY <1>2, <1>3, <1>4, <1>5, <1>6, <1>7, <1>8, <1>9

\* Each part of a query is a sequence, and nothing appended to it leaves it as it was.
LEMMA NothingAppended ==
  /\ \A x : <<>> \o <<x>> = <<x>>
  /\ <<>> \o <<>> = <<>>
  /\ \A s \in Seq(Values) : s \o <<>> = s
<1>1. ASSUME NEW x PROVE <<>> \o <<x>> = <<x>>
  <2>1. <<x>> \in Seq({x})
    OBVIOUS
  <2> QED
    BY <2>1, ConcatEmptySeq
<1>2. <<>> \in Seq(Values)
  OBVIOUS
<1> QED
  BY <1>1, <1>2, ConcatEmptySeq

\* The query of the URL that BuildURL returns.
URLOf(c) ==
  ApplyAuthorizationParameters(
    ApplyAuthorizationParameters(WithoutState(c, AuthCodeURL(c)), provider.parameters),
    request[c].parameters)

\* The protocol's parameters come from AuthCodeURL alone, other spellings of them
\* from nowhere, and every other from the last of those that name it.
LEMMA URLParts ==
  ASSUME NEW c \in Callers,
         ~InvalidAuthorizationParameters(request[c].parameters),
         ~InvalidAuthorizationParameters(provider.parameters),
         ~InvalidAuthorizationParameters(provider.authURL.query),
         IsValues(provider.authURL.query),
         provider.authURL.fragment = FALSE,
         NEW k \in Keys
  PROVE  /\ k \in ProtocolKeys =>
              URLOf(c)[k] = IF k = "state" /\ request[c].disableState THEN <<>>
                            ELSE AuthCodeQuery(c)[k]
         /\ k \notin ProtocolKeys /\ Lower[k] \in ProtocolKeys => URLOf(c)[k] = <<>>
         /\ k \notin ProtocolKeys =>
              URLOf(c)[k] =
                IF k \in DOMAIN request[c].parameters THEN request[c].parameters[k]
                ELSE IF k \in DOMAIN provider.parameters THEN provider.parameters[k]
                ELSE IF k \in DOMAIN provider.authURL.query THEN provider.authURL.query[k]
                ELSE <<>>
<1> DEFINE query == provider.authURL.query
           own == WithoutState(c, AuthCodeURL(c))
           reusable == ApplyAuthorizationParameters(own, provider.parameters)
<1>1. AuthCodeURL(c)[k] = (IF k \in DOMAIN query THEN query[k] ELSE <<>>) \o AuthCodeQuery(c)[k]
  BY DEF AuthCodeURL
<1>2. own[k] = IF k = "state" /\ request[c].disableState THEN <<>> ELSE AuthCodeURL(c)[k]
  BY DEF WithoutState, AuthCodeURL
<1>3. reusable[k] = IF k \in DOMAIN provider.parameters THEN provider.parameters[k] ELSE own[k]
  BY DEF ApplyAuthorizationParameters
<1>4. URLOf(c)[k] = IF k \in DOMAIN request[c].parameters THEN request[c].parameters[k]
                    ELSE reusable[k]
  BY DEF URLOf, ApplyAuthorizationParameters
<1> HIDE DEF query, own, reusable
<1>5. ASSUME Lower[k] \in ProtocolKeys
      PROVE  /\ URLOf(c)[k] = own[k]
             /\ AuthCodeURL(c)[k] = <<>> \o AuthCodeQuery(c)[k]
  <2>1. /\ k \notin DOMAIN request[c].parameters
        /\ k \notin DOMAIN provider.parameters
        /\ k \notin DOMAIN query
    BY <1>5, NoProtocolName DEF query
  <2> QED
    BY <1>1, <1>3, <1>4, <2>1
<1>6. CASE k \in ProtocolKeys
  <2>1. <<>> \o AuthCodeQuery(c)[k] = AuthCodeQuery(c)[k]
    <3>1. AuthCodeQuery(c)[k] = <<>> \/ \E x : AuthCodeQuery(c)[k] = <<x>>
      BY <1>6, AuthCodeQueryParts DEF ProtocolKeys, OneOrNone
    <3> QED
      BY <3>1, NothingAppended
  <2> QED
    BY <1>2, <1>5, <1>6, <2>1, LowerProtocol
<1>7. CASE k \notin ProtocolKeys
  <2>1. AuthCodeQuery(c)[k] = <<>> /\ k # "state"
    BY <1>7, AuthCodeQueryParts DEF ProtocolKeys
  <2>2. own[k] = IF k \in DOMAIN query THEN query[k] ELSE <<>>
    <3>1. k \in DOMAIN query => query[k] \in Seq(Values)
      BY DEF query, IsValues
    <3> QED
      BY <1>1, <1>2, <2>1, <3>1, NothingAppended
  <2>3. Lower[k] \in ProtocolKeys => URLOf(c)[k] = <<>>
    BY <1>1, <1>2, <1>5, <2>1, NothingAppended
  <2> QED
    BY <1>3, <1>4, <1>7, <2>2, <2>3 DEF query
<1> QED
  BY <1>6, <1>7

\* What New kept is what it was given, and it was checked.
LEMMA Copied ==
  ASSUME FromConfig, Built
  PROVE  /\ provider.clientID = config.clientID
         /\ provider.redirectURL = config.redirectURL
         /\ provider.authURL = config.authURL
         /\ provider.scopes = config.scopes
         /\ provider.parameters = config.parameters
         /\ provider.pkce = config.pkce
         /\ provider.pkce \in BOOLEAN /\ config.authURL.fragment \in BOOLEAN
         /\ IsValues(config.authURL.query)
         /\ ~InvalidAuthorizationParameters(config.parameters)
         /\ ~InvalidAuthorizationParameters(config.authURL.query)
BY DEF FromConfig, Built, New, Acceptable, HasProtectedEndpointParameter

\* What URLIsAsAsked says of one URL.
AsAsked(c, query) ==
  \A k \in Keys :
    query[k] = IF k \in ProtocolKeys THEN ProtocolPart(c)[k]
               ELSE IF Lower[k] \in ProtocolKeys THEN <<>>
               ELSE NearestPart(c, k)

LEMMA URLOfAsAsked ==
  ASSUME TypeOK, FromConfig, NEW c \in Callers, CallInv(c), pc[c] = "url",
         ~config.authURL.fragment,
         request[c].disableState \in BOOLEAN
  PROVE  AsAsked(c, URLOf(c))
<1>1. Built /\ Admitted(c)
  BY DEF CallInv, Admitted
<1>2. /\ ~InvalidAuthorizationParameters(request[c].parameters)
      /\ session[c].state = Empty <=> request[c].disableState
  BY <1>1 DEF CallInv
<1>3. config.authURL.fragment = FALSE
  BY <1>1, Copied
<1> SUFFICES ASSUME NEW k \in Keys
             PROVE  URLOf(c)[k] = IF k \in ProtocolKeys THEN ProtocolPart(c)[k]
                                  ELSE IF Lower[k] \in ProtocolKeys THEN <<>>
                                  ELSE NearestPart(c, k)
  BY DEF AsAsked
<1>4. CASE k \in ProtocolKeys
  <2>1. URLOf(c)[k] = IF k = "state" /\ request[c].disableState THEN <<>>
                      ELSE AuthCodeQuery(c)[k]
    BY <1>1, <1>2, <1>3, <1>4, Copied, URLParts
  <2>2. Scopes(c) = IF request[c].scopes = <<>> THEN config.scopes ELSE request[c].scopes
    BY <1>1, Copied DEF Scopes
  <2>3. ProtocolPart(c)[k] = IF k = "state" /\ request[c].disableState THEN <<>>
                             ELSE AuthCodeQuery(c)[k]
    <3>1. /\ provider.clientID = config.clientID
          /\ provider.redirectURL = config.redirectURL
          /\ provider.pkce = config.pkce
      BY <1>1, Copied
    <3>2. CASE k = "response_type"
      BY <3>2, AuthCodeQueryParts DEF ProtocolPart
    <3>3. CASE k = "client_id"
      BY <3>1, <3>3, AuthCodeQueryParts DEF ProtocolPart
    <3>4. CASE k = "redirect_uri"
      BY <3>1, <3>4, AuthCodeQueryParts DEF ProtocolPart
    <3>5. CASE k = "scope"
      BY <2>2, <3>5, AuthCodeQueryParts DEF ProtocolPart
    <3>6. CASE k = "state"
      <4>1. AuthCodeQuery(c)[k] = OneOrNone(session[c].state # Empty, session[c].state)
        BY <3>6, AuthCodeQueryParts
      <4>2. ProtocolPart(c)[k] = OneOrNone(~request[c].disableState, session[c].state)
        BY <3>6 DEF ProtocolPart
      <4> QED
        BY <1>2, <3>6, <4>1, <4>2 DEF OneOrNone
    <3>7. CASE k = "code_challenge"
      BY <3>1, <3>7, AuthCodeQueryParts DEF ProtocolPart
    <3>8. CASE k = "code_challenge_method"
      BY <3>1, <3>8, AuthCodeQueryParts DEF ProtocolPart
    <3> QED
      BY <1>4, <3>2, <3>3, <3>4, <3>5, <3>6, <3>7, <3>8 DEF ProtocolKeys
  <2> QED
    BY <1>4, <2>1, <2>3
<1>5. CASE k \notin ProtocolKeys
  <2>1. NearestPart(c, k) =
           IF k \in DOMAIN request[c].parameters THEN request[c].parameters[k]
           ELSE IF k \in DOMAIN config.parameters THEN config.parameters[k]
           ELSE IF k \in DOMAIN config.authURL.query THEN config.authURL.query[k]
           ELSE <<>>
    BY NearestFirst
  <2>2. /\ provider.authURL = config.authURL
        /\ provider.parameters = config.parameters
        /\ ~InvalidAuthorizationParameters(provider.parameters)
        /\ ~InvalidAuthorizationParameters(provider.authURL.query)
        /\ IsValues(provider.authURL.query)
        /\ provider.authURL.fragment = FALSE
    BY <1>1, <1>3, Copied
  <2>3. /\ Lower[k] \in ProtocolKeys => URLOf(c)[k] = <<>>
        /\ URLOf(c)[k] =
             IF k \in DOMAIN request[c].parameters THEN request[c].parameters[k]
             ELSE IF k \in DOMAIN provider.parameters THEN provider.parameters[k]
             ELSE IF k \in DOMAIN provider.authURL.query THEN provider.authURL.query[k]
             ELSE <<>>
    BY <1>2, <1>5, <2>2, URLParts
  <2> QED
    BY <1>5, <2>1, <2>2, <2>3
<1> QED
  BY <1>4, <1>5

-----------------------------------------------------------------------------
(* What steps keep. *)

LEMMA RequestTyped ==
  ASSUME TypeOK, NEW c \in Callers PROVE request[c].disableState \in BOOLEAN
<1>1. NoRequest.disableState = FALSE
  BY DEF NoRequest
<1>2. request[c] \in Requests \/ request[c] = NoRequest
  BY DEF TypeOK
<1> QED
  BY <1>1, <1>2, RequestsAssumption

LEMMA URLsAsAsked ==
  /\ URLIsAsAsked <=>
       \A c \in Callers : result[c] = "ok" /\ ~config.authURL.fragment => AsAsked(c, url[c])
  /\ URLIsAsAsked' <=>
       \A c \in Callers :
         result'[c] = "ok" /\ ~config'.authURL.fragment => AsAsked(c, url[c])'
BY DEF URLIsAsAsked, AsAsked, Accepted

\* What a URL was asked to say does not change while the call's own state does not.
LEMMA AskedStays ==
  ASSUME NEW c \in Callers, AsAsked(c, url[c]), config' = config,
         request'[c] = request[c], session'[c] = session[c], url'[c] = url[c]
  PROVE  AsAsked(c, url[c])'
<1>1. ProtocolPart(c)' = ProtocolPart(c)
  BY DEF ProtocolPart
<1>2. ASSUME NEW k \in Keys PROVE NearestPart(c, k)' = NearestPart(c, k)
  BY DEF NearestPart
<1> QED
  BY <1>1, <1>2 DEF AsAsked

LEMMA URLsStay ==
  ASSUME URLIsAsAsked, config' = config,
         \A c \in Callers :
           result'[c] = "ok" => /\ result[c] = "ok" /\ request'[c] = request[c]
                                /\ session'[c] = session[c] /\ url'[c] = url[c]
  PROVE  URLIsAsAsked'
BY URLsAsAsked, AskedStays

LEMMA CallStays ==
  ASSUME NEW c \in Callers, CallInv(c), provider' = provider,
         pc'[c] = pc[c], request'[c] = request[c], session'[c] = session[c],
         result'[c] = result[c]
  PROVE  CallInv(c)'
BY DEF CallInv, Built, Admitted

LEMMA ConfigStays ==
  ASSUME FromConfig, UNCHANGED <<config, provider>>
  PROVE  FromConfig'
BY DEF FromConfig

\* Positions stay distinct while each call holds what it held, or nothing.
LEMMA FreshStays ==
  ASSUME Fresh, next' = next,
         \A c \in Callers : \/ /\ session'[c].state = session[c].state
                               /\ session'[c].verifier = session[c].verifier
                            \/ session'[c] = NoSession
  PROVE  Fresh'
<1>1. ASSUME NEW c \in Callers
      PROVE  /\ Held(c)' \subseteq Held(c)
             /\ session'[c].state = session'[c].verifier => session'[c].state = Empty
  BY DEF Held, NoSession, Fresh
<1> QED
  BY <1>1 DEF Fresh

LEMMA Grows ==
  ASSUME NEW T \in SUBSET Callers, NEW S \in SUBSET T
  PROVE  /\ Cardinality(S) \in Nat /\ Cardinality(T) \in Nat
         /\ Cardinality(S) <= Cardinality(T)
         /\ \A c \in T \ S : Cardinality(S) + 1 <= Cardinality(T)
<1>1. IsFiniteSet(T) /\ IsFiniteSet(S)
  BY CallersAssumption, FS_Subset
<1>2. Cardinality(S) \in Nat /\ Cardinality(T) \in Nat /\ Cardinality(S) <= Cardinality(T)
  BY <1>1, FS_CardinalityType, FS_Subset
<1>3. ASSUME NEW c \in T \ S PROVE Cardinality(S) + 1 <= Cardinality(T)
  <2>1. Cardinality(S) # Cardinality(T)
    BY <1>1, <1>3, FS_Subset
  <2> QED
    BY <1>2, <2>1
<1> QED
  BY <1>2, <1>3

LEMMA PastAreCallers ==
  /\ PastState \in SUBSET Callers /\ PastVerifier \in SUBSET Callers
  /\ PastState' \in SUBSET Callers /\ PastVerifier' \in SUBSET Callers
BY DEF PastState, PastVerifier

\* No value is drawn, and no call goes back.
LEMMA CountStays ==
  ASSUME Counted, next \in Nat, next' = next,
         PastState \subseteq PastState', PastVerifier \subseteq PastVerifier'
  PROVE  Counted'
<1>1. /\ Cardinality(PastState) \in Nat /\ Cardinality(PastState') \in Nat
      /\ Cardinality(PastState) <= Cardinality(PastState')
  BY PastAreCallers, Grows
<1>2. /\ Cardinality(PastVerifier) \in Nat /\ Cardinality(PastVerifier') \in Nat
      /\ Cardinality(PastVerifier) <= Cardinality(PastVerifier')
  BY PastAreCallers, Grows
<1> QED
  BY <1>1, <1>2 DEF Counted

\* A value is drawn, and its call moves on.
LEMMA CountGrows ==
  ASSUME Counted, next \in Nat, next' = next + 1,
         PastState \subseteq PastState', PastVerifier \subseteq PastVerifier',
         NEW c, \/ c \in PastState' \ PastState
                \/ c \in PastVerifier' \ PastVerifier
  PROVE  Counted'
<1>1. /\ Cardinality(PastState) \in Nat /\ Cardinality(PastState') \in Nat
      /\ Cardinality(PastState) <= Cardinality(PastState')
      /\ c \in PastState' \ PastState =>
           Cardinality(PastState) + 1 <= Cardinality(PastState')
  BY PastAreCallers, Grows
<1>2. /\ Cardinality(PastVerifier) \in Nat /\ Cardinality(PastVerifier') \in Nat
      /\ Cardinality(PastVerifier) <= Cardinality(PastVerifier')
      /\ c \in PastVerifier' \ PastVerifier =>
           Cardinality(PastVerifier) + 1 <= Cardinality(PastVerifier')
  BY PastAreCallers, Grows
<1> QED
  BY <1>1, <1>2 DEF Counted

\* The bound in TypeOK is what the count of draws amounts to.
LEMMA TwoDrawsEach ==
  ASSUME next \in Nat, Counted
  PROVE  next <= 2 * Cardinality(Callers)
<1>1. /\ Cardinality(PastState) \in Nat /\ Cardinality(Callers) \in Nat
      /\ Cardinality(PastState) <= Cardinality(Callers)
  BY PastAreCallers, Grows
<1>2. /\ Cardinality(PastVerifier) \in Nat
      /\ Cardinality(PastVerifier) <= Cardinality(Callers)
  BY PastAreCallers, Grows
<1> QED
  BY <1>1, <1>2 DEF Counted

-----------------------------------------------------------------------------
(* The steps keep IInv. *)

LEMMA InitIInv == Init => IInv
<1> SUFFICES ASSUME Init PROVE IInv
  OBVIOUS
<1>1. Counted
  <2>1. Cardinality(PastState) \in Nat /\ Cardinality(PastVerifier) \in Nat
    BY PastAreCallers, Grows
  <2> QED
    BY <2>1 DEF Counted, Init
<1>2. TypeOK
  <2>1. next \in Nat /\ next <= 2 * Cardinality(Callers)
    BY <1>1, TwoDrawsEach DEF Init
  <2>2. NoSession \in [state: Nat \union {Empty}, verifier: Nat \union {Empty}, disabled: BOOLEAN]
    BY DEF NoSession
  <2> QED
    BY <2>1, <2>2 DEF Init, TypeOK, PCs, NoURLYet
<1>3. FromConfig
  BY DEF Init, FromConfig
<1>4. \A c \in Callers : CallInv(c)
  BY DEF Init, CallInv, Admitted
<1>5. OneReader /\ Fresh
  BY DEF Init, OneReader, Fresh, Held, NoSession
<1>6. URLIsAsAsked
  BY DEF Init, URLIsAsAsked, Accepted
<1> QED
  BY <1>1, <1>2, <1>3, <1>4, <1>5, <1>6 DEF IInv

\* What a constructor that does not refuse has accepted.
LEMMA ConstructedFromConfig ==
  ASSUME NEW configuration, NEW new, Construct(configuration, new),
         new \in {Refused, New(configuration)},
         /\ configuration.pkce \in BOOLEAN /\ configuration.authURL.fragment \in BOOLEAN
         /\ IsValues(configuration.authURL.query)
  PROVE  FromConfig'
BY DEF Construct, FromConfig, New, Refused, Acceptable, ValidHTTPURL, ValidRedirectURL,
   HasProtectedEndpointParameter, HasSensitiveEndpointParameter, HasUserLoader, ValidLimit

LEMMA ConstructIInv ==
  ASSUME IInv, NEW configuration, NEW new, Construct(configuration, new), FromConfig'
  PROVE  IInv'
<1>1. /\ provider = NotBuilt
      /\ UNCHANGED <<pc, request, session, url, result, next, reading>>
  BY DEF Construct, locals, source
<1>2. \A c \in Callers : pc[c] = "idle" /\ result[c] = "none"
  BY <1>1 DEF IInv, CallInv, Built
<1>3. TypeOK'
  BY <1>1 DEF IInv, TypeOK
<1>4. \A c \in Callers : CallInv(c)'
  BY <1>1, <1>2 DEF IInv, CallInv, Admitted
<1>5. OneReader' /\ Fresh' /\ Counted'
  BY <1>1 DEF IInv, OneReader, Fresh, Held, Counted, PastState, PastVerifier
<1>6. URLIsAsAsked'
  BY <1>1, <1>2 DEF URLIsAsAsked, Accepted
<1> QED
  BY <1>3, <1>4, <1>5, <1>6 DEF IInv

LEMMA ConstructAnyIInv == ASSUME IInv, ConstructAny PROVE IInv'
<1>1. ASSUME NEW c \in Configs, Construct(c, New(c)) PROVE IInv'
  BY <1>1, ConfigsAssumption, ConstructedFromConfig, ConstructIInv
<1>2. /\ HttpsURL.fragment = FALSE
      /\ IsValues(HttpsURL.query)
  BY DEF HttpsURL, NoParameters, IsValues
<1>3. ASSUME NEW o \in Options, Construct(GitHub(o), NewGitHub(o)) PROVE IInv'
  <2>1. GitHub(o).pkce = TRUE /\ GitHub(o).authURL = HttpsURL
    BY DEF GitHub, Common
  <2>2. NewGitHub(o) \in {Refused, New(GitHub(o))}
    BY DEF NewGitHub
  <2> QED
    BY <1>2, <1>3, <2>1, <2>2, ConstructedFromConfig, ConstructIInv
<1>4. ASSUME NEW o \in Options, Construct(Google(o), NewGoogle(o)) PROVE IInv'
  <2>1. Google(o).pkce = TRUE /\ Google(o).authURL = HttpsURL
    BY DEF Google, Common
  <2>2. NewGoogle(o) \in {Refused, New(Google(o))}
    BY DEF NewGoogle
  <2> QED
    BY <1>2, <1>4, <2>1, <2>2, ConstructedFromConfig, ConstructIInv
<1>5. ASSUME NEW o \in Options, Construct(Discord(o), NewDiscord(o)) PROVE IInv'
  <2>1. Discord(o).pkce = TRUE /\ Discord(o).authURL = HttpsURL
    BY DEF Discord, Common
  <2>2. NewDiscord(o) \in {Refused, New(Discord(o))}
    BY DEF NewDiscord
  <2> QED
    BY <1>2, <1>5, <2>1, <2>2, ConstructedFromConfig, ConstructIInv
<1>6. ASSUME NEW o \in Options, Construct(GitLab(o), NewGitLab(o)) PROVE IInv'
  <2> DEFINE base == IF o.baseURL.blank THEN HttpsURL ELSE [o.baseURL EXCEPT !.fragment = FALSE]
  <2>1. GitLab(o).pkce = TRUE /\ GitLab(o).authURL = base
    BY DEF GitLab, Common
  <2>2. NewGitLab(o) \in {Refused, New(GitLab(o))}
    BY DEF NewGitLab
  <2>3. base.fragment = FALSE
    BY <1>2, OptionsAssumption DEF HttpsURL
  <2>4. CASE NewGitLab(o) = Refused
    <3>1. FromConfig'
      BY <1>6, <2>4 DEF Construct, FromConfig
    <3> QED
      BY <1>6, <3>1, ConstructIInv
  <2>5. CASE ValidBaseURL(o.baseURL)
    <3>1. base.query = NoParameters
      BY <2>5, OptionsAssumption DEF HttpsURL, ValidBaseURL
    <3>2. IsValues(base.query)
      BY <3>1 DEF IsValues, NoParameters
    <3> HIDE DEF base
    <3> QED
      BY <1>6, <2>1, <2>2, <2>3, <3>2, ConstructedFromConfig, ConstructIInv
  <2> QED
    BY <2>4, <2>5 DEF NewGitLab
<1> QED
  BY <1>1, <1>3, <1>4, <1>5, <1>6 DEF ConstructAny

LEMMA ReuseIInv == ASSUME IInv, Reuse PROVE IInv'
<1>1. UNCHANGED <<config, provider, pc, request, session, url, result, next, reading>>
  BY DEF Reuse, locals, source
<1>2. TypeOK'
  BY <1>1 DEF IInv, TypeOK
<1>3. FromConfig' /\ \A c \in Callers : CallInv(c)'
  BY <1>1, ConfigStays, CallStays DEF IInv
<1>4. OneReader' /\ Fresh' /\ Counted'
  BY <1>1 DEF IInv, OneReader, Fresh, Held, Counted, PastState, PastVerifier
<1>5. URLIsAsAsked'
  BY <1>1, URLsStay DEF IInv
<1> QED
  BY <1>2, <1>3, <1>4, <1>5 DEF IInv

LEMMA EnterIInv ==
  ASSUME IInv, NEW c \in Callers, NEW r \in Requests, NEW cancelled \in BOOLEAN,
         Enter(c, r, cancelled)
  PROVE  IInv'
<1>1. /\ Built /\ pc[c] = "idle"
      /\ request' = [request EXCEPT ![c] = r]
      /\ UNCHANGED <<config, provider, url, next, reading>>
  BY DEF Enter, source
<1>2. result[c] = "none" /\ session[c] = NoSession
  BY <1>1 DEF IInv, CallInv, Admitted
<1>3. r.disableState \in BOOLEAN /\ provider.pkce \in BOOLEAN
  BY <1>1, RequestsAssumption, Copied DEF IInv
<1>4. \/ /\ \E code \in {"transport_failed", "invalid_request"} : Return(c, code)
         /\ session' = session
      \/ /\ ~InvalidAuthorizationParameters(r.parameters)
         /\ session' = [session EXCEPT ![c].disabled = r.disableState]
         /\ pc' = [pc EXCEPT ![c] = IF r.disableState THEN AfterState ELSE "state"]
         /\ result' = result
  BY DEF Enter
<1>5. /\ \A d \in Callers : /\ session'[d].state = session[d].state
                            /\ session'[d].verifier = session[d].verifier
      /\ \A d \in Callers \ {c} : /\ pc'[d] = pc[d] /\ request'[d] = request[d]
                                  /\ session'[d] = session[d] /\ result'[d] = result[d]
      /\ result'[c] # "ok"
  <2>1. session \in [Callers -> [state: Nat \union {Empty}, verifier: Nat \union {Empty},
                                 disabled: BOOLEAN]]
    BY DEF IInv, TypeOK
  <2>2. \A d \in Callers : /\ session'[d].state = session[d].state
                           /\ session'[d].verifier = session[d].verifier
                           /\ d # c => session'[d] = session[d]
    BY <1>4, <2>1
  <2>3. \A d \in Callers \ {c} :
          pc'[d] = pc[d] /\ request'[d] = request[d] /\ result'[d] = result[d]
    BY <1>1, <1>4 DEF IInv, TypeOK, Return
  <2>4. result'[c] # "ok"
    BY <1>2, <1>4 DEF IInv, TypeOK, Return
  <2> QED
    BY <2>2, <2>3, <2>4
<1>6. TypeOK'
  <2>1. pc' \in [Callers -> PCs]
    BY <1>4 DEF IInv, TypeOK, Return, PCs, AfterState
  <2>2. session' \in [Callers -> [state: Nat \union {Empty}, verifier: Nat \union {Empty},
                                  disabled: BOOLEAN]]
    <3> DEFINE Sessions == [state: Nat \union {Empty}, verifier: Nat \union {Empty},
                            disabled: BOOLEAN]
    <3>1. session \in [Callers -> Sessions]
      BY DEF IInv, TypeOK
    <3>2. [session[c] EXCEPT !.disabled = r.disableState] \in Sessions
      BY <1>3, <3>1
    <3> HIDE DEF Sessions
    <3>3. \/ session' = session
          \/ session' = [session EXCEPT ![c] = [session[c] EXCEPT !.disabled = r.disableState]]
      BY <1>4
    <3>4. session' \in [Callers -> Sessions]
      BY <3>1, <3>2, <3>3
    <3> QED
      BY <3>4 DEF Sessions
  <2>3. result' \in [Callers -> {"none", "ok", "transport_failed", "invalid_request",
                                 "invalid_configuration"}]
    BY <1>4 DEF IInv, TypeOK, Return
  <2> QED
    BY <1>1, <2>1, <2>2, <2>3 DEF IInv, TypeOK
<1>7. CallInv(c)'
  <2>1. CASE /\ \E code \in {"transport_failed", "invalid_request"} : Return(c, code)
             /\ session' = session
    <3>1. /\ pc'[c] = "done" /\ session'[c] = NoSession
          /\ result'[c] \in {"transport_failed", "invalid_request"}
      BY <1>2, <2>1 DEF IInv, TypeOK, Return
    <3> QED
      BY <1>1, <3>1 DEF CallInv, Admitted, Built, NotBuilt, Refused
  <2>2. CASE /\ ~InvalidAuthorizationParameters(r.parameters)
             /\ session' = [session EXCEPT ![c].disabled = r.disableState]
             /\ pc' = [pc EXCEPT ![c] = IF r.disableState THEN AfterState ELSE "state"]
             /\ result' = result
    <3>1. /\ pc'[c] = IF r.disableState THEN AfterState ELSE "state"
          /\ result'[c] = "none" /\ request'[c] = r
          /\ session'[c].state = Empty /\ session'[c].verifier = Empty
          /\ session'[c].disabled = r.disableState
      BY <1>1, <1>2, <2>2 DEF IInv, TypeOK, NoSession
    <3> QED
      BY <1>1, <1>3, <2>2, <3>1
      DEF CallInv, Admitted, AfterState, Built, NotBuilt, Refused
  <2> QED
    BY <1>4, <2>1, <2>2
<1>8. FromConfig' /\ \A d \in Callers : CallInv(d)'
  BY <1>1, <1>5, <1>7, ConfigStays, CallStays DEF IInv
<1>9. OneReader'
  <2>1. reading[c] = Empty
    BY <1>1 DEF IInv, OneReader
  <2> QED
    BY <1>1, <1>5, <2>1 DEF IInv, OneReader
<1>10. Fresh'
  BY <1>1, <1>5, FreshStays DEF IInv
<1>11. Counted'
  <2>1. PastState \subseteq PastState' /\ PastVerifier \subseteq PastVerifier'
    BY <1>1, <1>5 DEF PastState, PastVerifier
  <2> QED
    BY <1>1, <2>1, CountStays DEF IInv, TypeOK
<1>12. URLIsAsAsked'
  BY <1>1, <1>5, URLsStay DEF IInv
<1> QED
  BY <1>6, <1>8, <1>9, <1>10, <1>11, <1>12 DEF IInv

LEMMA DrawIInv == ASSUME IInv, NEW c \in Callers, Draw(c) PROVE IInv'
<1>1. /\ pc[c] \in {"state", "verifier"}
      /\ \A d \in Callers : reading[d] = Empty
      /\ reading' = [reading EXCEPT ![c] = next]
      /\ UNCHANGED <<config, provider, pc, request, session, url, result, next>>
  BY DEF Draw, locals
<1>2. TypeOK'
  BY <1>1 DEF IInv, TypeOK
<1>3. FromConfig' /\ \A d \in Callers : CallInv(d)'
  BY <1>1, ConfigStays, CallStays DEF IInv
<1>4. OneReader'
  BY <1>1 DEF IInv, TypeOK, OneReader
<1>5. Fresh' /\ Counted'
  BY <1>1 DEF IInv, Fresh, Held, Counted, PastState, PastVerifier
<1>6. URLIsAsAsked'
  BY <1>1, URLsStay DEF IInv
<1> QED
  BY <1>2, <1>3, <1>4, <1>5, <1>6 DEF IInv

LEMMA DrawnIInv == ASSUME IInv, NEW c \in Callers, Drawn(c) PROVE IInv'
<1>1. /\ reading[c] = next /\ next \in Nat /\ next' = next + 1
      /\ reading' = [reading EXCEPT ![c] = Empty]
      /\ UNCHANGED <<config, provider, request, url, result>>
  BY DEF Drawn, IInv, TypeOK
<1>2. /\ pc[c] \in {"state", "verifier"} /\ Built /\ Admitted(c)
      /\ result[c] = "none"
      /\ \A d \in Callers \ {c} : reading[d] = Empty
  BY DEF Drawn, IInv, OneReader, CallInv, Admitted
<1>3. provider.pkce \in BOOLEAN
  BY <1>2, Copied DEF IInv
<1>4. \/ /\ pc[c] = "state"
         /\ session' = [session EXCEPT ![c].state = next]
         /\ pc' = [pc EXCEPT ![c] = AfterState]
      \/ /\ pc[c] = "verifier"
         /\ session' = [session EXCEPT ![c].verifier = next]
         /\ pc' = [pc EXCEPT ![c] = "url"]
  BY <1>1 DEF Drawn
<1>5. \A d \in Callers \ {c} : /\ pc'[d] = pc[d] /\ session'[d] = session[d]
                               /\ request'[d] = request[d] /\ result'[d] = result[d]
  BY <1>1, <1>4 DEF IInv, TypeOK
<1>6. /\ session'[c].state = IF pc[c] = "state" THEN next ELSE session[c].state
      /\ session'[c].verifier = IF pc[c] = "verifier" THEN next ELSE session[c].verifier
      /\ session'[c].disabled = session[c].disabled
      /\ pc'[c] = IF pc[c] = "state" THEN AfterState ELSE "url"
  BY <1>4 DEF IInv, TypeOK
<1>7. Counted'
  <2>1. PastState \subseteq PastState' /\ PastVerifier \subseteq PastVerifier'
    BY <1>5, <1>6 DEF PastState, PastVerifier, AfterState
  <2>2. \/ c \in PastState' \ PastState
        \/ c \in PastVerifier' \ PastVerifier
    BY <1>2, <1>6 DEF PastState, PastVerifier, AfterState
  <2> QED
    BY <1>1, <2>1, <2>2, CountGrows DEF IInv
<1>8. TypeOK'
  <2>1. next' \in Nat /\ next' <= 2 * Cardinality(Callers)
    <3>1. next' \in Nat
      BY <1>1
    <3>2. PastState' \in SUBSET Callers /\ PastVerifier' \in SUBSET Callers
      BY PastAreCallers
    <3>3. /\ Cardinality(PastState') \in Nat /\ Cardinality(Callers) \in Nat
          /\ Cardinality(PastState') <= Cardinality(Callers)
      BY <3>2, Grows
    <3>4. /\ Cardinality(PastVerifier') \in Nat
          /\ Cardinality(PastVerifier') <= Cardinality(Callers)
      BY <3>2, Grows
    <3> QED
      BY <1>7, <3>1, <3>3, <3>4 DEF Counted
  <2>2. pc' \in [Callers -> PCs]
    BY <1>4 DEF IInv, TypeOK, PCs, AfterState
  <2>3. session' \in [Callers -> [state: Nat \union {Empty}, verifier: Nat \union {Empty},
                                  disabled: BOOLEAN]]
    <3> DEFINE Sessions == [state: Nat \union {Empty}, verifier: Nat \union {Empty},
                            disabled: BOOLEAN]
    <3>1. session \in [Callers -> Sessions] /\ next \in Nat
      BY DEF IInv, TypeOK
    <3>2. /\ [session[c] EXCEPT !.state = next] \in Sessions
          /\ [session[c] EXCEPT !.verifier = next] \in Sessions
      BY <3>1
    <3> HIDE DEF Sessions
    <3>3. \/ session' = [session EXCEPT ![c] = [session[c] EXCEPT !.state = next]]
          \/ session' = [session EXCEPT ![c] = [session[c] EXCEPT !.verifier = next]]
      BY <1>4
    <3>4. session' \in [Callers -> Sessions]
      BY <3>1, <3>2, <3>3
    <3> QED
      BY <3>4 DEF Sessions
  <2>4. /\ reading' \in [Callers -> Nat \union {Empty}]
        /\ \A d \in Callers : reading'[d] = Empty
    BY <1>1, <1>2 DEF IInv, TypeOK
  <2> QED
    BY <1>1, <2>1, <2>2, <2>3, <2>4 DEF IInv, TypeOK
<1>9. CallInv(c)'
  <2>1. /\ ~InvalidAuthorizationParameters(request[c].parameters)
        /\ session[c].disabled = request[c].disableState
        /\ session[c].state = Empty <=> request[c].disableState \/ pc[c] = "state"
        /\ session[c].verifier = Empty
        /\ pc[c] = "state" => ~request[c].disableState
        /\ pc[c] = "verifier" => provider.pkce
    BY <1>2 DEF IInv, CallInv
  <2>2. next # Empty
    BY <1>1, EmptyAssumption
  <2> QED
    BY <1>1, <1>2, <1>3, <1>6, <2>1, <2>2
    DEF CallInv, Admitted, Built, NotBuilt, Refused, AfterState
<1>10. FromConfig' /\ \A d \in Callers : CallInv(d)'
  BY <1>1, <1>5, <1>9, ConfigStays, CallStays DEF IInv
<1>11. OneReader'
  BY <1>1, <1>2 DEF IInv, TypeOK, OneReader
<1>12. Fresh'
  <2>1. Held(c)' \subseteq Held(c) \union {next} /\ \A d \in Callers \ {c} : Held(d)' = Held(d)
    BY <1>5, <1>6 DEF Held
  <2>2. \A d \in Callers : next \notin Held(d) /\ \A position \in Held(d) : position \in Nat
    BY <1>1 DEF IInv, TypeOK, Fresh, Held
  <2>3. session'[c].state = session'[c].verifier => session'[c].state = Empty
    BY <1>2, <1>6, <2>2 DEF IInv, Fresh, Held
  <2>4. \A d \in Callers : \A position \in Held(d)' : position < next'
    BY <1>1, <2>1, <2>2 DEF IInv, Fresh
  <2>5. \A d, e \in Callers : d # e => Held(d)' \intersect Held(e)' = {}
    BY <2>1, <2>2 DEF IInv, Fresh
  <2> QED
    BY <1>5, <2>3, <2>4, <2>5 DEF IInv, Fresh
<1>13. URLIsAsAsked'
  BY <1>1, <1>2, <1>5, URLsStay DEF IInv
<1> QED
  BY <1>7, <1>8, <1>10, <1>11, <1>12, <1>13 DEF IInv

LEMMA DrawFailsIInv == ASSUME IInv, NEW c \in Callers, DrawFails(c) PROVE IInv'
<1>1. /\ reading[c] # Empty
      /\ reading' = [reading EXCEPT ![c] = Empty]
      /\ pc' = [pc EXCEPT ![c] = "done"]
      /\ result' = [result EXCEPT ![c] = "invalid_configuration"]
      /\ session' = [session EXCEPT ![c] = NoSession]
      /\ UNCHANGED <<config, provider, request, url, next>>
  BY DEF DrawFails, Return
<1>2. /\ \A d \in Callers \ {c} : /\ pc'[d] = pc[d] /\ session'[d] = session[d]
                                  /\ request'[d] = request[d] /\ result'[d] = result[d]
      /\ pc'[c] = "done" /\ result'[c] = "invalid_configuration" /\ session'[c] = NoSession
  BY <1>1 DEF IInv, TypeOK
<1>3. /\ pc[c] \in {"state", "verifier"}
      /\ \A d \in Callers \ {c} : reading[d] = Empty
  BY <1>1 DEF IInv, OneReader
<1>4. TypeOK'
  <2>1. pc' \in [Callers -> PCs]
    BY <1>1 DEF IInv, TypeOK, PCs
  <2>2. NoSession \in [state: Nat \union {Empty}, verifier: Nat \union {Empty}, disabled: BOOLEAN]
    BY DEF NoSession
  <2>3. /\ reading' \in [Callers -> Nat \union {Empty}]
        /\ \A d \in Callers : reading'[d] = Empty
    BY <1>1, <1>3 DEF IInv, TypeOK
  <2> QED
    BY <1>1, <2>1, <2>2, <2>3 DEF IInv, TypeOK
<1>5. CallInv(c)'
  <2>1. Built
    BY <1>3 DEF IInv, CallInv
  <2> QED
    BY <1>1, <1>2, <2>1 DEF CallInv, Admitted, Built, NotBuilt, Refused
<1>6. FromConfig' /\ \A d \in Callers : CallInv(d)'
  BY <1>1, <1>2, <1>5, ConfigStays, CallStays DEF IInv
<1>7. OneReader'
  BY <1>1, <1>3 DEF IInv, TypeOK, OneReader
<1>8. Fresh'
  BY <1>1, <1>2, FreshStays DEF IInv
<1>9. Counted'
  <2>1. PastState \subseteq PastState' /\ PastVerifier \subseteq PastVerifier'
    BY <1>2 DEF PastState, PastVerifier
  <2> QED
    BY <1>1, <2>1, CountStays DEF IInv, TypeOK
<1>10. URLIsAsAsked'
  BY <1>1, <1>2, URLsStay DEF IInv
<1> QED
  BY <1>4, <1>6, <1>7, <1>8, <1>9, <1>10 DEF IInv

LEMMA BuildURLIInv == ASSUME IInv, NEW c \in Callers, BuildURL(c) PROVE IInv'
<1>1. /\ pc[c] = "url"
      /\ url' = [url EXCEPT ![c] = URLOf(c)]
      /\ pc' = [pc EXCEPT ![c] = "done"]
      /\ result' = [result EXCEPT ![c] = "ok"]
      /\ UNCHANGED <<config, provider, request, session, next, reading>>
  BY DEF BuildURL, URLOf, Return, source
<1>2. /\ \A d \in Callers \ {c} : pc'[d] = pc[d] /\ result'[d] = result[d]
      /\ pc'[c] = "done" /\ result'[c] = "ok"
  BY <1>1 DEF IInv, TypeOK
<1>3. TypeOK'
  <2>1. pc' \in [Callers -> PCs]
    BY <1>1 DEF IInv, TypeOK, PCs
  <2>2. DOMAIN URLOf(c) = Keys
    BY DEF URLOf, ApplyAuthorizationParameters
  <2>3. \A d \in Callers : DOMAIN url'[d] = Keys
    BY <1>1, <2>2 DEF IInv, TypeOK
  <2> QED
    BY <1>1, <2>1, <2>3 DEF IInv, TypeOK
<1>4. CallInv(c)'
  <2>1. Built /\ Admitted(c) /\ CallInv(c)
    BY <1>1 DEF IInv, CallInv, Admitted
  <2> QED
    BY <1>1, <1>2, <2>1 DEF CallInv, Admitted, Built, NotBuilt, Refused
<1>5. FromConfig' /\ \A d \in Callers : CallInv(d)'
  BY <1>1, <1>2, <1>4, ConfigStays, CallStays DEF IInv
<1>6. OneReader'
  BY <1>1, <1>2 DEF IInv, OneReader
<1>7. Fresh'
  BY <1>1, FreshStays DEF IInv
<1>8. Counted'
  <2>1. PastState \subseteq PastState' /\ PastVerifier \subseteq PastVerifier'
    BY <1>2 DEF PastState, PastVerifier
  <2> QED
    BY <1>1, <2>1, CountStays DEF IInv, TypeOK
<1>9. URLIsAsAsked'
  <2>1. request[c].disableState \in BOOLEAN
    BY RequestTyped DEF IInv
  <2>2. ~config.authURL.fragment => AsAsked(c, URLOf(c))
    BY <1>1, <2>1, URLOfAsAsked DEF IInv
  <2>3. url'[c] = URLOf(c)
    BY <1>1 DEF IInv, TypeOK
  <2>4. ~config'.authURL.fragment => AsAsked(c, url[c])'
    <3>1. ASSUME ~config.authURL.fragment, NEW k \in Keys
          PROVE  /\ url'[c][k] = URLOf(c)[k]
                 /\ ProtocolPart(c)'[k] = ProtocolPart(c)[k]
                 /\ NearestPart(c, k)' = NearestPart(c, k)
      BY <1>1, <2>3 DEF ProtocolPart, NearestPart
    <3> QED
      BY <1>1, <2>2, <3>1 DEF AsAsked
  <2>5. ASSUME NEW d \in Callers \ {c}, result'[d] = "ok", ~config'.authURL.fragment
        PROVE  AsAsked(d, url[d])'
    <3>1. result[d] = "ok" /\ ~config.authURL.fragment /\ url'[d] = url[d]
      BY <1>1, <1>2, <2>5
    <3> QED
      BY <1>1, <3>1, URLsAsAsked, AskedStays DEF IInv
  <2> QED
    BY <2>4, <2>5, URLsAsAsked
<1> QED
  BY <1>3, <1>5, <1>6, <1>7, <1>8, <1>9 DEF IInv

LEMMA NextIInv == IInv /\ [Next]_vars => IInv'
<1> SUFFICES ASSUME IInv, [Next]_vars PROVE IInv'
  OBVIOUS
<1>1. CASE UNCHANGED vars
  <2>1. UNCHANGED <<config, provider, pc, request, session, url, result, next, reading>>
    BY <1>1 DEF vars, locals, source
  <2>2. TypeOK'
    BY <2>1 DEF IInv, TypeOK
  <2>3. FromConfig' /\ \A c \in Callers : CallInv(c)'
    BY <2>1, ConfigStays, CallStays DEF IInv
  <2>4. OneReader' /\ Fresh' /\ Counted'
    BY <2>1 DEF IInv, OneReader, Fresh, Held, Counted, PastState, PastVerifier
  <2>5. URLIsAsAsked'
    BY <2>1, URLsStay DEF IInv
  <2> QED
    BY <2>2, <2>3, <2>4, <2>5 DEF IInv
<1>2. ASSUME NEW c \in Callers, Continue(c) PROVE IInv'
  BY <1>2, DrawIInv, DrawnIInv, DrawFailsIInv, BuildURLIInv DEF Continue
<1> QED
  BY <1>1, <1>2, ConstructAnyIInv, ReuseIInv, EnterIInv DEF Next

-----------------------------------------------------------------------------
(* What follows. *)

\* The strengthened invariant holds in every reachable state.
THEOREM Invariant == Spec => []IInv
BY InitIInv, NextIInv, PTL DEF Spec

\* The random source is read by one call at a time, from where the last one stopped,
\* and at most twice for each call (randomValue, provider.go:164-172).
THEOREM Typing == Spec => []TypeOK
<1>1. IInv => TypeOK
  BY DEF IInv
<1> QED
  BY Invariant, <1>1, PTL

\* A URL says what the session, the configuration and the request say, and nothing an
\* application put in a configuration, an endpoint or a request comes between
\* (Begin, provider.go:33-61).
THEOREM SaysWhatWasAsked == Spec => []URLIsAsAsked
<1>1. IInv => URLIsAsAsked
  BY DEF IInv
<1> QED
  BY Invariant, <1>1, PTL

\* What a session and a URL of calls that succeeded have to do with each other.
LEMMA AcceptedCall ==
  ASSUME IInv, NEW c \in Accepted
  PROVE  /\ c \in Callers
         /\ provider.pkce \in BOOLEAN /\ session[c].disabled \in BOOLEAN
         /\ session[c].state = Empty <=> session[c].disabled
         /\ session[c].verifier = Empty <=> ~provider.pkce
         /\ session[c].state \in Nat \union {Empty}
         /\ session[c].verifier \in Nat \union {Empty}
         /\ url[c]["state"] = OneOrNone(~session[c].disabled, session[c].state)
         /\ url[c]["code_challenge"] = OneOrNone(provider.pkce, Challenge(session[c].verifier))
<1>1. /\ c \in Callers /\ result[c] = "ok" /\ ~config.authURL.fragment
      /\ pc[c] = "done" /\ Admitted(c) /\ Built
  BY DEF Accepted, Admitted, IInv, CallInv
<1>2. provider.pkce = config.pkce /\ provider.pkce \in BOOLEAN
  BY <1>1, Copied DEF IInv
<1>3. request[c].disableState \in BOOLEAN
  BY <1>1, RequestTyped DEF IInv
<1>4. /\ session[c].disabled = request[c].disableState
      /\ session[c].state = Empty <=> request[c].disableState
      /\ session[c].verifier = Empty <=> ~provider.pkce
  BY <1>1, <1>2, <1>3 DEF IInv, CallInv
<1>5. AsAsked(c, url[c])
  BY <1>1, URLsAsAsked DEF IInv
<1>6. url[c]["state"] = ProtocolPart(c)["state"]
  BY <1>5, LowerProtocol DEF AsAsked, ProtocolKeys
<1>7. url[c]["code_challenge"] = ProtocolPart(c)["code_challenge"]
  BY <1>5, LowerProtocol DEF AsAsked, ProtocolKeys
<1>8. /\ session[c].state \in Nat \union {Empty}
      /\ session[c].verifier \in Nat \union {Empty}
  BY <1>1 DEF IInv, TypeOK
<1>9. /\ ProtocolPart(c)["state"] = OneOrNone(~request[c].disableState, session[c].state)
      /\ ProtocolPart(c)["code_challenge"] =
           OneOrNone(config.pkce, Challenge(session[c].verifier))
  BY DEF ProtocolPart
<1> QED
  BY <1>1, <1>2, <1>3, <1>4, <1>6, <1>7, <1>8, <1>9

\* Values of different calls, and the two of one call, differ.
LEMMA DistinctValues ==
  ASSUME IInv, NEW c \in Callers, NEW d \in Callers
  PROVE  /\ session[c].state = session[d].state => c = d \/ session[c].state = Empty
         /\ session[c].verifier = session[d].verifier => c = d \/ session[c].verifier = Empty
         /\ session[c].verifier = session[d].state => session[c].verifier = Empty
BY DEF IInv, Fresh, Held

LEMMA OwnCallbackOnly == IInv => OnlyItsOwnCallback
<1> SUFFICES ASSUME IInv, NEW c \in Accepted, NEW d \in Accepted
             PROVE  /\ Completes(c, d) <=> c = d \/ session[c].disabled
                    /\ provider.pkce =>
                         /\ Proves(c, d) <=> c = d
                         /\ url[d]["state"] # <<session[c].verifier>>
  BY DEF OnlyItsOwnCallback
<1>1. c \in Callers /\ d \in Callers
  BY AcceptedCall
<1>2. CallbackOf(d).state = session[d].state
  <2>1. CASE session[d].disabled
    BY <2>1, AcceptedCall DEF CallbackOf, OneOrNone
  <2>2. CASE ~session[d].disabled
    <3>1. url[d]["state"] = <<session[d].state>>
      BY <2>2, AcceptedCall DEF OneOrNone
    <3>2. url[d]["state"] # <<>> /\ url[d]["state"][1] = session[d].state
      BY <3>1
    <3> QED
      BY <3>2 DEF CallbackOf
  <2> QED
    BY <2>1, <2>2
<1>3. Completes(c, d) <=>
        \/ session[c].disabled
        \/ session[c].state # Empty /\ session[d].state # Empty
           /\ session[c].state = session[d].state
  <2>1. /\ ~CallbackOf(d).error
        /\ CallbackOf(d).code = "code" /\ "code" # Empty
    BY EmptyAssumption DEF CallbackOf
  <2>2. provider.pkce => session[c].verifier # Empty
    BY AcceptedCall
  <2>3. Completes(c, d) <=>
          ~(~session[c].disabled /\ ~ValidState(session[c].state, CallbackOf(d).state))
    BY <2>1, <2>2 DEF Completes, Verdict
  <2> QED
    BY <1>2, <2>3 DEF ValidState
<1>4. Completes(c, d) <=> c = d \/ session[c].disabled
  <2>1. ~session[c].disabled => session[c].state # Empty
    BY AcceptedCall
  <2> QED
    BY <1>1, <1>3, <2>1, DistinctValues
<1>5. ASSUME provider.pkce
      PROVE  (Proves(c, d) <=> c = d) /\ url[d]["state"] # <<session[c].verifier>>
  <2>1. session[c].verifier # Empty /\ session[d].verifier # Empty
    BY <1>5, AcceptedCall
  <2>2. url[d]["code_challenge"] = <<Challenge(session[d].verifier)>>
    BY <1>5, AcceptedCall DEF OneOrNone
  <2>3. Proves(c, d) <=> session[d].verifier = session[c].verifier
    BY <2>2 DEF Proves, Challenge
  <2>4. Proves(c, d) <=> c = d
    BY <1>1, <2>1, <2>3, DistinctValues
  <2>5. url[d]["state"] = <<>> \/ url[d]["state"] = <<session[d].state>>
    BY AcceptedCall DEF OneOrNone
  <2>6. session[d].state # session[c].verifier
    BY <1>1, <2>1, DistinctValues
  <2>7. /\ <<>> # <<session[c].verifier>>
        /\ <<session[d].state>> # <<session[c].verifier>>
    BY <2>6
  <2>8. url[d]["state"] # <<session[c].verifier>>
    BY <2>5, <2>7, Zenon
  <2> QED
    BY <2>4, <2>8
<1> QED
  BY <1>4, <1>5

\* A session accepts the callback of its own URL and of no other, and its verifier proves
\* its own challenge and no other's, however calls interleave (provider.go:33-46, 164-172).
THEOREM OwnCallback == Spec => []OnlyItsOwnCallback
BY Invariant, OwnCallbackOnly, PTL

-----------------------------------------------------------------------------
(* Begin implements AtomicBegin. *)

\* A call that has begun has one of the requests.
Requested == \A c \in Callers : pc[c] # "idle" => request[c] \in Requests

LEMMA NextRequested == IInv /\ Requested /\ [Next]_vars => Requested'
<1> SUFFICES ASSUME IInv, Requested, [Next]_vars PROVE Requested'
  OBVIOUS
<1>1. ASSUME NEW c \in Callers, Continue(c) PROVE Requested'
  <2>1. pc[c] # "idle"
    BY <1>1 DEF IInv, OneReader, Continue, Draw, Drawn, DrawFails, BuildURL
  <2>2. request' = request
    BY <1>1 DEF Continue, Draw, Drawn, DrawFails, BuildURL, locals
  <2>3. \A d \in Callers \ {c} : pc'[d] = pc[d]
    BY <1>1 DEF IInv, TypeOK, Continue, Draw, Drawn, DrawFails, BuildURL, Return, locals
  <2> QED
    BY <2>1, <2>2, <2>3 DEF Requested
<1>2. ASSUME NEW c \in Callers, NEW r \in Requests, NEW cancelled \in BOOLEAN,
             Enter(c, r, cancelled)
      PROVE  Requested'
  <2>1. request' = [request EXCEPT ![c] = r]
    BY <1>2 DEF Enter
  <2>2. \A d \in Callers \ {c} : pc'[d] = pc[d]
    BY <1>2 DEF IInv, TypeOK, Enter, Return
  <2>3. request'[c] = r /\ \A d \in Callers \ {c} : request'[d] = request[d]
    BY <2>1 DEF IInv, TypeOK
  <2> QED
    BY <2>2, <2>3 DEF Requested
<1>3. ASSUME UNCHANGED <<pc, request>> PROVE Requested'
  BY <1>3 DEF Requested
<1>4. ConstructAny \/ Reuse \/ UNCHANGED vars => UNCHANGED <<pc, request>>
  BY DEF ConstructAny, Construct, Reuse, vars, locals
<1> QED
  BY <1>1, <1>2, <1>3, <1>4 DEF Next

\* Calls that are under way have not returned, and a step of one is no step of another.
LEMMA OthersReturned ==
  ASSUME NEW c \in Callers, NEW d \in Callers \ {c},
         pc'[d] = pc[d], request'[d] = request[d], session'[d] = session[d]
  PROVE  /\ RequestsAnswered'[d] = RequestsAnswered[d]
         /\ SessionsReturned'[d] = SessionsReturned[d]
BY DEF RequestsAnswered, SessionsReturned, Returned

\* A step at which no call returns, and which builds no provider, is none of AtomicBegin.
LEMMA Underway ==
  ASSUME NEW c \in Callers, pc[c] # "done", pc'[c] # "done", UNCHANGED <<provider, result>>,
         \A d \in Callers \ {c} :
           pc'[d] = pc[d] /\ request'[d] = request[d] /\ session'[d] = session[d]
  PROVE  UNCHANGED Atomic!vars
<1>1. /\ RequestsAnswered'[c] = RequestsAnswered[c]
      /\ SessionsReturned'[c] = SessionsReturned[c]
  BY DEF RequestsAnswered, SessionsReturned, Returned
<1>2. \A d \in Callers : /\ RequestsAnswered'[d] = RequestsAnswered[d]
                         /\ SessionsReturned'[d] = SessionsReturned[d]
  BY <1>1, OthersReturned
<1>3. RequestsAnswered' = RequestsAnswered
  BY <1>2 DEF RequestsAnswered
<1>4. SessionsReturned' = SessionsReturned
  BY <1>2 DEF SessionsReturned
<1> QED
  BY <1>3, <1>4 DEF Atomic!vars

\* A step at which a call returns answers it.
LEMMA ReturnAnswers ==
  ASSUME NEW c \in Callers, pc[c] # "done", pc'[c] = "done", NEW code,
         result' = [result EXCEPT ![c] = code],
         provider' = provider, Built, result[c] = "none",
         \A d \in Callers \ {c} :
           pc'[d] = pc[d] /\ request'[d] = request[d] /\ session'[d] = session[d]
  PROVE  /\ Atomic!Answer(c, request'[c], session'[c], code)
         /\ SessionsReturned'[c] = session'[c]
<1>1. /\ RequestsAnswered'[c] = request'[c]
      /\ SessionsReturned'[c] = session'[c]
  BY DEF RequestsAnswered, SessionsReturned, Returned
<1>2. \A d \in Callers \ {c} : /\ RequestsAnswered'[d] = RequestsAnswered[d]
                               /\ SessionsReturned'[d] = SessionsReturned[d]
  BY OthersReturned
<1>3. RequestsAnswered' = [RequestsAnswered EXCEPT ![c] = request'[c]]
  BY <1>1, <1>2 DEF RequestsAnswered
<1>4. SessionsReturned' = [SessionsReturned EXCEPT ![c] = session'[c]]
  BY <1>1, <1>2 DEF SessionsReturned
<1> QED
  BY <1>1, <1>3, <1>4 DEF Atomic!Answer, Built

LEMMA ConstructBuilds ==
  ASSUME NEW configuration, NEW new, Construct(configuration, new)
  PROVE  [Atomic!Next]_(Atomic!vars)
<1>1. provider = NotBuilt /\ UNCHANGED <<pc, request, session, result>>
  BY DEF Construct, locals
<1>2. UNCHANGED <<RequestsAnswered, SessionsReturned, result>>
  BY <1>1 DEF RequestsAnswered, SessionsReturned, Returned
<1>3. CASE provider' = NotBuilt
  BY <1>1, <1>2, <1>3 DEF Atomic!vars
<1>4. CASE provider' # NotBuilt
  BY <1>1, <1>2, <1>4 DEF Atomic!Next, Atomic!Build
<1> QED
  BY <1>3, <1>4

\* A call is refused before it draws anything, or let in.
LEMMA EnterAtOnce ==
  ASSUME IInv, NEW c \in Callers, NEW r \in Requests, NEW cancelled \in BOOLEAN,
         Enter(c, r, cancelled)
  PROVE  [Atomic!Next]_(Atomic!vars)
<1>1. /\ Built /\ pc[c] = "idle" /\ provider' = provider
      /\ request' = [request EXCEPT ![c] = r]
  BY DEF Enter
<1>2. result[c] = "none" /\ session[c] = NoSession
  BY <1>1 DEF IInv, CallInv, Admitted
<1>3. request'[c] = r
  BY <1>1 DEF IInv, TypeOK
<1>4. \A d \in Callers \ {c} :
        pc'[d] = pc[d] /\ request'[d] = request[d] /\ session'[d] = session[d]
  <2>1. \A d \in Callers \ {c} : pc'[d] = pc[d]
    BY DEF Enter, Return, IInv, TypeOK
  <2>2. \A d \in Callers \ {c} : session'[d] = session[d]
    BY DEF Enter, IInv, TypeOK
  <2> QED
    BY <1>1, <2>1, <2>2 DEF IInv, TypeOK
<1>5. ASSUME NEW code \in {"transport_failed", "invalid_request", "invalid_configuration"},
             Return(c, code), session' = session, Atomic!Reason(r, code)
      PROVE  Atomic!Next
  <2>1. /\ pc'[c] = "done" /\ session'[c] = NoSession
        /\ result' = [result EXCEPT ![c] = code]
    BY <1>2, <1>5 DEF Return, IInv, TypeOK
  <2>2. Atomic!Answer(c, r, NoSession, code)
    BY <1>1, <1>2, <1>3, <1>4, <2>1, ReturnAnswers
  <2> QED
    BY <1>5, <2>2 DEF Atomic!Fail, Atomic!Next
<1>6. CASE cancelled
  <2>1. Return(c, "transport_failed") /\ session' = session
    BY <1>6 DEF Enter
  <2> QED
    BY <1>5, <2>1 DEF Atomic!Reason
<1>7. CASE ~cancelled /\ InvalidAuthorizationParameters(r.parameters)
  <2>1. Return(c, "invalid_request") /\ session' = session
    BY <1>7 DEF Enter
  <2>2. r \in Inadmissible
    BY <1>7 DEF Inadmissible
  <2> QED
    BY <1>5, <2>1, <2>2 DEF Atomic!Reason
<1>8. CASE ~cancelled /\ ~InvalidAuthorizationParameters(r.parameters)
  <2>1. /\ pc' = [pc EXCEPT ![c] = IF r.disableState THEN AfterState ELSE "state"]
        /\ result' = result
    BY <1>8 DEF Enter
  <2>2. pc'[c] # "done"
    BY <2>1 DEF AfterState, IInv, TypeOK
  <2> QED
    BY <1>1, <1>4, <2>1, <2>2, Underway
<1> QED
  BY <1>6, <1>7, <1>8

LEMMA DrawUnseen == ASSUME NEW c \in Callers, Draw(c) PROVE UNCHANGED Atomic!vars
<1>1. UNCHANGED <<provider, pc, request, session, result>>
  BY DEF Draw, locals
<1> QED
  BY <1>1 DEF Atomic!vars, RequestsAnswered, SessionsReturned, Returned

LEMMA DrawnUnseen ==
  ASSUME IInv, NEW c \in Callers, Drawn(c) PROVE UNCHANGED Atomic!vars
<1>1. /\ pc[c] \in {"state", "verifier"}
      /\ UNCHANGED <<provider, request, result>>
  BY DEF Drawn
<1>2. pc'[c] \in {"verifier", "url"}
  BY DEF Drawn, AfterState, IInv, TypeOK
<1>3. \A d \in Callers \ {c} : pc'[d] = pc[d] /\ session'[d] = session[d]
  BY DEF Drawn, IInv, TypeOK
<1> QED
  BY <1>1, <1>2, <1>3, Underway

\* The source is read for a value that the request or the provider wants.
LEMMA DrawFailsAtOnce ==
  ASSUME IInv, Requested, NEW c \in Callers, DrawFails(c) PROVE Atomic!Next
<1>1. /\ reading[c] # Empty
      /\ pc' = [pc EXCEPT ![c] = "done"]
      /\ result' = [result EXCEPT ![c] = "invalid_configuration"]
      /\ session' = [session EXCEPT ![c] = NoSession]
      /\ UNCHANGED <<provider, request>>
  BY DEF DrawFails, Return
<1>2. pc[c] \in {"state", "verifier"}
  BY <1>1 DEF IInv, OneReader
<1>3. Built /\ result[c] = "none" /\ Admitted(c)
  BY <1>2 DEF IInv, CallInv, Admitted
<1>4. request[c] \in Requests /\ request'[c] = request[c]
  BY <1>1, <1>2 DEF Requested
<1>5. Atomic!Reason(request[c], "invalid_configuration")
  <2>1. request[c] \notin Inadmissible
    BY <1>3 DEF IInv, CallInv, Inadmissible
  <2>2. ~request[c].disableState \/ provider.pkce
    BY <1>2 DEF IInv, CallInv
  <2> QED
    BY <2>1, <2>2 DEF Atomic!Reason
<1>6. /\ pc'[c] = "done" /\ session'[c] = NoSession
      /\ \A d \in Callers \ {c} : pc'[d] = pc[d] /\ session'[d] = session[d]
  BY <1>1 DEF IInv, TypeOK
<1>7. Atomic!Answer(c, request[c], NoSession, "invalid_configuration")
  BY <1>1, <1>2, <1>3, <1>4, <1>6, ReturnAnswers
<1> QED
  BY <1>4, <1>5, <1>7 DEF Atomic!Fail, Atomic!Next

\* The values a call holds when it returns are in no session returned before.
LEMMA ReturnedAreOthers ==
  ASSUME IInv, NEW c \in Callers, pc[c] # "done"
  PROVE  Atomic!ValuesOf(session[c]) \intersect Atomic!Taken = {}
<1>1. ASSUME NEW d \in Callers
      PROVE  Atomic!ValuesOf(SessionsReturned[d]) \intersect Held(c) = {}
  <2>1. CASE Returned(d)
    <3>1. d # c /\ Atomic!ValuesOf(SessionsReturned[d]) = Held(d)
      BY <2>1 DEF Returned, SessionsReturned, Atomic!ValuesOf, Held
    <3> QED
      BY <3>1 DEF IInv, Fresh
  <2>2. CASE ~Returned(d)
    BY <2>2 DEF SessionsReturned, Atomic!ValuesOf, NoSession
  <2> QED
    BY <2>1, <2>2
<1>2. Atomic!ValuesOf(session[c]) = Held(c)
  BY DEF Atomic!ValuesOf, Held
<1> QED
  BY <1>1, <1>2 DEF Atomic!Taken

LEMMA BuildURLAtOnce ==
  ASSUME IInv, Requested, NEW c \in Callers, BuildURL(c) PROVE Atomic!Next
<1>1. /\ pc[c] = "url"
      /\ pc' = [pc EXCEPT ![c] = "done"]
      /\ result' = [result EXCEPT ![c] = "ok"]
      /\ UNCHANGED <<provider, request, session>>
  BY DEF BuildURL, Return
<1>2. /\ Built /\ result[c] = "none" /\ Admitted(c)
      /\ request[c] \in Requests /\ request'[c] = request[c] /\ session'[c] = session[c]
  BY <1>1 DEF IInv, CallInv, Admitted, Requested
<1>3. pc'[c] = "done" /\ \A d \in Callers \ {c} : pc'[d] = pc[d]
  BY <1>1 DEF IInv, TypeOK
<1>4. /\ Atomic!Answer(c, request[c], session[c], "ok")
      /\ SessionsReturned'[c] = session[c]
  BY <1>1, <1>2, <1>3, ReturnAnswers
<1>5. request[c] \notin Inadmissible
  BY <1>2 DEF IInv, CallInv, Inadmissible
<1>6. Atomic!Fits(session[c], request[c])
  <2>1. /\ session[c].disabled = request[c].disableState
        /\ session[c].state = Empty <=> request[c].disableState
        /\ session[c].verifier = Empty <=> ~provider.pkce
    BY <1>1, <1>2 DEF IInv, CallInv
  <2>2. session[c].state = session[c].verifier => session[c].state = Empty
    BY DEF IInv, Fresh
  <2>3. Atomic!ValuesOf(session[c]) \intersect Atomic!Taken = {}
    BY <1>1, ReturnedAreOthers
  <2> QED
    BY <2>1, <2>2, <2>3 DEF Atomic!Fits
<1>7. Atomic!Succeed(c, request[c])
  BY <1>4, <1>5, <1>6 DEF Atomic!Succeed
<1> QED
  BY <1>2, <1>7 DEF Atomic!Next

LEMMA NextAtOnce ==
  ASSUME IInv, Requested, [Next]_vars PROVE [Atomic!Next]_(Atomic!vars)
<1>1. CASE ConstructAny
  BY <1>1, ConstructBuilds DEF ConstructAny
<1>2. CASE Reuse \/ UNCHANGED vars
  <2>1. UNCHANGED <<provider, pc, request, session, result>>
    BY <1>2 DEF Reuse, vars, locals
  <2> QED
    BY <2>1 DEF Atomic!vars, RequestsAnswered, SessionsReturned, Returned
<1>3. ASSUME NEW c \in Callers, Continue(c) PROVE [Atomic!Next]_(Atomic!vars)
  BY <1>3, DrawUnseen, DrawnUnseen, DrawFailsAtOnce, BuildURLAtOnce DEF Continue
<1> QED
  BY <1>1, <1>2, <1>3, EnterAtOnce DEF Next

\* However the calls, their draws and the failures of the random source interleave, each
\* call is answered as at one instant: with a whole session whose values are new, or with
\* an error that has a reason and nothing of a session (Begin, provider.go:33-65).
THEOREM BeginRefines == Spec => ImplementsAtomicBegin
<1>1. Init => Atomic!Init /\ Requested
  BY DEF Init, Atomic!Init, Requested, RequestsAnswered, SessionsReturned, Returned
<1> QED
  BY <1>1, Invariant, NextRequested, NextAtOnce, PTL
  DEF Spec, ImplementsAtomicBegin, Atomic!Spec

-----------------------------------------------------------------------------
(* The bundled constructors. *)

\* What Config is left with once a constructor has filled in its own part.
LEMMA CommonAcceptable ==
  ASSUME NEW conf, conf.name # Empty, conf.clientID # Empty,
         ValidHTTPURL(conf.authURL), conf.authURL.query = NoParameters,
         ValidHTTPURL(conf.tokenURL), conf.tokenURL.query = NoParameters,
         HasUserLoader(conf)
  PROVE  New(conf) # Refused <=>
           /\ ValidRedirectURL(conf.redirectURL)
           /\ ~InvalidAuthorizationParameters(conf.parameters)
           /\ ValidLimit(conf.limit)
<1>1. ~HasProtectedEndpointParameter(conf.authURL)
  BY DEF HasProtectedEndpointParameter, InvalidAuthorizationParameters, NoParameters
<1>2. ~HasSensitiveEndpointParameter(conf.tokenURL)
  BY DEF HasSensitiveEndpointParameter, NoParameters
<1>3. Acceptable(conf) <=> /\ ValidRedirectURL(conf.redirectURL)
                             /\ ~InvalidAuthorizationParameters(conf.parameters)
                             /\ ValidLimit(conf.limit)
  BY <1>1, <1>2 DEF Acceptable
<1>4. Acceptable(conf) => "name" \in DOMAIN New(conf)
  BY DEF New
<1>5. "name" \notin DOMAIN Refused
  BY DEF Refused
<1>6. ~Acceptable(conf) => New(conf) = Refused
  BY DEF New
<1> QED
  BY <1>3, <1>4, <1>5, <1>6

\* A bundled constructor refuses options for the application's own mistakes only: a
\* missing credential, an unusable redirect or limit, a parameter of Google's that the
\* protocol owns, a base of GitLab's that is not a plain https URL.  What the constructor
\* adds itself, New never refuses.
THEOREM BundledRefusals ==
  ASSUME NEW options, DOMAIN options.baseURL = DOMAIN HttpsURL,
         options.baseURL = [k \in DOMAIN HttpsURL |-> options.baseURL[k]]
  PROVE  LET usable == /\ HasCredentials(options)
                       /\ ValidRedirectURL(options.redirectURL)
                       /\ ValidLimit(options.limit)
         IN /\ NewGitHub(options) # Refused <=> usable
            /\ NewGoogle(options) # Refused <=>
                 usable /\ ~InvalidAuthorizationParameters(options.parameters)
            /\ NewDiscord(options) # Refused <=> usable
            /\ NewGitLab(options) # Refused <=> usable /\ ValidBaseURL(options.baseURL)
<1> DEFINE usable == /\ HasCredentials(options)
                     /\ ValidRedirectURL(options.redirectURL)
                     /\ ValidLimit(options.limit)
<1>1. ValidHTTPURL(HttpsURL) /\ HttpsURL.query = NoParameters /\ NoURL.blank
  BY DEF ValidHTTPURL, HttpsURL, NoURL, NotAURL
<1>2. ~HasSensitiveEndpointParameter(HttpsURL) /\ ~InvalidAuthorizationParameters(NoParameters)
  BY <1>1 DEF HasSensitiveEndpointParameter, InvalidAuthorizationParameters, NoParameters
<1>3. NewGitHub(options) # Refused <=> usable
  <2> PICK conf : conf = GitHub(options)
    OBVIOUS
  <2>1. /\ conf.name = "github" /\ conf.clientID = options.clientID
        /\ conf.redirectURL = options.redirectURL /\ conf.limit = options.limit
        /\ conf.authURL = HttpsURL /\ conf.tokenURL = HttpsURL
        /\ conf.parameters = NoParameters
        /\ conf.userLoader /\ ~conf.userMapper /\ conf.userEndpoint = NoURL
    BY DEF GitHub, Common
  <2>2. HasUserLoader(conf)
    BY <1>1, <2>1 DEF HasUserLoader
  <2>3. ASSUME HasCredentials(options)
        PROVE  New(conf) # Refused <=> usable
    <3>1. conf.name # Empty /\ conf.clientID # Empty
      BY <2>1, <2>3, EmptyAssumption DEF HasCredentials
    <3>2. /\ ValidHTTPURL(conf.authURL) /\ conf.authURL.query = NoParameters
          /\ ValidHTTPURL(conf.tokenURL) /\ conf.tokenURL.query = NoParameters
      BY <1>1, <2>1
    <3>3. New(conf) # Refused <=> /\ ValidRedirectURL(conf.redirectURL)
                                 /\ ~InvalidAuthorizationParameters(conf.parameters)
                                 /\ ValidLimit(conf.limit)
      BY <2>2, <3>1, <3>2, CommonAcceptable
    <3> QED
      BY <1>2, <2>1, <2>3, <3>3
  <2> QED
    BY <2>3 DEF NewGitHub
<1>4. NewGoogle(options) # Refused <=>
        usable /\ ~InvalidAuthorizationParameters(options.parameters)
  <2> PICK conf : conf = Google(options)
    OBVIOUS
  <2>1. /\ conf.name = "google" /\ conf.clientID = options.clientID
        /\ conf.redirectURL = options.redirectURL /\ conf.limit = options.limit
        /\ conf.authURL = HttpsURL /\ conf.tokenURL = HttpsURL
        /\ conf.parameters = options.parameters
        /\ ~conf.userLoader /\ conf.userMapper /\ conf.userEndpoint = HttpsURL
    BY DEF Google, Common
  <2>2. HasUserLoader(conf)
    BY <1>1, <1>2, <2>1 DEF HasUserLoader
  <2>3. ASSUME HasCredentials(options)
        PROVE  New(conf) # Refused <=>
                 usable /\ ~InvalidAuthorizationParameters(options.parameters)
    <3>1. conf.name # Empty /\ conf.clientID # Empty
      BY <2>1, <2>3, EmptyAssumption DEF HasCredentials
    <3>2. /\ ValidHTTPURL(conf.authURL) /\ conf.authURL.query = NoParameters
          /\ ValidHTTPURL(conf.tokenURL) /\ conf.tokenURL.query = NoParameters
      BY <1>1, <2>1
    <3>3. New(conf) # Refused <=> /\ ValidRedirectURL(conf.redirectURL)
                                 /\ ~InvalidAuthorizationParameters(conf.parameters)
                                 /\ ValidLimit(conf.limit)
      BY <2>2, <3>1, <3>2, CommonAcceptable
    <3> QED
      BY <2>1, <2>3, <3>3
  <2> QED
    BY <2>3 DEF NewGoogle
<1>5. NewDiscord(options) # Refused <=> usable
  <2> PICK conf : conf = Discord(options)
    OBVIOUS
  <2>1. /\ conf.name = "discord" /\ conf.clientID = options.clientID
        /\ conf.redirectURL = options.redirectURL /\ conf.limit = options.limit
        /\ conf.authURL = HttpsURL /\ conf.tokenURL = HttpsURL
        /\ conf.parameters = NoParameters
        /\ ~conf.userLoader /\ conf.userMapper /\ conf.userEndpoint = HttpsURL
    BY DEF Discord, Common
  <2>2. HasUserLoader(conf)
    BY <1>1, <1>2, <2>1 DEF HasUserLoader
  <2>3. ASSUME HasCredentials(options)
        PROVE  New(conf) # Refused <=> usable
    <3>1. conf.name # Empty /\ conf.clientID # Empty
      BY <2>1, <2>3, EmptyAssumption DEF HasCredentials
    <3>2. /\ ValidHTTPURL(conf.authURL) /\ conf.authURL.query = NoParameters
          /\ ValidHTTPURL(conf.tokenURL) /\ conf.tokenURL.query = NoParameters
      BY <1>1, <2>1
    <3>3. New(conf) # Refused <=> /\ ValidRedirectURL(conf.redirectURL)
                                 /\ ~InvalidAuthorizationParameters(conf.parameters)
                                 /\ ValidLimit(conf.limit)
      BY <2>2, <3>1, <3>2, CommonAcceptable
    <3> QED
      BY <1>2, <2>1, <2>3, <3>3
  <2> QED
    BY <2>3 DEF NewDiscord
<1>6. NewGitLab(options) # Refused <=> usable /\ ValidBaseURL(options.baseURL)
  <2> PICK conf : conf = GitLab(options)
    OBVIOUS
  <2> PICK base : base = IF options.baseURL.blank THEN HttpsURL
                         ELSE [options.baseURL EXCEPT !.fragment = FALSE]
    OBVIOUS
  <2>1. /\ conf.name = "gitlab" /\ conf.clientID = options.clientID
        /\ conf.redirectURL = options.redirectURL /\ conf.limit = options.limit
        /\ conf.authURL = base /\ conf.tokenURL = base
        /\ conf.parameters = NoParameters
        /\ ~conf.userLoader /\ conf.userMapper /\ conf.userEndpoint = base
    BY DEF GitLab, Common
  <2>2. ValidBaseURL(options.baseURL) => ValidHTTPURL(base) /\ base.query = NoParameters
    <3>1. CASE options.baseURL.blank
      BY <1>1, <3>1
    <3>2. CASE ~options.baseURL.blank
      <4>1. /\ base.parses = options.baseURL.parses /\ base.scheme = options.baseURL.scheme
            /\ base.host = options.baseURL.host /\ base.user = options.baseURL.user
            /\ base.query = options.baseURL.query
        BY <3>2 DEF HttpsURL
      <4> QED
        BY <3>2, <4>1 DEF ValidBaseURL, ValidHTTPURL
    <3> QED
      BY <3>1, <3>2
  <2>3. ValidBaseURL(options.baseURL) => HasUserLoader(conf)
    BY <2>1, <2>2 DEF HasUserLoader, HasSensitiveEndpointParameter, NoParameters
  <2>4. ASSUME HasCredentials(options), ValidBaseURL(options.baseURL)
        PROVE  New(conf) # Refused <=> usable
    <3>1. conf.name # Empty /\ conf.clientID # Empty
      BY <2>1, <2>4, EmptyAssumption DEF HasCredentials
    <3>2. /\ ValidHTTPURL(conf.authURL) /\ conf.authURL.query = NoParameters
          /\ ValidHTTPURL(conf.tokenURL) /\ conf.tokenURL.query = NoParameters
      BY <2>1, <2>2, <2>4
    <3>3. New(conf) # Refused <=> /\ ValidRedirectURL(conf.redirectURL)
                                 /\ ~InvalidAuthorizationParameters(conf.parameters)
                                 /\ ValidLimit(conf.limit)
      BY <2>3, <2>4, <3>1, <3>2, CommonAcceptable
    <3> QED
      BY <1>2, <2>1, <2>4, <3>3
  <2> QED
    BY <2>4 DEF NewGitLab
<1> QED
  BY <1>3, <1>4, <1>5, <1>6

\* What an application can get from a bundled provider's constructor uses PKCE, and its
\* endpoint has no fragment: no call that succeeds is left out, and no session without
\* a state is left unprotected (BundledProviders; provider.go:33-49).
BundledConfigs == UNION {{GitHub(o), Google(o), Discord(o), GitLab(o)} : o \in Options}

LEMMA BundledShape ==
  \A conf \in BundledConfigs : conf.pkce = TRUE /\ conf.authURL.fragment = FALSE
<1> SUFFICES ASSUME NEW o \in Options, NEW conf \in {GitHub(o), Google(o), Discord(o), GitLab(o)}
             PROVE  conf.pkce = TRUE /\ conf.authURL.fragment = FALSE
  BY DEF BundledConfigs
<1>1. HttpsURL.fragment = FALSE
  BY DEF HttpsURL
<1>2. CASE conf \in {GitHub(o), Google(o), Discord(o)}
  BY <1>1, <1>2 DEF GitHub, Google, Discord, Common
<1>3. CASE conf = GitLab(o)
  <2> PICK base : base = IF o.baseURL.blank THEN HttpsURL
                         ELSE [o.baseURL EXCEPT !.fragment = FALSE]
    OBVIOUS
  <2>1. base.fragment = FALSE
    BY <1>1, OptionsAssumption DEF HttpsURL
  <2>2. conf.pkce = TRUE /\ conf.authURL = base
    BY <1>3 DEF GitLab, Common
  <2> QED
    BY <2>1, <2>2
<1> QED
  BY <1>2, <1>3

\* With a bundled provider every URL that Begin returned carries a challenge that its own
\* session proves and no other does, also where the application switched the state off.
THEOREM BundledOwnCallback ==
  Spec => [](config \in BundledConfigs =>
               \A c, d \in {e \in Callers : result[e] = "ok"} :
                 /\ Completes(c, d) <=> c = d \/ session[c].disabled
                 /\ Proves(c, d) <=> c = d
                 /\ url[d]["state"] # <<session[c].verifier>>)
<1>1. ASSUME IInv, OnlyItsOwnCallback, config \in BundledConfigs,
             NEW c \in Callers, NEW d \in Callers, result[c] = "ok", result[d] = "ok"
      PROVE  /\ Completes(c, d) <=> c = d \/ session[c].disabled
             /\ Proves(c, d) <=> c = d
             /\ url[d]["state"] # <<session[c].verifier>>
  <2>1. c \in Accepted /\ d \in Accepted
    BY <1>1, BundledShape DEF Accepted
  <2>2. Built
    BY <1>1 DEF IInv, CallInv
  <2>3. provider.pkce
    BY <1>1, <2>2, BundledShape, Copied DEF IInv
  <2> QED
    BY <1>1, <2>1, <2>3 DEF OnlyItsOwnCallback
<1>2. IInv /\ OnlyItsOwnCallback =>
        (config \in BundledConfigs =>
           \A c, d \in {e \in Callers : result[e] = "ok"} :
             /\ Completes(c, d) <=> c = d \/ session[c].disabled
             /\ Proves(c, d) <=> c = d
             /\ url[d]["state"] # <<session[c].verifier>>)
  BY <1>1
<1> QED
  BY <1>2, Invariant, OwnCallback, PTL
=============================================================================
