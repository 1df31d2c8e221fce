# Goci Connect in TLA+

Goci Connect is a Go toolkit for social logins: a registry of providers, one OAuth 2.0
provider implementation that the bundled providers configure, error categories, a test
kit, and a `net/http` example application with its own session store. This directory
holds TLA+ modules translated from that code, TLC configurations that check them on
small instances, and proofs that TLAPS checks for every value of the constants. Source
paths below are relative to the repository's root.

## 1. The system

| Part | Source | State | Operations | What makes it correct |
|---|---|---|---|---|
| Session store | `examples/nethttp/session_store.go` | a map of pending authorizations behind a mutex; a TTL, a clock, a random source | `create`, `consume`, `removeExpired` | a session is handed out once, in time, to one callback; no login in time is lost or overwritten |
| Login flow | `examples/nethttp/app.go` | none of its own: the browser's cookie and the store | `handleIndex`, `handleBegin`, `handleCallback` | a success page ends the browser's own login; a code is sent once |
| Provider operations | `oauth2provider/provider.go` | immutable configuration, a random source behind a mutex; each call has locals, a context and HTTP answers | `Begin`, `Complete`, `User`, `Refresh`, `loadUser`, `tokenOperationError` | a URL says what was asked, its session accepts its own callback only; a cancelled call never succeeds and blames the context; nothing unchecked is sent |
| Fetcher and loaders | `oauth2provider/transport.go`, `loader.go`, `providers/github/user.go` | none | `GetJSON`, `mappedUserLoader`, GitHub's loader and `fallbackEmail` | every failure gets one category; the e-mail address is optional |
| Response limit | `oauth2provider/transport.go` | the `remaining` countdown of one body | `RoundTrip`, `boundedReadCloser.Read` | the verdict is exact at the limit; at most one byte more is read |
| Registry | `manager.go` | canonical names and aliases behind a read-write lock | `Register`, `RegisterAlias`, `Provider`, `Names` | a name is taken once and keeps its meaning |
| Error categories | `errors.go` | immutable chains | `NewError`, `Error.Is`, `ErrorCodeOf`, `IsErrorCode` | code and `errors.Is` never contradict each other |
| Configuration | `oauth2provider/config.go` | none after `New` | `New` and its checks | what `New` accepts leaves the protocol's parameters alone, and later changes of what it was given do not matter |
| Values | `model.go` | immutable or cloned | `Clone`, redacted `String` | no slice or map is shared |
| Test kit | `testkit/provider.go` | results and recorded calls behind a lock | the four operations, `Configure...`, `ResetCalls`, snapshots | record and result belong to one locked step |
| Server | `examples/nethttp/main.go` | listener, signal, shutdown timer | `run`, `managerFromEnvironment` | the process serves if and as it is configured, and ends with the right error |
| Environment file | `examples/nethttp/env.go` | the process environment | `loadEnvironmentFile` | what is inherited stays, the file adds the rest or the process ends |
| Bundled providers | `providers/*` | none | the four `New`, field mappings | each builds a configuration `oauth2provider.New` accepts, or refuses |

How they interact: `handleBegin` looks a provider up in the registry, calls its `Begin`,
gives the session to `create` and sends the identifier to the browser as a cookie.
The authorization server sends the browser to `handleCallback`, which calls `consume`
with the cookie and then `Complete` with the session. `Complete` posts the code to the
token endpoint through `golang.org/x/oauth2`, then runs a user loader; both requests go
through the size-limited transport. Errors of all of them are chains of categories.

What is hard in this code: goroutines that interleave around short locked sections with
clocks and random values read outside them (session store, registry), or a source of such
values shared by all calls (`Begin`); contexts that end
at any moment while they are looked at in few places (provider operations); one cookie
shared by all tabs of a browser, late responses, reloads and restarts (login flow); two
readers with two countdowns around one integer boundary (response limit); settings from several
places that must add up and must not override one another (authorization parameters, the
environment); categories
that several layers wrap one over another (errors). `PROJECT.json` lists these
hazards at their lines, with the properties that would catch each.

## 2. The modules

| Module | Models | Composes or refines |
|---|---|---|
| `OneTimeSessions` | what a session store promises | abstract |
| `SessionStore` | `session_store.go` | refines `OneTimeSessions` |
| `CallbackRules` | the checks `Complete` makes on a callback (`provider.go`) | operators, no state |
| `CallOutcomes` | what `Complete`, `User` and `Refresh` promise | abstract, uses `CallbackRules` |
| `OAuthProvider` | `provider.go`'s `Complete`, `User` and `Refresh`, `transport.go`'s `GetJSON`, the loaders | uses `CallbackRules`, refines `CallOutcomes` |
| `ProviderConfig` | `config.go` | operators, no state |
| `BundledProviders` | `providers/*`, the constructors | operators, extends `ProviderConfig` |
| `AtomicBegin` | what `Begin` promises | abstract |
| `AuthorizationRequest` | `provider.go`'s `Begin`, and the application that configures a provider | extends `BundledProviders`, checks its sessions with `CallbackRules`, refines `AtomicBegin` |
| `OneTimeLogins` | what the application promises of logins | abstract |
| `LoginFlow` | `app.go`, the browser, the authorization server | composes `OneTimeSessions` and `CallbackRules`, refines `OneTimeLogins` |
| `WriteOnceNames` | what a registry promises | abstract |
| `Manager` | `manager.go` | refines `WriteOnceNames` |
| `BoundedBody` | the size limit | — |
| `ErrorChain` | `errors.go` | — |
| `AtomicProvider` | what the test kit's provider promises | abstract |
| `FakeProvider` | `testkit/provider.go` | refines `AtomicProvider` |
| `ServerLifecycle` | `run` of `main.go` from the server on, and `net/http`'s server as far as it uses it | — |
| `ServerProcess` | `env.go` and `main.go` up to the server | extends `ServerLifecycle`, which it runs into |
| `MC...` | model values and definitions for TLC | extend the above |
| `...Proofs` | theorems with their proofs | extend the above |

Operators whose comment starts with "A slip" are plausible bugs written next to the
definition they would replace (a dropped look-up, a forgotten check). No specification
uses them. Putting one in the place of the real definition makes TLC report a named
property; `PROJECT.json` ("mutants") pairs them, one for each property of each passing run.

### SessionStore

`sessions` is the map, a set of entries so that two entries for one identifier can be
expressed at all. `call[c]` is a goroutine's program counter with its locals. `create` is
`CreateStart` (trim, read the clock once), `CreateDraw` (draw outside the lock) and the
locked section, `CreateInsert` or `CreateCollides`, both with the purge `removeExpired`
makes first; `CreateCollides` counts the attempt and gives up after `MaxAttempts`.
`consume` is `ConsumeTake` or `ConsumeMiss` (the locked section) and `ConsumeCheck`, which
reads the clock after the unlock. The mutex itself is not a variable: each locked section
is one action, and what happens outside it is another. `redemptions`, `begun` and
`stored` are history.

`OneTimeSessions` says the same without maps, locks or identifiers: a session goes from
fresh to live, is presented once, and is redeemed before its deadline or void. The
refinement mapping reads the status off the map, the consumers and the history.

### OAuthProvider

A call moves through `validate`, `token_wait`, `token_done`, `load`, `fetch_wait`,
`fetch_done`, `email_wait`, `email_done`, `loader_done`, `done`. Each point where the code
reads the context is an action that reads `ctx`; between them `Cancel` can come at any
time. `CallbackRules!Verdict` is the chain of checks in `Complete`. `reply` is what came of
the last request: an answer, a refusal, a response over the limit that was declared so or
found to be so, or a failure before or during the body. `TokenOperationError` is the
function of that name, with what it depends on in `golang.org/x/oauth2`: a failed request is
still a `net.Error`, a failed body read is a new error made of text. And of a token body that
library reads 1 MiB at most. `capFirst` says that the configured limit is no smaller, as the
default is not: then the limit is never met, and a streamed body that is too long arrives `"cut"`,
so that it does not decode, or `"padded"`, so that it does (`TokenEndpoint`). `BoundedBody` shows
which of the two limits is met, byte by byte.
Three loaders: the mapped one, GitHub's with its second request for e-mail addresses, and
any `UserLoader` an application supplies, which may return anything at any time.

`CallOutcomes` has no requests on the wire and no positions: a call is asked, its context may end,
its code may leave once, and it is answered. A request that is refused is answered with its
refusal whether or not its context has ended; a call whose context ended before its answer blames
the context; only then does what the provider said matter, and the outcomes left are those the
operation and its loader can have. So no refresh reports an exchange, `User` reports no token failure,
and only an application's loader brings in other categories.

### ProviderConfig, BundledProviders, AuthorizationRequest

A URL is the record of what `config.go` asks about it, with its query; parameters are
functions from names to sequences of values, so a name without values, two values and a name in
another spelling are all there. `New` is an operator from a configuration to what the
provider keeps of it, or to a refusal; the bundled constructors are operators from their
options to such a configuration. `AuthorizationRequest` makes a provider of any of them,
and then goroutines call `Begin`: `Enter` looks at the context and at the names of the
parameters, `Draw` takes the mutex of the random source, `Drawn` and `DrawFails` end its read
and release it, for the state and then for the verifier, and `BuildURL` puts the URL
together in the order the code does, on top of what `AuthCodeURL` of `golang.org/x/oauth2`
appends to an endpoint. The random source is a position in a stream; `reading` is the
position a read began at, so two reads that overlap would get the same bytes. `given` is the
application's own copy of what it configured, which `Reuse` empties; `config` is history.
`pc`, `session`, `url` and `result` are a call's locals and what it returns. The assumptions on
`Configs`, `Options` and `Requests` say what Go's types say: flags are Booleans, and query and
parameters are values of `url.Values` (`IsValues`).

`AtomicBegin` is `Begin` at one instant: a request is answered with a session that has a state unless
the request disables it, a verifier if the provider uses PKCE, and values no session has that was
returned before; or with an error, for which there is a reason, and nothing of a session. The
configuration's error needs a value to be wanted: a call that draws nothing cannot fail for want
of randomness. The refinement mapping hides a call's request and session until it returns.

### LoginFlow

Flows are logins, each with its browser, provider and progress; `req` are callback
requests and their handlers, one step per call `handleCallback` makes. `Begin` with its
state and verifier, `create` and the redirect are `HandleBegin`. The store is
`OneTimeSessions` itself, used through INSTANCE: what SessionStore is shown to implement.
States, verifiers, codes and identifiers are fresh 256-bit values, or the server's own,
and are named by the flow they were made for. The browser may take a response late, send
a callback again, open its address in another browser, which brings what cookie it has, and drops
a cookie when its `Max-Age`, counted from its receipt (`until`), is over; the server may deny,
refuse, take a code and lose its answer. `Restart` empties the store, loses the running
handlers and comes back with any providers registered, so a callback may be for one that is not
(`ProviderUnknown`). An entry's deadline is counted from the insert, while `create` reads the clock
a moment before (`session_store.go:53`): `SessionStore` has that moment; here it would move the
deadline, and what counts as the login's own time, by as much.

Two pieces of history are for `SessionPageExplained`. `begun` in a flow is when its cookie was
made out. `disturbed` holds the logins whose own cookie was overwritten by another login's
or deleted by the answer to another's callback, or that a restart met under way. What happened before a
login, to another login or in another browser is in neither.

`OneTimeLogins` has no browsers, cookies, handlers or clock: a login is new, open, taken by a
callback, checked, its code sent, and won; or it is over. Each stage follows the one before,
and nothing leads back from `won` or `over`. The refinement mapping `Stage` reads the stage of a
login off the store until its session is redeemed, and off the callback that redeemed it after
that. So where the store's refinement says that a session is handed out once, this one says
what the application makes of it, and that what a restart loses is over.

### Manager

`providers` and `aliases` are the two maps. `Register` reads the provider's name before
the lock (`RegisterReadsName`) and checks and inserts under it (`RegisterLocked`);
`RegisterAlias`, `Provider` and `Names` are one locked section each. `claims` is history.

### BoundedBody

Bytes are counted. `remaining` is the field of `boundedReadCloser`, `quota` the `N` of the
`io.LimitedReader` above it, `Inc` is `+ 1` on a signed integer of `MaxInt`. `reader` says
who reads: `GetJSON` (quota limit + 1 and one more look at the length) or
`golang.org/x/oauth2` (a fixed quota, no second look). Every buffer size, every short read
and the end of the stream with or after the last bytes are explored. The names of its specification begin with `Body`,
so that one module of proofs can extend it together with `OAuthProvider`, whose responses
it reads.

### ErrorChain

An error is the sequence of errors that `errors.Is` and `errors.As` visit, outermost
first; a tree made by two `%w` is visited in preorder and so is a sequence too. Actions
are the ways the repository and its users wrap.

### ServerLifecycle

`main` is where `run` is: in its select, in `Shutdown` before or after its first look at the
connections, at the last read of `errChannel`, or returned, which ends the process and with it every other action. `serving` is the
goroutine with `ListenAndServe`, `conn` the states `net/http` gives its connections. What is
external is modelled from `net/http`: `ListenAndServe` looks three times whether the server is
shutting down, `Shutdown` closes the listener, which may fail (`closeFailed`, its error in the end),
waits for `Serve` to return, then polls and closes idle connections until no busy one is left or
its context is over. It looks at the context between two polls, so it may give up when the last
busy connection has just gone.

### ServerProcess

`startup` is where `run` is before it serves: reading the file, setting its variables, each of the
two providers, the flags; `"serving"` hands over to `ServerLifecycle`, `"failed"` is the return of an
error. The file is a sequence of lines; `SetVariable` takes any of the declarations that are left,
because a Go map is gone through in any order, and skips, sets or fails. Of a value the model
keeps what the code asks of it: whether it is there, blank, a good or a bad one of its kind,
the word "false", which is good for a flag and bad for a redirect URL, or not a value the operating
system takes. `inherited` is history: the environment before
the file.

### FakeProvider

The four operations are alike and so are kinds of one; with them come `Configure...`,
`ResetCalls`, `CallCounts` and the four lists. Unlike in the other modules the lock is a
variable (`writer`, `readers`) and every read or write of a field is an action, because what
the lock has to cover is the point here. `published` is history: the fields as the last
writer left them. `AtomicProvider` has the same operations as single steps; a call takes
effect when it unlocks.

## 3. What the runs check

Distinct states as TLC reports them.

| Run | Instance | States | Shows |
|---|---|---|---|
| `session_store` | 2 goroutines, 2 sessions, 2 identifiers, 3 spellings of 2 providers, TTL 2, 4 attempts, clock to 3 | 81,666 | all of the store's properties, and the refinement of `OneTimeSessions` |
| `oauth_provider` | 1 call, 2 states, 1 code, verifier and token, all replies and loaders, either of the two token limits met first | 256,684 | what a call reports, sends, and that it ends |
| `token_network_failure`, `streamed_token` | the same | — | findings, below |
| `bounded_body` | limits 1 to 6 at `MaxInt` 7, bodies to 9 bytes, buffers to 4 | 3,047 | exact verdicts, bounded reading |
| `login_flow` | 2 browsers, 2 providers, 2 logins, 2 callbacks in either browser, TTL 1, clock to 1, 1 restart | 1,767,126 (symmetric) | who ends up logged in as whom |
| `manager` | 2 goroutines, 3 providers of which two share a name, 5 spellings | 47,869 | names are write-once |
| `fake_provider` | 2 goroutines, 2 kinds, 2 requests, results and errors, a call starts with fewer than 2 recorded | 400,426 (symmetric) | operations are atomic |
| `authorization_request` | 2 goroutines; 32 configurations and 5 options for each bundled provider, 6 requests, 11 parameter names | 63,640 | URLs, sessions and their callbacks |
| `server_lifecycle` | 8 environments, 10 files, 2 connections | 8,087 | how the process starts and ends |
| `error_chain` | 3 categories, chains to 6 links | 18,807 | code and `errors.Is` agree |
| `category_contained` | the same | — | a finding, below |

The properties, by run:

- `session_store`: `RedeemedAtMostOnce`, `Ownership` (a session is held by its
  creator, one entry, alone under its identifier, or one consumer, never by two), `PurgeIsExact`
  (an entry leaves the map overdue or presented, never otherwise, and a create leaves none that
  was overdue when it began), `CallsReturn`, `ImplementsOneTimeSessions`.
- `oauth_provider`: `CodeSentWhenChecked`, `OversizeReported` (`response_too_large` is the answer
  to responses over the limit, to all of them but the token bodies that `golang.org/x/oauth2` cut first,
  and to nothing else), `EmailIsOptional`, `CallsReturn`,
  `ImplementsCallOutcomes` (one answer to each call: its refusal, or its context's end, or an
  outcome the operation can have, in this order). Its `TypeOK`
  also says that every error that leaves an operation has a category.
- `login_flow`: `SuccessIsOwnLogin`, `CodePostedOnce`, `SessionPageExplained` (a page that
  blames the session has a cause in what happened to this very login since it was begun),
  `ImplementsOneTimeLogins`.
- `authorization_request`: `URLIsAsAsked` (the protocol's parameters are there once each, as
  configuration, scopes and session have them, and of any other parameter what request,
  configuration or endpoint says, in this order), `OnlyItsOwnCallback` (a session passes the checks
  of `Complete` with the callback of its own URL only, its verifier proves its own challenge
  only), `BeginReturns`, `ImplementsAtomicBegin`. Its `TypeOK` also says that the source stands still while it is read.
- `manager`: `RegistryConsistent` (no name is canonical and an alias, every alias leads to a
  registered provider), `OneClaimEach`, `ImplementsWriteOnceNames`.
- `bounded_body`: `VerdictExact` (for both readers, and at the token reader's own cap), `WireBounded`, `ReadingEnds`; its type invariant is
  `BodyTypeOK`.
- `fake_provider`: `ImplementsAtomicProvider`; its `TypeOK` also says that a writer excludes
  readers.
- `server_lifecycle`: `ServesAsConfigured` (the process serves if file and environment allow it, with
  the providers and the kind of cookies they say, and fails if they do not), `CleanExitIsClean`, `CutOffIsReported`, `StopsWhenAsked`.
- `error_chain`: `CodeIsMatched`, `CategoriesKept`.

### Bounds, and why they are enough

- Two goroutines suffice for a race between two locked sections; all conflicts in
  the store and the registry are pairwise (one entry, one name). Two identifiers for two
  sessions make collisions frequent, where the code's 256-bit identifiers make
  them all but impossible; four attempts are the code's own number, so giving up occurs.
- `MaxTime` 3 with TTL 2 lets an entry expire while another goroutine holds an old clock
  value, and one be renewed after it. `LoginFlow` needs one passage of the TTL: a login begun before
  it expires, one begun after it must not be excused by it.
- `oauth_provider` runs one call: calls share nothing that changes, and the theorems
  are about any number of them.
- Two callbacks for two logins are one of each, or one and its reload, in the same browser or in
  two: all conflicts here are between two callbacks. One restart separates "before" from
  "after". The theorems are about any number of callbacks, browsers and restarts and any TTL.
- `BoundedBody` has limits on both sides of the buffer size and of `TokenCap`, and bodies
  longer than the largest limit by more than one byte.
- `authorization_request`: two calls are enough to overlap in the source. The configurations
  combine an endpoint's query, reusable parameters and PKCE in every way, and differ from a good
  one in each place a check looks at; requests and bundled options do likewise.
- The environments and files of `server_lifecycle` are complete, incomplete or contradictory alone and
  together: a blank that is inherited, two declarations, a value that cannot be set, a malformed
  line after good ones, half a certificate. `Configured` proves the property for all others.
- Two connections let one be busy while another is idle, closed or not yet accepted.
- Two kinds of operations are enough to tear a count or a reset, two results and errors to tear
  a pair; the kinds never touch each other's fields but in those two.
- Six links nest two double wrappings around a root.

### Fairness

- `SessionStore`: weak fairness of what a goroutine inside a call does next. The mutex is
  held for a few instructions and always released, so nothing blocks a call. Nobody has
  to make a call, and time need not pass.
- `OAuthProvider`: weak fairness of each call's own code, including the HTTP client's
  timer, which exists when the client has a timeout (`HasTimeout`; the default
  client's is set in `config.go`). Servers, callers and cancellation owe nothing. With
  an application's client without a timeout `CallsReturn` is not claimed. A `UserLoader` of an
  application is assumed to return: it gets the call's context and nothing else ends it.
- `BoundedBody`: weak fairness of the reading: a body is delivered, ends or fails, which
  again is due to the client's timeout.
- `ServerLifecycle`: weak fairness of the goroutine, of `run`'s own steps and of the five-second
  timer; `Shutdown` looks at the connections again and again, and gives up when its context is over
  and a busy one is left. Handlers and clients owe nothing: a handler may wait for a provider, 15 seconds for
  each of two or three requests, far beyond the grace.
- `AuthorizationRequest`: weak fairness of what a call does next. The random source answers or
  fails, and Go's mutex does not starve a waiting goroutine; as every call draws at most
  twice, weak fairness says no more than that.
- `ServerProcess`: weak fairness of `run`'s own steps before it serves, and what `ServerLifecycle`
  assumes, from then on.
- `LoginFlow`, `Manager`, `FakeProvider` and `ErrorChain` claim no liveness and assume no fairness.

Deadlock is checked where a caller can always call again: `session_store`, `manager`, `fake_provider`.
In the others the system really stops (a returned call, a read body, all logins and
callbacks used up, every call of `Begin` made, a process that has ended, a chain at its bound), so their configurations turn it off.

## 4. What is proved

| Module | Theorems |
|---|---|
| `SessionStoreProofs` | `Typing`, `AtMostOnce`, `SingleOwner`, `DeadlinesNear`, `PurgeExact`, `StoreRefines` |
| `OAuthProviderProofs` | `Typing`, `NoSuccessAfterCancel`, `CancelBlamed`, `CheckedBeforeSent`, `OversizeIsReported`, `EmailNeverFails`, `OperationsRefine`; of `BoundedBody`: `BodyTyping`, `ExactVerdict`, `BoundedReading` |
| `AuthorizationRequestProofs` | `Typing`, `SaysWhatWasAsked`, `OwnCallback`, `BeginRefines`, `BundledRefusals`, `BundledOwnCallback` |
| `ManagerProofs` | `Typing`, `Consistent`, `OneWinner`, `ListedStays`, `Stability`, `RegistryRefines` |
| `FakeProviderProofs` | `Typing`, `ProviderRefines` |
| `ServerLifecycleProofs` | `ProcessIsServer`, `Typing`, `CleanExit`, `CutOffReported`, `Configured` |
| `LoginFlowProofs` | `Typing`, `OwnLogin`, `PostedOnce`, `Spent`, `PagesExplained`, `LoginsRefine` |
| `ErrorChainProofs` | `Typing`, `CodeAgrees`, `WrappingKeeps`, `CodeFollowsWraps`, `CodeIsFound` |

Each rests on `Invariant`, `Spec => []IInv` (in `ErrorChainProofs` on `Typing`, in
`ServerLifecycleProofs` about `ProcessSpec`, and of `BoundedBody` on `BodyInvariant`), proved
action by action; only `BundledRefusals`, which is about operators, needs none. The assumptions
are those the modules name: constants have the types their comments give, `TTL` and
`MaxAttempts` are positive, "nobody" and "empty" are not values. Of the size of sets one
thing is assumed, that finitely many goroutines call `Begin`, because `TypeOK` counts what
they draw. Nothing is assumed of the clock, or of the order of steps.

Why the invariants have to be stronger than what they are for:

- Store: `RedeemedAtMostOnce` alone is not inductive, because a consume that is about to
  redeem could be holding a session redeemed already. `OneOwner` excludes it: whoever
  holds a session is its only holder, and a redeemed session has none. `StoreRefines`
  then needs `ExpiryBounded`, for the deadline that `Issue` may set, and `UniqueIds`;
  `PurgeExact` needs `ExpiryBounded` for a create that purges with an old clock value. The
  refinement's
  lemmas restate the mapping as one fact about each session (`View`), so that each
  action's step is compared with an abstract action by what it does to one status.
- Provider operations: `CallInv` records, for each position of a call, which replies and
  loader errors are possible there, and that a live context has not been cancelled. The
  invariant is a conjunction over calls; a step of one leaves the others' conjuncts alone
  (`Others`). `OperationsRefine` needs besides what a call has come past (`PathsInv`): beyond its
  validation its request was not refused and a login's code has been sent, and a bundled
  loader's error is one of four.
- `Begin`: `OnlyItsOwnCallback` is about values drawn at different times by calls that know nothing of
  each other. It needs that the positions they hold lie behind the source's and are
  different, state from verifier and call from call (`Fresh`); that needs a source that
  stands still while it is read, by one call at a time (`OneReader`, and in `TypeOK`
  `reading[c] = next`). What a call's position says of the values it has drawn is
  `CallInv`. That the source is read twice at most for each call is not inductive as a bound on
  `next`: `Counted` compares it with the number of calls past each draw.
  `BeginRefines` needs both once more: a draw moves nothing a caller sees (`Underway`), a return answers
  the call (`ReturnAnswers`), and the values it returns are in no session returned before,
  because of `Fresh` (`ReturnedAreOthers`). `URLIsAsAsked` rests
  on lemmas about the operators: no map that passed the check can name a parameter of the
  protocol in any spelling (`NoProtocolName`), the library appends nothing but such
  parameters (`NothingAppended`), and the three layers of other parameters are searched in
  the order in which they are applied (`NearestFirst`, `URLParts`). It is itself a conjunct of
  the invariant, as the URL of a call that returned has to stay what it was.
- Bundled providers: `BundledRefusals` compares the four constructors with `New` for all options:
  none of the endpoints, parameters and loaders they fill in is ever the reason for a refusal.
  `BundledOwnCallback` is `OwnCallback` without its exceptions, for the configurations those constructors
  make: no endpoint with a fragment, and PKCE always.
- Registry: that an alias's target is registered and is not an alias itself, that blank
  names are in neither map, and that a pending registration has a provider and a name.
- Body: `remaining + body = limit` and `quota + body` constant while reading. The two
  countdowns and the collected length are one number in three places. No bound on
  `MaxInt` is assumed but that it exceeds 1: that limits stop at `MaxInt - 1`, as
  `config.go` has it, is what makes `Inc` exact everywhere it is used (`IncExact`).
- Fake provider: who is inside the lock, and, for each call inside, how its reads and writes so
  far differ from `published`. A writer is alone inside (`Alone`), a reader sees published
  fields only (`Reading`), so a step of one call keeps what is said of the others.
- Server: what `run`'s position says of the others. After a successful `Shutdown` nothing is busy
  and nothing can become busy, because the listener is closed and no connection is left;
  a broken listener's error stays in the channel until `run` reads it or gives up.
- Process: while the file is gone through, every variable is absent or already what it will be
  (`HalfLoaded`), and absent only if its declaration is still to come or there is none. So
  whatever order was taken, the environment afterwards is `Effective`, and each provider that
  has been gone through is whole or not there (`Settled`). `ProcessIsServer` then carries
  what is proved of the server over to the process.
- Login flow: `CodePostedOnce` needs to know, of a code that was sent, that its session is
  redeemed and that no callback is still on its way to send it (`FlowInv`), of each
  callback, what the session it holds has become (`RequestInv`), and that no two hold the same
  one (`OneHolder`). For `SessionPageExplained` the invariant says of each login that its browser still has
  its cookie and the store its entry, or that there is a cause (`Gone`: a callback has brought its
  session, its time is over, or it was disturbed), and of each callback that it carries its own login's
  cookie or the same holds (`Explained`). It needs that neither the entry's deadline nor the
  cookie's `until` comes before `begun + TTL`. That the causes never go away again is a lemma
  about all steps (`CausesStay`).
  `LoginsRefine` follows from the same invariant: the callback that holds a session says
  the stage of its login (`StageView`, by `OneHolder`), a handler moves the login of its cookie only
  (`HandlerMovesOne`) and by one stage (`HandleRefines`), an insert with its purge opens one
  login and ends others (`HandleBeginRefines`), a restart ends all that are under way
  (`RestartRefines`), and every other step changes no stage.

Every invariant and every refinement that a run checks is proved, and every action property.
Only model-checked is liveness (`CallsReturn` of both modules, `ReadingEnds`, `StopsWhenAsked`,
`BeginReturns`), which is beyond the prover, and the three findings below, which are about
single behaviours. Three properties are proved and are not part of a run, because a refinement that is
part of one says what they say: `PresentedIsSpent` (theorem `Spent`) with `ImplementsOneTimeLogins`,
`CancellationIsTransport` (`CancelBlamed`) with `ImplementsCallOutcomes`, and `ResolutionStable`
(`Stability`) with `ImplementsWriteOnceNames`.

What `CodeOf` makes of a chain is a statement about all chains that wrapping can build, and
an induction over their length is beyond the prover. `CodeFollowsWraps` says the same
step by step: what the code is after each way of wrapping, given what it was before.

## 5. Findings

1. `CHANGELOG.md:28` says that token endpoint network failures are classified as transport
   errors. `tokenOperationError` finds those that fail the request. A connection lost
   while the body is read comes out of `golang.org/x/oauth2` as an error made of text, and
   the operation reports `token_exchange_failed` (run `token_network_failure`).
2. `errors.go:156` says `IsErrorCode` reports whether a chain *contains* the category. It
   compares with the first package error's only, while `errors.Is` finds the inner
   ones too (run `category_contained`).
3. `CHANGELOG.md:30` says that streamed oversized token responses are reported with the
   response-size category. `tokenOperationError` finds the size limit's error where there is one.
   But `golang.org/x/oauth2` reads 1 MiB of a token body and no more, and that is also the default
   `MaxResponseSize` (`config.go:20`): with this limit or a larger one the byte that is too many is
   never asked for. The operation then reports `token_exchange_failed` or
   `token_refresh_failed`, or accepts the token when only padding was cut off (run `streamed_token`;
   `VerdictExact` says exactly when, with `LooksPastLimit`).

Another one has no run of its own, as no interleaving is needed to see it: `errors.go:12` says that
`ErrorCodeUnknown` identifies a zero-value package error, but `Code` returns the field as it is
(`errors.go:120-125`), and the field of a zero value is the empty string.

A remark without a run: `New` accepts an authorization endpoint with a fragment (its check parses
the URL as a request URI, which has none), and the query that `Begin` appends then becomes part of the
fragment. RFC 6749 forbids such endpoints; `AuthCodeURL` models what happens, and `Accepted`
leaves them out of the properties.

## 6. What is not modelled, and why

- Field mappings of the bundled providers (`user.go` of each, but for GitHub's loader, which
  makes requests), token normalisation and redaction: pure copies and formatting.
- `Clone` and the copies of results in `model.go` and `testkit`: values of a model are never shared, so
  what they guard against cannot be expressed there. The copies `New` makes are
  different: the application that keeps and changes the originals is in
  `AuthorizationRequest`.
- The clock behind `CreatedAt` and its mutex: no code reads that field. The error path of
  `url.Parse` in `Begin`: the endpoint has been parsed in `New`, and what is appended to it is encoded.
- How quotes, comments and `export` spell a line of the environment file: a line is a declaration,
  a comment or malformed. The listen address is passed on as it is.
- The second attempt of `golang.org/x/oauth2` with the other way of sending client
  credentials: the bundled providers fix `AuthStyle`, so one post per exchange is made.
- Requests beyond the first of an application's own loader: such a loader may return anything
  at any time in the model, which covers what it can make of them.
