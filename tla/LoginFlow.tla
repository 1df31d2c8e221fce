------------------------------ MODULE LoginFlow ------------------------------
(***************************************************************************)
(* A login as the net/http example runs it (examples/nethttp/app.go): a    *)
(* browser with one session cookie and any number of tabs, the handlers of *)
(* the application, its session store, the provider's Complete and the     *)
(* authorization server.  Responses reach the browser when they like, a    *)
(* callback may be sent again or opened in another browser, the process    *)
(* may restart, with other providers configured.                           *)
(*                                                                         *)
(* The store is OneTimeSessions, which SessionStore is shown to implement; *)
(* the checks on a callback are those of CallbackRules.  Identifiers,      *)
(* states, verifiers and codes are fresh 256-bit values or the server's    *)
(* own, so each is named by the flow it was made for.                      *)
(***************************************************************************)
EXTENDS Integers

CONSTANTS Browsers, Providers,
          Flows,      \* logins that can be begun, one Begin each
          Requests,   \* callback requests: bounds the reloads
          None,       \* no flow: an absent cookie or parameter
          TTL,        \* the store's
          MaxTime,    \* bound of the exploration: the clock's last value
          MaxRestarts \* bound of the exploration

ASSUME NoneAssumption == None \notin Flows
ASSUME BoundsAssumption == TTL \in Nat \ {0} /\ MaxTime \in Nat /\ MaxRestarts \in Nat

VARIABLES
  status, deadline, time,   \* the session store (see OneTimeSessions)
  pkce,       \* the providers' capability, fixed by New
  registered, \* the providers of the running process
  flow,       \* each login: its browser, provider, progress and when it was begun
  cookie,     \* each browser's session cookie: a flow or None
  until,      \* when that cookie's Max-Age is over
  code,       \* the server's view of the code it issued for a flow
  req,        \* callback requests and their handlers
  restarts,   \* how often the process restarted
  posts,      \* history: token requests per code
  disturbed   \* history: logins whose cookie was overwritten by another login's, or
              \* deleted by the answer to another's callback, or that met a restart

store == <<status, deadline, time>>
jar == <<cookie, until>>
process == <<pkce, registered, restarts>>
vars == <<store, process, jar, flow, code, req, posts, disturbed>>

Store == INSTANCE OneTimeSessions WITH Sessions <- Flows
Rules == INSTANCE CallbackRules WITH Empty <- None

Steps == {"none", "beginning", "issued", "at_provider", "code", "denied", "failed"}
PCs == {"unused", "sent", "consumed", "complete", "exchange", "load", "responded",
        "received", "lost"}
Outcomes == {"none", "not_found", "missing", "invalid", "denied", "rejected", "failed",
             "success"}

FlowRecords == [step: Steps, browser: Browsers \union {None},
                provider: Providers \union {None}, begun: Nat]
RequestRecords == [pc: PCs, flow: Flows \union {None}, browser: Browsers \union {None},
                   cookie: Flows \union {None}, outcome: Outcomes]

NoFlow == [step |-> "none", browser |-> None, provider |-> None, begun |-> 0]
NoRequest == [pc |-> "unused", flow |-> None, browser |-> None, cookie |-> None,
              outcome |-> "none"]

TypeOK ==
  /\ Store!TypeOK
  /\ pkce \in BOOLEAN
  /\ registered \in SUBSET Providers
  /\ flow \in [Flows -> FlowRecords]
  /\ cookie \in [Browsers -> Flows \union {None}]
  /\ until \in [Browsers -> Nat]
  /\ code \in [Flows -> {"none", "issued", "used"}]
  /\ req \in [Requests -> RequestRecords]
  /\ restarts \in Nat
  /\ posts \in [Flows -> Nat]
  /\ disturbed \in SUBSET Flows

Init ==
  /\ Store!Init
  /\ pkce \in BOOLEAN
  /\ registered = Providers
  /\ flow = [f \in Flows |-> NoFlow]
  /\ cookie = [b \in Browsers |-> None]
  /\ until = [b \in Browsers |-> 0]
  /\ code = [f \in Flows |-> "none"]
  /\ req = [r \in Requests |-> NoRequest]
  /\ restarts = 0
  /\ posts = [f \in Flows |-> 0]
  /\ disturbed = {}

-----------------------------------------------------------------------------
(* GET /auth/{provider}. *)

Click(f, b, p) ==
  /\ flow[f].step = "none"
  /\ flow' = [flow EXCEPT ![f] = [NoFlow EXCEPT !.step = "beginning", !.browser = b,
                                               !.provider = p]]
  /\ UNCHANGED <<store, process, jar, code, req, posts, disturbed>>

To(f, step) == flow' = [flow EXCEPT ![f].step = step]

\* A slip: the entry expires when it is made.
HandleBeginNoTTL(f) ==
  /\ flow[f].step = "beginning" /\ flow[f].provider \in registered
  /\ \E dropped \in SUBSET Store!Overdue : Store!Issue(f, time, dropped)
  /\ flow' = [flow EXCEPT ![f] = [@ EXCEPT !.step = "issued", !.begun = time]]
  /\ UNCHANGED <<process, jar, code, req, posts, disturbed>>

\* handleBegin: Begin and sessions.create succeed; the redirect carries the cookie.
HandleBegin(f) ==
  /\ flow[f].step = "beginning" /\ flow[f].provider \in registered
  /\ \E dropped \in SUBSET Store!Overdue : Store!Issue(f, time + TTL, dropped)
  /\ flow' = [flow EXCEPT ![f] = [@ EXCEPT !.step = "issued", !.begun = time]]
  /\ UNCHANGED <<process, jar, code, req, posts, disturbed>>

\* The provider is unknown, or one of them fails: an error page, and no cookie.
HandleBeginFails(f) ==
  /\ flow[f].step = "beginning"
  /\ To(f, "failed")
  /\ UNCHANGED <<store, process, jar, code, req, posts, disturbed>>

\* The browser takes the cookie, over the one it has, and follows the redirect.
FollowRedirect(f) ==
  LET b == flow[f].browser IN
  /\ flow[f].step = "issued"
  /\ cookie' = [cookie EXCEPT ![b] = f]
  /\ until' = [until EXCEPT ![b] = time + TTL]
  /\ disturbed' = disturbed \union ({cookie[b]} \ {None})
  /\ To(f, "at_provider")
  /\ UNCHANGED <<store, process, code, req, posts>>

ForgetCookie(b) ==
  /\ cookie' = [cookie EXCEPT ![b] = None]
  /\ until' = [until EXCEPT ![b] = 0]

\* The browser drops the cookie when its Max-Age, the TTL, is over.
CookieExpires(b) ==
  /\ cookie[b] # None /\ time >= until[b]
  /\ ForgetCookie(b)
  /\ UNCHANGED <<store, process, flow, code, req, posts, disturbed>>

\* The user decides; the server redirects to the callback with the state it got.
Authorize(f) ==
  /\ flow[f].step = "at_provider"
  /\ \/ To(f, "code") /\ code' = [code EXCEPT ![f] = "issued"]
     \/ To(f, "denied") /\ UNCHANGED code
  /\ UNCHANGED <<store, process, jar, req, posts, disturbed>>

-----------------------------------------------------------------------------
(* GET /auth/{provider}/callback. *)

\* The tab requests the callback, for the first time or again, or its address is
\* opened in another browser; it brings the cookie that browser has at that moment.
SendCallback(r, f, b) ==
  /\ req[r].pc = "unused"
  /\ flow[f].step \in {"code", "denied"}
  /\ req' = [req EXCEPT ![r] = [pc |-> "sent", flow |-> f, browser |-> b,
                                outcome |-> "none", cookie |-> cookie[b]]]
  /\ UNCHANGED <<store, process, jar, flow, code, posts, disturbed>>

At(r, pc) == req[r].pc = pc
Advance(r, pc) == req' = [req EXCEPT ![r].pc = pc]
Respond(r, outcome) == req' = [req EXCEPT ![r].pc = "responded", ![r].outcome = outcome]

Callback(r) == [error |-> flow[req[r].flow].step = "denied",
                code |-> IF flow[req[r].flow].step = "code" THEN req[r].flow ELSE None,
                state |-> req[r].flow]

\* A slip: the session forgets that its state has to be verified.
SessionUnverified(r) == [state |-> req[r].cookie, disabled |-> TRUE,
                         verifier |-> IF pkce THEN req[r].cookie ELSE None]

Session(r) == [state |-> req[r].cookie, disabled |-> FALSE,
               verifier |-> IF pkce THEN req[r].cookie ELSE None]

\* The provider of this path, which names the login's own.
Known(r) == flow[req[r].flow].provider \in registered

\* The cookie is neither read nor deleted.
ProviderUnknown(r) ==
  /\ At(r, "sent") /\ ~Known(r)
  /\ Respond(r, "not_found")
  /\ UNCHANGED <<store, process, jar, flow, code, posts, disturbed>>

CookieMissing(r) ==
  /\ At(r, "sent") /\ Known(r) /\ req[r].cookie = None
  /\ Respond(r, "missing")
  /\ UNCHANGED <<store, process, jar, flow, code, posts, disturbed>>

\* sessions.consume, the locked part: nothing there, or it is taken.
ConsumeNothing(r) ==
  /\ At(r, "sent") /\ Known(r)
  /\ req[r].cookie # None /\ status[req[r].cookie] # "live"
  /\ Respond(r, "invalid")
  /\ UNCHANGED <<store, process, jar, flow, code, posts, disturbed>>

Consume(r) ==
  /\ At(r, "sent") /\ Known(r) /\ req[r].cookie # None
  /\ Store!Present(req[r].cookie)
  /\ Advance(r, "consumed")
  /\ UNCHANGED <<process, jar, flow, code, posts, disturbed>>

\* ... and the checks after it: in time, and for the provider of this path.
InTime(r) == time < deadline[req[r].cookie]
SameProvider(r) == flow[req[r].cookie].provider = flow[req[r].flow].provider

\* A slip: a session that was shown at the wrong path is put back.
ConsumePutsBack(r) ==
  /\ At(r, "consumed") /\ ~(InTime(r) /\ SameProvider(r))
  /\ status' = [status EXCEPT ![req[r].cookie] = "live"]
  /\ UNCHANGED <<deadline, time>>
  /\ Respond(r, "invalid")
  /\ UNCHANGED <<process, jar, flow, code, posts, disturbed>>

ConsumeRejects(r) ==
  /\ At(r, "consumed") /\ ~(InTime(r) /\ SameProvider(r))
  /\ Store!Reject(req[r].cookie)
  /\ Respond(r, "invalid")
  /\ UNCHANGED <<process, jar, flow, code, posts, disturbed>>

\* A slip: a good session is kept for a reload.
ConsumeKeeps(r) ==
  /\ At(r, "consumed") /\ SameProvider(r) /\ InTime(r)
  /\ status' = [status EXCEPT ![req[r].cookie] = "live"]
  /\ UNCHANGED <<deadline, time>>
  /\ Advance(r, "complete")
  /\ UNCHANGED <<process, jar, flow, code, posts, disturbed>>

ConsumeReturns(r) ==
  /\ At(r, "consumed") /\ SameProvider(r)
  /\ Store!Redeem(req[r].cookie)
  /\ Advance(r, "complete")
  /\ UNCHANGED <<process, jar, flow, code, posts, disturbed>>

\* A slip: the category itself is shown.
PageOfCategory(verdict) == verdict

\* Complete's checks, and what handleCallback makes of a refusal.
Page(verdict) == IF verdict = "authorization_denied" THEN "denied" ELSE "rejected"

Complete(r) ==
  LET verdict == Rules!Verdict(pkce, Callback(r), Session(r)) IN
  /\ At(r, "complete")
  /\ \/ /\ verdict # "ok"
        /\ Respond(r, Page(verdict))
        /\ UNCHANGED posts
     \/ /\ verdict = "ok"
        /\ Advance(r, "exchange")
        /\ posts' = [posts EXCEPT ![Callback(r).code] = @ + 1]
  /\ UNCHANGED <<store, process, jar, flow, code, disturbed>>

\* The token endpoint takes a code once, with the verifier of its challenge.
Exchange(r) ==
  /\ At(r, "exchange")
  /\ code[req[r].flow] = "issued"
  /\ pkce => Session(r).verifier = req[r].flow
  /\ code' = [code EXCEPT ![req[r].flow] = "used"]
  /\ Advance(r, "load")
  /\ UNCHANGED <<store, process, jar, flow, posts, disturbed>>

\* It refuses, or it cannot be reached, or its answer is lost after it took
\* the code.
ExchangeFails(r) ==
  /\ At(r, "exchange")
  /\ \/ UNCHANGED code
     \/ /\ code[req[r].flow] = "issued"
        /\ code' = [code EXCEPT ![req[r].flow] = "used"]
  /\ Respond(r, "failed")
  /\ UNCHANGED <<store, process, jar, flow, posts, disturbed>>

Load(r) ==
  /\ At(r, "load")
  /\ Respond(r, "success") \/ Respond(r, "failed")
  /\ UNCHANGED <<store, process, jar, flow, code, posts, disturbed>>

\* The browser takes the response; those that come after consume delete the cookie,
\* whichever flow it is of by now.
Receive(r) ==
  LET b == req[r].browser IN
  /\ At(r, "responded")
  /\ Advance(r, "received")
  /\ \/ /\ req[r].outcome \in {"not_found", "missing"}
        /\ UNCHANGED <<jar, disturbed>>
     \/ /\ req[r].outcome \notin {"not_found", "missing"}
        /\ ForgetCookie(b)
        /\ disturbed' = disturbed \union ({cookie[b]} \ {None, req[r].cookie})
  /\ UNCHANGED <<store, process, flow, code, posts>>

-----------------------------------------------------------------------------
Handling(r) == req[r].pc \in {"sent", "consumed", "complete", "exchange", "load"}

InBrowser == {"issued", "at_provider", "code", "denied"}

\* The process dies and comes back: the map and the running handlers are gone, and the
\* environment may name other providers.
Restart ==
  /\ restarts < MaxRestarts
  /\ restarts' = restarts + 1
  /\ registered' \in SUBSET Providers \ {{}}
  /\ status' = [f \in Flows |-> IF status[f] \in {"live", "presented"} THEN "void"
                                ELSE status[f]]
  /\ deadline' = [f \in Flows |-> IF status[f] \in {"live", "presented"} THEN 0
                                  ELSE deadline[f]]
  /\ req' = [r \in Requests |-> IF Handling(r) THEN [req[r] EXCEPT !.pc = "lost"]
                                ELSE req[r]]
  /\ flow' = [f \in Flows |-> IF flow[f].step = "beginning"
                              THEN [flow[f] EXCEPT !.step = "failed"] ELSE flow[f]]
  /\ disturbed' = disturbed \union {f \in Flows : flow[f].step \in InBrowser}
  /\ UNCHANGED <<time, pkce, jar, code, posts>>

Tick ==
  /\ time < MaxTime
  /\ Store!Tick
  /\ UNCHANGED <<process, jar, flow, code, req, posts, disturbed>>

Handle(r) ==
  \/ ProviderUnknown(r) \/ CookieMissing(r) \/ ConsumeNothing(r) \/ Consume(r)
  \/ ConsumeRejects(r) \/ ConsumeReturns(r)
  \/ Complete(r) \/ Exchange(r) \/ ExchangeFails(r) \/ Load(r)

Browse(f) ==
  \/ \E b \in Browsers, p \in Providers : Click(f, b, p)
  \/ FollowRedirect(f)
  \/ Authorize(f)
  \/ \E r \in Requests, b \in Browsers : SendCallback(r, f, b)

Next ==
  \/ Tick
  \/ Restart
  \/ \E b \in Browsers : CookieExpires(b)
  \/ \E f \in Flows : Browse(f) \/ HandleBegin(f) \/ HandleBeginFails(f)
  \/ \E r \in Requests : Handle(r) \/ Receive(r)

Spec == Init /\ [][Next]_vars

-----------------------------------------------------------------------------
(* Properties *)

\* A success page is the end of the login that this browser began and this
\* callback belongs to: same session, same state, same code, however cookies,
\* tabs and reloads were mixed; and each login has one such page at most.
SuccessIsOwnLogin ==
  \A r \in Requests : req[r].outcome = "success" =>
    /\ req[r].cookie = req[r].flow
    /\ req[r].browser = flow[req[r].flow].browser
    /\ status[req[r].flow] = "redeemed"
    /\ code[req[r].flow] = "used"
    /\ \A q \in Requests : req[q].outcome = "success" /\ req[q].flow = req[r].flow => q = r

\* No reload, second tab or restart makes the application send a code again.
CodePostedOnce == \A f \in Flows : posts[f] <= 1

\* A cookie that has reached consume is spent: whatever the callback's outcome,
\* its session can no longer be taken (TestAuthenticationFlowAndReplay and
\* README.md, "consume them exactly once").
Reached(r) ==
  req[r].pc \notin {"unused", "sent"} /\ req[r].cookie # None /\ req[r].outcome # "not_found"
PresentedIsSpent ==
  \A r \in Requests : Reached(r) /\ req[r].pc # "lost" => status[req[r].cookie] # "live"

\* A callback page that blames the session is due to something that happened to this
\* very login: its callback was opened in another browser, another callback took its
\* session first, its own time to live is over, or it was disturbed. A login of which
\* nothing of this is true never ends that way, however many logins, callbacks, expiries
\* and restarts there were before it or beside it.
Disturbed(r) ==
  LET f == req[r].flow IN
  \/ req[r].browser # flow[f].browser
  \/ \E q \in Requests \ {r} : req[q].cookie = f /\ Reached(q)
  \/ time >= flow[f].begun + TTL
  \/ f \in disturbed
SessionPageExplained ==
  \A r \in Requests : req[r].outcome \in {"missing", "invalid", "rejected"} => Disturbed(r)

\* How far a login has come: what the store has of it, or what was made of it since.
Stage(f) ==
  CASE status[f] = "fresh" -> "new"
    [] status[f] = "live" -> "open"
    [] status[f] = "presented" -> "taken"
    [] status[f] = "void" -> "over"
    [] status[f] = "redeemed" ->
         IF \E r \in Requests : req[r].cookie = f /\ req[r].pc = "complete" THEN "checked"
         ELSE IF \E r \in Requests : req[r].flow = f /\ req[r].pc \in {"exchange", "load"}
           THEN "sent"
         ELSE IF \E r \in Requests : req[r].flow = f /\ req[r].outcome = "success"
           THEN "won"
         ELSE "over"

Abstract == INSTANCE OneTimeLogins WITH
  Logins <- Flows,
  stage <- [f \in Flows |-> Stage(f)]

\* A login is opened, taken, checked, sent and won, in this order and once, and once it is
\* over it stays so: no tab, reload, late response, purge or restart opens a session again,
\* sends its code again or gets a page out of it (app.go:125-167, README.md, "consume
\* them exactly once").
ImplementsOneTimeLogins == Abstract!Spec
=============================================================================
