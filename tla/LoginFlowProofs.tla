---------------------------- MODULE LoginFlowProofs ----------------------------
(* The login flow for any number of browsers, logins, callbacks, restarts   *)
(* and any time to live.                                                    *)
EXTENDS LoginFlow, TLAPS

-----------------------------------------------------------------------------
(* The inductive invariant, one part per kind of object. *)

AtServer(f) == flow[f].step \in {"at_provider", "code", "denied"}
Answered(f) == flow[f].step \in {"code", "denied"}
Stored(f) == flow[f].step = "issued" \/ AtServer(f)

\* A login: its entry exists before its cookie does, its code after the user
\* decided, and a code that was sent belongs to a session redeemed and gone on.
FlowInv(f) ==
  /\ flow[f].step # "none" => flow[f].browser \in Browsers
  /\ Stored(f) => status[f] # "fresh"
  /\ flow[f].step \in {"none", "beginning", "issued", "at_provider"} => code[f] = "none"
  /\ status[f] \in {"live", "presented"} => deadline[f] >= flow[f].begun + TTL
  /\ flow[f].begun <= time
  /\ posts[f] > 0 => /\ status[f] = "redeemed"
                     /\ \A r \in Requests : req[r].cookie = f => req[r].pc # "complete"

\* A browser holds the cookie of a login of its own, and for that login's time to live.
CookieInv(b) ==
  cookie[b] # None => /\ AtServer(cookie[b]) /\ flow[cookie[b]].browser = b
                      /\ until[b] >= flow[cookie[b]].begun + TTL

\* A callback: what its position says of the session it holds.
Redeemer(r) == req[r].pc \in {"complete", "exchange", "load"} \/ req[r].outcome = "success"
Sender(r) == req[r].pc \in {"exchange", "load"} \/ req[r].outcome = "success"
RequestInv(r) ==
  /\ req[r].pc = "unused" => req[r].flow = None /\ req[r].cookie = None
  /\ req[r].pc # "unused" => /\ req[r].flow \in Flows /\ Answered(req[r].flow)
                             /\ req[r].browser \in Browsers
  /\ req[r].outcome # "none" => req[r].pc \in {"responded", "received"}
  /\ req[r].cookie # None => /\ AtServer(req[r].cookie)
                             /\ flow[req[r].cookie].browser = req[r].browser
  /\ Reached(r) => status[req[r].cookie] # "live"
  /\ req[r].pc = "consumed" => req[r].cookie # None /\ status[req[r].cookie] = "presented"
  /\ Redeemer(r) => req[r].cookie # None /\ status[req[r].cookie] = "redeemed"
  /\ Sender(r) => req[r].cookie = req[r].flow
  /\ req[r].pc = "load" \/ req[r].outcome = "success" => code[req[r].flow] = "used"

\* A session is in the hands of one callback at most.
Holds(r) == req[r].pc = "consumed" \/ Redeemer(r)
OneHolder ==
  \A q, r \in Requests : Holds(q) /\ Holds(r) /\ req[q].cookie = req[r].cookie => q = r

\* Why a browser can be without its login's cookie, and the store without its entry.
Gone(f) ==
  \/ \E q \in Requests : req[q].cookie = f /\ Reached(q)
  \/ time >= flow[f].begun + TTL
  \/ f \in disturbed

Safe ==
  /\ TypeOK
  /\ CodePostedOnce
  /\ \A f \in Flows : FlowInv(f)
  /\ \A b \in Browsers : CookieInv(b)
  /\ \A r \in Requests : RequestInv(r)
  /\ OneHolder

Explained ==
  /\ \A f \in Flows : AtServer(f) => cookie[flow[f].browser] = f \/ Gone(f)
  /\ \A f \in Flows : Stored(f) => status[f] = "live" \/ Gone(f)
  /\ \A r \in Requests : req[r].pc # "unused" => req[r].cookie = req[r].flow \/ Disturbed(r)

IInv == Safe /\ Explained /\ SessionPageExplained

-----------------------------------------------------------------------------
(* What every step leaves as it is, or moves one way only. *)

Monotone ==
  /\ \A f \in Flows : flow[f].step # "none" =>
       flow'[f].browser = flow[f].browser /\ flow'[f].provider = flow[f].provider
  /\ \A f \in Flows : AtServer(f) => AtServer(f)'
  /\ \A f \in Flows : Stored(f) => flow'[f].begun = flow[f].begun
  /\ \A f \in Flows : Answered(f) => flow'[f] = flow[f]
  /\ \A r \in Requests : req[r].pc # "unused" =>
       /\ req'[r].pc # "unused" /\ req'[r].flow = req[r].flow
       /\ req'[r].cookie = req[r].cookie /\ req'[r].browser = req[r].browser
  /\ \A r \in Requests : Reached(r) => Reached(r)'
  /\ time \in Nat /\ time' \in Nat /\ time' >= time
  /\ disturbed \subseteq disturbed'

\* A handler moves its own request on, towards a response.
LEMMA HandlerMoves ==
  ASSUME TypeOK, NEW r \in Requests, Handle(r)
  PROVE  /\ UNCHANGED <<time, process, flow, jar, disturbed>>
         /\ req[r].pc \in {"sent", "consumed", "complete", "exchange", "load"}
         /\ req'[r].pc \in {"consumed", "complete", "exchange", "load", "responded"}
         /\ req'[r].flow = req[r].flow /\ req'[r].cookie = req[r].cookie
         /\ req'[r].browser = req[r].browser
         /\ req'[r].outcome # "not_found" \/ req[r].outcome = "not_found" \/ req[r].pc = "sent"
         /\ \A q \in Requests \ {r} : req'[q] = req[q]
  BY DEF TypeOK, RequestRecords, Handle, ProviderUnknown, CookieMissing, ConsumeNothing,
         Consume, ConsumeRejects, ConsumeReturns, Complete, Exchange, ExchangeFails, Load,
         At, Advance, Respond, Page, store, Store!Present, Store!Reject, Store!Redeem

LEMMA StepIsMonotone == ASSUME TypeOK, [Next]_vars PROVE Monotone
<1> USE DEF TypeOK, FlowRecords, RequestRecords, Store!TypeOK, Stored, AtServer, Answered,
            Reached, store, process, jar
<1>1. CASE UNCHANGED vars
  BY <1>1 DEF vars, Monotone
<1>2. CASE Tick
  BY <1>2 DEF Tick, Store!Tick, Monotone
<1>3. CASE Restart
  BY <1>3 DEF Restart, Handling, Monotone
<1>4. CASE \E b \in Browsers : CookieExpires(b)
  BY <1>4 DEF CookieExpires, Monotone
<1>5. ASSUME NEW f \in Flows, Browse(f) \/ HandleBegin(f) \/ HandleBeginFails(f)
      PROVE  Monotone
  <2>1. CASE \E b \in Browsers, p \in Providers : Click(f, b, p)
    BY <2>1 DEF Click, Monotone
  <2>2. ASSUME NEW step, To(f, step),
               \/ flow[f].step = "beginning" /\ step = "failed"
               \/ flow[f].step \in {"issued", "at_provider"}
                    /\ step \in {"at_provider", "code", "denied"},
               disturbed \subseteq disturbed', UNCHANGED <<time, req>>
        PROVE  Monotone
    BY <2>2 DEF To, Monotone
  <2>3. CASE \E r \in Requests, b \in Browsers : SendCallback(r, f, b)
    BY <2>3 DEF SendCallback, Monotone
  <2>4. CASE HandleBegin(f)
    BY <2>4 DEF HandleBegin, Store!Issue, Monotone
  <2>5. CASE HandleBeginFails(f)
    BY <2>2, <2>5 DEF HandleBeginFails
  <2> QED
    BY <1>5, <2>1, <2>2, <2>3, <2>4, <2>5 DEF Browse, FollowRedirect, Authorize
<1>6. ASSUME NEW r \in Requests, Handle(r) PROVE Monotone
  <2>1. /\ UNCHANGED <<time, process, flow, jar, disturbed>>
        /\ \A q \in Requests \ {r} : req'[q] = req[q]
    BY <1>6, HandlerMoves
  <2>2. \A q \in Requests : req[q].pc # "unused" =>
          /\ req'[q].pc # "unused" /\ req'[q].flow = req[q].flow
          /\ req'[q].cookie = req[q].cookie /\ req'[q].browser = req[q].browser
    BY <1>6, <2>1, HandlerMoves
  <2>3. \A q \in Requests : Reached(q) => Reached(q)'
    BY <1>6, <2>1, HandlerMoves
  <2> QED
    BY <2>1, <2>2, <2>3 DEF Monotone
<1>7. ASSUME NEW r \in Requests, Receive(r) PROVE Monotone
  BY <1>7 DEF Receive, At, Advance, Monotone
<1> QED
  BY <1>1, <1>2, <1>3, <1>4, <1>5, <1>6, <1>7 DEF Next

-----------------------------------------------------------------------------
(* The safe part, one lemma per action. *)

LEMMA InitSafe == Init => Safe
  BY NoneAssumption DEF Init, Store!Init, NoFlow, NoRequest, Safe, TypeOK, Store!TypeOK,
     FlowRecords, RequestRecords, Steps, PCs, Outcomes, CodePostedOnce, FlowInv, CookieInv,
     RequestInv, OneHolder, Stored, AtServer, Answered, Reached, Redeemer, Sender, Holds

LEMMA TickSafe == ASSUME Safe, Tick PROVE Safe'
  BY DEF Tick, Store!Tick, jar, process, Safe, TypeOK, FlowRecords, RequestRecords,
         Store!TypeOK, CodePostedOnce, FlowInv, CookieInv,
     RequestInv, OneHolder, Stored, AtServer, Answered, Reached, Redeemer, Sender, Holds

LEMMA CookieExpiresSafe ==
  ASSUME Safe, NEW b \in Browsers, CookieExpires(b) PROVE Safe'
  BY DEF CookieExpires, ForgetCookie, store, process, Safe, TypeOK, FlowRecords, RequestRecords,
     Store!TypeOK, CodePostedOnce, FlowInv, CookieInv,
     RequestInv, OneHolder, Stored, AtServer, Answered, Reached, Redeemer, Sender, Holds

(* What the handlers' moves leave well typed. *)

LEMMA StepTyped ==
  ASSUME TypeOK, NEW f \in Flows, NEW step \in Steps
  PROVE  [flow[f] EXCEPT !.step = step] \in FlowRecords
  BY DEF TypeOK, FlowRecords

LEMMA BegunTyped ==
  ASSUME TypeOK, NEW f \in Flows, NEW step \in Steps, NEW begun \in Nat
  PROVE  [flow[f] EXCEPT !.step = step, !.begun = begun] \in FlowRecords
  BY DEF TypeOK, FlowRecords

LEMMA ToTyped ==
  ASSUME TypeOK, NEW f \in Flows, NEW step \in Steps, To(f, step)
  PROVE  flow' \in [Flows -> FlowRecords]
  BY StepTyped DEF TypeOK, To

LEMMA AdvanceTyped ==
  ASSUME TypeOK, NEW r \in Requests, NEW p \in PCs, Advance(r, p)
  PROVE  req' \in [Requests -> RequestRecords]
  BY DEF TypeOK, Advance, RequestRecords

LEMMA LostTyped ==
  ASSUME TypeOK, NEW r \in Requests
  PROVE  [req[r] EXCEPT !.pc = "lost"] \in RequestRecords
<1>1. "lost" \in PCs
  BY DEF PCs
<1> QED
  BY <1>1 DEF TypeOK, RequestRecords

\* A handler that answers or moves on and leaves the rest alone.
LEMMA ResponseTyped ==
  ASSUME TypeOK, NEW r \in Requests, NEW outcome \in Outcomes, Respond(r, outcome)
  PROVE  req' \in [Requests -> RequestRecords]
<1>1. "responded" \in PCs
  BY DEF PCs
<1>2. [req[r] EXCEPT !.pc = "responded", !.outcome = outcome] \in RequestRecords
  BY <1>1 DEF TypeOK, RequestRecords
<1>3. req' = [req EXCEPT ![r] = [req[r] EXCEPT !.pc = "responded", !.outcome = outcome]]
  BY DEF Respond
<1> QED
  BY <1>2, <1>3 DEF TypeOK

LEMMA ClickSafe ==
  ASSUME Safe, NEW f \in Flows, NEW b \in Browsers, NEW p \in Providers, Click(f, b, p)
  PROVE  Safe'
<1> USE DEF Click, store, Safe, TypeOK, Store!TypeOK, FlowRecords,
           RequestRecords, jar, process
<1>1. TypeOK'
  <2>1. "beginning" \in Steps
    BY DEF Steps
  <2> QED
    BY <2>1 DEF NoFlow
<1>f. /\ flow'[f].step = "beginning" /\ flow'[f].browser = b /\ flow'[f].begun = 0
      /\ \A g \in Flows \ {f} : flow'[g] = flow[g]
  BY DEF NoFlow
<1>2. \A g \in Flows : FlowInv(g)'
  <2>1. \A g \in Flows \ {f} : FlowInv(g)'
    BY <1>f DEF FlowInv, Stored, AtServer
  <2>2. status[f] \in {"live", "presented"} => deadline[f] >= TTL
    BY BoundsAssumption DEF FlowInv
  <2> QED
    BY <1>f, <2>1, <2>2, BoundsAssumption DEF FlowInv, Stored, AtServer
<1>3. \A c \in Browsers : CookieInv(c)'
  BY DEF CookieInv, AtServer
<1>4. \A r \in Requests : RequestInv(r)'
  BY DEF RequestInv, AtServer, Answered, Reached, Redeemer, Sender
<1> QED
  BY <1>1, <1>2, <1>3, <1>4 DEF CodePostedOnce, OneHolder, Holds, Redeemer

LEMMA HandleBeginSafe ==
  ASSUME Safe, NEW f \in Flows, HandleBegin(f) PROVE Safe'
<1> USE BoundsAssumption DEF HandleBegin, Safe, TypeOK, Store!TypeOK, FlowRecords,
           RequestRecords, jar, process
<1>1. PICK dropped \in SUBSET Store!Overdue : Store!Issue(f, time + TTL, dropped)
  OBVIOUS
<1>2. /\ status[f] = "fresh" /\ status'[f] = "live" /\ deadline'[f] = time + TTL
      /\ \A g \in Flows \ {f} :
           \/ status'[g] = status[g] /\ deadline'[g] = deadline[g]
           \/ status[g] = "live" /\ status'[g] = "void"
  BY <1>1 DEF Store!Issue, Store!Overdue
<1>f. flow' = [flow EXCEPT ![f] = [flow[f] EXCEPT !.step = "issued", !.begun = time]]
  OBVIOUS
<1>3. TypeOK'
  <2>1. /\ status' \in [Flows -> {"fresh", "live", "presented", "redeemed", "void"}]
        /\ deadline' \in [Flows -> Nat] /\ time' = time
    BY <1>1 DEF Store!Issue
  <2>2. "issued" \in Steps
    BY DEF Steps
  <2>3. flow' \in [Flows -> FlowRecords]
    <3>1. [flow[f] EXCEPT !.step = "issued", !.begun = time] \in FlowRecords
      BY <2>2, BegunTyped
    <3> HIDE DEF FlowRecords
    <3> QED
      BY <1>f, <3>1
  <2> QED
    BY <2>1, <2>3
<1>4. \A g \in Flows : FlowInv(g)'
  <2>1. ASSUME NEW g \in Flows \ {f} PROVE FlowInv(g)'
    <3>1. flow'[g] = flow[g]
      BY <1>f
    <3> QED
      BY <1>1, <1>2, <3>1 DEF FlowInv, Stored, AtServer, Store!Issue
  <2>2. /\ flow'[f].step = "issued" /\ flow'[f].begun = time /\ time' = time
        /\ flow'[f].browser = flow[f].browser
    BY <1>1, <1>f DEF Store!Issue
  <2> QED
    BY <1>2, <2>1, <2>2 DEF FlowInv, Stored, AtServer
<1>5. \A b \in Browsers : CookieInv(b)'
  BY DEF CookieInv, AtServer
<1>6. \A r \in Requests : RequestInv(r)'
  BY <1>2 DEF RequestInv, FlowInv, Stored, AtServer, Answered, Reached, Redeemer, Sender
<1> QED
  BY <1>3, <1>4, <1>5, <1>6 DEF CodePostedOnce, OneHolder, Holds, Redeemer

LEMMA HandleBeginFailsSafe ==
  ASSUME Safe, NEW f \in Flows, HandleBeginFails(f) PROVE Safe'
<1> USE DEF HandleBeginFails, To, store, Safe, TypeOK, Store!TypeOK, FlowRecords,
           RequestRecords, jar, process
<1>1. TypeOK'
  <2>1. "failed" \in Steps
    BY DEF Steps
  <2>2. flow' \in [Flows -> FlowRecords]
    BY <2>1, ToTyped
  <2> QED
    BY <2>2
<1>2. \A g \in Flows : FlowInv(g)'
  BY DEF FlowInv, Stored, AtServer
<1>3. \A b \in Browsers : CookieInv(b)'
  BY DEF CookieInv, AtServer
<1>4. \A r \in Requests : RequestInv(r)'
  BY DEF RequestInv, AtServer, Answered, Reached, Redeemer, Sender
<1> QED
  BY <1>1, <1>2, <1>3, <1>4 DEF CodePostedOnce, OneHolder, Holds, Redeemer

LEMMA FollowRedirectSafe ==
  ASSUME Safe, NEW f \in Flows, FollowRedirect(f) PROVE Safe'
<1> USE BoundsAssumption DEF FollowRedirect, To, store, Safe, TypeOK, Store!TypeOK, FlowRecords,
           RequestRecords, jar, process
<1>0. flow[f].browser \in Browsers
  BY DEF FlowInv
<1>1. TypeOK'
  <2>1. "at_provider" \in Steps
    BY DEF Steps
  <2>2. flow' \in [Flows -> FlowRecords]
    BY <2>1, ToTyped
  <2> QED
    BY <1>0, <2>2
<1>2. \A g \in Flows : FlowInv(g)'
  BY DEF FlowInv, Stored, AtServer
<1>3. \A b \in Browsers : CookieInv(b)'
  BY <1>0 DEF CookieInv, AtServer, FlowInv, Stored
<1>4. \A r \in Requests : RequestInv(r)'
  BY DEF RequestInv, AtServer, Answered, Reached, Redeemer, Sender
<1> QED
  BY <1>1, <1>2, <1>3, <1>4 DEF CodePostedOnce, OneHolder, Holds, Redeemer

\* Once the user has decided, the login waits for callbacks only; no callback was
\* sent before.
LEMMA AuthorizeSafe ==
  ASSUME Safe, NEW f \in Flows, Authorize(f) PROVE Safe'
<1> USE DEF Authorize, store, Safe, TypeOK, Store!TypeOK, FlowRecords,
           RequestRecords, jar, process
<1>1. PICK step \in {"code", "denied"} :
        flow' = [flow EXCEPT ![f] = [flow[f] EXCEPT !.step = step]]
  BY DEF To
<1>2. \A g \in Flows \ {f} : code'[g] = code[g]
  OBVIOUS
<1>3. TypeOK'
  <2>1. step \in Steps
    BY DEF Steps
  <2>2. flow' \in [Flows -> FlowRecords]
    BY <1>1, <2>1, StepTyped
  <2>3. code' \in [Flows -> {"none", "issued", "used"}]
    OBVIOUS
  <2> QED
    BY <2>2, <2>3
<1>4. \A g \in Flows : FlowInv(g)'
  BY <1>1 DEF FlowInv, Stored, AtServer
<1>5. \A b \in Browsers : CookieInv(b)'
  BY <1>1 DEF CookieInv, AtServer
<1>6. \A r \in Requests : RequestInv(r)'
  BY <1>1, <1>2 DEF RequestInv, AtServer, Answered, Reached, Redeemer, Sender
<1> QED
  BY <1>3, <1>4, <1>5, <1>6 DEF CodePostedOnce, OneHolder, Holds, Redeemer

LEMMA SendCallbackSafe ==
  ASSUME Safe, NEW r \in Requests, NEW f \in Flows, NEW b \in Browsers, SendCallback(r, f, b)
  PROVE  Safe'
<1> USE NoneAssumption DEF SendCallback, store, Safe, TypeOK, Store!TypeOK, FlowRecords,
           RequestRecords, jar, process
<1>2. TypeOK'
  <2>1. "sent" \in PCs /\ "none" \in Outcomes
    BY DEF PCs, Outcomes
  <2> QED
    BY <2>1
<1>3. \A g \in Flows : FlowInv(g)'
  BY DEF FlowInv, Stored, AtServer
<1>4. \A c \in Browsers : CookieInv(c)'
  BY DEF CookieInv, AtServer
<1>5. \A q \in Requests : RequestInv(q)'
  BY DEF RequestInv, CookieInv, AtServer, Answered, Reached, Redeemer, Sender
<1> QED
  BY <1>2, <1>3, <1>4, <1>5 DEF CodePostedOnce, OneHolder, Holds, Redeemer

LEMMA ReceiveSafe ==
  ASSUME Safe, NEW r \in Requests, Receive(r) PROVE Safe'
<1> USE DEF Receive, ForgetCookie, At, Advance, store, Safe, TypeOK, Store!TypeOK, FlowRecords,
           RequestRecords, jar, process
<1>0. req[r].browser \in Browsers
  BY DEF RequestInv
<1>1. TypeOK'
  <2>1. "received" \in PCs
    BY DEF PCs
  <2>2. req' \in [Requests -> RequestRecords]
    BY <2>1, AdvanceTyped
  <2> QED
    BY <1>0, <2>2
<1>2. \A f \in Flows : FlowInv(f)'
  BY DEF FlowInv, Stored, AtServer
<1>3. \A b \in Browsers : CookieInv(b)'
  BY DEF CookieInv, AtServer
<1>4. \A q \in Requests : RequestInv(q)'
  BY DEF RequestInv, AtServer, Answered, Reached, Redeemer, Sender
<1> QED
  BY <1>1, <1>2, <1>3, <1>4 DEF CodePostedOnce, OneHolder, Holds, Redeemer

\* A restart loses the handlers together with the sessions they held.
LEMMA RestartSafe == ASSUME Safe, Restart PROVE Safe'
<1> USE BoundsAssumption DEF Restart, Handling, Safe, TypeOK, Store!TypeOK, FlowRecords,
           RequestRecords, jar, process
<1>1. TypeOK'
  <2>1. flow' \in [Flows -> FlowRecords]
    <3>1. "failed" \in Steps
      BY DEF Steps
    <3>2. \A f \in Flows : [flow[f] EXCEPT !.step = "failed"] \in
            FlowRecords
      BY <3>1, StepTyped
    <3> QED
      BY <3>2
  <2>2. req' \in [Requests -> RequestRecords]
    <3>1. \A r \in Requests : [req[r] EXCEPT !.pc = "lost"] \in RequestRecords
      BY LostTyped
    <3> QED
      BY <3>1
  <2> QED
    BY <2>1, <2>2
<1>2. \A f \in Flows : FlowInv(f)'
  BY DEF FlowInv, Stored, AtServer
<1>3. \A b \in Browsers : CookieInv(b)'
  BY DEF CookieInv, AtServer
<1>4. \A q \in Requests : RequestInv(q)'
  BY DEF RequestInv, AtServer, Answered, Reached, Redeemer, Sender
<1> QED
  BY <1>1, <1>2, <1>3, <1>4 DEF CodePostedOnce, OneHolder, Holds, Redeemer

-----------------------------------------------------------------------------
(* The handler's steps. *)

LEMMA AnswerSafe ==
  ASSUME Safe, NEW r \in Requests, NEW outcome \in Outcomes \ {"none", "success"},
         req[r].pc \in {"sent", "load", "exchange"}, Respond(r, outcome),
         At(r, "sent") => \/ outcome = "not_found" \/ req[r].cookie = None
                          \/ status[req[r].cookie] # "live",
         UNCHANGED <<store, process, jar, flow, code, posts, disturbed>>
  PROVE  Safe'
<1> USE DEF At, Respond, store, Safe, TypeOK, Store!TypeOK, FlowRecords,
           RequestRecords, jar, process
<1>1. TypeOK'
  BY ResponseTyped
<1>2. \A f \in Flows : FlowInv(f)'
  BY DEF FlowInv, Stored, AtServer
<1>3. \A b \in Browsers : CookieInv(b)'
  BY DEF CookieInv, AtServer
<1>4. \A q \in Requests : RequestInv(q)'
  BY DEF RequestInv, AtServer, Answered, Reached, Redeemer, Sender
<1>5. OneHolder'
  BY DEF OneHolder, Holds, Redeemer
<1> QED
  BY <1>1, <1>2, <1>3, <1>4, <1>5 DEF CodePostedOnce

LEMMA ConsumeNothingSafe ==
  ASSUME Safe, NEW r \in Requests, CookieMissing(r) \/ ConsumeNothing(r) PROVE Safe'
  BY AnswerSafe DEF CookieMissing, ConsumeNothing, At, Outcomes

LEMMA ProviderUnknownSafe ==
  ASSUME Safe, NEW r \in Requests, ProviderUnknown(r) PROVE Safe'
  BY AnswerSafe DEF ProviderUnknown, At, Outcomes

\* Whoever else held the session before had it presented or redeemed: nobody did.
LEMMA ConsumeSafe == ASSUME Safe, NEW r \in Requests, Consume(r) PROVE Safe'
<1> USE NoneAssumption DEF Consume, Store!Present, At, Advance, Safe, TypeOK, Store!TypeOK,
                           FlowRecords, RequestRecords, jar, process
<1>1. TypeOK'
  <2>1. "consumed" \in PCs
    BY DEF PCs
  <2>2. req' \in [Requests -> RequestRecords]
    BY <2>1, AdvanceTyped
  <2> QED
    BY <2>2
<1>2. \A f \in Flows : FlowInv(f)'
  BY DEF FlowInv, Stored, AtServer
<1>3. \A b \in Browsers : CookieInv(b)'
  BY DEF CookieInv, AtServer
<1>4. \A q \in Requests : RequestInv(q)'
  BY DEF RequestInv, AtServer, Answered, Reached, Redeemer, Sender
<1>5. OneHolder'
  BY DEF OneHolder, Holds, Redeemer, RequestInv
<1> QED
  BY <1>1, <1>2, <1>3, <1>4, <1>5 DEF CodePostedOnce

LEMMA ConsumeRejectsSafe == ASSUME Safe, NEW r \in Requests, ConsumeRejects(r) PROVE Safe'
<1> USE NoneAssumption DEF ConsumeRejects, Store!Reject, At, Respond, Safe, TypeOK,
                           Store!TypeOK, FlowRecords, RequestRecords, jar, process
<1>1. TypeOK'
  <2>1. "invalid" \in Outcomes
    BY DEF Outcomes
  <2>2. req' \in [Requests -> RequestRecords]
    BY <2>1, ResponseTyped
  <2> QED
    BY <2>2
<1>2. \A f \in Flows : FlowInv(f)'
  BY DEF FlowInv, Stored, AtServer
<1>3. \A b \in Browsers : CookieInv(b)'
  BY DEF CookieInv, AtServer
<1>4. \A q \in Requests : RequestInv(q)'
  BY DEF RequestInv, AtServer, Answered, Reached, Redeemer, Sender, OneHolder, Holds
<1>5. OneHolder'
  BY DEF OneHolder, Holds, Redeemer
<1> QED
  BY <1>1, <1>2, <1>3, <1>4, <1>5 DEF CodePostedOnce

LEMMA ConsumeReturnsSafe == ASSUME Safe, NEW r \in Requests, ConsumeReturns(r) PROVE Safe'
<1> USE NoneAssumption DEF ConsumeReturns, Store!Redeem, At, Advance, Safe, TypeOK,
                           Store!TypeOK, FlowRecords, RequestRecords, jar, process
<1>1. TypeOK'
  <2>1. "complete" \in PCs
    BY DEF PCs
  <2>2. req' \in [Requests -> RequestRecords]
    BY <2>1, AdvanceTyped
  <2> QED
    BY <2>2
<1>2. \A f \in Flows : FlowInv(f)'
  BY DEF FlowInv, Stored, AtServer, RequestInv
<1>3. \A b \in Browsers : CookieInv(b)'
  BY DEF CookieInv, AtServer
<1>4. \A q \in Requests : RequestInv(q)'
  BY DEF RequestInv, AtServer, Answered, Reached, Redeemer, Sender, OneHolder, Holds
<1>5. OneHolder'
  BY DEF OneHolder, Holds, Redeemer
<1> QED
  BY <1>1, <1>2, <1>3, <1>4, <1>5 DEF CodePostedOnce

\* A code that passes the checks is the session's own, and nobody can have sent it:
\* whoever did would have had the session.
LEMMA CompleteSafe == ASSUME Safe, NEW r \in Requests, Complete(r) PROVE Safe'
<1> USE NoneAssumption DEF At, Advance, Respond, store, Safe, TypeOK, Store!TypeOK, FlowRecords,
           RequestRecords, jar, process
<1> DEFINE verdict == Rules!Verdict(pkce, Callback(r), Session(r))
<1>0. At(r, "complete") /\ UNCHANGED <<store, process, jar, flow, code, disturbed>>
  BY DEF Complete
<1>1. CASE verdict # "ok" /\ Respond(r, Page(verdict)) /\ UNCHANGED posts
  <2>0. Page(verdict) \in {"denied", "rejected"}
    BY DEF Page
  <2> HIDE DEF verdict
  <2>1. TypeOK'
    <3>1. Page(verdict) \in Outcomes
      BY <2>0 DEF Outcomes
    <3>2. req' \in [Requests -> RequestRecords]
      BY <1>1, <3>1, ResponseTyped
    <3> QED
      BY <1>0, <1>1, <3>2
  <2>2. \A f \in Flows : FlowInv(f)'
    BY <1>0, <1>1 DEF FlowInv, Stored, AtServer
  <2>3. \A b \in Browsers : CookieInv(b)'
    BY <1>0 DEF CookieInv, AtServer
  <2>4. \A q \in Requests : RequestInv(q)'
    BY <1>0, <1>1, <2>0 DEF RequestInv, AtServer, Answered, Reached, Redeemer, Sender
  <2>5. OneHolder'
    BY <1>0, <1>1, <2>0 DEF OneHolder, Holds, Redeemer
  <2> QED
    BY <1>1, <2>1, <2>2, <2>3, <2>4, <2>5 DEF CodePostedOnce
<1>2. CASE verdict = "ok" /\ Advance(r, "exchange")
           /\ posts' = [posts EXCEPT ![Callback(r).code] = @ + 1]
  <2>0. /\ Callback(r).code = req[r].flow /\ req[r].flow \in Flows
        /\ req[r].cookie = req[r].flow
    BY <1>0, <1>2 DEF Rules!Verdict, Rules!ValidState, Callback, Session, RequestInv
  <2>1. posts[req[r].flow] = 0
    BY <1>0, <2>0 DEF FlowInv
  <2> HIDE DEF verdict
  <2>2. TypeOK' /\ CodePostedOnce'
    BY <1>0, <1>2, <2>0, <2>1 DEF PCs, CodePostedOnce
  <2>3. \A f \in Flows : FlowInv(f)'
    BY <1>0, <1>2, <2>0 DEF FlowInv, Stored, AtServer, RequestInv, Redeemer, OneHolder, Holds
  <2>4. \A b \in Browsers : CookieInv(b)'
    BY <1>0 DEF CookieInv, AtServer
  <2>5. \A q \in Requests : RequestInv(q)'
    BY <1>0, <1>2, <2>0 DEF RequestInv, AtServer, Answered, Reached, Redeemer, Sender
  <2>6. OneHolder'
    BY <1>0, <1>2 DEF OneHolder, Holds, Redeemer
  <2> QED
    BY <2>2, <2>3, <2>4, <2>5, <2>6
<1> QED
  BY <1>1, <1>2 DEF Complete

LEMMA ExchangeSafe == ASSUME Safe, NEW r \in Requests, Exchange(r) PROVE Safe'
<1> USE DEF Exchange, At, Advance, store, Safe, TypeOK, Store!TypeOK, FlowRecords,
           RequestRecords, jar, process
<1>0. req[r].flow \in Flows /\ Answered(req[r].flow)
  BY DEF RequestInv
<1>1. TypeOK'
  <2>1. "load" \in PCs
    BY DEF PCs
  <2>2. req' \in [Requests -> RequestRecords]
    BY <2>1, AdvanceTyped
  <2> QED
    BY <2>2
<1>2. \A f \in Flows : FlowInv(f)'
  BY <1>0 DEF FlowInv, Stored, AtServer, Answered
<1>3. \A b \in Browsers : CookieInv(b)'
  BY DEF CookieInv, AtServer
<1>4. \A q \in Requests : RequestInv(q)'
  BY <1>0 DEF RequestInv, AtServer, Answered, Reached, Redeemer, Sender
<1>5. OneHolder'
  BY DEF OneHolder, Holds, Redeemer
<1> QED
  BY <1>1, <1>2, <1>3, <1>4, <1>5 DEF CodePostedOnce

LEMMA ExchangeFailsSafe == ASSUME Safe, NEW r \in Requests, ExchangeFails(r) PROVE Safe'
<1>1. CASE UNCHANGED code
  BY <1>1, AnswerSafe DEF ExchangeFails, At, Outcomes, store
<1>2. CASE code' = [code EXCEPT ![req[r].flow] = "used"]
  <2> USE <1>2 DEF ExchangeFails, At, Respond, store, Safe, TypeOK, Store!TypeOK,
                   FlowRecords, RequestRecords, jar, process
  <2>0. req[r].flow \in Flows /\ Answered(req[r].flow)
    BY DEF RequestInv
  <2>1. TypeOK'
    BY ResponseTyped DEF Outcomes
  <2>2. \A f \in Flows : FlowInv(f)'
    BY <2>0 DEF FlowInv, Stored, AtServer, Answered
  <2>3. \A b \in Browsers : CookieInv(b)'
    BY DEF CookieInv, AtServer
  <2>4. \A q \in Requests : RequestInv(q)'
    BY <2>0 DEF RequestInv, AtServer, Answered, Reached, Redeemer, Sender
  <2>5. OneHolder'
    BY DEF OneHolder, Holds, Redeemer
  <2> QED
    BY <2>1, <2>2, <2>3, <2>4, <2>5 DEF CodePostedOnce
<1> QED
  BY <1>1, <1>2 DEF ExchangeFails

LEMMA LoadSafe == ASSUME Safe, NEW r \in Requests, Load(r) PROVE Safe'
<1>1. CASE Respond(r, "failed")
  BY <1>1, AnswerSafe DEF Load, At, Outcomes
<1>2. CASE Respond(r, "success")
  <2> USE <1>2 DEF Load, At, Respond, store, Safe, TypeOK, Store!TypeOK, FlowRecords,
                   RequestRecords, jar, process
  <2>1. TypeOK'
    BY ResponseTyped DEF Outcomes
  <2>2. \A f \in Flows : FlowInv(f)'
    BY DEF FlowInv, Stored, AtServer
  <2>3. \A b \in Browsers : CookieInv(b)'
    BY DEF CookieInv, AtServer
  <2>4. \A q \in Requests : RequestInv(q)'
    BY DEF RequestInv, AtServer, Answered, Reached, Redeemer, Sender
  <2>5. OneHolder'
    BY DEF OneHolder, Holds, Redeemer
  <2> QED
    BY <2>1, <2>2, <2>3, <2>4, <2>5 DEF CodePostedOnce
<1> QED
  BY <1>1, <1>2 DEF Load

LEMMA StepSafe == ASSUME Safe, [Next]_vars PROVE Safe'
<1>1. CASE UNCHANGED vars
  BY <1>1 DEF vars, store, jar, process, Safe, TypeOK, Store!TypeOK, CodePostedOnce, FlowInv,
              CookieInv, RequestInv, OneHolder, Stored, AtServer, Answered, Reached,
              Redeemer, Sender, Holds
<1>2. CASE Next
  BY <1>2, TickSafe, RestartSafe, CookieExpiresSafe, ClickSafe, FollowRedirectSafe,
     AuthorizeSafe, SendCallbackSafe, HandleBeginSafe, HandleBeginFailsSafe, ReceiveSafe,
     ProviderUnknownSafe, ConsumeNothingSafe, ConsumeSafe, ConsumeRejectsSafe,
     ConsumeReturnsSafe, CompleteSafe, ExchangeSafe, ExchangeFailsSafe, LoadSafe
  DEF Next, Browse, Handle
<1> QED
  BY <1>1, <1>2

-----------------------------------------------------------------------------
(* What explains an error page happened, and stays so. *)

LEMMA CausesStay ==
  ASSUME Safe, Monotone
  PROVE  /\ \A f \in Flows : Stored(f) /\ Gone(f) => Gone(f)'
         /\ \A r \in Requests : req[r].pc # "unused" /\ Disturbed(r) => Disturbed(r)'
<1> USE BoundsAssumption DEF Safe, TypeOK, Store!TypeOK, FlowRecords
<1>1. \A q \in Requests : Reached(q) => Reached(q)' /\ req'[q].cookie = req[q].cookie
  BY DEF Monotone, Reached
<1>2. ASSUME NEW f \in Flows, Stored(f)
      PROVE  /\ time >= flow[f].begun + TTL => time' >= flow'[f].begun + TTL
             /\ f \in disturbed => f \in disturbed'
  BY <1>2 DEF Monotone
<1>3. ASSUME NEW f \in Flows, Stored(f), Gone(f) PROVE Gone(f)'
  BY <1>1, <1>2, <1>3 DEF Gone
<1>4. ASSUME NEW r \in Requests, req[r].pc # "unused", Disturbed(r) PROVE Disturbed(r)'
  <2> DEFINE f == req[r].flow
  <2>1. f \in Flows /\ Stored(f) /\ req'[r].flow = f /\ req'[r].browser = req[r].browser
        /\ flow'[f].browser = flow[f].browser
    BY <1>4 DEF RequestInv, Stored, AtServer, Answered, Monotone
  <2> QED
    BY <1>1, <1>2, <1>4, <2>1 DEF Disturbed
<1> QED
  BY <1>3, <1>4

\* A step that explains what it changes keeps everything explained.
CookiesMove ==
  \A f \in Flows : AtServer(f)' /\ (AtServer(f) => cookie[flow[f].browser] = f) =>
    cookie'[flow'[f].browser] = f \/ Gone(f)'
EntriesMove ==
  \A f \in Flows : Stored(f)' /\ (Stored(f) => status[f] = "live") =>
    status'[f] = "live" \/ Gone(f)'
RequestsMove ==
  \A r \in Requests : req[r].pc = "unused" /\ req'[r].pc # "unused" =>
    req'[r].cookie = req'[r].flow \/ Disturbed(r)'

LEMMA ExplainedStays ==
  ASSUME Safe, Monotone, Explained, CookiesMove, EntriesMove, RequestsMove
  PROVE  Explained'
<1>1. \A f \in Flows : AtServer(f)' => cookie'[flow'[f].browser] = f \/ Gone(f)'
  BY CausesStay DEF Explained, CookiesMove, Stored
<1>2. \A f \in Flows : Stored(f)' => status'[f] = "live" \/ Gone(f)'
  BY CausesStay DEF Explained, EntriesMove, Stored
<1>3. \A r \in Requests : req'[r].pc # "unused" => req'[r].cookie = req'[r].flow \/ Disturbed(r)'
  BY CausesStay DEF Explained, RequestsMove, Monotone
<1> QED
  BY <1>1, <1>2, <1>3 DEF Explained

LEMMA StepExplained == ASSUME Safe, Safe', Explained, [Next]_vars PROVE Explained'
<1> USE BoundsAssumption, NoneAssumption
    DEF Safe, TypeOK, Store!TypeOK, FlowRecords, RequestRecords, store, process, jar
<1>m. Monotone
  BY StepIsMonotone
<1> SUFFICES CookiesMove /\ EntriesMove /\ RequestsMove
  BY <1>m, ExplainedStays
<1>1. CASE UNCHANGED <<flow, cookie, status, req>>
  BY <1>1 DEF CookiesMove, EntriesMove, RequestsMove, AtServer, Stored
<1>2. CASE Restart
  <2>1. \A f \in Flows : Stored(f) => Gone(f)'
    BY <1>2 DEF Restart, Gone, Stored, AtServer, InBrowser
  <2> QED
    BY <1>2, <2>1 DEF Restart, Handling, CookiesMove, EntriesMove, RequestsMove, AtServer,
                      Stored
<1>3. ASSUME NEW b \in Browsers, CookieExpires(b)
      PROVE  CookiesMove /\ EntriesMove /\ RequestsMove
  <2>1. PICK g \in Flows : g = cookie[b]
    BY <1>3 DEF CookieExpires
  <2>2. time >= flow[g].begun + TTL
    BY <1>3, <2>1 DEF CookieExpires, CookieInv
  <2>3. Gone(g)'
    BY <1>3, <2>2 DEF CookieExpires, Gone
  <2>4. CookiesMove
    BY <1>3, <2>1, <2>3 DEF CookieExpires, ForgetCookie, CookiesMove, AtServer
  <2> QED
    BY <1>3, <2>4 DEF CookieExpires, EntriesMove, RequestsMove, Stored, AtServer
<1>4. ASSUME NEW f \in Flows, Browse(f) \/ HandleBegin(f) \/ HandleBeginFails(f)
      PROVE  CookiesMove /\ EntriesMove /\ RequestsMove
  <2>1. CASE \E b \in Browsers, p \in Providers : Click(f, b, p)
    BY <2>1 DEF Click, CookiesMove, EntriesMove, RequestsMove, AtServer, Stored
  <2>2. CASE HandleBeginFails(f)
    BY <2>2 DEF HandleBeginFails, To, CookiesMove, EntriesMove, RequestsMove, AtServer, Stored
  <2>3. CASE Authorize(f)
    <3>1. PICK step \in {"code", "denied"} : To(f, step)
      BY <2>3 DEF Authorize
    <3> QED
      BY <2>3, <3>1 DEF Authorize, To, CookiesMove, EntriesMove, RequestsMove, AtServer, Stored
  <2>4. CASE FollowRedirect(f)
    <3>1. CookiesMove
      <4> SUFFICES ASSUME NEW g \in Flows, AtServer(g)', AtServer(g) => cookie[flow[g].browser] = g
                   PROVE  cookie'[flow'[g].browser] = g \/ Gone(g)'
        BY DEF CookiesMove
      <4>1. CASE g = f
        BY <2>4, <4>1 DEF FollowRedirect, To, FlowInv, Stored
      <4>2. CASE g # f /\ flow[g].browser # flow[f].browser
        BY <2>4, <4>2 DEF FollowRedirect, To, FlowInv, AtServer
      <4>3. CASE g # f /\ flow[g].browser = flow[f].browser
        BY <2>4, <4>3 DEF FollowRedirect, To, AtServer, Gone
      <4> QED
        BY <4>1, <4>2, <4>3
    <3> QED
      BY <2>4, <3>1 DEF FollowRedirect, To, EntriesMove, RequestsMove, AtServer, Stored
  <2>5. ASSUME NEW r \in Requests, NEW b \in Browsers, SendCallback(r, f, b)
        PROVE  CookiesMove /\ EntriesMove /\ RequestsMove
    <3>1. cookie[flow[f].browser] = f \/ Gone(f)
      BY <2>5 DEF SendCallback, Explained, AtServer
    <3>2. /\ req'[r].cookie = cookie[b] /\ req'[r].browser = b /\ req'[r].flow = f
          /\ \A q \in Requests \ {r} : req'[q] = req[q]
          /\ ~Reached(r) /\ UNCHANGED <<flow, time, disturbed>>
      BY <2>5 DEF SendCallback, Reached
    <3>3. req'[r].cookie = f \/ Disturbed(r)'
      <4>1. CASE \E q \in Requests : req[q].cookie = f /\ Reached(q)
        BY <3>2, <4>1 DEF Disturbed, Reached
      <4> QED
        BY <3>1, <3>2, <4>1 DEF Gone, Disturbed
    <3> QED
      BY <2>5, <3>2, <3>3 DEF SendCallback, CookiesMove, EntriesMove, RequestsMove, AtServer,
                              Stored
  <2>6. CASE HandleBegin(f)
    <3>1. PICK dropped \in SUBSET Store!Overdue : Store!Issue(f, time + TTL, dropped)
      BY <2>6 DEF HandleBegin
    <3>2. \A g \in dropped : g # f /\ time' >= flow'[g].begun + TTL
      BY <2>6, <3>1 DEF HandleBegin, Store!Overdue, FlowInv, Store!Issue
    <3>3. \A g \in Flows : status[g] = "live" \/ g = f => status'[g] = "live" \/ g \in dropped
      BY <3>1 DEF Store!Issue
    <3>4. EntriesMove
      BY <2>6, <3>2, <3>3 DEF HandleBegin, EntriesMove, Gone, AtServer, Stored
    <3> QED
      BY <2>6, <3>4 DEF HandleBegin, CookiesMove, RequestsMove, AtServer
  <2> QED
    BY <1>4, <2>1, <2>2, <2>3, <2>4, <2>5, <2>6 DEF Browse
<1>5. ASSUME NEW r \in Requests, Handle(r)
      PROVE  CookiesMove /\ EntriesMove /\ RequestsMove
  <2>1. UNCHANGED <<flow, cookie>>
    BY <1>5, HandlerMoves
  <2>2. CookiesMove /\ RequestsMove
    BY <1>5, <2>1, HandlerMoves DEF CookiesMove, RequestsMove, AtServer
  <2>3. \A g \in Flows : status[g] = "live" =>
          status'[g] = "live" \/ (Consume(r) /\ req[r].cookie = g)
    BY <1>5 DEF Handle, ProviderUnknown, CookieMissing, ConsumeNothing, Consume, ConsumeRejects,
                ConsumeReturns, Complete, Exchange, ExchangeFails, Load, Store!Present,
                Store!Reject, Store!Redeem
  <2>4. \A g \in Flows : Consume(r) /\ req[r].cookie = g => Gone(g)'
    BY DEF Consume, At, Advance, Gone, Reached, RequestInv
  <2> QED
    BY <2>1, <2>2, <2>3, <2>4 DEF EntriesMove, AtServer, Stored
<1>6. ASSUME NEW r \in Requests, Receive(r)
      PROVE  CookiesMove /\ EntriesMove /\ RequestsMove
  <2>1. CookiesMove
    <3> SUFFICES ASSUME NEW g \in Flows, AtServer(g), cookie[flow[g].browser] = g
                 PROVE  cookie'[flow[g].browser] = g \/ Gone(g)'
      BY <1>6 DEF CookiesMove, Receive, AtServer
    <3>1. CASE cookie'[flow[g].browser] = cookie[flow[g].browser]
      BY <3>1
    <3>2. CASE cookie'[flow[g].browser] # cookie[flow[g].browser]
      <4>1. /\ req[r].browser = flow[g].browser /\ cookie[req[r].browser] = g
            /\ req[r].outcome \notin {"not_found", "missing"}
            /\ disturbed' = disturbed \union ({g} \ {None, req[r].cookie})
        BY <1>6, <3>2 DEF Receive, ForgetCookie, FlowInv, AtServer
      <4>2. CASE req[r].cookie # g
        BY <4>1, <4>2 DEF Gone
      <4>3. CASE req[r].cookie = g
        BY <1>6, <4>1, <4>3 DEF Receive, At, Advance, Gone, Reached
      <4> QED
        BY <4>2, <4>3
    <3> QED
      BY <3>1, <3>2
  <2> QED
    BY <1>6, <2>1 DEF Receive, At, Advance, EntriesMove, RequestsMove, AtServer, Stored
<1>7. Tick => UNCHANGED <<flow, cookie, status, req>>
  BY DEF Tick, Store!Tick
<1> QED
  BY <1>1, <1>2, <1>3, <1>4, <1>5, <1>6, <1>7 DEF Next, vars

\* Only a request's own handler answers it.
LEMMA WhoAnswers ==
  ASSUME Safe, [Next]_vars, NEW r \in Requests, req'[r].outcome # req[r].outcome
  PROVE  Handle(r) \/ (req[r].pc = "unused" /\ req'[r].outcome = "none")
<1> USE DEF Safe, TypeOK, RequestRecords
<1>1. ~UNCHANGED req
  OBVIOUS
<1>2. CASE Restart
  BY <1>2 DEF Restart
<1>3. ASSUME NEW q \in Requests, Receive(q) PROVE FALSE
  BY <1>3 DEF Receive, Advance
<1>4. ASSUME NEW q \in Requests, Handle(q) PROVE Handle(r)
  BY <1>4, HandlerMoves
<1>5. ASSUME NEW q \in Requests, NEW f \in Flows, NEW b \in Browsers, SendCallback(q, f, b)
      PROVE  req[r].pc = "unused" /\ req'[r].outcome = "none"
  BY <1>5 DEF SendCallback
<1>6. ASSUME NEW f \in Flows, Browse(f) \/ HandleBegin(f) \/ HandleBeginFails(f)
      PROVE  \E q \in Requests, b \in Browsers : SendCallback(q, f, b)
  BY <1>1, <1>6 DEF Browse, Click, FollowRedirect, Authorize, HandleBegin, HandleBeginFails
<1> QED
  BY <1>1, <1>2, <1>3, <1>4, <1>5, <1>6 DEF Next, vars, Tick, CookieExpires

\* A callback that brings its own login's cookie and finds no session, or a late one,
\* was disturbed, and Complete refuses it only because the user did.
LEMMA PageExplained ==
  ASSUME Safe, Safe', Explained, Explained', SessionPageExplained, [Next]_vars
  PROVE  SessionPageExplained'
<1> USE BoundsAssumption, NoneAssumption DEF Safe, TypeOK, Store!TypeOK, FlowRecords,
           RequestRecords, jar, process
<1>m. Monotone
  BY StepIsMonotone
<1> SUFFICES ASSUME NEW r \in Requests, req'[r].outcome \in {"missing", "invalid", "rejected"}
             PROVE  Disturbed(r)'
  BY DEF SessionPageExplained
<1>0. req'[r].pc # "unused"
  BY DEF RequestInv
<1>1. CASE req[r].outcome = req'[r].outcome
  BY <1>1, <1>m, CausesStay DEF SessionPageExplained, RequestInv
<1>2. CASE req'[r].cookie # req'[r].flow
  BY <1>0, <1>2 DEF Explained
<1>3. CASE req[r].outcome # req'[r].outcome /\ req'[r].cookie = req'[r].flow
  <2> DEFINE f == req[r].flow
  <2>1. Handle(r)
    BY <1>3, WhoAnswers
  <2>2. req[r].cookie = f /\ f \in Flows /\ Answered(f)
    BY <1>3, <2>1, HandlerMoves DEF RequestInv
  <2>3. /\ UNCHANGED <<time, flow, disturbed>> /\ time \in Nat
        /\ req[r].pc # "unused" /\ (Disturbed(r) => Disturbed(r)')
    BY <1>m, <2>1, HandlerMoves, CausesStay
  <2>4. CASE ConsumeNothing(r)
    <3>1. status[f] # "live" /\ ~Reached(r)
      BY <2>2, <2>4 DEF ConsumeNothing, At, Reached
    <3>2. Gone(f)
      BY <2>2, <3>1 DEF Explained, Stored, AtServer, Answered
    <3>3. Disturbed(r)
      BY <3>1, <3>2 DEF Gone, Disturbed
    <3> QED
      BY <2>3, <3>3
  <2>5. CASE ConsumeRejects(r)
    BY <2>2, <2>3, <2>5 DEF ConsumeRejects, At, FlowRecords, InTime, SameProvider,
                            RequestInv, FlowInv, Disturbed
  <2>6. CASE Complete(r)
    BY <1>3, <2>2, <2>6 DEF Complete, Page, Rules!Verdict, Rules!ValidState, Callback, Session,
                            Answered, Respond, Advance
  <2>7. ~CookieMissing(r) /\ ~ProviderUnknown(r)
    BY <1>3, <2>2 DEF CookieMissing, ProviderUnknown, Respond
  <2>8. ~(Consume(r) \/ ConsumeReturns(r) \/ Exchange(r))
    BY <1>3 DEF Consume, ConsumeReturns, Exchange, Advance
  <2>9. ~(ExchangeFails(r) \/ Load(r))
    BY <1>3 DEF ExchangeFails, Load, Respond
  <2> QED
    BY <2>1, <2>4, <2>5, <2>6, <2>7, <2>8, <2>9 DEF Handle
<1> QED
  BY <1>1, <1>2, <1>3

-----------------------------------------------------------------------------
(* A login goes through the stages of OneTimeLogins. *)

\* The callback that holds a session says how far its login is; where none has
\* redeemed it, the store does.
HeldStage(r) == IF req[r].outcome = "success" THEN "won"
                ELSE IF req[r].pc \in {"exchange", "load"} THEN "sent"
                ELSE IF req[r].pc = "complete" THEN "checked" ELSE "taken"
StoredStage(f) == CASE status[f] = "fresh" -> "new"
                    [] status[f] = "live" -> "open"
                    [] status[f] = "presented" -> "taken"
                    [] OTHER -> "over"
RedeemerOf(r, f) == Redeemer(r) /\ req[r].cookie = f

StageView ==
  /\ \A r \in Requests : Holds(r) => Stage(req[r].cookie) = HeldStage(r)
  /\ \A f \in Flows :
       \/ Stage(f) = StoredStage(f) /\ \A r \in Requests : ~RedeemerOf(r, f)
       \/ \E r \in Requests : RedeemerOf(r, f) /\ Stage(f) = HeldStage(r)

LEMMA ViewOfStage == Safe => StageView
<1> SUFFICES ASSUME Safe PROVE StageView
  OBVIOUS
<1> USE DEF Safe
<1>1. \A r \in Requests : req[r].outcome = "success" \/ req[r].pc \in {"exchange", "load"} =>
        req[r].cookie = req[r].flow
  BY DEF RequestInv, Sender
<1>2. \A r \in Requests : req[r].outcome = "success" => req[r].pc \in {"responded", "received"}
  BY DEF RequestInv
<1>3. ASSUME NEW r \in Requests, Redeemer(r) PROVE Stage(req[r].cookie) = HeldStage(r)
  <2> PICK f : f = req[r].cookie
    OBVIOUS
  <2>1. \A q \in Requests : RedeemerOf(q, f) => q = r
    BY <1>3 DEF OneHolder, Holds, RedeemerOf
  <2>2. \A q \in Requests : req[q].outcome = "success" /\ req[q].flow = f => q = r
    BY <2>1, <1>1 DEF RedeemerOf, Redeemer
  <2>3. \A q \in Requests : req[q].pc \in {"exchange", "load"} /\ req[q].flow = f => q = r
    BY <2>1, <1>1 DEF RedeemerOf, Redeemer
  <2>4. \A q \in Requests : req[q].pc = "complete" /\ req[q].cookie = f => q = r
    BY <2>1 DEF RedeemerOf, Redeemer
  <2>0. status[f] = "redeemed"
    BY <1>3 DEF RequestInv
  <2>5. CASE req[r].outcome = "success"
    BY <1>1, <1>2, <2>0, <2>3, <2>4, <2>5 DEF Stage, HeldStage
  <2>6. CASE req[r].pc \in {"exchange", "load"}
    BY <1>1, <1>2, <2>0, <2>2, <2>4, <2>6 DEF Stage, HeldStage
  <2>7. CASE req[r].pc = "complete"
    BY <1>2, <2>0, <2>2, <2>3, <2>7 DEF Stage, HeldStage
  <2> QED
    BY <1>3, <2>5, <2>6, <2>7 DEF Redeemer
<1>4. ASSUME NEW f \in Flows, \A r \in Requests : ~RedeemerOf(r, f)
      PROVE  Stage(f) = StoredStage(f)
  <2>1. status[f] \in {"fresh", "live", "presented", "redeemed", "void"}
    BY DEF TypeOK, Store!TypeOK
  <2>2. \A r \in Requests : req[r].cookie = f =>
          req[r].pc \notin {"complete", "exchange", "load"} /\ req[r].outcome # "success"
    BY <1>4 DEF RedeemerOf, Redeemer
  <2>3. \A r \in Requests : req[r].flow = f =>
          req[r].pc \notin {"exchange", "load"} /\ req[r].outcome # "success"
    BY <1>1, <2>2
  <2> QED
    BY <2>1, <2>2, <2>3 DEF Stage, StoredStage
<1>5. ASSUME NEW r \in Requests, req[r].pc = "consumed"
      PROVE  Stage(req[r].cookie) = HeldStage(r)
  <2> PICK f : f = req[r].cookie
    OBVIOUS
  <2>1. f \in Flows /\ status[f] = "presented"
    BY <1>5 DEF RequestInv, TypeOK, RequestRecords
  <2>2. \A q \in Requests : ~RedeemerOf(q, f)
    BY <2>1 DEF RequestInv, RedeemerOf
  <2>3. Stage(f) = StoredStage(f)
    BY <1>4, <2>1, <2>2
  <2> QED
    BY <1>2, <1>5, <2>1, <2>3 DEF StoredStage, HeldStage
<1>6. \A r \in Requests : Holds(r) => Stage(req[r].cookie) = HeldStage(r)
  BY <1>3, <1>5 DEF Holds
<1>7. ASSUME NEW f \in Flows
      PROVE  \/ Stage(f) = StoredStage(f) /\ \A r \in Requests : ~RedeemerOf(r, f)
             \/ \E r \in Requests : RedeemerOf(r, f) /\ Stage(f) = HeldStage(r)
  BY <1>3, <1>4 DEF RedeemerOf
<1> QED
  BY <1>6, <1>7 DEF StageView

LEMMA ViewOfNextStage == Safe' => StageView'
  BY ViewOfStage, PTL

\* A login whose entry and whose callbacks are left alone stays where it is.
LEMMA StageStays ==
  ASSUME StageView, StageView', NEW f \in Flows, status'[f] = status[f],
         \A r \in Requests : RedeemerOf(r, f) \/ RedeemerOf(r, f)' =>
           RedeemerOf(r, f) /\ RedeemerOf(r, f)' /\ HeldStage(r)' = HeldStage(r)
  PROVE  Stage(f)' = Stage(f)
<1>1. CASE \E r \in Requests : RedeemerOf(r, f)
  <2>1. PICK r \in Requests : RedeemerOf(r, f)
    BY <1>1
  <2>2. RedeemerOf(r, f)' /\ HeldStage(r)' = HeldStage(r)
    BY <2>1
  <2>3. Stage(f) = HeldStage(r)
    BY <2>1 DEF StageView, RedeemerOf, Holds
  <2>4. Stage(f)' = HeldStage(r)'
    BY <2>2 DEF StageView, RedeemerOf, Holds
  <2> QED
    BY <2>2, <2>3, <2>4
<1>2. CASE \A r \in Requests : ~RedeemerOf(r, f)
  <2>1. Stage(f) = StoredStage(f)
    BY <1>2 DEF StageView
  <2>2. Stage(f)' = StoredStage(f)'
    BY <1>2 DEF StageView
  <2> QED
    BY <2>1, <2>2 DEF StoredStage
<1> QED
  BY <1>1, <1>2

\* Where callbacks are left alone, it follows the store.
LEMMA StageFollowsStore ==
  ASSUME Safe, Safe', NEW f \in Flows, status[f] \in {"fresh", "live"}, UNCHANGED req
  PROVE  Stage(f) = StoredStage(f) /\ Stage(f)' = StoredStage(f)'
<1>1. \A r \in Requests : ~RedeemerOf(r, f)
  BY DEF Safe, RequestInv, RedeemerOf
<1>2. \A r \in Requests : ~RedeemerOf(r, f)'
  BY <1>1 DEF RedeemerOf, Redeemer
<1> QED
  BY <1>1, <1>2, ViewOfStage, ViewOfNextStage DEF StageView

\* A step that moves no login is a stutter, one that moves one login is that login's.
Unmoved == \A f \in Flows : Stage(f)' = Stage(f)
OnlyMoved(g) == \A f \in Flows \ {g} : Stage(f)' = Stage(f)

LEMMA OneMove ==
  ASSUME NEW g \in Flows, OnlyMoved(g),
         \/ Stage(g)' = Stage(g)
         \/ Stage(g) = "open" /\ Stage(g)' = "taken"
         \/ Stage(g) = "taken" /\ Stage(g)' = "checked"
         \/ Stage(g) = "checked" /\ Stage(g)' = "sent"
         \/ Stage(g) = "sent" /\ Stage(g)' = "won"
         \/ Stage(g) \notin {"new", "won"} /\ Stage(g)' = "over"
  PROVE  Abstract!Next \/ Unmoved
<1>1. CASE Stage(g)' = Stage(g)
  BY <1>1 DEF OnlyMoved, Unmoved
<1>2. ASSUME Stage(g)' # Stage(g), Stage(g)' # "over" PROVE Abstract!Next
  <2>1. [f \in Flows |-> Stage(f)]' = [[f \in Flows |-> Stage(f)] EXCEPT ![g] = Stage(g)']
    BY DEF OnlyMoved
  <2>2. Abstract!Take(g) \/ Abstract!Check(g) \/ Abstract!Send(g) \/ Abstract!Win(g)
    BY <1>2, <2>1 DEF Abstract!Take, Abstract!Check, Abstract!Send, Abstract!Win,
                      Abstract!GoesOn
  <2> QED
    BY <2>2 DEF Abstract!Next
<1>3. ASSUME Stage(g)' # Stage(g), Stage(g)' = "over" PROVE Abstract!Next
  <2>1. [f \in Flows |-> Stage(f)]' = [f \in Flows |-> IF f \in {g} THEN "over" ELSE Stage(f)]
    BY <1>3 DEF OnlyMoved
  <2>2. Abstract!GiveUp({g}) /\ {g} \in SUBSET Abstract!UnderWay
    BY <1>3, <2>1 DEF Abstract!GiveUp, Abstract!UnderWay
  <2> QED
    BY <2>2 DEF Abstract!Next
<1> QED
  BY <1>1, <1>2, <1>3

\* A handler moves the login of its cookie only.
LEMMA HandlerMovesOne ==
  ASSUME Safe, Safe', NEW r \in Requests, Handle(r)
  PROVE  OnlyMoved(req[r].cookie)
<1> SUFFICES ASSUME NEW f \in Flows, f # req[r].cookie PROVE Stage(f)' = Stage(f)
  BY DEF OnlyMoved
<1>1. StageView /\ StageView'
  BY ViewOfStage, ViewOfNextStage
<1>2. status'[f] = status[f]
  BY DEF Safe, TypeOK, Store!TypeOK, Handle, ProviderUnknown, CookieMissing, ConsumeNothing,
         Consume, ConsumeRejects, ConsumeReturns, Complete, Exchange, ExchangeFails, Load, store,
         Store!Present, Store!Reject, Store!Redeem
<1>3. req'[r].cookie = req[r].cookie /\ \A q \in Requests \ {r} : req'[q] = req[q]
  BY HandlerMoves DEF Safe
<1>4. \A q \in Requests : RedeemerOf(q, f) \/ RedeemerOf(q, f)' =>
        RedeemerOf(q, f) /\ RedeemerOf(q, f)' /\ HeldStage(q)' = HeldStage(q)
  BY <1>3 DEF RedeemerOf, Redeemer, HeldStage
<1> QED
  BY <1>1, <1>2, <1>4, StageStays

\* It holds a session before and after its step, or takes one, or lets it go.
LEMMA HolderMoves ==
  ASSUME Safe, Safe', NEW r \in Requests, Handle(r), Holds(r), Holds(r)',
         NEW f \in Flows, f = req[r].cookie
  PROVE  Stage(f) = HeldStage(r) /\ Stage(f)' = HeldStage(r)'
<1>1. StageView /\ StageView'
  BY ViewOfStage, ViewOfNextStage
<1>2. req'[r].cookie = f
  BY HandlerMoves DEF Safe
<1> QED
  BY <1>1, <1>2 DEF StageView

LEMMA HolderLetsGo ==
  ASSUME Safe, Safe', NEW r \in Requests, Handle(r), Holds(r), ~Holds(r)',
         NEW f \in Flows, f = req[r].cookie, status'[f] \in {"redeemed", "void"}
  PROVE  Stage(f) = HeldStage(r) /\ Stage(f)' = "over"
<1>1. StageView /\ StageView'
  BY ViewOfStage, ViewOfNextStage
<1>2. req'[r].cookie = req[r].cookie /\ \A q \in Requests \ {r} : req'[q] = req[q]
  BY HandlerMoves DEF Safe
<1>3. \A q \in Requests : ~RedeemerOf(q, f)'
  BY <1>2 DEF Safe, OneHolder, RedeemerOf, Redeemer, Holds
<1>4. Stage(f)' = StoredStage(f)'
  BY <1>1, <1>3 DEF StageView
<1>5. StoredStage(f)' = "over"
  BY DEF StoredStage
<1> QED
  BY <1>1, <1>4, <1>5 DEF StageView

LEMMA HandleRefines ==
  ASSUME Safe, Safe', NEW r \in Requests, Handle(r)
  PROVE  Abstract!Next \/ Unmoved
<1> PICK g : g = req[r].cookie
  OBVIOUS
<1> USE DEF RequestRecords
<1>0. OnlyMoved(g) /\ StageView /\ StageView' /\ req \in [Requests -> RequestRecords]
  BY HandlerMovesOne, ViewOfStage, ViewOfNextStage DEF Safe, TypeOK
<1>1. ASSUME ProviderUnknown(r) \/ CookieMissing(r) \/ ConsumeNothing(r) PROVE Unmoved
  <2>1. UNCHANGED status /\ ~Redeemer(r) /\ ~Redeemer(r)'
    BY <1>0, <1>1 DEF ProviderUnknown, CookieMissing, ConsumeNothing, RequestRecords, store,
                      At, Respond, Redeemer, Safe, RequestInv
  <2>2. \A q \in Requests \ {r} : req'[q] = req[q]
    BY HandlerMoves DEF Safe
  <2>3. \A f \in Flows : Stage(f)' = Stage(f)
    BY <1>0, <2>1, <2>2, StageStays DEF RedeemerOf, Redeemer, HeldStage
  <2> QED
    BY <2>3 DEF Unmoved
<1>2. ASSUME Consume(r) PROVE Abstract!Next \/ Unmoved
  <2>1. g \in Flows /\ status[g] = "live" /\ status'[g] = "presented"
    BY <1>0, <1>2 DEF Consume, Store!Present, Safe, TypeOK, Store!TypeOK
  <2>2. \A q \in Requests : ~RedeemerOf(q, g)
    BY <2>1 DEF Safe, RequestInv, RedeemerOf
  <2>3. \A q \in Requests : ~RedeemerOf(q, g)'
    BY <2>1 DEF Safe, RequestInv, RedeemerOf
  <2>4. Stage(g) = "open" /\ Stage(g)' = "taken"
    BY <1>0, <2>1, <2>2, <2>3 DEF StageView, StoredStage
  <2> QED
    BY <1>0, <2>1, <2>4, OneMove
<1>3. ASSUME ConsumeRejects(r) PROVE Abstract!Next \/ Unmoved
  <2>1. g \in Flows /\ Holds(r) /\ ~Holds(r)' /\ HeldStage(r) = "taken" /\ status'[g] = "void"
    <3>1. req[r].pc = "consumed" /\ status'[g] = "void"
      BY <1>3 DEF ConsumeRejects, Store!Reject, At, Safe, TypeOK, Store!TypeOK, RequestInv
    <3>2. req'[r].pc = "responded" /\ req'[r].outcome = "invalid"
      BY <1>0, <1>3 DEF ConsumeRejects, Respond
    <3>3. g \in Flows
      BY <1>0, <3>1 DEF Safe, RequestInv
    <3>4. req[r].outcome = "none"
      BY <3>1 DEF Safe, RequestInv
    <3> QED
      BY <3>1, <3>2, <3>3, <3>4 DEF Holds, Redeemer, HeldStage
  <2>2. Stage(g) = "taken" /\ Stage(g)' = "over"
    BY <2>1, HolderLetsGo
  <2> QED
    BY <1>0, <2>1, <2>2, OneMove
<1>4. ASSUME ConsumeReturns(r) PROVE Abstract!Next \/ Unmoved
  <2>1. /\ g \in Flows /\ Holds(r) /\ Holds(r)'
        /\ HeldStage(r) = "taken" /\ HeldStage(r)' = "checked"
    BY <1>0, <1>4 DEF ConsumeReturns, At, Advance, Safe, RequestInv, Holds, Redeemer, HeldStage
  <2>2. Stage(g) = "taken" /\ Stage(g)' = "checked"
    BY <2>1, HolderMoves
  <2> QED
    BY <1>0, <2>1, <2>2, OneMove
<1>5. ASSUME Complete(r) PROVE Abstract!Next \/ Unmoved
  <2>1. g \in Flows /\ Holds(r) /\ HeldStage(r) = "checked" /\ status'[g] = "redeemed"
    BY <1>0, <1>5 DEF Complete, store, At, Safe, RequestInv, Holds, Redeemer, HeldStage
  <2>2. CASE Advance(r, "exchange")
    <3>1. Holds(r)' /\ HeldStage(r)' = "sent"
      BY <1>0, <1>5, <2>2 DEF Complete, At, Advance, Safe, RequestInv, Holds, Redeemer,
                              HeldStage
    <3> QED
      BY <1>0, <2>1, <3>1, HolderMoves, OneMove
  <2>3. ASSUME NEW verdict, Respond(r, Page(verdict)) PROVE Abstract!Next \/ Unmoved
    <3>1. ~Holds(r)'
      BY <1>0, <2>3 DEF Respond, Page, Holds, Redeemer
    <3> QED
      BY <1>0, <2>1, <3>1, HolderLetsGo, OneMove
  <2> QED
    BY <1>5, <2>2, <2>3 DEF Complete
<1>6. ASSUME Exchange(r) PROVE Abstract!Next \/ Unmoved
  <2>1. /\ g \in Flows /\ Holds(r) /\ Holds(r)'
        /\ HeldStage(r) = "sent" /\ HeldStage(r)' = "sent"
    BY <1>0, <1>6 DEF Exchange, At, Advance, Safe, RequestInv, Holds, Redeemer, HeldStage
  <2> QED
    BY <1>0, <2>1, HolderMoves, OneMove
<1>7. ASSUME req[r].pc \in {"exchange", "load"}, Respond(r, "failed"), UNCHANGED store
      PROVE  Abstract!Next \/ Unmoved
  <2>1. g \in Flows /\ Holds(r) /\ HeldStage(r) = "sent" /\ status'[g] = "redeemed"
    BY <1>0, <1>7 DEF store, Safe, RequestInv, Holds, Redeemer, HeldStage
  <2>2. ~Holds(r)'
    BY <1>0, <1>7 DEF Respond, Holds, Redeemer
  <2> QED
    BY <1>0, <2>1, <2>2, HolderLetsGo, OneMove
<1>8. ASSUME Load(r), Respond(r, "success") PROVE Abstract!Next \/ Unmoved
  <2>1. /\ g \in Flows /\ Holds(r) /\ Holds(r)'
        /\ HeldStage(r) = "sent" /\ HeldStage(r)' = "won"
    BY <1>0, <1>8 DEF Load, At, Respond, Safe, RequestInv, Holds, Redeemer, HeldStage
  <2> QED
    BY <1>0, <2>1, HolderMoves, OneMove
<1> QED
  BY <1>1, <1>2, <1>3, <1>4, <1>5, <1>6, <1>7, <1>8 DEF Handle, ExchangeFails, Load, At

\* The store takes a login in, and drops others that are due.
LEMMA HandleBeginRefines ==
  ASSUME Safe, Safe', NEW f \in Flows, HandleBegin(f)
  PROVE  Abstract!Next
<1>1. PICK dropped \in SUBSET Store!Overdue : Store!Issue(f, time + TTL, dropped)
  BY DEF HandleBegin
<1>2. /\ status[f] = "fresh" /\ status'[f] = "live" /\ f \notin dropped /\ UNCHANGED req
      /\ \A g \in dropped : g \in Flows /\ status[g] = "live" /\ status'[g] = "void"
      /\ \A g \in Flows \ ({f} \union dropped) : status'[g] = status[g]
  BY <1>1 DEF HandleBegin, Store!Issue, Store!Overdue, Safe, TypeOK, Store!TypeOK
<1>3. Stage(f) = "new" /\ Stage(f)' = "open"
  BY <1>2, StageFollowsStore DEF StoredStage
<1>4. \A g \in dropped : Stage(g) = "open" /\ Stage(g)' = "over"
  BY <1>2, StageFollowsStore DEF StoredStage
<1>5. ASSUME NEW g \in Flows \ ({f} \union dropped) PROVE Stage(g)' = Stage(g)
  BY <1>2, ViewOfStage, ViewOfNextStage, StageStays DEF RedeemerOf, Redeemer, HeldStage
<1>6. [g \in Flows |-> Stage(g)]' =
        [g \in Flows |-> IF g = f THEN "open" ELSE IF g \in dropped THEN "over" ELSE Stage(g)]
  BY <1>3, <1>4, <1>5
<1>7. dropped \in SUBSET Abstract!Opened
  BY <1>2, <1>4 DEF Abstract!Opened
<1>8. Abstract!Open(f)
  BY <1>3, <1>6, <1>7 DEF Abstract!Open
<1> QED
  BY <1>8 DEF Abstract!Next

\* A restart ends every login that is not new and not won.
LEMMA RestartRefines == ASSUME Safe, Safe', Restart PROVE Abstract!Next
<1> DEFINE gone == {f \in Flows : Stage(f) \notin {"new", "won"}}
<1>0. StageView /\ StageView'
  BY ViewOfStage, ViewOfNextStage
<1>1. \A r \in Requests : /\ req'[r].cookie = req[r].cookie /\ req'[r].outcome = req[r].outcome
                          /\ req'[r].pc \notin {"complete", "exchange", "load", "consumed"}
  BY DEF Restart, Handling, Safe, TypeOK
<1>2. ASSUME NEW f \in Flows, NEW r \in Requests, RedeemerOf(r, f), req[r].outcome = "success"
      PROVE  Stage(f) = "won" /\ Stage(f)' = "won"
  <2>1. Stage(f) = "won"
    BY <1>0, <1>2 DEF StageView, RedeemerOf, Holds, HeldStage
  <2>2. RedeemerOf(r, f)' /\ HeldStage(r)' = "won"
    BY <1>1, <1>2 DEF RedeemerOf, Redeemer, HeldStage
  <2>3. Stage(f)' = HeldStage(r)'
    BY <1>0, <2>2 DEF StageView, RedeemerOf, Holds
  <2> QED
    BY <2>1, <2>2, <2>3
<1>3. ASSUME NEW f \in Flows, \A r \in Requests : RedeemerOf(r, f) => req[r].outcome # "success"
      PROVE  Stage(f) # "won" /\ IF Stage(f) = "new" THEN Stage(f)' = "new" ELSE Stage(f)' = "over"
  <2>1. \A r \in Requests : ~RedeemerOf(r, f)'
    BY <1>1, <1>3 DEF RedeemerOf, Redeemer
  <2>2. Stage(f)' = StoredStage(f)'
    BY <1>0, <2>1 DEF StageView
  <2>3. status'[f] = IF status[f] \in {"live", "presented"} THEN "void" ELSE status[f]
    BY DEF Restart
  <2>4. CASE \A r \in Requests : ~RedeemerOf(r, f)
    <3>1. Stage(f) = StoredStage(f)
      BY <1>0, <2>4 DEF StageView
    <3> QED
      BY <2>2, <2>3, <3>1 DEF StoredStage
  <2>5. ASSUME NEW r \in Requests, RedeemerOf(r, f)
        PROVE  Stage(f) \notin {"new", "won"} /\ Stage(f)' = "over"
    <3>1. Stage(f) = HeldStage(r) /\ HeldStage(r) \in {"sent", "checked", "taken"}
      BY <1>0, <1>3, <2>5 DEF StageView, RedeemerOf, Holds, HeldStage
    <3>2. status[f] = "redeemed"
      BY <2>5 DEF Safe, RequestInv, RedeemerOf
    <3> QED
      BY <2>2, <2>3, <3>1, <3>2 DEF StoredStage
  <2> QED
    BY <2>4, <2>5
<1>4. \A f \in Flows : Stage(f)' = IF f \in gone THEN "over" ELSE Stage(f)
  BY <1>2, <1>3
<1>5. [f \in Flows |-> Stage(f)]' = [f \in Flows |-> IF f \in gone THEN "over" ELSE Stage(f)]
  BY <1>4
<1>6. Abstract!GiveUp(gone) /\ gone \in SUBSET Abstract!UnderWay
  BY <1>5 DEF Abstract!GiveUp, Abstract!UnderWay
<1> QED
  BY <1>6 DEF Abstract!Next

LEMMA StepRefines == Safe /\ Safe' /\ [Next]_vars => Abstract!Next \/ Unmoved
<1> SUFFICES ASSUME Safe, Safe', [Next]_vars PROVE Abstract!Next \/ Unmoved
  OBVIOUS
<1>0. StageView /\ StageView'
  BY ViewOfStage, ViewOfNextStage
<1>1. ASSUME UNCHANGED status,
             \A r \in Requests : \/ req'[r] = req[r]
                                 \/ ~Redeemer(r) /\ ~Redeemer(r)'
                                 \/ /\ req[r].pc = "responded" /\ req'[r].pc = "received"
                                    /\ req'[r].cookie = req[r].cookie
                                    /\ req'[r].outcome = req[r].outcome
      PROVE  Unmoved
  <2>1. \A r \in Requests, f \in Flows : RedeemerOf(r, f) \/ RedeemerOf(r, f)' =>
          RedeemerOf(r, f) /\ RedeemerOf(r, f)' /\ HeldStage(r)' = HeldStage(r)
    BY <1>1 DEF RedeemerOf, Redeemer, HeldStage
  <2> QED
    BY <1>0, <1>1, <2>1, StageStays DEF Unmoved
<1>2. CASE UNCHANGED <<status, req>>
  BY <1>1, <1>2
<1>3. ASSUME NEW r \in Requests, NEW f \in Flows, NEW b \in Browsers, SendCallback(r, f, b)
      PROVE  Unmoved
  <2>1. ~Redeemer(r) /\ ~Redeemer(r)' /\ \A q \in Requests \ {r} : req'[q] = req[q]
    BY <1>3 DEF SendCallback, Safe, TypeOK, RequestInv, Redeemer
  <2> QED
    BY <1>1, <1>3, <2>1 DEF SendCallback, store
<1>4. ASSUME NEW r \in Requests, Receive(r) PROVE Unmoved
  <2>1. /\ req[r].pc = "responded" /\ req'[r].pc = "received"
        /\ req'[r].cookie = req[r].cookie /\ req'[r].outcome = req[r].outcome
        /\ \A q \in Requests \ {r} : req'[q] = req[q]
    BY <1>4 DEF Receive, At, Advance, Safe, TypeOK
  <2> QED
    BY <1>1, <1>4, <2>1 DEF Receive, store
<1>5. ASSUME NEW f \in Flows, Browse(f) \/ HandleBeginFails(f)
      PROVE  UNCHANGED <<status, req>> \/ \E r \in Requests, b \in Browsers : SendCallback(r, f, b)
  BY <1>5 DEF Browse, Click, FollowRedirect, Authorize, HandleBeginFails, store
<1>6. Tick \/ (\E b \in Browsers : CookieExpires(b)) => UNCHANGED <<status, req>>
  BY DEF Tick, Store!Tick, CookieExpires, store
<1>7. UNCHANGED vars => UNCHANGED <<status, req>>
  BY DEF vars, store
<1> QED
  BY <1>2, <1>3, <1>4, <1>5, <1>6, <1>7, HandleRefines, HandleBeginRefines,
         RestartRefines DEF Next

LEMMA InitRefines == Init => Abstract!Init
<1> SUFFICES ASSUME Init PROVE Abstract!Init
  OBVIOUS
<1>1. \A f \in Flows : Stage(f) = "new"
  BY DEF Init, Store!Init, NoRequest, Stage
<1> QED
  BY <1>1 DEF Abstract!Init

-----------------------------------------------------------------------------
(* The theorems. *)

\* The login flow keeps IInv, whatever browsers, tabs, reloads and restarts do.
THEOREM Invariant == Spec => []IInv
<1>1. Init => IInv
  BY InitSafe, NoneAssumption DEF Init, Store!Init, NoFlow, NoRequest, IInv, Explained,
     SessionPageExplained, AtServer, Stored
<1>2. IInv /\ [Next]_vars => IInv'
  BY StepSafe, StepExplained, PageExplained DEF IInv
<1> QED
  BY <1>1, <1>2, PTL DEF Spec

\* Positions, outcomes and the browser's cookies keep their types; every refusal of
\* Complete has a page (app.go:142-153).
THEOREM Typing == Spec => []TypeOK
<1>1. IInv => TypeOK
  BY DEF IInv, Safe
<1> QED
  BY <1>1, Invariant, PTL

\* A success page ends the login that this browser began and this callback belongs to,
\* also when callbacks are opened in other browsers (app.go:123-140).
THEOREM OwnLogin == Spec => []SuccessIsOwnLogin
<1>1. ASSUME IInv PROVE SuccessIsOwnLogin
  BY <1>1 DEF IInv, Safe, RequestInv, Redeemer, Sender, OneHolder, Holds, SuccessIsOwnLogin
<1> QED
  BY <1>1, Invariant, PTL

\* No code is sent to the token endpoint twice.
THEOREM PostedOnce == Spec => []CodePostedOnce
<1>1. IInv => CodePostedOnce
  BY DEF IInv, Safe
<1> QED
  BY <1>1, Invariant, PTL

\* A session whose cookie has reached consume cannot be taken again.
THEOREM Spent == Spec => []PresentedIsSpent
<1>1. IInv => PresentedIsSpent
  BY DEF IInv, Safe, RequestInv, PresentedIsSpent
<1> QED
  BY <1>1, Invariant, PTL

\* A page that blames the session has its cause in this very login: its callback opened in
\* another browser, its session taken by another callback, its own time to live over, its
\* cookie overwritten or deleted for another login, or a restart while it was under way.
THEOREM PagesExplained == Spec => []SessionPageExplained
<1>1. IInv => SessionPageExplained
  BY DEF IInv
<1> QED
  BY <1>1, Invariant, PTL

\* Every login goes through its stages in order, once, and what is over stays over.
THEOREM LoginsRefine == Spec => ImplementsOneTimeLogins
<1>1. IInv /\ IInv' /\ [Next]_vars => [Abstract!Next]_[f \in Flows |-> Stage(f)]
  <2>1. Unmoved => UNCHANGED [f \in Flows |-> Stage(f)]
    BY DEF Unmoved
  <2> QED
    BY <2>1, StepRefines DEF IInv
<1> QED
  BY InitRefines, <1>1, Invariant, PTL DEF Spec, ImplementsOneTimeLogins, Abstract!Spec
=============================================================================
