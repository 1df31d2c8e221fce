------------------------ MODULE OAuthProviderProofs ------------------------
(* Proofs about the operations that talk to a provider: OAuthProvider, for  *)
(* every set of calls, every request and every provider; and BoundedBody,   *)
(* the bodies of the answers to them.                                       *)
EXTENDS OAuthProvider, BoundedBody, TLAPS

\* What IInv says of one call.
CallSafe(c) ==
  /\ CallInv(c)
  /\ CancelledBeforeReturn(c) => result[c] # "ok"
  /\ CancelledBeforeReturn(c) /\ pc[c] = "done" =>
       \/ result[c] = "transport_failed"
       \/ result[c] \in Rejections /\ reply[c] = "none"
  /\ posted[c] # NoPost =>
       LET callback == input[c].callback
           session == input[c].session
       IN  /\ op[c] = "complete"
           /\ ~callback.error
           /\ posted[c].code = callback.code /\ callback.code # Empty
           /\ session.disabled \/ (callback.state = session.state /\ session.state # Empty)
           /\ caps.pkce => posted[c].verifier = session.verifier /\ session.verifier # Empty
           /\ ~caps.pkce => posted[c].verifier = Empty
  /\ pc[c] = "done" /\ ~CancelledBeforeReturn(c) /\ loader # "custom" /\ ~asked[c] =>
       (result[c] = "response_too_large" <=>
          reply[c] \in TooLong /\ (capFirst => reply[c] \in Oversize))
  /\ asked[c] /\ pc[c] = "done" /\ ~CancelledBeforeReturn(c) => result[c] = "ok"

LEMMA IInvByCall == IInv <=> TypeOK /\ \A c \in Calls : CallSafe(c)
BY DEF IInv, CallSafe, CancelledNeverSucceeds, CancellationIsTransport,
   CodeSentWhenChecked, OversizeReported, EmailIsOptional

LEMMA NextByCall == IInv' <=> TypeOK' /\ \A c \in Calls : CallSafe(c)'
BY DEF IInv, CallSafe, CancelledNeverSucceeds, CancellationIsTransport,
   CodeSentWhenChecked, OversizeReported, EmailIsOptional

\* A step of one call leaves what the invariant says of the others alone.
LEMMA Others ==
  ASSUME NEW c \in Calls, NEW d \in Calls, CallSafe(d),
         caps' = caps, loader' = loader, capFirst' = capFirst, asked'[d] = asked[d],
         pc'[d] = pc[d], op'[d] = op[d], input'[d] = input[d], ctx'[d] = ctx[d],
         reply'[d] = reply[d], loaderErr'[d] = loaderErr[d], result'[d] = result[d],
         cancelledIn'[d] = cancelledIn[d], posted'[d] = posted[d]
  PROVE  CallSafe(d)'
BY DEF CallSafe, CallInv, CancelledBeforeReturn, Cancelled

LEMMA InitIInv == Init => IInv
<1> SUFFICES ASSUME Init PROVE IInv
  OBVIOUS
<1>1. TypeOK
  BY DEF Init, TypeOK, TokenRequests, NoPost, PCs
<1>2. \A c \in Calls : CallSafe(c)
  BY DEF Init, CallSafe, CallInv, CancelledBeforeReturn, Oversize,
     TooLong, Shortened
<1> QED
  BY <1>1, <1>2, IInvByCall

LEMMA StartIInv ==
  ASSUME IInv, NEW c \in Calls, NEW o \in {"complete", "user", "refresh"},
         NEW i \in CompleteRequests \union TokenRequests,
         o = "complete" => i \in CompleteRequests, Start(c, o, i)
  PROVE  IInv'
<1>0. TypeOK /\ CallSafe(c) /\ \A d \in Calls : CallSafe(d)
  BY IInvByCall
<1>1. TypeOK'
  BY <1>0 DEF TypeOK, Start, Goto, PCs
<1>2. CallSafe(c)'
  BY <1>0 DEF TypeOK, CallSafe, CallInv, CancelledBeforeReturn, Start, Goto
<1>3. ASSUME NEW d \in Calls, d # c PROVE CallSafe(d)'
  BY <1>0, <1>3, Others DEF TypeOK, Start, Goto
<1> QED
  BY <1>1, <1>2, <1>3, NextByCall

LEMMA CancelIInv ==
  ASSUME IInv, NEW c \in Calls, Cancel(c)
  PROVE  IInv'
<1>0. TypeOK /\ CallSafe(c) /\ \A d \in Calls : CallSafe(d)
  BY IInvByCall
<1>1. TypeOK'
  BY <1>0 DEF TypeOK, Cancel, PCs
<1>2. CallSafe(c)'
  <2>1. /\ ctx'[c] = "cancelled" /\ cancelledIn'[c] = pc[c] /\ pc[c] \in PCs
        /\ ctx[c] = "live" /\ cancelledIn[c] = "never" /\ pc[c] # "idle"
        /\ UNCHANGED <<caps, loader, capFirst, asked, pc, op, input, reply, loaderErr, result,
                       posted>>
    BY <1>0 DEF TypeOK, Cancel, Cancelled, CallSafe, CallInv
  <2>2. CallInv(c)'
    BY <1>0, <2>1 DEF CallSafe, CallInv, Cancelled, PCs
  <2>3. pc[c] = "done" \/ result[c] = "none"
    BY <1>0 DEF CallSafe, CallInv
  <2>4. pc[c] = "done" => ~CancelledBeforeReturn(c)'
    BY <2>1 DEF CancelledBeforeReturn
  <2> QED
    BY <1>0, <2>1, <2>2, <2>3, <2>4 DEF CallSafe, CancelledBeforeReturn
<1>3. ASSUME NEW d \in Calls, d # c PROVE CallSafe(d)'
  BY <1>0, <1>3, Others DEF TypeOK, Cancel
<1> QED
  BY <1>1, <1>2, <1>3, NextByCall

\* A call that moves on, or returns, stays well typed.
LEMMA MoveTyped ==
  ASSUME TypeOK, NEW c \in Calls,
         \/ \E p \in PCs : Goto(c, p)
         \/ \E e \in {"ok"} \union ErrorCodes : Return(c, e)
  PROVE  /\ pc' \in [Calls -> PCs]
         /\ result' \in [Calls -> {"none", "ok"} \union ErrorCodes]
<1>1. ASSUME NEW p \in PCs, Goto(c, p)
      PROVE  pc' \in [Calls -> PCs] /\ result' = result
  BY <1>1 DEF TypeOK, Goto
<1>2. ASSUME NEW e \in {"ok"} \union ErrorCodes, Return(c, e)
      PROVE  /\ pc' \in [Calls -> PCs]
             /\ result' \in [Calls -> {"none", "ok"} \union ErrorCodes]
  <2>1. "done" \in PCs
    BY DEF PCs
  <2> QED
    BY <1>2, <2>1 DEF TypeOK, Return
<1> QED
  BY <1>1, <1>2 DEF TypeOK

LEMMA ValidateCompleteIInv ==
  ASSUME IInv, NEW c \in Calls, ValidateComplete(c)
  PROVE  IInv'
<1>0. TypeOK /\ CallSafe(c) /\ \A d \in Calls : CallSafe(d)
  BY IInvByCall
<1>1. caps.pkce \in BOOLEAN /\ input[c] \in CompleteRequests
  BY <1>0 DEF TypeOK, ValidateComplete, CallSafe, CallInv
<1> PICK answer : answer = Verdict(caps.pkce, input[c].callback, input[c].session)
  OBVIOUS
<1> DEFINE callback == input[c].callback
           session == input[c].session
           post == [code |-> callback.code,
                    verifier |-> IF caps.pkce THEN session.verifier ELSE Empty]
<1>2. answer \in Rejections \union {"ok"}
  BY DEF Verdict, Rejections
<1>3. answer = "ok" =>
        /\ ~callback.error /\ callback.code # Empty
        /\ session.disabled \/ (callback.state = session.state /\ session.state # Empty)
        /\ caps.pkce => session.verifier # Empty
  BY DEF Verdict, ValidState
<1>4. \/ answer # "ok" /\ Return(c, answer) /\ UNCHANGED posted
      \/ answer = "ok" /\ Goto(c, "token_wait") /\ posted' = [posted EXCEPT ![c] = post]
  BY DEF ValidateComplete
<1>5. /\ pc[c] = "validate" /\ op[c] = "complete"
      /\ UNCHANGED <<caps, loader, capFirst, asked, op, input, ctx, reply, loaderErr, cancelledIn>>
  BY DEF ValidateComplete
<1>6. post \in [code: Codes \union {Empty}, verifier: Verifiers \union {Empty}]
  BY <1>1 DEF CompleteRequests, Callbacks, AuthorizationSessions
<1> HIDE DEF callback, session, post
<1>7. TypeOK'
  <2>1. pc' \in [Calls -> PCs] /\ result' \in [Calls -> {"none", "ok"} \union ErrorCodes]
    <3>1. Rejections \subseteq ErrorCodes /\ {"token_wait", "done"} \subseteq PCs
      BY DEF Rejections, ErrorCodes, PCs
    <3>2. answer # "ok" => answer \in ErrorCodes
      BY <1>2, <3>1
    <3>3. CASE answer = "ok"
      BY <1>0, <1>4, <3>1, <3>3 DEF TypeOK, Goto
    <3>4. CASE answer # "ok"
      <4>1. pc' = [pc EXCEPT ![c] = "done"] /\ result' = [result EXCEPT ![c] = answer]
        BY <1>4, <3>4 DEF Return
      <4>2. pc' \in [Calls -> PCs]
        BY <1>0, <3>1, <4>1 DEF TypeOK
      <4>3. result' \in [Calls -> {"none", "ok"} \union ErrorCodes]
        BY <1>0, <3>2, <3>4, <4>1 DEF TypeOK
      <4> QED
        BY <4>2, <4>3
    <3> QED
      BY <3>3, <3>4
  <2>2. posted' \in [Calls -> [code: Codes \union {Empty}, verifier: Verifiers \union {Empty}]]
    BY <1>0, <1>4, <1>6 DEF TypeOK
  <2> QED
    BY <1>0, <1>5, <2>1, <2>2 DEF TypeOK
<1>8. CallSafe(c)'
  <2>1. CASE answer # "ok"
    BY <1>0, <1>2, <1>4, <1>5, <2>1 DEF TypeOK, CallSafe, CallInv, CancelledBeforeReturn,
       Cancelled, Return, Rejections, Oversize,
     TooLong, Shortened
  <2>2. CASE answer = "ok"
    <3>1. /\ pc'[c] = "token_wait" /\ posted'[c] = post /\ result'[c] = "none"
          /\ reply'[c] = "none"
      BY <1>0, <1>4, <1>5, <2>2 DEF TypeOK, CallSafe, CallInv, Goto
    <3>2. CallInv(c)'
      BY <1>0, <1>5, <3>1 DEF CallSafe, CallInv, Cancelled
    <3>3. /\ post.code = input[c].callback.code
          /\ caps.pkce => post.verifier = input[c].session.verifier
          /\ ~caps.pkce => post.verifier = Empty
      BY DEF post, callback, session
    <3> QED
      BY <1>3, <1>5, <2>2, <3>1, <3>2, <3>3 DEF CallSafe, CancelledBeforeReturn, callback, session
  <2> QED
    BY <2>1, <2>2
<1>9. ASSUME NEW d \in Calls, d # c PROVE CallSafe(d)'
  BY <1>0, <1>4, <1>5, <1>9, Others DEF TypeOK, Goto, Return
<1> QED
  BY <1>7, <1>8, <1>9, NextByCall

LEMMA ValidateUserIInv ==
  ASSUME IInv, NEW c \in Calls, ValidateUser(c)
  PROVE  IInv'
<1>0. TypeOK /\ CallSafe(c) /\ \A d \in Calls : CallSafe(d)
  BY IInvByCall
<1>1. TypeOK'
  <2>1. \/ \E p \in PCs : Goto(c, p)
        \/ \E e \in {"ok"} \union ErrorCodes : Return(c, e)
    <3>1. "load" \in PCs /\ "invalid_request" \in ErrorCodes
      BY DEF PCs, ErrorCodes
    <3> QED
      BY <3>1 DEF ValidateUser
  <2> QED
    BY <1>0, <2>1, MoveTyped DEF TypeOK, ValidateUser
<1>2. CallSafe(c)'
  BY <1>0 DEF TypeOK, CallSafe, CallInv, CancelledBeforeReturn, ValidateUser,
     Goto, Return, Rejections, Oversize,
     TooLong, Shortened
<1>3. ASSUME NEW d \in Calls, d # c PROVE CallSafe(d)'
  BY <1>0, <1>3, Others DEF TypeOK, ValidateUser, Goto, Return
<1> QED
  BY <1>1, <1>2, <1>3, NextByCall

LEMMA ValidateRefreshIInv ==
  ASSUME IInv, NEW c \in Calls, ValidateRefresh(c)
  PROVE  IInv'
<1>0. TypeOK /\ CallSafe(c) /\ \A d \in Calls : CallSafe(d)
  BY IInvByCall
<1>1. TypeOK'
  <2>1. \/ \E p \in PCs : Goto(c, p)
        \/ \E e \in {"ok"} \union ErrorCodes : Return(c, e)
    <3>1. /\ "token_wait" \in PCs
          /\ "unsupported_operation" \in ErrorCodes /\ "invalid_request" \in ErrorCodes
      BY DEF PCs, ErrorCodes
    <3> QED
      BY <3>1 DEF ValidateRefresh
  <2> QED
    BY <1>0, <2>1, MoveTyped DEF TypeOK, ValidateRefresh
<1>2. CallSafe(c)'
  BY <1>0 DEF TypeOK, CallSafe, CallInv, CancelledBeforeReturn,
     ValidateRefresh, Goto, Return, Rejections, Oversize,
     TooLong, Shortened
<1>3. ASSUME NEW d \in Calls, d # c PROVE CallSafe(d)'
  BY <1>0, <1>3, Others DEF TypeOK, ValidateRefresh, Goto, Return
<1> QED
  BY <1>1, <1>2, <1>3, NextByCall

LEMMA AnsweredIInv ==
  ASSUME IInv, NEW c \in Calls, NEW r \in TokenReplies \union UserReplies,
         IF pc[c] = "token_wait" THEN r \in TokenReplies ELSE r \in UserReplies,
         r \in Shortened => capFirst, Answered(c, r)
  PROVE  IInv'
<1>0. TypeOK /\ CallSafe(c) /\ \A d \in Calls : CallSafe(d)
  BY IInvByCall
<1>1. TypeOK'
  BY <1>0 DEF TypeOK, Answered, Goto, PCs
<1>2. CallSafe(c)'
  BY <1>0 DEF TypeOK, CallSafe, CallInv, CancelledBeforeReturn, Answered, Goto,
     TooLong, Shortened, UserReplies
<1>3. ASSUME NEW d \in Calls, d # c PROVE CallSafe(d)'
  BY <1>0, <1>3, Others DEF TypeOK, Answered, Goto
<1> QED
  BY <1>1, <1>2, <1>3, NextByCall

LEMMA TokenFailsIInv ==
  ASSUME IInv, NEW c \in Calls, TokenFails(c)
  PROVE  IInv'
<1>0. TypeOK /\ CallSafe(c) /\ \A d \in Calls : CallSafe(d)
  BY IInvByCall
<1>1. TypeOK'
  <2>1. \/ \E p \in PCs : Goto(c, p)
        \/ \E e \in {"ok"} \union ErrorCodes : Return(c, e)
    <3>1. TokenOperationError(c) \in ErrorCodes
      BY DEF TokenOperationError, ErrorCodes
    <3> QED
      BY <3>1 DEF TokenFails
  <2> QED
    BY <1>0, <2>1, MoveTyped DEF TypeOK, TokenFails
<1>2. CallSafe(c)'
  BY <1>0 DEF TypeOK, CallSafe, CallInv, CancelledBeforeReturn, TokenFails,
     TokenOperationError, Return, Cancelled, TokenReplies, Oversize,
     TooLong, Shortened, Accepted
<1>3. ASSUME NEW d \in Calls, d # c PROVE CallSafe(d)'
  BY <1>0, <1>3, Others DEF TypeOK, TokenFails, Return
<1> QED
  BY <1>1, <1>2, <1>3, NextByCall

LEMMA RefreshReturnsIInv ==
  ASSUME IInv, NEW c \in Calls, RefreshReturns(c)
  PROVE  IInv'
<1>0. TypeOK /\ CallSafe(c) /\ \A d \in Calls : CallSafe(d)
  BY IInvByCall
<1>1. TypeOK'
  <2>1. \/ \E p \in PCs : Goto(c, p)
        \/ \E e \in {"ok"} \union ErrorCodes : Return(c, e)
    <3>1. "transport_failed" \in ErrorCodes
      BY DEF PCs, ErrorCodes
    <3> QED
      BY <3>1 DEF RefreshReturns
  <2> QED
    BY <1>0, <2>1, MoveTyped DEF TypeOK, RefreshReturns
<1>2. CallSafe(c)'
  BY <1>0 DEF TypeOK, CallSafe, CallInv, CancelledBeforeReturn, RefreshReturns,
     Return, Cancelled, Oversize,
     TooLong, Shortened, Accepted
<1>3. ASSUME NEW d \in Calls, d # c PROVE CallSafe(d)'
  BY <1>0, <1>3, Others DEF TypeOK, RefreshReturns, Return
<1> QED
  BY <1>1, <1>2, <1>3, NextByCall

LEMMA ExchangedIInv ==
  ASSUME IInv, NEW c \in Calls, Exchanged(c)
  PROVE  IInv'
<1>0. TypeOK /\ CallSafe(c) /\ \A d \in Calls : CallSafe(d)
  BY IInvByCall
<1>1. TypeOK'
  BY <1>0 DEF TypeOK, Exchanged, Goto, PCs
<1>2. CallSafe(c)'
  BY <1>0 DEF TypeOK, CallSafe, CallInv, CancelledBeforeReturn, Exchanged, Goto
<1>3. ASSUME NEW d \in Calls, d # c PROVE CallSafe(d)'
  BY <1>0, <1>3, Others DEF TypeOK, Exchanged, Goto
<1> QED
  BY <1>1, <1>2, <1>3, NextByCall

LEMMA LoadIInv ==
  ASSUME IInv, NEW c \in Calls, Load(c)
  PROVE  IInv'
<1>0. TypeOK /\ CallSafe(c) /\ \A d \in Calls : CallSafe(d)
  BY IInvByCall
<1>1. TypeOK'
  <2>1. \/ \E p \in PCs : Goto(c, p)
        \/ \E e \in {"ok"} \union ErrorCodes : Return(c, e)
    <3>1. "fetch_wait" \in PCs /\ "transport_failed" \in ErrorCodes
      BY DEF PCs, ErrorCodes
    <3> QED
      BY <3>1 DEF Load
  <2> QED
    BY <1>0, <2>1, MoveTyped DEF TypeOK, Load
<1>2. CallSafe(c)'
  BY <1>0 DEF TypeOK, CallSafe, CallInv, CancelledBeforeReturn, Load, Goto,
     Return, Cancelled
<1>3. ASSUME NEW d \in Calls, d # c PROVE CallSafe(d)'
  BY <1>0, <1>3, Others DEF TypeOK, Load, Goto, Return
<1> QED
  BY <1>1, <1>2, <1>3, NextByCall

LEMMA LoaderReturnsIInv ==
  ASSUME IInv, NEW c \in Calls, NEW e \in ErrorCodes \union {"none", "uncategorised"},
         LoaderReturns(c, e)
  PROVE  IInv'
<1>0. TypeOK /\ CallSafe(c) /\ \A d \in Calls : CallSafe(d)
  BY IInvByCall
<1>1. TypeOK'
  BY <1>0 DEF TypeOK, LoaderReturns, FetchError, Goto, PCs
<1>2. CallSafe(c)'
  BY <1>0 DEF TypeOK, CallSafe, CallInv, CancelledBeforeReturn, LoaderReturns,
     FetchError, Goto, Oversize, Broken, Cancelled,
     UserReplies, Shortened, TooLong
<1>3. ASSUME NEW d \in Calls, d # c PROVE CallSafe(d)'
  BY <1>0, <1>3, Others DEF TypeOK, LoaderReturns, Goto
<1> QED
  BY <1>1, <1>2, <1>3, NextByCall

LEMMA GitHubAsksIInv ==
  ASSUME IInv, NEW c \in Calls, GitHubAsksForEmail(c)
  PROVE  IInv'
<1>0. TypeOK /\ CallSafe(c) /\ \A d \in Calls : CallSafe(d)
  BY IInvByCall
<1>1. TypeOK'
  BY <1>0 DEF TypeOK, GitHubAsksForEmail, Goto, PCs
<1>2. CallSafe(c)'
  BY <1>0 DEF TypeOK, CallSafe, CallInv, CancelledBeforeReturn, GitHubAsksForEmail,
     Goto, Cancelled
<1>3. ASSUME NEW d \in Calls, d # c PROVE CallSafe(d)'
  BY <1>0, <1>3, Others DEF TypeOK, GitHubAsksForEmail, Goto
<1> QED
  BY <1>1, <1>2, <1>3, NextByCall

LEMMA GitHubReturnsIInv ==
  ASSUME IInv, NEW c \in Calls, GitHubReturns(c)
  PROVE  IInv'
<1>0. TypeOK /\ CallSafe(c) /\ \A d \in Calls : CallSafe(d)
  BY IInvByCall
<1>1. FetchError(c) \in ErrorCodes \union {"none"}
  <2>1. pc[c] = "email_done" /\ reply[c] \in UserReplies
    BY <1>0 DEF GitHubReturns, CallSafe, CallInv
  <2> QED
    BY <2>1 DEF FetchError, ErrorCodes, UserReplies, Oversize, Broken
<1>2. TypeOK'
  BY <1>0, <1>1 DEF TypeOK, GitHubReturns, Goto, PCs
<1>3. CallSafe(c)'
  BY <1>0 DEF TypeOK, CallSafe, CallInv, CancelledBeforeReturn, GitHubReturns,
     Goto, Cancelled
<1>4. ASSUME NEW d \in Calls, d # c PROVE CallSafe(d)'
  BY <1>0, <1>4, Others DEF TypeOK, GitHubReturns, Goto
<1> QED
  BY <1>2, <1>3, <1>4, NextByCall

LEMMA LoadReturnsIInv ==
  ASSUME IInv, NEW c \in Calls, LoadReturns(c)
  PROVE  IInv'
<1>0. TypeOK /\ CallSafe(c) /\ \A d \in Calls : CallSafe(d)
  BY IInvByCall
<1>1. TypeOK'
  <2>1. \/ \E p \in PCs : Goto(c, p)
        \/ \E e \in {"ok"} \union ErrorCodes : Return(c, e)
    <3>1. "transport_failed" \in ErrorCodes /\ "response_decoding_failed" \in ErrorCodes
      BY DEF PCs, ErrorCodes
    <3> QED
      BY <3>1 DEF LoadReturns
  <2> QED
    BY <1>0, <2>1, MoveTyped DEF TypeOK, LoadReturns
<1>2. CallSafe(c)'
  BY <1>0 DEF TypeOK, CallSafe, CallInv, CancelledBeforeReturn, LoadReturns,
     Return, Cancelled, Oversize, ErrorCodes,
     TooLong, Shortened, UserReplies, Oversize
<1>3. ASSUME NEW d \in Calls, d # c PROVE CallSafe(d)'
  BY <1>0, <1>3, Others DEF TypeOK, LoadReturns, Return
<1> QED
  BY <1>1, <1>2, <1>3, NextByCall

LEMMA NextIInv == IInv /\ [Next]_vars => IInv'
<1> SUFFICES ASSUME IInv, [Next]_vars PROVE IInv'
  OBVIOUS
<1>1. ASSUME NEW c \in Calls, Step(c) PROVE IInv'
  <2>1. ASSUME NEW r \in Broken, ClientGivesUp(c, r) PROVE IInv'
    BY <2>1, AnsweredIInv DEF ClientGivesUp, Broken, TokenReplies, UserReplies, Shortened
  <2> QED
    BY <1>1, <2>1, ValidateCompleteIInv, ValidateUserIInv, ValidateRefreshIInv,
       TokenFailsIInv, RefreshReturnsIInv, ExchangedIInv, LoadIInv, LoaderReturnsIInv,
       GitHubAsksIInv, GitHubReturnsIInv, LoadReturnsIInv DEF Step
<1>2. ASSUME NEW c \in Calls, Environment(c) PROVE IInv'
  <2>1. ASSUME NEW r \in TokenReplies, TokenEndpoint(c, r) PROVE IInv'
    BY <2>1, AnsweredIInv DEF TokenEndpoint
  <2>2. ASSUME NEW r \in UserReplies, UserEndpoint(c, r) PROVE IInv'
    BY <2>2, AnsweredIInv DEF UserEndpoint, UserReplies, Oversize, Shortened
  <2>3. ASSUME NEW i \in CompleteRequests, Start(c, "complete", i) PROVE IInv'
    BY <2>3, StartIInv
  <2>4. ASSUME NEW o \in {"user", "refresh"}, NEW i \in TokenRequests, Start(c, o, i)
        PROVE  IInv'
    BY <2>4, StartIInv
  <2> QED
    BY <1>2, <2>1, <2>2, <2>3, <2>4, CancelIInv DEF Environment
<1>3. CASE UNCHANGED vars
  <2>1. TypeOK' /\ \A c \in Calls : CallSafe(c)'
    BY <1>3, IInvByCall, Others DEF vars, TypeOK
  <2> QED
    BY <2>1, NextByCall
<1> QED
  BY <1>1, <1>2, <1>3 DEF Next

\* The inductive invariant holds of every reachable state.
THEOREM Invariant == Spec => []IInv
<1>1. IInv /\ [Next]_vars => IInv'
  BY NextIInv
<1> QED
  BY InitIInv, <1>1, PTL DEF Spec

\* Every variable keeps its type.
THEOREM Typing == Spec => []TypeOK
<1>1. IInv => TypeOK
  BY DEF IInv
<1> QED
  BY Invariant, <1>1, PTL

\* An operation whose context ended while it ran never reports success.
THEOREM NoSuccessAfterCancel == Spec => []CancelledNeverSucceeds
<1>1. IInv => CancelledNeverSucceeds
  BY DEF IInv
<1> QED
  BY Invariant, <1>1, PTL

\* ... and blames the context once it had anything sent.
THEOREM CancelBlamed == Spec => []CancellationIsTransport
<1>1. IInv => CancellationIsTransport
  BY DEF IInv
<1> QED
  BY Invariant, <1>1, PTL

\* No code leaves before the callback was checked against its session.
THEOREM CheckedBeforeSent == Spec => []CodeSentWhenChecked
<1>1. IInv => CodeSentWhenChecked
  BY DEF IInv
<1> QED
  BY Invariant, <1>1, PTL

\* No answer about e-mail addresses fails a login whose context lives.
THEOREM EmailNeverFails == Spec => []EmailIsOptional
<1>1. IInv => EmailIsOptional
  BY DEF IInv
<1> QED
  BY Invariant, <1>1, PTL

\* A response is reported as too large exactly if one of its bodies was, except for a token
\* response that golang.org/x/oauth2 cuts at its own limit before the provider's is passed,
\* as it does at the default limit: that one is reported as anything but too large.
THEOREM OversizeIsReported == Spec => []OversizeReported
<1>1. IInv => OversizeReported
  BY DEF IInv
<1> QED
  BY Invariant, <1>1, PTL
-----------------------------------------------------------------------------
(* One answer to each call: the refinement of CallOutcomes.  What a call has *)
(* come past decides what it can still be answered with; PathInv keeps that.  *)

Inner == PCs \ {"idle", "validate", "done"}
Loading == {"load", "fetch_wait", "fetch_done", "email_wait", "email_done", "loader_done"}
BundledErrors == {"transport_failed", "response_too_large", "provider_response_failed",
                  "response_decoding_failed"}

PathInv(c) ==
  /\ op[c] = "none" <=> pc[c] = "idle"
  /\ pc[c] \in Inner => Outcomes!RequestVerdict(c) = "ok"
  /\ pc[c] \in Inner /\ op[c] = "complete" => posted[c] # NoPost
  /\ pc[c] \in Loading => op[c] \in {"complete", "user"}
  /\ pc[c] = "fetch_done" => reply[c] \in UserReplies
  /\ pc[c] = "loader_done" /\ loader # "custom" => loaderErr[c] \in BundledErrors \union {"none"}

PathsInv == \A c \in Calls : PathInv(c)

\* A verdict is made of the request and the capabilities alone.
LEMMA VerdictStays ==
  ASSUME NEW c \in Calls, caps' = caps, op'[c] = op[c], input'[c] = input[c]
  PROVE  Outcomes!RequestVerdict(c)' = Outcomes!RequestVerdict(c)
BY DEF Outcomes!RequestVerdict, Outcomes!RefreshVerdict

\* A step that takes a call where its path says.
LEMMA PathKept ==
  ASSUME NEW c \in Calls, PathInv(c), UNCHANGED <<caps, loader>>,
         op'[c] = op[c], input'[c] = input[c], posted'[c] = posted[c],
         pc[c] # "idle", pc'[c] # "idle", pc'[c] \in Inner => pc[c] \in Inner,
         pc'[c] \in Loading => op[c] \in {"complete", "user"},
         pc'[c] = "fetch_done" => reply'[c] \in UserReplies,
         pc'[c] = "loader_done" /\ loader # "custom" =>
           loaderErr'[c] \in BundledErrors \union {"none"}
  PROVE  PathInv(c)'
<1>1. Outcomes!RequestVerdict(c)' = Outcomes!RequestVerdict(c)
  BY VerdictStays
<1> QED
  BY <1>1 DEF PathInv

LEMMA PathOthers ==
  ASSUME NEW c \in Calls, PathInv(c), UNCHANGED <<caps, loader>>,
         op'[c] = op[c], input'[c] = input[c], posted'[c] = posted[c], pc'[c] = pc[c],
         reply'[c] = reply[c], loaderErr'[c] = loaderErr[c]
  PROVE  PathInv(c)'
<1>1. Outcomes!RequestVerdict(c)' = Outcomes!RequestVerdict(c)
  BY VerdictStays
<1> QED
  BY <1>1 DEF PathInv

\* GetJSON's errors, and the loaders', are four.
LEMMA FetchErrors ==
  ASSUME NEW c \in Calls, reply[c] \in UserReplies
  PROVE  FetchError(c) \in BundledErrors \union {"none"}
BY DEF FetchError, UserReplies, Oversize, Broken, BundledErrors

LEMMA InitPaths == Init => PathsInv
BY DEF Init, PathsInv, PathInv, Inner, Loading

\* Steps of one call leave the paths of the others.
LEMMA OnlyItsPath ==
  ASSUME TypeOK, NEW c \in Calls, NEW d \in Calls, d # c, PathInv(d), Step(c) \/ Environment(c)
  PROVE  PathInv(d)'
<1>1. /\ UNCHANGED <<caps, loader>>
      /\ op'[d] = op[d] /\ input'[d] = input[d] /\ posted'[d] = posted[d] /\ pc'[d] = pc[d]
      /\ reply'[d] = reply[d] /\ loaderErr'[d] = loaderErr[d]
  <2>1. CASE ValidateComplete(c) \/ ValidateUser(c) \/ ValidateRefresh(c)
    BY <2>1 DEF ValidateComplete, ValidateUser, ValidateRefresh, Goto, Return, TypeOK
  <2>2. CASE TokenFails(c) \/ RefreshReturns(c) \/ Exchanged(c) \/ Load(c) \/ LoadReturns(c)
    BY <2>2 DEF TokenFails, RefreshReturns, Exchanged, Load, LoadReturns, Goto, Return, TypeOK
  <2>3. CASE \E r : Answered(c, r)
    BY <2>3 DEF Answered, Goto, TypeOK
  <2>4. CASE GitHubAsksForEmail(c) \/ GitHubReturns(c) \/ \E e : LoaderReturns(c, e)
    BY <2>4 DEF GitHubAsksForEmail, GitHubReturns, LoaderReturns, Goto, TypeOK
  <2>5. CASE Cancel(c) \/ \E o, i : Start(c, o, i)
    BY <2>5 DEF Cancel, Start, Goto, TypeOK
  <2> QED
    BY <2>1, <2>2, <2>3, <2>4, <2>5
    DEF Step, Environment, ClientGivesUp, TokenEndpoint, UserEndpoint
<1> QED
  BY <1>1, PathOthers

\* A request past validation is not refused, and a login's code is on its way.
LEMMA ValidatePath ==
  ASSUME IInv, NEW c \in Calls, PathInv(c),
         ValidateComplete(c) \/ ValidateUser(c) \/ ValidateRefresh(c)
  PROVE  PathInv(c)'
<1>0. /\ TypeOK /\ pc[c] = "validate" /\ op[c] # "none"
      /\ UNCHANGED <<caps, loader, op, input>>
      /\ Outcomes!RequestVerdict(c)' = Outcomes!RequestVerdict(c)
  BY VerdictStays DEF IInv, PathInv, ValidateComplete, ValidateUser, ValidateRefresh
<1>1. CASE pc'[c] = "done"
  BY <1>0, <1>1 DEF PathInv, Inner, Loading
<1>2. CASE ValidateComplete(c) /\ pc'[c] # "done"
  <2>1. /\ Verdict(caps.pkce, input[c].callback, input[c].session) = "ok"
        /\ pc'[c] = "token_wait" /\ op[c] = "complete"
        /\ posted'[c].code = input[c].callback.code
    BY <1>0, <1>2 DEF ValidateComplete, Goto, Return, TypeOK
  <2>2. Outcomes!RequestVerdict(c) = "ok"
    BY <2>1 DEF Outcomes!RequestVerdict, Outcomes!Verdict, Outcomes!ValidState, Verdict, ValidState
  <2>3. posted'[c] # NoPost
    BY <2>1 DEF Verdict, NoPost
  <2> QED
    BY <1>0, <2>1, <2>2, <2>3 DEF PathInv, Inner, Loading
<1>3. CASE ValidateUser(c) /\ pc'[c] # "done"
  <2>1. op[c] = "user" /\ input[c].token # Empty /\ pc'[c] = "load"
    BY <1>0, <1>3 DEF ValidateUser, Goto, Return, TypeOK
  <2>2. Outcomes!RequestVerdict(c) = "ok"
    BY <2>1 DEF Outcomes!RequestVerdict
  <2> QED
    BY <1>0, <2>1, <2>2 DEF PathInv, Inner, Loading
<1>4. CASE ValidateRefresh(c) /\ pc'[c] # "done"
  <2>1. op[c] = "refresh" /\ caps.refresh /\ input[c].token # Empty /\ pc'[c] = "token_wait"
    BY <1>0, <1>4 DEF ValidateRefresh, Goto, Return, TypeOK
  <2>2. Outcomes!RequestVerdict(c) = "ok"
    BY <2>1 DEF Outcomes!RequestVerdict, Outcomes!RefreshVerdict
  <2> QED
    BY <1>0, <2>1, <2>2 DEF PathInv, Inner, Loading
<1> QED
  BY <1>1, <1>2, <1>3, <1>4

LEMMA AnsweredPath ==
  ASSUME IInv, NEW c \in Calls, PathInv(c), NEW r \in TokenReplies \union UserReplies,
         IF pc[c] = "token_wait" THEN r \in TokenReplies ELSE r \in UserReplies,
         Answered(c, r)
  PROVE  PathInv(c)'
<1>1. /\ UNCHANGED <<caps, loader, op, input, posted, loaderErr>>
      /\ reply'[c] = r
      /\ \/ pc[c] = "token_wait" /\ pc'[c] = "token_done"
         \/ pc[c] = "fetch_wait" /\ pc'[c] = "fetch_done"
         \/ pc[c] = "email_wait" /\ pc'[c] = "email_done"
  BY DEF IInv, TypeOK, Answered, Goto
<1>2. pc[c] \in Inner /\ (pc'[c] \in Loading => pc[c] \in Loading)
  BY <1>1 DEF Inner, PCs, Loading
<1> QED
  BY <1>1, <1>2, PathKept DEF PathInv

LEMMA LoaderPath ==
  ASSUME IInv, NEW c \in Calls, PathInv(c),
         \/ \E e \in ErrorCodes \union {"none", "uncategorised"} : LoaderReturns(c, e)
         \/ GitHubAsksForEmail(c) \/ GitHubReturns(c)
  PROVE  PathInv(c)'
<1>1. /\ UNCHANGED <<caps, loader, op, input, posted, reply>>
      /\ pc[c] \in {"fetch_wait", "fetch_done", "email_done"}
      /\ pc'[c] \in {"loader_done", "email_wait"}
  BY DEF IInv, TypeOK, LoaderReturns, GitHubAsksForEmail, GitHubReturns, Goto
<1>2. /\ pc[c] \in Inner /\ pc[c] \in Loading
      /\ pc[c] \in {"fetch_done", "email_done"} => FetchError(c) \in BundledErrors \union {"none"}
  BY <1>1, FetchErrors, IInvByCall DEF PathInv, CallSafe, CallInv, Inner, Loading, PCs
<1>3. ASSUME pc'[c] = "loader_done", loader # "custom"
      PROVE  loaderErr'[c] \in BundledErrors \union {"none"}
  <2>1. ASSUME NEW e \in ErrorCodes \union {"none", "uncategorised"}, LoaderReturns(c, e)
        PROVE  loaderErr'[c] \in BundledErrors \union {"none"}
    BY <1>2, <1>3, <2>1 DEF LoaderReturns, IInv, TypeOK, BundledErrors
  <2>2. ASSUME GitHubReturns(c) PROVE loaderErr'[c] \in BundledErrors \union {"none"}
    BY <1>2, <2>2 DEF GitHubReturns, IInv, TypeOK
  <2>3. ~GitHubAsksForEmail(c)
    BY <1>3 DEF GitHubAsksForEmail, Goto, IInv, TypeOK
  <2> QED
    BY <2>1, <2>2, <2>3
<1> QED
  BY <1>1, <1>2, <1>3, PathKept DEF PathInv

LEMMA OtherPath ==
  ASSUME IInv, NEW c \in Calls, PathInv(c),
         \/ TokenFails(c) \/ RefreshReturns(c) \/ Exchanged(c) \/ Load(c) \/ LoadReturns(c)
         \/ Cancel(c)
  PROVE  PathInv(c)'
<1>1. /\ UNCHANGED <<caps, loader, op, input, posted, reply, loaderErr>>
      /\ pc[c] # "idle"
      /\ \/ pc'[c] = "done" \/ pc'[c] = pc[c]
         \/ pc[c] = "token_done" /\ op[c] = "complete" /\ pc'[c] = "load"
         \/ pc[c] = "load" /\ pc'[c] = "fetch_wait"
  BY DEF IInv, TypeOK, TokenFails, RefreshReturns, Exchanged, Load, LoadReturns, Cancel, Goto,
     Return
<1>2. /\ pc'[c] # "idle" /\ (pc'[c] \in Inner => pc[c] \in Inner)
      /\ pc'[c] \in Loading => pc[c] \in Loading \/ op[c] = "complete"
  BY <1>1 DEF Inner, PCs, Loading
<1> QED
  BY <1>1, <1>2, PathKept DEF PathInv

LEMMA NextPaths == IInv /\ PathsInv /\ [Next]_vars => PathsInv'
<1> SUFFICES ASSUME IInv, PathsInv, [Next]_vars PROVE PathsInv'
  OBVIOUS
<1>1. ASSUME NEW c \in Calls, Step(c) \/ Environment(c) PROVE PathInv(c)'
  <2>0. PathInv(c)
    BY DEF PathsInv
  <2>1. ASSUME NEW r \in Broken, ClientGivesUp(c, r) PROVE PathInv(c)'
    BY <2>0, <2>1, AnsweredPath DEF ClientGivesUp, Broken, TokenReplies, UserReplies
  <2>2. ASSUME NEW r \in TokenReplies, TokenEndpoint(c, r) PROVE PathInv(c)'
    BY <2>0, <2>2, AnsweredPath DEF TokenEndpoint
  <2>3. ASSUME NEW r \in UserReplies, UserEndpoint(c, r) PROVE PathInv(c)'
    BY <2>0, <2>3, AnsweredPath DEF UserEndpoint
  <2>4. ASSUME NEW o \in {"complete", "user", "refresh"}, NEW i, Start(c, o, i)
        PROVE  PathInv(c)'
    <3>1. op'[c] = o /\ pc'[c] = "validate"
      BY <2>4 DEF Start, Goto, IInv, TypeOK
    <3> QED
      BY <2>4, <3>1 DEF PathInv, Inner, Loading
  <2> QED
    BY <1>1, <2>0, <2>1, <2>2, <2>3, <2>4, ValidatePath, LoaderPath, OtherPath
    DEF Step, Environment
<1>2. CASE UNCHANGED vars
  BY <1>2, PathOthers DEF vars, PathsInv
<1>3. CASE Next
  <2>1. PICK c \in Calls : Step(c) \/ Environment(c)
    BY <1>3 DEF Next
  <2>2. \A d \in Calls \ {c} : PathInv(d)'
    BY <2>1, OnlyItsPath DEF IInv, PathsInv
  <2> QED
    BY <1>1, <2>1, <2>2 DEF PathsInv
<1> QED
  BY <1>2, <1>3

\* What a caller sees of a call that moves on inside.
LEMMA Unseen ==
  ASSUME IInv, IInv', UNCHANGED <<caps, loader, op, input, posted, result, cancelledIn>>
  PROVE  UNCHANGED Outcomes!vars
BY DEF Outcomes!vars, CancelledBeforeReturn

\* An operation returns what its request, its context and the provider left it.
LEMMA Answering ==
  ASSUME IInv, PathsInv, NEW c \in Calls, pc[c] \notin {"idle", "done"},
         NEW a \in ErrorCodes \union {"ok"}, Return(c, a),
         UNCHANGED <<caps, loader, op, input, posted, cancelledIn>>,
         a \in Outcomes!Answers(c),
         op[c] = "complete" => (posted[c] = NoPost <=> Outcomes!RequestVerdict(c) # "ok")
  PROVE  Outcomes!Next
<1>1. Outcomes!Running(c)
  BY DEF Outcomes!Running, PathsInv, PathInv, IInv, CallInv
<1>2. result' = [result EXCEPT ![c] = a]
  BY DEF Return
<1>3. UNCHANGED [d \in Calls |-> CancelledBeforeReturn(d)]
  BY DEF CancelledBeforeReturn
<1>4. Outcomes!Answer(c, a)
  BY <1>1, <1>2, <1>3 DEF Outcomes!Answer, Outcomes!Nothing, NoPost
<1> QED
  BY <1>4 DEF Outcomes!Next

\* What an operation may return once its request was let through.
LEMMA LetThrough ==
  ASSUME IInv, PathsInv, NEW c \in Calls, pc[c] \in Inner, NEW a,
         Cancelled(c) => a = "transport_failed",
         a \in {"ok", "transport_failed"} \union Outcomes!Failures(c)
  PROVE  /\ pc[c] \notin {"idle", "done"}
         /\ a \in Outcomes!Answers(c)
         /\ op[c] = "complete" => (posted[c] = NoPost <=> Outcomes!RequestVerdict(c) # "ok")
<1>1. PathInv(c) /\ CallInv(c)
  BY DEF PathsInv, IInv
<1>2. pc[c] \notin {"idle", "done"} /\ Outcomes!RequestVerdict(c) = "ok"
  BY <1>1 DEF PathInv, Inner
<1>3. CancelledBeforeReturn(c) <=> Cancelled(c)
  BY <1>1, <1>2 DEF CallInv, CancelledBeforeReturn, Cancelled, IInv, TypeOK
<1>4. "transport_failed" \in Outcomes!Failures(c)
  BY <1>1 DEF Outcomes!Failures, Outcomes!TokenFailures, Outcomes!LoaderFailures, ErrorCodes
<1>5. a \in Outcomes!Answers(c)
  BY <1>2, <1>3, <1>4 DEF Outcomes!Answers
<1> QED
  BY <1>1, <1>2, <1>5 DEF PathInv

LEMMA StartSeen ==
  ASSUME IInv, IInv', PathsInv, NEW c \in Calls, NEW o \in {"complete", "user", "refresh"},
         NEW i, IF o = "complete" THEN i \in CompleteRequests ELSE i \in TokenRequests,
         Start(c, o, i)
  PROVE  Outcomes!Next
<1>1. op[c] = "none"
  BY DEF Start, PathsInv, PathInv
<1>2. /\ op' = [op EXCEPT ![c] = o] /\ input' = [input EXCEPT ![c] = i]
      /\ UNCHANGED <<caps, loader, result, cancelledIn, posted>>
  BY DEF Start, Goto
<1>3. UNCHANGED [d \in Calls |-> CancelledBeforeReturn(d)]
  BY <1>2 DEF CancelledBeforeReturn
<1>4. Outcomes!Ask(c, o, i)
  BY <1>1, <1>2, <1>3 DEF Outcomes!Ask
<1> QED
  BY <1>4 DEF Outcomes!Next

\* The end of a context is seen until the call returns.
LEMMA CancelSeen ==
  ASSUME IInv, IInv', PathsInv, NEW c \in Calls, Cancel(c)
  PROVE  Outcomes!Next \/ UNCHANGED Outcomes!vars
<1>1. /\ UNCHANGED <<caps, loader, pc, op, input, result, posted>>
      /\ pc[c] # "idle" /\ cancelledIn[c] = "never"
      /\ cancelledIn' = [cancelledIn EXCEPT ![c] = pc[c]] /\ DOMAIN cancelledIn = Calls
  BY DEF Cancel, Cancelled, IInv, TypeOK, CallInv
<1>2. CASE pc[c] = "done"
  <2>1. \A d \in Calls : CancelledBeforeReturn(d)' = CancelledBeforeReturn(d)
    BY <1>1, <1>2 DEF CancelledBeforeReturn
  <2> QED
    BY <1>1, <2>1 DEF Outcomes!vars
<1>3. CASE pc[c] # "done"
  <2>1. Outcomes!Running(c)
    BY <1>1, <1>3 DEF Outcomes!Running, IInv, CallInv, PathsInv, PathInv
  <2>2. pc[c] \notin {"never", "done"}
    BY <1>3 DEF IInv, TypeOK, PCs
  <2>3. [d \in Calls |-> CancelledBeforeReturn(d)]'
          = [[d \in Calls |-> CancelledBeforeReturn(d)] EXCEPT ![c] = TRUE]
    BY <1>1, <2>2 DEF CancelledBeforeReturn
  <2>4. ~CancelledBeforeReturn(c)
    BY <1>1 DEF CancelledBeforeReturn
  <2>5. Outcomes!End(c)
    BY <1>1, <2>1, <2>3, <2>4 DEF Outcomes!End
  <2> QED
    BY <2>5 DEF Outcomes!Next
<1> QED
  BY <1>2, <1>3

LEMMA ValidateCompleteSeen ==
  ASSUME IInv, IInv', PathsInv, NEW c \in Calls, ValidateComplete(c)
  PROVE  Outcomes!Next
<1> PICK answer : answer = Verdict(caps.pkce, input[c].callback, input[c].session)
  OBVIOUS
<1>1. /\ pc[c] = "validate" /\ op[c] = "complete" /\ posted[c] = NoPost
      /\ UNCHANGED <<caps, loader, op, input, cancelledIn>>
  BY DEF ValidateComplete, IInv, CallInv
<1>2. Outcomes!RequestVerdict(c) = answer
  BY <1>1 DEF Outcomes!RequestVerdict, Outcomes!Verdict, Outcomes!ValidState, Verdict, ValidState
<1>3. CASE answer # "ok"
  <2>1. Return(c, answer) /\ UNCHANGED posted
    BY <1>3 DEF ValidateComplete
  <2>2. answer \in Outcomes!Answers(c)
    BY <1>2, <1>3 DEF Outcomes!Answers
  <2>3. answer \in ErrorCodes
    BY <1>3 DEF Verdict, ErrorCodes
  <2> QED
    BY <1>1, <1>2, <1>3, <2>1, <2>2, <2>3, Answering
<1>4. CASE answer = "ok"
  <2>1. /\ UNCHANGED result
        /\ posted' = [posted EXCEPT ![c] =
             [code |-> input[c].callback.code,
              verifier |-> IF caps.pkce THEN input[c].session.verifier ELSE Empty]]
    BY <1>4 DEF ValidateComplete, Goto
  <2>2. Outcomes!Running(c)
    BY <1>1 DEF Outcomes!Running, IInv, CallInv
  <2>3. UNCHANGED [d \in Calls |-> CancelledBeforeReturn(d)]
    BY <1>1 DEF CancelledBeforeReturn
  <2>4. Outcomes!Send(c)
    BY <1>1, <1>2, <1>4, <2>1, <2>2, <2>3 DEF Outcomes!Send, Outcomes!Nothing, NoPost
  <2> QED
    BY <2>4 DEF Outcomes!Next
<1> QED
  BY <1>3, <1>4

LEMMA ValidateTokenSeen ==
  ASSUME IInv, IInv', PathsInv, NEW c \in Calls, ValidateUser(c) \/ ValidateRefresh(c)
  PROVE  Outcomes!Next \/ UNCHANGED Outcomes!vars
<1>1. /\ pc[c] = "validate" /\ op[c] \in {"user", "refresh"}
      /\ UNCHANGED <<caps, loader, op, input, cancelledIn, posted>>
  BY DEF ValidateUser, ValidateRefresh
<1>2. CASE UNCHANGED result
  BY <1>1, <1>2, Unseen
<1>3. CASE ~UNCHANGED result
  <2>1. PICK a \in {"invalid_request", "unsupported_operation"} :
          Return(c, a) /\ a = Outcomes!RequestVerdict(c)
    BY <1>3 DEF ValidateUser, ValidateRefresh, Goto, Outcomes!RequestVerdict,
       Outcomes!RefreshVerdict
  <2>2. a \in ErrorCodes /\ a \in Outcomes!Answers(c)
    BY <2>1 DEF Outcomes!Answers, ErrorCodes
  <2> QED
    BY <1>1, <2>1, <2>2, Answering
<1> QED
  BY <1>2, <1>3

LEMMA TokenSeen ==
  ASSUME IInv, IInv', PathsInv, NEW c \in Calls, TokenFails(c) \/ RefreshReturns(c)
  PROVE  Outcomes!Next
<1>1. /\ pc[c] = "token_done" /\ op[c] \in {"complete", "refresh"}
      /\ UNCHANGED <<caps, loader, op, input, cancelledIn, posted>>
      /\ pc[c] \in Inner
  BY DEF TokenFails, RefreshReturns, IInv, CallInv, Inner, PCs
<1>2. PICK a : /\ Return(c, a)
               /\ Cancelled(c) => a = "transport_failed"
               /\ a \in {"ok"} \union Outcomes!TokenFailures(c)
  BY <1>1 DEF TokenFails, RefreshReturns, TokenOperationError, Outcomes!TokenFailures
<1>3. a \in {"ok"} \union Outcomes!Failures(c) /\ a \in ErrorCodes \union {"ok"}
  BY <1>1, <1>2 DEF Outcomes!Failures, Outcomes!TokenFailures, ErrorCodes
<1> QED
  BY <1>1, <1>2, <1>3, LetThrough, Answering

LEMMA LoadSeen ==
  ASSUME IInv, IInv', PathsInv, NEW c \in Calls, Load(c) \/ LoadReturns(c)
  PROVE  Outcomes!Next \/ UNCHANGED Outcomes!vars
<1>1. /\ pc[c] \in {"load", "loader_done"} /\ op[c] \in {"complete", "user"}
      /\ UNCHANGED <<caps, loader, op, input, cancelledIn, posted>>
      /\ pc[c] \in Inner
  BY DEF Load, LoadReturns, PathsInv, PathInv, Loading, Inner, PCs
<1>2. CASE UNCHANGED result
  BY <1>1, <1>2, Unseen
<1>3. CASE ~UNCHANGED result
  <2>1. PICK a : /\ Return(c, a)
                 /\ Cancelled(c) => a = "transport_failed"
                 /\ \/ a \in {"ok", "transport_failed", "response_decoding_failed"}
                    \/ LoadReturns(c) /\ a = loaderErr[c] /\ a \in ErrorCodes
    <3>1. CASE Cancelled(c)
      <4>1. Return(c, "transport_failed")
        BY <1>3, <3>1 DEF Load, LoadReturns, Goto
      <4> QED
        BY <4>1
    <3>2. CASE ~Cancelled(c)
      <4>1. LoadReturns(c)
        BY <1>3, <3>2 DEF Load, Goto
      <4>2. \/ Return(c, "ok") \/ Return(c, "response_decoding_failed")
            \/ loaderErr[c] \in ErrorCodes /\ Return(c, loaderErr[c])
        BY <3>2, <4>1 DEF LoadReturns
      <4> QED
        BY <3>2, <4>1, <4>2
    <3> QED
      BY <3>1, <3>2
  <2>2. a \in {"ok", "transport_failed"} \union Outcomes!LoaderFailures
    <3>1. CASE a \in {"ok", "transport_failed"}
      BY <3>1
    <3>2. CASE a = "response_decoding_failed"
      BY <3>2 DEF Outcomes!LoaderFailures, ErrorCodes
    <3>3. CASE LoadReturns(c) /\ a = loaderErr[c] /\ a \in ErrorCodes /\ loader = "custom"
      BY <3>3 DEF Outcomes!LoaderFailures
    <3>4. CASE LoadReturns(c) /\ a = loaderErr[c] /\ a \in ErrorCodes /\ loader # "custom"
      <4>1. a \in BundledErrors
        BY <3>4 DEF LoadReturns, PathsInv, PathInv, ErrorCodes
      <4> QED
        BY <3>4, <4>1 DEF BundledErrors, Outcomes!LoaderFailures
    <3> QED
      BY <2>1, <3>1, <3>2, <3>3, <3>4
  <2>3. a \in {"ok", "transport_failed"} \union Outcomes!Failures(c)
    BY <1>1, <2>2 DEF Outcomes!Failures
  <2>4. a \in ErrorCodes \union {"ok"}
    BY <2>1 DEF ErrorCodes
  <2> QED
    BY <1>1, <2>1, <2>3, <2>4, LetThrough, Answering
<1> QED
  BY <1>2, <1>3

\* Each step of the code is one of the promise's, or is not seen.
LEMMA NextSeen ==
  ASSUME IInv, IInv', PathsInv, [Next]_vars
  PROVE  [Outcomes!Next]_(Outcomes!vars)
<1>1. ASSUME NEW c \in Calls, Step(c) PROVE Outcomes!Next \/ UNCHANGED Outcomes!vars
  <2>1. ASSUME \/ Exchanged(c) \/ GitHubAsksForEmail(c) \/ GitHubReturns(c)
               \/ (\E r \in Broken : ClientGivesUp(c, r))
               \/ \E e \in ErrorCodes \union {"none", "uncategorised"} : LoaderReturns(c, e)
        PROVE  UNCHANGED Outcomes!vars
    <3>1. UNCHANGED <<caps, loader, op, input, posted, result, cancelledIn>>
      BY <2>1 DEF Exchanged, GitHubAsksForEmail, GitHubReturns, ClientGivesUp, LoaderReturns,
         Answered, Goto
    <3> QED
      BY <3>1, Unseen
  <2> QED
    BY <1>1, <2>1, ValidateCompleteSeen, ValidateTokenSeen, TokenSeen, LoadSeen DEF Step
<1>2. ASSUME NEW c \in Calls, Environment(c) PROVE Outcomes!Next \/ UNCHANGED Outcomes!vars
  <2>1. ASSUME NEW r, TokenEndpoint(c, r) \/ UserEndpoint(c, r)
        PROVE  UNCHANGED Outcomes!vars
    <3>1. UNCHANGED <<caps, loader, op, input, posted, result, cancelledIn>>
      BY <2>1 DEF TokenEndpoint, UserEndpoint, Answered, Goto
    <3> QED
      BY <3>1, Unseen
  <2> QED
    BY <1>2, <2>1, StartSeen, CancelSeen DEF Environment
<1>3. CASE UNCHANGED vars
  BY <1>3, Unseen DEF vars
<1> QED
  BY <1>1, <1>2, <1>3 DEF Next

\* Calls follow their paths.
LEMMA Paths == Spec => []PathsInv
<1>1. PathsInv /\ IInv /\ [Next]_vars => PathsInv'
  BY NextPaths
<1> QED
  BY InitPaths, <1>1, Invariant, PTL DEF Spec

\* Complete, User and Refresh give one answer to each call, the one their request, their
\* context and the provider left them, and send a code once (provider.go:66-163).
THEOREM OperationsRefine == Spec => ImplementsCallOutcomes
<1>1. Init => Outcomes!Init
  <2> SUFFICES ASSUME Init PROVE Outcomes!Init
    OBVIOUS
  <2>1. \A c \in Calls : CancelledBeforeReturn(c) = FALSE
    BY DEF Init, CancelledBeforeReturn
  <2>2. [c \in Calls |-> CancelledBeforeReturn(c)] = [c \in Calls |-> FALSE]
    BY <2>1
  <2> QED
    BY <2>2 DEF Init, Outcomes!Init, Outcomes!Nothing, NoPost
<1>2. IInv /\ IInv' /\ PathsInv /\ [Next]_vars => [Outcomes!Next]_(Outcomes!vars)
  BY NextSeen
<1> QED
  BY <1>1, <1>2, Invariant, Paths, PTL DEF Spec, Outcomes!Spec, ImplementsCallOutcomes

-----------------------------------------------------------------------------
(* The bodies they read: theorems about the response-size limit, for every *)
(* int64 width, every limit New accepts, every body and every way of       *)
(* cutting it into reads. BodyIInv relates the two countdowns: what         *)
(* boundedReadCloser still allows and what the reader above it still asks   *)
(* for both add up, with the bytes collected, to a constant of the request. *)

USE SizeAssumption DEF Streamed

\* The arithmetic the limits are made for: below MaxInt nothing wraps.
LEMMA IncExact == ASSUME NEW n \in Int, n < MaxInt PROVE Inc(n) = n + 1
BY DEF Inc

LEMMA BodyInitIInv == BodyInit => BodyIInv
<1> SUFFICES ASSUME BodyInit PROVE BodyIInv  OBVIOUS
<1>1. limit \in Nat /\ size \in Nat  BY DEF BodyInit, Body, Limits
<1>2. BodyTypeOK  BY <1>1 DEF BodyInit, BodyTypeOK
<1> QED  BY <1>2 DEF BodyInit, BodyIInv

LEMMA RoundTripIInv == ASSUME BodyIInv, RoundTrip PROVE BodyIInv'
<1> USE DEF BodyIInv, BodyTypeOK, Body, server
<1>1. limit \in Nat /\ limit < MaxInt  BY DEF Limits
<1>2. UNCHANGED <<server, taken, body>>  BY DEF RoundTrip
<1>3. Body' /\ Limits' = Limits  BY <1>2 DEF Limits
<1>4. CASE declared > limit
  <2>1. /\ phase' = "done" /\ verdict' = "response_too_large"
        /\ UNCHANGED <<remaining, quota>>
    BY <1>1, <1>4 DEF RoundTrip, Done
  <2>2. phase = "request"  BY DEF RoundTrip
  <2>3. BodyTypeOK'  BY <1>1, <1>2, <1>3, <2>1
  <2>4. VerdictExact'  BY <1>2, <1>4, <2>1 DEF VerdictExact, Reported, LooksPastLimit, Smaller
  <2>5. taken' <= limit' + 1  BY <1>1, <1>2, <2>2
  <2> QED  BY <2>1, <2>3, <2>4, <2>5
<1>5. CASE declared <= limit
  <2>1. Quota = IF reader = "user" THEN limit + 1 ELSE TokenCap
    BY <1>1, IncExact DEF Quota
  <2>2. /\ phase' = "reading"
        /\ remaining' = limit
        /\ quota' = Quota
        /\ verdict' = "none"
    BY <1>1, <1>5 DEF RoundTrip, Streamed
  <2>3. phase = "request" /\ body = 0 /\ taken = 0  BY DEF RoundTrip
  <2>4. BodyTypeOK'  BY <1>1, <1>2, <1>3, <2>1, <2>2, <2>3
  <2>5. /\ remaining' + body' = limit'
        /\ quota' + body' = IF reader' = "user" THEN limit' + 1 ELSE TokenCap
        /\ body' = taken'
        /\ declared' <= limit'
    BY <1>1, <1>2, <1>5, <2>1, <2>2, <2>3
  <2> QED  BY <2>2, <2>4, <2>5
<1>6. declared \in Int  BY DEF Streamed
<1> QED  BY <1>1, <1>4, <1>5, <1>6

LEMMA QuotaUsedUpIInv == ASSUME BodyIInv, QuotaUsedUp PROVE BodyIInv'
<1> USE DEF BodyIInv, BodyTypeOK, Body, server
<1>1. limit \in Nat  BY DEF Limits
<1>2. /\ UNCHANGED <<server, remaining, quota, taken, body>>
      /\ phase = "reading" /\ quota = 0 /\ phase' = "done"
      /\ verdict' = IF reader = "user" /\ body > limit THEN "response_too_large" ELSE "decode"
  BY DEF QuotaUsedUp, AtEnd, Done
<1>3. /\ reader # "user" /\ TokenCap <= limit
      /\ body <= limit
  BY <1>1, <1>2
<1>4. body = TokenCap /\ size >= TokenCap /\ declared <= limit  BY <1>1, <1>2, <1>3
<1>5. VerdictExact'
  BY <1>1, <1>2, <1>3, <1>4 DEF VerdictExact, Reported, LooksPastLimit, Smaller
<1> QED  BY <1>1, <1>2, <1>3, <1>5 DEF Limits

\* What every read that goes through ReadAll keeps.
LEMMA CollectedIInv ==
  ASSUME BodyIInv, NEW count \in Nat, NEW error \in {"none", "eof", "failure"},
         Collected(count, error), UNCHANGED server,
         phase = "reading", count <= remaining, count <= quota, count <= size - taken,
         remaining' = remaining - count,
         error # "none" => taken + count = size /\ (failing <=> error = "failure")
  PROVE  BodyIInv'
<1> USE DEF BodyIInv, BodyTypeOK, Body, server
<1>1. limit \in Nat  BY DEF Limits
<1>2. /\ UNCHANGED <<reader, limit, declared, size, failing>>
      /\ taken' = taken + count
      /\ body' = body + count
      /\ quota' = quota - count
  BY DEF Collected
<1>3. /\ limit' \in Limits'
      /\ Body'
      /\ remaining' \in 0..limit'
      /\ quota' \in Nat
      /\ taken' \in 0..size'
      /\ body' \in 0..taken'
  BY <1>1, <1>2 DEF Limits
<1>4. CASE error = "none"
  <2>1. UNCHANGED <<phase, verdict>>  BY <1>4 DEF Collected
  <2> QED  BY <1>1, <1>2, <1>3, <2>1
<1>5. CASE error = "eof"
  <2>1. /\ phase' = "done"
        /\ verdict' = IF reader = "user" /\ body + count > limit
                      THEN "response_too_large" ELSE "decode"
    BY <1>5 DEF Collected, AtEnd, Done
  <2>2. body + count <= limit  BY <1>1
  <2>3. verdict' = "decode" /\ ~failing /\ body' = size /\ size <= limit /\ declared <= limit
    BY <1>1, <1>2, <1>5, <2>1, <2>2
  <2>4. VerdictExact'  BY <1>2, <2>1, <2>3 DEF VerdictExact, Reported, LooksPastLimit, Smaller
  <2>5. taken' <= limit' + 1  BY <1>1, <1>2, <2>2
  <2> QED  BY <1>2, <1>3, <2>1, <2>3, <2>4, <2>5
<1>6. CASE error = "failure"
  <2>1. phase' = "done" /\ verdict' = "read_failed"
    BY <1>6 DEF Collected, Done
  <2>2. /\ failing /\ size <= limit /\ declared <= limit
        /\ reader # "user" => size <= TokenCap
    BY <1>1, <1>2, <1>6
  <2>3. VerdictExact'
    BY <1>1, <1>2, <2>1, <2>2 DEF VerdictExact, Reported, LooksPastLimit, Smaller
  <2>4. taken' <= limit' + 1  BY <1>1, <1>2
  <2> QED  BY <1>2, <1>3, <2>1, <2>3, <2>4
<1> QED  BY <1>4, <1>5, <1>6

LEMMA ProbeIInv == ASSUME BodyIInv, Probe PROVE BodyIInv'
<1> USE DEF BodyIInv, BodyTypeOK, Body, server
<1>1. limit \in Nat /\ phase = "reading" /\ remaining = 0 /\ quota > 0
  BY DEF Limits, Probe
<1>2. PICK count \in 0..1, end \in BOOLEAN :
        /\ WireRead(1, count, end)
        /\ \/ /\ count > 0
              /\ taken' = taken + count
              /\ Done("response_too_large")
              /\ UNCHANGED <<body, quota>>
           \/ count = 0 /\ Collected(0, EndOfBody)
  BY DEF Probe
<1>3. UNCHANGED <<server, remaining>>  BY DEF Probe
<1>4. size - taken \in Nat  OBVIOUS
<1>5. CASE count > 0
  <2>1. /\ taken' = taken + 1
        /\ phase' = "done" /\ verdict' = "response_too_large"
        /\ UNCHANGED <<body, quota>>
    BY <1>2, <1>5 DEF Done
  <2>2. taken + 1 <= size
    BY <1>2, <1>4, <1>5 DEF WireRead, Smaller
  <2>3. taken = limit  BY <1>1
  <2> QED  BY <1>1, <1>3, <2>1, <2>2, <2>3 DEF VerdictExact, Reported, LooksPastLimit, Smaller, Limits
<1>6. CASE count = 0
  <2>1. end /\ taken = size
    BY <1>2, <1>6 DEF WireRead
  <2>2. Collected(0, EndOfBody)  BY <1>2, <1>6
  <2>3. EndOfBody \in {"eof", "failure"} /\ (failing <=> EndOfBody = "failure")
    BY DEF EndOfBody
  <2> HIDE DEF BodyIInv, BodyTypeOK, Body, server
  <2>4. remaining \in Nat /\ quota \in Nat /\ taken \in Nat /\ size \in Nat
    BY DEF BodyIInv, BodyTypeOK, Body
  <2> QED  BY <1>1, <1>3, <2>1, <2>2, <2>3, <2>4, CollectedIInv
<1> QED  BY <1>2, <1>5, <1>6

LEMMA ReadIInv == ASSUME BodyIInv, Read PROVE BodyIInv'
<1> USE DEF BodyIInv, BodyTypeOK, Body, server
<1>1. /\ limit \in Nat /\ limit < MaxInt
      /\ phase = "reading" /\ remaining > 0 /\ quota > 0
      /\ UNCHANGED server
  BY DEF Limits, Read
<1>2. PICK buffer \in 1..MaxBuffer, end \in BOOLEAN : \E count \in 0..Wanted(buffer) :
        /\ WireRead(Wanted(buffer), count, end)
        /\ \/ /\ count > remaining
              /\ remaining' = 0
              /\ taken' = taken + count
              /\ body' = body + remaining
              /\ quota' = quota - remaining
              /\ Done("response_too_large")
           \/ /\ count <= remaining
              /\ remaining' = remaining - count
              /\ Collected(count, IF end THEN EndOfBody ELSE "none")
  BY DEF Read
<1>3. PICK count \in 0..Wanted(buffer) :
        /\ WireRead(Wanted(buffer), count, end)
        /\ \/ /\ count > remaining
              /\ remaining' = 0
              /\ taken' = taken + count
              /\ body' = body + remaining
              /\ quota' = quota - remaining
              /\ Done("response_too_large")
           \/ /\ count <= remaining
              /\ remaining' = remaining - count
              /\ Collected(count, IF end THEN EndOfBody ELSE "none")
  BY <1>2
<1>4. Inc(remaining) = remaining + 1  BY <1>1, IncExact
<1>5. /\ Wanted(buffer) \in Nat
      /\ Wanted(buffer) <= quota /\ Wanted(buffer) <= remaining + 1
  BY <1>1, <1>4 DEF Wanted, Smaller
<1>6. /\ count \in Nat /\ count <= quota /\ count <= remaining + 1
      /\ count <= size - taken
      /\ end => taken + count = size
  BY <1>1, <1>3, <1>5 DEF WireRead, Smaller
<1>7. CASE count > remaining
  <2>1. /\ remaining' = 0
        /\ taken' = taken + count
        /\ body' = body + remaining
        /\ quota' = quota - remaining
        /\ phase' = "done" /\ verdict' = "response_too_large"
    BY <1>1, <1>3, <1>6, <1>7 DEF Done
  <2>2. count = remaining + 1  BY <1>1, <1>6, <1>7
  <2>3. taken + count = limit + 1 /\ size > limit  BY <1>1, <1>6, <2>2
  <2> QED  BY <1>1, <1>6, <2>1, <2>2, <2>3 DEF VerdictExact, Reported, LooksPastLimit, Smaller, Limits
<1>8. CASE count <= remaining
  <2> DEFINE error == IF end THEN EndOfBody ELSE "none"
  <2>1. remaining' = remaining - count /\ Collected(count, error)
    BY <1>1, <1>3, <1>6, <1>8
  <2>2. error \in {"none", "eof", "failure"}  BY DEF EndOfBody
  <2>3. error # "none" => end /\ (failing <=> error = "failure")
    BY DEF EndOfBody
  <2> HIDE DEF BodyIInv, BodyTypeOK, Body, server, error
  <2> QED  BY <1>1, <1>6, <1>8, <2>1, <2>2, <2>3, CollectedIInv
<1>9. remaining \in Nat  BY <1>1
<1> QED  BY <1>6, <1>7, <1>8, <1>9

\* The strengthened invariant holds in every reachable state of a request.
THEOREM BodyInvariant == BodySpec => []BodyIInv
<1>1. BodyIInv /\ UNCHANGED bodyVars => BodyIInv'
  BY DEF BodyIInv, BodyTypeOK, Body, VerdictExact, Reported, LooksPastLimit, Smaller, bodyVars, Limits
<1>2. BodyIInv /\ [BodyNext]_bodyVars => BodyIInv'
  BY <1>1, RoundTripIInv, QuotaUsedUpIInv, ProbeIInv, ReadIInv DEF BodyNext
<1> QED  BY BodyInitIInv, <1>2, PTL DEF BodySpec

\* No countdown goes below zero and none of the counts wraps.
THEOREM BodyTyping == BodySpec => []BodyTypeOK
<1>1. BodyIInv => BodyTypeOK  BY DEF BodyIInv
<1> QED  BY BodyInvariant, <1>1, PTL

\* For every limit, length and way of reading: a body is reported as too large exactly if
\* it says so beforehand or is longer and its reader comes to see it, which the token
\* reader at a limit of its own or more does not; a body that reader does not cut is
\* decoded whole, and a failed read is a failed read.
THEOREM ExactVerdict == BodySpec => []VerdictExact
<1>1. BodyIInv => VerdictExact  BY DEF BodyIInv, VerdictExact
<1> QED  BY BodyInvariant, <1>1, PTL

\* Of any body at most one byte past the limit is read.
THEOREM BoundedReading == BodySpec => []WireBounded
<1>1. BodyIInv => WireBounded
  <2> SUFFICES ASSUME BodyIInv PROVE WireBounded  OBVIOUS
  <2>1. limit \in Nat  BY DEF BodyIInv, BodyTypeOK, Limits
  <2> QED  BY <2>1 DEF BodyIInv, BodyTypeOK, WireBounded
<1> QED  BY BodyInvariant, <1>1, PTL
=============================================================================
