------------------------- MODULE SessionStoreProofs -------------------------
(* Proofs about SessionStore, for every number of callers, sessions,       *)
(* identifiers and attempts and every TTL.                                 *)
EXTENDS SessionStore, TLAPS

\* The pc of a caller says which record its local variables are.
LEMMA CallShape ==
  ASSUME TypeOK, NEW c \in Callers
  PROVE  /\ call[c] = Idle \/ call[c] \in Drawing \/ call[c] \in Inserting
            \/ call[c] \in Checking
         /\ call[c].pc = "draw" => call[c] \in Drawing
         /\ call[c].pc = "insert" => call[c] \in Inserting
         /\ call[c].pc = "check" => call[c] \in Checking
         /\ call[c] = Idle => call[c].pc = "idle"
BY DEF TypeOK, Idle, Drawing, Inserting, Checking

\* A caller's step changes its own call only.
LEMMA StepCall ==
  ASSUME TypeOK, NEW c \in Callers, NEW local, NEW result,
         local \in {Idle} \union Drawing \union Inserting \union Checking,
         result \in Answers, Step(c, local, result)
  PROVE  /\ call' \in [Callers -> {Idle} \union Drawing \union Inserting \union Checking]
         /\ answer' \in [Callers -> Answers]
         /\ call'[c] = local
         /\ \A d \in Callers : d # c => call'[d] = call[d]
BY DEF TypeOK, Step

\* Init establishes the invariant.
LEMMA InitIInv == Init => IInv
BY TTLAssumption DEF Init, IInv, TypeOK, RedeemedAtMostOnce, UniqueIds, OneOwner,
   CreatorOwns, EntryOwns, ConsumerOwns, ExpiryBounded, Creating, Consuming, Idle, Answers

LEMMA CreateStartIInv ==
  ASSUME IInv, NEW c \in Callers, NEW s \in Sessions, NEW name \in Names,
         CreateStart(c, s, name)
  PROVE  IInv'
<1> DEFINE local == [pc |-> "draw", provider |-> Trim[name], session |-> s,
                     start |-> now, tries |-> 0]
<1>0. TypeOK /\ now \in Nat
  BY DEF IInv, TypeOK
<1>1. local \in Drawing
  BY <1>0, TrimAssumption DEF Drawing
<1>2. Step(c, local, "none")
  BY DEF CreateStart
<1>3. /\ call' \in [Callers -> {Idle} \union Drawing \union Inserting \union Checking]
      /\ answer' \in [Callers -> Answers]
      /\ call'[c] = local
      /\ \A d \in Callers : d # c => call'[d] = call[d]
  BY <1>0, <1>1, <1>2, StepCall DEF Answers
<1>4. /\ call'[c].pc = "draw" /\ call'[c].session = s /\ call'[c].start = now
      /\ s \notin begun /\ begun' = begun \union {s}
      /\ UNCHANGED <<sessions, now, stored, redemptions>>
  BY <1>3 DEF CreateStart
<1> HIDE DEF local
<1>5. TypeOK'
  BY <1>0, <1>3, <1>4 DEF TypeOK
<1>6. OneOwner'
  BY <1>3, <1>4 DEF IInv, OneOwner, CreatorOwns, EntryOwns, ConsumerOwns, Creating, Consuming, TypeOK
<1>7. RedeemedAtMostOnce' /\ UniqueIds'
  BY <1>4 DEF IInv, RedeemedAtMostOnce, UniqueIds
<1>8. ExpiryBounded'
  BY <1>0, <1>3, <1>4 DEF IInv, ExpiryBounded, Creating, Consuming
<1> QED
  BY <1>5, <1>6, <1>7, <1>8 DEF IInv

LEMMA CreateDrawIInv ==
  ASSUME IInv, NEW c \in Callers, NEW id \in Ids, CreateDraw(c, id)
  PROVE  IInv'
<1> DEFINE local == [pc |-> "insert", provider |-> call[c].provider,
                     session |-> call[c].session, start |-> call[c].start,
                     tries |-> call[c].tries, id |-> id]
<1>0. TypeOK /\ call[c] \in Drawing /\ call[c].pc = "draw"
  BY CallShape DEF IInv, CreateDraw
<1>1. local \in Inserting
  BY <1>0 DEF Drawing, Inserting
<1>2. Step(c, local, "none")
  BY DEF CreateDraw
<1>3. /\ call' \in [Callers -> {Idle} \union Drawing \union Inserting \union Checking]
      /\ answer' \in [Callers -> Answers]
      /\ call'[c] = local
      /\ \A d \in Callers : d # c => call'[d] = call[d]
  BY <1>0, <1>1, <1>2, StepCall DEF Answers
<1>4. /\ call'[c].pc = "insert" /\ call'[c].session = call[c].session
      /\ call'[c].start = call[c].start
      /\ UNCHANGED <<sessions, now, begun, stored, redemptions>>
  BY <1>3 DEF CreateDraw
<1> HIDE DEF local
<1>5. TypeOK'
  BY <1>0, <1>3, <1>4 DEF TypeOK
<1>6. OneOwner'
  BY <1>0, <1>3, <1>4 DEF IInv, OneOwner, CreatorOwns, EntryOwns, ConsumerOwns, Creating, Consuming, TypeOK, Entries
<1>7. RedeemedAtMostOnce' /\ UniqueIds'
  BY <1>4 DEF IInv, RedeemedAtMostOnce, UniqueIds
<1>8. ExpiryBounded'
  BY <1>0, <1>3, <1>4 DEF IInv, ExpiryBounded, Creating, Consuming
<1> QED
  BY <1>5, <1>6, <1>7, <1>8 DEF IInv

\* A call that ends without touching the map: its session, if it had one, is gone.
LEMMA GiveUpIInv ==
  ASSUME IInv, NEW c \in Callers, NEW result \in Answers, Step(c, Idle, result),
         UNCHANGED <<sessions, now, begun, stored, redemptions>>
  PROVE  IInv'
<1> DEFINE local == Idle
<1>0. TypeOK
  BY DEF IInv
<1>3. /\ call' \in [Callers -> {Idle} \union Drawing \union Inserting \union Checking]
      /\ answer' \in [Callers -> Answers]
      /\ call'[c] = Idle
      /\ \A d \in Callers : d # c => call'[d] = call[d]
  BY <1>0, StepCall
<1>4. call'[c].pc = "idle"
  BY <1>3 DEF Idle
<1>5. TypeOK'
  BY <1>0, <1>3 DEF TypeOK
<1>6. OneOwner'
  BY <1>0, <1>3, <1>4 DEF IInv, OneOwner, CreatorOwns, EntryOwns, ConsumerOwns, Creating, Consuming, TypeOK, Entries
<1>7. RedeemedAtMostOnce' /\ UniqueIds'
  BY DEF IInv, RedeemedAtMostOnce, UniqueIds
<1>8. ExpiryBounded'
  BY <1>0, <1>3, <1>4 DEF IInv, ExpiryBounded, Creating, Consuming
<1> QED
  BY <1>5, <1>6, <1>7, <1>8 DEF IInv

LEMMA CreateInsertIInv ==
  ASSUME IInv, NEW c \in Callers, CreateInsert(c)
  PROVE  IInv'
<1> DEFINE kept == RemoveExpired(call[c].start)
           new == NewEntry(c)
<1>0. TypeOK /\ call[c] \in Inserting /\ call[c].pc = "insert"
  BY CallShape DEF IInv, CreateInsert
<1>1. /\ new \in Entries /\ new.session = call[c].session /\ new.id = call[c].id
      /\ new.expiresAt = call[c].start + TTL /\ call[c].start \in Nat
      /\ call[c].session \in Sessions
  BY <1>0, TTLAssumption DEF Inserting, NewEntry, Entries
<1>2. Step(c, Idle, "issued")
  BY DEF CreateInsert
<1>3. /\ call' \in [Callers -> {Idle} \union Drawing \union Inserting \union Checking]
      /\ answer' \in [Callers -> Answers]
      /\ call'[c] = Idle
      /\ \A d \in Callers : d # c => call'[d] = call[d]
  BY <1>0, <1>2, StepCall DEF Answers
<1>4. /\ call'[c].pc = "idle" /\ kept \subseteq sessions
      /\ \A e \in kept : e.id # new.id
      /\ sessions' = kept \union {new}
      /\ stored' = stored \union {new.session}
      /\ UNCHANGED <<now, begun, redemptions>>
  BY <1>1, <1>3 DEF CreateInsert, Idle, RemoveExpired
<1>5. new.session \notin stored /\ new.session \in begun
  BY <1>0, <1>1 DEF IInv, OneOwner, CreatorOwns, Creating
<1> HIDE DEF kept, new
<1>6. TypeOK'
  BY <1>0, <1>1, <1>3, <1>4 DEF TypeOK
<1>7. UniqueIds'
  BY <1>4 DEF IInv, UniqueIds
<1>8. CreatorOwns'
  BY <1>0, <1>1, <1>3, <1>4, <1>5 DEF IInv, OneOwner, CreatorOwns, Creating
<1>9. EntryOwns'
  <2>1. redemptions[new.session] = 0
    BY <1>0, <1>1, <1>5 DEF IInv, OneOwner, TypeOK
  <2>2. \A e \in kept : e.session # new.session
    BY <1>4, <1>5 DEF IInv, OneOwner, EntryOwns
  <2> QED
    BY <1>4, <2>1, <2>2 DEF IInv, OneOwner, EntryOwns
<1>10. ConsumerOwns'
  BY <1>3, <1>4, <1>5 DEF IInv, OneOwner, ConsumerOwns, Consuming
<1>11. RedeemedAtMostOnce' /\ OneOwner'
  BY <1>4, <1>8, <1>9, <1>10 DEF IInv, RedeemedAtMostOnce, OneOwner
<1>12. ExpiryBounded'
  BY <1>0, <1>1, <1>3, <1>4, TTLAssumption DEF IInv, ExpiryBounded, Creating, Consuming, TypeOK
<1> QED
  BY <1>6, <1>7, <1>11, <1>12 DEF IInv

\* A purge, then a step of the same caller that keeps its session or drops it.
LEMMA CreateCollidesIInv ==
  ASSUME IInv, NEW c \in Callers, CreateCollides(c)
  PROVE  IInv'
<1>0. TypeOK /\ call[c] \in Inserting /\ call[c].pc = "insert"
  BY CallShape DEF IInv, CreateCollides
<1> DEFINE again == [pc |-> "draw", provider |-> call[c].provider,
                     session |-> call[c].session, start |-> call[c].start,
                     tries |-> call[c].tries + 1]
<1>1. again \in Drawing
  BY <1>0 DEF Inserting, Drawing
<1>2. PICK local \in {Idle, again}, result \in Answers : Step(c, local, result)
  BY DEF CreateCollides, Answers
<1>3. /\ call' \in [Callers -> {Idle} \union Drawing \union Inserting \union Checking]
      /\ answer' \in [Callers -> Answers]
      /\ call'[c] = local
      /\ \A d \in Callers : d # c => call'[d] = call[d]
  BY <1>0, <1>1, <1>2, StepCall
<1>4. /\ sessions' \subseteq sessions
      /\ UNCHANGED <<now, begun, stored, redemptions>>
  BY DEF CreateCollides, RemoveExpired
<1>5. \/ call'[c].pc = "idle"
      \/ /\ call'[c].pc = "draw"
         /\ call'[c].session = call[c].session
         /\ call'[c].start = call[c].start
  BY <1>3 DEF Idle
<1> HIDE DEF again
<1>6. TypeOK'
  BY <1>0, <1>3, <1>4 DEF TypeOK
<1>7. OneOwner'
  BY <1>0, <1>3, <1>4, <1>5 DEF IInv, OneOwner, CreatorOwns, EntryOwns, ConsumerOwns, Creating, Consuming, TypeOK, Entries
<1>8. RedeemedAtMostOnce' /\ UniqueIds'
  BY <1>4 DEF IInv, RedeemedAtMostOnce, UniqueIds
<1>9. ExpiryBounded'
  BY <1>0, <1>3, <1>4, <1>5 DEF IInv, ExpiryBounded, Creating, Consuming
<1> QED
  BY <1>6, <1>7, <1>8, <1>9 DEF IInv

LEMMA ConsumeTakeIInv ==
  ASSUME IInv, NEW c \in Callers, NEW id \in Ids, NEW name \in Names,
         ConsumeTake(c, id, name)
  PROVE  IInv'
<1>0. TypeOK
  BY DEF IInv
<1>1. PICK e \in sessions :
        /\ sessions' = sessions \ {e}
        /\ Step(c, [pc |-> "check", provider |-> Trim[name], pending |-> e], "none")
  BY DEF ConsumeTake
<1> DEFINE local == [pc |-> "check", provider |-> Trim[name], pending |-> e]
<1>2. local \in Checking
  BY <1>0, TrimAssumption DEF TypeOK, Checking
<1>3. /\ call' \in [Callers -> {Idle} \union Drawing \union Inserting \union Checking]
      /\ answer' \in [Callers -> Answers]
      /\ call'[c] = local
      /\ \A d \in Callers : d # c => call'[d] = call[d]
  BY <1>0, <1>1, <1>2, StepCall DEF Answers
<1>4. /\ call'[c].pc = "check" /\ call'[c].pending = e
      /\ UNCHANGED <<now, begun, stored, redemptions>>
  BY <1>3 DEF ConsumeTake
<1> HIDE DEF local
<1>5. TypeOK'
  BY <1>0, <1>1, <1>3, <1>4 DEF TypeOK
<1>6. CreatorOwns' /\ EntryOwns'
  BY <1>1, <1>3, <1>4 DEF IInv, OneOwner, CreatorOwns, EntryOwns, Creating
<1>7. ConsumerOwns'
  <2>1. e.session \in stored /\ redemptions[e.session] = 0
    BY <1>1 DEF IInv, OneOwner, EntryOwns
  <2>2. \A f \in sessions' : f.session # e.session
    BY <1>1 DEF IInv, OneOwner, EntryOwns
  <2>3. \A d \in Callers : Consuming(d) => call[d].pending.session # e.session
    BY <1>1 DEF IInv, OneOwner, ConsumerOwns
  <2> QED
    BY <1>1, <1>3, <1>4, <2>1, <2>2, <2>3 DEF IInv, OneOwner, ConsumerOwns, Consuming
<1>8. RedeemedAtMostOnce' /\ UniqueIds' /\ OneOwner'
  BY <1>1, <1>4, <1>6, <1>7 DEF IInv, RedeemedAtMostOnce, UniqueIds, OneOwner
<1>9. ExpiryBounded'
  BY <1>0, <1>1, <1>3, <1>4 DEF IInv, ExpiryBounded, Creating, Consuming
<1> QED
  BY <1>5, <1>8, <1>9 DEF IInv

LEMMA ConsumeCheckIInv ==
  ASSUME IInv, NEW c \in Callers, ConsumeCheck(c)
  PROVE  IInv'
<1>0. TypeOK /\ call[c] \in Checking /\ Consuming(c)
  BY CallShape DEF IInv, ConsumeCheck, Consuming
<1> DEFINE s == call[c].pending.session
<1>1. s \in Sessions
  BY <1>0 DEF Checking, Entries
<1>2. CASE UNCHANGED redemptions
  <2>1. PICK result \in Answers : Step(c, Idle, result)
    BY DEF ConsumeCheck, Answers
  <2> QED
    BY <1>2, <2>1, GiveUpIInv DEF ConsumeCheck
<1>3. CASE /\ Step(c, Idle, "session")
           /\ redemptions' = [redemptions EXCEPT ![s] = @ + 1]
  <2>1. /\ call' \in [Callers -> {Idle} \union Drawing \union Inserting \union Checking]
        /\ answer' \in [Callers -> Answers]
        /\ call'[c] = Idle
        /\ \A d \in Callers : d # c => call'[d] = call[d]
    BY <1>0, <1>3, StepCall DEF Answers
  <2>2. call'[c].pc = "idle" /\ UNCHANGED <<sessions, now, begun, stored>>
    BY <2>1 DEF ConsumeCheck, Idle
  <2>3. /\ redemptions[s] = 0 /\ s \in stored
        /\ \A e \in sessions : e.session # s
        /\ \A d \in Callers : Consuming(d) /\ call[d].pending.session = s => d = c
    BY <1>0 DEF IInv, OneOwner, ConsumerOwns
  <2>4. /\ redemptions' \in [Sessions -> Nat]
        /\ redemptions'[s] = 1
        /\ \A x \in Sessions : x # s => redemptions'[x] = redemptions[x]
    BY <1>0, <1>1, <1>3, <2>3 DEF TypeOK
  <2> HIDE DEF s
  <2>5. TypeOK'
    BY <1>0, <2>1, <2>2, <2>4 DEF TypeOK
  <2>6. RedeemedAtMostOnce' /\ UniqueIds'
    BY <2>2, <2>4 DEF IInv, RedeemedAtMostOnce, UniqueIds
  <2>7. CreatorOwns'
    BY <2>1, <2>2 DEF IInv, OneOwner, CreatorOwns, Creating
  <2>8. EntryOwns'
    BY <1>0, <2>2, <2>3, <2>4 DEF IInv, OneOwner, EntryOwns, TypeOK, Entries
  <2>9. ConsumerOwns'
    <3>1. \A d \in Callers : Consuming(d)' => d # c /\ Consuming(d) /\ call'[d] = call[d]
      BY <2>1, <2>2 DEF Consuming
    <3>2. \A d \in Callers : Consuming(d) => call[d].pending.session \in Sessions
      BY <1>0, CallShape DEF Consuming, Checking, Entries
    <3> QED
      BY <2>2, <2>3, <2>4, <3>1, <3>2 DEF IInv, OneOwner, ConsumerOwns
  <2>10. OneOwner'
    BY <2>2, <2>3, <2>4, <2>7, <2>8, <2>9 DEF IInv, OneOwner
  <2>11. ExpiryBounded'
    BY <2>1, <2>2 DEF IInv, ExpiryBounded, Creating, Consuming
  <2> QED
    BY <2>5, <2>6, <2>10, <2>11 DEF IInv
<1> QED
  BY <1>2, <1>3 DEF ConsumeCheck

LEMMA TickIInv ==
  ASSUME IInv, Tick
  PROVE  IInv'
<1>1. now' = now + 1 /\ now \in Nat /\ TTL \in Nat
  BY TTLAssumption DEF IInv, TypeOK, Tick
<1>2. TypeOK'
  BY <1>1 DEF IInv, TypeOK, Tick
<1>3. RedeemedAtMostOnce' /\ UniqueIds' /\ OneOwner'
  BY DEF IInv, RedeemedAtMostOnce, UniqueIds, OneOwner, CreatorOwns, EntryOwns,
     ConsumerOwns, Creating, Consuming, Tick
<1>4. ExpiryBounded'
  <2>1. \A e \in sessions : e.expiresAt \in Nat
    BY DEF IInv, TypeOK, Entries
  <2>2. \A c \in Callers : Creating(c) => call[c].start \in Nat
    BY CallShape DEF IInv, Creating, Drawing, Inserting
  <2>3. \A c \in Callers : Consuming(c) => call[c].pending.expiresAt \in Nat
    BY CallShape DEF IInv, Consuming, Checking, Entries
  <2> QED
    BY <1>1, <2>1, <2>2, <2>3 DEF IInv, ExpiryBounded, Creating, Consuming, Tick
<1> QED
  BY <1>2, <1>3, <1>4 DEF IInv

LEMMA NextIInv == IInv /\ [Next]_vars => IInv'
<1> SUFFICES ASSUME IInv, [Next]_vars PROVE IInv'
  OBVIOUS
<1>1. CASE Tick
  BY <1>1, TickIInv
<1>2. ASSUME NEW c \in Callers, Enter(c) PROVE IInv'
  <2>1. ASSUME NEW id \in Ids, ConsumeMiss(c, id) PROVE IInv'
    BY <2>1, GiveUpIInv DEF ConsumeMiss, Answers
  <2> QED
    BY <1>2, <2>1, CreateStartIInv, ConsumeTakeIInv DEF Enter
<1>3. ASSUME NEW c \in Callers, Continue(c) PROVE IInv'
  <2>1. CASE CreateRandomFails(c)
    BY <2>1, GiveUpIInv DEF CreateRandomFails, Answers
  <2> QED
    BY <1>3, <2>1, CreateDrawIInv, CreateInsertIInv, CreateCollidesIInv,
       ConsumeCheckIInv DEF Continue
<1>4. CASE UNCHANGED vars
  BY <1>4 DEF vars, IInv, TypeOK, RedeemedAtMostOnce, UniqueIds, OneOwner, CreatorOwns,
     EntryOwns, ConsumerOwns, ExpiryBounded, Creating, Consuming
<1> QED
  BY <1>1, <1>2, <1>3, <1>4 DEF Next

\* The inductive invariant holds of every reachable state.
THEOREM Invariant == Spec => []IInv
<1>1. IInv /\ [Next]_vars => IInv'
  BY NextIInv
<1> QED
  BY InitIInv, <1>1, PTL DEF Spec

\* Every variable keeps its type.
THEOREM Typing == Spec => []TypeOK
<1>1. IInv => TypeOK
  BY DEF IInv
<1> QED
  BY Invariant, <1>1, PTL

\* However many callbacks race with one cookie, consume hands its session out
\* once at most.
THEOREM AtMostOnce == Spec => []RedeemedAtMostOnce
<1>1. IInv => RedeemedAtMostOnce
  BY DEF IInv
<1> QED
  BY Invariant, <1>1, PTL

\* A session is in one place at a time, and an entry alone under its identifier.
THEOREM SingleOwner == Spec => []Ownership
<1>1. IInv => Ownership
  BY DEF IInv, Ownership
<1> QED
  BY Invariant, <1>1, PTL

\* No deadline lies further ahead than the time to live, whichever clock value it was
\* computed from (session_store.go:53, 67).
THEOREM DeadlinesNear == Spec => []ExpiryBounded
<1>1. IInv => ExpiryBounded
  BY DEF IInv
<1> QED
  BY <1>1, Invariant, PTL

-----------------------------------------------------------------------------
\* What is in the map after a create has purged it was not overdue when it began.
LEMMA PurgedMap ==
  ASSUME IInv, NEW c \in Callers, call[c].pc = "insert",
         sessions' \subseteq RemoveExpired(call[c].start) \union {NewEntry(c)}
  PROVE  \A e \in sessions' : e.expiresAt > call[c].start
<1>1. call[c].start \in Nat
  BY CallShape DEF IInv, Inserting
<1>2. \A e \in sessions : e.expiresAt \in Nat
  BY DEF IInv, TypeOK, Entries
<1>3. NewEntry(c).expiresAt > call[c].start
  BY <1>1, TTLAssumption DEF NewEntry
<1> QED
  BY <1>1, <1>2, <1>3 DEF RemoveExpired

\* A caller that leaves "insert" has purged the map.
LEMMA NextPurges ==
  ASSUME IInv, Next
  PROVE  Purges
<1> SUFFICES ASSUME NEW c \in Callers, call[c].pc = "insert", call'[c] # call[c]
             PROVE  \A e \in sessions' : e.expiresAt > call[c].start
  BY DEF Purges
<1>1. call[c] # Idle
  BY DEF Idle
<1>2. \A d \in Callers : \A local, result : Step(d, local, result) => d = c
  BY DEF Step, IInv, TypeOK
<1>3. PICK d \in Callers : Enter(d) \/ Continue(d)
  BY DEF Next, Tick
<1>4. d = c
  BY <1>2, <1>3 DEF Enter, Continue, CreateStart, ConsumeTake, ConsumeMiss, CreateDraw,
     CreateRandomFails, CreateInsert, CreateCollides, ConsumeCheck
<1>5. CreateInsert(c) \/ CreateCollides(c)
  BY <1>1, <1>3, <1>4 DEF Enter, Continue, CreateStart, ConsumeTake, ConsumeMiss, CreateDraw,
     CreateRandomFails, ConsumeCheck
<1> QED
  BY <1>5, PurgedMap DEF CreateInsert, CreateCollides

\* Purges and collisions never lose a login that is still in time, and a create clears
\* the map of those that were overdue when it began.
THEOREM PurgeExact == Spec => PurgeIsExact
<1>1. IInv /\ Next => KeepsLive
  <2> SUFFICES ASSUME IInv, Next PROVE KeepsLive
    OBVIOUS
  <2>1. CASE Tick
    BY <2>1 DEF Tick, KeepsLive
  <2>2. ASSUME NEW c \in Callers, call[c].pc = "insert",
               RemoveExpired(call[c].start) \subseteq sessions'
        PROVE  KeepsLive
    <3>1. \A e \in sessions : e.expiresAt \in Nat /\ now \in Nat
      BY DEF IInv, TypeOK, Entries
    <3>2. call[c].start \in Nat /\ call[c].start <= now
      BY <2>2, CallShape DEF IInv, ExpiryBounded, Creating, Inserting
    <3> QED
      BY <2>2, <3>1, <3>2 DEF RemoveExpired, KeepsLive
  <2>3. ASSUME NEW c \in Callers, Continue(c) PROVE KeepsLive
    <3>1. CASE CreateInsert(c)
      BY <3>1, <2>2 DEF CreateInsert
    <3>2. CASE CreateCollides(c)
      BY <3>2, <2>2 DEF CreateCollides
    <3> QED
      BY <2>3, <3>1, <3>2 DEF Continue, CreateDraw, CreateRandomFails, ConsumeCheck, KeepsLive
  <2>4. ASSUME NEW c \in Callers, Enter(c) PROVE KeepsLive
    <3>1. ASSUME NEW id \in Ids, NEW name \in Names, ConsumeTake(c, id, name)
          PROVE  KeepsLive
      <4>1. PICK e \in sessions :
              /\ sessions' = sessions \ {e}
              /\ Step(c, [pc |-> "check", provider |-> Trim[name], pending |-> e], "none")
        BY <3>1 DEF ConsumeTake
      <4>2. call'[c].pc = "check" /\ call'[c].pending = e
        BY <4>1 DEF Step, IInv, TypeOK
      <4> QED
        BY <3>1, <4>1, <4>2 DEF KeepsLive, PresentedIn, ConsumeTake
    <3> QED
      BY <2>4, <3>1 DEF Enter, CreateStart, ConsumeMiss, KeepsLive
  <2> QED
    BY <2>1, <2>3, <2>4 DEF Next
<1>2. IInv /\ [Next]_vars => [KeepsLive /\ Purges]_vars
  BY <1>1, NextPurges
<1> QED
  BY Invariant, <1>2, PTL DEF Spec, PurgeIsExact

-----------------------------------------------------------------------------
(* Refinement. The abstract status and deadline of a session can be read   *)
(* off the place it is in.                                                 *)

Taken(s) == \E c \in Callers : Consuming(c) /\ call[c].pending.session = s
Mapped(s) == \E e \in sessions : e.session = s

View ==
  /\ \A e \in sessions :
       StatusOf(e.session) = "live" /\ DeadlineOf(e.session) = e.expiresAt
  /\ \A c \in Callers : Consuming(c) =>
       /\ StatusOf(call[c].pending.session) = "presented"
       /\ DeadlineOf(call[c].pending.session) = call[c].pending.expiresAt
  /\ \A s \in Sessions : ~Mapped(s) /\ ~Taken(s) =>
       /\ DeadlineOf(s) = 0
       /\ StatusOf(s) = IF redemptions[s] > 0 THEN "redeemed"
                        ELSE IF s \in stored THEN "void" ELSE "fresh"

LEMMA ViewOfState == IInv => View
<1> SUFFICES ASSUME IInv PROVE View
  OBVIOUS
<1>1. \A e \in sessions : StatusOf(e.session) = "live" /\ DeadlineOf(e.session) = e.expiresAt
  <2> TAKE e \in sessions
  <2>1. EntryOf(e.session) = {e} /\ PresentedOf(e.session) = {}
    BY DEF IInv, OneOwner, EntryOwns, ConsumerOwns, EntryOf, PresentedOf
  <2>2. redemptions[e.session] = 0
    BY DEF IInv, OneOwner, EntryOwns
  <2>3. (CHOOSE f \in {e} : TRUE) = e
    OBVIOUS
  <2>4. EntryOf(e.session) \union PresentedOf(e.session) = {e}
    BY <2>1
  <2> QED
    BY <2>1, <2>2, <2>3, <2>4 DEF StatusOf, DeadlineOf
<1>2. ASSUME NEW c \in Callers, Consuming(c)
      PROVE  /\ StatusOf(call[c].pending.session) = "presented"
             /\ DeadlineOf(call[c].pending.session) = call[c].pending.expiresAt
  <2> DEFINE e == call[c].pending
  <2>1. EntryOf(e.session) = {} /\ PresentedOf(e.session) = {e}
    BY <1>2 DEF IInv, OneOwner, ConsumerOwns, EntryOf, PresentedOf
  <2>2. redemptions[e.session] = 0
    BY <1>2 DEF IInv, OneOwner, ConsumerOwns
  <2> HIDE DEF e
  <2>3. (CHOOSE f \in {e} : TRUE) = e
    OBVIOUS
  <2>4. EntryOf(e.session) \union PresentedOf(e.session) = {e}
    BY <2>1
  <2>5. StatusOf(e.session) = "presented" /\ DeadlineOf(e.session) = e.expiresAt
    BY <2>1, <2>2, <2>3, <2>4 DEF StatusOf, DeadlineOf
  <2> QED
    BY <2>5 DEF e
<1>3. ASSUME NEW s \in Sessions, ~Mapped(s), ~Taken(s)
      PROVE  /\ DeadlineOf(s) = 0
             /\ StatusOf(s) = IF redemptions[s] > 0 THEN "redeemed"
                              ELSE IF s \in stored THEN "void" ELSE "fresh"
  <2>1. EntryOf(s) = {} /\ PresentedOf(s) = {}
    BY <1>3 DEF Mapped, Taken, EntryOf, PresentedOf
  <2> QED
    BY <2>1 DEF StatusOf, DeadlineOf
<1> QED
  BY <1>1, <1>2, <1>3 DEF View

LEMMA ViewOfNextState == IInv' => View'
BY ViewOfState, PTL

\* A session that did not move looks the same.
LEMMA Unmoved ==
  ASSUME NEW s \in Sessions, EntryOf(s)' = EntryOf(s), PresentedOf(s)' = PresentedOf(s),
         redemptions'[s] = redemptions[s], s \in stored' <=> s \in stored
  PROVE  StatusOf(s)' = StatusOf(s) /\ DeadlineOf(s)' = DeadlineOf(s)
BY DEF StatusOf, DeadlineOf

\* Who is consuming what changes only in ConsumeTake and ConsumeCheck.
LEMMA SameConsumers ==
  ASSUME IInv, NEW c \in Callers, ~Consuming(c), ~Consuming(c)',
         \A d \in Callers : d # c => call'[d] = call[d]
  PROVE  \A s \in Sessions : PresentedOf(s)' = PresentedOf(s) /\ (Taken(s)' <=> Taken(s))
BY DEF PresentedOf, Taken, Consuming

\* What the purge inside a create does to the abstract state.
DroppedNow == {s \in Sessions : Mapped(s) /\ ~Mapped(s)'}

LEMMA PurgeDrops ==
  ASSUME IInv, IInv', NEW c \in Callers, call[c].pc = "insert",
         RemoveExpired(call[c].start) \subseteq sessions',
         \A e \in sessions' : e \in sessions \/ e.session = call[c].session,
         stored \subseteq stored',
         \A x \in Sessions : x # call[c].session => (x \in stored' <=> x \in stored),
         redemptions' = redemptions,
         ~Consuming(c)', \A d \in Callers : d # c => call'[d] = call[d]
  PROVE  /\ DroppedNow \subseteq {s \in Sessions : StatusOf(s) = "live" /\ DeadlineOf(s) <= now}
         /\ \A s \in DroppedNow : StatusOf(s)' = "void" /\ DeadlineOf(s)' = 0
         /\ \A s \in Sessions : s \notin DroppedNow /\ s # call[c].session =>
              StatusOf(s)' = StatusOf(s) /\ DeadlineOf(s)' = DeadlineOf(s)
<1>0. View /\ View' /\ TypeOK
  BY ViewOfState, ViewOfNextState DEF IInv
<1>1. Creating(c) /\ ~Consuming(c) /\ call[c].session \in begun \ stored
  BY DEF Creating, Consuming, IInv, OneOwner, CreatorOwns
<1>2. \A s \in Sessions : PresentedOf(s)' = PresentedOf(s) /\ (Taken(s)' <=> Taken(s))
  BY <1>1, SameConsumers
<1>3. call[c].start \in Nat /\ call[c].start <= now /\ now \in Nat
  BY <1>1, CallShape DEF IInv, ExpiryBounded, Inserting, TypeOK
<1>4. ASSUME NEW s \in DroppedNow
      PROVE  /\ StatusOf(s) = "live" /\ DeadlineOf(s) <= now
             /\ StatusOf(s)' = "void" /\ DeadlineOf(s)' = 0
  <2>1. PICK e \in sessions : e.session = s
    BY DEF DroppedNow, Mapped
  <2>2. e \notin sessions' /\ ~Mapped(s)' /\ s \in Sessions
    BY <2>1 DEF DroppedNow, Mapped
  <2>3. e.expiresAt <= now
    <3>1. ~(e.expiresAt > call[c].start) /\ e.expiresAt \in Nat
      BY <1>0, <2>2 DEF RemoveExpired, TypeOK, Entries
    <3> QED
      BY <3>1, <1>3
  <2>4. StatusOf(s) = "live" /\ DeadlineOf(s) = e.expiresAt
    BY <1>0, <2>1 DEF View
  <2>5. ~Taken(s) /\ redemptions[s] = 0 /\ s \in stored
    BY <2>1 DEF IInv, OneOwner, EntryOwns, ConsumerOwns, Taken
  <2>6. StatusOf(s)' = "void" /\ DeadlineOf(s)' = 0
    BY <1>0, <1>2, <2>2, <2>5 DEF View
  <2> QED
    BY <2>3, <2>4, <2>6
<1>5. ASSUME NEW s \in Sessions, s \notin DroppedNow, s # call[c].session
      PROVE  StatusOf(s)' = StatusOf(s) /\ DeadlineOf(s)' = DeadlineOf(s)
  <2>1. EntryOf(s)' = EntryOf(s)
    <3>1. EntryOf(s)' \subseteq EntryOf(s)
      BY <1>5 DEF EntryOf
    <3>2. ASSUME NEW e \in EntryOf(s) PROVE e \in EntryOf(s)'
      <4>1. Mapped(s)
        BY DEF Mapped, EntryOf
      <4>2. PICK f \in sessions' : f.session = s
        BY <4>1, <1>5 DEF DroppedNow, Mapped
      <4>3. f \in sessions
        BY <4>2, <1>5
      <4>4. f = e
        BY <4>2, <4>3 DEF IInv, OneOwner, EntryOwns, EntryOf
      <4> QED
        BY <4>2, <4>4 DEF EntryOf
    <3> QED
      BY <3>1, <3>2
  <2>2. PresentedOf(s)' = PresentedOf(s)
    BY <1>2
  <2>3. redemptions'[s] = redemptions[s] /\ (s \in stored' <=> s \in stored)
    BY <1>5
  <2> QED
    BY <2>1, <2>2, <2>3, Unmoved
<1> QED
  BY <1>4, <1>5 DEF DroppedNow

\* A step that moves no session is a stutter of the abstract specification.
LEMMA StutterStep ==
  ASSUME IInv, NEW c \in Callers, ~Consuming(c), ~Consuming(c)',
         \A d \in Callers : d # c => call'[d] = call[d],
         UNCHANGED <<sessions, now, stored, redemptions>>
  PROVE  UNCHANGED Abstract!vars
<1>1. \A s \in Sessions : PresentedOf(s)' = PresentedOf(s) /\ EntryOf(s)' = EntryOf(s)
  BY SameConsumers DEF EntryOf
<1>2. \A s \in Sessions : StatusOf(s)' = StatusOf(s) /\ DeadlineOf(s)' = DeadlineOf(s)
  BY <1>1, Unmoved
<1> QED
  BY <1>2 DEF Abstract!vars

LEMMA InsertRefines ==
  ASSUME IInv, IInv', NEW c \in Callers, CreateInsert(c)
  PROVE  Abstract!Next
<1>0. View /\ View' /\ TypeOK /\ TypeOK'
  BY ViewOfState, ViewOfNextState DEF IInv
<1>1. /\ call[c].pc = "insert" /\ call[c] \in Inserting /\ call[c].session \in Sessions
      /\ call[c].start \in Nat /\ call[c].start <= now /\ now \in Nat
  BY <1>0, CallShape DEF CreateInsert, Inserting, IInv, ExpiryBounded, Creating, TypeOK
<1> PICK s0 \in Sessions, d \in 0..(now + TTL) :
         s0 = call[c].session /\ d = call[c].start + TTL
  BY <1>1, TTLAssumption
<1> PICK new : new = NewEntry(c)
  OBVIOUS
<1>2. /\ new.session = s0 /\ new.expiresAt = d /\ new \in sessions'
      /\ sessions' = RemoveExpired(call[c].start) \union {new}
      /\ stored' = stored \union {s0}
      /\ redemptions' = redemptions /\ now' = now
  BY DEF CreateInsert, NewEntry
<1>3. ~Consuming(c)' /\ \A x \in Callers : x # c => call'[x] = call[x]
  BY <1>0 DEF CreateInsert, Step, Consuming, TypeOK, Idle
<1>4. StatusOf(s0) = "fresh"
  <2>1. s0 \in begun /\ s0 \notin stored
    BY <1>1 DEF IInv, OneOwner, CreatorOwns, Creating
  <2>2. ~Mapped(s0) /\ ~Taken(s0) /\ ~(redemptions[s0] > 0)
    BY <2>1 DEF IInv, OneOwner, EntryOwns, ConsumerOwns, Mapped, Taken
  <2> QED
    BY <1>0, <2>1, <2>2 DEF View
<1>5. StatusOf(s0)' = "live" /\ DeadlineOf(s0)' = d
  BY <1>0, <1>2 DEF View
<1>6. /\ DroppedNow \subseteq {s \in Sessions : StatusOf(s) = "live" /\ DeadlineOf(s) <= now}
      /\ \A s \in DroppedNow : StatusOf(s)' = "void" /\ DeadlineOf(s)' = 0
      /\ \A s \in Sessions : s \notin DroppedNow /\ s # s0 =>
           StatusOf(s)' = StatusOf(s) /\ DeadlineOf(s)' = DeadlineOf(s)
  <2>1. \A e \in sessions' : e \in sessions \/ e.session = call[c].session
    BY <1>2 DEF RemoveExpired
  <2>2. /\ RemoveExpired(call[c].start) \subseteq sessions'
        /\ stored \subseteq stored'
        /\ \A x \in Sessions : x # call[c].session => (x \in stored' <=> x \in stored)
    BY <1>2
  <2> QED
    BY <1>1, <1>2, <1>3, <2>1, <2>2, PurgeDrops
<1> PICK D : D = DroppedNow
  OBVIOUS
<1>7. D \subseteq Abstract!Overdue /\ D \in SUBSET Sessions /\ s0 \notin D
  BY <1>4, <1>6 DEF Abstract!Overdue
<1>8. Abstract!Issue(s0, d, D)
  <2>1. [s \in Sessions |-> StatusOf(s)]' =
          [x \in Sessions |-> IF x = s0 THEN "live" ELSE IF x \in D THEN "void"
                              ELSE [s \in Sessions |-> StatusOf(s)][x]]
    BY <1>5, <1>6
  <2>2. [s \in Sessions |-> DeadlineOf(s)]' =
          [x \in Sessions |-> IF x = s0 THEN d ELSE IF x \in D THEN 0
                              ELSE [s \in Sessions |-> DeadlineOf(s)][x]]
    BY <1>5, <1>6
  <2>3. d <= now + TTL
    BY <1>1, TTLAssumption
  <2> QED
    BY <1>2, <1>4, <1>7, <2>1, <2>2, <2>3 DEF Abstract!Issue
<1> QED
  BY <1>7, <1>8 DEF Abstract!Next

LEMMA CollisionRefines ==
  ASSUME IInv, IInv', NEW c \in Callers, CreateCollides(c)
  PROVE  Abstract!Next
<1>0. TypeOK
  BY DEF IInv
<1>1. /\ call[c].pc = "insert" /\ sessions' = RemoveExpired(call[c].start)
      /\ stored' = stored /\ redemptions' = redemptions /\ now' = now
  BY DEF CreateCollides
<1>2. ~Consuming(c)' /\ \A x \in Callers : x # c => call'[x] = call[x]
  BY <1>0 DEF CreateCollides, Step, Consuming, TypeOK, Idle
<1>3. /\ \A e \in sessions' : e \in sessions \/ e.session = call[c].session
      /\ RemoveExpired(call[c].start) \subseteq sessions'
      /\ stored \subseteq stored'
  BY <1>1 DEF RemoveExpired
<1>4. /\ DroppedNow \subseteq {s \in Sessions : StatusOf(s) = "live" /\ DeadlineOf(s) <= now}
      /\ \A s \in DroppedNow : StatusOf(s)' = "void" /\ DeadlineOf(s)' = 0
      /\ \A s \in Sessions : s \notin DroppedNow /\ s # call[c].session =>
           StatusOf(s)' = StatusOf(s) /\ DeadlineOf(s)' = DeadlineOf(s)
  BY <1>1, <1>2, <1>3, PurgeDrops
<1>5. PICK s0 \in Sessions : s0 = call[c].session
  BY <1>0, <1>1, CallShape DEF Inserting
<1>6. StatusOf(s0)' = StatusOf(s0) /\ DeadlineOf(s0)' = DeadlineOf(s0)
  <2>1. s0 \notin stored /\ ~Consuming(c)
    BY <1>1, <1>5 DEF IInv, OneOwner, CreatorOwns, Creating, Consuming
  <2>2. EntryOf(s0) = {} /\ EntryOf(s0)' = {}
    BY <1>1, <2>1 DEF IInv, OneOwner, EntryOwns, EntryOf, RemoveExpired
  <2>3. PresentedOf(s0)' = PresentedOf(s0)
    BY <1>2, <2>1, SameConsumers
  <2> QED
    BY <1>1, <2>1, <2>2, <2>3, Unmoved
<1> PICK D : D = DroppedNow
  OBVIOUS
<1>7. D \subseteq Abstract!Overdue /\ D \in SUBSET Sessions
  BY <1>4 DEF Abstract!Overdue
<1>8. Abstract!Drop(D)
  <2>1. \A s \in Sessions : s \notin D =>
          StatusOf(s)' = StatusOf(s) /\ DeadlineOf(s)' = DeadlineOf(s)
    BY <1>4, <1>5, <1>6
  <2>2. [s \in Sessions |-> StatusOf(s)]' =
          [x \in Sessions |-> IF x \in D THEN "void"
                              ELSE [s \in Sessions |-> StatusOf(s)][x]]
    BY <1>4, <2>1
  <2>3. [s \in Sessions |-> DeadlineOf(s)]' =
          [x \in Sessions |-> IF x \in D THEN 0
                              ELSE [s \in Sessions |-> DeadlineOf(s)][x]]
    BY <1>4, <2>1
  <2> QED
    BY <1>1, <1>7, <2>2, <2>3 DEF Abstract!Drop
<1> QED
  BY <1>7, <1>8 DEF Abstract!Next

LEMMA TakeRefines ==
  ASSUME IInv, IInv', NEW c \in Callers, NEW id \in Ids, NEW name \in Names,
         ConsumeTake(c, id, name)
  PROVE  Abstract!Next
<1>0. View /\ View' /\ TypeOK
  BY ViewOfState, ViewOfNextState DEF IInv
<1>1. PICK e \in sessions :
        /\ sessions' = sessions \ {e}
        /\ Step(c, [pc |-> "check", provider |-> Trim[name], pending |-> e], "none")
  BY DEF ConsumeTake
<1>2. /\ call'[c].pc = "check" /\ call'[c].pending = e /\ ~Consuming(c)
      /\ \A x \in Callers : x # c => call'[x] = call[x]
      /\ UNCHANGED <<now, stored, redemptions>>
  BY <1>0, <1>1 DEF ConsumeTake, Step, TypeOK, Idle, Consuming
<1> PICK s0 \in Sessions : s0 = e.session
  BY <1>0 DEF TypeOK, Entries
<1>3. StatusOf(s0) = "live" /\ DeadlineOf(s0) = e.expiresAt
  BY <1>0 DEF View
<1>4. StatusOf(s0)' = "presented" /\ DeadlineOf(s0)' = e.expiresAt
  BY <1>0, <1>2 DEF View, Consuming
<1>5. \A s \in Sessions : s # s0 =>
        StatusOf(s)' = StatusOf(s) /\ DeadlineOf(s)' = DeadlineOf(s)
  <2> SUFFICES ASSUME NEW s \in Sessions, s # s0
               PROVE  StatusOf(s)' = StatusOf(s) /\ DeadlineOf(s)' = DeadlineOf(s)
    OBVIOUS
  <2>1. EntryOf(s)' = EntryOf(s)
    BY <1>1 DEF EntryOf
  <2>2. PresentedOf(s)' = PresentedOf(s)
    BY <1>2 DEF PresentedOf, Consuming
  <2> QED
    BY <1>2, <2>1, <2>2, Unmoved
<1>6. Abstract!Present(s0)
  <2>1. [s \in Sessions |-> StatusOf(s)]' =
          [[s \in Sessions |-> StatusOf(s)] EXCEPT ![s0] = "presented"]
    BY <1>4, <1>5
  <2>2. [s \in Sessions |-> DeadlineOf(s)]' = [s \in Sessions |-> DeadlineOf(s)]
    BY <1>3, <1>4, <1>5
  <2> QED
    BY <1>2, <1>3, <2>1, <2>2 DEF Abstract!Present
<1> QED
  BY <1>6 DEF Abstract!Next

LEMMA CheckRefines ==
  ASSUME IInv, IInv', NEW c \in Callers, ConsumeCheck(c)
  PROVE  Abstract!Next
<1>0. View /\ View' /\ TypeOK /\ call[c] \in Checking /\ Consuming(c)
  BY ViewOfState, ViewOfNextState, CallShape DEF IInv, ConsumeCheck, Consuming
<1> PICK e : e = call[c].pending
  OBVIOUS
<1> PICK s0 \in Sessions : s0 = e.session
  BY <1>0 DEF Checking, Entries
<1>1. /\ call'[c] = Idle /\ ~Consuming(c)'
      /\ \A x \in Callers : x # c => call'[x] = call[x]
      /\ UNCHANGED <<sessions, now, stored>>
      /\ \A s \in Sessions : s # s0 => redemptions'[s] = redemptions[s]
  BY <1>0 DEF ConsumeCheck, Step, TypeOK, Idle, Consuming
<1>2. /\ redemptions[s0] = 0 /\ s0 \in stored
      /\ \A f \in sessions : f.session # s0
      /\ \A x \in Callers : x # c /\ Consuming(x) => call[x].pending.session # s0
  BY <1>0 DEF IInv, OneOwner, ConsumerOwns
<1>3. StatusOf(s0) = "presented" /\ DeadlineOf(s0) = e.expiresAt
  BY <1>0 DEF View
<1>4. ~Mapped(s0)' /\ ~Taken(s0)'
  BY <1>1, <1>2 DEF Mapped, Taken, Consuming
<1>5. \A s \in Sessions : s # s0 =>
        StatusOf(s)' = StatusOf(s) /\ DeadlineOf(s)' = DeadlineOf(s)
  <2> SUFFICES ASSUME NEW s \in Sessions, s # s0
               PROVE  StatusOf(s)' = StatusOf(s) /\ DeadlineOf(s)' = DeadlineOf(s)
    OBVIOUS
  <2>1. EntryOf(s)' = EntryOf(s)
    BY <1>1 DEF EntryOf
  <2>2. PresentedOf(s)' = PresentedOf(s)
    BY <1>1 DEF PresentedOf, Consuming
  <2> QED
    BY <1>1, <2>1, <2>2, Unmoved
<1>6. DeadlineOf(s0)' = 0
  BY <1>0, <1>4 DEF View
<1>7. [s \in Sessions |-> DeadlineOf(s)]' =
        [[s \in Sessions |-> DeadlineOf(s)] EXCEPT ![s0] = 0]
  BY <1>5, <1>6
<1>8. CASE UNCHANGED redemptions
  <2>1. StatusOf(s0)' = "void"
    BY <1>0, <1>1, <1>2, <1>4, <1>8 DEF View
  <2>2. [s \in Sessions |-> StatusOf(s)]' =
          [[s \in Sessions |-> StatusOf(s)] EXCEPT ![s0] = "void"]
    BY <1>5, <2>1
  <2>3. Abstract!Reject(s0)
    BY <1>1, <1>3, <1>7, <2>2 DEF Abstract!Reject
  <2> QED
    BY <2>3 DEF Abstract!Next
<1>9. CASE /\ e.expiresAt > now
           /\ redemptions' = [redemptions EXCEPT ![s0] = @ + 1]
  <2>1. redemptions'[s0] = 1
    BY <1>0, <1>2, <1>9 DEF TypeOK
  <2>2. StatusOf(s0)' = "redeemed"
    BY <1>0, <1>4, <2>1 DEF View
  <2>3. [s \in Sessions |-> StatusOf(s)]' =
          [[s \in Sessions |-> StatusOf(s)] EXCEPT ![s0] = "redeemed"]
    BY <1>5, <2>2
  <2>4. now < DeadlineOf(s0)
    <3>1. e.expiresAt \in Nat /\ now \in Nat
      BY <1>0 DEF Checking, Entries, TypeOK
    <3> QED
      BY <1>3, <1>9, <3>1
  <2>5. Abstract!Redeem(s0)
    BY <1>1, <1>3, <1>7, <2>3, <2>4 DEF Abstract!Redeem
  <2> QED
    BY <2>5 DEF Abstract!Next
<1> QED
  BY <1>8, <1>9 DEF ConsumeCheck

LEMMA StepRefines == IInv /\ IInv' /\ [Next]_vars => [Abstract!Next]_(Abstract!vars)
<1> SUFFICES ASSUME IInv, IInv', [Next]_vars
             PROVE  Abstract!Next \/ UNCHANGED Abstract!vars
  OBVIOUS
<1>0. TypeOK
  BY DEF IInv
<1>1. CASE Tick
  <2>1. \A s \in Sessions : StatusOf(s)' = StatusOf(s) /\ DeadlineOf(s)' = DeadlineOf(s)
    BY <1>1, Unmoved DEF Tick, EntryOf, PresentedOf, Consuming
  <2>2. Abstract!Tick
    BY <1>1, <2>1 DEF Tick, Abstract!Tick
  <2> QED
    BY <2>2 DEF Abstract!Next
<1>2. ASSUME NEW c \in Callers, Enter(c)
      PROVE  Abstract!Next \/ UNCHANGED Abstract!vars
  <2>1. ASSUME NEW s \in Sessions, NEW name \in Names, CreateStart(c, s, name)
        PROVE  UNCHANGED Abstract!vars
    <3>1. ~Consuming(c) /\ ~Consuming(c)' /\ \A d \in Callers : d # c => call'[d] = call[d]
      BY <1>0, <2>1 DEF CreateStart, Step, TypeOK, Consuming, Idle
    <3> QED
      BY <2>1, <3>1, StutterStep DEF CreateStart
  <2>2. ASSUME NEW id \in Ids, ConsumeMiss(c, id)
        PROVE  UNCHANGED Abstract!vars
    <3>1. ~Consuming(c) /\ ~Consuming(c)' /\ \A d \in Callers : d # c => call'[d] = call[d]
      BY <1>0, <2>2 DEF ConsumeMiss, Step, TypeOK, Consuming, Idle
    <3> QED
      BY <2>2, <3>1, StutterStep DEF ConsumeMiss
  <2> QED
    BY <1>2, <2>1, <2>2, TakeRefines DEF Enter
<1>3. ASSUME NEW c \in Callers, Continue(c)
      PROVE  Abstract!Next \/ UNCHANGED Abstract!vars
  <2>1. ASSUME NEW id \in Ids, CreateDraw(c, id)
        PROVE  UNCHANGED Abstract!vars
    <3>1. ~Consuming(c) /\ ~Consuming(c)' /\ \A d \in Callers : d # c => call'[d] = call[d]
      BY <1>0, <2>1 DEF CreateDraw, Step, TypeOK, Consuming
    <3> QED
      BY <2>1, <3>1, StutterStep DEF CreateDraw
  <2>2. CASE CreateRandomFails(c)
    <3>1. ~Consuming(c) /\ ~Consuming(c)' /\ \A d \in Callers : d # c => call'[d] = call[d]
      BY <1>0, <2>2 DEF CreateRandomFails, Step, TypeOK, Consuming, Idle
    <3> QED
      BY <2>2, <3>1, StutterStep DEF CreateRandomFails
  <2> QED
    BY <1>3, <2>1, <2>2, InsertRefines, CollisionRefines, CheckRefines DEF Continue
<1>4. CASE UNCHANGED vars
  <2>1. \A s \in Sessions : StatusOf(s)' = StatusOf(s) /\ DeadlineOf(s)' = DeadlineOf(s)
    BY <1>4, Unmoved DEF vars, EntryOf, PresentedOf, Consuming
  <2> QED
    BY <1>4, <2>1 DEF vars, Abstract!vars
<1> QED
  BY <1>1, <1>2, <1>3, <1>4 DEF Next

LEMMA InitRefines == Init => Abstract!Init
<1> SUFFICES ASSUME Init PROVE Abstract!Init
  OBVIOUS
<1>1. \A s \in Sessions : EntryOf(s) = {} /\ PresentedOf(s) = {}
  BY DEF Init, EntryOf, PresentedOf, Consuming, Idle
<1>2. \A s \in Sessions : StatusOf(s) = "fresh" /\ DeadlineOf(s) = 0
  BY <1>1 DEF Init, StatusOf, DeadlineOf
<1> QED
  BY <1>2 DEF Init, Abstract!Init

\* The store is a one-time session store, for every number of goroutines.
THEOREM StoreRefines == Spec => ImplementsOneTimeSessions
<1>1. IInv /\ IInv' /\ [Next]_vars => [Abstract!Next]_(Abstract!vars)
  BY StepRefines
<1> QED
  BY InitRefines, <1>1, Invariant, PTL DEF Spec, ImplementsOneTimeSessions, Abstract!Spec
=============================================================================
