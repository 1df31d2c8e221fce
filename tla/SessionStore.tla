---------------------------- MODULE SessionStore ----------------------------
(***************************************************************************)
(* The in-memory store of pending authorizations of the net/http example   *)
(* (examples/nethttp/session_store.go).  Request goroutines (Callers) call  *)
(* create when a login begins and consume when its callback arrives.  Only  *)
(* the map is behind the mutex: create reads the clock and draws its random *)
(* identifier before it takes the lock, consume reads the clock after it    *)
(* has released it, so the calls interleave around two locked sections.     *)
(***************************************************************************)
EXTENDS Integers, FiniteSets

CONSTANTS Callers,      \* request goroutines
          Sessions,     \* AuthorizationSession values, one per Begin
          Ids,          \* the identifiers the random source can draw
          Names,        \* provider names as the request path spells them
          Trim,         \* strings.TrimSpace on Names
          TTL,          \* store.ttl
          MaxAttempts,  \* 4 in the code
          MaxTime       \* bound of the exploration: the clock's last value

ASSUME TrimAssumption == Trim \in [Names -> Names]
ASSUME TTLAssumption == TTL \in Nat \ {0}
ASSUME AttemptsAssumption == MaxAttempts \in Nat \ {0}
ASSUME TimeAssumption == MaxTime \in Nat

VARIABLES
  sessions,     \* the map: a set of entries, at most one per id
  now,          \* the monotonic clock store.now reads
  call,         \* where each caller is, and its local variables
  answer,       \* what each caller's last call returned
  begun,        \* history: sessions create has been called with
  stored,       \* history: sessions that reached the map
  redemptions   \* history: how often consume returned each session

vars == <<sessions, now, call, answer, begun, stored, redemptions>>

-----------------------------------------------------------------------------
Entries == [id: Ids, provider: Names, session: Sessions, expiresAt: Nat]

Idle == [pc |-> "idle"]
Drawing == [pc: {"draw"}, provider: Names, session: Sessions, start: Nat,
            tries: Nat]
Inserting == [pc: {"insert"}, provider: Names, session: Sessions, start: Nat,
              tries: Nat, id: Ids]
Checking == [pc: {"check"}, provider: Names, pending: Entries]

Answers == {"none", "issued", "no_random", "no_id",
            "not_found", "expired", "mismatch", "session"}

TypeOK ==
  /\ sessions \subseteq Entries
  /\ now \in Nat
  /\ call \in [Callers -> {Idle} \union Drawing \union Inserting \union Checking]
  /\ answer \in [Callers -> Answers]
  /\ begun \subseteq Sessions
  /\ stored \subseteq Sessions
  /\ redemptions \in [Sessions -> Nat]

\* newSessionStore: an empty map.
Init ==
  /\ sessions = {}
  /\ now = 0
  /\ call = [c \in Callers |-> Idle]
  /\ answer = [c \in Callers |-> "none"]
  /\ begun = {}
  /\ stored = {}
  /\ redemptions = [s \in Sessions |-> 0]

Step(c, local, result) ==
  /\ call' = [call EXCEPT ![c] = local]
  /\ answer' = [answer EXCEPT ![c] = result]

-----------------------------------------------------------------------------
\* A slip: the purge compares with the new entry's expiry.
RemoveAllButNewest(at) == {e \in sessions : e.expiresAt > at + TTL}

\* removeExpired(at): what is left of the map, the caller holding the lock.
RemoveExpired(at) == {e \in sessions : e.expiresAt > at}

\* create, up to its loop: the clock is read once, for the expiry of the new
\* entry and for every purge the loop makes.
CreateStart(c, s, name) ==
  /\ call[c] = Idle
  /\ s \notin begun
  /\ begun' = begun \union {s}
  /\ Step(c, [pc |-> "draw", provider |-> Trim[name], session |-> s,
              start |-> now, tries |-> 0], "none")
  /\ UNCHANGED <<sessions, now, stored, redemptions>>

\* One turn of the loop draws an identifier outside the lock...
CreateDraw(c, id) ==
  /\ call[c].pc = "draw"
  /\ Step(c, [pc |-> "insert", provider |-> call[c].provider,
              session |-> call[c].session, start |-> call[c].start,
              tries |-> call[c].tries, id |-> id], "none")
  /\ UNCHANGED <<sessions, now, begun, stored, redemptions>>

\* ... unless the random source fails ...
CreateRandomFails(c) ==
  /\ call[c].pc = "draw"
  /\ Step(c, Idle, "no_random")
  /\ UNCHANGED <<sessions, now, begun, stored, redemptions>>

\* A slip: the ttl subtracted.
NewEntryInThePast(c) == [id |-> call[c].id, provider |-> call[c].provider,
                         session |-> call[c].session,
                         expiresAt |-> call[c].start - TTL]

NewEntry(c) == [id |-> call[c].id, provider |-> call[c].provider,
                session |-> call[c].session,
                expiresAt |-> call[c].start + TTL]

\* A slip: the insert without the look-up.
CreateOverwrites(c) ==
  /\ call[c].pc = "insert"
  /\ sessions' = RemoveExpired(call[c].start) \union {NewEntry(c)}
  /\ stored' = stored \union {call[c].session}
  /\ Step(c, Idle, "issued")
  /\ UNCHANGED <<now, begun, redemptions>>

\* ... and then purges and inserts under the lock, if the identifier is free,
CreateInsert(c) ==
  LET kept == RemoveExpired(call[c].start) IN
  /\ call[c].pc = "insert"
  /\ \A e \in kept : e.id # call[c].id
  /\ sessions' = kept \union {NewEntry(c)}
  /\ stored' = stored \union {call[c].session}
  /\ Step(c, Idle, "issued")
  /\ UNCHANGED <<now, begun, redemptions>>

\* A slip: a collision does not use up an attempt.
CreateCollidesUncounted(c) ==
  LET kept == RemoveExpired(call[c].start) IN
  /\ call[c].pc = "insert"
  /\ \E e \in kept : e.id = call[c].id
  /\ sessions' = kept
  /\ Step(c, [pc |-> "draw", provider |-> call[c].provider,
              session |-> call[c].session, start |-> call[c].start,
              tries |-> call[c].tries], "none")
  /\ UNCHANGED <<now, begun, stored, redemptions>>

\* or purges and goes round again, until the attempts are used up.
CreateCollides(c) ==
  LET kept == RemoveExpired(call[c].start) IN
  /\ call[c].pc = "insert"
  /\ \E e \in kept : e.id = call[c].id
  /\ sessions' = kept
  /\ IF call[c].tries + 1 < MaxAttempts
       THEN Step(c, [pc |-> "draw", provider |-> call[c].provider,
                     session |-> call[c].session, start |-> call[c].start,
                     tries |-> call[c].tries + 1], "none")
       ELSE Step(c, Idle, "no_id")
  /\ UNCHANGED <<now, begun, stored, redemptions>>

-----------------------------------------------------------------------------
\* A slip: the delete forgotten.
ConsumePeek(c, id, name) ==
  /\ call[c] = Idle
  /\ \E e \in sessions :
       /\ e.id = id
       /\ Step(c, [pc |-> "check", provider |-> Trim[name], pending |-> e], "none")
  /\ UNCHANGED <<sessions, now, begun, stored, redemptions>>

\* consume's locked section: look the entry up and delete it, whatever the
\* checks will say.
ConsumeTake(c, id, name) ==
  /\ call[c] = Idle
  /\ \E e \in sessions :
       /\ e.id = id
       /\ sessions' = sessions \ {e}
       /\ Step(c, [pc |-> "check", provider |-> Trim[name], pending |-> e], "none")
  /\ UNCHANGED <<now, begun, stored, redemptions>>

ConsumeMiss(c, id) ==
  /\ call[c] = Idle
  /\ \A e \in sessions : e.id # id
  /\ Step(c, Idle, "not_found")
  /\ UNCHANGED <<sessions, now, begun, stored, redemptions>>

\* A slip: the expiry is left to the purge.
ConsumeCheckUntimed(c) ==
  LET pending == call[c].pending IN
  /\ call[c].pc = "check"
  /\ \/ /\ pending.provider # call[c].provider
        /\ Step(c, Idle, "mismatch")
        /\ UNCHANGED redemptions
     \/ /\ pending.provider = call[c].provider
        /\ Step(c, Idle, "session")
        /\ redemptions' = [redemptions EXCEPT ![pending.session] = @ + 1]
  /\ UNCHANGED <<sessions, now, begun, stored>>

\* After the unlock: the clock is read again, then the provider compared.
ConsumeCheck(c) ==
  LET pending == call[c].pending IN
  /\ call[c].pc = "check"
  /\ \/ /\ pending.expiresAt <= now
        /\ Step(c, Idle, "expired")
        /\ UNCHANGED redemptions
     \/ /\ pending.expiresAt > now
        /\ pending.provider # call[c].provider
        /\ Step(c, Idle, "mismatch")
        /\ UNCHANGED redemptions
     \/ /\ pending.expiresAt > now
        /\ pending.provider = call[c].provider
        /\ Step(c, Idle, "session")
        /\ redemptions' = [redemptions EXCEPT ![pending.session] = @ + 1]
  /\ UNCHANGED <<sessions, now, begun, stored>>

-----------------------------------------------------------------------------
Tick ==
  /\ now < MaxTime
  /\ now' = now + 1
  /\ UNCHANGED <<sessions, call, answer, begun, stored, redemptions>>

\* What a caller that has entered create or consume does next.
Continue(c) ==
  \/ \E id \in Ids : CreateDraw(c, id)
  \/ CreateRandomFails(c)
  \/ CreateInsert(c)
  \/ CreateCollides(c)
  \/ ConsumeCheck(c)

Enter(c) ==
  \/ \E s \in Sessions, name \in Names : CreateStart(c, s, name)
  \/ \E id \in Ids, name \in Names : ConsumeTake(c, id, name)
  \/ \E id \in Ids : ConsumeMiss(c, id)

Next == Tick \/ \E c \in Callers : Enter(c) \/ Continue(c)

\* A goroutine inside a call is not blocked by anything but the mutex, which
\* every holder releases: it keeps taking steps.  Nobody has to call.
Fairness == \A c \in Callers : WF_vars(Continue(c))

Spec == Init /\ [][Next]_vars /\ Fairness

-----------------------------------------------------------------------------
(* Properties *)

Creating(c) == call[c].pc \in {"draw", "insert"}
Consuming(c) == call[c].pc = "check"

\* consume never hands one session to two callbacks, or twice to one: the
\* lookup and the delete are one locked step, so a second callback with the
\* same cookie finds nothing (session_store.go:78-83).
RedeemedAtMostOnce == \A s \in Sessions : redemptions[s] <= 1

\* The map holds one entry per identifier: create never stores over a pending
\* authorization, not even when two creates draw the same identifier at once.
UniqueIds == \A e, f \in sessions : e.id = f.id => e = f

CreatorOwns ==
  /\ stored \subseteq begun
  /\ \A c \in Callers : Creating(c) => call[c].session \in begun \ stored
  /\ \A c, d \in Callers :
       Creating(c) /\ Creating(d) /\ call[c].session = call[d].session => c = d

EntryOwns ==
  /\ \A e \in sessions : e.session \in stored /\ redemptions[e.session] = 0
  /\ \A e, f \in sessions : e.session = f.session => e = f

ConsumerOwns ==
  /\ \A c \in Callers : Consuming(c) =>
       /\ call[c].pending.session \in stored
       /\ redemptions[call[c].pending.session] = 0
       /\ \A e \in sessions : e.session # call[c].pending.session
  /\ \A c, d \in Callers :
       /\ Consuming(c)
       /\ Consuming(d)
       /\ call[c].pending.session = call[d].pending.session
       => c = d

OneOwner ==
  /\ CreatorOwns
  /\ EntryOwns
  /\ ConsumerOwns
  /\ \A s \in Sessions : redemptions[s] > 0 => s \in stored

\* A session is in one place at a time: with the create that was given it, in
\* one entry of the map, which is the only one under its identifier, in the hands
\* of one consume, or gone (session_store.go:61-83).
Ownership == UniqueIds /\ OneOwner

\* Every expiry the store will ever compare with was computed from a clock
\* value already read, however long the caller then waited for the lock.
ExpiryBounded ==
  /\ \A e \in sessions : e.expiresAt <= now + TTL
  /\ \A c \in Callers : Creating(c) => call[c].start <= now
  /\ \A c \in Callers : Consuming(c) => call[c].pending.expiresAt <= now + TTL

IInv == TypeOK /\ RedeemedAtMostOnce /\ UniqueIds /\ OneOwner /\ ExpiryBounded

PresentedIn(e) == \E c \in Callers :
  /\ call[c] = Idle
  /\ call'[c].pc = "check"
  /\ call'[c].pending = e

\* A pending authorization leaves the map only when its deadline has passed or
\* because a callback presented its identifier: neither a purge with an old
\* clock value nor a colliding create loses a login that is still in time.
KeepsLive ==
  \A e \in sessions : e \in sessions' \/ e.expiresAt <= now \/ PresentedIn(e)

\* A create that reaches the map leaves nothing there that was overdue when it
\* began, whatever other callers did while it waited for the lock.
Purges ==
  \A c \in Callers : call[c].pc = "insert" /\ call'[c] # call[c] =>
    \A e \in sessions' : e.expiresAt > call[c].start

\* Each create clears away the logins that were abandoned before it, and no step
\* loses one that is in time: what the map holds was begun at most
\* one time to live before the last create (session_store.go:53-74, 96-102).
PurgeIsExact == [][KeepsLive /\ Purges]_vars

\* create and consume return: the retry loop gives up when every identifier it
\* draws is taken (session_store.go:55-74).
CallsReturn == \A c \in Callers : call[c] # Idle ~> call[c] = Idle

-----------------------------------------------------------------------------
(* The store implements OneTimeSessions. *)

EntryOf(s) == {e \in sessions : e.session = s}
PresentedOf(s) == {call[c].pending : c \in {x \in Callers :
                     Consuming(x) /\ call[x].pending.session = s}}

StatusOf(s) ==
  IF redemptions[s] > 0 THEN "redeemed"
  ELSE IF EntryOf(s) # {} THEN "live"
  ELSE IF PresentedOf(s) # {} THEN "presented"
  ELSE IF s \in stored THEN "void"
  ELSE "fresh"

DeadlineOf(s) ==
  IF EntryOf(s) \union PresentedOf(s) = {} THEN 0
  ELSE (CHOOSE e \in EntryOf(s) \union PresentedOf(s) : TRUE).expiresAt

Abstract == INSTANCE OneTimeSessions WITH
  status <- [s \in Sessions |-> StatusOf(s)],
  deadline <- [s \in Sessions |-> DeadlineOf(s)],
  time <- now

\* Whatever the interleaving of goroutines, a session's life is the one-time
\* life of OneTimeSessions: live once, presented once, handed out in time.
ImplementsOneTimeSessions == Abstract!Spec
=============================================================================
