---------------------------- MODULE FakeProvider ----------------------------
(***************************************************************************)
(* The fake provider of the test kit (testkit/provider.go), used by the     *)
(* goroutines of a test and of the program under test at once.  Its four    *)
(* operations are alike, so they are kinds of one.  The read-write lock is  *)
(* a variable here and fields are read and written one at a time: what is   *)
(* under the lock is what the module is about.                             *)
(***************************************************************************)
EXTENDS Naturals, Sequences

CONSTANTS Callers,   \* goroutines
          Kinds,     \* Begin, Complete, User, Refresh
          Requests,  \* what an operation is called with
          Results,   \* configured results
          Errors,    \* configured errors, nil among them
          Unset,     \* no result, no error
          Nobody,    \* no writer
          MaxCalls   \* bound: no operation starts with so many calls recorded

ASSUME UnsetAssumption == Unset \notin Results \union Errors
ASSUME NobodyAssumption == Nobody \notin Callers
ASSUME MaxCallsAssumption == MaxCalls \in Nat

VARIABLES
  result, error,   \* the configured pair of each kind
  calls,           \* the recorded requests of each kind
  writer, readers, \* who holds mu
  pc, want, todo,  \* each caller's position, call, and kinds its loop has left
  got,             \* what it has read
  answer,          \* what its last call returned
  published        \* history: the fields as the last writer left them

fields == <<result, error, calls>>
vars == <<fields, writer, readers, pc, want, todo, got, answer, published>>

-----------------------------------------------------------------------------
Nothing == [op |-> "nothing"]
Invokes == [op: {"invoke"}, kind: Kinds, request: Requests]
Configures == [op: {"configure"}, kind: Kinds, result: Results, error: Errors]
Resets == [op: {"reset"}]
CountReads == [op: {"counts"}]
ListReads == [op: {"list"}, kind: Kinds]
Wants == Invokes \union Configures \union Resets \union CountReads \union ListReads

AnswerOf(r, e, n, l) == [result |-> r, error |-> e, counts |-> n, calls |-> l]
NoCounts == [k \in Kinds |-> 0]
NoAnswer == AnswerOf(Unset, Unset, NoCounts, <<>>)
Answers == [result: Results \union {Unset}, error: Errors \union {Unset},
            counts: [Kinds -> Nat], calls: Seq(Requests)]

TypeOK ==
  /\ result \in [Kinds -> Results]
  /\ error \in [Kinds -> Errors]
  /\ calls \in [Kinds -> Seq(Requests)]
  /\ writer \in Callers \union {Nobody}
  /\ readers \subseteq Callers
  /\ writer = Nobody \/ readers = {}
  /\ pc \in [Callers -> {"idle", "lock", "first", "second", "third", "unlock"}]
  /\ want \in [Callers -> Wants \union {Nothing}]
  /\ todo \in [Callers -> SUBSET Kinds]
  /\ got \in [Callers -> Answers]
  /\ answer \in [Callers -> Answers]
  /\ published \in [result: [Kinds -> Results], error: [Kinds -> Errors],
                    calls: [Kinds -> Seq(Requests)]]

\* NewProvider, with any configuration.
Init ==
  /\ result \in [Kinds -> Results]
  /\ error \in [Kinds -> Errors]
  /\ calls = [k \in Kinds |-> <<>>]
  /\ writer = Nobody /\ readers = {}
  /\ pc = [c \in Callers |-> "idle"]
  /\ want = [c \in Callers |-> Nothing]
  /\ todo = [c \in Callers |-> {}]
  /\ got = [c \in Callers |-> NoAnswer]
  /\ answer = [c \in Callers |-> NoAnswer]
  /\ published = [result |-> result, error |-> error, calls |-> calls]

-----------------------------------------------------------------------------
At(c, p, op) == pc[c] = p /\ want[c].op = op
Goto(c, p) == pc' = [pc EXCEPT ![c] = p]
Got(c, a) == got' = [got EXCEPT ![c] = a]
Writes(c) == want[c].op \in {"invoke", "configure", "reset"}

\* A goroutine calls a method.
Start(c, w) ==
  /\ pc[c] = "idle"
  /\ w \in Invokes => Len(calls[w.kind]) < MaxCalls
  /\ want' = [want EXCEPT ![c] = w]
  /\ todo' = [todo EXCEPT ![c] = Kinds]
  /\ answer' = [answer EXCEPT ![c] = NoAnswer]
  /\ Goto(c, "lock")
  /\ UNCHANGED <<fields, writer, readers, got, published>>

Lock(c) ==
  /\ pc[c] = "lock" /\ Writes(c)
  /\ writer = Nobody /\ readers = {}
  /\ writer' = c
  /\ Goto(c, "first")
  /\ UNCHANGED <<fields, readers, want, todo, got, answer, published>>

\* A slip: readers do not wait for a writer.
RLockBarging(c) ==
  /\ pc[c] = "lock" /\ ~Writes(c)
  /\ readers' = readers \union {c}
  /\ Goto(c, "first")
  /\ UNCHANGED <<fields, writer, want, todo, got, answer, published>>

RLock(c) ==
  /\ pc[c] = "lock" /\ ~Writes(c)
  /\ writer = Nobody
  /\ readers' = readers \union {c}
  /\ Goto(c, "first")
  /\ UNCHANGED <<fields, writer, want, todo, got, answer, published>>

\* Unlock or RUnlock, and the return.
Unlock(c) ==
  /\ pc[c] = "unlock"
  /\ \/ /\ Writes(c)
        /\ writer' = Nobody
        /\ published' = [result |-> result, error |-> error, calls |-> calls]
        /\ UNCHANGED readers
     \/ /\ ~Writes(c)
        /\ readers' = readers \ {c}
        /\ UNCHANGED <<writer, published>>
  /\ answer' = [answer EXCEPT ![c] = got[c]]
  /\ Goto(c, "idle")
  /\ want' = [want EXCEPT ![c] = Nothing]
  /\ todo' = [todo EXCEPT ![c] = {}]
  /\ Got(c, NoAnswer)
  /\ UNCHANGED fields

-----------------------------------------------------------------------------
\* Begin, Complete, User and Refresh: record the request, read the pair.
Record(c) ==
  /\ At(c, "first", "invoke")
  /\ calls' = [calls EXCEPT ![want[c].kind] = Append(@, want[c].request)]
  /\ Goto(c, "second")
  /\ UNCHANGED <<result, error, writer, readers, want, todo, got, answer, published>>

ReadResult(c) ==
  /\ At(c, "second", "invoke")
  /\ Got(c, [got[c] EXCEPT !.result = result[want[c].kind]])
  /\ Goto(c, "third")
  /\ UNCHANGED <<fields, writer, readers, want, todo, answer, published>>

ReadError(c) ==
  /\ At(c, "third", "invoke")
  /\ Got(c, [got[c] EXCEPT !.error = error[want[c].kind]])
  /\ Goto(c, "unlock")
  /\ UNCHANGED <<fields, writer, readers, want, todo, answer, published>>

\* ConfigureBegin and its three siblings replace the pair.
SetResult(c) ==
  /\ At(c, "first", "configure")
  /\ result' = [result EXCEPT ![want[c].kind] = want[c].result]
  /\ Goto(c, "second")
  /\ UNCHANGED <<error, calls, writer, readers, want, todo, got, answer, published>>

SetError(c) ==
  /\ At(c, "second", "configure")
  /\ error' = [error EXCEPT ![want[c].kind] = want[c].error]
  /\ Goto(c, "unlock")
  /\ UNCHANGED <<result, calls, writer, readers, want, todo, got, answer, published>>

\* One more kind of a loop over all of them; the order does not matter.
Turn(c, k) ==
  /\ k \in todo[c]
  /\ todo' = [todo EXCEPT ![c] = @ \ {k}]
  /\ IF todo[c] = {k} THEN Goto(c, "unlock") ELSE UNCHANGED pc

ResetCalls(c, k) ==
  /\ At(c, "first", "reset")
  /\ calls' = [calls EXCEPT ![k] = <<>>]
  /\ Turn(c, k)
  /\ UNCHANGED <<result, error, writer, readers, want, got, answer, published>>

\* A slip: a count for each kind, each under a lock of its own.
CountEachLocked(c, k) ==
  /\ At(c, "first", "counts")
  /\ Got(c, [got[c] EXCEPT !.counts[k] = Len(calls[k])])
  /\ k \in todo[c]
  /\ todo' = [todo EXCEPT ![c] = @ \ {k}]
  /\ IF todo[c] = {k} THEN Goto(c, "unlock") /\ UNCHANGED readers
     ELSE Goto(c, "lock") /\ readers' = readers \ {c}
  /\ UNCHANGED <<fields, writer, want, answer, published>>

CallCounts(c, k) ==
  /\ At(c, "first", "counts")
  /\ Got(c, [got[c] EXCEPT !.counts[k] = Len(calls[k])])
  /\ Turn(c, k)
  /\ UNCHANGED <<fields, writer, readers, want, answer, published>>

\* BeginCalls and its siblings copy one record.
ListCalls(c) ==
  /\ At(c, "first", "list")
  /\ Got(c, [got[c] EXCEPT !.calls = calls[want[c].kind]])
  /\ Goto(c, "unlock")
  /\ UNCHANGED <<fields, writer, readers, want, todo, answer, published>>

-----------------------------------------------------------------------------
Next ==
  \E c \in Callers :
    \/ \E w \in Wants : Start(c, w)
    \/ Lock(c) \/ RLock(c) \/ Unlock(c)
    \/ Record(c) \/ ReadResult(c) \/ ReadError(c)
    \/ SetResult(c) \/ SetError(c)
    \/ \E k \in Kinds : ResetCalls(c, k) \/ CallCounts(c, k)
    \/ ListCalls(c)

Spec == Init /\ [][Next]_vars

-----------------------------------------------------------------------------
(* Properties *)

\* What a writer writes counts from its unlock on.
Abstract == INSTANCE AtomicProvider WITH
  result <- published.result,
  error <- published.error,
  calls <- published.calls

\* Calls, configurations, resets and snapshots of concurrent goroutines take effect one
\* at a time: no answer mixes two configurations, no call is lost or recorded
\* without its answer, no count is taken in the middle of a reset
\* ("concurrency-safe", provider.go:47-48; "atomic snapshot", provider.go:39, 166).
ImplementsAtomicProvider == Abstract!Spec

\* The lock excludes: whoever is between Lock and Unlock holds it, and nobody else does.
Inside(c) == pc[c] \in {"first", "second", "third", "unlock"}
LockInv ==
  /\ \A c \in Callers : Inside(c) => IF Writes(c) THEN writer = c ELSE c \in readers
  /\ writer # Nobody => Inside(writer) /\ Writes(writer)
  /\ \A c \in readers : Inside(c) /\ ~Writes(c)
  /\ \A c \in Callers : pc[c] # "idle" => want[c] \in Wants

\* How far a writer has come from the published fields ...
Unwritten == result = published.result /\ error = published.error
InvokeInv(c) ==
  LET w == want[c] IN
  /\ Unwritten
  /\ calls = IF pc[c] = "first" THEN published.calls
             ELSE [published.calls EXCEPT ![w.kind] = Append(@, w.request)]
  /\ got[c] = AnswerOf(
       IF pc[c] \in {"first", "second"} THEN Unset ELSE published.result[w.kind],
       IF pc[c] = "unlock" THEN published.error[w.kind] ELSE Unset, NoCounts, <<>>)

ConfigureInv(c) ==
  LET w == want[c] IN
  /\ result = IF pc[c] = "first" THEN published.result
              ELSE [published.result EXCEPT ![w.kind] = w.result]
  /\ error = IF pc[c] = "unlock" THEN [published.error EXCEPT ![w.kind] = w.error]
             ELSE published.error
  /\ calls = published.calls
  /\ got[c] = NoAnswer

ResetInv(c) ==
  /\ Unwritten
  /\ calls = [k \in Kinds |-> IF k \in todo[c] THEN published.calls[k] ELSE <<>>]
  /\ pc[c] = "unlock" => todo[c] = {}
  /\ got[c] = NoAnswer

WriterInv ==
  /\ writer = Nobody => Unwritten /\ calls = published.calls
  /\ \A c \in Callers : Inside(c) =>
       /\ want[c].op = "invoke" => InvokeInv(c)
       /\ want[c].op = "configure" => ConfigureInv(c)
       /\ want[c].op = "reset" => ResetInv(c)

\* ... and what a reader has read of them.
CountsInv(c) ==
  /\ got[c] = AnswerOf(Unset, Unset,
       [k \in Kinds |-> IF k \in todo[c] THEN 0 ELSE Len(published.calls[k])], <<>>)
  /\ pc[c] = "unlock" => todo[c] = {}

ListInv(c) ==
  got[c] = AnswerOf(Unset, Unset, NoCounts,
    IF pc[c] = "unlock" THEN published.calls[want[c].kind] ELSE <<>>)

ReaderInv ==
  \A c \in Callers : Inside(c) =>
    /\ want[c].op = "counts" => CountsInv(c)
    /\ want[c].op = "list" => ListInv(c)

WaitingInv ==
  \A c \in Callers :
    /\ ~Inside(c) => got[c] = NoAnswer
    /\ pc[c] = "lock" => todo[c] = Kinds

IInv == TypeOK /\ LockInv /\ WriterInv /\ ReaderInv /\ WaitingInv
=============================================================================
