-------------------------- MODULE FakeProviderProofs --------------------------
(* The fake provider is atomic, for any number of goroutines, kinds of      *)
(* operations, requests and configurations.                                *)
EXTENDS FakeProvider, TLAPS

\* What a call is tells what it carries.
LEMMA WantShape ==
  ASSUME NEW w \in Wants
  PROVE  /\ w.op \in {"invoke", "configure", "reset", "counts", "list"}
         /\ w.op = "invoke" => w.kind \in Kinds /\ w.request \in Requests
         /\ w.op = "configure" => w.kind \in Kinds /\ w.result \in Results /\ w.error \in Errors
         /\ w.op = "list" => w.kind \in Kinds
  BY DEF Wants, Invokes, Configures, Resets, CountReads, ListReads

LEMMA NoAnswerType == NoAnswer \in Answers
  BY DEF NoAnswer, AnswerOf, NoCounts, Answers

\* A call inside knows what it is.
LEMMA Known ==
  ASSUME IInv, NEW c \in Callers, pc[c] # "idle"
  PROVE  want[c] \in Wants
  BY DEF IInv, LockInv

\* A writer between Lock and Unlock is alone there.
LEMMA Alone ==
  ASSUME IInv, NEW c \in Callers, Inside(c), Writes(c)
  PROVE  /\ writer = c /\ writer # Nobody
         /\ readers = {}
         /\ \A d \in Callers \ {c} : ~Inside(d)
  BY NobodyAssumption DEF IInv, TypeOK, LockInv

\* A reader there has readers beside it only, and reads what was published.
LEMMA Reading ==
  ASSUME IInv, NEW c \in Callers, Inside(c), ~Writes(c)
  PROVE  /\ c \in readers
         /\ writer = Nobody
         /\ Unwritten /\ calls = published.calls
  BY DEF IInv, TypeOK, LockInv, WriterInv

\* With the lock free nobody is inside.
LEMMA Deserted ==
  ASSUME IInv, writer = Nobody, readers = {}
  PROVE  \A c \in Callers : ~Inside(c)
  BY NobodyAssumption DEF IInv, LockInv

\* Nothing is said of a call that does not move, when the fields do not either.
LEMMA Bystander ==
  ASSUME NEW d \in Callers, UNCHANGED <<fields, published>>,
         pc'[d] = pc[d], want'[d] = want[d], todo'[d] = todo[d], got'[d] = got[d]
  PROVE  /\ Inside(d)' <=> Inside(d)
         /\ Writes(d)' <=> Writes(d)
         /\ InvokeInv(d)' <=> InvokeInv(d)
         /\ ConfigureInv(d)' <=> ConfigureInv(d)
         /\ ResetInv(d)' <=> ResetInv(d)
         /\ CountsInv(d)' <=> CountsInv(d)
         /\ ListInv(d)' <=> ListInv(d)
  BY DEF Inside, Writes, InvokeInv, ConfigureInv, ResetInv, CountsInv, ListInv, Unwritten, fields

LEMMA InitIInv == Init => IInv
<1> SUFFICES ASSUME Init PROVE IInv
  OBVIOUS
<1>1. \A c \in Callers : ~Inside(c) /\ got[c] = NoAnswer /\ pc[c] = "idle" /\ want[c] = Nothing
  BY DEF Init, Inside
<1>2. TypeOK
  BY NoAnswerType DEF Init, TypeOK
<1>3. WriterInv
  BY <1>1 DEF Init, WriterInv, Unwritten
<1> QED
  BY <1>1, <1>2, <1>3 DEF Init, IInv, LockInv, ReaderInv, WaitingInv

-----------------------------------------------------------------------------
(* Entering and leaving. *)

LEMMA StartIInv ==
  ASSUME IInv, NEW c \in Callers, NEW w \in Wants, Start(c, w)
  PROVE  IInv'
<1>1. TypeOK'
  BY NoAnswerType DEF IInv, TypeOK, Start, Goto, fields
<1>2. ~Inside(c) /\ ~Inside(c)' /\ got[c] = NoAnswer /\ c \notin readers /\ writer # c
  BY NobodyAssumption DEF IInv, TypeOK, LockInv, WaitingInv, Inside, Start, Goto
<1>3. \A d \in Callers \ {c} : pc'[d] = pc[d] /\ want'[d] = want[d] /\ todo'[d] = todo[d]
  BY DEF IInv, TypeOK, Start, Goto
<1>4. UNCHANGED <<fields, writer, readers, got, published>>
  BY DEF Start
<1>5. pc'[c] = "lock" /\ want'[c] = w /\ todo'[c] = Kinds
  BY DEF IInv, TypeOK, Start, Goto
<1>6. LockInv'
  BY <1>2, <1>3, <1>4, <1>5 DEF IInv, TypeOK, LockInv, Inside, Writes
<1>7. WriterInv'
  <2>1. (writer = Nobody => Unwritten /\ calls = published.calls)'
    BY <1>4 DEF IInv, WriterInv, Unwritten, fields
  <2> QED
    BY <1>2, <1>3, <1>4, <2>1, Bystander DEF IInv, WriterInv
<1>8. ReaderInv'
  BY <1>2, <1>3, <1>4, Bystander DEF IInv, ReaderInv
<1>9. WaitingInv'
  BY <1>2, <1>3, <1>4, <1>5 DEF IInv, WaitingInv, Inside
<1> QED
  BY <1>1, <1>6, <1>7, <1>8, <1>9 DEF IInv

\* Where a call stands when it has just got the lock.
LEMMA Entered ==
  ASSUME IInv, NEW c \in Callers, Lock(c) \/ RLock(c)
  PROVE  /\ TypeOK'
         /\ ~Inside(c) /\ got[c] = NoAnswer /\ todo[c] = Kinds /\ want[c] \in Wants
         /\ pc'[c] = "first" /\ Inside(c)'
         /\ \A d \in Callers \ {c} : pc'[d] = pc[d]
         /\ UNCHANGED <<fields, want, todo, got, published>>
         /\ writer = Nobody /\ Unwritten /\ calls = published.calls
<1>1. TypeOK'
  BY DEF IInv, TypeOK, Lock, RLock, Goto, fields
<1>2. ~Inside(c) /\ got[c] = NoAnswer /\ todo[c] = Kinds /\ want[c] \in Wants
  BY DEF IInv, LockInv, WaitingInv, Inside, Lock, RLock
<1>3. pc'[c] = "first" /\ Inside(c)' /\ \A d \in Callers \ {c} : pc'[d] = pc[d]
  BY DEF IInv, TypeOK, Lock, RLock, Goto, Inside
<1>4. writer = Nobody /\ UNCHANGED <<fields, want, todo, got, published>>
  BY DEF Lock, RLock
<1> QED
  BY <1>1, <1>2, <1>3, <1>4 DEF IInv, WriterInv

LEMMA LockIInv ==
  ASSUME IInv, NEW c \in Callers, Lock(c)
  PROVE  IInv'
<1>1. Writes(c) /\ readers = {} /\ writer' = c /\ readers' = readers
  BY DEF Lock
<1>2. \A d \in Callers \ {c} : ~Inside(d) /\ ~Inside(d)'
  BY <1>1, Deserted, Entered DEF Inside
<1>3. LockInv'
  BY <1>1, <1>2, Entered, NobodyAssumption DEF IInv, TypeOK, LockInv, Writes
<1>4. InvokeInv(c)' /\ ConfigureInv(c)' /\ ResetInv(c)'
  <2>1. published.calls = [k \in Kinds |-> published.calls[k]]
    BY DEF IInv, TypeOK
  <2>2. Unwritten' /\ calls' = published'.calls /\ got'[c] = NoAnswer /\ todo'[c] = Kinds
    BY Entered DEF Unwritten, fields
  <2>3. InvokeInv(c)'
    BY <2>2, Entered DEF InvokeInv, NoAnswer
  <2>4. ConfigureInv(c)'
    BY <2>2, Entered DEF ConfigureInv, Unwritten
  <2>5. ResetInv(c)'
    BY <2>1, <2>2, Entered DEF ResetInv, fields
  <2> QED
    BY <2>3, <2>4, <2>5
<1>5. WriterInv'
  BY <1>1, <1>2, <1>4, NobodyAssumption DEF WriterInv
<1>6. ReaderInv'
  BY <1>1, <1>2, Entered DEF ReaderInv, Writes
<1>7. WaitingInv'
  BY <1>2, Entered DEF IInv, WaitingInv
<1> QED
  BY <1>3, <1>5, <1>6, <1>7, Entered DEF IInv

LEMMA RLockIInv ==
  ASSUME IInv, NEW c \in Callers, RLock(c)
  PROVE  IInv'
<1>1. ~Writes(c) /\ readers' = readers \union {c} /\ writer' = writer /\ writer = Nobody
  BY DEF RLock
<1>2. \A d \in Callers : d # c => (Inside(d)' <=> Inside(d)) /\ (Writes(d)' <=> Writes(d))
  BY Entered DEF Inside, Writes
<1>3. LockInv'
  BY <1>1, <1>2, Entered, NobodyAssumption DEF IInv, TypeOK, LockInv, Writes
<1>4. CountsInv(c)' /\ ListInv(c)'
  BY Entered DEF CountsInv, ListInv, NoAnswer, NoCounts
<1>5. WriterInv'
  <2>1. \A d \in Callers : Inside(d)' => ~Writes(d)'
    BY <1>1, <1>3, NobodyAssumption DEF LockInv
  <2> QED
    BY <1>1, <2>1, Entered DEF IInv, WriterInv, Writes, Unwritten, fields
<1>6. ReaderInv'
  BY <1>4, Entered, Bystander DEF IInv, ReaderInv
<1>7. WaitingInv'
  BY <1>2, Entered DEF IInv, WaitingInv
<1> QED
  BY <1>3, <1>5, <1>6, <1>7, Entered DEF IInv

-----------------------------------------------------------------------------
(* Between the two: a step of one call, under the lock. *)

\* The steps of a writer keep IInv when they keep what it says of that writer.
LEMMA WriterMoves ==
  ASSUME IInv, NEW c \in Callers, Inside(c), Writes(c), Inside(c)', TypeOK',
         UNCHANGED <<writer, readers, want, published>>,
         \A d \in Callers \ {c} : pc'[d] = pc[d] /\ got'[d] = got[d] /\ todo'[d] = todo[d],
         want[c].op = "invoke" => InvokeInv(c)',
         want[c].op = "configure" => ConfigureInv(c)',
         want[c].op = "reset" => ResetInv(c)'
  PROVE  IInv'
<1>1. writer = c /\ writer # Nobody /\ readers = {} /\ \A d \in Callers \ {c} : ~Inside(d)
  BY Alone
<1>2. \A d \in Callers \ {c} : ~Inside(d)'
  BY <1>1 DEF Inside
<1>3. LockInv'
  BY <1>1, <1>2, Known DEF IInv, LockInv, Writes, Inside
<1>4. WriterInv'
  BY <1>1, <1>2 DEF WriterInv
<1>5. ReaderInv'
  BY <1>2 DEF ReaderInv, Writes
<1>6. WaitingInv'
  BY <1>1, <1>2 DEF IInv, WaitingInv, Inside
<1> QED
  BY <1>3, <1>4, <1>5, <1>6 DEF IInv

\* ... and those of a reader.
LEMMA ReaderMoves ==
  ASSUME IInv, NEW c \in Callers, Inside(c), ~Writes(c), Inside(c)', TypeOK',
         UNCHANGED <<fields, writer, readers, want, published>>,
         \A d \in Callers \ {c} : pc'[d] = pc[d] /\ got'[d] = got[d] /\ todo'[d] = todo[d],
         want[c].op = "counts" => CountsInv(c)',
         want[c].op = "list" => ListInv(c)'
  PROVE  IInv'
<1>1. writer = Nobody /\ Unwritten /\ calls = published.calls /\ c \in readers
  BY Reading
<1>2. \A d \in Callers \ {c} : want'[d] = want[d]
  OBVIOUS
<1>3. ~Writes(c)'
  BY DEF Writes
<1>4. LockInv'
  <2>1. \A d \in Callers \ {c} : (Inside(d)' <=> Inside(d)) /\ (Writes(d)' <=> Writes(d))
    BY <1>2, Bystander
  <2>2. want'[c] \in Wants
    BY Known DEF Inside
  <2>3. \A d \in Callers : pc'[d] # "idle" => want'[d] \in Wants
    BY <1>2, <2>2 DEF IInv, LockInv
  <2> QED
    BY <1>1, <1>3, <2>1, <2>3 DEF IInv, TypeOK, LockInv
<1>5. WriterInv'
  <2>1. \A d \in Callers : Inside(d)' => ~Writes(d)'
    BY <1>1, <1>4, NobodyAssumption DEF LockInv
  <2> QED
    BY <1>1, <2>1 DEF WriterInv, Writes, Unwritten, fields
<1>6. ReaderInv'
  BY <1>2, Bystander DEF IInv, ReaderInv
<1>7. WaitingInv'
  BY <1>2, Bystander DEF IInv, WaitingInv, Inside
<1> QED
  BY <1>4, <1>5, <1>6, <1>7 DEF IInv

LEMMA RecordIInv ==
  ASSUME IInv, NEW c \in Callers, Record(c)
  PROVE  IInv'
<1>1. pc[c] = "first" /\ want[c].op = "invoke" /\ Inside(c) /\ Writes(c)
  BY DEF Record, At, Inside, Writes
<1>2. want[c].kind \in Kinds /\ want[c].request \in Requests
  BY <1>1, Known, WantShape
<1>3. pc' = [pc EXCEPT ![c] = "second"] /\ pc'[c] = "second" /\ Inside(c)'
  BY DEF Record, Goto, Inside, IInv, TypeOK
<1>4. TypeOK'
  <2>1. Append(calls[want[c].kind], want[c].request) \in Seq(Requests)
    BY <1>2 DEF IInv, TypeOK
  <2> QED
    BY <1>2, <1>3, <2>1 DEF IInv, TypeOK, Record
<1>5. InvokeInv(c)'
  BY <1>1, <1>3 DEF IInv, WriterInv, InvokeInv, Unwritten, Record
<1> QED
  BY <1>1, <1>3, <1>4, <1>5, WriterMoves DEF Record

LEMMA ReadResultIInv ==
  ASSUME IInv, NEW c \in Callers, ReadResult(c)
  PROVE  IInv'
<1>1. pc[c] = "second" /\ want[c].op = "invoke" /\ Inside(c) /\ Writes(c)
  BY DEF ReadResult, At, Inside, Writes
<1>2. want[c].kind \in Kinds
  BY <1>1, Known, WantShape
<1>3. pc'[c] = "third" /\ Inside(c)' /\ \A d \in Callers \ {c} : pc'[d] = pc[d] /\ got'[d] = got[d]
  BY DEF ReadResult, Goto, Got, Inside, IInv, TypeOK
<1>4. InvokeInv(c)
  BY <1>1 DEF IInv, WriterInv
<1>5. got'[c] = AnswerOf(published.result[want[c].kind], Unset, NoCounts, <<>>)
  BY <1>1, <1>4 DEF ReadResult, Got, InvokeInv, Unwritten, AnswerOf, IInv, TypeOK
<1>6. InvokeInv(c)'
  BY <1>1, <1>3, <1>4, <1>5 DEF InvokeInv, Unwritten, ReadResult, fields
<1>7. TypeOK'
  BY <1>2 DEF IInv, TypeOK, ReadResult, Goto, Got, fields, Answers
<1> QED
  BY <1>1, <1>3, <1>6, <1>7, WriterMoves DEF ReadResult

LEMMA ReadErrorIInv ==
  ASSUME IInv, NEW c \in Callers, ReadError(c)
  PROVE  IInv'
<1>1. pc[c] = "third" /\ want[c].op = "invoke" /\ Inside(c) /\ Writes(c)
  BY DEF ReadError, At, Inside, Writes
<1>2. want[c].kind \in Kinds
  BY <1>1, Known, WantShape
<1>3. pc'[c] = "unlock" /\ Inside(c)' /\ \A d \in Callers \ {c} : pc'[d] = pc[d] /\ got'[d] = got[d]
  BY DEF ReadError, Goto, Got, Inside, IInv, TypeOK
<1>4. InvokeInv(c)
  BY <1>1 DEF IInv, WriterInv
<1>5. got'[c] = AnswerOf(published.result[want[c].kind], published.error[want[c].kind],
                         NoCounts, <<>>)
  BY <1>1, <1>4 DEF ReadError, Got, InvokeInv, Unwritten, AnswerOf, IInv, TypeOK
<1>6. InvokeInv(c)'
  BY <1>1, <1>3, <1>4, <1>5 DEF InvokeInv, Unwritten, ReadError, fields
<1>7. TypeOK'
  BY <1>2 DEF IInv, TypeOK, ReadError, Goto, Got, fields, Answers
<1> QED
  BY <1>1, <1>3, <1>6, <1>7, WriterMoves DEF ReadError

LEMMA SetResultIInv ==
  ASSUME IInv, NEW c \in Callers, SetResult(c)
  PROVE  IInv'
<1>1. pc[c] = "first" /\ want[c].op = "configure" /\ Inside(c) /\ Writes(c)
  BY DEF SetResult, At, Inside, Writes
<1>2. want[c].kind \in Kinds /\ want[c].result \in Results
  BY <1>1, Known, WantShape
<1>3. pc'[c] = "second" /\ Inside(c)' /\ \A d \in Callers \ {c} : pc'[d] = pc[d]
  BY DEF SetResult, Goto, Inside, IInv, TypeOK
<1>4. TypeOK'
  BY <1>2 DEF IInv, TypeOK, SetResult, Goto
<1>5. ConfigureInv(c)'
  BY <1>1, <1>3 DEF IInv, WriterInv, ConfigureInv, SetResult
<1> QED
  BY <1>1, <1>3, <1>4, <1>5, WriterMoves DEF SetResult

LEMMA SetErrorIInv ==
  ASSUME IInv, NEW c \in Callers, SetError(c)
  PROVE  IInv'
<1>1. pc[c] = "second" /\ want[c].op = "configure" /\ Inside(c) /\ Writes(c)
  BY DEF SetError, At, Inside, Writes
<1>2. want[c].kind \in Kinds /\ want[c].error \in Errors
  BY <1>1, Known, WantShape
<1>3. pc'[c] = "unlock" /\ Inside(c)' /\ \A d \in Callers \ {c} : pc'[d] = pc[d]
  BY DEF SetError, Goto, Inside, IInv, TypeOK
<1>4. TypeOK'
  BY <1>2 DEF IInv, TypeOK, SetError, Goto
<1>5. ConfigureInv(c)'
  BY <1>1, <1>3 DEF IInv, WriterInv, ConfigureInv, SetError
<1> QED
  BY <1>1, <1>3, <1>4, <1>5, WriterMoves DEF SetError

\* A turn of a loop stays inside.
LEMMA TurnStays ==
  ASSUME IInv, NEW c \in Callers, NEW k \in Kinds, pc[c] = "first", Turn(c, k)
  PROVE  /\ k \in todo[c]
         /\ todo' \in [Callers -> SUBSET Kinds] /\ todo'[c] = todo[c] \ {k}
         /\ pc' \in [Callers -> {"idle", "lock", "first", "second", "third", "unlock"}]
         /\ pc'[c] \in {"first", "unlock"} /\ (pc'[c] = "unlock" => todo'[c] = {})
         /\ Inside(c)'
         /\ \A d \in Callers \ {c} : pc'[d] = pc[d] /\ todo'[d] = todo[d]
  BY DEF Turn, Goto, Inside, IInv, TypeOK

LEMMA ResetCallsIInv ==
  ASSUME IInv, NEW c \in Callers, NEW k \in Kinds, ResetCalls(c, k)
  PROVE  IInv'
<1>1. pc[c] = "first" /\ want[c].op = "reset" /\ Inside(c) /\ Writes(c) /\ Turn(c, k)
  BY DEF ResetCalls, At, Inside, Writes
<1>2. ResetInv(c)
  BY <1>1 DEF IInv, WriterInv
<1>3. TypeOK'
  <2>1. <<>> \in Seq(Requests)
    OBVIOUS
  <2> QED
    BY <1>1, <2>1, TurnStays DEF IInv, TypeOK, ResetCalls
<1>4. calls' = [j \in Kinds |-> IF j \in todo'[c] THEN published.calls[j] ELSE <<>>]
  BY <1>1, <1>2, TurnStays DEF ResetCalls, ResetInv, IInv, TypeOK
<1>5. ResetInv(c)'
  BY <1>1, <1>2, <1>4, TurnStays DEF ResetInv, Unwritten, ResetCalls
<1> QED
  BY <1>1, <1>3, <1>5, TurnStays, WriterMoves DEF ResetCalls

LEMMA CallCountsIInv ==
  ASSUME IInv, NEW c \in Callers, NEW k \in Kinds, CallCounts(c, k)
  PROVE  IInv'
<1>1. pc[c] = "first" /\ want[c].op = "counts" /\ Inside(c) /\ ~Writes(c) /\ Turn(c, k)
  BY DEF CallCounts, At, Inside, Writes
<1>2. CountsInv(c) /\ calls = published.calls
  BY <1>1, Reading DEF IInv, ReaderInv
<1>3. Len(calls[k]) \in Nat
  BY DEF IInv, TypeOK
<1>4. got'[c] = [got[c] EXCEPT !.counts[k] = Len(calls[k])]
      /\ \A d \in Callers \ {c} : got'[d] = got[d]
  BY DEF CallCounts, Got, IInv, TypeOK
<1>5. got[c].counts \in [Kinds -> Nat] /\ got[c] \in Answers
  BY DEF IInv, TypeOK, Answers
<1>6. got'[c] \in Answers
  BY <1>3, <1>4, <1>5 DEF Answers
<1>7. TypeOK'
  BY <1>1, <1>6, TurnStays DEF IInv, TypeOK, CallCounts, Got, fields
<1>8. CountsInv(c)'
  <2>1. got'[c] = AnswerOf(Unset, Unset, [got[c].counts EXCEPT ![k] = Len(calls[k])], <<>>)
    BY <1>2, <1>4 DEF CountsInv, AnswerOf
  <2>2. got[c].counts = [j \in Kinds |-> IF j \in todo[c] THEN 0 ELSE Len(published.calls[j])]
    BY <1>2 DEF CountsInv, AnswerOf
  <2>3. [got[c].counts EXCEPT ![k] = Len(calls[k])]
          = [j \in Kinds |-> IF j \in todo'[c] THEN 0 ELSE Len(published.calls[j])]
    BY <1>1, <1>2, <2>2, TurnStays
  <2>4. published' = published
    BY DEF CallCounts
  <2> QED
    BY <1>1, <2>1, <2>3, <2>4, TurnStays DEF CountsInv
<1> QED
  BY <1>1, <1>4, <1>7, <1>8, TurnStays, ReaderMoves DEF CallCounts

LEMMA ListCallsIInv ==
  ASSUME IInv, NEW c \in Callers, ListCalls(c)
  PROVE  IInv'
<1>1. pc[c] = "first" /\ want[c].op = "list" /\ Inside(c) /\ ~Writes(c)
  BY DEF ListCalls, At, Inside, Writes
<1>2. want[c].kind \in Kinds
  BY <1>1, Known, WantShape DEF Inside
<1>3. pc'[c] = "unlock" /\ Inside(c)' /\ \A d \in Callers \ {c} : pc'[d] = pc[d] /\ got'[d] = got[d]
  BY DEF ListCalls, Goto, Got, Inside, IInv, TypeOK
<1>4. ListInv(c) /\ calls = published.calls
  BY <1>1, Reading DEF IInv, ReaderInv
<1>5. got'[c] = AnswerOf(Unset, Unset, NoCounts, published.calls[want[c].kind])
  <2>1. got[c] = AnswerOf(Unset, Unset, NoCounts, <<>>)
    BY <1>1, <1>4 DEF ListInv
  <2>2. got'[c] = [got[c] EXCEPT !.calls = calls[want[c].kind]]
    BY DEF ListCalls, Got, IInv, TypeOK
  <2> QED
    BY <1>4, <2>1, <2>2 DEF AnswerOf
<1>6. ListInv(c)'
  BY <1>3, <1>5 DEF ListInv, ListCalls
<1>7. TypeOK'
  BY <1>2 DEF IInv, TypeOK, ListCalls, Goto, Got, fields, Answers
<1> QED
  BY <1>1, <1>3, <1>6, <1>7, ReaderMoves DEF ListCalls

-----------------------------------------------------------------------------
\* Where a call stands when it leaves.
LEMMA Left ==
  ASSUME IInv, NEW c \in Callers, Unlock(c)
  PROVE  /\ TypeOK'
         /\ Inside(c) /\ ~Inside(c)' /\ pc'[c] = "idle" /\ got'[c] = NoAnswer
         /\ \A d \in Callers \ {c} : /\ pc'[d] = pc[d] /\ want'[d] = want[d]
                                     /\ todo'[d] = todo[d] /\ got'[d] = got[d]
<1>1. pc' = [pc EXCEPT ![c] = "idle"] /\ got' = [got EXCEPT ![c] = NoAnswer]
      /\ want' = [want EXCEPT ![c] = Nothing] /\ todo' = [todo EXCEPT ![c] = {}]
      /\ answer' = [answer EXCEPT ![c] = got[c]] /\ UNCHANGED fields
  BY DEF Unlock, Goto, Got
<1>2. \/ writer' = Nobody /\ readers' = readers
         /\ published' = [result |-> result, error |-> error, calls |-> calls]
      \/ readers' \subseteq readers /\ UNCHANGED <<writer, published>>
  BY DEF Unlock
<1>3. TypeOK'
  BY <1>1, <1>2, NoAnswerType DEF IInv, TypeOK, fields
<1> QED
  BY <1>1, <1>3 DEF Unlock, Inside, IInv, TypeOK

LEMMA UnlockIInv ==
  ASSUME IInv, NEW c \in Callers, Unlock(c)
  PROVE  IInv'
<1>1. CASE Writes(c)
  <2>1. writer = c /\ writer # Nobody /\ readers = {} /\ \A d \in Callers \ {c} : ~Inside(d)
    BY <1>1, Alone, Left
  <2>2. \A d \in Callers : ~Inside(d)'
    BY <2>1, Left DEF Inside
  <2>3. writer' = Nobody /\ readers' = {} /\ UNCHANGED fields
        /\ published' = [result |-> result, error |-> error, calls |-> calls]
    BY <1>1, <2>1 DEF Unlock
  <2>4. LockInv'
    BY <2>2, <2>3, Left DEF IInv, LockInv
  <2>5. WriterInv'
    BY <2>2, <2>3 DEF WriterInv, Unwritten, fields
  <2>6. ReaderInv' /\ WaitingInv'
    BY <2>1, <2>2, Left DEF IInv, ReaderInv, WaitingInv
  <2> QED
    BY <2>4, <2>5, <2>6, Left DEF IInv
<1>2. CASE ~Writes(c)
  <2>1. writer = Nobody /\ Unwritten /\ calls = published.calls /\ c \in readers
    BY <1>2, Reading, Left
  <2>2. readers' = readers \ {c} /\ UNCHANGED <<fields, writer, published>>
    BY <1>2 DEF Unlock
  <2>3. \A d \in Callers \ {c} :
          /\ Inside(d)' <=> Inside(d)
          /\ Writes(d)' <=> Writes(d)
          /\ CountsInv(d)' <=> CountsInv(d)
          /\ ListInv(d)' <=> ListInv(d)
    BY <2>2, Left, Bystander
  <2>4. LockInv'
    <3>1. writer' = Nobody
      BY <2>1, <2>2
    <3>2. readers \subseteq Callers /\ LockInv
      BY DEF IInv, TypeOK
    <3>3. \A d \in Callers : Inside(d)' => ~Writes(d)' /\ d \in readers'
      BY <2>1, <2>2, <2>3, <3>2, Left, NobodyAssumption DEF LockInv
    <3>4. \A d \in readers' : Inside(d)' /\ ~Writes(d)'
      BY <2>2, <2>3, <3>2 DEF LockInv
    <3>5. \A d \in Callers : pc'[d] # "idle" => want'[d] \in Wants
      BY <3>2, Left DEF LockInv
    <3> QED
      BY <3>1, <3>3, <3>4, <3>5 DEF LockInv
  <2>5. WriterInv'
    <3>1. \A d \in Callers : Inside(d)' => ~Writes(d)'
      BY <2>1, <2>2, <2>4, NobodyAssumption DEF LockInv
    <3> QED
      BY <2>1, <2>2, <3>1 DEF WriterInv, Writes, Unwritten, fields
  <2>6. ReaderInv'
    BY <2>3, Left DEF IInv, ReaderInv
  <2>7. WaitingInv'
    BY <2>3, Left DEF IInv, WaitingInv
  <2> QED
    BY <2>4, <2>5, <2>6, <2>7, Left DEF IInv
<1> QED
  BY <1>1, <1>2

LEMMA NextIInv == IInv /\ [Next]_vars => IInv'
<1> SUFFICES ASSUME IInv, [Next]_vars PROVE IInv'
  OBVIOUS
<1>1. CASE Next
  <2> SUFFICES ASSUME NEW c \in Callers,
                      \/ \E w \in Wants : Start(c, w)
                      \/ Lock(c) \/ RLock(c) \/ Unlock(c)
                      \/ Record(c) \/ ReadResult(c) \/ ReadError(c)
                      \/ SetResult(c) \/ SetError(c)
                      \/ \E k \in Kinds : ResetCalls(c, k) \/ CallCounts(c, k)
                      \/ ListCalls(c)
               PROVE  IInv'
    BY <1>1 DEF Next
  <2> QED
    BY StartIInv, LockIInv, RLockIInv, UnlockIInv, RecordIInv, ReadResultIInv, ReadErrorIInv,
       SetResultIInv, SetErrorIInv, ResetCallsIInv, CallCountsIInv, ListCallsIInv
<1>2. CASE UNCHANGED vars
  BY <1>2, Bystander DEF vars, fields, IInv, TypeOK, LockInv, WriterInv, ReaderInv, WaitingInv,
                         Unwritten, Inside
<1> QED
  BY <1>1, <1>2

-----------------------------------------------------------------------------
(* Each step is an operation of AtomicProvider, or none. *)

LEMMA SameNoAnswer == Abstract!NoAnswer = NoAnswer
  BY DEF Abstract!NoAnswer, NoAnswer, Abstract!AnswerOf, AnswerOf, Abstract!NoCounts, NoCounts

LEMMA UnlockRefines ==
  ASSUME IInv, NEW c \in Callers, Unlock(c)
  PROVE  Abstract!Next \/ UNCHANGED Abstract!vars
<1>1. Inside(c) /\ pc[c] = "unlock" /\ want[c] \in Wants
  BY Known DEF Unlock, Inside
<1>2. answer' = [answer EXCEPT ![c] = got[c]]
  BY DEF Unlock
<1>3. published \in [result: [Kinds -> Results], error: [Kinds -> Errors],
                     calls: [Kinds -> Seq(Requests)]]
  BY DEF IInv, TypeOK
<1>4. CASE want[c].op = "invoke"
  <2>1. InvokeInv(c) /\ Writes(c) /\ want[c].kind \in Kinds /\ want[c].request \in Requests
    BY <1>1, <1>4, WantShape DEF IInv, WriterInv, Writes
  <2>2. published' = [result |-> result, error |-> error, calls |-> calls]
    BY <2>1 DEF Unlock
  <2>3. Abstract!Invoke(c, want[c].kind, want[c].request)
    BY <1>1, <1>2, <2>1, <2>2 DEF InvokeInv, Unwritten, Abstract!Invoke, Abstract!Answer, AnswerOf,
       Abstract!AnswerOf, NoCounts, Abstract!NoCounts
  <2> QED
    BY <2>1, <2>3 DEF Abstract!Next
<1>5. CASE want[c].op = "configure"
  <2>1. /\ ConfigureInv(c) /\ Writes(c)
        /\ want[c].kind \in Kinds /\ want[c].result \in Results /\ want[c].error \in Errors
    BY <1>1, <1>5, WantShape DEF IInv, WriterInv, Writes
  <2>2. published' = [result |-> result, error |-> error, calls |-> calls]
    BY <2>1 DEF Unlock
  <2>3. answer' = [answer EXCEPT ![c] = NoAnswer]
    BY <1>2, <2>1 DEF ConfigureInv
  <2>4. Abstract!Configure(c, want[c].kind, want[c].result, want[c].error)
    BY <1>1, <2>1, <2>2, <2>3, SameNoAnswer DEF ConfigureInv, Abstract!Configure, Abstract!Answer
  <2> QED
    BY <2>1, <2>4 DEF Abstract!Next
<1>6. CASE want[c].op = "reset"
  <2>1. ResetInv(c) /\ Writes(c)
    BY <1>1, <1>6 DEF IInv, WriterInv, Writes
  <2>2. published' = [result |-> result, error |-> error, calls |-> calls]
    BY <2>1 DEF Unlock
  <2>3. answer' = [answer EXCEPT ![c] = NoAnswer]
    BY <1>2, <2>1 DEF ResetInv
  <2>4. calls = [k \in Kinds |-> <<>>]
    BY <1>1, <2>1 DEF ResetInv
  <2>5. Abstract!Reset(c)
    BY <2>1, <2>2, <2>3, <2>4, SameNoAnswer DEF ResetInv, Unwritten, Abstract!Reset, Abstract!Answer
  <2> QED
    BY <2>5 DEF Abstract!Next
<1>7. CASE want[c].op = "counts"
  <2>1. CountsInv(c) /\ ~Writes(c)
    BY <1>1, <1>7 DEF IInv, ReaderInv, Writes
  <2>2. published' = published
    BY <2>1 DEF Unlock
  <2>3. got[c] = AnswerOf(Unset, Unset, [k \in Kinds |-> Len(published.calls[k])], <<>>)
    BY <1>1, <2>1 DEF CountsInv
  <2>4. Abstract!Counts(c)
    BY <1>2, <2>2, <2>3 DEF Abstract!Counts, Abstract!Answer, AnswerOf, Abstract!AnswerOf
  <2> QED
    BY <2>4 DEF Abstract!Next
<1>8. CASE want[c].op = "list"
  <2>1. ListInv(c) /\ ~Writes(c) /\ want[c].kind \in Kinds
    BY <1>1, <1>8, WantShape DEF IInv, ReaderInv, Writes
  <2>2. published' = published
    BY <2>1 DEF Unlock
  <2>3. got[c] = AnswerOf(Unset, Unset, NoCounts, published.calls[want[c].kind])
    BY <1>1, <2>1 DEF ListInv
  <2>4. Abstract!List(c, want[c].kind)
    BY <1>2, <2>2, <2>3 DEF Abstract!List, Abstract!Answer, AnswerOf, Abstract!AnswerOf, NoCounts,
       Abstract!NoCounts
  <2> QED
    BY <2>1, <2>4 DEF Abstract!Next
<1> QED
  BY <1>1, <1>4, <1>5, <1>6, <1>7, <1>8, WantShape

LEMMA StepRefines == IInv /\ [Next]_vars => [Abstract!Next]_(Abstract!vars)
<1> SUFFICES ASSUME IInv, [Next]_vars PROVE Abstract!Next \/ UNCHANGED Abstract!vars
  OBVIOUS
<1>1. CASE UNCHANGED vars
  BY <1>1 DEF vars, Abstract!vars
<1>2. CASE Next
  <2>1. PICK c \in Callers :
          \/ \E w \in Wants : Start(c, w)
          \/ Lock(c) \/ RLock(c) \/ Unlock(c)
          \/ Record(c) \/ ReadResult(c) \/ ReadError(c)
          \/ SetResult(c) \/ SetError(c)
          \/ \E k \in Kinds : ResetCalls(c, k) \/ CallCounts(c, k)
          \/ ListCalls(c)
    BY <1>2 DEF Next
  <2>2. CASE \E w \in Wants : Start(c, w)
    <3>1. Abstract!Ask(c)
      BY <2>2, SameNoAnswer DEF Start, Abstract!Ask, Abstract!Answer
    <3> QED
      BY <3>1 DEF Abstract!Next
  <2>3. CASE Unlock(c)
    BY <2>3, UnlockRefines
  <2>4. CASE \/ Lock(c) \/ RLock(c) \/ Record(c) \/ ReadResult(c) \/ ReadError(c)
             \/ SetResult(c) \/ SetError(c) \/ ListCalls(c)
    <3>1. UNCHANGED <<published, answer>>
      BY <2>4 DEF Lock, RLock, Record, ReadResult, ReadError, SetResult, SetError, ListCalls
    <3> QED
      BY <3>1 DEF Abstract!vars
  <2>5. CASE \E k \in Kinds : ResetCalls(c, k) \/ CallCounts(c, k)
    <3>1. UNCHANGED <<published, answer>>
      BY <2>5 DEF ResetCalls, CallCounts
    <3> QED
      BY <3>1 DEF Abstract!vars
  <2> QED
    BY <2>1, <2>2, <2>3, <2>4, <2>5
<1> QED
  BY <1>1, <1>2

LEMMA InitRefines == Init => Abstract!Init
  BY SameNoAnswer DEF Init, Abstract!Init

-----------------------------------------------------------------------------
\* The strengthened invariant: who is inside the lock, and what it has read and written
\* of the published fields so far (testkit/provider.go:49-65, 98-230).
THEOREM Invariant == Spec => []IInv
<1>1. Init => IInv
  BY InitIInv
<1>2. IInv /\ [Next]_vars => IInv'
  BY NextIInv
<1> QED
  BY <1>1, <1>2, PTL DEF Spec

\* The fields keep their types, and a writer excludes readers (provider.go:50).
THEOREM Typing == Spec => []TypeOK
<1>1. IInv => TypeOK
  BY DEF IInv
<1> QED
  BY <1>1, Invariant, PTL

\* The fake provider with its lock implements one whose operations are atomic
\* (provider.go:47-48).
THEOREM ProviderRefines == Spec => ImplementsAtomicProvider
<1>1. Init => Abstract!Init
  BY InitRefines
<1>2. IInv /\ [Next]_vars => [Abstract!Next]_(Abstract!vars)
  BY StepRefines
<1> QED
  BY <1>1, <1>2, Invariant, PTL DEF Spec, ImplementsAtomicProvider, Abstract!Spec
=============================================================================
