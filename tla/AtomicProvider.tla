--------------------------- MODULE AtomicProvider ---------------------------
(* What the fake provider promises to concurrent tests: every operation     *)
(* happens at one instant.  A call is recorded and answered with the result *)
(* and error of one configuration, counts are of one moment, and a reset    *)
(* forgets all kinds of calls at once.                                      *)
EXTENDS Naturals, Sequences

CONSTANTS Callers, Kinds, Requests, Results, Errors, Unset

VARIABLES result, error, calls, answer

vars == <<result, error, calls, answer>>

AnswerOf(r, e, n, l) == [result |-> r, error |-> e, counts |-> n, calls |-> l]
NoCounts == [k \in Kinds |-> 0]
NoAnswer == AnswerOf(Unset, Unset, NoCounts, <<>>)

Init ==
  /\ result \in [Kinds -> Results]
  /\ error \in [Kinds -> Errors]
  /\ calls = [k \in Kinds |-> <<>>]
  /\ answer = [c \in Callers |-> NoAnswer]

Answer(c, a) == answer' = [answer EXCEPT ![c] = a]

Ask(c) == Answer(c, NoAnswer) /\ UNCHANGED <<result, error, calls>>

Invoke(c, k, q) ==
  /\ calls' = [calls EXCEPT ![k] = Append(@, q)]
  /\ Answer(c, AnswerOf(result[k], error[k], NoCounts, <<>>))
  /\ UNCHANGED <<result, error>>

Configure(c, k, r, e) ==
  /\ result' = [result EXCEPT ![k] = r]
  /\ error' = [error EXCEPT ![k] = e]
  /\ Answer(c, NoAnswer)
  /\ UNCHANGED calls

Reset(c) ==
  /\ calls' = [k \in Kinds |-> <<>>]
  /\ Answer(c, NoAnswer)
  /\ UNCHANGED <<result, error>>

Counts(c) ==
  /\ Answer(c, AnswerOf(Unset, Unset, [k \in Kinds |-> Len(calls[k])], <<>>))
  /\ UNCHANGED <<result, error, calls>>

List(c, k) ==
  /\ Answer(c, AnswerOf(Unset, Unset, NoCounts, calls[k]))
  /\ UNCHANGED <<result, error, calls>>

Next ==
  \/ \E c \in Callers : Ask(c) \/ Counts(c) \/ Reset(c)
  \/ \E c \in Callers, k \in Kinds, r \in Results, e \in Errors : Configure(c, k, r, e)
  \/ \E c \in Callers, k \in Kinds : List(c, k) \/ \E q \in Requests : Invoke(c, k, q)

Spec == Init /\ [][Next]_vars
=============================================================================
