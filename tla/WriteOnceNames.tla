--------------------------- MODULE WriteOnceNames ---------------------------
(* What the provider registry promises: a name is bound to a provider once, *)
(* and from then on to that provider.                                      *)
CONSTANTS Keys, Objects, Nobody

VARIABLE binding

Init == binding = [k \in Keys |-> Nobody]

Bind(k, o) ==
  /\ binding[k] = Nobody
  /\ binding' = [binding EXCEPT ![k] = o]

Next == \E k \in Keys, o \in Objects : Bind(k, o)

Spec == Init /\ [][Next]_binding
=============================================================================
