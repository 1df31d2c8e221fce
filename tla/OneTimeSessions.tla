--------------------------- MODULE OneTimeSessions ---------------------------
(***************************************************************************)
(* What the session store promises, without maps, locks, identifiers or    *)
(* callers: a pending authorization goes live once, with a deadline at most *)
(* TTL away, is presented by at most one callback, and is handed out at    *)
(* most once and only before its deadline.  It may be dropped unpresented  *)
(* only when its deadline has passed.                                      *)
(***************************************************************************)
EXTENDS Integers

CONSTANTS Sessions, TTL

VARIABLES status, deadline, time

vars == <<status, deadline, time>>

TypeOK ==
  /\ status \in [Sessions -> {"fresh", "live", "presented", "redeemed", "void"}]
  /\ deadline \in [Sessions -> Nat]
  /\ time \in Nat

Init ==
  /\ status = [s \in Sessions |-> "fresh"]
  /\ deadline = [s \in Sessions |-> 0]
  /\ time = 0

\* The live sessions a purge may drop now.
Overdue == {s \in Sessions : status[s] = "live" /\ deadline[s] <= time}

\* A session goes live; the purge that comes with it drops overdue ones.
Issue(s, d, dropped) ==
  /\ status[s] = "fresh"
  /\ dropped \subseteq Overdue
  /\ d <= time + TTL
  /\ status' = [x \in Sessions |-> IF x = s THEN "live"
                                   ELSE IF x \in dropped THEN "void" ELSE status[x]]
  /\ deadline' = [x \in Sessions |-> IF x = s THEN d
                                     ELSE IF x \in dropped THEN 0 ELSE deadline[x]]
  /\ UNCHANGED time

Drop(dropped) ==
  /\ dropped \subseteq Overdue
  /\ status' = [x \in Sessions |-> IF x \in dropped THEN "void" ELSE status[x]]
  /\ deadline' = [x \in Sessions |-> IF x \in dropped THEN 0 ELSE deadline[x]]
  /\ UNCHANGED time

Present(s) ==
  /\ status[s] = "live"
  /\ status' = [status EXCEPT ![s] = "presented"]
  /\ UNCHANGED <<deadline, time>>

Redeem(s) ==
  /\ status[s] = "presented"
  /\ time < deadline[s]
  /\ status' = [status EXCEPT ![s] = "redeemed"]
  /\ deadline' = [deadline EXCEPT ![s] = 0]
  /\ UNCHANGED time

\* Presented too late, or for another provider: gone for good all the same.
Reject(s) ==
  /\ status[s] = "presented"
  /\ status' = [status EXCEPT ![s] = "void"]
  /\ deadline' = [deadline EXCEPT ![s] = 0]
  /\ UNCHANGED time

Tick == time' = time + 1 /\ UNCHANGED <<status, deadline>>

Next ==
  \/ Tick
  \/ \E dropped \in SUBSET Sessions : Drop(dropped)
  \/ \E s \in Sessions :
       \/ \E d \in 0..(time + TTL), dropped \in SUBSET Sessions : Issue(s, d, dropped)
       \/ Present(s)
       \/ Redeem(s)
       \/ Reject(s)

Spec == Init /\ [][Next]_vars
=============================================================================
