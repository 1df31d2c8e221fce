---------------------------- MODULE OneTimeLogins ----------------------------
(***************************************************************************)
(* What the application promises of logins, without browsers, cookies,     *)
(* handlers or a clock: a login is opened once, taken by one callback,      *)
(* checked, and its code is sent once; it is won once, or over.  A login    *)
(* that is over, refused, failed, expired or lost in a restart, never comes *)
(* back.                                                                   *)
(***************************************************************************)
CONSTANT Logins

VARIABLE stage

Stages == {"new", "open", "taken", "checked", "sent", "won", "over"}

TypeOK == stage \in [Logins -> Stages]

Init == stage = [l \in Logins |-> "new"]

Opened == {l \in Logins : stage[l] = "open"}
UnderWay == {l \in Logins : stage[l] \notin {"new", "won"}}

\* Some logins are over: refused, failed, late or lost in a restart.
GiveUp(gone) ==
  stage' = [l \in Logins |-> IF l \in gone THEN "over" ELSE stage[l]]

\* The session is stored; the purge that comes with it drops others.
Open(l) ==
  /\ stage[l] = "new"
  /\ \E gone \in SUBSET Opened :
       stage' = [x \in Logins |-> IF x = l THEN "open"
                                 ELSE IF x \in gone THEN "over" ELSE stage[x]]

GoesOn(l, from, to) == stage[l] = from /\ stage' = [stage EXCEPT ![l] = to]

Take(l) == GoesOn(l, "open", "taken")     \* consume
Check(l) == GoesOn(l, "taken", "checked") \* in time, and at the right path
Send(l) == GoesOn(l, "checked", "sent")   \* the code, to the token endpoint
Win(l) == GoesOn(l, "sent", "won")        \* the success page

Next ==
  \/ \E l \in Logins : Open(l) \/ Take(l) \/ Check(l) \/ Send(l) \/ Win(l)
  \/ \E gone \in SUBSET UnderWay : GiveUp(gone)

Spec == Init /\ [][Next]_stage
=============================================================================
