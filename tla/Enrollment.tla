------------------------------ MODULE Enrollment ------------------------------
(***************************************************************************)
(* What the system credentials file promises to the rest of connect-ng:    *)
(* at most one login is enrolled on the machine; a login becomes enrolled  *)
(* only straight after the server has handed it out, never twice, and an   *)
(* enrolled login is given up before another one is taken.                 *)
(***************************************************************************)
CONSTANTS Logins, NoLogin

VARIABLES issued,    \* the logins the server has handed out so far
          offer,     \* the login it has just answered, not yet stored
          enrolled   \* the login the machine authenticates with

evars == <<issued, offer, enrolled>>

Init ==
    /\ issued = {}
    /\ offer = NoLogin
    /\ enrolled = NoLogin

\* The server answers an announcement. It may also issue a login whose answer
\* is lost.
Offer(l) ==
    /\ enrolled = NoLogin
    /\ l \notin issued
    /\ issued' = issued \cup {l}
    /\ offer' = l
    /\ UNCHANGED enrolled

Enroll ==
    /\ offer # NoLogin
    /\ enrolled = NoLogin
    /\ enrolled' = offer
    /\ offer' = NoLogin
    /\ UNCHANGED issued

\* The machine gives up before the credentials are stored.
Withdraw ==
    /\ offer # NoLogin
    /\ offer' = NoLogin
    /\ UNCHANGED <<issued, enrolled>>

Forget ==
    /\ enrolled # NoLogin
    /\ enrolled' = NoLogin
    /\ UNCHANGED <<issued, offer>>

Next == Enroll \/ Withdraw \/ Forget \/ \E l \in Logins : Offer(l)

Spec == Init /\ [][Next]_evars
===============================================================================
