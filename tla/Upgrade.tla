-------------------------------- MODULE Upgrade --------------------------------
(***************************************************************************)
(* What a migration promises, without a word of services, repositories or  *)
(* prompts: the packages are upgraded in one step, and only while the      *)
(* server has every product of the target activated; a migration that      *)
(* reports success has the target activated; and once an upgrade stopped   *)
(* half way the migration touches nothing any more.                        *)
(***************************************************************************)
VARIABLES target,       \* a target has been chosen
          registered,   \* the server has all of its products activated
          software,     \* the packages: "source", "target" or "broken"
          outcome       \* "running", or how the command ended

uvars == <<target, registered, software, outcome>>

Init == target = FALSE /\ registered = FALSE /\ software = "source" /\ outcome = "none"

Begin ==
    /\ outcome # "running"
    /\ target' = FALSE /\ registered' = FALSE /\ software' = "source"
    /\ outcome' = "running"

Choose ==
    /\ outcome = "running" /\ ~target
    /\ target' = TRUE /\ registered' \in BOOLEAN
    /\ UNCHANGED <<software, outcome>>

\* The activations are moved to the target, or back.
Register ==
    /\ outcome = "running" /\ target /\ software # "broken"
    /\ registered' = ~registered
    /\ UNCHANGED <<target, software, outcome>>

Commit ==
    /\ outcome = "running" /\ target /\ registered /\ software = "source"
    /\ software' = "target"
    /\ UNCHANGED <<target, registered, outcome>>

Break ==
    /\ outcome = "running" /\ target /\ registered /\ software = "source"
    /\ software' = "broken" /\ outcome' = "inconsistent"
    /\ UNCHANGED <<target, registered>>

End ==
    /\ outcome = "running"
    /\ \/ outcome' = "ok" /\ (target => registered)
       \/ outcome' \in {"failed", "rolledBack", "abandoned", "killed"}
    /\ UNCHANGED <<target, registered, software>>

\* The user goes back to a snapshot of the packages.
Boot ==
    /\ outcome # "running" /\ software' = "source" /\ outcome' = "none"
    /\ UNCHANGED <<target, registered>>

Next == Begin \/ Choose \/ Register \/ Commit \/ Break \/ End \/ Boot

Spec == Init /\ [][Next]_uvars
===============================================================================
