----------------------------- MODULE MCMachine -----------------------------
(* A Machine with a rootless and a rootful Host. *)
EXTENDS Machine

MCHosts    == {"app", "sys"}
MCRootful  == {"sys"}
MCRank     == [h \in Hosts |-> IF h = "app" THEN 1 ELSE 2]
MCSlots    == {"run", "alone"}
MCBudgets  == {[hosts |-> Hosts, faults |-> 1, events |-> 1],
               [hosts |-> {"app"}, faults |-> 1, events |-> 2]}
MCKinds    == {"op", "resolve", "first", "start", "stop", "restart", "slow",
               "die"}

MCBundle   == [c \in Commits |-> [p \in Paths |->
                IF p = "quadlet" \/ c = 0 THEN "x" ELSE "y"]]
=============================================================================
