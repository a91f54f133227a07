------------------------------- MODULE Session -------------------------------
(***************************************************************************)
(* What an iperf3 server promises, without messages, sockets or threads:   *)
(* one client at a time has the server; its test is set up, run and        *)
(* reported in that order and at most once; the server can always be given *)
(* back, from any phase; and a client believes that its test succeeded     *)
(* only if the server has reported it.                                     *)
(***************************************************************************)
CONSTANTS
    Clients,
    Nobody,     \* the server is free
    Stranger    \* the server took something for a client that is none

VARIABLES
    served,     \* who has the server
    phase,      \* how far its test is
    reported,   \* the clients whose tests have been reported
    outcome     \* how each client's test ended, as the client sees it

sessionVars == <<served, phase, reported, outcome>>

Init ==
    /\ served = Nobody
    /\ phase = "idle"
    /\ reported = {}
    /\ outcome = [c \in Clients |-> "none"]

Acquire ==
    /\ phase = "idle"
    /\ served' \in Clients \cup {Stranger}
    /\ phase' = "setup"
    /\ UNCHANGED <<reported, outcome>>

(* Only a client has tests, and no client has two.                         *)
Begin ==
    /\ phase = "setup"
    /\ served \in Clients \ reported
    /\ phase' = "running"
    /\ UNCHANGED <<served, reported, outcome>>

Report ==
    /\ phase = "running"
    /\ reported' = reported \cup {served}
    /\ phase' = "reported"
    /\ UNCHANGED <<served, outcome>>

(* The client says goodbye, or is found to have left.                      *)
Leave ==
    /\ phase \in {"setup", "running", "reported"}
    /\ phase' = "leaving"
    /\ UNCHANGED <<served, reported, outcome>>

Release ==
    /\ phase # "idle"
    /\ served' = Nobody
    /\ phase' = "idle"
    /\ UNCHANGED <<reported, outcome>>

Finish(c) ==
    /\ outcome[c] = "none"
    /\ \E r \in {"ok", "failed"} :
          /\ r = "ok" => c \in reported
          /\ outcome' = [outcome EXCEPT ![c] = r]
    /\ UNCHANGED <<served, phase, reported>>

Next == Acquire \/ Begin \/ Report \/ Leave \/ Release \/ \E c \in Clients : Finish(c)

Spec == Init /\ [][Next]_sessionVars
=============================================================================
