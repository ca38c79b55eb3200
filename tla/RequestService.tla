--------------------------- MODULE RequestService ---------------------------
(***************************************************************************)
(* What the orchestrator promises the sender of one HTTP request, with no  *)
(* pool, no node and no retry loop in sight: it is looked at before        *)
(* anything is done for it, it is answered at most once, a result is       *)
(* backed by a run of the script, and the script is run no more often than *)
(* Budget allows and never once the sender has its answer.                 *)
(*                                                                         *)
(* FrontEnd implements this module (ServiceImplemented there).             *)
(***************************************************************************)
EXTENDS Naturals

CONSTANTS Req, Budget

VARIABLES
    stage,      \* of each request: where it stands, or how it was answered
    runs        \* of each request: how often the script was run for it

serviceVars == <<stage, runs>>

Stage == {"arrived", "forwarded", "turned_away", "served_here", "result", "error"}

ServiceInit ==
    /\ stage = [r \in Req |-> "arrived"]
    /\ runs = [r \in Req |-> 0]

Moves(r, from, to) ==
    /\ stage[r] = from
    /\ stage' = [stage EXCEPT ![r] = to]
    /\ UNCHANGED runs

TurnAway(r)  == Moves(r, "arrived", "turned_away")
ServeHere(r) == Moves(r, "arrived", "served_here")
Forward(r)   == Moves(r, "arrived", "forwarded")

Run(r) ==
    /\ stage[r] = "forwarded"
    /\ runs[r] < Budget
    /\ runs' = [runs EXCEPT ![r] = @ + 1]
    /\ UNCHANGED stage

Succeed(r) == runs[r] > 0 /\ Moves(r, "forwarded", "result")
Fail(r)    == Moves(r, "forwarded", "error")

ServiceNext ==
    \E r \in Req :
        \/ TurnAway(r) \/ ServeHere(r) \/ Forward(r)
        \/ Run(r) \/ Succeed(r) \/ Fail(r)

ServiceSpec == ServiceInit /\ [][ServiceNext]_serviceVars

=============================================================================
