---------------------------- MODULE Registration ----------------------------
(***************************************************************************)
(* How nodes come to be in the pool: the start of a node process           *)
(* (`madrpc node`, madrpc-cli/src/main.rs) with its registration loop      *)
(* (register_with_orchestrator, madrpc-server/src/node.rs) around the      *)
(* client's own retries, the `_register` endpoint of the orchestrator, and *)
(* the death and restart of either process.  The pool and its health       *)
(* checker are those of Orchestrator; they live in the memory of the       *)
(* orchestrator's process.  Nodes here are started with --orchestrator.    *)
(*                                                                         *)
(* A node registers BEFORE it binds its port, and it registers once.       *)
(***************************************************************************)
EXTENDS Orchestrator

CONSTANTS
    register_attempts,  \* max_attempts of register_with_orchestrator
    max_attempts        \* client::RetryConfig::max_attempts

ASSUME RegistrationAssumption ==
    /\ register_attempts \in Nat \ {0}
    /\ max_attempts \in Nat \ {0}

VARIABLES
    orch,       \* the orchestrator's process: "up" or "down"
    keyed,      \* whether the orchestrator was given an API key
    proc,       \* each node's process
    attempt,    \* the counter of its registration loop
    calls,      \* its client (Client), which retries by itself
    post,       \* its `_register` request in flight, or the answer to it
    late,       \* nodes with a request under way that nobody waits for any more:
                \* the node died or lost the connection (one such request each)
    undone      \* history: nodes whose admission an operator or a crash of the
                \* orchestrator has undone since

\* The client keeps no history of the wire here.
Http == INSTANCE Client WITH
            Call  <- Addr,
            wire  <- << >>

nodeVars == <<proc, attempt, calls, post>>
regVars  == <<orch, keyed, late, undone, nodeVars>>
allVars  == <<vars, regVars>>

Proc == {"down", "calling", "delaying", "starting", "serving"}

NoCall == [pc |-> "idle", attempt |-> 0, result |-> "Ok"]

RegInit ==
    /\ Init
    /\ up = {}
    /\ orch = "up"
    /\ keyed \in BOOLEAN
    /\ proc = [a \in Addr |-> "down"]
    /\ attempt = [a \in Addr |-> 0]
    /\ calls = [a \in Addr |-> NoCall]
    /\ post = [a \in Addr |-> "none"]
    /\ late = {}
    /\ undone = {}

-----------------------------------------------------------------------------
(* The node's process *)

\* `madrpc node --orchestrator ...`: main goes to the first call.
StartNode(a) ==
    /\ proc[a] = "down"
    /\ proc' = [proc EXCEPT ![a] = "calling"]
    /\ attempt' = [attempt EXCEPT ![a] = 1]
    /\ Http!StartCall(a)
    /\ UNCHANGED <<vars, orch, keyed, post, late, undone>>

\* What the try came to, and where that takes the client.
Tried(a, answer) ==
    /\ calls' = [calls EXCEPT ![a] = Http!AfterTry(@, Http!try_call(answer))]
    /\ post' = [post EXCEPT ![a] = "none"]
    /\ UNCHANGED <<vars, orch, keyed, proc, attempt, undone>>

\* The request leaves; from here on nothing limits the time it takes.
Post(a) ==
    /\ calls[a].pc = "trying"
    /\ post[a] = "none"
    /\ orch = "up"
    /\ post' = [post EXCEPT ![a] = "sent"]
    /\ UNCHANGED <<vars, orch, keyed, proc, attempt, calls, late, undone>>

Refused(a) ==
    /\ calls[a].pc = "trying"
    /\ post[a] = "none"
    /\ orch = "down"
    /\ Tried(a, Http!Answer("network", 0, FALSE))
    /\ UNCHANGED late

\* The connection breaks, after the request was handled or before: then it is
\* lost, or the orchestrator reads it later.
Broken(a) ==
    /\ post[a] # "none"
    /\ Tried(a, Http!Answer("network", 0, post[a] = "granted"))
    /\ \/ UNCHANGED late
       \/ post[a] = "sent" /\ late' = late \cup {a}

Reply(a) ==
    /\ \/ post[a] = "granted" /\ Tried(a, Http!Answer("result", 0, TRUE))
       \/ post[a] = "unauthorized" /\ Tried(a, Http!Answer("status_4xx", 0, FALSE))
    /\ UNCHANGED late

ClientWaits(a) ==
    /\ Http!RetryCall(a)
    /\ UNCHANGED <<vars, orch, keyed, proc, attempt, post, late, undone>>

\* Mutant: whatever the last call came to, the node goes on.
GoOnUnregistered(a) ==
    /\ proc[a] = "calling"
    /\ calls[a].pc = "returned"
    /\ proc' = [proc EXCEPT ![a] = "starting"]
    /\ UNCHANGED <<vars, orch, keyed, attempt, calls, post, late, undone>>

\* client.call returned; after the last attempt the process exits.
CallReturned(a) ==
    /\ proc[a] = "calling"
    /\ calls[a].pc = "returned"
    /\ proc' = [proc EXCEPT ![a] =
                   IF calls[a].result = "Ok" THEN "starting"
                   ELSE IF attempt[a] >= register_attempts THEN "down"
                   ELSE "delaying"]
    /\ UNCHANGED <<vars, orch, keyed, attempt, calls, post, late, undone>>

\* Mutant: attempts are not counted.
DelayUncounted(a) ==
    /\ proc[a] = "delaying"
    /\ proc' = [proc EXCEPT ![a] = "calling"]
    /\ Http!StartCall(a)
    /\ UNCHANGED <<vars, orch, keyed, attempt, post, late, undone>>

\* The doubled delay is over.
DelayOver(a) ==
    /\ proc[a] = "delaying"
    /\ proc' = [proc EXCEPT ![a] = "calling"]
    /\ attempt' = [attempt EXCEPT ![a] = @ + 1]
    /\ Http!StartCall(a)
    /\ UNCHANGED <<vars, orch, keyed, post, late, undone>>

\* server.run: the listener is bound, or the port is taken and main returns.
Bind(a) ==
    /\ proc[a] = "starting"
    /\ \/ /\ proc' = [proc EXCEPT ![a] = "serving"]
          /\ up' = up \cup {a}
       \/ /\ proc' = [proc EXCEPT ![a] = "down"]
          /\ UNCHANGED up
    /\ UNCHANGED <<lbVars, hcVars, orch, keyed, attempt, calls, post, late, undone>>

\* The process dies, or its accept loop returns an error.  The orchestrator
\* may still have a registration of it to read.
NodeDies(a) ==
    /\ proc[a] # "down"
    /\ proc' = [proc EXCEPT ![a] = "down"]
    /\ up' = up \ {a}
    /\ late' = IF post[a] = "sent" THEN late \cup {a} ELSE late
    /\ calls' = [calls EXCEPT ![a] = NoCall]
    /\ post' = [post EXCEPT ![a] = "none"]
    /\ UNCHANGED <<lbVars, hcVars, orch, keyed, attempt, undone>>

-----------------------------------------------------------------------------
(* The orchestrator's process *)

\* Mutant: a node that is known already is left as it is.
RegisterNewOnly(a) ==
    /\ IF a \in DOMAIN nodes THEN UNCHANGED lbVars ELSE add_node(a)
    /\ UNCHANGED <<hcVars, up>>

\* Mutant: the record of a node that is known already is replaced by a new one.
RegisterAfresh(a) ==
    /\ IF a \in DOMAIN nodes
       THEN /\ nodes' = [nodes EXCEPT ![a] = NewNode]
            /\ enabled_nodes' = IF a \in Entries(enabled_nodes) THEN enabled_nodes
                                ELSE Append(enabled_nodes, a)
            /\ UNCHANGED round_robin_index
       ELSE add_node(a)
    /\ UNCHANGED <<hcVars, up>>

\* handle_register, which validates nothing that can fail here.
handle_register(a) ==
    /\ register_node(a)
    /\ UNCHANGED <<hcVars, up>>

\* A `_register` request is read: it carries no API key.
Serve(a) ==
    /\ orch = "up"
    /\ \/ post[a] = "sent" /\ UNCHANGED late
       \/ a \in late /\ late' = late \ {a}
    /\ IF keyed
       THEN UNCHANGED <<vars, undone>>
       ELSE handle_register(a) /\ undone' = undone \ {a}
    /\ post' = [post EXCEPT ![a] =
                   IF a \in late /\ a \notin late' THEN @
                   ELSE IF keyed THEN "unauthorized" ELSE "granted"]
    /\ UNCHANGED <<orch, keyed, proc, attempt, calls>>

\* Management calls of the operator.
Manage(a) ==
    /\ orch = "up"
    /\ \/ Withdraw(a) /\ undone' = undone \cup {a}
       \/ (add_node(a) \/ enable_node(a)) /\ UNCHANGED <<hcVars, up, undone>>
    /\ UNCHANGED <<orch, keyed, late, nodeVars>>

CheckerSteps ==
    /\ orch = "up"
    /\ HcNext \/ TimePasses
    /\ UNCHANGED regVars

\* The pool is gone with the process; connections to it break.
OrchDies ==
    /\ orch = "up"
    /\ orch' = "down"
    /\ nodes' = << >>
    /\ enabled_nodes' = << >>
    /\ round_robin_index' = 0
    /\ phase' = "sleeping"
    /\ checks' = << >>
    /\ update' = NoUpdate
    /\ post' = [a \in Addr |-> IF post[a] = "sent" THEN "broken" ELSE post[a]]
    /\ late' = {}
    /\ undone' = Addr
    /\ UNCHANGED <<up, keyed, proc, attempt, calls>>

\* The pool holds the --node list only.
OrchStarts ==
    /\ orch = "down"
    /\ orch' = "up"
    /\ \E list \in InitialLists :
          /\ nodes' = [a \in Entries(list) |-> NewNode]
          /\ enabled_nodes' = list
    /\ UNCHANGED <<round_robin_index, hcVars, up, keyed, late, undone, nodeVars>>

-----------------------------------------------------------------------------
\* The steps for which a registering node waits for nobody.
OwnSteps(a) ==
    \/ Post(a) \/ Refused(a)
    \/ ClientWaits(a) \/ CallReturned(a) \/ DelayOver(a)

Registering(a) == OwnSteps(a) \/ Broken(a) \/ Reply(a)

RegNext ==
    \/ \E a \in Addr :
          \/ StartNode(a) \/ Registering(a) \/ Bind(a) \/ NodeDies(a)
          \/ Serve(a) \/ Manage(a)
    \/ CheckerSteps
    \/ OrchDies
    \/ OrchStarts

(***************************************************************************)
(* A node's task runs and a listener is bound or fails; the health checker *)
(* and the clock go on while the orchestrator lives.  Nobody has to start  *)
(* or restart anything, and nothing has to come of a request that was      *)
(* sent: MadrpcClient sets no timeout.                                     *)
(***************************************************************************)
RegSpec ==
    /\ RegInit /\ [][RegNext]_allVars
    /\ \A a \in Addr : WF_allVars(OwnSteps(a)) /\ WF_allVars(Bind(a))
    /\ WF_allVars(HcNext /\ CheckerSteps)
    /\ WF_allVars(TimePasses /\ CheckerSteps)

-----------------------------------------------------------------------------
RegTypeOK ==
    /\ TypeOK
    /\ orch \in {"up", "down"}
    /\ keyed \in BOOLEAN
    /\ proc \in [Addr -> Proc]
    /\ attempt \in [Addr -> 0..register_attempts]
    /\ calls \in [Addr -> [pc      : {"idle", "trying", "waiting", "returned"},
                              attempt : 0..max_attempts,
                              result  : {"Ok"} \cup Http!MadrpcError]]
    /\ post \in [Addr -> {"none", "sent", "granted", "unauthorized", "broken"}]
    /\ late \subseteq Addr
    /\ undone \subseteq Addr
    /\ up = {a \in Addr : proc[a] = "serving"}

(***************************************************************************)
(* A node that passed its registration is in the pool, unless an operator  *)
(* or a crash of the orchestrator has undone that since: lost replies,     *)
(* repeated requests and requests of a former life never make the two      *)
(* sides disagree.  (After such a crash nothing repairs it: the node       *)
(* registers when it starts, and never again.)                             *)
(***************************************************************************)
RegisteredIsMember ==
    \A a \in Addr :
        proc[a] \in {"starting", "serving"} =>
            \/ a \in undone
            \/ a \in DOMAIN nodes /\ nodes[a].disable_reason # "Manual"

(***************************************************************************)
(* Each life of the orchestrator's process is a NodePool of its own: the   *)
(* pool starts from the --node list, and from there on every step moves as *)
(* NodePool allows, whatever nodes, requests and the operator do.  The     *)
(* orchestrator keeps nothing across its death.                            *)
(***************************************************************************)
PoolInEachLife ==
    /\ Pool!PoolInit
    /\ [][IF orch' = orch
          THEN [Pool!PoolNext]_(Pool!poolVars)
          ELSE orch' = "up" => Pool!PoolInit']_allVars

(***************************************************************************)
(* A node that was started ends up serving or has exited, whatever dies,   *)
(* refuses or breaks on the way, unless one of its requests is neither     *)
(* answered nor broken for ever: the client has no timeout, so an          *)
(* orchestrator that accepts the connection and stays silent holds the     *)
(* start up for good.                                                      *)
(***************************************************************************)
StartSettles ==
    \A a \in Addr :
        \/ proc[a] # "down" ~> proc[a] \in {"serving", "down"}
        \/ <>[](post[a] # "none")

\* The steps that are left of a call, at most: each try is sent, answered and,
\* unless it was the last, waited for.
StepsOfCall(a) ==
    LET tries == max_attempts - calls[a].attempt
    IN  CASE calls[a].pc = "trying"  -> 3 * tries + (IF post[a] = "none" THEN 3 ELSE 2)
          [] calls[a].pc = "waiting" -> 3 * tries + 1
          [] OTHER                   -> 1

\* The steps of its own that a started node has left, at most, until it serves
\* or has exited.
StepsLeft(a) ==
    LET turns == register_attempts - attempt[a]
        turn  == 3 * max_attempts + 5
    IN  CASE proc[a] = "calling"  -> turn * turns + 1 + StepsOfCall(a)
          [] proc[a] = "delaying" -> turn * turns + 1
          [] proc[a] = "starting" -> 1
          [] OTHER                -> 0

(***************************************************************************)
(* The nested retry loops of a node run out: every step of its own leaves  *)
(* fewer of them, and nothing but a new start of the node, be it a step of *)
(* the orchestrator, of the network or of another node, ever adds one.     *)
(***************************************************************************)
RetriesRunOut ==
    [][\A a \in Addr :
          /\ Registering(a) \/ Bind(a) => StepsLeft(a)' < StepsLeft(a)
          /\ StepsLeft(a)' > StepsLeft(a) => StartNode(a)]_allVars

(***************************************************************************)
(* A node that serves for good, and whose admission is not undone, is      *)
(* routable for good in the end, also if it was routed to, failed and was  *)
(* isolated before it had bound its port, or had been disabled by an       *)
(* operator in a former life.                                              *)
(***************************************************************************)
AdmittedNodeServes ==
    \A a \in Addr :
        <>[](proc[a] = "serving" /\ orch = "up" /\ a \notin undone)
            => <>[]Routable(a)

(***************************************************************************)
(* A node that is gone for good is isolated in the end, also if its        *)
(* registration was read after it had died or its port was taken.          *)
(***************************************************************************)
GoneNodeIsolated ==
    \A a \in Addr :
        (/\ <>[](proc[a] = "down" /\ orch = "up")
         /\ <>[][~Manage(a)]_allVars)
        => <>[]~Routable(a)

=============================================================================
