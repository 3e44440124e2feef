---------------------------- MODULE Decommission ----------------------------
(***************************************************************************)
(* Decommissioning of one service (api/decommission-service).  portal-     *)
(* backend asks for two things, each by a request of its own: to scale the *)
(* service to zero in every environment (a sweep), and to start the        *)
(* workflow that removes it.                                               *)
(*                                                                         *)
(* A sweep takes the environments one after the other.  In each it reads   *)
(* the entity, whose failure ends the sweep, and deploys to zero, whose    *)
(* failure is logged and forgotten; at the end it answers 200.  Nothing    *)
(* but portal-backend makes the removal wait for the sweep.                *)
(*                                                                         *)
(* A deploy to zero is here its look at what runs, and its message; what   *)
(* else it does is the subject of Deployment.  Outside: the entity, the    *)
(* lambda behind the deploy topic, the users who deploy, and the workflow. *)
(***************************************************************************)
EXTENDS Integers, Sequences

CONSTANTS
  Sweep,         \* the requests to scale to zero
  Remover,       \* the requests to start the remove workflow
  Env,           \* environments
  Order,         \* orderedEnvironments
  MaxRedeploys,  \* bound: deployments by others
  Fifo           \* does the ARN of the deploy topic end in "fifo"?

ASSUME OrderAssumption ==
  /\ Order \in Seq(Env) /\ Len(Order) > 0
  /\ \A i, k \in 1..Len(Order) : Order[i] = Order[k] => i = k
ASSUME BoundAssumption == MaxRedeploys \in Nat /\ Fifo \in BOOLEAN

VARIABLES
  stage,      \* where each sweep stands
  at,         \* the place in Order it has come to
  outcome,    \* what has come of each environment in each sweep
  removal,    \* where each removal stands
  entity,     \* the entity: a service, something else, or gone
  zoned,      \* the environments in which it has a zone
  topic,      \* for each environment the messages not yet delivered
  running,    \* what runs in each environment: "one" or "zero"
  dispatched, \* removals whose workflow GitHub has accepted
  late,       \* calls no longer waited for that may yet arrive
  redeploys,  \* how often the service has been deployed by others
  again,      \* history: where it has been after the sweep was done there
  onItsWay,   \* history: where messages were undelivered when the sweep looked
  zeroed,     \* history: the environments each sweep has published a zero for
  reach       \* history: the last place each sweep had read the entity for when it
              \* went, and the end of Order while it has not gone

sweepVars == <<stage, at, outcome, again, onItsWay>>
outsideVars == <<entity, zoned, running, redeploys, reach>>
vars == <<sweepVars, outsideVars, removal, topic, dispatched, late, zeroed>>

Count == {"zero", "one"}
Outcome == {"none", "published", "nothing", "failed", "no zone", "not deployable"}

Here(s) == Order[at[s]]
Sweeping(s) == stage[s] \in {"entity", "look", "deploy"}

Init ==
  /\ stage = [s \in Sweep |-> "none"]
  /\ at = [s \in Sweep |-> 1]
  /\ outcome = [s \in Sweep |-> [e \in Env |-> "none"]]
  /\ removal = [r \in Remover |-> "none"]
  /\ entity \in {"service", "other"}
  /\ zoned \in SUBSET Env
  /\ topic = [e \in Env |-> <<>>]
  /\ running \in [Env -> Count]
  /\ dispatched = {}
  /\ late = {}
  /\ redeploys = 0
  /\ again = [s \in Sweep |-> {}]
  /\ onItsWay = [s \in Sweep |-> {}]
  /\ zeroed = [s \in Sweep |-> {}]
  /\ reach = [s \in Sweep |-> Len(Order)]

-----------------------------------------------------------------------------
(* The sweep. *)

\* Slip: the loop runs once too often.
AdvanceOneMore(s) ==
  /\ at' = [at EXCEPT ![s] = @ + 1]
  /\ stage' = [stage EXCEPT ![s] = IF at[s] > Len(Order) THEN "ok" ELSE "entity"]

\* The loop goes to the next environment, or ends, and is answered 200.
Advance(s) ==
  /\ at' = [at EXCEPT ![s] = @ + 1]
  /\ stage' = [stage EXCEPT ![s] = IF at[s] = Len(Order) THEN "ok" ELSE "entity"]

Comes(s, what) == outcome' = [outcome EXCEPT ![s][Here(s)] = what]

\* A signed request of portal-backend arrives.
Arrives(s) ==
  /\ stage[s] = "none"
  /\ stage' = [stage EXCEPT ![s] = "entity"]
  /\ UNCHANGED <<at, outcome, again, onItsWay, outsideVars, removal, topic, dispatched, late, zeroed>>

\* Slip: the entity is read once, before the loop, and found in every environment.
ReadEntityOnce(s) ==
  /\ stage[s] = "entity"
  /\ \/ entity = "other" /\ Comes(s, "not deployable") /\ Advance(s)
     \/ entity # "other" /\ Here(s) \notin zoned /\ Comes(s, "no zone") /\ Advance(s)
     \/ /\ entity # "other" /\ Here(s) \in zoned
        /\ entity = "gone" => at[s] > 1
        /\ stage' = [stage EXCEPT ![s] = "look"]
        /\ UNCHANGED <<at, outcome>>
  /\ UNCHANGED <<again, onItsWay, outsideVars, removal, topic, dispatched, late, zeroed>>

\* scaleEcsToZeroInEnvironment reads the entity.
ReadEntity(s) ==
  /\ stage[s] = "entity"
  /\ \/ entity = "other" /\ Comes(s, "not deployable") /\ Advance(s)
     \/ entity = "service" /\ Here(s) \notin zoned /\ Comes(s, "no zone") /\ Advance(s)
     \/ /\ entity = "service" /\ Here(s) \in zoned
        /\ stage' = [stage EXCEPT ![s] = "look"]
        /\ UNCHANGED <<at, outcome>>
  /\ UNCHANGED <<again, onItsWay, outsideVars, removal, topic, dispatched, late, zeroed>>

\* There is no entity, or no answer: what getEntity throws, or what is read of
\* undefined, is caught by nobody. The sweep ends here.
NoEntity(s) ==
  /\ stage[s] = "entity"
  /\ stage' = [stage EXCEPT ![s] = "failed"]
  /\ UNCHANGED <<at, outcome, again, onItsWay, outsideVars, removal, topic, dispatched, late, zeroed>>

\* Slip: what runs is looked for in any environment.
LookAnywhere(s) ==
  /\ stage[s] = "look"
  /\ onItsWay' = [onItsWay EXCEPT ![s] =
       IF topic[Here(s)] = <<>> THEN @ ELSE @ \cup {Here(s)}]
  /\ \E e \in Env :
     \/ running[e] = "zero" /\ Comes(s, "nothing") /\ Advance(s)
     \/ /\ running[e] = "one"
        /\ stage' = [stage EXCEPT ![s] = "deploy"]
        /\ UNCHANGED <<at, outcome>>
  /\ UNCHANGED <<again, outsideVars, removal, topic, dispatched, late, zeroed>>

\* deployToZero: of what does not run, or runs with no instances, it throws, and
\* the error is caught.
Look(s) ==
  /\ stage[s] = "look"
  /\ onItsWay' = [onItsWay EXCEPT ![s] =
       IF topic[Here(s)] = <<>> THEN @ ELSE @ \cup {Here(s)}]
  /\ \/ running[Here(s)] = "zero" /\ Comes(s, "nothing") /\ Advance(s)
     \/ /\ running[Here(s)] = "one"
        /\ stage' = [stage EXCEPT ![s] = "deploy"]
        /\ UNCHANGED <<at, outcome>>
  /\ UNCHANGED <<again, outsideVars, removal, topic, dispatched, late, zeroed>>

\* deployService publishes; what may fail after that changes nothing here.
Deploy(s) ==
  /\ stage[s] = "deploy"
  /\ topic' = [topic EXCEPT ![Here(s)] = Append(@, "zero")]
  /\ zeroed' = [zeroed EXCEPT ![s] = @ \cup {Here(s)}]
  /\ Comes(s, "published")
  /\ Advance(s)
  /\ UNCHANGED <<again, onItsWay, outsideVars, removal, dispatched, late>>

\* The message that is waited for is lost, or is not and arrives after all.
LeavesCall(s) ==
  IF stage[s] = "deploy"
  THEN late' \in {late, late \cup {[by |-> s, env |-> Here(s)]}}
  ELSE UNCHANGED late

\* A call of deployToZero, up to its publish, fails: caught, and on to the next.
CallFails(s) ==
  /\ stage[s] \in {"look", "deploy"}
  /\ Comes(s, "failed")
  /\ Advance(s)
  /\ LeavesCall(s)
  /\ UNCHANGED <<again, onItsWay, outsideVars, removal, topic, dispatched, zeroed>>

\* The process is stopped.
Dies(s) ==
  /\ Sweeping(s)
  /\ stage' = [stage EXCEPT ![s] = "dead"]
  /\ LeavesCall(s)
  /\ UNCHANGED <<at, outcome, again, onItsWay, outsideVars, removal, topic, dispatched, zeroed>>

-----------------------------------------------------------------------------
(* The removal. *)

RemovalStep(r, label) == removal' = [removal EXCEPT ![r] = label]

RemovalArrives(r) ==
  /\ removal[r] = "none"
  /\ RemovalStep(r, "entity")
  /\ UNCHANGED <<sweepVars, outsideVars, topic, dispatched, late, zeroed>>

\* The entity is read; of one that is gone its name cannot be.
RemovalReads(r) ==
  /\ removal[r] = "entity"
  /\ RemovalStep(r, IF entity = "gone" THEN "failed" ELSE "dispatch")
  /\ UNCHANGED <<sweepVars, outsideVars, topic, dispatched, late, zeroed>>

\* triggerRemoveTenantWorkflow answers, and so does the handler, 200.
TriggerRemove(r) ==
  /\ removal[r] = "dispatch"
  /\ RemovalStep(r, "ok")
  /\ dispatched' = dispatched \cup {r}
  /\ UNCHANGED <<sweepVars, outsideVars, topic, late, zeroed>>

\* A call fails, or the process is stopped; the dispatch may arrive after all.
RemovalFails(r) ==
  /\ removal[r] \in {"entity", "dispatch"}
  /\ RemovalStep(r, IF removal[r] = "entity" THEN "failed" ELSE "lost")
  /\ \/ UNCHANGED dispatched
     \/ removal[r] = "dispatch" /\ dispatched' = dispatched \cup {r}
  /\ UNCHANGED <<sweepVars, outsideVars, topic, late, zeroed>>

-----------------------------------------------------------------------------
(* Outside. *)

\* The message of a call that nobody waits for any more arrives.
ArrivesLate(c) ==
  /\ late' = late \ {c}
  /\ topic' = [topic EXCEPT ![c.env] = Append(@, "zero")]
  /\ zeroed' = [zeroed EXCEPT ![c.by] = @ \cup {c.env}]
  /\ UNCHANGED <<sweepVars, outsideVars, removal, dispatched>>

\* A user, or portal-backend, deploys the service.
Redeploy(e) ==
  /\ redeploys < MaxRedeploys
  /\ redeploys' = redeploys + 1
  /\ topic' = [topic EXCEPT ![e] = Append(@, "one")]
  /\ again' = [s \in Sweep |-> IF outcome[s][e] = "none" THEN again[s] ELSE again[s] \cup {e}]
  /\ UNCHANGED <<stage, at, outcome, onItsWay, entity, zoned, running, reach, removal,
                 dispatched, late, zeroed>>

\* The topic delivers a message, a fifo topic the oldest of the environment.
Deliver(e) ==
  \E i \in 1..Len(topic[e]) :
    /\ Fifo => i = 1
    /\ running' = [running EXCEPT ![e] = topic[e][i]]
    /\ topic' = [topic EXCEPT ![e] =
         [k \in 1..(Len(@) - 1) |-> IF k < i THEN @[k] ELSE @[k + 1]]]
    /\ UNCHANGED <<sweepVars, entity, zoned, redeploys, reach, removal, dispatched, late, zeroed>>

\* The workflow runs, and the entity is gone.
WorkflowRuns ==
  /\ dispatched # {}
  /\ entity # "gone"
  /\ entity' = "gone"
  /\ reach' = [s \in Sweep |->
       IF stage[s] \in {"look", "deploy", "dead"} THEN at[s] ELSE at[s] - 1]
  /\ UNCHANGED <<sweepVars, zoned, running, redeploys, removal, topic, dispatched, late, zeroed>>

AllOver ==
  /\ \A s \in Sweep : stage[s] \in {"ok", "failed", "dead"}
  /\ UNCHANGED vars

Next ==
  \/ \E s \in Sweep :
       \/ Arrives(s)
       \/ ReadEntity(s)
       \/ NoEntity(s)
       \/ Look(s)
       \/ Deploy(s)
       \/ CallFails(s)
       \/ Dies(s)
  \/ \E r \in Remover :
       \/ RemovalArrives(r)
       \/ RemovalReads(r)
       \/ TriggerRemove(r)
       \/ RemovalFails(r)
  \/ \E c \in late : ArrivesLate(c)
  \/ \E e \in Env : Redeploy(e) \/ Deliver(e)
  \/ WorkflowRuns
  \/ AllOver

Spec == Init /\ [][Next]_vars

-----------------------------------------------------------------------------
(* What holds of a decommissioning. *)

\* Every variable keeps its type, and a sweep that is not over has an environment to be in.
TypeOK ==
  /\ stage \in [Sweep -> {"none", "entity", "look", "deploy", "ok", "failed", "dead"}]
  /\ at \in [Sweep -> 1..(Len(Order) + 1)]
  /\ \A s \in Sweep : stage[s] = "none" \/ Sweeping(s) => at[s] \in 1..Len(Order)
  /\ outcome \in [Sweep -> [Env -> Outcome]]
  /\ removal \in [Remover -> {"none", "entity", "dispatch", "ok", "failed", "lost"}]
  /\ entity \in {"service", "other", "gone"}
  /\ zoned \subseteq Env
  /\ topic \in [Env -> Seq(Count)]
  /\ running \in [Env -> Count]
  /\ dispatched \subseteq Remover
  /\ late \subseteq [by : Sweep, env : Env]
  /\ redeploys \in 0..MaxRedeploys
  /\ again \in [Sweep -> SUBSET Env]
  /\ onItsWay \in [Sweep -> SUBSET Env]
  /\ zeroed \in [Sweep -> SUBSET Env]
  /\ reach \in [Sweep -> 0..(Len(Order) + 1)]

\* A sweep is done with an environment before it touches the next of Order, so one
\* that ends early, or dies, has left the later ones alone; one that answers 200
\* has been to every environment. A removal that overtakes a sweep stops it at the
\* next environment: once the entity is gone, no environment behind those the sweep
\* had read it for is touched, late calls included, and the sweep is not answered
\* 200 unless it had read it for them all. A removal that answers 200 has its
\* workflow, and no workflow is started but by a removal that found an entity.
AnswersHold ==
  /\ \A s \in Sweep :
       /\ \A i \in 1..Len(Order) :
            /\ Order[i] \in zeroed[s] => \A k \in 1..(i - 1) : outcome[s][Order[k]] # "none"
            /\ i > at[s] => Order[i] \notin zeroed[s]
            /\ i > reach[s] => Order[i] \notin zeroed[s] /\ outcome[s][Order[i]] = "none"
       /\ stage[s] = "ok" =>
            /\ \A i \in 1..Len(Order) : outcome[s][Order[i]] # "none"
            /\ reach[s] >= Len(Order)
  /\ \A r \in Remover :
       /\ removal[r] = "ok" => r \in dispatched
       /\ r \in dispatched => removal[r] \in {"ok", "lost"}

\* What runs where, once a fifo topic has delivered everything, in an environment
\* a sweep has been done with, runs for a reason: deploying to zero failed, there
\* was nothing to deploy or nowhere to deploy it, the service was deployed again
\* since, or the sweep saw nothing run while a deployment was on its way.
NothingRunsUnexplained ==
  \A s \in Sweep, e \in Env :
    Fifo /\ topic[e] = <<>> /\ running[e] = "one" /\ outcome[s][e] # "none" =>
      \/ outcome[s][e] \in {"failed", "no zone", "not deployable"}
      \/ e \in again[s]
      \/ outcome[s][e] = "nothing" /\ e \in onItsWay[s]
=============================================================================
