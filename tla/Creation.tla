------------------------------ MODULE Creation ------------------------------
(***************************************************************************)
(* Creation of one name: create-tenant (api/create-tenant) and             *)
(* create-repository (api/create-repository).                              *)
(*                                                                         *)
(* A tenant is first entered in portal-backend with status "Creating", and *)
(* only then is the GitHub workflow dispatched that makes it.  The refusal *)
(* of a second entity of the name (409, "Duplicate resource") is the only  *)
(* lock there is.  A repository is not entered anywhere: its workflow is   *)
(* dispatched, and a failure to do so is logged and not reported.          *)
(*                                                                         *)
(* An entity goes again when the remove workflow of a decommissioning      *)
(* (api/decommission-service, module Decommission) has taken it away: then *)
(* the name is free, while requests and calls from before still go on.     *)
(*                                                                         *)
(* Outside, and modelled from what the code expects of them: the user      *)
(* service (which team, which scopes), the entities of portal-backend and  *)
(* the workflows of GitHub.                                                *)
(***************************************************************************)
EXTENDS Naturals, Sequences, FiniteSets

CONSTANT Caller   \* the requests to create the name

VARIABLES
  stage,      \* where the handler of each request stands
  kind,       \* "tenant" or "repository"
  entity,     \* the name's status in portal-backend
  creator,    \* history: whose POST /entities entered the entity there is
  removed,    \* history: whose entered those that have been removed
  dispatched, \* the workflows GitHub has accepted, in order
  late        \* calls that their request no longer waits for and that may yet arrive

vars == <<stage, kind, entity, creator, removed, dispatched, late>>

Kind == {"tenant", "repository"}
Call == [by : Caller, call : {"entity", "dispatch"}]
Status == {"none", "Creating", "Created"}

Over(r) == stage[r] \in {"ok", "failed", "refused", "dead"}
Active(r) == stage[r] \in {"team", "entity", "dispatch"}
Step(r, label) == stage' = [stage EXCEPT ![r] = label]

\* The places of a kind's workflows in the order GitHub accepted them.
Workflows(k) == {i \in 1..Len(dispatched) : kind[dispatched[i]] = k}
Dispatched(r) == \E i \in 1..Len(dispatched) : dispatched[i] = r

Init ==
  /\ stage = [r \in Caller |-> "none"]
  /\ kind = [r \in Caller |-> "none"]
  /\ entity = "none"
  /\ creator = {}
  /\ removed = {}
  /\ dispatched = <<>>
  /\ late = {}

-----------------------------------------------------------------------------
(* portal-backend and GitHub. *)

\* POST /entities of a name that has an entity is a conflict; another is entered.
EntersEntity(r) ==
  /\ entity = "none"
  /\ entity' = "Creating"
  /\ creator' = {r}

\* Every dispatch of a workflow makes a run of its own.
EntersWorkflow(r) == dispatched' = Append(dispatched, r)

\* The workflow of a tenant, and the pipelines it sets off, end well. (It may be
\* that of an entity removed since: it is told a name and no more.)
Completes ==
  /\ entity = "Creating"
  /\ Workflows("tenant") # {}
  /\ entity' = "Created"
  /\ UNCHANGED <<stage, kind, creator, removed, dispatched, late>>

\* trigger-workflow of api/decommission-service has read the entity and dispatched
\* the workflow that removes it, and that has run.
TriggerRemoveWorkflow ==
  /\ entity # "none"
  /\ entity' = "none"
  /\ creator' = {}
  /\ removed' = removed \cup creator
  /\ UNCHANGED <<stage, kind, dispatched, late>>

-----------------------------------------------------------------------------
(* The handlers. *)

\* POST /create-tenant or POST /create-repository, validated.
Arrives(r) ==
  /\ stage[r] = "none"
  /\ Step(r, "team")
  /\ \E k \in Kind : kind' = [kind EXCEPT ![r] = k]
  /\ UNCHANGED <<entity, creator, removed, dispatched, late>>

\* Slip: a tenant's entity is left to the workflow to enter.
AcceptWithoutEntity(r) ==
  /\ stage[r] = "team"
  /\ Step(r, "dispatch")
  /\ UNCHANGED <<kind, entity, creator, removed, dispatched, late>>

\* Slip: a repository is entered in portal-backend too.
AcceptAlike(r) ==
  /\ stage[r] = "team"
  /\ Step(r, "entity")
  /\ UNCHANGED <<kind, entity, creator, removed, dispatched, late>>

\* The team has a GitHub team; for a tenant the template exists and the user
\* has a scope it requires.
Accept(r) ==
  /\ stage[r] = "team"
  /\ Step(r, IF kind[r] = "tenant" THEN "entity" ELSE "dispatch")
  /\ UNCHANGED <<kind, entity, creator, removed, dispatched, late>>

\* One of these is not so, or fetchTeam fails: nothing has been done yet.
Refuse(r) ==
  /\ stage[r] = "team"
  /\ Step(r, "refused")
  /\ UNCHANGED <<kind, entity, creator, removed, dispatched, late>>

\* createInitialEntity: the entity is entered.
CreateInitialEntity(r) ==
  /\ stage[r] = "entity"
  /\ EntersEntity(r)
  /\ Step(r, "dispatch")
  /\ UNCHANGED <<kind, removed, dispatched, late>>

\* Slip: a 409 is taken for "somebody has entered it already, go on".
DuplicateGoesOn(r) ==
  /\ stage[r] = "entity"
  /\ entity # "none"
  /\ Step(r, "dispatch")
  /\ UNCHANGED <<kind, entity, creator, removed, dispatched, late>>

\* createInitialEntity: fetcher throws "Duplicate resource".
Duplicate(r) ==
  /\ stage[r] = "entity"
  /\ entity # "none"
  /\ Step(r, "failed")
  /\ UNCHANGED <<kind, entity, creator, removed, dispatched, late>>

\* triggerWorkflow answers, and the request is answered 200.
TriggerWorkflow(r) ==
  /\ stage[r] = "dispatch"
  /\ EntersWorkflow(r)
  /\ Step(r, "ok")
  /\ UNCHANGED <<kind, entity, creator, removed, late>>

\* The call a request waits for is lost, or is not and arrives after all.
LeavesCall(r) ==
  IF stage[r] \in {"entity", "dispatch"}
  THEN late' \in {late, late \cup {[by |-> r, call |-> stage[r]]}}
  ELSE UNCHANGED late

\* Slip: the tenant's handler catches the failed dispatch like the other's.
CallFailsCaught(r) ==
  /\ stage[r] \in {"entity", "dispatch"}
  /\ Step(r, IF stage[r] = "dispatch" THEN "ok" ELSE "failed")
  /\ LeavesCall(r)
  /\ UNCHANGED <<kind, entity, creator, removed, dispatched>>

\* A call fails. A tenant's request fails with it; createTemplatedRepo catches
\* what triggerWorkflow throws, and the repository's request is answered 200.
CallFails(r) ==
  /\ stage[r] \in {"entity", "dispatch"}
  /\ Step(r, IF kind[r] = "repository" THEN "ok" ELSE "failed")
  /\ LeavesCall(r)
  /\ UNCHANGED <<kind, entity, creator, removed, dispatched>>

\* The process is stopped in the middle of a request.
Dies(r) ==
  /\ Active(r)
  /\ Step(r, "dead")
  /\ LeavesCall(r)
  /\ UNCHANGED <<kind, entity, creator, removed, dispatched>>

\* A call that nobody waits for any more arrives.
ArrivesLate(c) ==
  /\ late' = late \ {c}
  /\ \/ c.call = "entity" /\ EntersEntity(c.by) /\ UNCHANGED dispatched
     \/ c.call = "entity" /\ entity # "none" /\ UNCHANGED <<entity, creator, dispatched>>
     \/ c.call = "dispatch" /\ EntersWorkflow(c.by) /\ UNCHANGED <<entity, creator>>
  /\ UNCHANGED <<stage, kind, removed>>

AllOver ==
  /\ \A r \in Caller : Over(r)
  /\ UNCHANGED vars

Next ==
  \/ \E r \in Caller :
       \/ Arrives(r)
       \/ Accept(r)
       \/ Refuse(r)
       \/ CreateInitialEntity(r)
       \/ Duplicate(r)
       \/ TriggerWorkflow(r)
       \/ CallFails(r)
       \/ Dies(r)
  \/ \E c \in late : ArrivesLate(c)
  \/ Completes
  \/ TriggerRemoveWorkflow
  \/ AllOver

Spec == Init /\ [][Next]_vars

-----------------------------------------------------------------------------
(* What holds of the name. *)

\* Every variable keeps its type, and a request in one of the tenant's stages
\* is one for a tenant.
TypeOK ==
  /\ stage \in [Caller -> {"none", "team", "entity", "dispatch",
                           "ok", "failed", "refused", "dead"}]
  /\ kind \in [Caller -> Kind \cup {"none"}]
  /\ \A r \in Caller : stage[r] = "entity" => kind[r] = "tenant"
  /\ entity \in Status
  /\ creator \in SUBSET Caller
  /\ removed \in SUBSET Caller
  /\ dispatched \in Seq(Caller)
  /\ late \in SUBSET Call

\* The tenant workflows but those of requests whose entity has been removed.
Making == {i \in Workflows("tenant") : dispatched[i] \notin removed}

\* However many requests race, fail, are lost, late or repeated, and whatever is
\* removed meanwhile: the entity there is has at most one tenant workflow, that of
\* the request that entered it, which it did first; any other tenant workflow is
\* of an entity that was entered and has been removed, and one at most of each.
OneWorkflowPerTenant ==
  /\ Cardinality(Making) <= 1
  /\ \A i \in Making : creator = {dispatched[i]} /\ entity # "none"
  /\ \A i, j \in Workflows("tenant") : dispatched[i] = dispatched[j] => i = j

\* A tenant's request is answered 200 only when its workflow is under way.
\* (A repository's may be answered 200 with no workflow at all.)
OkMeansUnderWay ==
  \A r \in Caller : stage[r] = "ok" /\ kind[r] = "tenant" => Dispatched(r)

\* An entity in "Creating" that no workflow makes, with nobody left to start one,
\* those included whose own entity has been removed.
Stuck ==
  /\ entity = "Creating"
  /\ Workflows("tenant") = {}
  /\ \A r \in creator \cup removed : Over(r) /\ \A c \in late : c.by # r

\* A stuck name stays stuck until its entity is removed: no later request to create
\* it gets past the conflict, and no late call helps, so that the one way out of it
\* in this service is to decommission what was never made.
StuckUntilRemoved == [][Stuck => Stuck' \/ entity' = "none"]_vars

\* What the answer of create-repository says (controller.js:45): "Repository creation
\* has started".
RepositoryOkMeansStarted ==
  \A r \in Caller : stage[r] = "ok" /\ kind[r] = "repository" => Dispatched(r)
=============================================================================
