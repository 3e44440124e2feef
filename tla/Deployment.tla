----------------------------- MODULE Deployment -----------------------------
(***************************************************************************)
(* deployService (api/deploy/helpers/deploy-service.js) and its callers:   *)
(* POST /deploy-service, the auto deploy of portal-backend, and the deploy *)
(* to zero.  A deployment is recorded in three places, one after the       *)
(* other and with nothing that undoes an earlier one:                      *)
(*                                                                         *)
(*   portal-backend   POST /deployments          registered                *)
(*   the deploy topic SNS publish                topic                     *)
(*   cdp-app-deployments  the file on main       branch (CommitFile)       *)
(*                                                                         *)
(* The module is about the deployments of one service; each is a Writer of *)
(* CommitFile, and the deployments of other services are its Other.        *)
(* Outside this repository, and modelled from what it expects of them: the *)
(* entity (other pipelines change it, so reading it gives any answer), the *)
(* running services of portal-backend, and the lambda behind the topic.    *)
(***************************************************************************)
EXTENDS CommitFile

CONSTANTS
  Env,       \* environments
  Version,   \* image versions
  Fifo       \* does the ARN of the deploy topic end in "fifo"?

ASSUME FifoAssumption == Fifo \in BOOLEAN

VARIABLES
  stage,       \* where the handler of each deployment stands
  request,     \* what each deployment was asked to do
  details,     \* version and instance count that deployService works with
  complete,    \* deployments whose entity, when read, had a zone and metadata
  registered,  \* deployments recorded in portal-backend
  topic,       \* deployments published on the deploy topic, in order
  delivered,   \* the last message of each environment that a fifo topic has delivered
  running,     \* portal-backend's running services: what runs where
  late,        \* calls no longer waited for, which may yet reach portal-backend or SNS
  before,      \* history: the deployments over, with no call late, when each was requested
  looked,      \* history: the last message delivered when each looked at what runs
  failing      \* history: deployments that an outside call has failed

handlerVars == <<stage, request, details, complete, before, looked, failing>>
outsideVars == <<registered, topic, delivered, running, late>>
deployVars == <<handlerVars, outsideVars>>
vars == <<commitVars, handlerVars, outsideVars>>

\* A deployment a user or portal-backend asks for, and a deploy to zero.
Request == [kind : {"deploy"}, env : Env, version : Version] \cup [kind : {"zero"}, env : Env]
Call == [by : Writer, call : {"register", "publish"}]
NoRequest == [kind |-> "none"]

NotRunning == [version |-> "none", count |-> 0]
Details == [version : Version, count : 0..1]

Stage == {"none", "admit", "look", "register", "entity", "publish", "commit",
          "ok", "failed", "refused", "dead"}
Over(d) == stage[d] \in {"ok", "failed", "refused", "dead"}
Active(d) == stage[d] \in {"admit", "look", "register", "entity", "publish", "commit"}
Settled == {d \in Writer : Over(d) /\ ~\E c \in late : c.by = d}
Published(d) == \E i \in 1..Len(topic) : topic[i] = d

Step(d, label) == stage' = [stage EXCEPT ![d] = label]

DeployInit ==
  /\ CommitInit
  /\ stage = [d \in Writer |-> "none"]
  /\ request = [d \in Writer |-> NoRequest]
  /\ details = [d \in Writer |-> NotRunning]
  /\ complete = {}
  /\ registered = {}
  /\ topic = <<>>
  /\ delivered = [e \in Env |-> 0]
  /\ running \in [Env -> {NotRunning} \cup [version : Version, count : {1}]]
  /\ late = {}
  /\ before = [d \in Writer |-> {}]
  /\ looked = [d \in Writer |-> 0]
  /\ failing = {}

-----------------------------------------------------------------------------
(* The handlers. *)

\* A request arrives; a deployment brings its details in the payload.
Requested(d) ==
  /\ stage[d] = "none"
  /\ \E r \in Request :
       /\ request' = [request EXCEPT ![d] = r]
       /\ details' = [details EXCEPT ![d] =
            IF r.kind = "zero" THEN NotRunning ELSE [version |-> r.version, count |-> 1]]
  /\ Step(d, "admit")
  /\ before' = [before EXCEPT ![d] = Settled]
  /\ UNCHANGED <<commitVars, outsideVars, complete, looked, failing>>

\* The pre-handlers and getScopedUser let the request through.
Admitted(d) ==
  /\ stage[d] = "admit"
  /\ Step(d, IF request[d].kind = "zero" THEN "look" ELSE "register")
  /\ UNCHANGED <<commitVars, outsideVars, request, details, complete, before, looked, failing>>

\* A pre-handler or getScopedUser throws: nothing has been done yet.
Refuse(d) ==
  /\ stage[d] = "admit"
  /\ Step(d, "refused")
  /\ UNCHANGED <<commitVars, outsideVars, request, details, complete, before, looked, failing>>

\* Slip: the instance count of the running service is passed on.
LookAtRunningKeepsCount(d) ==
  LET now == running[request[d].env] IN
  /\ stage[d] = "look"
  /\ now.count # 0
  /\ Step(d, "register")
  /\ details' = [details EXCEPT ![d] = now]
  /\ looked' = [looked EXCEPT ![d] = delivered[request[d].env]]
  /\ UNCHANGED <<commitVars, outsideVars, request, complete, before, failing>>

\* deployToZero: what runs now is what is deployed again, with no instances.
LookAtRunning(d) ==
  LET now == running[request[d].env] IN
  /\ stage[d] = "look"
  /\ \/ now.count = 0 /\ Step(d, "failed") /\ UNCHANGED details
     \/ /\ now.count # 0
        /\ Step(d, "register")
        /\ details' = [details EXCEPT ![d] = [version |-> now.version, count |-> 0]]
  /\ looked' = [looked EXCEPT ![d] = delivered[request[d].env]]
  /\ UNCHANGED <<commitVars, outsideVars, request, complete, before, failing>>

\* Slip: the status of portal-backend's answer is not looked at.
RegisterUnchecked(d) ==
  /\ stage[d] = "register"
  /\ registered' \in {registered, registered \cup {d}}
  /\ Step(d, "entity")
  /\ UNCHANGED <<commitVars, request, details, complete, before, looked, failing>>
  /\ UNCHANGED <<topic, delivered, running, late>>

\* registerDeployment answers.
Register(d) ==
  /\ stage[d] = "register"
  /\ registered' = registered \cup {d}
  /\ Step(d, "entity")
  /\ UNCHANGED <<commitVars, request, details, complete, before, looked, failing>>
  /\ UNCHANGED <<topic, delivered, running, late>>

\* getEntity answers. The entity of a tenant still being created has no
\* environments, and reading them throws here (line 52); one without a zone or
\* without metadata throws only after the publish.
ReadEntity(d) ==
  /\ stage[d] = "entity"
  /\ \/ Step(d, "failed") /\ UNCHANGED complete
     \/ Step(d, "publish") /\ complete' \in {complete, complete \cup {d}}
  /\ UNCHANGED <<commitVars, outsideVars, request, details, before, looked, failing>>

\* Slip: commitDeploymentFile is called without await.
PublishNoAwait(d) ==
  /\ stage[d] = "publish"
  /\ topic' = Append(topic, d)
  /\ \/ d \in complete /\ Step(d, "ok") /\ StartCommit(d)
     \/ d \notin complete /\ Step(d, "failed") /\ UNCHANGED commitVars
  /\ UNCHANGED <<request, details, complete, before, looked, failing>>
  /\ UNCHANGED <<registered, delivered, running, late>>

\* triggerDeployment answers; the rest of deployService runs without a pause:
\* generateGitHubDeployment validates, and only then commitFile begins.
Publish(d) ==
  /\ stage[d] = "publish"
  /\ topic' = Append(topic, d)
  /\ \/ d \in complete /\ Step(d, "commit") /\ StartCommit(d)
     \/ d \notin complete /\ Step(d, "failed") /\ UNCHANGED commitVars
  /\ UNCHANGED <<request, details, complete, before, looked, failing>>
  /\ UNCHANGED <<registered, delivered, running, late>>

\* commitFile takes a step.
CommitStep(d) ==
  /\ stage[d] = "commit"
  /\ CallerStep(d)
  /\ UNCHANGED deployVars

\* commitFile settles and the controller answers.
Answer(d) ==
  /\ stage[d] = "commit"
  /\ \/ pc[d] = "resolved" /\ Step(d, "ok")
     \/ pc[d] = "threw" /\ Step(d, "failed")
  /\ UNCHANGED <<commitVars, outsideVars, request, details, complete, before, looked, failing>>

\* A call that would have recorded something is lost, or arrives after all.
LeavesCall(d) ==
  IF stage[d] \in {"register", "publish"}
  THEN late' \in {late, late \cup {[by |-> d, call |-> stage[d]]}}
  ELSE UNCHANGED late

\* A call on portal-backend or on SNS fails, and with it the handler.
CallFails(d) ==
  /\ stage[d] \in {"look", "register", "entity", "publish"}
  /\ Step(d, "failed")
  /\ LeavesCall(d)
  /\ failing' = failing \cup {d}
  /\ UNCHANGED <<commitVars, request, details, complete, before, looked>>
  /\ UNCHANGED <<registered, topic, delivered, running>>

\* The process is stopped in the middle of a request.
Dies(d) ==
  /\ Active(d)
  /\ Step(d, "dead")
  /\ LeavesCall(d)
  /\ \/ Killed(d)
     \/ ~Running(d) /\ UNCHANGED commitVars
  /\ UNCHANGED <<request, details, complete, before, looked, failing>>
  /\ UNCHANGED <<registered, topic, delivered, running>>

-----------------------------------------------------------------------------
(* Outside. *)

\* The places of the messages for an environment: they are one message group.
Messages(e) == {i \in 1..Len(topic) : request[topic[i]].env = e}

\* Message i is the first of its environment that has not been delivered.
NextInGroup(i, e) == i > delivered[e] /\ \A j \in Messages(e) : j > delivered[e] => i <= j

\* The lambda takes a message and the service then runs as it says. A fifo topic
\* keeps the order within an environment and delivers once; on another any
\* message may come at any time and more than once.
Deliver ==
  /\ \E e \in Env : \E i \in Messages(e) :
       /\ IF Fifo THEN NextInGroup(i, e) /\ delivered' = [delivered EXCEPT ![e] = i]
                  ELSE UNCHANGED delivered
       /\ running' = [running EXCEPT ![e] = details[topic[i]]]
  /\ UNCHANGED <<commitVars, handlerVars, registered, topic, late>>

\* A call that nobody waits for any more arrives.
ArrivesLate(c) ==
  /\ late' = late \ {c}
  /\ \/ c.call = "register" /\ registered' = registered \cup {c.by} /\ UNCHANGED topic
     \/ c.call = "publish" /\ topic' = Append(topic, c.by) /\ UNCHANGED registered
  /\ UNCHANGED <<commitVars, handlerVars, delivered, running>>

GitHubStep == GitHub /\ UNCHANGED deployVars

HandlerStep(d) ==
  \/ Admitted(d)
  \/ Refuse(d)
  \/ LookAtRunning(d)
  \/ Register(d)
  \/ ReadEntity(d)
  \/ Publish(d)
  \/ CommitStep(d)
  \/ Answer(d)
  \/ CallFails(d)

AllOver ==
  /\ \A d \in Writer : Over(d)
  /\ UNCHANGED vars

DeployNext ==
  \/ \E d \in Writer : Requested(d) \/ HandlerStep(d) \/ Dies(d)
  \/ GitHubStep
  \/ \E c \in late : ArrivesLate(c)
  \/ Deliver
  \/ AllOver

DeploySpec == DeployInit /\ [][DeployNext]_vars

\* Every await of a handler settles, with an answer or with an error.
FairDeploySpec == DeploySpec /\ \A d \in Writer : WF_vars(HandlerStep(d))

-----------------------------------------------------------------------------
(* What a deployment guarantees. *)

\* Every variable keeps its type, and a handler knows what it was asked for.
DeployTypeOK ==
  /\ CommitTypeOK
  /\ stage \in [Writer -> Stage]
  /\ request \in [Writer -> Request \cup {NoRequest}]
  /\ \A d \in Writer : stage[d] # "none" => request[d] \in Request
  /\ details \in [Writer -> Details \cup {NotRunning}]
  /\ complete \subseteq Writer /\ registered \subseteq Writer /\ failing \subseteq Writer
  /\ topic \in Seq(Writer)
  /\ delivered \in [Env -> 0..Len(topic)]
  /\ late \in SUBSET Call
  /\ running \in [Env -> Details \cup {NotRunning}]
  /\ before \in [Writer -> SUBSET Writer]
  /\ looked \in [Writer -> Nat]

\* The three records are made in one order: whatever fails, is lost or dies,
\* a file on main has its message on the topic, and a message on the topic has
\* its deployment in the portal. Nothing is ever deployed behind its back.
RecordsInOrder ==
  \A d \in Writer :
    /\ Landed(d) => Published(d)
    /\ Published(d) => d \in registered

\* A deployment is answered 200 only with all three records made.
OkMeansAllRecorded ==
  \A d \in Writer : stage[d] = "ok" => d \in registered /\ Published(d) /\ Landed(d)

\* The commits on the file of an environment.
FileHistory(e) == {i \in 1..Len(branch) : branch[i].by # Other /\ request[branch[i].by].env = e}

\* The other deployments to the environment of d.
Rivals(d) ==
  {r \in Writer \ {d} : request[r] # NoRequest /\ request[r].env = request[d].env}

\* The file on main and the topic agree on who deployed last, if that one ran
\* alone: every other deployment to the environment was over (failed and dead
\* ones included) and had no call left on its way when it was requested.
AloneIsLastEverywhere ==
  \A d \in Writer :
    stage[d] = "ok" /\ Rivals(d) \subseteq before[d]
      => /\ \A i \in FileHistory(request[d].env) :
              \E j \in FileHistory(request[d].env) : branch[j].by = d /\ i <= j
         /\ \A i \in 1..Len(topic) : topic[i] \in Rivals(d) =>
              \E j \in 1..Len(topic) : topic[j] = d /\ i < j

\* A deployment that the lambda has been told of and that never gets its file
\* is explained: the entity was incomplete, a call or the process failed, or
\* the retries were outrun by Retries + 1 commits of others.
HalfDoneIsExplained ==
  \A d \in Writer :
    stage[d] = "failed" /\ Published(d) /\ ~Landed(d) =>
      \/ d \notin complete
      \/ d \in failing \cup faulty
      \/ closed[d] >= opened[d] + Retries + 1

\* On a fifo topic a deploy to zero leaves the version alone, unless another
\* message for the environment came between what it looked at and itself.
QuietZero(e) ==
  LET i == delivered'[e] IN
  /\ i # delivered[e]
  /\ request[topic[i]].kind = "zero"
  /\ \A j \in Messages(e) : j <= looked[topic[i]] \/ j >= i

ZeroKeepsVersion ==
  [][Fifo => \A e \in Env : QuietZero(e) =>
       running'[e].count = 0 /\ running'[e].version = running[e].version]_vars

\* Every request is answered, unless its process dies.
EveryRequestEnds == \A d \in Writer : stage[d] = "admit" ~> Over(d)
=============================================================================
