# Formal model of cdp-self-service-ops

cdp-self-service-ops is a Hapi service (Node, one event loop per process, no
worker threads) through which the portal of the platform deploys services, shutters urls, creates
tenants and repositories, runs test suites, migrations and terminals, and
decommissions services. It keeps no state of its own: every operation is a
handler that calls other systems one after the other, and what it leaves behind
is spread over portal-backend, SNS topics (read by lambdas) and GitHub. There
are no transactions and nothing compensates for a step that fails. The question
everywhere is: *which combinations of effects can there be, and what does an
answer of 200 promise?*

This directory holds TLA+ models of that, the TLC configurations that check
them, and proofs that TLAPS checks.

## 1. Inventory

Paths are relative to the repository's `src/`.

| Component | State it touches | Operations | What makes it correct | Modelled |
|---|---|---|---|---|
| Commit of a file on GitHub (`helpers/github/commit-github-file.js`, `get-latest-commit-sha.js`) | the branch `main` of cdp-app-deployments | read head, commit on that head, retry the pair up to 3 times, 1 s apart | no reported commit is missing; the file ends as the latest caller wrote it; no commit twice without cause; every call ends | `CommitFile`, `CommitLog` |
| Deployment of a service (`api/deploy`, `helpers/deployments`) | portal-backend's deployments, the deploy topic, the file on `main` | `POST /deploy-service`, `/auto-deploy-service`, `/deploy-service/to-zero` | the three records are made in order; 200 means all three; a lone deployment is last everywhere; a deploy to zero keeps the version | `Deployment` |
| Shuttering (`api/shutter`) | the trigger topic, portal-backend's shuttering record | `POST /shutter-url`, `/unshutter-url` | portal and WAF differ only for a known reason; a quiet repeat repairs them | `Shuttering` |
| Creation (`api/create-tenant`, `api/create-repository`, `helpers/create`) | portal-backend's entity, GitHub workflows | `POST /create-tenant`, `/create-repository` | one workflow per tenant; 200 means it is under way; a name whose workflow never was is freed only by a removal | `Creation` |
| Jobs: test suites, migrations and imports (`api/deploy-test-suite`, `api/deploy-database-migration`) | topics; portal-backend's runs, migrations and imports | `POST /deploy-test-suite`, `/trigger-test-suite`, `/stop-test-suite`, `/deploy-database-migration`, `/start-database-import` | the portal shows what runs, and only that; no run older than asked for, nor of versions that never were together; a stop stops the run it was asked for | `Jobs`, `Launches` |
| Decommissioning (`api/decommission-service`) | the deploy topic in every environment; the remove workflow | `POST /decommission/{entityName}/scale-ecs-to-zero`, `.../trigger-workflow` | an answer says how far the sweep came, also when a removal overtakes it; what still runs has a cause | `Decommission` |
| Terminals (`api/deploy-terminal`) | topic, portal-backend's record | `POST /deploy-terminal`: a webshell or a tool | closes when it was asked to, never later than allowed; an unrecorded session has a cause | `Terminal` |
| User scopes and owners (`helpers/user`, `plugins/azure-oidc.js`, the checks beside each route) | - | admit or refuse | who is let through is entitled, who is entitled throughout is let through | `Scopes`, `Access` |
| Ephemeral keys, platform state (`api/ephemeral-keys`, `api/platform-state`) | the mono lambda's topic | `POST /ephemeral-keys/{environment}`, `/republish-platform-state-messages` | a key handed out works for its hours; 200 means every environment | `MonoLambda` |
| Tenant templates (`api/create-tenant/helpers`) | - | filter of a table by scopes, type and subtype | what is listed can be used by a member of the team, and only that | `Scopes` |
| Request checks (`api/helpers/pre`) | - | admit or refuse | nothing is done before admission | as a choice in each flow |
| SNS publishing (`helpers/sns`) | topics | publish, with group and deduplication id on a fifo topic | order within a message group | inside every flow that publishes |
| HTTP client (`helpers/fetcher.js`, `helpers/portal-backend`) | - | call, status to exception | no failure goes unnoticed | inside the above, as the failure of a call |
| MongoDB and locks (`plugins/mongodb.js`, `helpers/mongo-lock.js`) | - | connect and index at start | - | no: no handler uses them |
| Server, configuration, logging, tracing | - | wiring | - | no, except what a stop (`plugins/pulse.js`) does to requests in flight |

**Interaction.** A handler is a chain of `await`s. Between two of them any other
handler may run, in this process or in another replica: there is no lock
anywhere. The parts talk to the outside only by calls, and the outside never
calls back: the lambdas, the workflows and the pipelines act on what was
published or dispatched, and a later read may see their effect.

**Hard behaviours** (each with its line under `hazards` in PROJECT.json):

* *interleaving*: two deployments, two shutterings, two creations of one thing;
* *check then act* over the network: head read, then committed on; running
  version read, then deployed again;
* *lost and late calls*: a call that timed out may still arrive, after its
  request has failed, or after a later request;
* *retry of what was done*: the answer is lost, not the commit;
* *crash*: the process is stopped (hapi-pulse waits 10 s; four attempts with
  their delays may take longer) between any two effects;
* *partial failure*: an error after the first effect;
* *publish, then record*: a job or a terminal runs before the portal knows it,
  and the record may fail when the message is out;
* *a removal under way*: it takes the entity from under a sweep, and frees a
  name while dispatches from before it are still coming;
* *decisions on old answers*: scopes come with the token, owners one call
  later, versions by two calls, the clock is read after both;
* *loops of effects*: a sweep swallows some failures and ends on others; a
  republish ends on any;
* *ordering of delivery*: `sendSnsMessage` sets group and deduplication id only
  when the ARN ends in `fifo`; the default topics of `config/config.js:181-217`
  do not, so both kinds are considered.

Two documents are stale: `Orchestration.md` describes an orchestration of
creation by pull requests and a database of statuses that the code no longer has,
and `README.md` lists endpoints that do not exist (`/queued-events`,
`/create-service`). The models follow the code.

## 2. Modules

| Module | About | Extends |
|---|---|---|
| `CommitLog` | abstract: the append-only log that callers of commitFile rely on | |
| `CommitFile` | commitFile, its retry, the network and GitHub | `CommitLog` by refinement |
| `Deployment` | deployService and its three callers; every deployment is a `Writer` of `CommitFile` | `CommitFile` |
| `Shuttering` | shutter and unshutter of one url | |
| `Creation` | create-tenant and create-repository of one name, and the removals that free it | |
| `DeploymentProofs` | in two parts: inductive invariants and theorems of `CommitFile` with the refinement to `CommitLog`, then those of `Deployment` | `Deployment` |
| `ShutteringProofs`, `CreationProofs` | inductive invariants and theorems of the two | `Shuttering`, `Creation` |
| `Scopes` | who may do what: one operator per function of the code, no state | |
| `Access` | one request, admitted or not while scopes and owners change | `Scopes` |
| `Launches` | abstract: what users may rely on about jobs | |
| `Jobs` | runs of test suites with their stops, migrations, imports | `Launches` by refinement |
| `Terminal` | one terminal against a clock | `Scopes`; `Launches` by refinement, in `TerminalProofs` |
| `Decommission` | sweeps over the environments, and the removal | |
| `MonoLambda` | ephemeral keys, and the republish of platform state | |
| `AccessProofs`, `TerminalProofs`, `JobsProofs`, `DecommissionProofs`, `MonoLambdaProofs` | inductive invariants and theorems of the five | the module each is about |
| `MC*` | instances and symmetry sets for TLC | |

Operators called *Slip* in their comments (`NoExpectedHead`, `RegisterUnchecked`, ...) are variants
of an action with a plausible mistake. No specification uses them; they are put
in the place of the real action, one at a time, to see that each property
notices (PROJECT.json, `mutants`).

### State and code

**CommitFile.** `pc[w]` says where a call of commitFile waits: `reading` at the
`await` of getLatestCommitSha, `awaiting` at the one of createNewCommit,
`delayed` at the `setTimeout` of retry. `retries[w]` is retry's argument.
`branch` is `main`. Commits only go on top, so the number of commits
names the head, and a mutation's `base` is its `expectedHeadOid`. `wire` holds
the mutations sent and not applied. A mutation leaves it only by being applied;
nothing says that it ever is, which is how loss is modelled, and it may be
applied long after its sender has gone. `AnswerOk`, `AnswerRefused` and
`TransportError` are the three ways an await settles; the first is possible as
soon as the commit is on the branch, and the third at any time, whatever became of the
mutation. `opened`, `closed`, `after` and `faulty` are history variables.

**Deployment.** `stage[d]` is the await at which a handler stands: `admit` (the
pre-handlers and getScopedUser), `look` (findRunningDetails, deploy to zero
only), `register`, `entity`, `publish`, `commit`. One action stands for the
answer to that await and all synchronous code up to the next; in particular
`Publish` includes generateGitHubDeployment, which throws when the entity has no
metadata or zone, after the message is out. Admission is a choice. `registered`, `topic`,
`branch` are the three records. `late` holds calls that were given up on
(`CallFails`) or whose process died (`Dies`) and that may yet arrive. The
entity is read afresh each time and other pipelines change it, so reading it
gives any of: nothing to read environments from (throws before the publish),
an entity without metadata or zone, a complete one. The deploy topic's message group is
the environment (`Messages(e)`, `NextInGroup`). The lambda (`Deliver`) makes the service run
as the message says.

**Shuttering.** `stage`, `topic`, `late` as above; `recorded` is the sequence of
registrations that portal-backend accepted, `waf` what the lambda made of the
events. The message group is the url.

**Creation.** `entity` is the status of the name in portal-backend. `EntersEntity`
refuses a second entity (409). `dispatched` is the sequence of workflow
dispatches that GitHub accepted; dispatching twice makes two runs.
`TriggerRemoveWorkflow` is what comes of `trigger-workflow` of the decommissioning: the
entity goes, at any moment it exists, and the name can be entered again while
requests and late calls of the first entity are still under way. How the removal
itself is asked for is in `Decommission`. `creator` and `removed` are history: who entered
the entity there is, and those there were.

**Scopes, Access.** A scope is a pair of a permission and the team it is limited
to, or "all". Each function that decides (`getScopedUser`, `isOwnerOfSuite`,
`canRunInEnvironment`, `userHasBreakGlass`, `canAddEphemeralKey`,
`isAllowedTerminalEnvironment`, the queue access of the SQS tool, the required
scopes of templates) is an operator of `Scopes`. `Access` is the request around
them: `credentials` is what authentication put together, `Unknown` when
user-service answered with an error, whose status nobody looks at;
`ReadsEntity` says for which routes, and for whom, the owners are read before
the decision; `Decide` is the rest of the check. `held` and `owners` change
under the request, `heldSeen` and `ownersSeen` remember what they were. The
reference is a *table*, the `EnoughFor...` operators: the sets of scopes any of
which is enough for each route, environment, tool and template.

**Jobs.** `stage[j]` is the await a handler stands at: `admit`, `config` and
`image` (test runs only), `publish`, `record`. Joi's check of a message belongs to the
step before `publish`; the record of a run has a schema of its own, and
`RecordInvalid` is its throw. `topic[j]` and `record[j]` hold the content of the
job. `Links` is the portal joining the start event of a task to the run it knows,
by which the run gets its `taskArn`; a stop reads the run (`FetchTestRun`), then
its owner, and names the task it *read*: `stop[s].arn` is what the record said, and
`StopMessage` is made of it, not of the run that was asked for (`StopAdmit` fails
without one). `madeWith` remembers for each configuration which image was the latest when
it was made, `before` what was the latest when a request arrived.

**Terminal.** The clock ticks between any two steps. `ReadEntity` reads the time
and fixes the lifetime in the message (`Lifetime` is the arithmetic of
`deploy-terminal.js`, rounding down and stopping at zero); `Open` is the proxy,
some time later. `Second` ticks make a second, so rounding loses something.

**Decommission.** `at[s]` is the loop's index into `orderedEnvironments`,
`outcome[s][e]` what came of each environment. `ReadEntity`/`NoEntity` are the
read at the head of the loop, whose failure ends it; `CallFails` is the catch
around `deployToZero`, which does not. The entity and the zones are
portal-backend's, `running` is the lambda's, `Redeploy` is anybody else, and
`WorkflowRuns` the removal taking the entity, at which `reach[s]` (history) notes up to where
the sweep had read it. A
deployment to zero is here its look and its message; its other two records are
in `Deployment`.

**MonoLambda.** A message with its hours for a key, one after the other over
`Object.values(environments)` for platform state, the loop index in `at[r]`.

### Abstractions

Cpu, memory, config sha, zones, service codes, commit messages, JSON layout and
logging are left out: no property tells them apart, and what matters of the
entity is whether it is complete. Users are reduced to admitted or refused.
The message, file and entity of different services do not meet, except on the
branch, where deployments of other services are `Other`.

For the newer modules:

* `Access`: `scopeFlags.isAdmin` is taken to agree with the admin scope, both
  being user-service's answer. Which environments only admins may use comes from
  the validation kit the repository depends on.
* `Jobs`: one task per job, so the duplicate deliveries of a standard topic are
  not told apart; the end of a task is left out. `StopRefuse` and `StopFails`
  also stand for a process that dies. The record of a migration or an import
  holds nothing that its message was not already held to, so only a run's record can be invalid
  (by the sha of its configuration).
* `Terminal`: the idle timeout, the token and the queues' names are data. The
  queue access is decided in `Access`.
* `Decommission`: the environments of `Order` are assumed to differ, as those of
  `orderedEnvironments` do.
* `MonoLambda`: a key is named by the request it was made for; how it is drawn is
  left out. The lambda adds a key once or more often, to the same effect.
* The signature and the 300 seconds of `validate-portal-backend-request.js`
  are an admission like any other: a request is let through, or nothing happens.

## 3. Runs

Every run is exhaustive (all reachable states, no simulation).

| Run | Instance | Shows |
|---|---|---|
| `commit_file` | 2 calls, 2 retries, 1 other commit; 3.0M states | a call that resolves is on the branch; calls that did not overlap commit in order, late mutations included; only a network fault makes a double commit; a call that throws without a fault left nothing, and was outrun |
| `commit_log` | 2 calls, 1 retry, 1 other commit, fairness | refinement of `CommitLog`; every call ends |
| `deployment` | 2 deployments, 2 environments, 2 versions, fifo, no retry; 2.4M states | the records are made in order; 200 means all three; a lone deployment is last on the topic and in the file; a quiet deploy to zero keeps the version |
| `deployment_ends` | 2 deployments, 1 environment, 1 retry, standard topic, fairness | a deployment with message and no file is explained; every request is answered or its process dies |
| `shuttering` | 3 requests, fifo; 190k states | the portal is never ahead of the events; a quiet successful request repairs whatever came before; a lasting difference has a cause |
| `creation` | 4 requests, each entity removed or not; 81k states | at most one workflow of each entity, entered first, removals and late dispatches included; 200 means dispatched; a name whose dispatch failed stays stuck until its entity is removed |
| `access` | every route, an environment, a tool and a template of each kind, two teams, users with up to two scopes, two changes under way; 2.3M states | let through and turned away as the table says, on scopes and owners of some moment of the request; no queue is opened in prod without break glass |
| `terminal` | two environments, three tools, half seconds, longest lifetimes of 2 s and 4 s, a horizon beyond both; 580k states | a terminal closes when it was asked to and never later than allowed, whatever the handler waited for; an unrecorded session has a cause |
| `jobs` | two jobs, one of any kind and one run in dev, one stop; two configurations in dev and two images, three changes in all; 3.7M states | refinement of `Launches`; a job the portal does not know has a cause its user was told; versions are never older than at the request, and no configuration is run with an image from before it was made; a stop names the right task and environment |
| `decommission` | 2 sweeps, 1 removal, 2 environments, 1 deployment by others, fifo; 2.3M states | how far a sweep came, and what a removal that overtakes it leaves undone; why a service still runs where a sweep has been |
| `mono_lambda` | 2 keys, 2 republishes, 3 environments; 230k states | a key handed out works for its hours, in its environment; which environments a republish told |
| `repository_answer` | 2 requests | **violation**: see Findings |

**Why the bounds are enough.** The properties of `CommitFile` relate one call,
or two calls, to the branch: two calls and an independent committer give every
pairwise interleaving, and two retries give a first, a middle and a last
attempt (with one retry the middle one, which both follows a failure and is followed by a
retry, is missing). `Other` needs one commit only: its commits do to a call what
the other call's do. In `deployment`, retries are left out (they are checked in `commit_file`
and in `deployment_ends`) to afford two environments, two versions and a running version that
differs from the deployed one. `AloneIsLastEverywhere` and `ZeroKeepsVersion`
need a deployment before and one after, so two. In `shuttering` three requests
are needed: two that overlap and leave a mess, and a third that repairs it.
A right of `Access` never takes more than two scopes, and a check looks at one
environment and tool, so a user with two scopes and one of each kind meet every line of
the table; two changes let scopes and owners each change, or one change back. In `terminal` the horizon
leaves time to ask, wait, publish and open with an expiry before, at and after the longest
lifetime. In `jobs` one job is free and the other is there to be mixed up with
it; two configurations in dev, the second without a proper sha, give the change
between two reads and the record that is refused; with two images and three changes in all
(`MaxChanges`) either version can change before, between and after the two reads, and both can.
The migrations asked for are valid or not, so one that is published and not recorded occurs. In `creation` four requests
give one that enters, one that races with it, and the same again after a removal.
In `decommission` two environments
are a first and a last one (the proof is for any number), and two sweeps race. The three of `mono_lambda`
are a first, a middle and a last.
The theorems in section 5 remove the bounds for every safety property. Writers,
deployments and callers are symmetric (no definition tells them apart), and
symmetry is used only in runs that check no liveness.

**Fairness.** `FairCommitSpec` and `FairDeploySpec` assume weak fairness of each
call's and each handler's own steps: an event loop runs every continuation that
is ready, and every await settles, with an answer or with an error (HTTP client
and SDK time out; TransportError and CallFails are part of the fair action). No
fairness is assumed of GitHub, of SNS delivery, of other committers, of late
calls, nor that a call ever *succeeds*. `Killed` and `Dies` are never forced.
The newer runs check safety and refinement only and state no fairness: that a
handler's chain of awaits ends is checked for the longest of them, the deployment
with its retries. The loop of a sweep has a proved bound on its steps instead (section 5).

Deadlock is checked everywhere. `Quiet` and `AllOver` are the stuttering steps of
a system in which every request is over; `Over` and `AllOver` in the other modules likewise.

## 4. Findings

**create-repository answers 200 for a repository that is not being created.**
`createTemplatedRepo` catches what `triggerWorkflow` throws and logs it
(`helpers/create/workflows/create-templated-repo.js:41-46`); the handler then
answers "Repository creation has started" (`api/create-repository/controller.js:45`).
Run `repository_answer` shows a request answered 200 with no workflow
dispatched. For tenants the same answer is a promise (`OkMeansUnderWay`).

Worth knowing, though nothing in the repository promises otherwise: a tenant
whose dispatch fails is left in "Creating", and every later request for the
name is refused as a duplicate until somebody decommissions what was never
made (`StuckUntilRemoved`); an entity without metadata
makes deployService throw after the lambda was told to deploy
(`HalfDoneIsExplained` names it); deployments to one environment that overlap may
end with the lambda's last message and the file on `main` disagreeing, which is why
`AloneIsLastEverywhere` asks that there was no overlap. Further:

* in prod an ephemeral key takes the break glass scope of *any* team, and an admin
  without one gets none (`CanAddEphemeralKey`, the row `EnoughForKey` of the table);
* the flag `allowInProdWithoutBreakGlass` of `tool-config.js` lets service owners
  in only when they are beta testers as well;
* an expiry that passes while the handler waits gives a terminal that closes at
  once, and the user its token (`ClosesWhenAsked`);
* a run whose configuration has no proper commit sha runs, and is never shown
  (`UnknownIsExplained`, cause `sha`);
* a sweep that meets a deployment on its way sees nothing run, goes on and answers 200, and the
  service comes up behind it (`NothingRunsUnexplained`, last case);
* a removal does not wait for a sweep and may take the entity from under it; the
  sweep then ends with an error (`NoEntity`), and the later environments keep running.

## 5. Proofs

Everything listed under `theorems` is checked by TLAPS down to the last leaf,
for every number of calls, retries, environments, versions and other commits.
The assumptions are those of the modules: `Other` is not a writer, `Retries` and
`MaxOther` are natural numbers, `Fifo` is a Boolean; the lists of environments
(`Order`, `EnvironmentsOf`) name none twice, a list of `MonoLambda` has production
in it; a second has a tick. Every safety invariant and every refinement that a
run checks is a theorem; `Spec => []P /\ [][A]_vars` is the form of those that
also say what a step may do.

**DeploymentProofs, part I: commitFile.** The invariant is built in layers; each
is inductive given the ones before.

1. `CommitTypeOK`. A call waits for a delay only while it has a retry left.
2. `OrderInv`. Where on the branch a call's commits can be: above the head the
   call was opened on, and at most *one* above the head it was closed on. That one is
   the late mutation: it fits only on the head it was made on, so a dead call can
   land one commit and only before anybody else commits. `RealTimeOrder`
   follows (`CommitOrder`). The property itself is not inductive: it says
   nothing of what is still on the wire.
3. `AttemptInv`. An attempt is made once, and is on the wire or on the branch but
   never on both.
4. `ResolvedInv`. When the current attempt is on the branch nothing of the call on
   the wire can be applied: every other mutation was made on an older head.
   Gives `CommitResolved`.
5. `CleanInv`. For calls without a network failure: each attempt lost means that
   the head moved (`opened[w] + Attempt(w) <= Tip` and its variants), and no
   commit of theirs is there before the attempt that resolves. Gives `CommitOnce`,
   `CommitThrew` and `CommitOutrun`.

`CommitImplementsLog` is the refinement: the initial states map to initial
states, each step to a step of `CommitLog` or a stutter. The step that needs
the invariant is GitHub's: a commit that lands belongs to a call that is open, or to one
that failed at exactly this head (layer 2), never to one that resolved (layer 4),
and its attempt is not on the branch yet (layer 3).

Two results no run checks. `CommitBounded`: a call puts its file on `main` at most
`Retries + 1` times, because the commits of a call carry different attempts
(layer 3); the pigeonhole is `FS_Injection` of the library. `CommitEnds`: a call
has at most `3 * Retries + 3` steps of its own, counted by `StepsLeft`; every own step
uses one up and nobody else's gives one back. It is the safety half of
`EveryCallEnds`: what is left to fairness is that an await settles.

**Part II: deployments.** `DeployStepCommits` shows that each step of a deployment is a
step of `CommitFile` or leaves it alone, so all of the above carries over. On top of
it: `HandlerInv` ties the stage of a handler to the place of its commitFile;
`RecordsInv` strengthens `RecordsInOrder` by the late calls (a publish can be
late only if the registration was answered) and by the stages; `BeforeInv` says
of a deployment that was over, with no call late, when another was requested, that it lies
below the other on the topic and that its commitFile ended before the other's
began, which with `RealTimeOrder` gives `DeployAlone`; `ZeroInv` says that what a deploy to zero saw
is still running unless a message of the environment was delivered since, which
gives `DeployZero`. Then, beyond the runs:

* `DeployImplementsLog`: the composition, with its crashes and late calls, still
  implements `CommitLog`, since every step of it is a step of `CommitFile` or none;
* `DeployOnce`: a deployment is on the topic at most once, and on a fifo topic the
  lambda acts on it at most once. `Unpublished` is the strengthening: while a
  publish may still come, or come late, there is none. The SDK repeats a publish
  inside one `await` with the same deduplication id, so on a fifo topic that is
  one message; what a standard topic makes of it is in `Deliver`;
* `DeployEnds`: at most `3 * Retries + 9` steps of a handler and its commitFile
  (eighteen with the code's three retries), the safety half of `EveryRequestEnds`.

**ShutteringProofs.** `PlaceInv` says what a request has left at each stage, its late
calls included (a registration can be late only if the publish was answered);
`BeforeInv` orders the events and the registrations of requests that did not
overlap; `WafInv` ties the WAF to the event last taken. The heart is
`LastPublishedIsLastRecorded`: whoever registered last did not overlap the request that published
last, so it came before it and is below it in the portal, or after it and
is above it on the topic; either contradicts that both are last. Both
`ShutteringRepairs` and `ShutteringExplained` follow. `ShutteringOnce` says that a
request's event and registration are made once at most; with `LateIsMissing`, that what is
late has not happened, it is inductive.

**CreationProofs.** `LockInv`: whoever is to dispatch a tenant's workflow, now or
late, entered the entity there is, or one that has been removed (`Held`). `OnceInv`: a
request has one dispatch, still to come, late or made. Together they give
`CreationOnce` and, with them, that nothing but a removal frees a stuck name
(`CreationStuck`).

**AccessProofs.** First, of the operators alone: `AdmitsIffEntitled`, the checks of
the code admit exactly whom the table entitles, for all teams, scopes,
environments and tools; `MoreScopesMayDoMore`, no scope takes a right away, which
the negations in the code leave open; `ListedAndOfTheTeamIffEntitled`, whoever is
shown a template and is an admin or a member of the team is entitled by the table to create
it for that team, and whoever is entitled is shown it under its type and subtype: the filter of the list and
the checks of the creation are different code. The list alone entitles nobody, for it
does not ask for the team. Then, of the request: `SeenInv`,
what has been read, or will be read next, is among what was seen since the
arrival; with the first lemma it carries the three invariants over the decision.

**TerminalProofs.** `LifetimeInv`: once made, the message relates to the clock as
`LifetimeOf` says, and an opened terminal to its message. `WholeSeconds`
and `LifetimeIsRight` do the integer division once. `RecordInv`: what each stage
has behind it, late calls included. `TerminalImplementsLaunches` is a second
refinement of `Launches`, with the terminal as the only job: once it is sent
neither the request nor its message changes (`SentStays`), so what the portal
shows and what the proxy opens is what was published, and that happens once.

**JobsProofs.** `PlaceInv` says where a job's content can be at each stage, with
its calls that are late: a record can be late only if the publish was answered, so a
record never precedes its message, and it is of the same content because the request
no longer changes. `FreshInv`: versions only grow, so what was read lies
between what was the latest at the request and what is now. `PairInv`: the image a run has
is no older than the one its configuration was made with, which rests on the order of the two
reads: a configuration that is read exists, so the image that was the latest when it was made is no newer than the one read next. `StopInv`: a stop's task was
linked when the run was fetched, a linked run is recorded and started, and none of these
is ever undone. `JobsImplementLaunches` maps every step to a step of
`Launches` or a stutter; a late publish is a `Launch` because `PlaceInv` says
that nothing of the job is there yet.

**DecommissionProofs.** `PlaceInv`: a sweep that is at a place has an outcome for all
before it and neither message nor late call for any behind it. `FinalInv` is about `Final(e)`, what
will run when a fifo topic has delivered all it has: for every
environment that a sweep is done with, that is zero or one of the named reasons
holds. It needs to speak of the whole queue, where the property speaks of an empty one.
`RemovalInv` ties a removal to its workflow. `ReachInv` says that no sweep is past
where it had read the entity when a removal took it, and that what it may still do, late calls
included, is not either. Three results beyond the runs:

* `CleanSweepsWork` is what a removal needs: a sweep that was answered 200, saw
  every environment published or empty, with nothing on its way to an empty one and
  nothing deployed behind it, leaves nothing running;
* `SweepsGoForward`: what came of an environment is final, and it gets one zero at
  most from a sweep. `AheadInv` is the strengthening: no outcome at or beyond the
  place of the loop, and no zero both on the topic and still to come;
* `SweepsEnd`: three steps for each environment and one for the request.

**MonoLambdaProofs.** `KeyInv`: a key has one message and none before its request
is through, and works only where that message has arrived. `LoopInv`: the loop of
a republish has published all it has passed and nothing beyond the place it is
at, late messages included. With the length of the list the first part of each
gives the 200 of `AnswersAreTrue`.

**Only model-checked.** The liveness properties `EveryCallEnds` and
`EveryRequestEnds`: fairness and ENABLED are out of the prover's reach. What can
be proved of them are the measures (`CommitEnds`, `DeployEnds`); that a process
with steps left is never stuck is what the runs add. Everything else the passing
runs check is also proved. No operator is recursive, so nothing
is left out for that.

**Only proved.** `BoundedCommits`, `StepsAreLeft`, `HandlerIsLeft`, `PublishedOnce`,
`TakesEffectOnce`, `ShutteredOnce`, `CleanSweepsLeaveNothing`, `NeverReturns`,
`SweepIsLeft` and the refinement of `Launches` by `Terminal` are defined in the
modules of proofs and belong to no run.

## 6. Plan

Done: the commit of files, deployments, shuttering, creation, scopes, jobs,
terminals, decommissioning, the mono lambda's messages. What would add most next:

1. A composition of `Decommission` with `Deployment`, in which the deploy to zero
   of a sweep is a whole deployment, file included.
2. Liveness of `Jobs` and of the sweep: every request ends, under the fairness
   already assumed of deployments; for the sweep the measure is proved.
3. Duplicate delivery on standard topics, and a task started twice.

**Not modelled.** MongoDB and its lock (no handler uses them), the server's
wiring, logging, tracing, metrics, configuration parsing, the octokit client, and
the layout of messages and files; the table of cpu and memory, `GET
/deploy-service/options` and `GET /health`, which change nothing. Code that
nothing calls: `get-service-info.js`, `generate-deploy-message.js`,
`helpers/portal-backend/record-terminal-session.js`, `transform-running-details-to-deployment.js`. Two hazards have no property:
the order of messages on a standard topic is not this program's to keep, and a file left in an old zone
is deleted by nothing in it.
