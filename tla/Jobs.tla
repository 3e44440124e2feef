-------------------------------- MODULE Jobs --------------------------------
(***************************************************************************)
(* Jobs: runs of a test suite (api/deploy-test-suite), and migrations of   *)
(* and imports into a database (api/deploy-database-migration).            *)
(*                                                                         *)
(* A handler makes up the id of the job, publishes the job on a topic and  *)
(* then records it in portal-backend, in this order, so that the portal    *)
(* can join the events of the job to the record.  A run of a test suite is *)
(* first given the latest configuration of its environment and the latest  *)
(* image of the suite, each read by a call of its own.  A run is stopped   *)
(* by a message that names the task the portal knows it by.                *)
(*                                                                         *)
(* Outside, and modelled from what the code expects of them: portal-       *)
(* backend, the images and configurations it lists, and the workers that   *)
(* take the messages and run the tasks.                                    *)
(***************************************************************************)
EXTENDS Naturals

CONSTANTS
  Job,         \* the requests that start a job, named by the job's id
  Stopper,     \* the requests to stop a run
  EnvAsked,    \* the environments they are asked in
  Asks,        \* what each of them may ask for
  MaxConfig,   \* bound: configurations of each environment
  MaxImage,    \* bound: images of the suite
  MaxChanges,  \* bound: new configurations and images, all together
  OddConfig    \* the configurations that are not known by a proper commit sha

Kind == {"test", "migration", "import"}
JobAsked == [kind : Kind, env : EnvAsked, valid : {"yes", "no"}]

ASSUME VersionAssumption == MaxConfig \in [EnvAsked -> Nat] /\ MaxImage \in Nat /\ MaxChanges \in Nat
ASSUME AsksAssumption == Asks \in [Job -> SUBSET JobAsked]

VARIABLES
  stage,     \* where the handler of each request stands
  job,       \* what each request asks for; its message passes Joi or does not
  config,    \* the latest configuration of each environment, 0 before the first
  image,     \* the latest image of the suite
  changes,   \* how many configurations and images are new so far
  run,       \* the configuration and the image read for each run
  topic,     \* what has been published for each job
  record,    \* what the portal shows of each job
  started,   \* the jobs whose task has started
  linked,    \* the runs whose taskArn the portal knows
  stop,      \* each request to stop: where it stands, and the run it fetched
  stopping,  \* the tasks that stop messages name, each with its environment
  late,      \* calls no longer waited for that may yet arrive
  before,    \* history: what was the latest when the request arrived
  madeWith,  \* history: the latest image when each configuration was made
  cause      \* history: what each failed request failed of

jobVars == <<stage, job, run, before, cause>>
stopVars == <<stop, stopping>>
portalVars == <<record, linked>>
\* What portal-backend lists of configurations and images.
listed == <<config, image, changes, madeWith>>
vars == <<jobVars, stopVars, portalVars, listed, topic, started, late>>

NoJob == [kind |-> "none", env |-> "none", valid |-> "no"]
Version == {0} \cup UNION {0..MaxConfig[e] : e \in EnvAsked}
Run == [config : Version, image : 0..MaxImage]
NoRun == [config |-> 0, image |-> 0]
Content == [kind : Kind, env : EnvAsked, run : Run]
Nothing == [kind |-> "none", env |-> "none", run |-> NoRun]
NoStop == [stage |-> "none", of |-> "none", env |-> "none", arn |-> "none"]

Over(j) == stage[j] \in {"ok", "failed", "refused", "dead"}
Settled(j) == Over(j) /\ \A c \in late : c.by # j
Step(j, label) == stage' = [stage EXCEPT ![j] = label]
Fails(j, why) == Step(j, "failed") /\ cause' = [cause EXCEPT ![j] = why]

Init ==
  /\ stage = [j \in Job |-> "none"]
  /\ job = [j \in Job |-> NoJob]
  /\ config = [e \in EnvAsked |-> 0]
  /\ image = 0
  /\ changes = 0
  /\ run = [j \in Job |-> NoRun]
  /\ topic = [j \in Job |-> Nothing]
  /\ record = [j \in Job |-> Nothing]
  /\ started = {}
  /\ linked = {}
  /\ stop = [s \in Stopper |-> NoStop]
  /\ stopping = {}
  /\ late = {}
  /\ before = [j \in Job |-> NoRun]
  /\ madeWith = [e \in EnvAsked |-> [v \in Version |-> 0]]
  /\ cause = [j \in Job |-> "none"]

\* Slip: the message is made without the environment.
ContentWithoutEnv(j) == [kind |-> job[j].kind, env |-> "none", run |-> run[j]]

\* The content of a job: what runTestSuite, runDatabaseMigration and
\* runDatabaseImport put in its message.
ContentOf(j) == [kind |-> job[j].kind, env |-> job[j].env, run |-> run[j]]

-----------------------------------------------------------------------------
(* Starting a job. *)

\* A user's request arrives, validated; of a run, so may one of portal-backend
\* (trigger-test-suite), whose signature is its permission.
Arrives(j) ==
  /\ stage[j] = "none"
  /\ \E a \in Asks[j] :
       /\ job' = [job EXCEPT ![j] = a]
       /\ before' = [before EXCEPT ![j] = [config |-> config[a.env], image |-> image]]
       /\ \/ Step(j, "admit")
          \/ a.kind = "test" /\ a.valid = "yes" /\ Step(j, "config")
  /\ UNCHANGED <<run, cause, stopVars, portalVars, listed, topic, started, late>>

\* Who the user is and what he may do is read. The message of a migration or an
\* import is made and held to its schema; a run has its versions to read first.
Admit(j) ==
  /\ stage[j] = "admit"
  /\ \/ job[j].kind = "test" /\ Step(j, "config") /\ UNCHANGED cause
     \/ job[j].kind # "test" /\ job[j].valid = "yes" /\ Step(j, "publish") /\ UNCHANGED cause
     \/ job[j].kind # "test" /\ job[j].valid = "no" /\ Fails(j, "message")
  /\ UNCHANGED <<job, run, before, stopVars, portalVars, listed, topic, started, late>>

\* He may not, a read fails, or the import is of an unknown kind.
Refuse(j) ==
  /\ stage[j] = "admit"
  /\ Step(j, "refused")
  /\ UNCHANGED <<job, run, before, cause, stopVars, portalVars, listed, topic, started, late>>

\* getLatestAppConfigCommitSha: without a sha runTestSuite returns null, and the
\* request is answered 500.
ReadConfig(j) ==
  /\ stage[j] = "config"
  /\ LET latest == config[job[j].env] IN
     \/ /\ latest # 0
        /\ run' = [run EXCEPT ![j].config = latest]
        /\ Step(j, "image")
        /\ UNCHANGED cause
     \/ /\ latest = 0
        /\ Fails(j, "config")
        /\ UNCHANGED run
  /\ UNCHANGED <<job, before, stopVars, portalVars, listed, topic, started, late>>

\* Slip: the image is asked for when the request arrives, beside the configuration,
\* and is awaited here.
ReadImageAskedAtArrival(j) ==
  /\ stage[j] = "image"
  /\ \E answer \in before[j].image..image :
       \/ /\ answer # 0 /\ job[j].valid = "yes"
          /\ run' = [run EXCEPT ![j].image = answer]
          /\ Step(j, "publish")
          /\ UNCHANGED cause
       \/ /\ answer = 0 \/ job[j].valid = "no"
          /\ Fails(j, "message")
          /\ UNCHANGED run
  /\ UNCHANGED <<job, before, stopVars, portalVars, listed, topic, started, late>>

\* getLatestImage, and generateTestRunMessage, which holds the message to its
\* schema: an artifact without a tag does not pass, and neither does a user
\* without a name.
ReadImage(j) ==
  /\ stage[j] = "image"
  /\ \/ /\ image # 0 /\ job[j].valid = "yes"
        /\ run' = [run EXCEPT ![j].image = image]
        /\ Step(j, "publish")
        /\ UNCHANGED cause
     \/ /\ image = 0 \/ job[j].valid = "no"
        /\ Fails(j, "message")
        /\ UNCHANGED run
  /\ UNCHANGED <<job, before, stopVars, portalVars, listed, topic, started, late>>

\* sendSnsMessage answers.
Publish(j) ==
  /\ stage[j] = "publish"
  /\ topic' = [topic EXCEPT ![j] = ContentOf(j)]
  /\ Step(j, "record")
  /\ UNCHANGED <<job, run, before, cause, stopVars, portalVars, listed, started, late>>

\* Only the record of a run is held to more than its message: to a proper sha.
Recordable(j) == job[j].kind = "test" => run[j].config \notin OddConfig

\* Slip: the record is made of what is the latest by now.
RecordLatest(j) ==
  /\ stage[j] = "record"
  /\ Recordable(j)
  /\ record' = [record EXCEPT ![j] =
       [ContentOf(j) EXCEPT !.run.config = IF @ = 0 THEN 0 ELSE config[job[j].env]]]
  /\ Step(j, "ok")
  /\ UNCHANGED <<job, run, before, cause, stopVars, linked, listed, topic, started, late>>

\* recordTestRun, recordDatabaseMigration or recordDataImport answers, and the
\* request is answered 200 with the id.
Record(j) ==
  /\ stage[j] = "record"
  /\ Recordable(j)
  /\ record' = [record EXCEPT ![j] = ContentOf(j)]
  /\ Step(j, "ok")
  /\ UNCHANGED <<job, run, before, cause, stopVars, linked, listed, topic, started, late>>

\* It throws before it calls: the run is published, and will not be recorded.
RecordInvalid(j) ==
  /\ stage[j] = "record"
  /\ ~Recordable(j)
  /\ Fails(j, "sha")
  /\ UNCHANGED <<job, run, before, stopVars, portalVars, listed, topic, started, late>>

\* The call a request waits for is lost, or is not and arrives after all.
LeavesCall(j) ==
  IF stage[j] = "publish" \/ (stage[j] = "record" /\ Recordable(j))
  THEN late' \in {late, late \cup {[by |-> j, call |-> stage[j]]}}
  ELSE UNCHANGED late

\* Slip: a failed record is caught, and the id is handed out.
CallFailsCaught(j) ==
  /\ stage[j] \in {"config", "image", "publish", "record"}
  /\ stage[j] = "record" => Recordable(j)
  /\ IF stage[j] = "record" THEN Step(j, "ok") /\ UNCHANGED cause ELSE Fails(j, stage[j])
  /\ LeavesCall(j)
  /\ UNCHANGED <<job, run, before, stopVars, portalVars, listed, topic, started>>

\* A call fails, and the request with it.
CallFails(j) ==
  /\ stage[j] \in {"config", "image", "publish", "record"}
  /\ stage[j] = "record" => Recordable(j)
  /\ Fails(j, stage[j])
  /\ LeavesCall(j)
  /\ UNCHANGED <<job, run, before, stopVars, portalVars, listed, topic, started>>

\* The process is stopped in the middle of a request.
Dies(j) ==
  /\ stage[j] \in {"admit", "config", "image", "publish", "record"}
  /\ Step(j, "dead")
  /\ cause' = [cause EXCEPT ![j] = "died"]
  /\ LeavesCall(j)
  /\ UNCHANGED <<job, run, before, stopVars, portalVars, listed, topic, started>>

-----------------------------------------------------------------------------
(* Stopping a run. *)

StopStep(s, label) == stop' = [stop EXCEPT ![s].stage = label]

\* A request to stop arrives; the ids users know are those of runs that exist.
StopArrives(s, j) ==
  /\ stop[s].stage = "none"
  /\ job[j].kind = "test"
  /\ stop' = [stop EXCEPT ![s].stage = "fetch", ![s].of = j]
  /\ UNCHANGED <<jobVars, portalVars, listed, topic, started, late, stopping>>

\* The request to stop has the record of run j.
Fetched(s, j) ==
  stop' = [stop EXCEPT ![s].stage = "owner", ![s].env = record[j].env,
                       ![s].arn = IF j \in linked THEN j ELSE "none"]

\* Slip: a run is fetched, and not by its id.
FetchTestRunOfAny(s) ==
  /\ stop[s].stage = "fetch"
  /\ \/ \E j \in Job : record[j] # Nothing /\ Fetched(s, j)
     \/ record[stop[s].of] = Nothing /\ StopStep(s, "refused")
  /\ UNCHANGED <<jobVars, portalVars, listed, topic, started, late, stopping>>

\* fetchTestRun: the run as the portal knows it, with the task that is linked to
\* it, if one is; or a 404.
FetchTestRun(s) ==
  /\ stop[s].stage = "fetch"
  /\ \/ record[stop[s].of] # Nothing /\ Fetched(s, stop[s].of)
     \/ record[stop[s].of] = Nothing /\ StopStep(s, "refused")
  /\ UNCHANGED <<jobVars, portalVars, listed, topic, started, late, stopping>>

\* isOwnerOfSuite, and then getTaskId, which throws on a run without a task.
StopAdmit(s) ==
  /\ stop[s].stage = "owner"
  /\ \/ stop[s].arn # "none" /\ StopStep(s, "publish")
     \/ stop[s].arn = "none" /\ StopStep(s, "failed")
  /\ UNCHANGED <<jobVars, portalVars, listed, topic, started, late, stopping>>

\* The user does not own the suite, or a read fails.
StopRefuse(s) ==
  /\ stop[s].stage \in {"fetch", "owner"}
  /\ StopStep(s, "refused")
  /\ UNCHANGED <<jobVars, portalVars, listed, topic, started, late, stopping>>

\* The task is named as the record of the run names it, not by the run.
StopMessage(s) == [task |-> stop[s].arn, env |-> stop[s].env]

\* The answer to the user waits for the topic's.
StopPublish(s) ==
  /\ stop[s].stage = "publish"
  /\ StopStep(s, "ok")
  /\ stopping' = stopping \cup {StopMessage(s)}
  /\ UNCHANGED <<jobVars, portalVars, listed, topic, started, late>>

\* The publish fails, or the process is stopped: the message may arrive after all.
StopFails(s) ==
  /\ stop[s].stage = "publish"
  /\ StopStep(s, "failed")
  /\ stopping' \in {stopping, stopping \cup {StopMessage(s)}}
  /\ UNCHANGED <<jobVars, portalVars, listed, topic, started, late>>

-----------------------------------------------------------------------------
(* Outside. *)

ArrivesLate(c) ==
  /\ late' = late \ {c}
  /\ \/ /\ c.call = "publish"
        /\ topic' = [topic EXCEPT ![c.by] = ContentOf(c.by)]
        /\ UNCHANGED record
     \/ /\ c.call = "record"
        /\ record' = [record EXCEPT ![c.by] = ContentOf(c.by)]
        /\ UNCHANGED topic
  /\ UNCHANGED <<jobVars, stopVars, linked, listed, started>>

\* Somebody changes the configuration, or builds an image.
NewConfig(e) ==
  /\ config[e] < MaxConfig[e] /\ changes < MaxChanges
  /\ changes' = changes + 1
  /\ config' = [config EXCEPT ![e] = @ + 1]
  /\ madeWith' = [madeWith EXCEPT ![e][config[e] + 1] = image]
  /\ UNCHANGED <<jobVars, stopVars, portalVars, image, topic, started, late>>

NewImage ==
  /\ image < MaxImage /\ changes < MaxChanges
  /\ changes' = changes + 1
  /\ image' = image + 1
  /\ UNCHANGED <<jobVars, stopVars, portalVars, config, madeWith, topic, started, late>>

\* A worker takes the message of a job and starts its task.
TaskStarts(j) ==
  /\ topic[j] # Nothing /\ j \notin started
  /\ started' = started \cup {j}
  /\ UNCHANGED <<jobVars, stopVars, portalVars, listed, topic, late>>

\* The portal joins the event of a start to the run, if it knows the run.
Links(j) ==
  /\ j \in started /\ record[j] # Nothing /\ job[j].kind = "test"
  /\ j \notin linked
  /\ linked' = linked \cup {j}
  /\ UNCHANGED <<jobVars, stopVars, record, listed, topic, started, late>>

AllOver ==
  /\ \A j \in Job : Over(j)
  /\ UNCHANGED vars

Next ==
  \/ \E j \in Job :
       \/ Arrives(j)
       \/ Admit(j)
       \/ Refuse(j)
       \/ ReadConfig(j)
       \/ ReadImage(j)
       \/ Publish(j)
       \/ Record(j)
       \/ RecordInvalid(j)
       \/ CallFails(j)
       \/ Dies(j)
       \/ TaskStarts(j)
       \/ Links(j)
  \/ \E s \in Stopper :
       \/ \E j \in Job : StopArrives(s, j)
       \/ FetchTestRun(s)
       \/ StopAdmit(s)
       \/ StopRefuse(s)
       \/ StopPublish(s)
       \/ StopFails(s)
  \/ \E c \in late : ArrivesLate(c)
  \/ \E e \in EnvAsked : NewConfig(e)
  \/ NewImage
  \/ AllOver

Spec == Init /\ [][Next]_vars

-----------------------------------------------------------------------------
(* What holds of jobs. *)

\* Every variable keeps its type.
TypeOK ==
  /\ stage \in [Job -> {"none", "admit", "config", "image", "publish", "record",
                        "ok", "failed", "refused", "dead"}]
  /\ job \in [Job -> JobAsked \cup {NoJob}]
  /\ config \in [EnvAsked -> Nat]
  /\ \A e \in EnvAsked : config[e] <= MaxConfig[e]
  /\ image \in 0..MaxImage
  /\ changes \in 0..MaxChanges
  /\ run \in [Job -> Run]
  /\ topic \in [Job -> Content \cup {Nothing}]
  /\ record \in [Job -> Content \cup {Nothing}]
  /\ started \subseteq Job
  /\ linked \subseteq Job
  /\ stop \in [Stopper -> [stage : {"none", "fetch", "owner", "publish", "ok",
                                    "failed", "refused"},
                           of : Job \cup {"none"}, env : EnvAsked \cup {"none"},
                           arn : Job \cup {"none"}]]
  /\ stopping \subseteq [task : Job, env : EnvAsked]
  /\ late \subseteq [by : Job, call : {"publish", "record"}]
  /\ before \in [Job -> Run]
  /\ madeWith \in [EnvAsked -> [Version -> 0..MaxImage]]

\* The jobs launched, shown, started and told to stop are those of Launches: the
\* portal shows nothing that was not published, and shows what was published, and
\* a task told to stop is one that started, of a run that is shown.
L == INSTANCE Launches WITH
       launched <- topic, shown <- record,
       started <- started,
       stopped <- {m.task : m \in stopping}

ImplementsLaunches == L!LaunchSpec

\* A job answered 200 is published and known to the portal; one refused is
\* neither. A job that is published and that the portal will never know has a
\* reason that its user was told: a call that failed, a process that stopped, or
\* a configuration without a proper sha.
UnknownIsExplained ==
  \A j \in Job :
    /\ stage[j] = "ok" => topic[j] # Nothing /\ record[j] # Nothing
    /\ stage[j] = "refused" => topic[j] = Nothing /\ Settled(j)
    /\ topic[j] # Nothing /\ record[j] = Nothing /\ Settled(j) =>
         /\ stage[j] \in {"failed", "dead"}
         /\ cause[j] \in {"publish", "record", "sha", "died"}
         /\ cause[j] = "sha" => run[j].config \in OddConfig

\* A run has a configuration of its own environment, and neither it nor the image
\* is older than the latest when the run was asked for; and whatever changes while
\* the two are read, they are never mixed so that a configuration is run with an
\* image older than the one there was when it was made. (An older configuration
\* with a newer image is possible.) The code reads the configuration first, and
\* asks for the image only then.
RunsNothingOlder ==
  \A j \in Job :
    topic[j].kind = "test" =>
      /\ topic[j].run.config \in before[j].config..config[topic[j].env]
      /\ topic[j].run.image \in before[j].image..image
      /\ topic[j].run.config # 0 /\ topic[j].run.image # 0
      /\ topic[j].run.image >= madeWith[topic[j].env][topic[j].run.config]

\* A stop answered 200 is published, for the task of the run asked for and in the
\* environment the run is in; and no task is told to stop but one that has started,
\* is known to be its run's, and is of a run that a request that has got past the
\* owner's check asked to stop: whatever the portal learns while it is under way.
StopsItsRun ==
  /\ \A s \in Stopper :
       stop[s].stage = "ok" => [task |-> stop[s].of, env |-> job[stop[s].of].env] \in stopping
  /\ \A m \in stopping :
       /\ m.env = topic[m.task].env
       /\ m.task \in started \cap linked
       /\ \E s \in Stopper : stop[s].of = m.task /\ stop[s].stage \in {"ok", "failed"}
=============================================================================
