----------------------------- MODULE JobsProofs -----------------------------
(***************************************************************************)
(* What jobs guarantee, for every number of jobs, of requests to stop, of  *)
(* configurations and of images.                                           *)
(*                                                                         *)
(*   TypeInv   every variable has its type, and a request past its first   *)
(*             stage asks for something                                    *)
(*   InPlace   what the topic, the portal and the late calls may hold of a *)
(*             job at each stage of its request                            *)
(*   Fresh     the versions read lie between those of the arrival and the  *)
(*             latest                                                      *)
(*   PairInv   no run has an image older than the latest there was when    *)
(*             its configuration was made                                  *)
(*   StopInv   what a request to stop has seen, and what it may name       *)
(***************************************************************************)
EXTENDS Jobs, TLAPS

-----------------------------------------------------------------------------
(* The invariants. *)

LatePublish(j) == [by |-> j, call |-> "publish"] \in late
LateRecord(j) == [by |-> j, call |-> "record"] \in late

TypeInv ==
  /\ TypeOK
  /\ cause \in [Job -> {"none", "message", "config", "image", "publish", "record", "sha", "died"}]
  /\ \A j \in Job : stage[j] # "none" => job[j] \in JobAsked
  /\ \A c \in late : stage[c.by] \in {"failed", "dead"}
  /\ \A s \in Stopper :
       /\ stop[s].stage # "none" => stop[s].of \in Job
       /\ stop[s].stage \in {"owner", "publish", "ok", "failed"} => stop[s].env \in EnvAsked
       /\ stop[s].stage = "publish" => stop[s].arn \in Job

\* A failure that came after everything was published, or of the publish itself.
Excused(j) ==
  /\ cause[j] \in {"publish", "record", "sha", "died"}
  /\ cause[j] = "sha" => run[j].config \in OddConfig

InPlace(j) ==
  /\ stage[j] \in {"none", "admit", "config", "image", "publish", "refused"} =>
       topic[j] = Nothing /\ record[j] = Nothing /\ ~LatePublish(j) /\ ~LateRecord(j)
  /\ stage[j] = "record" => topic[j] = ContentOf(j) /\ record[j] = Nothing
  /\ stage[j] = "ok" => topic[j] = ContentOf(j) /\ record[j] = ContentOf(j)
  /\ topic[j] # Nothing => topic[j] = ContentOf(j)
  /\ record[j] # Nothing => topic[j] # Nothing /\ record[j] = ContentOf(j)
  /\ LatePublish(j) => topic[j] = Nothing /\ record[j] = Nothing /\ ~LateRecord(j)
  /\ LateRecord(j) => topic[j] # Nothing /\ record[j] = Nothing
  /\ stage[j] \in {"failed", "dead"} /\ (topic[j] # Nothing \/ LatePublish(j)) => Excused(j)

PlaceInv == \A j \in Job : InPlace(j)

\* Has the run a configuration? Has it an image?
HasConfig(j) ==
  stage[j] \in {"image", "publish", "record", "ok"} \/ topic[j] # Nothing \/ LatePublish(j)
HasImage(j) ==
  stage[j] \in {"publish", "record", "ok"} \/ topic[j] # Nothing \/ LatePublish(j)

Fresh(j) ==
  /\ before[j].config \in Nat /\ before[j].image \in Nat
  /\ stage[j] # "none" =>
       before[j].config <= config[job[j].env] /\ before[j].image <= image
  /\ job[j].kind = "test" /\ HasConfig(j) =>
       run[j].config \in before[j].config..config[job[j].env] /\ run[j].config # 0
  /\ job[j].kind = "test" /\ HasImage(j) =>
       run[j].image \in before[j].image..image /\ run[j].image # 0

FreshInv == \A j \in Job : Fresh(j)

Paired(j) ==
  job[j].kind = "test" /\ HasImage(j) => run[j].image >= madeWith[job[j].env][run[j].config]

PairInv ==
  /\ \A e \in EnvAsked : \A v \in Version : v <= config[e] => madeWith[e][v] <= image
  /\ \A j \in Job : Paired(j)

Named(m) ==
  /\ m.task \in started /\ m.task \in linked /\ record[m.task] # Nothing
  /\ m.env = record[m.task].env
  /\ \E s \in Stopper : stop[s].of = m.task /\ stop[s].stage \in {"ok", "failed"}

Stops(s) ==
  /\ stop[s].stage \in {"owner", "publish", "ok", "failed"} =>
       record[stop[s].of] # Nothing /\ stop[s].env = record[stop[s].of].env
  /\ stop[s].stage \in {"none", "fetch"} => stop[s].arn = "none"
  /\ stop[s].arn # "none" => stop[s].arn = stop[s].of /\ stop[s].of \in linked
  /\ stop[s].stage \in {"publish", "ok"} => stop[s].arn # "none"
  /\ stop[s].stage = "ok" => StopMessage(s) \in stopping

StopInv ==
  /\ \A j \in started : topic[j] # Nothing
  /\ \A j \in linked : j \in started /\ record[j] # Nothing
  /\ \A s \in Stopper : Stops(s)
  /\ \A m \in stopping : Named(m)

-----------------------------------------------------------------------------
(* Types. *)

LEMMA ContentIsTyped ==
  ASSUME TypeInv, NEW j \in Job, stage[j] # "none"
  PROVE  ContentOf(j) \in Content /\ ContentOf(j) # Nothing
  BY DEF TypeInv, TypeOK, JobAsked, Content, ContentOf, Nothing, Kind

LEMMA VersionIsTyped ==
  /\ 0 \in Version /\ Version \subseteq Nat
  /\ TypeInv => image \in 0..MaxImage /\ \A e \in EnvAsked : config[e] \in Version
  <1>1. 0 \in Version
    BY DEF Version
  <1>2. \A e \in EnvAsked : 0..MaxConfig[e] \subseteq Version
    BY DEF Version
  <1>3. Version \subseteq Nat
    BY VersionAssumption DEF Version
  <1>4. TypeInv => \A e \in EnvAsked : config[e] \in 0..MaxConfig[e]
    BY VersionAssumption DEF TypeInv, TypeOK
  <1>5. TypeInv => image \in 0..MaxImage
    BY DEF TypeInv, TypeOK
  <1> QED
    BY <1>1, <1>2, <1>3, <1>4, <1>5

LEMMA TypeInit == Init => TypeInv
  <1> SUFFICES ASSUME Init
               PROVE  TypeInv
    OBVIOUS
  <1>1. NoRun \in Run /\ \A e \in EnvAsked : 0 <= MaxConfig[e]
    BY VersionIsTyped, VersionAssumption DEF NoRun, Run
  <1>2. TypeOK
    BY <1>1, VersionAssumption DEF Init, TypeOK, NoStop
  <1> QED
    BY <1>2 DEF Init, TypeInv, NoStop

LEMMA LeavesTyped ==
  ASSUME TypeInv, NEW j \in Job, LeavesCall(j)
  PROVE  /\ late' \subseteq [by : Job, call : {"publish", "record"}]
         /\ \A c \in late' : c \in late \/ c.by = j
  BY DEF TypeInv, TypeOK, LeavesCall

LEMMA JobTypes ==
  ASSUME TypeInv, NEW j \in Job,
         \/ Arrives(j) \/ Admit(j) \/ Refuse(j) \/ ReadConfig(j) \/ ReadImage(j)
         \/ Publish(j) \/ Record(j) \/ RecordInvalid(j) \/ CallFails(j) \/ Dies(j)
  PROVE  TypeInv'
  <1> USE DEF TypeInv, TypeOK, Step, Fails, stopVars, portalVars, listed
  <1>1. CASE Arrives(j)
    <2>1. PICK a \in Asks[j] :
            /\ job' = [job EXCEPT ![j] = a]
            /\ before' = [before EXCEPT ![j] = [config |-> config[a.env], image |-> image]]
      BY <1>1 DEF Arrives
    <2>2. a \in JobAsked /\ a.env \in EnvAsked
      BY AsksAssumption DEF JobAsked
    <2>3. [config |-> config[a.env], image |-> image] \in Run
      BY <2>2, VersionIsTyped DEF Run
    <2>4. job' \in [Job -> JobAsked \cup {NoJob}] /\ before' \in [Job -> Run]
      BY <2>1, <2>2, <2>3
    <2>5. \A c \in late : c.by # j
      BY <1>1 DEF Arrives
    <2> QED
      BY <1>1, <2>1, <2>2, <2>4, <2>5 DEF Arrives
  <1>2. CASE Admit(j) \/ Refuse(j) \/ RecordInvalid(j)
    BY <1>2 DEF Admit, Refuse, RecordInvalid
  <1>3. CASE ReadConfig(j)
    <2>1. job[j].env \in EnvAsked
      BY <1>3 DEF ReadConfig, JobAsked
    <2>4. config[job[j].env] \in Version /\ run[j] \in Run
      BY <2>1, VersionIsTyped
    <2>2. [run[j] EXCEPT !.config = config[job[j].env]] \in Run
      <3> HIDE DEF TypeInv, TypeOK
      <3> QED
        BY <2>4 DEF Run
    <2>3. run' \in [Job -> Run]
      BY <1>3, <2>2 DEF ReadConfig
    <2> QED
      BY <1>3, <2>3 DEF ReadConfig
  <1>4. CASE ReadImage(j)
    <2>1. run[j] \in Run /\ image \in 0..MaxImage
      OBVIOUS
    <2>2. [run[j] EXCEPT !.image = image] \in Run
      BY <2>1 DEF Run
    <2>3. run' \in [Job -> Run]
      BY <1>4, <2>2 DEF ReadImage
    <2> QED
      BY <1>4, <2>3 DEF ReadImage
  <1>5. CASE Publish(j)
    BY <1>5, ContentIsTyped DEF Publish
  <1>6. CASE Record(j)
    BY <1>6, ContentIsTyped DEF Record
  <1>7. CASE CallFails(j)
    BY <1>7, LeavesTyped DEF CallFails
  <1>8. CASE Dies(j)
    BY <1>8, LeavesTyped DEF Dies
  <1> QED
    BY <1>1, <1>2, <1>3, <1>4, <1>5, <1>6, <1>7, <1>8

LEMMA StopTypes ==
  ASSUME TypeInv, NEW s \in Stopper,
         \/ \E j \in Job : StopArrives(s, j)
         \/ FetchTestRun(s) \/ StopAdmit(s) \/ StopRefuse(s) \/ StopPublish(s) \/ StopFails(s)
  PROVE  TypeInv'
  <1> USE DEF TypeInv, TypeOK, StopStep, jobVars, portalVars, listed
  <1>0. /\ UNCHANGED <<stage, job, config, image, changes, run, topic, record, started, linked,
                      late, before, madeWith, cause>>
        /\ DOMAIN stop = Stopper
        /\ stop[s] \in [stage : {"none", "fetch", "owner", "publish", "ok", "failed", "refused"},
                        of : Job \cup {"none"}, env : EnvAsked \cup {"none"},
                        arn : Job \cup {"none"}]
    BY DEF StopArrives, FetchTestRun, StopAdmit, StopRefuse, StopPublish, StopFails
  <1> DEFINE Typed(q) ==
        /\ q \in [stage : {"none", "fetch", "owner", "publish", "ok", "failed", "refused"},
                  of : Job \cup {"none"}, env : EnvAsked \cup {"none"}, arn : Job \cup {"none"}]
        /\ q.stage # "none" => q.of \in Job
        /\ q.stage \in {"owner", "publish", "ok", "failed"} => q.env \in EnvAsked
        /\ q.stage = "publish" => q.arn \in Job
  <1>1. \A q \in Stopper : Typed(stop[q])
    OBVIOUS
  <1>2. Typed(stop'[s]) /\ stop' = [stop EXCEPT ![s] = stop'[s]]
    <2>1. ASSUME NEW j \in Job, StopArrives(s, j)
          PROVE  Typed(stop'[s]) /\ stop' = [stop EXCEPT ![s] = stop'[s]]
      BY <1>0, <1>1, <2>1 DEF StopArrives
    <2>2. ASSUME FetchTestRun(s)
          PROVE  Typed(stop'[s]) /\ stop' = [stop EXCEPT ![s] = stop'[s]]
      <3>1. record[stop[s].of] # Nothing => record[stop[s].of].env \in EnvAsked
        BY <2>2 DEF FetchTestRun, Content
      <3> HIDE DEF TypeInv, TypeOK
      <3> QED
        BY <1>0, <1>1, <2>2, <3>1 DEF FetchTestRun, Fetched
    <2>3. ASSUME StopAdmit(s) \/ StopRefuse(s) \/ StopPublish(s) \/ StopFails(s)
          PROVE  Typed(stop'[s]) /\ stop' = [stop EXCEPT ![s] = stop'[s]]
      <3> HIDE DEF TypeInv, TypeOK
      <3> QED
        BY <1>0, <1>1, <2>3 DEF StopAdmit, StopRefuse, StopPublish, StopFails
    <2> QED
      BY <2>1, <2>2, <2>3
  <1>3. stopping' \subseteq [task : Job, env : EnvAsked]
    <2>1. stop[s].stage = "publish" => StopMessage(s) \in [task : Job, env : EnvAsked]
      BY DEF StopMessage
    <2> QED
      BY <2>1 DEF StopArrives, FetchTestRun, StopAdmit, StopRefuse, StopPublish, StopFails
  <1>4. \A q \in Stopper : Typed(stop'[q])
    BY <1>0, <1>1, <1>2
  <1>5. stop' \in [Stopper -> [stage : {"none", "fetch", "owner", "publish", "ok", "failed",
                                        "refused"},
                              of : Job \cup {"none"}, env : EnvAsked \cup {"none"},
                              arn : Job \cup {"none"}]]
    BY <1>0, <1>2, <1>4
  <1> QED
    BY <1>0, <1>3, <1>4, <1>5

LEMMA OutsideTypes ==
  ASSUME TypeInv,
         \/ \E c \in late : ArrivesLate(c)
         \/ \E e \in EnvAsked : NewConfig(e)
         \/ NewImage \/ AllOver \/ UNCHANGED vars
         \/ \E j \in Job : TaskStarts(j) \/ Links(j)
  PROVE  TypeInv'
  <1> USE DEF TypeInv, TypeOK, jobVars, portalVars, listed, stopVars
  <1>1. ASSUME NEW c \in late, ArrivesLate(c)
        PROVE  TypeInv'
    <2>1. c.by \in Job /\ stage[c.by] # "none"
      OBVIOUS
    <2> QED
      BY <1>1, <2>1, ContentIsTyped DEF ArrivesLate
  <1>2. ASSUME NEW e \in EnvAsked, NewConfig(e)
        PROVE  TypeInv'
    <2>0. config[e] \in Nat /\ MaxConfig[e] \in Nat /\ config[e] < MaxConfig[e]
      BY <1>2, VersionAssumption DEF NewConfig
    <2>1. /\ config' \in [EnvAsked -> Nat]
          /\ \A f \in EnvAsked : config'[f] = IF f = e THEN config[f] + 1 ELSE config[f]
      BY <1>2, <2>0 DEF NewConfig
    <2>3. \A f \in EnvAsked : config'[f] <= MaxConfig[f]
      BY <2>0, <2>1
    <2>2. UNCHANGED <<stage, job, image, run, topic, record, started, linked, stop,
                      stopping, late, before, cause>>
      BY <1>2 DEF NewConfig
    <2>4. changes' \in 0..MaxChanges
      BY <1>2, VersionAssumption DEF NewConfig
    <2>5. madeWith' \in [EnvAsked -> [Version -> 0..MaxImage]]
      BY <1>2 DEF NewConfig
    <2> QED
      BY <2>1, <2>2, <2>3, <2>4, <2>5
  <1>3. CASE NewImage
    BY <1>3, VersionAssumption DEF NewImage
  <1>4. CASE AllOver \/ UNCHANGED vars
    BY <1>4 DEF AllOver, vars
  <1>5. ASSUME NEW j \in Job, TaskStarts(j) \/ Links(j)
        PROVE  TypeInv'
    BY <1>5 DEF TaskStarts, Links
  <1> QED
    BY <1>1, <1>2, <1>3, <1>4, <1>5

LEMMA TypeStep == TypeInv /\ [Next]_vars => TypeInv'
  BY JobTypes, StopTypes, OutsideTypes DEF Next

\* Every reachable state of the jobs is well-typed.
THEOREM TypesCorrect == Spec => []TypeOK
  <1>1. Spec => []TypeInv
    BY TypeInit, TypeStep, PTL DEF Spec
  <1>2. TypeInv => TypeOK
    BY DEF TypeInv
  <1> QED
    BY <1>1, <1>2, PTL

-----------------------------------------------------------------------------
(* Every job in its place. *)

\* A step of one handler leaves the jobs of the others as they are.
OthersStay(j) ==
  \A k \in Job \ {j} :
    /\ stage'[k] = stage[k] /\ job'[k] = job[k] /\ run'[k] = run[k]
    /\ topic'[k] = topic[k] /\ record'[k] = record[k] /\ cause'[k] = cause[k]
    /\ LatePublish(k)' <=> LatePublish(k)
    /\ LateRecord(k)' <=> LateRecord(k)

LEMMA Stays ==
  ASSUME NEW j \in Job, NEW k \in Job \ {j}, OthersStay(j), InPlace(k)
  PROVE  InPlace(k)'
  <1>1. /\ stage'[k] = stage[k] /\ job'[k] = job[k] /\ run'[k] = run[k]
        /\ topic'[k] = topic[k] /\ record'[k] = record[k] /\ cause'[k] = cause[k]
        /\ LatePublish(k)' <=> LatePublish(k)
        /\ LateRecord(k)' <=> LateRecord(k)
    BY DEF OthersStay
  <1> HIDE DEF LatePublish, LateRecord
  <1> QED
    BY <1>1 DEF InPlace, ContentOf, Excused

\* What a request in the middle of a call leaves behind.
LEMMA LeavesOnly ==
  ASSUME TypeInv, NEW j \in Job, LeavesCall(j)
  PROVE  /\ LatePublish(j)' => LatePublish(j) \/ stage[j] = "publish"
         /\ LateRecord(j)' => LateRecord(j) \/ stage[j] = "record"
  BY DEF LeavesCall, LatePublish, LateRecord

LEMMA LeavesOthers ==
  ASSUME TypeInv, NEW j \in Job, NEW k \in Job \ {j}, LeavesCall(j)
  PROVE  /\ LatePublish(k)' <=> LatePublish(k)
         /\ LateRecord(k)' <=> LateRecord(k)
  BY DEF LeavesCall, LatePublish, LateRecord

LEMMA NoneLate ==
  ASSUME TypeInv, NEW j \in Job, stage[j] \notin {"failed", "dead"}
  PROVE  ~LatePublish(j) /\ ~LateRecord(j)
  BY DEF TypeInv, LatePublish, LateRecord

LEMMA JobPlaces ==
  ASSUME TypeInv, PlaceInv, NEW j \in Job,
         \/ Arrives(j) \/ Admit(j) \/ Refuse(j) \/ ReadConfig(j) \/ ReadImage(j)
         \/ Publish(j) \/ Record(j) \/ RecordInvalid(j) \/ CallFails(j) \/ Dies(j)
  PROVE  OthersStay(j) /\ InPlace(j)'
  <1>0. /\ InPlace(j)
        /\ DOMAIN stage = Job /\ DOMAIN job = Job /\ DOMAIN run = Job
        /\ DOMAIN topic = Job /\ DOMAIN record = Job /\ DOMAIN cause = Job
    BY DEF PlaceInv, TypeInv, TypeOK
  <1> USE DEF Step, Fails, stopVars, portalVars, listed
  <1>1. CASE Arrives(j) \/ Admit(j) \/ Refuse(j) \/ ReadConfig(j) \/ ReadImage(j)
    <2>1. /\ stage[j] \in {"none", "admit", "config", "image"}
          /\ stage'[j] \in {"admit", "config", "image", "publish", "refused", "failed"}
          /\ UNCHANGED <<topic, record, late>>
      BY <1>0, <1>1 DEF Arrives, Admit, Refuse, ReadConfig, ReadImage
    <2>2. OthersStay(j)
      BY <1>0, <1>1, <2>1 DEF OthersStay, LatePublish, LateRecord,
           Arrives, Admit, Refuse, ReadConfig, ReadImage
    <2>3. LatePublish(j)' <=> LatePublish(j)
      BY <2>1 DEF LatePublish
    <2>4. LateRecord(j)' <=> LateRecord(j)
      BY <2>1 DEF LateRecord
    <2> QED
      BY <1>0, <2>1, <2>2, <2>3, <2>4 DEF InPlace
  <1>2. CASE Publish(j)
    <2>1. /\ stage[j] = "publish" /\ stage'[j] = "record"
          /\ topic'[j] = ContentOf(j) /\ record'[j] = Nothing
          /\ UNCHANGED <<job, run, late>>
      BY <1>0, <1>2 DEF Publish, InPlace
    <2>2. OthersStay(j)
      BY <1>0, <1>2 DEF OthersStay, LatePublish, LateRecord, Publish
    <2>3. ~LatePublish(j)' /\ ~LateRecord(j)'
      BY <2>1, NoneLate DEF LatePublish, LateRecord
    <2>4. ContentOf(j)' = ContentOf(j)
      BY <2>1 DEF ContentOf
    <2> QED
      BY <2>1, <2>2, <2>3, <2>4 DEF InPlace
  <1>3. CASE Record(j)
    <2>1. /\ stage[j] = "record" /\ stage'[j] = "ok"
          /\ topic'[j] = ContentOf(j) /\ record'[j] = ContentOf(j)
          /\ UNCHANGED <<job, run, late>>
      BY <1>0, <1>3 DEF Record, InPlace
    <2>2. OthersStay(j)
      BY <1>0, <1>3 DEF OthersStay, LatePublish, LateRecord, Record
    <2>3. ~LatePublish(j)' /\ ~LateRecord(j)'
      BY <2>1, NoneLate DEF LatePublish, LateRecord
    <2>4. ContentOf(j)' = ContentOf(j) /\ ContentOf(j) # Nothing
      BY <2>1, ContentIsTyped DEF ContentOf
    <2> QED
      BY <2>1, <2>2, <2>3, <2>4 DEF InPlace
  <1>4. CASE RecordInvalid(j)
    <2>1. /\ stage[j] = "record" /\ stage'[j] = "failed" /\ cause'[j] = "sha"
          /\ run[j].config \in OddConfig
          /\ UNCHANGED <<job, run, late, topic, record>>
      BY <1>0, <1>4 DEF RecordInvalid, Recordable, TypeInv, TypeOK
    <2>2. OthersStay(j)
      BY <1>0, <1>4 DEF OthersStay, LatePublish, LateRecord, RecordInvalid
    <2>3. ~LatePublish(j)' /\ ~LateRecord(j)'
      BY <2>1, NoneLate DEF LatePublish, LateRecord
    <2>4. ContentOf(j)' = ContentOf(j) /\ Excused(j)'
      BY <2>1 DEF ContentOf, Excused
    <2> QED
      BY <1>0, <2>1, <2>2, <2>3, <2>4 DEF InPlace
  <1>5. CASE CallFails(j) \/ Dies(j)
    <2>1. /\ stage[j] \in {"admit", "config", "image", "publish", "record"}
          /\ stage'[j] \in {"failed", "dead"}
          /\ stage[j] \in {"publish", "record"} => cause'[j] \in {"publish", "record", "died"}
          /\ LeavesCall(j)
          /\ UNCHANGED <<job, run, topic, record>>
      BY <1>0, <1>5 DEF CallFails, Dies, TypeInv, TypeOK
    <2>0. \A k \in Job \ {j} : stage'[k] = stage[k] /\ cause'[k] = cause[k]
      BY <1>0, <1>5 DEF CallFails, Dies
    <2>2. OthersStay(j)
      <3> SUFFICES ASSUME NEW k \in Job \ {j}
                   PROVE  /\ stage'[k] = stage[k] /\ job'[k] = job[k] /\ run'[k] = run[k]
                          /\ topic'[k] = topic[k] /\ record'[k] = record[k]
                          /\ cause'[k] = cause[k]
                          /\ LatePublish(k)' <=> LatePublish(k)
                          /\ LateRecord(k)' <=> LateRecord(k)
        BY DEF OthersStay
      <3>1. LatePublish(k)' <=> LatePublish(k)
        BY <2>1, LeavesOthers
      <3>2. LateRecord(k)' <=> LateRecord(k)
        BY <2>1, LeavesOthers
      <3> QED
        BY <2>0, <2>1, <3>1, <3>2
    <2>3. /\ LatePublish(j)' => stage[j] = "publish"
          /\ LateRecord(j)' => stage[j] = "record"
      BY <2>1, NoneLate, LeavesOnly
    <2>4. ContentOf(j)' = ContentOf(j)
      BY <2>1 DEF ContentOf
    <2>5. stage[j] \in {"publish", "record"} => Excused(j)'
      BY <2>1 DEF Excused
    <2>6. stage[j] = "record" => topic[j] # Nothing
      BY <1>0, ContentIsTyped DEF InPlace
    <2> QED
      BY <1>0, <2>1, <2>2, <2>3, <2>4, <2>5, <2>6 DEF InPlace
  <1> QED
    BY <1>1, <1>2, <1>3, <1>4, <1>5

LEMMA LatePlaces ==
  ASSUME TypeInv, PlaceInv, NEW c \in late, ArrivesLate(c)
  PROVE  /\ c.by \in Job /\ stage[c.by] \in {"failed", "dead"}
         /\ OthersStay(c.by) /\ InPlace(c.by)'
  <1> DEFINE j == c.by
  <1>0. /\ j \in Job /\ stage[j] \in {"failed", "dead"} /\ InPlace(j)
        /\ c = [by |-> j, call |-> c.call] /\ c.call \in {"publish", "record"}
        /\ DOMAIN topic = Job /\ DOMAIN record = Job
        /\ ContentOf(j) # Nothing
    <2>1. /\ j \in Job /\ stage[j] \in {"failed", "dead"}
          /\ c = [by |-> j, call |-> c.call] /\ c.call \in {"publish", "record"}
          /\ DOMAIN topic = Job /\ DOMAIN record = Job
      BY DEF TypeInv, TypeOK
    <2> QED
      BY <2>1, ContentIsTyped DEF PlaceInv
  <1>1. UNCHANGED <<stage, job, run, cause>> /\ late' = late \ {c}
    BY DEF ArrivesLate, jobVars
  <1>2. /\ LatePublish(j)' => LatePublish(j) /\ c.call = "record"
        /\ LateRecord(j)' => LateRecord(j) /\ c.call = "publish"
    BY <1>0, <1>1 DEF LatePublish, LateRecord
  <1>7. \A k \in Job \ {j} : topic'[k] = topic[k] /\ record'[k] = record[k]
    BY <1>0 DEF ArrivesLate
  <1>3. OthersStay(j)
    <2> SUFFICES ASSUME NEW k \in Job \ {j}
                 PROVE  /\ stage'[k] = stage[k] /\ job'[k] = job[k] /\ run'[k] = run[k]
                        /\ topic'[k] = topic[k] /\ record'[k] = record[k]
                        /\ cause'[k] = cause[k]
                        /\ LatePublish(k)' <=> LatePublish(k)
                        /\ LateRecord(k)' <=> LateRecord(k)
      BY DEF OthersStay
    <2>1. LatePublish(k)' <=> LatePublish(k)
      BY <1>0, <1>1 DEF LatePublish
    <2>2. LateRecord(k)' <=> LateRecord(k)
      BY <1>0, <1>1 DEF LateRecord
    <2> QED
      BY <1>1, <1>7, <2>1, <2>2
  <1>4. ContentOf(j)' = ContentOf(j) /\ (Excused(j)' <=> Excused(j))
    BY <1>1 DEF ContentOf, Excused
  <1>5. CASE c.call = "publish"
    <2>1. topic'[j] = ContentOf(j) /\ record' = record /\ LatePublish(j)
      BY <1>0, <1>5 DEF ArrivesLate, LatePublish
    <2> QED
      BY <1>0, <1>1, <1>2, <1>3, <1>4, <1>5, <2>1 DEF InPlace
  <1>6. CASE c.call = "record"
    <2>1. record'[j] = ContentOf(j) /\ topic' = topic /\ LateRecord(j)
      BY <1>0, <1>6 DEF ArrivesLate, LateRecord
    <2> QED
      BY <1>0, <1>1, <1>2, <1>3, <1>4, <1>6, <2>1 DEF InPlace
  <1> QED
    BY <1>0, <1>3, <1>5, <1>6

\* The steps that are not of a job's handler leave its place alone.
LEMMA OthersPlaces ==
  ASSUME UNCHANGED <<stage, job, run, topic, record, cause, late>>, PlaceInv
  PROVE  PlaceInv'
  BY DEF PlaceInv, InPlace, ContentOf, Excused, LatePublish, LateRecord

LEMMA PlaceInit == Init => PlaceInv
  BY DEF Init, PlaceInv, InPlace, LatePublish, LateRecord

LEMMA PlaceStep == TypeInv /\ PlaceInv /\ [Next]_vars => PlaceInv'
  <1> SUFFICES ASSUME TypeInv, PlaceInv, [Next]_vars
               PROVE  PlaceInv'
    OBVIOUS
  <1>1. ASSUME NEW j \in Job,
               \/ Arrives(j) \/ Admit(j) \/ Refuse(j) \/ ReadConfig(j) \/ ReadImage(j)
               \/ Publish(j) \/ Record(j) \/ RecordInvalid(j) \/ CallFails(j) \/ Dies(j)
        PROVE  PlaceInv'
    BY <1>1, JobPlaces, Stays DEF PlaceInv
  <1>2. ASSUME NEW c \in late, ArrivesLate(c)
        PROVE  PlaceInv'
    BY <1>2, LatePlaces, Stays DEF PlaceInv
  <1>3. ASSUME NEW s \in Stopper,
               \/ \E j \in Job : StopArrives(s, j)
               \/ FetchTestRun(s) \/ StopAdmit(s) \/ StopRefuse(s)
               \/ StopPublish(s) \/ StopFails(s)
        PROVE  PlaceInv'
    <2>1. UNCHANGED <<stage, job, run, topic, record, cause, late>>
      BY <1>3 DEF StopArrives, FetchTestRun, StopAdmit, StopRefuse, StopPublish, StopFails,
           jobVars, portalVars, listed
    <2> QED
      BY <2>1, OthersPlaces
  <1>4. ASSUME \/ \E e \in EnvAsked : NewConfig(e)
               \/ NewImage \/ AllOver \/ UNCHANGED vars
               \/ \E j \in Job : TaskStarts(j) \/ Links(j)
        PROVE  PlaceInv'
    <2>1. UNCHANGED <<stage, job, run, topic, record, cause, late>>
      BY <1>4 DEF NewConfig, NewImage, AllOver, TaskStarts, Links, vars, jobVars, portalVars, listed
    <2> QED
      BY <2>1, OthersPlaces
  <1> QED
    BY <1>1, <1>2, <1>3, <1>4 DEF Next

LEMMA AlwaysInPlace == Spec => [](TypeInv /\ PlaceInv)
  BY TypeInit, TypeStep, PlaceInit, PlaceStep, PTL DEF Spec

\* A job that runs without the portal's knowledge has a reason its user was told.
THEOREM UnknownExplained == Spec => []UnknownIsExplained
  <1>1. TypeInv /\ PlaceInv => UnknownIsExplained
    <2> SUFFICES ASSUME TypeInv, PlaceInv, NEW j \in Job
                 PROVE  /\ stage[j] = "ok" => topic[j] # Nothing /\ record[j] # Nothing
                        /\ stage[j] = "refused" => topic[j] = Nothing /\ Settled(j)
                        /\ topic[j] # Nothing /\ record[j] = Nothing /\ Settled(j) =>
                             /\ stage[j] \in {"failed", "dead"}
                             /\ cause[j] \in {"publish", "record", "sha", "died"}
                             /\ cause[j] = "sha" => run[j].config \in OddConfig
      BY DEF UnknownIsExplained
    <2>1. InPlace(j)
      BY DEF PlaceInv
    <2>2. stage[j] = "ok" => topic[j] # Nothing /\ record[j] # Nothing
      BY <2>1, ContentIsTyped DEF InPlace
    <2>3. stage[j] = "refused" => topic[j] = Nothing /\ Settled(j)
      BY <2>1 DEF InPlace, Settled, Over, TypeInv
    <2>4. topic[j] # Nothing /\ record[j] = Nothing /\ Over(j) =>
            stage[j] \in {"failed", "dead"} /\ Excused(j)
      BY <2>1, <2>2 DEF InPlace, Over
    <2> QED
      BY <2>2, <2>3, <2>4 DEF Settled, Excused
  <1> QED
    BY <1>1, AlwaysInPlace, PTL

-----------------------------------------------------------------------------
(* The versions of a run. *)

\* A job that has a configuration has arrived.
LEMMA HasArrived ==
  ASSUME TypeInv, PlaceInv, NEW k \in Job, HasConfig(k) \/ HasImage(k)
  PROVE  stage[k] # "none"
  BY DEF PlaceInv, InPlace, HasConfig, HasImage

\* What is fresh stays so while versions only grow.
LEMMA FreshStays ==
  ASSUME TypeInv, PlaceInv, NEW k \in Job, Fresh(k),
         job'[k] = job[k], run'[k] = run[k], before'[k] = before[k],
         stage[k] = "none" => stage'[k] = "none" /\ ~HasConfig(k)' /\ ~HasImage(k)',
         HasConfig(k)' => HasConfig(k),
         HasImage(k)' => HasImage(k),
         \A e \in EnvAsked : config'[e] \in Nat /\ config[e] <= config'[e],
         image' \in Nat /\ image <= image'
  PROVE  Fresh(k)'
  <1>1. CASE stage[k] = "none"
    BY <1>1 DEF Fresh
  <1>2. CASE stage[k] # "none"
    <2>1. job[k].env \in EnvAsked
      BY <1>2 DEF TypeInv, JobAsked
    <2>2. /\ config[job[k].env] \in Nat /\ config'[job[k].env] \in Nat
          /\ config[job[k].env] <= config'[job[k].env]
          /\ image \in Nat /\ image' \in Nat
      BY <2>1, VersionAssumption DEF TypeInv, TypeOK
    <2> QED
      BY <1>2, <2>2 DEF Fresh
  <1> QED
    BY <1>1, <1>2

LEMMA JobFresh ==
  ASSUME TypeInv, PlaceInv, FreshInv, NEW j \in Job,
         \/ Arrives(j) \/ Admit(j) \/ Refuse(j) \/ ReadConfig(j) \/ ReadImage(j)
         \/ Publish(j) \/ Record(j) \/ RecordInvalid(j) \/ CallFails(j) \/ Dies(j)
  PROVE  FreshInv'
  <1> USE DEF Step, Fails, stopVars, portalVars, listed
  <1>0. /\ Fresh(j) /\ InPlace(j)
        /\ DOMAIN stage = Job /\ DOMAIN job = Job /\ DOMAIN run = Job
        /\ DOMAIN topic = Job /\ DOMAIN before = Job
        /\ UNCHANGED <<config, image>>
        /\ \A e \in EnvAsked : config[e] \in Nat
        /\ image \in Nat
    BY VersionAssumption DEF FreshInv, PlaceInv, TypeInv, TypeOK, Arrives, Admit, Refuse,
         ReadConfig, ReadImage, Publish, Record, RecordInvalid, CallFails, Dies
  <1>1. OthersStay(j)
    BY JobPlaces
  <1>2. \A k \in Job \ {j} : before'[k] = before[k]
    BY <1>0 DEF Arrives, Admit, Refuse,
         ReadConfig, ReadImage, Publish, Record, RecordInvalid, CallFails, Dies
  <1>3. ASSUME NEW k \in Job \ {j}
        PROVE  Fresh(k)'
    <2>1. /\ stage'[k] = stage[k] /\ job'[k] = job[k] /\ run'[k] = run[k]
          /\ before'[k] = before[k] /\ Fresh(k)
      BY <1>1, <1>2 DEF OthersStay, FreshInv
    <2>2. HasConfig(k)' <=> HasConfig(k)
      BY <1>1 DEF OthersStay, HasConfig
    <2>3. HasImage(k)' <=> HasImage(k)
      BY <1>1 DEF OthersStay, HasImage
    <2>4. stage[k] = "none" => ~HasConfig(k) /\ ~HasImage(k)
      BY HasArrived
    <2> QED
      BY <1>0, <2>1, <2>2, <2>3, <2>4, FreshStays
  <1>4. Fresh(j)'
    <2>1. CASE Arrives(j)
      <3>1. PICK a \in Asks[j] :
              /\ job'[j] = a
              /\ before'[j] = [config |-> config[a.env], image |-> image]
        BY <1>0, <2>1 DEF Arrives
      <3>2. a.env \in EnvAsked
        BY AsksAssumption DEF JobAsked
      <3>3. /\ stage[j] = "none" /\ stage'[j] \in {"admit", "config"}
            /\ UNCHANGED <<topic, late>>
        BY <1>0, <2>1 DEF Arrives
      <3>4. ~HasConfig(j)' /\ ~HasImage(j)'
        BY <1>0, <3>3 DEF InPlace, HasConfig, HasImage, LatePublish
      <3> QED
        BY <1>0, <3>1, <3>2, <3>3, <3>4 DEF Fresh
    <2>2. CASE ReadConfig(j) \/ ReadImage(j)
      <3>1. /\ stage[j] \in {"config", "image"} /\ UNCHANGED <<topic, late, job, before>>
            /\ topic[j] = Nothing /\ ~LatePublish(j)
            /\ stage[j] = "config" => ReadConfig(j)
            /\ stage[j] = "image" => ReadImage(j)
        BY <1>0, <2>2 DEF ReadConfig, ReadImage, InPlace
      <3>2. ~LatePublish(j)'
        BY <3>1 DEF LatePublish
      <3>3. job[j].env \in EnvAsked /\ run[j] \in Run
        BY <3>1 DEF TypeInv, TypeOK, JobAsked
      <3>4. CASE stage[j] = "config"
        <4>1. \/ /\ stage'[j] = "image" /\ config[job[j].env] # 0
                 /\ run'[j] = [run[j] EXCEPT !.config = config[job[j].env]]
              \/ stage'[j] = "failed"
          BY <1>0, <3>1, <3>4 DEF ReadConfig
        <4>2. stage'[j] = "image" => run'[j].config = config[job[j].env]
          BY <3>3, <4>1 DEF Run
        <4> QED
          BY <1>0, <3>1, <3>2, <3>3, <3>4, <4>1, <4>2 DEF Fresh, HasConfig, HasImage
      <3>5. CASE stage[j] = "image"
        <4>1. \/ /\ stage'[j] = "publish" /\ image # 0
                 /\ run'[j] = [run[j] EXCEPT !.image = image]
              \/ stage'[j] = "failed"
          BY <1>0, <3>1, <3>5 DEF ReadImage
        <4>2. stage'[j] = "publish" =>
                run'[j].image = image /\ run'[j].config = run[j].config
          BY <3>3, <4>1 DEF Run
        <4> QED
          BY <1>0, <3>1, <3>2, <3>3, <3>5, <4>1, <4>2 DEF Fresh, HasConfig, HasImage
      <3> QED
        BY <3>1, <3>4, <3>5
    <2>3. CASE \/ Admit(j) \/ Refuse(j) \/ Publish(j) \/ Record(j) \/ RecordInvalid(j)
               \/ CallFails(j) \/ Dies(j)
      <3>1. UNCHANGED <<job, run, before>> /\ stage[j] # "none"
        BY <2>3 DEF Admit, Refuse, Publish, Record, RecordInvalid, CallFails, Dies
      <3>2. CASE job[j].kind # "test"
        BY <1>0, <3>1, <3>2 DEF Fresh
      <3>3. CASE job[j].kind = "test"
        <4>1. \/ stage'[j] \in {"config", "failed", "dead", "refused"} /\ UNCHANGED topic
              \/ stage[j] = "publish" /\ stage'[j] = "record"
              \/ stage[j] = "record" /\ stage'[j] = "ok"
          BY <1>0, <2>3, <3>3 DEF Admit, Refuse, Publish, Record, RecordInvalid, CallFails, Dies
        <4>2. LatePublish(j)' => LatePublish(j) \/ stage[j] = "publish"
          BY <2>3, LeavesOnly DEF Admit, Refuse, Publish, Record, RecordInvalid, CallFails, Dies,
               LatePublish
        <4>3. HasConfig(j)' => HasConfig(j)
          BY <4>1, <4>2 DEF HasConfig
        <4>4. HasImage(j)' => HasImage(j)
          BY <4>1, <4>2 DEF HasImage
        <4> QED
          BY <1>0, <3>1, <4>3, <4>4, FreshStays
      <3> QED
        BY <3>2, <3>3
    <2> QED
      BY <2>1, <2>2, <2>3
  <1> QED
    BY <1>3, <1>4 DEF FreshInv

\* The steps that are of no job's handler.
LEMMA OtherFresh ==
  ASSUME TypeInv, PlaceInv, FreshInv,
         UNCHANGED <<stage, job, run, before>>,
         \A k \in Job : (HasConfig(k)' => HasConfig(k)) /\ (HasImage(k)' => HasImage(k)),
         \A e \in EnvAsked : config'[e] \in Nat /\ config[e] <= config'[e],
         image' \in Nat /\ image <= image'
  PROVE  FreshInv'
  <1> SUFFICES ASSUME NEW k \in Job
               PROVE  Fresh(k)'
    BY DEF FreshInv
  <1>1. stage[k] = "none" => ~HasConfig(k) /\ ~HasImage(k)
    BY HasArrived
  <1> QED
    BY <1>1, FreshStays DEF FreshInv

LEMMA FreshInit == Init => FreshInv
  <1> SUFFICES ASSUME Init, NEW j \in Job
               PROVE  Fresh(j)
    BY DEF FreshInv
  <1>1. stage[j] = "none" /\ job[j].kind = "none"
    BY DEF Init, NoJob
  <1>2. before[j].config = 0 /\ before[j].image = 0
    BY DEF Init, NoRun
  <1> QED
    BY <1>1, <1>2 DEF Fresh

LEMMA FreshStep == TypeInv /\ PlaceInv /\ FreshInv /\ [Next]_vars => FreshInv'
  <1> SUFFICES ASSUME TypeInv, PlaceInv, FreshInv, [Next]_vars
               PROVE  FreshInv'
    OBVIOUS
  <1>0. /\ \A e \in EnvAsked : config[e] \in Nat
        /\ image \in Nat
        /\ DOMAIN config = EnvAsked /\ DOMAIN topic = Job
    BY VersionAssumption DEF TypeInv, TypeOK
  <1>1. ASSUME NEW j \in Job,
               \/ Arrives(j) \/ Admit(j) \/ Refuse(j) \/ ReadConfig(j) \/ ReadImage(j)
               \/ Publish(j) \/ Record(j) \/ RecordInvalid(j) \/ CallFails(j) \/ Dies(j)
        PROVE  FreshInv'
    BY <1>1, JobFresh
  <1>2. ASSUME NEW c \in late, ArrivesLate(c)
        PROVE  FreshInv'
    <2>1. /\ UNCHANGED <<stage, job, run, before, config, image>> /\ late' = late \ {c}
          /\ c.by \in Job /\ c = [by |-> c.by, call |-> c.call]
          /\ \A k \in Job : topic'[k] = topic[k] \/ (k = c.by /\ c.call = "publish")
      BY <1>0, <1>2 DEF ArrivesLate, TypeInv, TypeOK, jobVars, listed
    <2>2. ASSUME NEW k \in Job
          PROVE  /\ HasConfig(k)' => HasConfig(k)
                 /\ HasImage(k)' => HasImage(k)
      BY <2>1 DEF HasConfig, HasImage, LatePublish
    <2> QED
      BY <1>0, <2>1, <2>2, OtherFresh
  <1>3. ASSUME NEW s \in Stopper,
               \/ \E j \in Job : StopArrives(s, j)
               \/ FetchTestRun(s) \/ StopAdmit(s) \/ StopRefuse(s)
               \/ StopPublish(s) \/ StopFails(s)
        PROVE  FreshInv'
    <2>1. UNCHANGED <<stage, job, run, before, topic, late, config, image>>
      BY <1>3 DEF StopArrives, FetchTestRun, StopAdmit, StopRefuse, StopPublish, StopFails,
           jobVars, portalVars, listed
    <2> QED
      BY <2>1 DEF FreshInv, Fresh, HasConfig, HasImage, LatePublish
  <1>4. ASSUME NEW e \in EnvAsked, NewConfig(e)
        PROVE  FreshInv'
    <2>1. UNCHANGED <<stage, job, run, before, topic, late, image>>
      BY <1>4 DEF NewConfig, jobVars
    <2>2. \A f \in EnvAsked : config'[f] \in Nat /\ config[f] <= config'[f]
      BY <1>0, <1>4 DEF NewConfig
    <2>3. ASSUME NEW k \in Job
          PROVE  (HasConfig(k)' => HasConfig(k)) /\ (HasImage(k)' => HasImage(k))
      BY <2>1 DEF HasConfig, HasImage, LatePublish
    <2> QED
      BY <1>0, <2>1, <2>2, <2>3, OtherFresh
  <1>5. CASE NewImage
    <2>1. UNCHANGED <<stage, job, run, before, topic, late, config>> /\ image' = image + 1
      BY <1>5 DEF NewImage, jobVars
    <2>2. image' \in Nat /\ image <= image'
      BY <1>0, <2>1
    <2>3. ASSUME NEW k \in Job
          PROVE  (HasConfig(k)' => HasConfig(k)) /\ (HasImage(k)' => HasImage(k))
      BY <2>1 DEF HasConfig, HasImage, LatePublish
    <2> QED
      BY <1>0, <2>1, <2>2, <2>3, OtherFresh
  <1>6. ASSUME AllOver \/ UNCHANGED vars \/ \E j \in Job : TaskStarts(j) \/ Links(j)
        PROVE  FreshInv'
    <2>1. UNCHANGED <<stage, job, run, before, topic, late, config, image>>
      BY <1>6 DEF AllOver, TaskStarts, Links, vars, jobVars, portalVars, listed
    <2> QED
      BY <2>1 DEF FreshInv, Fresh, HasConfig, HasImage, LatePublish
  <1> QED
    BY <1>1, <1>2, <1>3, <1>4, <1>5, <1>6 DEF Next

\* A run has an image because it had one, or because it reads it now.
LEMMA ImageIsRead ==
  ASSUME TypeInv, PlaceInv, [Next]_vars, NEW k \in Job, job'[k].kind = "test", HasImage(k)'
  PROVE  \/ job'[k] = job[k] /\ run'[k] = run[k] /\ HasImage(k)
         \/ ReadImage(k)
  <1> USE DEF Step, Fails
  <1>0. /\ DOMAIN stage = Job /\ DOMAIN job = Job /\ DOMAIN run = Job /\ DOMAIN topic = Job
        /\ InPlace(k)
    BY DEF TypeInv, TypeOK, PlaceInv
  <1>1. ASSUME NEW j \in Job, j # k,
               \/ Arrives(j) \/ Admit(j) \/ Refuse(j) \/ ReadConfig(j) \/ ReadImage(j)
               \/ Publish(j) \/ Record(j) \/ RecordInvalid(j) \/ CallFails(j) \/ Dies(j)
        PROVE  job'[k] = job[k] /\ run'[k] = run[k] /\ HasImage(k)
    <2>1. OthersStay(j)
      BY <1>1, JobPlaces
    <2> QED
      BY <1>1, <2>1 DEF OthersStay, HasImage
  <1>2. ASSUME Arrives(k) \/ ReadConfig(k)
        PROVE  FALSE
    <2>1. /\ stage[k] \in {"none", "config"} /\ stage'[k] \in {"admit", "config", "image", "failed"}
          /\ UNCHANGED <<topic, late>>
      BY <1>0, <1>2 DEF Arrives, ReadConfig
    <2> QED
      BY <1>0, <2>1 DEF InPlace, HasImage, LatePublish
  <1>3. ASSUME \/ Admit(k) \/ Refuse(k) \/ Publish(k) \/ Record(k) \/ RecordInvalid(k)
               \/ CallFails(k) \/ Dies(k)
        PROVE  job'[k] = job[k] /\ run'[k] = run[k] /\ HasImage(k)
    <2>1. UNCHANGED <<job, run>>
      BY <1>3 DEF Admit, Refuse, Publish, Record, RecordInvalid, CallFails, Dies
    <2>2. \/ stage'[k] \in {"config", "failed", "dead", "refused"} /\ UNCHANGED topic
          \/ stage[k] \in {"publish", "record"}
      BY <1>0, <1>3, <2>1 DEF Admit, Refuse, Publish, Record, RecordInvalid, CallFails, Dies
    <2>3. LatePublish(k)' => LatePublish(k) \/ stage[k] = "publish"
      BY <1>3, LeavesOnly DEF Admit, Refuse, Publish, Record, RecordInvalid, CallFails, Dies,
           LatePublish
    <2> QED
      BY <2>1, <2>2, <2>3 DEF HasImage
  <1>4. ASSUME NEW c \in late, ArrivesLate(c)
        PROVE  job'[k] = job[k] /\ run'[k] = run[k] /\ HasImage(k)
    <2>1. /\ UNCHANGED <<stage, job, run>> /\ late' = late \ {c}
          /\ c.by \in Job /\ c = [by |-> c.by, call |-> c.call]
          /\ topic'[k] = topic[k] \/ (k = c.by /\ c.call = "publish")
      BY <1>0, <1>4 DEF ArrivesLate, TypeInv, TypeOK, jobVars
    <2> QED
      BY <2>1 DEF HasImage, LatePublish
  <1>5. CASE UNCHANGED <<stage, job, run, topic, late>>
    BY <1>5 DEF HasImage, LatePublish
  <1>6. ASSUME NEW s \in Stopper,
               \/ \E j \in Job : StopArrives(s, j)
               \/ FetchTestRun(s) \/ StopAdmit(s) \/ StopRefuse(s)
               \/ StopPublish(s) \/ StopFails(s)
        PROVE  UNCHANGED <<stage, job, run, topic, late>>
    BY <1>6 DEF StopArrives, FetchTestRun, StopAdmit, StopRefuse, StopPublish, StopFails, jobVars
  <1>7. ASSUME \/ \E e \in EnvAsked : NewConfig(e)
               \/ NewImage \/ AllOver \/ UNCHANGED vars
               \/ \E j \in Job : TaskStarts(j) \/ Links(j)
        PROVE  UNCHANGED <<stage, job, run, topic, late>>
    BY <1>7 DEF NewConfig, NewImage, AllOver, TaskStarts, Links, vars, jobVars
  <1> QED
    BY <1>1, <1>2, <1>3, <1>4, <1>5, <1>6, <1>7 DEF Next

\* Images only grow, and of what was the latest when a configuration was made only
\* that of the next one is new.
LEMMA ListGrows ==
  ASSUME TypeInv, [Next]_vars
  PROVE  /\ image' \in Nat /\ image \in Nat /\ image <= image'
         /\ \A e \in EnvAsked : \A v \in Version :
              /\ config'[e] \in Nat /\ config[e] \in Nat /\ v \in Nat
              /\ madeWith[e][v] \in Nat
              /\ v <= config[e] => madeWith'[e][v] = madeWith[e][v]
              /\ v > config[e] /\ v <= config'[e] => madeWith'[e][v] = image
  <1>0. /\ image \in Nat /\ \A e \in EnvAsked : config[e] \in Nat
        /\ DOMAIN config = EnvAsked
        /\ madeWith \in [EnvAsked -> [Version -> Nat]]
        /\ Version \subseteq Nat
    BY VersionAssumption, VersionIsTyped DEF TypeInv, TypeOK
  <1>1. ASSUME NEW f \in EnvAsked, NewConfig(f), NEW e \in EnvAsked, NEW v \in Version
        PROVE  /\ config'[e] \in Nat
               /\ v <= config[e] => madeWith'[e][v] = madeWith[e][v]
               /\ v > config[e] /\ v <= config'[e] => madeWith'[e][v] = image
    <2>1. /\ config'[e] = IF e = f THEN config[e] + 1 ELSE config[e]
          /\ madeWith' = [madeWith EXCEPT ![f][config[f] + 1] = image]
      BY <1>0, <1>1 DEF NewConfig
    <2>2. madeWith'[e][v] = IF e = f /\ v = config[f] + 1 THEN image ELSE madeWith[e][v]
      BY <1>0, <2>1
    <2> QED
      BY <1>0, <2>1, <2>2
  <1>2. ASSUME NEW f \in EnvAsked, NewConfig(f)
        PROVE  UNCHANGED image
    BY <1>2 DEF NewConfig
  <1>3. CASE NewImage
    BY <1>0, <1>3 DEF NewImage
  <1>4. CASE UNCHANGED <<config, image, madeWith>>
    BY <1>0, <1>4
  <1>5. UNCHANGED listed \/ NewImage \/ \E f \in EnvAsked : NewConfig(f)
    BY DEF Next, Arrives, Admit, Refuse, ReadConfig, ReadImage,
         Publish, Record, RecordInvalid, CallFails, Dies, StopArrives, FetchTestRun, StopAdmit,
         StopRefuse, StopPublish, StopFails, ArrivesLate, TaskStarts, Links, AllOver, vars
  <1>6. CASE \E f \in EnvAsked : NewConfig(f)
    <2>1. PICK f \in EnvAsked : NewConfig(f)
      BY <1>6
    <2>2. image' = image
      BY <1>2, <2>1
    <2> QED
      BY <1>0, <1>1, <2>1, <2>2
  <1> QED
    BY <1>3, <1>4, <1>5, <1>6 DEF listed

LEMMA PairInit == Init => PairInv
  <1> SUFFICES ASSUME Init
               PROVE  PairInv
    OBVIOUS
  <1>1. \A e \in EnvAsked : \A v \in Version : madeWith[e][v] = 0
    BY DEF Init
  <1>2. \A j \in Job : job[j].kind = "none"
    BY DEF Init, NoJob
  <1>3. image = 0
    BY DEF Init
  <1> QED
    BY <1>1, <1>2, <1>3 DEF PairInv, Paired

LEMMA PairStep == TypeInv /\ PlaceInv /\ FreshInv /\ PairInv /\ [Next]_vars => PairInv'
  <1> SUFFICES ASSUME TypeInv, PlaceInv, FreshInv, PairInv, [Next]_vars
               PROVE  PairInv'
    OBVIOUS
  <1>1. ASSUME NEW e \in EnvAsked, NEW v \in Version, v <= config'[e]
        PROVE  madeWith'[e][v] <= image'
    BY <1>1, ListGrows DEF PairInv
  <1>2. ASSUME NEW k \in Job, job'[k].kind = "test", HasImage(k)'
        PROVE  run'[k].image >= madeWith'[job'[k].env][run'[k].config]
    <2>1. TypeInv' /\ stage'[k] # "none"
      BY <1>2, TypeStep, PlaceStep DEF PlaceInv, InPlace, HasImage
    <2>2. job'[k].env \in EnvAsked /\ run'[k] \in Run
      BY <2>1 DEF TypeInv, TypeOK, JobAsked
    <2>3. run'[k].config \in Version /\ run'[k].image \in Nat
      BY <2>2, VersionAssumption DEF Run
    <2>4. CASE job'[k] = job[k] /\ run'[k] = run[k] /\ HasImage(k)
      <3>1. HasConfig(k)
        BY <2>4 DEF HasConfig, HasImage
      <3>2. run[k].config <= config[job[k].env]
        BY <1>2, <2>2, <2>3, <2>4, <3>1, ListGrows DEF FreshInv, Fresh
      <3>3. run[k].image >= madeWith[job[k].env][run[k].config]
        BY <1>2, <2>4 DEF PairInv, Paired
      <3> QED
        BY <2>2, <2>3, <2>4, <3>2, <3>3, ListGrows
    <2>5. CASE ReadImage(k)
      <3>1. /\ stage[k] = "image" /\ topic[k] = Nothing /\ ~LatePublish(k)
            /\ UNCHANGED <<job, topic, late, config, image, madeWith>>
        BY <2>5 DEF ReadImage, PlaceInv, InPlace, listed
      <3>2. stage'[k] = "publish"
        BY <1>2, <2>5, <3>1 DEF ReadImage, HasImage, LatePublish, Fails, Step, TypeInv, TypeOK
      <3>3. run'[k].image = image /\ run'[k].config = run[k].config
        BY <2>5, <3>2 DEF ReadImage, Fails, Step, Run, TypeInv, TypeOK
      <3>4. HasConfig(k)
        BY <3>1 DEF HasConfig
      <3>5. run[k].config <= config[job[k].env]
        BY <1>2, <2>2, <2>3, <3>1, <3>3, <3>4, ListGrows DEF FreshInv, Fresh
      <3>6. madeWith[job[k].env][run[k].config] <= image
        BY <2>2, <2>3, <3>1, <3>3, <3>5 DEF PairInv
      <3> QED
        BY <2>2, <2>3, <3>1, <3>3, <3>6, ListGrows
    <2> QED
      BY <1>2, <2>4, <2>5, ImageIsRead
  <1> QED
    BY <1>1, <1>2 DEF PairInv, Paired

\* A run has a configuration of its environment and an image that were the latest
\* at some moment since it was asked for, and no configuration is run with an image
\* older than the one there was when it was made.
THEOREM NothingOlder == Spec => []RunsNothingOlder
  <1>1. Spec => [](FreshInv /\ PairInv)
    BY AlwaysInPlace, FreshInit, FreshStep, PairInit, PairStep, PTL DEF Spec
  <1>2. TypeInv /\ PlaceInv /\ FreshInv /\ PairInv => RunsNothingOlder
    <2> SUFFICES ASSUME TypeInv, PlaceInv, FreshInv, PairInv,
                        NEW j \in Job, topic[j].kind = "test"
                 PROVE  /\ topic[j].run.config \in before[j].config..config[topic[j].env]
                        /\ topic[j].run.image \in before[j].image..image
                        /\ topic[j].run.config # 0 /\ topic[j].run.image # 0
                        /\ topic[j].run.image >= madeWith[topic[j].env][topic[j].run.config]
      BY DEF RunsNothingOlder
    <2>1. topic[j] # Nothing /\ topic[j] = ContentOf(j)
      BY DEF PlaceInv, InPlace, Nothing
    <2>2. job[j].kind = "test" /\ topic[j].run = run[j] /\ topic[j].env = job[j].env
      BY <2>1 DEF ContentOf
    <2>3. HasConfig(j) /\ HasImage(j)
      BY <2>1 DEF HasConfig, HasImage
    <2> QED
      BY <2>2, <2>3 DEF FreshInv, Fresh, PairInv, Paired
  <1> QED
    BY <1>1, <1>2, AlwaysInPlace, PTL

-----------------------------------------------------------------------------
(* Stopping. *)

LEMMA StoppingInit == Init => StopInv
  BY DEF Init, StopInv, Stops, NoStop

\* What has been published and recorded stays.
LEMMA Remains ==
  ASSUME TypeInv, PlaceInv, [Next]_vars, NEW j \in Job
  PROVE  /\ topic[j] # Nothing => topic'[j] = topic[j]
         /\ record[j] # Nothing => record'[j] = record[j]
         /\ record'[j] = record[j] \/ (record[j] = Nothing /\ topic[j] # Nothing /\ record'[j] = topic[j])
         /\ topic'[j] = topic[j] \/ (topic[j] = Nothing /\ topic'[j] \in Content)
  <1>0. DOMAIN topic = Job /\ DOMAIN record = Job /\ InPlace(j)
    BY DEF TypeInv, TypeOK, PlaceInv
  <1>1. ASSUME NEW k \in Job, Publish(k)
        PROVE  topic'[j] = topic[j] \/ (topic[j] = Nothing /\ topic'[j] \in Content)
    BY <1>0, <1>1, ContentIsTyped DEF Publish, InPlace
  <1>2. ASSUME NEW k \in Job, Record(k)
        PROVE  record'[j] = record[j]
                 \/ (record[j] = Nothing /\ topic[j] # Nothing /\ record'[j] = topic[j])
    <2>1. j = k => topic[j] = ContentOf(j) /\ record[j] = Nothing /\ ContentOf(j) # Nothing
      BY <1>0, <1>2, ContentIsTyped DEF Record, InPlace
    <2> QED
      BY <1>0, <1>2, <2>1 DEF Record
  <1>3. ASSUME NEW c \in late, ArrivesLate(c)
        PROVE  /\ topic'[j] = topic[j] \/ (topic[j] = Nothing /\ topic'[j] \in Content)
               /\ record'[j] = record[j]
                    \/ (record[j] = Nothing /\ topic[j] # Nothing /\ record'[j] = topic[j])
    <2>1. /\ c.by \in Job /\ c = [by |-> c.by, call |-> c.call]
          /\ stage[c.by] # "none"
      BY DEF TypeInv, TypeOK
    <2>2. j = c.by => /\ c.call = "publish" => topic[j] = Nothing /\ record[j] = Nothing
                      /\ c.call = "record" => topic[j] # Nothing /\ record[j] = Nothing
      BY <1>0, <2>1 DEF InPlace, LatePublish, LateRecord
    <2>3. j = c.by /\ topic[j] # Nothing => topic[j] = ContentOf(j)
      BY <1>0 DEF InPlace
    <2>4. ContentOf(c.by) \in Content
      BY <2>1, ContentIsTyped
    <2> QED
      BY <1>0, <1>3, <2>1, <2>2, <2>3, <2>4 DEF ArrivesLate
  <1>4. CASE UNCHANGED topic
    <2>1. CASE UNCHANGED record
      BY <1>4, <2>1
    <2>2. CASE \E k \in Job : Record(k)
      BY <1>2, <1>4, <2>2
    <2>3. CASE \E c \in late : ArrivesLate(c)
      BY <1>3, <1>4, <2>3
    <2> QED
      BY <2>1, <2>2, <2>3 DEF Next, Arrives, Admit, Refuse, ReadConfig, ReadImage, Publish,
           RecordInvalid, CallFails, Dies, StopArrives, FetchTestRun, StopAdmit, StopRefuse,
           StopPublish, StopFails, NewConfig, NewImage, TaskStarts, Links, AllOver,
           vars, portalVars, listed
  <1>5. CASE \E k \in Job : Publish(k)
    <2>1. UNCHANGED record
      BY <1>5 DEF Publish, portalVars, listed
    <2> QED
      BY <1>1, <1>5, <2>1
  <1>6. CASE \E c \in late : ArrivesLate(c)
    BY <1>3, <1>6
  <1> QED
    BY <1>4, <1>5, <1>6 DEF Next, Arrives, Admit, Refuse, ReadConfig, ReadImage, Record,
         RecordInvalid, CallFails, Dies, StopArrives, FetchTestRun, StopAdmit, StopRefuse,
         StopPublish, StopFails, NewConfig, NewImage, TaskStarts, Links, AllOver,
         vars, portalVars, listed

\* What the steps that are not of a request to stop leave of what it has seen.
LEMMA StopStays ==
  ASSUME TypeInv, PlaceInv, StopInv, [Next]_vars,
         UNCHANGED <<stop, stopping>>,
         linked \subseteq linked' /\ started \subseteq started',
         \A j \in linked' : j \in linked \/ (j \in started /\ record[j] # Nothing),
         \A j \in started' : j \in started \/ topic[j] # Nothing
  PROVE  StopInv'
  <1>0. \A j \in Job : /\ topic[j] # Nothing => topic'[j] = topic[j]
                       /\ record[j] # Nothing => record'[j] = record[j]
    BY Remains
  <1>1. TypeInv'
    BY TypeStep
  <1>2. /\ started' \subseteq Job /\ linked' \subseteq Job
        /\ stopping \subseteq [task : Job, env : EnvAsked]
        /\ \A s \in Stopper : stop[s].stage # "none" => stop[s].of \in Job
    BY <1>1 DEF TypeInv, TypeOK
  <1>3. \A j \in started' : topic'[j] # Nothing
    BY <1>0, <1>2 DEF StopInv
  <1>4. \A j \in linked' : j \in started' /\ record'[j] # Nothing
    BY <1>0, <1>2 DEF StopInv
  <1>5. ASSUME NEW s \in Stopper
        PROVE  Stops(s)'
    BY <1>0, <1>2 DEF StopInv, Stops, StopMessage
  <1>6. ASSUME NEW m \in stopping
        PROVE  Named(m)'
    <2>1. m.task \in Job /\ Named(m)
      BY <1>2 DEF StopInv
    <2> QED
      BY <1>0, <2>1 DEF Named
  <1> QED
    BY <1>3, <1>4, <1>5, <1>6 DEF StopInv

LEMMA StoppingStep == TypeInv /\ PlaceInv /\ StopInv /\ [Next]_vars => StopInv'
  <1> SUFFICES ASSUME TypeInv, PlaceInv, StopInv, [Next]_vars
               PROVE  StopInv'
    OBVIOUS
  <1>1. CASE UNCHANGED <<stop, stopping, linked, started>>
    BY <1>1, StopStays
  <1>2. ASSUME NEW j \in Job, TaskStarts(j) \/ Links(j)
        PROVE  StopInv'
    BY <1>2, StopStays DEF TaskStarts, Links, stopVars, portalVars, listed
  <1>3. ASSUME NEW s \in Stopper,
               \/ \E j \in Job : StopArrives(s, j)
               \/ FetchTestRun(s) \/ StopAdmit(s) \/ StopRefuse(s)
               \/ StopPublish(s) \/ StopFails(s)
        PROVE  StopInv'
    <2>1. /\ UNCHANGED <<record, linked, started, topic>>
          /\ DOMAIN stop = Stopper /\ Stops(s)
          /\ \A q \in Stopper \ {s} : stop'[q] = stop[q]
          /\ stopping' \in {stopping, stopping \cup {StopMessage(s)}}
          /\ stop[s].stage \notin {"ok", "failed"}
      BY <1>3 DEF StopArrives, FetchTestRun, Fetched, StopAdmit, StopRefuse, StopPublish,
           StopFails, StopStep, portalVars, TypeInv, TypeOK, StopInv
    <2>2. ASSUME NEW q \in Stopper \ {s}
          PROVE  Stops(q)'
      BY <2>1 DEF StopInv, Stops, StopMessage
    <2>3. stop[s] \in [stage : {"none", "fetch", "owner", "publish", "ok", "failed", "refused"},
                       of : Job \cup {"none"}, env : EnvAsked \cup {"none"},
                       arn : Job \cup {"none"}]
      BY DEF TypeInv, TypeOK
    <2>4. ASSUME NEW m \in stopping
          PROVE  Named(m)'
      <3>1. PICK q \in Stopper : stop[q].of = m.task /\ stop[q].stage \in {"ok", "failed"}
        BY DEF StopInv, Named
      <3>2. q # s /\ stop'[q] = stop[q]
        BY <2>1, <3>1
      <3> QED
        BY <2>1, <3>1, <3>2 DEF StopInv, Named
    <2>5. CASE \/ \E j \in Job : StopArrives(s, j)
               \/ FetchTestRun(s) \/ StopAdmit(s) \/ StopRefuse(s)
      <3>1. UNCHANGED stopping
        BY <2>5 DEF StopArrives, FetchTestRun, StopAdmit, StopRefuse
      <3>2. CASE \E j \in Job : StopArrives(s, j)
        <4>1. stop'[s].stage = "fetch" /\ stop'[s].arn = "none"
          BY <2>1, <2>3, <3>2 DEF StopArrives, Stops
        <4>2. Stops(s)'
          BY <4>1 DEF Stops
        <4> QED
          BY <2>1, <2>2, <2>4, <3>1, <4>2 DEF StopInv
      <3>3. CASE FetchTestRun(s) \/ StopAdmit(s) \/ StopRefuse(s)
        <4>1. Stops(s)'
          BY <2>1, <2>3, <3>1, <3>3 DEF FetchTestRun, Fetched, StopAdmit, StopRefuse, StopStep,
               Stops, StopMessage
        <4> QED
          BY <2>1, <2>2, <2>4, <3>1, <4>1 DEF StopInv
      <3> QED
        BY <2>5, <3>2, <3>3
    <2>6. CASE StopPublish(s) \/ StopFails(s)
      <3>1. /\ stop[s].stage = "publish" /\ stop'[s].stage \in {"ok", "failed"}
            /\ stop'[s].of = stop[s].of /\ stop'[s].env = stop[s].env
            /\ stop'[s].arn = stop[s].arn
            /\ stop'[s].stage = "ok" => StopMessage(s) \in stopping'
        BY <2>1, <2>3, <2>6 DEF StopPublish, StopFails, StopStep
      <3>2. Stops(s)'
        BY <2>1, <3>1 DEF Stops, StopMessage
      <3>3. /\ stop[s].arn = stop[s].of /\ stop[s].of \in linked /\ stop[s].of \in started
            /\ record[stop[s].of] # Nothing /\ stop[s].env = record[stop[s].of].env
        BY <2>1, <3>1 DEF Stops, StopInv
      <3>4. \A q \in Stopper : Stops(q)'
        BY <2>2, <3>2
      <3>5. \A m \in stopping' : Named(m)'
        <4> SUFFICES ASSUME NEW m \in stopping'
                     PROVE  Named(m)'
          OBVIOUS
        <4>1. CASE m \in stopping
          BY <2>4, <4>1
        <4>2. CASE m = StopMessage(s)
          BY <2>1, <3>1, <3>3, <4>2 DEF Named, StopMessage
        <4> QED
          BY <2>1, <4>1, <4>2
      <3>6. /\ \A j \in started' : topic'[j] # Nothing
            /\ \A j \in linked' : j \in started' /\ record'[j] # Nothing
        BY <2>1 DEF StopInv
      <3> QED
        BY <3>4, <3>5, <3>6 DEF StopInv
    <2> QED
      BY <1>3, <2>5, <2>6
  <1> QED
    BY <1>1, <1>2, <1>3 DEF Next, Arrives, Admit, Refuse, ReadConfig, ReadImage, Publish, Record,
         RecordInvalid, CallFails, Dies, ArrivesLate, NewConfig, NewImage, AllOver,
         vars, portalVars, listed, stopVars

LEMMA AlwaysStops == Spec => [](TypeInv /\ PlaceInv /\ StopInv)
  BY AlwaysInPlace, StoppingInit, StoppingStep, PTL DEF Spec

\* A stop answered 200 is published for the run it was asked for, and no run is
\* told to stop unless somebody asked and it had started.
THEOREM StopsOnlyItsRun == Spec => []StopsItsRun
  <1>1. TypeInv /\ PlaceInv /\ StopInv => StopsItsRun
    <2> SUFFICES ASSUME TypeInv, PlaceInv, StopInv
                 PROVE  StopsItsRun
      OBVIOUS
    <2>1. ASSUME NEW j \in Job, record[j] # Nothing
          PROVE  record[j].env = job[j].env /\ topic[j].env = job[j].env
      <3>1. record[j] = ContentOf(j) /\ topic[j] = ContentOf(j)
        BY <2>1 DEF PlaceInv, InPlace
      <3> QED
        BY <3>1 DEF ContentOf
    <2>2. ASSUME NEW s \in Stopper, stop[s].stage = "ok"
          PROVE  [task |-> stop[s].of, env |-> job[stop[s].of].env] \in stopping
      <3>1. stop[s].of \in Job
        BY <2>2 DEF TypeInv
      <3> QED
        BY <2>1, <2>2, <3>1 DEF StopInv, Stops, StopMessage
    <2>3. ASSUME NEW m \in stopping
          PROVE  /\ m.env = topic[m.task].env
                 /\ m.task \in started \cap linked
                 /\ \E s \in Stopper : stop[s].of = m.task /\ stop[s].stage \in {"ok", "failed"}
      <3>1. m.task \in Job
        BY DEF TypeInv, TypeOK
      <3> QED
        BY <2>1, <3>1 DEF StopInv, Named
    <2> QED
      BY <2>2, <2>3 DEF StopsItsRun
  <1> QED
    BY <1>1, AlwaysStops, PTL

-----------------------------------------------------------------------------
(* The jobs are launches. *)

LEMMA LaunchesInit == Init => L!LaunchInit
  BY DEF Init, L!LaunchInit

LEMMA LaunchesStep ==
  ASSUME TypeInv, PlaceInv, StopInv, [Next]_vars
  PROVE  [L!LaunchNext]_(L!launchVars)
  <1> DEFINE told == {m.task : m \in stopping}
  <1>0. topic \in [Job -> Content \cup {Nothing}] /\ record \in [Job -> Content \cup {Nothing}]
    BY DEF TypeInv, TypeOK
  <1>1. ASSUME NEW j \in Job, Publish(j)
        PROVE  L!Launch(j)
    <2>1. topic[j] = Nothing /\ ContentOf(j) \in Content
      BY <1>1, ContentIsTyped DEF Publish, PlaceInv, InPlace
    <2> QED
      BY <1>1, <2>1 DEF Publish, L!Launch, stopVars, portalVars, listed
  <1>2. ASSUME NEW j \in Job, Record(j)
        PROVE  L!Show(j)
    <2>1. topic[j] = ContentOf(j) /\ record[j] = Nothing /\ ContentOf(j) # Nothing
      BY <1>2, ContentIsTyped DEF Record, PlaceInv, InPlace
    <2> QED
      BY <1>2, <2>1 DEF Record, L!Show, stopVars
  <1>3. ASSUME NEW c \in late, ArrivesLate(c)
        PROVE  c.by \in Job /\ (L!Launch(c.by) \/ L!Show(c.by))
    <2>1. /\ c.by \in Job /\ c = [by |-> c.by, call |-> c.call]
          /\ stage[c.by] # "none" /\ InPlace(c.by)
      BY DEF TypeInv, TypeOK, PlaceInv
    <2>2. ContentOf(c.by) \in Content
      BY <2>1, ContentIsTyped
    <2>3. CASE c.call = "publish"
      <3>1. topic[c.by] = Nothing
        BY <2>1, <2>3 DEF InPlace, LatePublish
      <3> QED
        BY <1>3, <2>1, <2>2, <2>3, <3>1 DEF ArrivesLate, L!Launch, stopVars
    <2>4. CASE c.call = "record"
      <3>1. topic[c.by] = ContentOf(c.by) /\ topic[c.by] # Nothing /\ record[c.by] = Nothing
        BY <2>1, <2>4 DEF InPlace, LateRecord
      <3> QED
        BY <1>3, <2>1, <2>4, <3>1 DEF ArrivesLate, L!Show, stopVars
    <2> QED
      BY <1>3, <2>1, <2>3, <2>4 DEF ArrivesLate
  <1>4. ASSUME NEW j \in Job, TaskStarts(j)
        PROVE  L!Start(j)
    BY <1>4 DEF TaskStarts, L!Start, stopVars, portalVars, listed
  <1>5. ASSUME NEW s \in Stopper, StopPublish(s) \/ StopFails(s)
        PROVE  UNCHANGED L!launchVars \/ \E j \in Job : L!Stop(j)
    <2>1. /\ UNCHANGED <<topic, record, started>>
          /\ stopping' \in {stopping, stopping \cup {StopMessage(s)}}
      BY <1>5 DEF StopPublish, StopFails, portalVars, listed
    <2>2. /\ stop[s].of \in Job /\ stop[s].of \in started
          /\ record[stop[s].of] # Nothing /\ StopMessage(s).task = stop[s].of
      BY <1>5 DEF StopPublish, StopFails, TypeInv, StopInv, Stops, StopMessage
    <2>3. told' = told \/ told' = told \cup {stop[s].of}
      BY <2>1, <2>2
    <2> QED
      BY <2>1, <2>2, <2>3 DEF L!launchVars, L!Stop
  <1>6. CASE UNCHANGED <<topic, record, started, stopping>>
    BY <1>6 DEF L!launchVars
  <1> QED
    <2>1. CASE \E j \in Job : Publish(j) \/ Record(j) \/ TaskStarts(j)
      BY <1>1, <1>2, <1>4, <2>1 DEF L!LaunchNext
    <2>2. CASE \E c \in late : ArrivesLate(c)
      BY <1>3, <2>2 DEF L!LaunchNext
    <2>3. CASE \E s \in Stopper : StopPublish(s) \/ StopFails(s)
      BY <1>5, <2>3 DEF L!LaunchNext
    <2> QED
      BY <1>6, <2>1, <2>2, <2>3 DEF Next, Arrives, Admit, Refuse, ReadConfig, ReadImage,
           RecordInvalid, CallFails, Dies, StopArrives, FetchTestRun, StopAdmit, StopRefuse,
           NewConfig, NewImage, Links, AllOver, vars, portalVars, listed, stopVars

\* The handlers of jobs implement Launches: the portal shows what was launched, as
\* it was launched, and stops what has started.
THEOREM JobsImplementLaunches == Spec => ImplementsLaunches
  <1>1. Init => L!LaunchInit
    BY LaunchesInit
  <1>2. TypeInv /\ PlaceInv /\ StopInv /\ [Next]_vars => [L!LaunchNext]_(L!launchVars)
    BY LaunchesStep
  <1> QED
    BY <1>1, <1>2, AlwaysStops, PTL DEF Spec, ImplementsLaunches, L!LaunchSpec
=============================================================================
