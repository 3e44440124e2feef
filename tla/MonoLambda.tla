----------------------------- MODULE MonoLambda -----------------------------
(***************************************************************************)
(* The two requests that only publish on the topic of the mono lambda: a   *)
(* new ephemeral key for an environment (api/ephemeral-keys), and the      *)
(* state of the platform again for every environment, one message after    *)
(* the other (api/platform-state).  Both answer 400 when a message fails.  *)
(* Neither takes back what it has sent, nor can it tell a message that was *)
(* lost from one whose answer was.                                         *)
(*                                                                         *)
(* A key is named by the request it is made for: each makes its own.  Who  *)
(* may ask is the subject of Access; the lambda is outside.                *)
(***************************************************************************)
EXTENDS Integers, Sequences

CONSTANTS
  KeyRequest,     \* requests for an ephemeral key
  Republisher,    \* requests to publish the state of the platform again
  EnvironmentsOf, \* Object.values(environments)
  Prod            \* environments.prod

Env == {EnvironmentsOf[i] : i \in 1..Len(EnvironmentsOf)}
Request == KeyRequest \cup Republisher

ASSUME EnvironmentsAssumption ==
  /\ EnvironmentsOf \in Seq(Env) /\ Prod \in Env
  /\ \A i, k \in 1..Len(EnvironmentsOf) : EnvironmentsOf[i] = EnvironmentsOf[k] => i = k
ASSUME RequestAssumption == KeyRequest \cap Republisher = {}

VARIABLES
  stage, \* where each request stands
  asked, \* the environment each key is asked for
  at,    \* the place in EnvironmentsOf each republisher has come to
  topic, \* the messages the topic has
  late,  \* messages no longer waited for that may yet arrive
  keys   \* the lambda's: the keys each environment has, and for how many hours

requestVars == <<stage, asked, at>>
vars == <<requestVars, topic, late, keys>>

Hours == {0, 2, 24}

\* ttlHours.
Ttl(env) == IF env = Prod THEN 2 ELSE 24

\* The messages: a key with its hours, and the state of an environment.
AddKey(k) == [by |-> k, env |-> asked[k], ttl |-> Ttl(asked[k])]
PublishStateOf(r, env) == [by |-> r, env |-> env, ttl |-> 0]

Message == [by : Request, env : Env, ttl : Hours]

\* The message a request waits for.
Sends(x) == IF x \in KeyRequest THEN AddKey(x) ELSE PublishStateOf(x, EnvironmentsOf[at[x]])

Init ==
  /\ stage = [x \in Request |-> "none"]
  /\ asked \in [KeyRequest -> Env]
  /\ at = [r \in Republisher |-> 1]
  /\ topic = {}
  /\ late = {}
  /\ keys = [e \in Env |-> {}]

-----------------------------------------------------------------------------
(* The requests. *)

\* The user may ask, and a key is made.
Arrives(x) ==
  /\ stage[x] = "none"
  /\ stage' = [stage EXCEPT ![x] = "publish"]
  /\ UNCHANGED <<asked, at, topic, late, keys>>

\* The user may not.
Refuse(x) ==
  /\ stage[x] = "none"
  /\ stage' = [stage EXCEPT ![x] = "refused"]
  /\ UNCHANGED <<asked, at, topic, late, keys>>

\* The message is on the topic, and the key is handed to the user.
PublishKey(k) ==
  /\ stage[k] = "publish"
  /\ topic' = topic \cup {AddKey(k)}
  /\ stage' = [stage EXCEPT ![k] = "ok"]
  /\ UNCHANGED <<asked, at, late, keys>>

\* Slip: the loop runs once too often.
NextEnvironmentOneMore(r) ==
  /\ at' = [at EXCEPT ![r] = @ + 1]
  /\ stage' = [stage EXCEPT ![r] = IF at[r] > Len(EnvironmentsOf) THEN "ok" ELSE @]

\* The loop goes to the next environment, or ends, and is answered 200.
NextEnvironment(r) ==
  /\ at' = [at EXCEPT ![r] = @ + 1]
  /\ stage' = [stage EXCEPT ![r] = IF at[r] = Len(EnvironmentsOf) THEN "ok" ELSE @]

Republish(r) ==
  /\ stage[r] = "publish"
  /\ topic' = topic \cup {Sends(r)}
  /\ NextEnvironment(r)
  /\ UNCHANGED <<asked, late, keys>>

\* Slip: what fails for one environment does not keep the loop from the others.
PublishFailsAndGoesOn(x) ==
  /\ stage[x] = "publish"
  /\ IF x \in Republisher
     THEN NextEnvironment(x)
     ELSE stage' = [stage EXCEPT ![x] = "failed"] /\ UNCHANGED at
  /\ late' \in {late, late \cup {Sends(x)}}
  /\ UNCHANGED <<asked, topic, keys>>

\* A message is lost, or is not and arrives after all: 400, and the end of the
\* loop.
PublishFails(x) ==
  /\ stage[x] = "publish"
  /\ stage' = [stage EXCEPT ![x] = "failed"]
  /\ late' \in {late, late \cup {Sends(x)}}
  /\ UNCHANGED <<asked, at, topic, keys>>

\* The process is stopped.
Dies(x) ==
  /\ stage[x] = "publish"
  /\ stage' = [stage EXCEPT ![x] = "dead"]
  /\ late' \in {late, late \cup {Sends(x)}}
  /\ UNCHANGED <<asked, at, topic, keys>>

-----------------------------------------------------------------------------
(* Outside. *)

ArrivesLate(m) ==
  /\ late' = late \ {m}
  /\ topic' = topic \cup {m}
  /\ UNCHANGED <<requestVars, keys>>

\* The lambda takes the message of a key, once or more often.
AddsKey(m) ==
  /\ m.by \in KeyRequest
  /\ keys' = [keys EXCEPT ![m.env] = @ \cup {[key |-> m.by, ttl |-> m.ttl]}]
  /\ UNCHANGED <<requestVars, topic, late>>

AllOver ==
  /\ \A x \in Request : stage[x] \in {"ok", "refused", "failed", "dead"}
  /\ UNCHANGED vars

Next ==
  \/ \E x \in Request : Arrives(x) \/ Refuse(x) \/ PublishFails(x) \/ Dies(x)
  \/ \E k \in KeyRequest : PublishKey(k)
  \/ \E r \in Republisher : Republish(r)
  \/ \E m \in late : ArrivesLate(m)
  \/ \E m \in topic : AddsKey(m)
  \/ AllOver

Spec == Init /\ [][Next]_vars

-----------------------------------------------------------------------------
(* What holds of the two. *)

\* Every variable keeps its type, and a loop that is not over has an environment.
TypeOK ==
  /\ stage \in [Request -> {"none", "publish", "ok", "refused", "failed", "dead"}]
  /\ asked \in [KeyRequest -> Env]
  /\ at \in [Republisher -> 1..(Len(EnvironmentsOf) + 1)]
  /\ \A r \in Republisher : stage[r] \in {"none", "publish"} => at[r] <= Len(EnvironmentsOf)
  /\ topic \subseteq Message
  /\ late \subseteq Message
  /\ keys \in [Env -> SUBSET [key : KeyRequest, ttl : Hours]]

\* A key that has been handed out is on its way. A key that works was asked for, by
\* a user who may, for that environment and its hours, two in production; it may be
\* a key nobody was told of, when the request failed or died.
\* A republish that answers 200 has published every environment. One that does not
\* has published those up to where it stopped, and it is only the last of these
\* whose message may be lost or arrive late.
AnswersAreTrue ==
  /\ \A k \in KeyRequest :
       /\ stage[k] = "ok" => AddKey(k) \in topic
       /\ \A e \in Env : \A key \in keys[e] :
            key.key = k =>
              /\ e = asked[k] /\ key.ttl = Ttl(e)
              /\ stage[k] \in {"ok", "failed", "dead"}
  /\ \A r \in Republisher :
       \A i \in 1..Len(EnvironmentsOf) :
         /\ stage[r] = "ok" \/ i < at[r] => PublishStateOf(r, EnvironmentsOf[i]) \in topic
         /\ i > at[r] => PublishStateOf(r, EnvironmentsOf[i]) \notin topic \cup late
=============================================================================
