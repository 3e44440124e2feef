------------------------------ MODULE Terminal ------------------------------
(***************************************************************************)
(* One terminal (api/deploy-terminal), from the request that asks for it   *)
(* to its end.  The handler works out how long the terminal may live when  *)
(* it has read the entity, publishes that on a topic, and then tells       *)
(* portal-backend of the session, whose failure nobody is told of.  The    *)
(* webshell proxy, outside this repository, opens the terminal some time   *)
(* later and closes it when the published number of seconds is over.       *)
(*                                                                         *)
(* Who may open which tool where is the subject of Access.                 *)
(***************************************************************************)
EXTENDS Scopes, Integers

CONSTANTS
  EnvAsked,    \* the environments and the tools that are asked for
  ToolAsked,
  Second,      \* ticks of the clock in a second
  ProdMax,     \* the longest lifetimes, in ticks: whole seconds
  NonProdMax,
  Horizon      \* when the clock stops

ASSUME AskedAssumption == EnvAsked \subseteq Env /\ ToolAsked \subseteq Tool
ASSUME TimeAssumption ==
  /\ Second \in Nat \ {0}
  /\ ProdMax \in Nat /\ NonProdMax \in Nat
  /\ Horizon \in Nat

VARIABLES
  stage,     \* where the handler stands
  clock,     \* the time
  request,   \* what was asked for, and whether the user's token has a name
  message,   \* what the handler publishes: for how many seconds, worked out when
  sent,      \* is the message on the topic?
  opened,    \* from when until when the proxy keeps the terminal open
  recorded,  \* does portal-backend know the session?
  late,      \* calls no longer waited for that may yet arrive
  failing    \* history: the calls that failed

handlerVars == <<stage, request, message, failing>>
vars == <<handlerVars, clock, sent, opened, recorded, late>>

NoExpiry == -1
Request == [env : EnvAsked, tool : ToolAsked, expires : Nat \cup {NoExpiry},
            named : {"yes", "no"}]
NoRequest == [env |-> "none", tool |-> "none", expires |-> NoExpiry, named |-> "no"]
NoMessage == [seconds |-> 0, at |-> 0]
NotOpened == [from |-> 0, until |-> -1]
Call == {"publish", "record"}

Init ==
  /\ stage = "none"
  /\ clock = 0
  /\ request = NoRequest
  /\ message = NoMessage
  /\ sent = "no"
  /\ opened = NotOpened
  /\ recorded = "no"
  /\ late = {}
  /\ failing = {}

-----------------------------------------------------------------------------
(* The handler. *)

\* The expiry a user asks for is not over when the request is validated.
Arrives ==
  /\ stage = "none"
  /\ stage' = "entity"
  /\ \E r \in [env : EnvAsked, tool : ToolAsked, expires : clock..Horizon \cup {NoExpiry},
               named : {"yes", "no"}] : request' = r
  /\ UNCHANGED <<clock, message, sent, opened, recorded, late, failing>>

\* getMaxLifetimeMinutes.
MaxLifetime(env) == IF env = "prod" THEN ProdMax ELSE NonProdMax

\* Slip: an expiry already over gives a negative number of seconds.
LifetimeMaybeNegative(env, expires, now) ==
  LET max == now + MaxLifetime(env)
      end == IF expires # NoExpiry /\ expires < max THEN expires ELSE max
  IN  IF end < now THEN -((now - end) \div Second) - 1 ELSE (end - now) \div Second

\* Slip: an expiry that was asked for is not held to the longest lifetime.
LifetimeAsAsked(env, expires, now) ==
  LET end == IF expires # NoExpiry THEN expires ELSE now + MaxLifetime(env)
  IN  IF end < now THEN 0 ELSE (end - now) \div Second

\* The seconds to the expiry or to the longest lifetime, whichever comes first.
Lifetime(env, expires, now) ==
  LET max == now + MaxLifetime(env)
      end == IF expires # NoExpiry /\ expires < max THEN expires ELSE max
  IN  IF end < now THEN 0 ELSE (end - now) \div Second

\* What the service must have in the environment for the tool.
Needs(tool) ==
  {"zone"} \cup (IF ToolConfig[tool].sqs THEN {"redrivable"} ELSE {})
           \cup (IF ToolConfig[tool].redis THEN {"redis"} ELSE {})

\* The scopes and the entity are read, and the message is made of them.
ReadEntity ==
  /\ stage = "entity"
  /\ \E has \in SUBSET {"zone", "redrivable", "redis"} :
       IF Needs(request.tool) \subseteq has
       THEN /\ stage' = "publish"
            /\ message' = [seconds |-> Lifetime(request.env, request.expires, clock),
                           at |-> clock]
       ELSE /\ stage' = "refused"
            /\ UNCHANGED message
  /\ UNCHANGED <<clock, request, sent, opened, recorded, late, failing>>

\* isAllowedTerminalEnvironment says no, or a read fails.
Refuse ==
  /\ stage = "entity"
  /\ stage' = "refused"
  /\ UNCHANGED <<clock, request, message, sent, opened, recorded, late, failing>>

\* Slip: the message is sent without await.
PublishNoAwait ==
  /\ stage = "publish"
  /\ sent' \in {"yes", "no"}
  /\ stage' = "record"
  /\ UNCHANGED <<clock, request, message, opened, recorded, late, failing>>

\* sendSnsMessage answers.
Publish ==
  /\ stage = "publish"
  /\ sent' = "yes"
  /\ stage' = "record"
  /\ UNCHANGED <<clock, request, message, opened, recorded, late, failing>>

\* recordTerminalSession answers, and the token is handed to the user.
RecordSession ==
  /\ stage = "record"
  /\ request.named = "yes"
  /\ recorded' = "yes"
  /\ stage' = "ok"
  /\ UNCHANGED <<clock, request, message, sent, opened, late, failing>>

\* It throws before it calls, on a user without a name, and is caught.
SessionInvalid ==
  /\ stage = "record"
  /\ request.named = "no"
  /\ stage' = "ok"
  /\ UNCHANGED <<clock, request, message, sent, opened, recorded, late, failing>>

\* A call is lost, or is not and arrives after all. A failed publish is the end
\* of the request; a failed record is caught, and the token handed out.
CallFails ==
  /\ \/ stage = "publish"
     \/ stage = "record" /\ request.named = "yes"
  /\ stage' = IF stage = "publish" THEN "failed" ELSE "ok"
  /\ failing' = failing \cup {stage}
  /\ late' \in {late, late \cup {stage}}
  /\ UNCHANGED <<clock, request, message, sent, opened, recorded>>

\* The process is stopped.
Dies ==
  /\ stage \in {"entity", "publish", "record"}
  /\ stage' = "dead"
  /\ late' \in {late, late \cup ({stage} \cap Call)}
  /\ UNCHANGED <<clock, request, message, sent, opened, recorded, failing>>

-----------------------------------------------------------------------------
(* Outside. *)

ArrivesLate(call) ==
  /\ late' = late \ {call}
  /\ \/ call = "publish" /\ sent' = "yes" /\ UNCHANGED recorded
     \/ call = "record" /\ recorded' = "yes" /\ UNCHANGED sent
  /\ UNCHANGED <<handlerVars, clock, opened>>

\* The proxy takes the message and opens the terminal.
Open ==
  /\ sent = "yes" /\ opened = NotOpened
  /\ opened' = [from |-> clock, until |-> clock + Second * message.seconds]
  /\ UNCHANGED <<handlerVars, clock, sent, recorded, late>>

Tick ==
  /\ clock < Horizon
  /\ clock' = clock + 1
  /\ UNCHANGED <<handlerVars, sent, opened, recorded, late>>

Over == clock = Horizon /\ stage \in {"ok", "refused", "failed", "dead"} /\ UNCHANGED vars

Next ==
  \/ Arrives
  \/ ReadEntity
  \/ Refuse
  \/ Publish
  \/ RecordSession
  \/ SessionInvalid
  \/ CallFails
  \/ Dies
  \/ \E call \in late : ArrivesLate(call)
  \/ Open
  \/ Tick
  \/ Over

Spec == Init /\ [][Next]_vars

-----------------------------------------------------------------------------
(* What holds of a terminal. *)

\* Every variable keeps its type: a lifetime is a number of seconds, not below
\* zero.
TypeOK ==
  /\ stage \in {"none", "entity", "publish", "record", "ok", "failed", "refused", "dead"}
  /\ clock \in 0..Horizon
  /\ request \in Request \cup {NoRequest}
  /\ stage # "none" => request \in Request
  /\ message \in [seconds : Nat, at : 0..Horizon]
  /\ sent \in {"yes", "no"}
  /\ opened \in [from : Nat, until : Nat \cup {-1}]
  /\ recorded \in {"yes", "no"}
  /\ late \subseteq Call
  /\ failing \subseteq Call

\* A terminal lives, within a second, from when the proxy opens it for as long as
\* was left, when the handler decided, of the expiry asked for and of the longest
\* lifetime of the environment. An expiry that went by while the handler waited
\* for other services gives a terminal that closes at once. Only the time the
\* message takes to the proxy comes on top.
ClosesWhenAsked ==
  opened # NotOpened =>
    LET end == opened.until - (opened.from - message.at)
        max == message.at + MaxLifetime(request.env)
    IN  /\ opened.from >= message.at
        /\ end \in message.at..max
        /\ request.expires # NoExpiry /\ request.expires >= message.at => end <= request.expires
        /\ request.expires # NoExpiry /\ request.expires < message.at => end = message.at
        /\ \/ end + Second > max
           \/ request.expires # NoExpiry /\ end + Second > request.expires

\* The token a user is given is for a terminal that has been asked for, and so is
\* every session in the portal. One that the portal misses, when no call is on its
\* way any more, is missing for a reason: the user had no name, the record failed,
\* or the request got no answer 200.
UnrecordedIsExplained ==
  /\ (stage = "ok" \/ recorded = "yes" \/ "record" \in late) => sent = "yes"
  /\ stage = "ok" /\ recorded = "no" /\ late = {} =>
       \/ "record" \in failing
       \/ request.named = "no"
=============================================================================
