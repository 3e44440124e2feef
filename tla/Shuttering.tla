----------------------------- MODULE Shuttering -----------------------------
(***************************************************************************)
(* Shuttering and unshuttering of one url (api/shutter): the handler first *)
(* publishes a manage_shuttering event for the lambda that changes the     *)
(* WAF, then tells portal-backend what the url is now.  Nothing ties the   *)
(* two together: requests overlap, either call may fail or its answer be   *)
(* lost, and the process may stop between them.                            *)
(*                                                                         *)
(* The event's message group is the url, so requests for other urls do not *)
(* meet this one's. On a topic that is not fifo the lambda may see events  *)
(* in any order and more than once.                                        *)
(***************************************************************************)
EXTENDS Naturals, Sequences

CONSTANTS
  Caller,   \* the requests, each to shutter or to unshutter the url
  Fifo      \* does the ARN of the topic end in "fifo"?

ASSUME FifoAssumption == Fifo \in BOOLEAN

VARIABLES
  stage,      \* where the handler of each request stands
  action,     \* "shutter" or "unshutter"
  topic,      \* events published for the url, in order
  delivered,  \* events of a fifo topic the lambda has taken
  waf,        \* what the WAF does with the url (the lambda's doing)
  recorded,   \* registrations portal-backend has accepted, in order
  late,       \* calls that their request no longer waits for and that may yet arrive
  before      \* history: the requests over, with no call late, when each arrived

vars == <<stage, action, topic, delivered, waf, recorded, late, before>>

Action == {"shutter", "unshutter"}
Over(r) == stage[r] \in {"ok", "failed", "refused", "dead"}
Settled == {r \in Caller : Over(r) /\ ~\E c \in late : c.by = r}
Call == [by : Caller, call : {"publish", "register"}]

Step(r, label) == stage' = [stage EXCEPT ![r] = label]

Published(r) == \E i \in 1..Len(topic) : topic[i] = r
Recorded(r) == \E i \in 1..Len(recorded) : recorded[i] = r

Init ==
  /\ stage = [r \in Caller |-> "none"]
  /\ action = [r \in Caller |-> "none"]
  /\ topic = <<>>
  /\ delivered = 0
  /\ waf = "unshutter"
  /\ recorded = <<>>
  /\ late = {}
  /\ before = [r \in Caller |-> {}]

-----------------------------------------------------------------------------
(* The handlers. *)

\* Slip: the workflow is not told which way the url is to go.
ArrivesEitherWay(r) ==
  /\ stage[r] = "none"
  /\ Step(r, "admit")
  /\ before' = [before EXCEPT ![r] = Settled]
  /\ UNCHANGED <<action, topic, delivered, waf, recorded, late>>

\* A request arrives on POST /shutter-url or POST /unshutter-url.
Arrives(r) ==
  /\ stage[r] = "none"
  /\ Step(r, "admit")
  /\ \E a \in Action : action' = [action EXCEPT ![r] = a]
  /\ before' = [before EXCEPT ![r] = Settled]
  /\ UNCHANGED <<topic, delivered, waf, recorded, late>>

\* getScopedUser: a member of the owning team or an admin, or 403; and the
\* read of the entity may fail.
Authorise(r) ==
  /\ stage[r] = "admit"
  /\ \/ Step(r, "publish")
     \/ Step(r, "refused")
  /\ UNCHANGED <<action, topic, delivered, waf, recorded, late, before>>

\* Slip: the event is sent without await, and its failure goes unnoticed.
PublishEventNoAwait(r) ==
  /\ stage[r] = "publish"
  /\ topic' \in {topic, Append(topic, r)}
  /\ Step(r, "register")
  /\ UNCHANGED <<action, delivered, waf, recorded, late, before>>

\* publishManageShutteringEvent answers.
PublishEvent(r) ==
  /\ stage[r] = "publish"
  /\ topic' = Append(topic, r)
  /\ Step(r, "register")
  /\ UNCHANGED <<action, delivered, waf, recorded, late, before>>

\* registerShuttering answers, and the request is answered 200.
RegisterShuttering(r) ==
  /\ stage[r] = "register"
  /\ recorded' = Append(recorded, r)
  /\ Step(r, "ok")
  /\ UNCHANGED <<action, topic, delivered, waf, late, before>>

\* Slip: a failing registration is logged and not rethrown.
CallFailsSwallowed(r) ==
  /\ stage[r] \in {"publish", "register"}
  /\ Step(r, IF stage[r] = "register" THEN "ok" ELSE "failed")
  /\ UNCHANGED <<action, topic, delivered, waf, recorded, late, before>>

\* The call a request waits for is lost, or is not and arrives after all.
LeavesCall(r) == late' \in {late, late \cup {[by |-> r, call |-> stage[r]]}}

\* The publish or the registration throws, and nothing catches it: 500.
CallFails(r) ==
  /\ stage[r] \in {"publish", "register"}
  /\ Step(r, "failed")
  /\ LeavesCall(r)
  /\ UNCHANGED <<action, topic, delivered, waf, recorded, before>>

\* The process is stopped in the middle of a request.
Dies(r) ==
  /\ stage[r] \in {"admit", "publish", "register"}
  /\ Step(r, "dead")
  /\ IF stage[r] = "admit" THEN UNCHANGED late ELSE LeavesCall(r)
  /\ UNCHANGED <<action, topic, delivered, waf, recorded, before>>

\* A late call arrives.
ArrivesLate(c) ==
  /\ late' = late \ {c}
  /\ \/ c.call = "publish" /\ topic' = Append(topic, c.by) /\ UNCHANGED recorded
     \/ c.call = "register" /\ recorded' = Append(recorded, c.by) /\ UNCHANGED topic
  /\ UNCHANGED <<stage, action, delivered, waf, before>>

-----------------------------------------------------------------------------
(* The lambda. *)

\* The lambda takes an event and sets the WAF accordingly.
Deliver ==
  /\ \E i \in 1..Len(topic) :
       /\ IF Fifo THEN i = delivered + 1 /\ delivered' = i ELSE UNCHANGED delivered
       /\ waf' = action[topic[i]]
  /\ UNCHANGED <<stage, action, topic, recorded, late, before>>

AllOver ==
  /\ \A r \in Caller : Over(r)
  /\ UNCHANGED vars

Next ==
  \/ \E r \in Caller :
       \/ Arrives(r)
       \/ Authorise(r)
       \/ PublishEvent(r)
       \/ RegisterShuttering(r)
       \/ CallFails(r)
       \/ Dies(r)
  \/ \E c \in late : ArrivesLate(c)
  \/ Deliver
  \/ AllOver

Spec == Init /\ [][Next]_vars

-----------------------------------------------------------------------------
(* What holds of the WAF and of the portal. *)

\* Every variable keeps its type, and a request past its arrival knows which
\* way the url is to go.
TypeOK ==
  /\ stage \in [Caller -> {"none", "admit", "publish", "register",
                           "ok", "failed", "refused", "dead"}]
  /\ action \in [Caller -> Action \cup {"none"}]
  /\ \A r \in Caller : stage[r] # "none" => action[r] \in Action
  /\ topic \in Seq(Caller)
  /\ delivered \in 0..Len(topic)
  /\ waf \in Action
  /\ recorded \in Seq(Caller)
  /\ late \in SUBSET Call
  /\ before \in [Caller -> SUBSET Caller]

\* The portal never shows a state that the lambda was not asked for.
PortalNeverAhead == \A r \in Caller : Recorded(r) => Published(r)

\* Did two requests for the url overlap, their late calls included?
Overlap(q, r) == q \notin before[r] /\ r \notin before[q]

\* The portal and the lambda's queue agree as soon as the last request to
\* publish ran alone and was answered 200, whatever the earlier ones left
\* behind (failed half way, dead, overlapping): such a request repairs a url.
LastAloneIsLastInBoth ==
  \A r \in Caller :
    /\ stage[r] = "ok"
    /\ Len(topic) > 0 /\ topic[Len(topic)] = r
    /\ \A q \in Caller \ {r} : stage[q] \in {"none", "refused"} \/ ~Overlap(q, r)
    => Len(recorded) > 0 /\ recorded[Len(recorded)] = r

\* On a fifo topic, when the lambda is done, the WAF then is what the portal
\* shows: they differ only after an overlap, a failure or a crash.
DifferenceIsExplained ==
  /\ Fifo /\ delivered = Len(topic) /\ recorded # <<>>
  /\ waf # action[recorded[Len(recorded)]]
  => \/ \E r \in Caller : stage[r] \in {"failed", "dead", "register"}
     \/ \E q, r \in Caller : q # r /\ Published(q) /\ Published(r) /\ Overlap(q, r)
=============================================================================
