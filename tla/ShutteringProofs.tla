-------------------------- MODULE ShutteringProofs --------------------------
(***************************************************************************)
(* How the portal, the topic and the WAF relate, for every number of       *)
(* requests for a url.                                                     *)
(*                                                                         *)
(*   TypeOK      every variable has its type                               *)
(*   PlaceInv    what a request has left behind at each stage              *)
(*   BeforeInv   a request over before another arrived left its event and  *)
(*               its registration below the other's                        *)
(*   WafInv      on a fifo topic the WAF does what the event last taken    *)
(*               says                                                      *)
(*   LateIsMissing  what a late call is about has not happened             *)
(***************************************************************************)
EXTENDS Shuttering, TLAPS

-----------------------------------------------------------------------------
(* The inductive invariant. *)

InPlace(r) ==
  /\ stage[r] \in {"none", "admit", "publish", "refused"} => ~Published(r)
  /\ stage[r] \in {"none", "admit", "publish", "register", "refused"} =>
       ~Recorded(r) /\ \A c \in late : c.by # r
  /\ stage[r] \in {"register", "ok"} => Published(r)
  /\ stage[r] = "ok" => Recorded(r)
  /\ Recorded(r) => Published(r)
  /\ \A c \in late : c.by = r /\ c.call = "register" => Published(r)

PlaceInv == \A r \in Caller : InPlace(r)

\* In sequence s every place of q is below every place of r.
Below(s, q, r) == \A i, j \in 1..Len(s) : s[i] = q /\ s[j] = r => i < j

BeforeInv ==
  \A r \in Caller : \A q \in before[r] :
    /\ q \in Settled
    /\ stage[r] # "none"
    /\ Below(topic, q, r)
    /\ Below(recorded, q, r)

WafInv == Fifo /\ delivered > 0 => waf = action[topic[delivered]]

-----------------------------------------------------------------------------
(* Types. *)

LEMMA TypeInit == Init => TypeOK
  BY DEF Init, TypeOK, Action

LEMMA TypeStep == TypeOK /\ PlaceInv /\ [Next]_vars => TypeOK'
  <1> SUFFICES ASSUME TypeOK, PlaceInv, [Next]_vars
               PROVE  TypeOK'
    OBVIOUS
  <1> USE DEF TypeOK, Action, Step
  <1>1. ASSUME NEW r \in Caller, Arrives(r)
        PROVE  TypeOK'
    <2>1. Settled \in SUBSET Caller
      BY DEF Settled
    <2> QED
      BY <1>1, <2>1 DEF Arrives
  <1>2. ASSUME NEW r \in Caller, Authorise(r)
        PROVE  TypeOK'
    BY <1>2 DEF Authorise
  <1>3. ASSUME NEW r \in Caller, topic' = Append(topic, r), UNCHANGED delivered
        PROVE  topic' \in Seq(Caller) /\ delivered' \in 0..Len(topic')
    BY <1>3
  <1>4. ASSUME NEW r \in Caller, PublishEvent(r)
        PROVE  TypeOK'
    BY <1>3, <1>4 DEF PublishEvent
  <1>5. ASSUME NEW r \in Caller, RegisterShuttering(r)
        PROVE  TypeOK'
    BY <1>5 DEF RegisterShuttering
  <1>6. ASSUME NEW r \in Caller, LeavesCall(r), stage[r] \in {"publish", "register"}
        PROVE  late' \in SUBSET Call
    BY <1>6 DEF LeavesCall, Call
  <1>7. ASSUME NEW r \in Caller, CallFails(r)
        PROVE  TypeOK'
    BY <1>6, <1>7 DEF CallFails
  <1>8. ASSUME NEW r \in Caller, Dies(r)
        PROVE  TypeOK'
    BY <1>6, <1>8 DEF Dies
  <1>9. ASSUME NEW c \in late, ArrivesLate(c)
        PROVE  TypeOK'
    <2>1. c.by \in Caller
      BY DEF Call
    <2>2. CASE topic' = Append(topic, c.by) /\ UNCHANGED recorded
      BY <1>3, <1>9, <2>1, <2>2 DEF ArrivesLate
    <2>3. CASE recorded' = Append(recorded, c.by) /\ UNCHANGED topic
      BY <1>9, <2>1, <2>3 DEF ArrivesLate
    <2> QED
      BY <1>9, <2>2, <2>3 DEF ArrivesLate
  <1>10. ASSUME Deliver
         PROVE  TypeOK'
    <2>1. PICK i \in 1..Len(topic) : delivered' \in {i, delivered} /\ waf' = action[topic[i]]
      BY <1>10 DEF Deliver
    <2>2. topic[i] \in Caller /\ Published(topic[i])
      BY <2>1 DEF Published
    <2>3. stage[topic[i]] # "none"
      BY <2>2 DEF PlaceInv, InPlace
    <2>4. action[topic[i]] \in {"shutter", "unshutter"}
      BY <2>2, <2>3
    <2> QED
      BY <1>10, <2>1, <2>4 DEF Deliver
  <1>11. ASSUME AllOver \/ UNCHANGED vars
         PROVE  TypeOK'
    BY <1>11 DEF AllOver, vars
  <1> QED
    BY <1>1, <1>2, <1>4, <1>5, <1>7, <1>8, <1>9, <1>10, <1>11 DEF Next

-----------------------------------------------------------------------------
(* What a request has left behind. *)

\* What an append adds to a sequence of requests.
LEMMA AppendedThen ==
  ASSUME NEW s \in Seq(Caller), NEW u \in Caller, NEW t, t = Append(s, u)
  PROVE  \A r : (\E i \in 1..Len(t) : t[i] = r) <=> (\E i \in 1..Len(s) : s[i] = r) \/ r = u
  <1>1. /\ Len(t) = Len(s) + 1 /\ Len(s) \in Nat
        /\ \A i \in 1..Len(s) : t[i] = s[i]
        /\ t[Len(s) + 1] = u
    OBVIOUS
  <1> QED
    BY <1>1

\* A step of others leaves r in place.
LEMMA OthersStayInPlace ==
  ASSUME NEW r \in Caller, InPlace(r), stage'[r] = stage[r],
         Published(r)' <=> Published(r), Recorded(r)' <=> Recorded(r),
         \A c \in late' : c.by = r => c \in late
  PROVE  InPlace(r)'
  BY DEF InPlace

LEMMA PlaceInit == Init => PlaceInv
  <1> SUFFICES ASSUME Init, NEW r \in Caller
               PROVE  InPlace(r)
    BY DEF PlaceInv
  <1>1. stage[r] = "none" /\ late = {} /\ Len(topic) = 0 /\ Len(recorded) = 0
    BY DEF Init
  <1>2. ~Published(r) /\ ~Recorded(r)
    BY <1>1 DEF Published, Recorded
  <1> QED
    BY <1>1, <1>2 DEF InPlace

LEMMA PlaceStep == TypeOK /\ PlaceInv /\ [Next]_vars => PlaceInv'
  <1> SUFFICES ASSUME TypeOK, PlaceInv, [Next]_vars, NEW r \in Caller
               PROVE  InPlace(r)'
    BY DEF PlaceInv
  <1>0. /\ stage \in [Caller -> {"none", "admit", "publish", "register",
                                 "ok", "failed", "refused", "dead"}]
        /\ topic \in Seq(Caller) /\ recorded \in Seq(Caller)
        /\ late \in SUBSET Call /\ InPlace(r)
    BY DEF TypeOK, PlaceInv
  <1> USE DEF Step
  <1>1. ASSUME NEW q \in Caller, Arrives(q) \/ Authorise(q)
        PROVE  InPlace(r)'
    <2>1. /\ UNCHANGED <<topic, recorded, late>>
          /\ stage[q] \in {"none", "admit"}
          /\ stage'[q] \in {"admit", "publish", "refused"}
          /\ \A x \in Caller \ {q} : stage'[x] = stage[x]
      BY <1>0, <1>1 DEF Arrives, Authorise
    <2> QED
      BY <1>0, <2>1 DEF InPlace, Published, Recorded
  <1>2. ASSUME NEW q \in Caller, PublishEvent(q)
        PROVE  InPlace(r)'
    <2>1. /\ UNCHANGED <<recorded, late>>
          /\ stage[q] = "publish" /\ stage'[q] = "register"
          /\ \A x \in Caller \ {q} : stage'[x] = stage[x]
      BY <1>0, <1>2 DEF PublishEvent
    <2>2. Published(r)' <=> Published(r) \/ r = q
      BY <1>0, <1>2, AppendedThen DEF PublishEvent, Published
    <2> QED
      BY <1>0, <2>1, <2>2 DEF InPlace, Recorded
  <1>3. ASSUME NEW q \in Caller, RegisterShuttering(q)
        PROVE  InPlace(r)'
    <2>1. /\ UNCHANGED <<topic, late>>
          /\ stage[q] = "register" /\ stage'[q] = "ok"
          /\ \A x \in Caller \ {q} : stage'[x] = stage[x]
      BY <1>0, <1>3 DEF RegisterShuttering
    <2>2. Recorded(r)' <=> Recorded(r) \/ r = q
      BY <1>0, <1>3, AppendedThen DEF RegisterShuttering, Recorded
    <2> QED
      BY <1>0, <2>1, <2>2 DEF InPlace, Published
  <1>4. ASSUME NEW q \in Caller, CallFails(q) \/ Dies(q)
        PROVE  InPlace(r)'
    <2>1. /\ UNCHANGED <<topic, recorded>>
          /\ stage[q] \in {"admit", "publish", "register"} /\ stage'[q] \in {"failed", "dead"}
          /\ \A x \in Caller \ {q} : stage'[x] = stage[x]
          /\ \A c \in late' : c \in late \/ (c.by = q /\ c.call = stage[q])
      BY <1>0, <1>4 DEF CallFails, Dies, LeavesCall
    <2> QED
      BY <1>0, <2>1 DEF InPlace, Published, Recorded
  <1>5. ASSUME NEW c \in late, ArrivesLate(c)
        PROVE  InPlace(r)'
    <2>1. UNCHANGED stage /\ late' \subseteq late /\ c.by \in Caller
      BY <1>0, <1>5 DEF ArrivesLate, Call
    <2>2. CASE c.call = "publish" /\ topic' = Append(topic, c.by) /\ UNCHANGED recorded
      <3>1. Published(r)' <=> Published(r) \/ r = c.by
        BY <1>0, <2>1, <2>2, AppendedThen DEF Published
      <3> QED
        BY <1>0, <2>1, <2>2, <3>1 DEF InPlace, Recorded
    <2>3. CASE c.call = "register" /\ recorded' = Append(recorded, c.by) /\ UNCHANGED topic
      <3>1. Recorded(r)' <=> Recorded(r) \/ r = c.by
        BY <1>0, <2>1, <2>3, AppendedThen DEF Recorded
      <3> QED
        BY <1>0, <2>1, <2>3, <3>1 DEF InPlace, Published
    <2> QED
      BY <1>5, <2>2, <2>3 DEF ArrivesLate
  <1>6. ASSUME Deliver \/ AllOver \/ UNCHANGED vars
        PROVE  InPlace(r)'
    BY <1>0, <1>6, OthersStayInPlace DEF Deliver, AllOver, vars, Published, Recorded
  <1> QED
    BY <1>1, <1>2, <1>3, <1>4, <1>5, <1>6 DEF Next

-----------------------------------------------------------------------------
(* What was there before. *)

\* A request that is over, with no call late, is so for good.
LEMMA SettledStays == TypeOK /\ [Next]_vars => Settled \subseteq Settled'
  <1> SUFFICES ASSUME TypeOK, [Next]_vars, NEW r \in Settled
               PROVE  r \in Settled'
    OBVIOUS
  <1>0. /\ r \in Caller /\ Over(r) /\ \A c \in late : c.by # r
        /\ stage \in [Caller -> {"none", "admit", "publish", "register",
                                 "ok", "failed", "refused", "dead"}]
    BY DEF Settled, TypeOK
  <1>1. ASSUME NEW q \in Caller,
               Arrives(q) \/ Authorise(q) \/ PublishEvent(q) \/ RegisterShuttering(q)
                 \/ CallFails(q) \/ Dies(q)
        PROVE  r \in Settled'
    <2>1. /\ ~Over(q)
          /\ \A x \in Caller \ {q} : stage'[x] = stage[x]
          /\ \A c \in late' : c \in late \/ c.by = q
      BY <1>0, <1>1 DEF Over, Step, Arrives, Authorise, PublishEvent, RegisterShuttering,
                        CallFails, Dies, LeavesCall
    <2> QED
      BY <1>0, <2>1 DEF Settled, Over
  <1>2. ASSUME (\E c \in late : ArrivesLate(c)) \/ Deliver \/ AllOver \/ UNCHANGED vars
        PROVE  UNCHANGED stage /\ late' \subseteq late
    BY <1>2 DEF ArrivesLate, Deliver, AllOver, vars
  <1> QED
    BY <1>0, <1>1, <1>2 DEF Next, Settled, Over

\* What is appended now comes after all that has been.
LEMMA AppendedAbove ==
  ASSUME NEW s \in Seq(Caller), NEW u \in Caller, NEW t, t = Append(s, u),
         NEW q, NEW r, q # u, Below(s, q, r)
  PROVE  Below(t, q, r)
  <1>1. /\ Len(t) = Len(s) + 1 /\ Len(s) \in Nat
        /\ \A i \in 1..Len(s) : t[i] = s[i]
        /\ t[Len(s) + 1] = u
    OBVIOUS
  <1> QED
    BY <1>1 DEF Below

LEMMA BeforeInit == Init => BeforeInv
  BY DEF Init, BeforeInv

LEMMA BeforeStep == TypeOK /\ PlaceInv /\ BeforeInv /\ [Next]_vars => BeforeInv'
  <1> SUFFICES ASSUME TypeOK, PlaceInv, BeforeInv, [Next]_vars
               PROVE  BeforeInv'
    OBVIOUS
  <1>0. /\ stage \in [Caller -> {"none", "admit", "publish", "register",
                                 "ok", "failed", "refused", "dead"}]
        /\ topic \in Seq(Caller) /\ recorded \in Seq(Caller)
        /\ before \in [Caller -> SUBSET Caller]
        /\ \A c \in late : c.by \in Caller
        /\ Settled \subseteq Settled'
    BY SettledStays DEF TypeOK, Call
  <1> USE DEF Step
  <1>1. ASSUME NEW r \in Caller, Arrives(r)
        PROVE  BeforeInv'
    <2>1. /\ stage[r] = "none" /\ stage' = [stage EXCEPT ![r] = "admit"]
          /\ before' = [before EXCEPT ![r] = Settled]
          /\ UNCHANGED <<topic, recorded>>
      BY <1>1 DEF Arrives
    <2>2. ~Published(r) /\ ~Recorded(r)
      BY <2>1 DEF PlaceInv, InPlace
    <2>3. \A q : Below(topic, q, r) /\ Below(recorded, q, r)
      BY <2>2 DEF Below, Published, Recorded
    <2>4. \A q \in before'[r] : q \in Settled' /\ stage'[r] # "none"
                               /\ Below(topic, q, r)' /\ Below(recorded, q, r)'
      BY <1>0, <2>1, <2>3
    <2>5. \A x \in Caller \ {r} : \A q \in before'[x] :
            q \in Settled' /\ stage'[x] # "none"
              /\ Below(topic, q, x)' /\ Below(recorded, q, x)'
      BY <1>0, <2>1 DEF BeforeInv
    <2> QED
      BY <2>4, <2>5 DEF BeforeInv
  <1>2. ASSUME UNCHANGED <<topic, recorded, before>>,
               \A x \in Caller : stage'[x] = "none" => stage[x] = "none"
        PROVE  BeforeInv'
    BY <1>0, <1>2 DEF BeforeInv
  <1>3. ASSUME NEW u \in Caller, u \notin Settled,
               topic' \in {topic, Append(topic, u)}, recorded' \in {recorded, Append(recorded, u)},
               UNCHANGED before, \A x \in Caller : stage'[x] = "none" => stage[x] = "none"
        PROVE  BeforeInv'
    <2> SUFFICES ASSUME NEW r \in Caller, NEW q \in before[r]
                 PROVE  Below(topic', q, r) /\ Below(recorded', q, r)
      BY <1>0, <1>3 DEF BeforeInv
    <2>1. q # u /\ Below(topic, q, r) /\ Below(recorded, q, r)
      BY <1>3 DEF BeforeInv
    <2> QED
      BY <1>0, <1>3, <2>1, AppendedAbove
  <1>4. ASSUME NEW r \in Caller, Authorise(r) \/ CallFails(r) \/ Dies(r)
        PROVE  BeforeInv'
    BY <1>0, <1>2, <1>4 DEF Authorise, CallFails, Dies
  <1>5. ASSUME NEW r \in Caller, PublishEvent(r) \/ RegisterShuttering(r)
        PROVE  BeforeInv'
    <2>1. r \notin Settled
      BY <1>5 DEF PublishEvent, RegisterShuttering, Settled, Over
    <2> QED
      BY <1>0, <1>3, <1>5, <2>1 DEF PublishEvent, RegisterShuttering
  <1>6. ASSUME NEW c \in late, ArrivesLate(c)
        PROVE  BeforeInv'
    <2>1. c.by \in Caller /\ c.by \notin Settled
      BY <1>0 DEF Settled
    <2> QED
      BY <1>3, <1>6, <2>1 DEF ArrivesLate
  <1>7. ASSUME Deliver \/ AllOver \/ UNCHANGED vars
        PROVE  BeforeInv'
    BY <1>2, <1>7 DEF Deliver, AllOver, vars
  <1> QED
    BY <1>1, <1>4, <1>5, <1>6, <1>7 DEF Next

-----------------------------------------------------------------------------
(* The WAF. *)

LEMMA WafInit == Init => WafInv
  BY DEF Init, WafInv

LEMMA WafStep == TypeOK /\ PlaceInv /\ WafInv /\ [Next]_vars => WafInv'
  <1> SUFFICES ASSUME TypeOK, PlaceInv, WafInv, [Next]_vars, Fifo, delivered' > 0
               PROVE  waf' = action'[topic'[delivered']]
    BY DEF WafInv
  <1>0. /\ topic \in Seq(Caller) /\ delivered \in 0..Len(topic)
        /\ action \in [Caller -> Action \cup {"none"}]
        /\ \A c \in late : c.by \in Caller
    BY DEF TypeOK, Call
  <1>1. CASE Deliver
    BY <1>0, <1>1 DEF Deliver
  <1>2. CASE ~Deliver
    <2>1. UNCHANGED <<waf, delivered>>
      BY <1>2 DEF Next, Arrives, Authorise, PublishEvent, RegisterShuttering, CallFails, Dies,
                  ArrivesLate, AllOver, vars
    <2>2. UNCHANGED topic \/ \E u \in Caller : topic' = Append(topic, u)
      BY <1>0, <1>2 DEF Next, Arrives, Authorise, PublishEvent, RegisterShuttering, CallFails,
                        Dies, ArrivesLate, AllOver, vars
    <2>3. delivered \in 1..Len(topic) /\ topic'[delivered'] = topic[delivered]
      BY <1>0, <2>1, <2>2
    <2>4. Published(topic[delivered]) /\ topic[delivered] \in Caller
      BY <1>0, <2>3 DEF Published
    <2>5. action'[topic[delivered]] = action[topic[delivered]]
      <3>1. ASSUME NEW r \in Caller, Arrives(r)
            PROVE  action'[topic[delivered]] = action[topic[delivered]]
        <4>1. r # topic[delivered]
          BY <2>4, <3>1 DEF Arrives, PlaceInv, InPlace
        <4> QED
          BY <1>0, <2>4, <3>1, <4>1 DEF Arrives
      <3>2. CASE UNCHANGED action
        BY <3>2
      <3> QED
        BY <1>2, <3>1, <3>2
           DEF Next, Authorise, PublishEvent, RegisterShuttering, CallFails, Dies, ArrivesLate,
               AllOver, vars
    <2> QED
      BY <2>1, <2>3, <2>5 DEF WafInv
  <1> QED
    BY <1>1, <1>2

-----------------------------------------------------------------------------
(* The theorems. *)

ShutteringInv == TypeOK /\ PlaceInv /\ BeforeInv /\ WafInv

LEMMA ShutteringInvariance == Spec => []ShutteringInv
  <1>1. Init => ShutteringInv
    BY TypeInit, PlaceInit, BeforeInit, WafInit DEF ShutteringInv
  <1>2. ShutteringInv /\ [Next]_vars => ShutteringInv'
    BY TypeStep, PlaceStep, BeforeStep, WafStep DEF ShutteringInv
  <1> QED
    BY <1>1, <1>2, PTL DEF Spec

\* Every reachable state of the shuttering of a url is well-typed.
THEOREM ShutteringTyping == Spec => []TypeOK
  <1>1. ShutteringInv => TypeOK
    BY DEF ShutteringInv
  <1> QED
    BY <1>1, ShutteringInvariance, PTL

\* The portal never shows a state that the lambda was not asked for.
THEOREM ShutteringPortal == Spec => []PortalNeverAhead
  <1>1. ShutteringInv => PortalNeverAhead
    BY DEF ShutteringInv, PlaceInv, InPlace, PortalNeverAhead
  <1> QED
    BY <1>1, ShutteringInvariance, PTL

\* When the request that published last was answered 200 and overlapped with
\* none of those that left a registration, it is the last one in the portal too.
LEMMA LastPublishedIsLastRecorded ==
  ASSUME ShutteringInv, NEW r \in Caller, stage[r] = "ok",
         Len(topic) > 0, topic[Len(topic)] = r,
         \A q \in Caller \ {r} : Recorded(q) => ~Overlap(q, r)
  PROVE  Len(recorded) > 0 /\ recorded[Len(recorded)] = r
  <1>1. Len(topic) \in 1..Len(topic) /\ topic \in Seq(Caller) /\ recorded \in Seq(Caller)
    BY DEF ShutteringInv, TypeOK
  <1>2. PICK k \in 1..Len(recorded) : recorded[k] = r
    BY DEF ShutteringInv, PlaceInv, InPlace, Recorded
  <1>3. Len(recorded) \in 1..Len(recorded) /\ k <= Len(recorded)
    BY <1>1, <1>2
  <1>4. ASSUME NEW q \in Caller \ {r}, q = recorded[Len(recorded)]
        PROVE  FALSE
    <2>1. Recorded(q)
      BY <1>3, <1>4 DEF Recorded
    <2>2. PICK n \in 1..Len(topic) : topic[n] = q
      BY <2>1 DEF ShutteringInv, PlaceInv, InPlace, Published
    <2>3. CASE q \in before[r]
      <3>1. Len(recorded) < k
        BY <1>2, <1>3, <1>4, <2>3 DEF ShutteringInv, BeforeInv, Below
      <3> QED
        BY <1>2, <1>3, <3>1
    <2>4. CASE r \in before[q]
      <3>1. Len(topic) < n
        BY <1>1, <2>2, <2>4 DEF ShutteringInv, BeforeInv, Below
      <3> QED
        BY <1>1, <2>2, <3>1
    <2> QED
      BY <2>1, <2>3, <2>4 DEF Overlap
  <1>5. recorded[Len(recorded)] \in Caller
    BY <1>1, <1>3
  <1> QED
    BY <1>3, <1>4, <1>5

\* A quiet request that succeeds repairs the url, whatever was left before it.
THEOREM ShutteringRepairs == Spec => []LastAloneIsLastInBoth
  <1>1. ShutteringInv => LastAloneIsLastInBoth
    <2> SUFFICES ASSUME ShutteringInv, NEW r \in Caller, stage[r] = "ok",
                        Len(topic) > 0, topic[Len(topic)] = r,
                        \A q \in Caller \ {r} : stage[q] \in {"none", "refused"} \/ ~Overlap(q, r)
                 PROVE  Len(recorded) > 0 /\ recorded[Len(recorded)] = r
      BY DEF LastAloneIsLastInBoth
    <2>1. \A q \in Caller \ {r} : Recorded(q) => ~Overlap(q, r)
      BY DEF ShutteringInv, PlaceInv, InPlace
    <2> QED
      BY <2>1, LastPublishedIsLastRecorded
  <1> QED
    BY <1>1, ShutteringInvariance, PTL

\* On a fifo topic the WAF and the portal differ in the end only after an
\* overlap, a failure or a crash.
THEOREM ShutteringExplained == Spec => []DifferenceIsExplained
  <1>1. ShutteringInv => DifferenceIsExplained
    <2> SUFFICES ASSUME ShutteringInv, Fifo, delivered = Len(topic), recorded # <<>>,
                        \A r \in Caller : stage[r] \notin {"failed", "dead", "register"},
                        \A q, r \in Caller :
                          q # r /\ Published(q) /\ Published(r) => ~Overlap(q, r)
                 PROVE  waf = action[recorded[Len(recorded)]]
      BY DEF DifferenceIsExplained
    <2>0. /\ topic \in Seq(Caller) /\ recorded \in Seq(Caller) /\ delivered \in Nat
          /\ stage \in [Caller -> {"none", "admit", "publish", "register",
                                   "ok", "failed", "refused", "dead"}]
      BY DEF ShutteringInv, TypeOK
    <2>1. recorded[1] \in Caller /\ Recorded(recorded[1])
      <3>1. 1 \in 1..Len(recorded)
        BY <2>0
      <3> QED
        BY <2>0, <3>1 DEF Recorded
    <2>2. Published(recorded[1])
      BY <2>1 DEF ShutteringInv, PlaceInv, InPlace
    <2>3. Len(topic) \in 1..Len(topic)
      BY <2>0, <2>2 DEF Published
    <2>4. PICK r \in Caller : r = topic[Len(topic)]
      BY <2>0, <2>3
    <2>5. Published(r)
      BY <2>3, <2>4 DEF Published
    <2>6. stage[r] = "ok"
      BY <2>0, <2>5 DEF ShutteringInv, PlaceInv, InPlace
    <2>7. \A q \in Caller \ {r} : Recorded(q) => ~Overlap(q, r)
      BY <2>5 DEF ShutteringInv, PlaceInv, InPlace
    <2>8. recorded[Len(recorded)] = r
      BY <2>3, <2>4, <2>6, <2>7, LastPublishedIsLastRecorded
    <2> QED
      BY <2>3, <2>4, <2>8 DEF ShutteringInv, WafInv
  <1> QED
    BY <1>1, ShutteringInvariance, PTL

-----------------------------------------------------------------------------
(* Once only. *)

\* No request is twice in a sequence.
NoneTwice(s) == \A i, j \in 1..Len(s) : s[i] = s[j] => i = j

\* What a late call is about has not happened.
LateIsMissing ==
  \A c \in late : /\ c.call = "publish" => ~Published(c.by)
                  /\ c.call = "register" => ~Recorded(c.by)

\* The event and the registration of a request are made once at most.
ShutteredOnce == NoneTwice(topic) /\ NoneTwice(recorded)

LEMMA OnceAppended ==
  ASSUME NEW s \in Seq(Caller), NEW u \in Caller, NEW t, t = Append(s, u),
         NoneTwice(s), \A i \in 1..Len(s) : s[i] # u
  PROVE  NoneTwice(t)
  <1>1. /\ Len(t) = Len(s) + 1 /\ Len(s) \in Nat
        /\ \A i \in 1..Len(s) : t[i] = s[i]
        /\ t[Len(s) + 1] = u
    OBVIOUS
  <1> QED
    BY <1>1 DEF NoneTwice

LEMMA OnceInit == Init => ShutteredOnce /\ LateIsMissing
  BY DEF Init, ShutteredOnce, NoneTwice, LateIsMissing

LEMMA OnceStep ==
  ASSUME TypeOK, PlaceInv, ShutteredOnce, LateIsMissing, [Next]_vars
  PROVE  ShutteredOnce' /\ LateIsMissing'
  <1>0. /\ topic \in Seq(Caller) /\ recorded \in Seq(Caller)
        /\ \A c \in late : c \in Call /\ c.by \in Caller
    BY DEF TypeOK, Call
  <1> USE DEF Step
  <1>1. ASSUME UNCHANGED <<topic, recorded>>, late' \subseteq late
        PROVE  ShutteredOnce' /\ LateIsMissing'
    BY <1>1 DEF ShutteredOnce, LateIsMissing, Published, Recorded
  <1>2. ASSUME NEW r \in Caller, PublishEvent(r)
        PROVE  ShutteredOnce' /\ LateIsMissing'
    <2>1. /\ ~Published(r) /\ \A c \in late : c.by # r
          /\ topic' = Append(topic, r) /\ UNCHANGED <<recorded, late>>
      BY <1>2 DEF PublishEvent, PlaceInv, InPlace
    <2>2. NoneTwice(topic')
      BY <1>0, <2>1, OnceAppended DEF ShutteredOnce, Published
    <2>3. \A q \in Caller \ {r} : Published(q)' => Published(q)
      BY <1>0, <2>1, AppendedThen DEF Published
    <2> QED
      BY <1>0, <2>1, <2>2, <2>3 DEF ShutteredOnce, LateIsMissing, Recorded
  <1>3. ASSUME NEW r \in Caller, RegisterShuttering(r)
        PROVE  ShutteredOnce' /\ LateIsMissing'
    <2>1. /\ ~Recorded(r) /\ \A c \in late : c.by # r
          /\ recorded' = Append(recorded, r) /\ UNCHANGED <<topic, late>>
      BY <1>3 DEF RegisterShuttering, PlaceInv, InPlace
    <2>2. NoneTwice(recorded')
      BY <1>0, <2>1, OnceAppended DEF ShutteredOnce, Recorded
    <2>3. \A q \in Caller \ {r} : Recorded(q)' => Recorded(q)
      BY <1>0, <2>1, AppendedThen DEF Recorded
    <2> QED
      BY <1>0, <2>1, <2>2, <2>3 DEF ShutteredOnce, LateIsMissing, Published
  <1>4. ASSUME NEW r \in Caller, CallFails(r) \/ Dies(r)
        PROVE  ShutteredOnce' /\ LateIsMissing'
    <2>1. /\ UNCHANGED <<topic, recorded>>
          /\ \/ late' \subseteq late
             \/ /\ stage[r] \in {"publish", "register"}
                /\ late' = late \cup {[by |-> r, call |-> stage[r]]}
      BY <1>4 DEF CallFails, Dies, LeavesCall
    <2>2. /\ stage[r] = "publish" => ~Published(r)
          /\ stage[r] = "register" => ~Recorded(r)
      BY DEF PlaceInv, InPlace
    <2> QED
      BY <1>1, <2>1, <2>2 DEF ShutteredOnce, LateIsMissing, Published, Recorded
  <1>5. ASSUME NEW c \in late, ArrivesLate(c)
        PROVE  ShutteredOnce' /\ LateIsMissing'
    <2>0. /\ late' = late \ {c} /\ c.by \in Caller
          /\ \A d \in late' : d.by = c.by => d.call # c.call
      BY <1>0, <1>5 DEF ArrivesLate, Call
    <2>1. CASE c.call = "publish" /\ topic' = Append(topic, c.by) /\ UNCHANGED recorded
      <3>1. NoneTwice(topic')
        BY <1>0, <2>0, <2>1, OnceAppended DEF ShutteredOnce, LateIsMissing, Published
      <3>2. \A q \in Caller \ {c.by} : Published(q)' => Published(q)
        BY <1>0, <2>0, <2>1, AppendedThen DEF Published
      <3> QED
        BY <1>0, <2>0, <2>1, <3>1, <3>2 DEF ShutteredOnce, LateIsMissing, Recorded
    <2>2. CASE c.call = "register" /\ recorded' = Append(recorded, c.by) /\ UNCHANGED topic
      <3>1. NoneTwice(recorded')
        BY <1>0, <2>0, <2>2, OnceAppended DEF ShutteredOnce, LateIsMissing, Recorded
      <3>2. \A q \in Caller \ {c.by} : Recorded(q)' => Recorded(q)
        BY <1>0, <2>0, <2>2, AppendedThen DEF Recorded
      <3> QED
        BY <1>0, <2>0, <2>2, <3>1, <3>2 DEF ShutteredOnce, LateIsMissing, Published
    <2> QED
      BY <1>5, <2>1, <2>2 DEF ArrivesLate
  <1>6. CASE (\E r \in Caller : Arrives(r) \/ Authorise(r)) \/ Deliver \/ AllOver \/ UNCHANGED vars
    BY <1>1, <1>6 DEF Arrives, Authorise, Deliver, AllOver, vars
  <1> QED
    BY <1>2, <1>3, <1>4, <1>5, <1>6 DEF Next

\* The event of a request is published once at most and its registration made once
\* at most, be the call answered, failed, late or the last thing its process did:
\* a request never comes back over a later one.
THEOREM ShutteringOnce == Spec => []ShutteredOnce
  <1>1. Init => ShutteredOnce /\ LateIsMissing
    BY OnceInit
  <1>2. TypeOK /\ PlaceInv /\ ShutteredOnce /\ LateIsMissing /\ [Next]_vars
          => (ShutteredOnce /\ LateIsMissing)'
    BY OnceStep
  <1>3. ShutteringInv => TypeOK /\ PlaceInv
    BY DEF ShutteringInv
  <1> QED
    BY <1>1, <1>2, <1>3, ShutteringInvariance, PTL DEF Spec
=============================================================================
