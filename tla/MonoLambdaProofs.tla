-------------------------- MODULE MonoLambdaProofs --------------------------
(***************************************************************************)
(* What the requests to the mono lambda guarantee, for every number of     *)
(* requests and every list of environments without repetition.             *)
(*                                                                         *)
(*   TypeOK    every variable has its type                                 *)
(*   KeyInv    a key has one message, sent once its request is admitted,   *)
(*             and works only where that message has arrived               *)
(*   LoopInv   how far the messages of a republisher go                    *)
(***************************************************************************)
EXTENDS MonoLambda, TLAPS

Messages == topic \cup late

\* A key has only its own message, and none before its request is through.
KeyPlaced(k) ==
  /\ stage[k] = "ok" => AddKey(k) \in topic
  /\ \A m \in Messages : m.by = k => m = AddKey(k) /\ stage[k] \in {"ok", "failed", "dead"}
  /\ \A e \in Env : \A key \in keys[e] :
       key.key = k => AddKey(k) \in topic /\ e = asked[k] /\ key.ttl = Ttl(e)

KeyInv == \A k \in KeyRequest : KeyPlaced(k)

\* The loop has published what it has passed, and nothing it has not come to.
LoopPlaced(r) ==
  /\ stage[r] = "ok" => at[r] = Len(EnvironmentsOf) + 1
  /\ \A i \in 1..Len(EnvironmentsOf) :
       /\ i < at[r] => PublishStateOf(r, EnvironmentsOf[i]) \in topic
       /\ i > at[r] => PublishStateOf(r, EnvironmentsOf[i]) \notin Messages

LoopInv == \A r \in Republisher : LoopPlaced(r)

-----------------------------------------------------------------------------
(* Types. *)

\* There is an environment: production.
LEMMA SomeEnvironment == Len(EnvironmentsOf) \in Nat /\ Len(EnvironmentsOf) >= 1
  <1>1. Len(EnvironmentsOf) \in Nat
    BY EnvironmentsAssumption
  <1>2. PICK i \in 1..Len(EnvironmentsOf) : EnvironmentsOf[i] = Prod
    BY EnvironmentsAssumption DEF Env
  <1> QED
    BY <1>1, <1>2

\* Where a loop is, and the environment there.
LEMMA HereIsTyped ==
  ASSUME TypeOK, NEW r \in Republisher, stage[r] = "publish"
  PROVE  /\ at[r] \in 1..Len(EnvironmentsOf) /\ at[r] \in Nat /\ Len(EnvironmentsOf) \in Nat
         /\ EnvironmentsOf[at[r]] \in Env
  BY EnvironmentsAssumption DEF TypeOK

LEMMA SendsIsTyped ==
  ASSUME TypeOK, NEW x \in Request, stage[x] = "publish"
  PROVE  Sends(x) \in Message /\ Sends(x).by = x
  <1>1. CASE x \in KeyRequest
    <2>1. asked[x] \in Env /\ Ttl(asked[x]) \in Hours
      BY <1>1 DEF TypeOK, Ttl, Hours
    <2> QED
      BY <1>1, <2>1 DEF Sends, AddKey, Message
  <1>2. CASE x \notin KeyRequest
    <2>1. EnvironmentsOf[at[x]] \in Env
      BY <1>2, HereIsTyped DEF Request
    <2> QED
      BY <1>2, <2>1 DEF Sends, PublishStateOf, Message, Hours
  <1> QED
    BY <1>1, <1>2

LEMMA TypeInit == Init => TypeOK
  <1> SUFFICES ASSUME Init
               PROVE  TypeOK
    OBVIOUS
  <1>1. Len(EnvironmentsOf) \in Nat /\ Len(EnvironmentsOf) >= 1
    BY SomeEnvironment
  <1>2. \A r \in Republisher : at[r] <= Len(EnvironmentsOf)
    BY <1>1 DEF Init
  <1>3. at \in [Republisher -> 1..(Len(EnvironmentsOf) + 1)]
    BY <1>1 DEF Init
  <1>4. keys \in [Env -> SUBSET [key : KeyRequest, ttl : Hours]]
    BY DEF Init
  <1>5. stage \in [Request -> {"none", "publish", "ok", "refused", "failed", "dead"}]
    BY DEF Init
  <1> QED
    BY <1>2, <1>3, <1>4, <1>5 DEF Init, TypeOK

LEMMA TypeStep == TypeOK /\ [Next]_vars => TypeOK'
  <1> SUFFICES ASSUME TypeOK, [Next]_vars
               PROVE  TypeOK'
    OBVIOUS
  <1> USE DEF requestVars
  <1>0. Len(EnvironmentsOf) \in Nat /\ Len(EnvironmentsOf) >= 1
    BY SomeEnvironment
  <1>1. ASSUME NEW x \in Request, Arrives(x)
        PROVE  TypeOK'
    <2>1. \A r \in Republisher : r \in Request
      BY DEF Request
    <2>2. \A r \in Republisher : stage'[r] \in {"none", "publish"} => at[r] <= Len(EnvironmentsOf)
      BY <1>1, <2>1 DEF TypeOK, Arrives
    <2> QED
      BY <1>1, <2>2 DEF TypeOK, Arrives
  <1>2. ASSUME NEW x \in Request, Refuse(x)
        PROVE  TypeOK'
    BY <1>2 DEF TypeOK, Refuse, Request
  <1>3. ASSUME NEW x \in Request, PublishFails(x) \/ Dies(x)
        PROVE  TypeOK'
    <2>1. late' \subseteq Message
      BY <1>3, SendsIsTyped DEF TypeOK, PublishFails, Dies
    <2> QED
      BY <1>3, <2>1 DEF TypeOK, PublishFails, Dies, Request
  <1>4. ASSUME NEW k \in KeyRequest, PublishKey(k)
        PROVE  TypeOK'
    <2>1. k \in Request /\ Sends(k) = AddKey(k)
      BY DEF Request, Sends
    <2>2. topic' \subseteq Message
      BY <1>4, <2>1, SendsIsTyped DEF TypeOK, PublishKey
    <2> QED
      BY <1>4, <2>1, <2>2 DEF TypeOK, PublishKey, Request
  <1>5. ASSUME NEW r \in Republisher, Republish(r)
        PROVE  TypeOK'
    <2>1. r \in Request
      BY DEF Request
    <2>2. topic' \subseteq Message
      BY <1>5, <2>1, SendsIsTyped DEF TypeOK, Republish
    <2>3. at[r] \in 1..Len(EnvironmentsOf) /\ at[r] + 1 \in 1..(Len(EnvironmentsOf) + 1)
      BY <1>0, <1>5, HereIsTyped DEF Republish
    <2>4. at' \in [Republisher -> 1..(Len(EnvironmentsOf) + 1)]
      BY <1>5, <2>3 DEF TypeOK, Republish, NextEnvironment
    <2>5. \A x \in Republisher : stage'[x] \in {"none", "publish"} => at'[x] <= Len(EnvironmentsOf)
      BY <1>0, <1>5, <2>1, <2>3 DEF TypeOK, Republish, NextEnvironment
    <2> QED
      BY <1>5, <2>1, <2>2, <2>4, <2>5 DEF TypeOK, Republish, NextEnvironment
  <1>6. ASSUME NEW m \in late, ArrivesLate(m)
        PROVE  TypeOK'
    BY <1>6 DEF TypeOK, ArrivesLate
  <1>7. ASSUME NEW m \in topic, AddsKey(m)
        PROVE  TypeOK'
    <2>1. m.env \in Env /\ m.ttl \in Hours
      BY DEF TypeOK, Message
    <2> QED
      BY <1>7, <2>1 DEF TypeOK, AddsKey
  <1>8. CASE UNCHANGED vars
    BY <1>8 DEF TypeOK, vars
  <1> QED
    BY <1>1, <1>2, <1>3, <1>4, <1>5, <1>6, <1>7, <1>8 DEF Next, AllOver

\* Every reachable state of the requests is well-typed, and a loop that is not
\* over has an environment to publish.
THEOREM LambdaTyping == Spec => []TypeOK
  BY TypeInit, TypeStep, PTL DEF Spec

-----------------------------------------------------------------------------
(* The keys. *)

\* A step that adds no message of a key and moves nothing of its request.
LEMMA KeyStays ==
  ASSUME NEW k \in KeyRequest, KeyPlaced(k), asked' = asked, stage'[k] = stage[k],
         topic \subseteq topic', \A m \in Messages' : m.by = k => m \in Messages,
         keys' = keys
  PROVE  KeyPlaced(k)'
  BY DEF KeyPlaced, AddKey

LEMMA KeyInit == Init => KeyInv
  BY DEF Init, KeyInv, KeyPlaced, Messages, Request

LEMMA KeyStep == TypeOK /\ KeyInv /\ [Next]_vars => KeyInv'
  <1> SUFFICES ASSUME TypeOK, KeyInv, [Next]_vars, NEW k \in KeyRequest
               PROVE  KeyPlaced(k)'
    BY DEF KeyInv
  <1>0. KeyPlaced(k) /\ k \in Request
    BY DEF KeyInv, Request
  <1> USE DEF requestVars
  <1>1. ASSUME NEW x \in Request, Arrives(x) \/ Refuse(x)
        PROVE  KeyPlaced(k)'
    <2>1. /\ UNCHANGED <<asked, topic, late, keys, Messages>>
          /\ stage[x] = "none" /\ stage'[x] \in {"publish", "refused"}
          /\ \A y \in Request \ {x} : stage'[y] = stage[y]
      BY <1>1 DEF Arrives, Refuse, TypeOK, Messages
    <2>2. CASE x = k
      BY <1>0, <2>1, <2>2 DEF KeyPlaced, AddKey
    <2>3. CASE x # k
      BY <1>0, <2>1, <2>3, KeyStays
    <2> QED
      BY <2>2, <2>3
  <1>2. ASSUME NEW x \in Request, PublishFails(x) \/ Dies(x)
        PROVE  KeyPlaced(k)'
    <2>1. /\ UNCHANGED <<asked, topic, keys>>
          /\ stage[x] = "publish" /\ stage'[x] \in {"failed", "dead"}
          /\ \A y \in Request \ {x} : stage'[y] = stage[y]
          /\ Messages' \subseteq Messages \cup {Sends(x)}
          /\ Sends(x).by = x
      BY <1>2, SendsIsTyped DEF PublishFails, Dies, TypeOK, Messages
    <2>2. CASE x = k
      <3>1. Sends(x) = AddKey(k)
        BY <2>2 DEF Sends
      <3> QED
        BY <1>0, <2>1, <2>2, <3>1 DEF KeyPlaced, AddKey
    <2>3. CASE x # k
      BY <1>0, <2>1, <2>3, KeyStays
    <2> QED
      BY <2>2, <2>3
  <1>3. ASSUME NEW x \in KeyRequest, PublishKey(x)
        PROVE  KeyPlaced(k)'
    <2>1. /\ UNCHANGED <<asked, keys>>
          /\ stage[x] = "publish" /\ stage'[x] = "ok"
          /\ \A y \in Request \ {x} : stage'[y] = stage[y]
          /\ topic' = topic \cup {AddKey(x)} /\ Messages' = Messages \cup {AddKey(x)}
          /\ AddKey(x).by = x
      BY <1>3 DEF PublishKey, TypeOK, Messages, AddKey, Request
    <2>2. CASE x = k
      BY <1>0, <2>1, <2>2 DEF KeyPlaced, AddKey
    <2>3. CASE x # k
      BY <1>0, <2>1, <2>3, KeyStays
    <2> QED
      BY <2>2, <2>3
  <1>4. ASSUME NEW r \in Republisher, Republish(r)
        PROVE  KeyPlaced(k)'
    <2>1. r \in Request /\ r # k
      BY RequestAssumption DEF Request
    <2>2. /\ UNCHANGED <<asked, keys>>
          /\ \A y \in Request \ {r} : stage'[y] = stage[y]
          /\ topic \subseteq topic' /\ Messages' = Messages \cup {Sends(r)}
          /\ Sends(r).by = r
      BY <1>4, <2>1, SendsIsTyped DEF Republish, NextEnvironment, TypeOK, Messages
    <2> QED
      BY <1>0, <2>1, <2>2, KeyStays
  <1>5. ASSUME NEW m \in late, ArrivesLate(m)
        PROVE  KeyPlaced(k)'
    BY <1>0, <1>5, KeyStays DEF ArrivesLate, Messages
  <1>6. ASSUME NEW m \in topic, AddsKey(m)
        PROVE  KeyPlaced(k)'
    <2>1. /\ UNCHANGED <<stage, asked, topic, late, Messages>>
          /\ m \in Messages /\ m \in Message
          /\ \A e \in Env : keys'[e] \subseteq
               keys[e] \cup (IF e = m.env THEN {[key |-> m.by, ttl |-> m.ttl]} ELSE {})
      BY <1>6 DEF AddsKey, TypeOK, Messages
    <2>2. ASSUME NEW e \in Env, NEW key \in keys'[e], key.key = k, key \notin keys[e]
          PROVE  AddKey(k) \in topic /\ e = asked[k] /\ key.ttl = Ttl(e)
      <3>1. e = m.env /\ key.key = m.by /\ key.ttl = m.ttl
        BY <2>1, <2>2
      <3>2. m = AddKey(k)
        BY <1>0, <2>1, <2>2, <3>1 DEF KeyPlaced
      <3> QED
        BY <3>1, <3>2 DEF AddKey
    <2> QED
      BY <1>0, <2>1, <2>2 DEF KeyPlaced, AddKey
  <1>7. CASE UNCHANGED vars
    BY <1>0, <1>7, KeyStays DEF vars, Messages
  <1> QED
    BY <1>1, <1>2, <1>3, <1>4, <1>5, <1>6, <1>7 DEF Next, AllOver

-----------------------------------------------------------------------------
(* The loops. *)

\* A step that adds no message of a loop and moves nothing of it.
LEMMA LoopStays ==
  ASSUME NEW r \in Republisher, LoopPlaced(r), at'[r] = at[r],
         stage'[r] = "ok" => stage[r] = "ok",
         topic \subseteq topic', \A m \in Messages' : m.by = r => m \in Messages
  PROVE  LoopPlaced(r)'
  BY DEF LoopPlaced, PublishStateOf

LEMMA LoopInit == Init => LoopInv
  <1> SUFFICES ASSUME Init, NEW r \in Republisher
               PROVE  LoopPlaced(r)
    BY DEF LoopInv
  <1>1. stage[r] = "none" /\ at[r] = 1 /\ Messages = {}
    BY DEF Init, Request, Messages
  <1>2. \A i \in 1..Len(EnvironmentsOf) : ~(i < 1)
    BY SomeEnvironment
  <1> QED
    BY <1>1, <1>2 DEF LoopPlaced

LEMMA LoopStep == TypeOK /\ LoopInv /\ [Next]_vars => LoopInv'
  <1> SUFFICES ASSUME TypeOK, LoopInv, [Next]_vars, NEW r \in Republisher
               PROVE  LoopPlaced(r)'
    BY DEF LoopInv
  <1>0. LoopPlaced(r) /\ r \in Request
    BY DEF LoopInv, Request
  <1> USE DEF requestVars
  <1>1. ASSUME NEW x \in Request, Arrives(x) \/ Refuse(x)
        PROVE  LoopPlaced(r)'
    BY <1>0, <1>1, LoopStays DEF Arrives, Refuse, TypeOK, Messages
  <1>2. ASSUME NEW x \in Request, PublishFails(x) \/ Dies(x)
        PROVE  LoopPlaced(r)'
    <2>1. /\ UNCHANGED <<at, topic>>
          /\ stage'[r] = "ok" => stage[r] = "ok"
          /\ Messages' \subseteq Messages \cup {Sends(x)}
          /\ Sends(x).by = x /\ stage[x] = "publish"
      BY <1>0, <1>2, SendsIsTyped DEF PublishFails, Dies, TypeOK, Messages
    <2>2. CASE x = r
      <3>1. Sends(x) = PublishStateOf(r, EnvironmentsOf[at[r]])
        BY <2>2, RequestAssumption DEF Sends
      <3>2. at[r] \in 1..Len(EnvironmentsOf) /\ Len(EnvironmentsOf) \in Nat
        BY <2>1, <2>2, HereIsTyped
      <3>3. ASSUME NEW i \in 1..Len(EnvironmentsOf), i > at[r]
            PROVE  PublishStateOf(r, EnvironmentsOf[i]) \notin Messages'
        <4>1. EnvironmentsOf[i] # EnvironmentsOf[at[r]]
          BY <3>2, <3>3, EnvironmentsAssumption
        <4>2. PublishStateOf(r, EnvironmentsOf[i]) # Sends(x)
          BY <3>1, <4>1 DEF PublishStateOf
        <4> QED
          BY <1>0, <2>1, <3>3, <4>2 DEF LoopPlaced
      <3>4. stage'[r] # "ok"
        BY <1>0, <1>2, <2>2 DEF PublishFails, Dies, TypeOK
      <3>5. \A i \in 1..Len(EnvironmentsOf) :
              PublishStateOf(r, EnvironmentsOf[i])' = PublishStateOf(r, EnvironmentsOf[i])
        BY DEF PublishStateOf
      <3> QED
        BY <1>0, <2>1, <3>3, <3>4, <3>5 DEF LoopPlaced
    <2>3. CASE x # r
      BY <1>0, <2>1, <2>3, LoopStays
    <2> QED
      BY <2>2, <2>3
  <1>3. ASSUME NEW k \in KeyRequest, PublishKey(k)
        PROVE  LoopPlaced(r)'
    <2>1. k # r /\ AddKey(k).by = k
      BY RequestAssumption DEF AddKey
    <2>2. /\ UNCHANGED at /\ stage'[r] = stage[r] /\ topic \subseteq topic'
          /\ Messages' = Messages \cup {AddKey(k)}
      BY <1>0, <1>3, <2>1 DEF PublishKey, TypeOK, Messages
    <2> QED
      BY <1>0, <2>1, <2>2, LoopStays
  <1>4. ASSUME NEW x \in Republisher, Republish(x)
        PROVE  LoopPlaced(r)'
    <2>1. /\ at[x] \in 1..Len(EnvironmentsOf) /\ Len(EnvironmentsOf) \in Nat
          /\ Sends(x) = PublishStateOf(x, EnvironmentsOf[at[x]])
          /\ topic' = topic \cup {Sends(x)} /\ Messages' = Messages \cup {Sends(x)}
          /\ x \in Request
      BY <1>4, HereIsTyped, RequestAssumption DEF Republish, Sends, Messages, Request
    <2>2. CASE x = r
      <3>1. at'[r] = at[r] + 1
        BY <1>4, <2>2 DEF Republish, NextEnvironment, TypeOK
      <3>2. stage'[r] = "ok" => at[r] = Len(EnvironmentsOf)
        BY <1>0, <1>4, <2>2 DEF Republish, NextEnvironment, TypeOK
      <3>3. ASSUME NEW i \in 1..Len(EnvironmentsOf), i < at[r] + 1
            PROVE  PublishStateOf(r, EnvironmentsOf[i]) \in topic'
        <4>1. CASE i = at[r]
          BY <2>1, <2>2, <4>1
        <4>2. CASE i < at[r]
          BY <1>0, <2>1, <4>2 DEF LoopPlaced
        <4> QED
          BY <2>1, <2>2, <3>3, <4>1, <4>2
      <3>4. ASSUME NEW i \in 1..Len(EnvironmentsOf), i > at[r] + 1
            PROVE  PublishStateOf(r, EnvironmentsOf[i]) \notin Messages'
        <4>1. i > at[r] /\ i # at[r]
          BY <2>1, <2>2, <3>4
        <4>2. EnvironmentsOf[i] # EnvironmentsOf[at[r]]
          BY <2>1, <2>2, <4>1, EnvironmentsAssumption
        <4>3. PublishStateOf(r, EnvironmentsOf[i]) # Sends(x)
          BY <2>1, <2>2, <4>2 DEF PublishStateOf
        <4> QED
          BY <1>0, <2>1, <4>1, <4>3 DEF LoopPlaced
      <3>5. \A i \in 1..Len(EnvironmentsOf) :
              PublishStateOf(r, EnvironmentsOf[i])' = PublishStateOf(r, EnvironmentsOf[i])
        BY DEF PublishStateOf
      <3> QED
        BY <2>1, <3>1, <3>2, <3>3, <3>4, <3>5 DEF LoopPlaced
    <2>3. CASE x # r
      <3>1. at'[r] = at[r] /\ stage'[r] = stage[r] /\ Sends(x).by = x
        BY <1>0, <1>4, <2>1, <2>3 DEF Republish, NextEnvironment, TypeOK, PublishStateOf
      <3> QED
        BY <1>0, <2>1, <2>3, <3>1, LoopStays
    <2> QED
      BY <2>2, <2>3
  <1>5. ASSUME NEW m \in late, ArrivesLate(m)
        PROVE  LoopPlaced(r)'
    BY <1>0, <1>5, LoopStays DEF ArrivesLate, Messages
  <1>6. ASSUME NEW m \in topic, AddsKey(m)
        PROVE  LoopPlaced(r)'
    BY <1>0, <1>6, LoopStays DEF AddsKey, Messages
  <1>7. CASE UNCHANGED vars
    BY <1>0, <1>7, LoopStays DEF vars, Messages
  <1> QED
    BY <1>1, <1>2, <1>3, <1>4, <1>5, <1>6, <1>7 DEF Next, AllOver

-----------------------------------------------------------------------------
(* The theorem. *)

\* The answers of the two requests are true: a key that works was asked for by a
\* user who may, for that environment and its hours; a republish that is answered
\* 200 has published every environment, and any other exactly those before the
\* place where it stopped, the last of which alone is in doubt.
THEOREM LambdaAnswers == Spec => []AnswersAreTrue
  <1>1. TypeOK /\ KeyInv /\ LoopInv => AnswersAreTrue
    <2> SUFFICES ASSUME TypeOK, KeyInv, LoopInv
                 PROVE  AnswersAreTrue
      OBVIOUS
    <2>1. ASSUME NEW k \in KeyRequest
          PROVE  /\ stage[k] = "ok" => AddKey(k) \in topic
                 /\ \A e \in Env : \A key \in keys[e] :
                      key.key = k =>
                        /\ e = asked[k] /\ key.ttl = Ttl(e)
                        /\ stage[k] \in {"ok", "failed", "dead"}
      BY DEF KeyInv, KeyPlaced, Messages, AddKey
    <2>2. ASSUME NEW r \in Republisher, NEW i \in 1..Len(EnvironmentsOf)
          PROVE  /\ stage[r] = "ok" \/ i < at[r] => PublishStateOf(r, EnvironmentsOf[i]) \in topic
                 /\ i > at[r] => PublishStateOf(r, EnvironmentsOf[i]) \notin topic \cup late
      <3>1. stage[r] = "ok" => i < at[r]
        BY SomeEnvironment DEF LoopInv, LoopPlaced
      <3> QED
        BY <3>1 DEF LoopInv, LoopPlaced, Messages
    <2> QED
      BY <2>1, <2>2 DEF AnswersAreTrue
  <1>2. Init => TypeOK /\ KeyInv /\ LoopInv
    BY TypeInit, KeyInit, LoopInit
  <1>3. TypeOK /\ KeyInv /\ LoopInv /\ [Next]_vars => (TypeOK /\ KeyInv /\ LoopInv)'
    BY TypeStep, KeyStep, LoopStep
  <1> QED
    BY <1>1, <1>2, <1>3, PTL DEF Spec
=============================================================================
