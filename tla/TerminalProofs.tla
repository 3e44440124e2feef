--------------------------- MODULE TerminalProofs ---------------------------
(***************************************************************************)
(* Proofs about Terminal, for any length of a second and any longest       *)
(* lifetimes that are whole seconds or not.                                *)
(*                                                                         *)
(*   TypeOK      every variable has its type                               *)
(*   MessageInv  the lifetime published is what was left when the handler  *)
(*               decided, and is in place from the publish on              *)
(*   OpenInv     what the proxy has opened is of that message              *)
(*   RecordInv   what has been published and recorded at each stage        *)
(*                                                                         *)
(* At the end, that a terminal implements Launches.                        *)
(***************************************************************************)
EXTENDS Terminal, TLAPS

-----------------------------------------------------------------------------
(* Arithmetic. *)

\* A number of whole seconds is within a second of what it is made of.
LEMMA WholeSeconds ==
  ASSUME NEW n \in Nat
  PROVE  /\ n \div Second \in Nat
         /\ Second * (n \div Second) \in Nat
         /\ Second * (n \div Second) <= n
         /\ n < Second * (n \div Second) + Second
  <1>1. Second \in Nat /\ Second > 0
    BY TimeAssumption
  <1>2. n \div Second \in Nat
    BY <1>1
  <1>3. Second * (n \div Second) <= n
    BY <1>1
  <1>4. n < Second * (n \div Second) + Second
    BY <1>1
  <1> QED
    BY <1>1, <1>2, <1>3, <1>4

\* What a lifetime may be.
LifetimeOf(env, expires, now, seconds) ==
  LET max == now + MaxLifetime(env)
      end == now + Second * seconds
  IN  /\ end >= now /\ end <= max
      /\ expires # NoExpiry /\ expires >= now => end <= expires
      /\ expires # NoExpiry /\ expires < now => end = now
      /\ \/ end + Second > max
         \/ expires # NoExpiry /\ end + Second > expires

LEMMA LifetimeIsRight ==
  ASSUME NEW env, NEW expires \in Nat \cup {NoExpiry}, NEW now \in Nat
  PROVE  /\ Lifetime(env, expires, now) \in Nat
         /\ LifetimeOf(env, expires, now, Lifetime(env, expires, now))
  <1> DEFINE max == now + MaxLifetime(env)
             end == IF expires # NoExpiry /\ expires < max THEN expires ELSE max
             s == Lifetime(env, expires, now)
  <1>1. MaxLifetime(env) \in Nat
    BY TimeAssumption DEF MaxLifetime
  <1>2. Second \in Nat /\ Second > 0
    BY TimeAssumption
  <1>3. end \in Nat /\ max \in Nat
    BY <1>1 DEF NoExpiry
  <1>4. CASE end < now
    <2>1. s = 0
      BY <1>4 DEF Lifetime
    <2>2. expires # NoExpiry /\ expires < now /\ expires < max
      BY <1>1, <1>4
    <2>3. Second * s = 0
      BY <1>2, <2>1
    <2> QED
      BY <1>1, <1>2, <2>1, <2>2, <2>3 DEF LifetimeOf, NoExpiry
  <1>5. CASE end >= now
    <2>1. end - now \in Nat
      BY <1>3, <1>5
    <2>2. s = (end - now) \div Second
      BY <1>3, <1>5 DEF Lifetime
    <2>3. /\ s \in Nat /\ Second * s \in Nat
          /\ Second * s <= end - now /\ end - now < Second * s + Second
      BY <2>1, <2>2, WholeSeconds
    <2> DEFINE t == Second * s
    <2>4. t \in Nat /\ t <= end - now /\ end - now < t + Second
      BY <2>3
    <2> HIDE DEF t
    <2>5. /\ now + t >= now /\ now + t <= max
          /\ expires # NoExpiry /\ expires >= now => now + t <= expires
          /\ expires # NoExpiry /\ expires < now => now + t = now
          /\ \/ now + t + Second > max
             \/ expires # NoExpiry /\ now + t + Second > expires
      BY <1>1, <1>2, <1>3, <1>5, <2>4 DEF NoExpiry
    <2> QED
      BY <2>3, <2>5 DEF LifetimeOf, t
  <1> QED
    BY <1>3, <1>4, <1>5

-----------------------------------------------------------------------------
(* Types. *)

LEMMA TypeInit == Init => TypeOK
  BY TimeAssumption DEF Init, TypeOK, NoMessage, NotOpened, Call

LEMMA TypeStep == TypeOK /\ [Next]_vars => TypeOK'
  <1> SUFFICES ASSUME TypeOK, [Next]_vars
               PROVE  TypeOK'
    OBVIOUS
  <1> USE TimeAssumption DEF TypeOK, handlerVars
  <1>1. ASSUME Arrives
        PROVE  TypeOK'
    <2>1. request' \in Request
      BY <1>1 DEF Arrives, Request
    <2> QED
      BY <1>1, <2>1 DEF Arrives
  <1>2. ASSUME ReadEntity
        PROVE  TypeOK'
    <2>1. request \in Request /\ request.expires \in Nat \cup {NoExpiry} /\ clock \in Nat
      BY <1>2 DEF ReadEntity, Request
    <2>2. Lifetime(request.env, request.expires, clock) \in Nat
      BY <2>1, LifetimeIsRight
    <2>3. message' \in [seconds : Nat, at : 0..Horizon]
      BY <1>2, <2>2 DEF ReadEntity
    <2> QED
      BY <1>2, <2>3 DEF ReadEntity
  <1>3. ASSUME Refuse
        PROVE  TypeOK'
    BY <1>3 DEF Refuse
  <1>4. ASSUME Publish \/ RecordSession \/ SessionInvalid
        PROVE  TypeOK'
    BY <1>4 DEF Publish, RecordSession, SessionInvalid
  <1>5. ASSUME CallFails
        PROVE  TypeOK'
    BY <1>5 DEF CallFails, Call
  <1>6. ASSUME Dies
        PROVE  TypeOK'
    BY <1>6 DEF Dies, Call
  <1>7. ASSUME NEW call \in late, ArrivesLate(call)
        PROVE  TypeOK'
    BY <1>7 DEF ArrivesLate
  <1>8. ASSUME Open
        PROVE  TypeOK'
    <2>1. Second * message.seconds \in Nat /\ clock \in Nat
      OBVIOUS
    <2>2. opened' \in [from : Nat, until : Nat \cup {-1}]
      BY <1>8, <2>1 DEF Open
    <2> QED
      BY <1>8, <2>2 DEF Open
  <1>9. ASSUME Tick
        PROVE  TypeOK'
    BY <1>9 DEF Tick
  <1>10. ASSUME Over \/ UNCHANGED vars
         PROVE  TypeOK'
    BY <1>10 DEF Over, vars
  <1> QED
    BY <1>1, <1>2, <1>3, <1>4, <1>5, <1>6, <1>7, <1>8, <1>9, <1>10 DEF Next

\* Every variable keeps its type; the number of seconds published is a natural number.
THEOREM TypesCorrect == Spec => []TypeOK
  BY TypeInit, TypeStep, PTL DEF Spec

-----------------------------------------------------------------------------
(* The lifetime. *)

\* Has the message been made?
Made == stage \in {"publish", "record", "ok", "failed"} \/ sent = "yes" \/ "publish" \in late

MessageInv ==
  /\ stage \in {"none", "entity", "refused", "publish"} => sent = "no" /\ late = {}
  /\ Made => /\ stage # "none"
             /\ message.at <= clock
             /\ LifetimeOf(request.env, request.expires, message.at, message.seconds)

OpenInv ==
  opened # NotOpened =>
    /\ sent = "yes"
    /\ opened.from >= message.at
    /\ opened.until = opened.from + Second * message.seconds

LifetimeInv == MessageInv /\ OpenInv

LEMMA LifetimeInit == Init => LifetimeInv
  BY DEF Init, LifetimeInv, MessageInv, OpenInv, Made

LEMMA LifetimeStep == TypeOK /\ LifetimeInv /\ [Next]_vars => LifetimeInv'
  <1> SUFFICES ASSUME TypeOK, LifetimeInv, [Next]_vars
               PROVE  LifetimeInv'
    OBVIOUS
  <1> USE DEF LifetimeInv, MessageInv, OpenInv, Made, handlerVars
  <1>1. ASSUME Arrives
        PROVE  LifetimeInv'
    BY <1>1 DEF Arrives
  <1>2. ASSUME ReadEntity
        PROVE  LifetimeInv'
    <2>1. request \in Request /\ request.expires \in Nat \cup {NoExpiry} /\ clock \in Nat
      BY <1>2 DEF ReadEntity, TypeOK, Request
    <2>2. stage = "entity" /\ UNCHANGED <<clock, request, sent, opened, late>>
      BY <1>2 DEF ReadEntity
    <2>3. CASE stage' = "publish"
      <3>1. message' = [seconds |-> Lifetime(request.env, request.expires, clock), at |-> clock]
        BY <1>2, <2>3 DEF ReadEntity
      <3>2. LifetimeOf(request.env, request.expires, message'.at, message'.seconds)
        BY <2>1, <3>1, LifetimeIsRight
      <3>3. message'.at = clock
        BY <3>1
      <3>4. opened = NotOpened /\ sent = "no"
        BY <2>2
      <3> QED
        BY <2>1, <2>2, <2>3, <3>2, <3>3, <3>4 DEF LifetimeOf
    <2>4. CASE stage' = "refused"
      BY <1>2, <2>2, <2>4 DEF ReadEntity
    <2> QED
      BY <1>2, <2>3, <2>4 DEF ReadEntity
  <1>3. ASSUME Refuse
        PROVE  LifetimeInv'
    BY <1>3 DEF Refuse, LifetimeOf
  <1>4. ASSUME Publish \/ RecordSession \/ SessionInvalid
        PROVE  LifetimeInv'
    BY <1>4 DEF Publish, RecordSession, SessionInvalid, LifetimeOf
  <1>5. ASSUME CallFails \/ Dies
        PROVE  LifetimeInv'
    BY <1>5 DEF CallFails, Dies, LifetimeOf
  <1>6. ASSUME NEW call \in late, ArrivesLate(call)
        PROVE  LifetimeInv'
    BY <1>6 DEF ArrivesLate, LifetimeOf
  <1>7. ASSUME Open
        PROVE  LifetimeInv'
    <2>1. message.at <= clock
      BY <1>7 DEF Open
    <2>2. opened' = [from |-> clock, until |-> clock + Second * message.seconds]
      BY <1>7 DEF Open
    <2> QED
      BY <1>7, <2>1, <2>2 DEF Open, LifetimeOf
  <1>8. ASSUME Tick
        PROVE  LifetimeInv'
    BY <1>8 DEF Tick, LifetimeOf, TypeOK
  <1>9. ASSUME Over \/ UNCHANGED vars
        PROVE  LifetimeInv'
    BY <1>9 DEF Over, vars, LifetimeOf
  <1> QED
    BY <1>1, <1>2, <1>3, <1>4, <1>5, <1>6, <1>7, <1>8, <1>9 DEF Next

LEMMA LifetimeCloses == TypeOK /\ LifetimeInv => ClosesWhenAsked
  <1> SUFFICES ASSUME TypeOK, LifetimeInv, opened # NotOpened
               PROVE  ClosesWhenAsked
    BY DEF ClosesWhenAsked
  <1> DEFINE t == Second * message.seconds
             max == message.at + MaxLifetime(request.env)
  <1>1. opened.from >= message.at /\ opened.until = opened.from + t
    BY DEF LifetimeInv, OpenInv
  <1>2. LifetimeOf(request.env, request.expires, message.at, message.seconds)
    BY DEF LifetimeInv, MessageInv, OpenInv, Made
  <1>3. /\ message.at \in Nat /\ t \in Nat /\ opened.from \in Nat
        /\ MaxLifetime(request.env) \in Nat
    BY TimeAssumption DEF TypeOK, MaxLifetime
  <1>4. opened.until - (opened.from - message.at) = message.at + t
    BY <1>1, <1>3
  <1>5. /\ message.at + t >= message.at /\ message.at + t <= max
        /\ request.expires # NoExpiry /\ request.expires >= message.at =>
             message.at + t <= request.expires
        /\ request.expires # NoExpiry /\ request.expires < message.at =>
             message.at + t = message.at
        /\ \/ message.at + t + Second > max
           \/ request.expires # NoExpiry /\ message.at + t + Second > request.expires
    BY <1>2 DEF LifetimeOf
  <1>6. message.at + t \in message.at..max
    BY <1>3, <1>5
  <1> QED
    BY <1>1, <1>4, <1>5, <1>6 DEF ClosesWhenAsked

\* A terminal closes when it was asked to or when its environment says, within a
\* second, and at once if that was over before the handler decided.
THEOREM TerminalClosesWhenAsked == Spec => []ClosesWhenAsked
  <1>1. Spec => []LifetimeInv
    BY TypesCorrect, LifetimeInit, LifetimeStep, PTL DEF Spec
  <1> QED
    BY <1>1, TypesCorrect, LifetimeCloses, PTL

-----------------------------------------------------------------------------
(* The record. *)

RecordInv ==
  /\ stage \in {"none", "entity", "refused", "publish"} => recorded = "no" /\ late = {}
  /\ stage \in {"record", "ok"} => sent = "yes"
  /\ recorded = "yes" \/ "record" \in late => sent = "yes"
  /\ stage = "ok" => \/ recorded = "yes"
                     \/ "record" \in failing
                     \/ request.named = "no"

LEMMA RecordInit == Init => RecordInv
  BY DEF Init, RecordInv

LEMMA RecordStep == TypeOK /\ RecordInv /\ [Next]_vars => RecordInv'
  <1> SUFFICES ASSUME TypeOK, RecordInv, [Next]_vars
               PROVE  RecordInv'
    OBVIOUS
  <1> USE DEF RecordInv, handlerVars
  <1>1. ASSUME Arrives \/ ReadEntity \/ Refuse
        PROVE  RecordInv'
    BY <1>1 DEF Arrives, ReadEntity, Refuse
  <1>2. ASSUME Publish \/ RecordSession \/ SessionInvalid
        PROVE  RecordInv'
    BY <1>2 DEF Publish, RecordSession, SessionInvalid
  <1>3. ASSUME CallFails
        PROVE  RecordInv'
    BY <1>3 DEF CallFails
  <1>4. ASSUME Dies
        PROVE  RecordInv'
    BY <1>4 DEF Dies, Call
  <1>5. ASSUME NEW call \in late, ArrivesLate(call)
        PROVE  RecordInv'
    BY <1>5 DEF ArrivesLate, TypeOK
  <1>6. ASSUME Open \/ Tick
        PROVE  RecordInv'
    BY <1>6 DEF Open, Tick
  <1>7. ASSUME Over \/ UNCHANGED vars
        PROVE  RecordInv'
    BY <1>7 DEF Over, vars
  <1> QED
    BY <1>1, <1>2, <1>3, <1>4, <1>5, <1>6, <1>7 DEF Next

\* A token and a session in the portal are of a terminal that was asked for, and a
\* session the portal misses is missing for a reason.
THEOREM UnrecordedExplained == Spec => []UnrecordedIsExplained
  <1>1. Spec => []RecordInv
    BY TypesCorrect, RecordInit, RecordStep, PTL DEF Spec
  <1>2. RecordInv => UnrecordedIsExplained
    BY DEF RecordInv, UnrecordedIsExplained
  <1> QED
    BY <1>1, <1>2, PTL

-----------------------------------------------------------------------------
(* The terminal is a launch: the abstract specification is Launches, with  *)
(* one job, the terminal.                                                  *)

\* What a terminal is launched with: for whom and where, for how long.
Asked == [request |-> request, message |-> message]

Nothing == [request |-> NoRequest, message |-> NoMessage]

L == INSTANCE Launches WITH
       Job <- {"terminal"},
       Content <- [request : Request, message : [seconds : Nat, at : Nat]],
       Nothing <- Nothing,
       launched <- [j \in {"terminal"} |-> IF sent = "yes" THEN Asked ELSE Nothing],
       shown <- [j \in {"terminal"} |-> IF recorded = "yes" THEN Asked ELSE Nothing],
       started <- {j \in {"terminal"} : opened # NotOpened},
       stopped <- {}

LEMMA AskedIsSomething == request \in Request => Asked # Nothing
  BY AskedAssumption DEF Request, NoRequest, Asked, Nothing, Env, AdminEnv, LowerEnv

LEMMA LaunchInit == Init => L!LaunchInit
  BY DEF Init, L!LaunchInit

\* What was sent is what the handler made of the request, and neither changes.
LEMMA SentStays ==
  ASSUME TypeOK, LifetimeInv, RecordInv, [Next]_vars, sent = "yes"
  PROVE  sent' = "yes" /\ UNCHANGED <<request, message>> /\ request \in Request
  <1>1. stage \notin {"none", "entity"} /\ request \in Request
    BY DEF LifetimeInv, MessageInv, Made, TypeOK
  <1>2. CASE Refuse \/ Publish \/ RecordSession \/ SessionInvalid \/ CallFails \/ Dies
    BY <1>1, <1>2 DEF Refuse, Publish, RecordSession, SessionInvalid, CallFails, Dies
  <1>3. CASE (\E call \in late : ArrivesLate(call)) \/ Open \/ Tick \/ Over \/ UNCHANGED vars
    BY <1>1, <1>3 DEF ArrivesLate, Open, Tick, Over, vars, handlerVars
  <1> QED
    BY <1>1, <1>2, <1>3 DEF Next, Arrives, ReadEntity

LEMMA LaunchStep ==
  ASSUME TypeOK, LifetimeInv, RecordInv, [Next]_vars
  PROVE  [L!LaunchNext]_(L!launchVars)
  <1> USE DEF handlerVars
  <1>0. recorded = "yes" => sent = "yes"
    BY DEF RecordInv
  <1>1. ASSUME sent = "no", sent' = "yes", UNCHANGED <<request, message, recorded, opened>>,
               request \in Request
        PROVE  L!Launch("terminal")
    <2>1. Asked \in [request : Request, message : [seconds : Nat, at : Nat]] /\ Asked' = Asked
      BY <1>1 DEF Asked, TypeOK
    <2> QED
      BY <1>0, <1>1, <2>1 DEF L!Launch
  <1>2. ASSUME sent = "yes", recorded = "no", recorded' = "yes",
               UNCHANGED <<request, message, sent, opened>>, request \in Request
        PROVE  L!Show("terminal")
    <2>1. Asked # Nothing /\ Asked' = Asked
      BY <1>2, AskedIsSomething DEF Asked
    <2> QED
      BY <1>2, <2>1 DEF L!Show
  <1>3. ASSUME Open
        PROVE  L!Start("terminal")
    <2>1. sent = "yes" /\ request \in Request /\ opened = NotOpened
      BY <1>3, SentStays DEF Open
    <2>2. opened'.from = clock /\ opened'.until = clock + Second * message.seconds
      BY <1>3 DEF Open
    <2>3. Second * message.seconds \in Nat /\ clock \in Nat
      BY TimeAssumption DEF TypeOK
    <2>4. opened' # NotOpened
      BY <2>2, <2>3 DEF NotOpened
    <2>5. UNCHANGED <<request, message, sent, recorded>>
      BY <1>3 DEF Open
    <2> QED
      BY <2>1, <2>4, <2>5, AskedIsSomething DEF L!Start, Asked
  <1>4. ASSUME UNCHANGED <<request, message, sent, recorded, opened>>
        PROVE  UNCHANGED L!launchVars
    BY <1>4 DEF L!launchVars, Asked
  <1>5. ASSUME sent = "no", UNCHANGED <<sent, recorded, opened>>
        PROVE  UNCHANGED L!launchVars
    BY <1>0, <1>5 DEF L!launchVars
  <1>6. CASE Arrives \/ ReadEntity
    <2>1. sent = "no" /\ UNCHANGED <<sent, recorded, opened>>
      BY <1>6 DEF Arrives, ReadEntity, LifetimeInv, MessageInv
    <2> QED
      BY <1>5, <2>1
  <1>7. CASE Publish
    BY <1>1, <1>7 DEF Publish, LifetimeInv, MessageInv, TypeOK, L!LaunchNext
  <1>8. CASE RecordSession
    <2>1. sent = "yes" /\ recorded' = "yes" /\ UNCHANGED <<request, message, sent, opened>>
      BY <1>8 DEF RecordSession, RecordInv
    <2> QED
      BY <1>2, <1>4, <2>1, SentStays DEF TypeOK, L!LaunchNext
  <1>9. CASE \E call \in late : ArrivesLate(call)
    <2>1. PICK call \in late : ArrivesLate(call)
      BY <1>9
    <2>2. UNCHANGED <<request, message, opened>> /\ request \in Request
      BY <2>1 DEF ArrivesLate, LifetimeInv, MessageInv, TypeOK
    <2>3. CASE call = "publish"
      BY <1>1, <1>4, <2>1, <2>2, <2>3 DEF ArrivesLate, TypeOK, L!LaunchNext
    <2>4. CASE call = "record"
      BY <1>2, <1>4, <2>1, <2>2, <2>4 DEF ArrivesLate, RecordInv, TypeOK, L!LaunchNext
    <2> QED
      BY <2>1, <2>3, <2>4 DEF ArrivesLate
  <1>10. CASE UNCHANGED <<request, message, sent, recorded, opened>>
    BY <1>4, <1>10
  <1> QED
    BY <1>1, <1>3, <1>6, <1>7, <1>8, <1>9, <1>10 DEF L!LaunchNext, Next, vars, Refuse,
         SessionInvalid, CallFails, Dies, Tick, Over

ImplementsLaunches == L!LaunchSpec

\* A terminal is a launch like those of Jobs: it is published at most once, with
\* one request and one lifetime that never change after; the portal shows no
\* session that was not published, and shows it as it was published; the proxy
\* opens nothing else.
THEOREM TerminalImplementsLaunches == Spec => ImplementsLaunches
  <1>1. Spec => [](LifetimeInv /\ RecordInv)
    BY TypesCorrect, LifetimeInit, LifetimeStep, RecordInit, RecordStep, PTL DEF Spec
  <1>2. Init => L!LaunchInit
    BY LaunchInit
  <1>3. TypeOK /\ LifetimeInv /\ RecordInv /\ [Next]_vars => [L!LaunchNext]_(L!launchVars)
    BY LaunchStep
  <1> QED
    BY <1>1, <1>2, <1>3, TypesCorrect, PTL DEF Spec, ImplementsLaunches, L!LaunchSpec
=============================================================================
