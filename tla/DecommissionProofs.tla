------------------------- MODULE DecommissionProofs -------------------------
(***************************************************************************)
(* What a decommissioning guarantees, for every order of environments and  *)
(* every number of sweeps, removals and deployments.                       *)
(*                                                                         *)
(*   TypeOK      every variable has its type                               *)
(*   PlaceInv    what a sweep has done, and may yet do, at each place of   *)
(*               the order                                                 *)
(*   RemovalInv  which removals have a workflow                            *)
(*   ReachInv    how far a sweep has come, against how far it had read the *)
(*               entity when a removal took it                             *)
(*   FinalInv    the last message of an environment, or what runs there    *)
(*               when there is none, is what its sweeps made of it         *)
(***************************************************************************)
EXTENDS Decommission, TLAPS

-----------------------------------------------------------------------------
(* Types. *)

LEMMA HereIsTyped ==
  ASSUME TypeOK, NEW s \in Sweep, Sweeping(s)
  PROVE  /\ at[s] \in 1..Len(Order) /\ at[s] \in Nat /\ Len(Order) \in Nat
         /\ Here(s) \in Env /\ Here(s) = Order[at[s]]
  BY OrderAssumption DEF TypeOK, Here

LEMMA AdvanceTyped ==
  ASSUME TypeOK, NEW s \in Sweep, Sweeping(s), Advance(s)
  PROVE  /\ stage' \in [Sweep -> {"none", "entity", "look", "deploy", "ok", "failed", "dead"}]
         /\ at' \in [Sweep -> 1..(Len(Order) + 1)]
         /\ \A x \in Sweep : stage'[x] = "none" \/ Sweeping(x)' => at'[x] \in 1..Len(Order)
  <1>1. at[s] \in 1..Len(Order) /\ Len(Order) \in Nat
    BY HereIsTyped
  <1>2. at[s] + 1 \in 1..(Len(Order) + 1)
    BY <1>1
  <1>3. at[s] # Len(Order) => at[s] + 1 \in 1..Len(Order)
    BY <1>1
  <1> QED
    BY <1>1, <1>2, <1>3 DEF TypeOK, Advance, Sweeping

LEMMA ComesTyped ==
  ASSUME TypeOK, NEW s \in Sweep, Sweeping(s), NEW what \in Outcome, Comes(s, what)
  PROVE  outcome' \in [Sweep -> [Env -> Outcome]]
  BY HereIsTyped DEF TypeOK, Comes

LEMMA ComesOnly ==
  ASSUME TypeOK, NEW s \in Sweep, NEW what, Comes(s, what), NEW x \in Sweep, NEW e \in Env
  PROVE  outcome'[x][e] = IF x = s /\ e = Here(s) THEN what ELSE outcome[x][e]
  BY DEF TypeOK, Comes

LEMMA LeavesTyped ==
  ASSUME TypeOK, NEW s \in Sweep, Sweeping(s), LeavesCall(s)
  PROVE  late' \subseteq [by : Sweep, env : Env]
  BY HereIsTyped DEF TypeOK, LeavesCall

\* What is left of a queue from which one message has been taken.
LEMMA Shorter ==
  ASSUME NEW q \in Seq(Count), NEW i \in 1..Len(q)
  PROVE  [k \in 1..(Len(q) - 1) |-> IF k < i THEN q[k] ELSE q[k + 1]] \in Seq(Count)
  <1>1. Len(q) \in Nat /\ Len(q) - 1 \in Nat
    OBVIOUS
  <1>2. \A k \in 1..(Len(q) - 1) : k \in 1..Len(q) /\ k + 1 \in 1..Len(q)
    BY <1>1
  <1>3. \A k \in 1..Len(q) : q[k] \in Count
    OBVIOUS
  <1> DEFINE f == [k \in 1..(Len(q) - 1) |-> IF k < i THEN q[k] ELSE q[k + 1]]
  <1>4. f \in [1..(Len(q) - 1) -> Count]
    BY <1>2, <1>3
  <1> QED
    BY <1>1, <1>4

LEMMA TypeInit == Init => TypeOK
  BY OrderAssumption, BoundAssumption DEF Init, TypeOK, Count, Outcome, Sweeping

LEMMA SweepTypes ==
  ASSUME TypeOK, NEW s \in Sweep,
         Arrives(s) \/ ReadEntity(s) \/ NoEntity(s) \/ Look(s)
           \/ Deploy(s) \/ CallFails(s) \/ Dies(s)
  PROVE  TypeOK'
  <1> USE DEF sweepVars, outsideVars
  <1>1. CASE Arrives(s)
    BY <1>1 DEF Arrives, TypeOK, Sweeping
  <1>2. CASE NoEntity(s)
    BY <1>2 DEF NoEntity, TypeOK, Sweeping
  <1>3. CASE ReadEntity(s)
    <2>1. Sweeping(s)
      BY <1>3 DEF ReadEntity, Sweeping
    <2>2. CASE Advance(s) /\ (Comes(s, "not deployable") \/ Comes(s, "no zone"))
      <3>1. outcome' \in [Sweep -> [Env -> Outcome]]
        BY <2>1, <2>2, ComesTyped DEF Outcome
      <3> QED
        BY <1>3, <2>1, <2>2, <3>1, AdvanceTyped DEF ReadEntity, TypeOK
    <2>3. CASE stage' = [stage EXCEPT ![s] = "look"] /\ UNCHANGED <<at, outcome>>
      BY <1>3, <2>1, <2>3 DEF ReadEntity, TypeOK, Sweeping
    <2> QED
      BY <1>3, <2>2, <2>3 DEF ReadEntity
  <1>4. CASE Look(s)
    <2>1. Sweeping(s)
      BY <1>4 DEF Look, Sweeping
    <2>2. onItsWay' \in [Sweep -> SUBSET Env]
      BY <1>4, <2>1, HereIsTyped DEF Look, TypeOK
    <2>3. CASE Advance(s) /\ Comes(s, "nothing")
      <3>1. outcome' \in [Sweep -> [Env -> Outcome]]
        BY <2>1, <2>3, ComesTyped DEF Outcome
      <3> QED
        BY <1>4, <2>1, <2>2, <2>3, <3>1, AdvanceTyped DEF Look, TypeOK
    <2>4. CASE stage' = [stage EXCEPT ![s] = "deploy"] /\ UNCHANGED <<at, outcome>>
      BY <1>4, <2>1, <2>2, <2>4 DEF Look, TypeOK, Sweeping
    <2> QED
      BY <1>4, <2>3, <2>4 DEF Look
  <1>5. CASE Deploy(s)
    <2>1. Sweeping(s)
      BY <1>5 DEF Deploy, Sweeping
    <2>2. outcome' \in [Sweep -> [Env -> Outcome]]
      BY <1>5, <2>1, ComesTyped DEF Deploy, Outcome
    <2>3. topic' \in [Env -> Seq(Count)]
      BY <1>5, <2>1, HereIsTyped DEF Deploy, TypeOK, Count
    <2>4. zeroed' \in [Sweep -> SUBSET Env]
      BY <1>5, <2>1, HereIsTyped DEF Deploy, TypeOK
    <2> QED
      BY <1>5, <2>1, <2>2, <2>3, <2>4, AdvanceTyped DEF Deploy, TypeOK
  <1>6. CASE CallFails(s)
    <2>1. Sweeping(s)
      BY <1>6 DEF CallFails, Sweeping
    <2>2. outcome' \in [Sweep -> [Env -> Outcome]]
      BY <1>6, <2>1, ComesTyped DEF CallFails, Outcome
    <2>3. late' \subseteq [by : Sweep, env : Env]
      BY <1>6, <2>1, LeavesTyped DEF CallFails
    <2> QED
      BY <1>6, <2>1, <2>2, <2>3, AdvanceTyped DEF CallFails, TypeOK
  <1>7. CASE Dies(s)
    <2>1. late' \subseteq [by : Sweep, env : Env]
      BY <1>7, LeavesTyped DEF Dies
    <2> QED
      BY <1>7, <2>1 DEF Dies, TypeOK, Sweeping
  <1> QED
    BY <1>1, <1>2, <1>3, <1>4, <1>5, <1>6, <1>7

LEMMA OutsideTypes ==
  ASSUME TypeOK,
         \/ \E r \in Remover :
              RemovalArrives(r) \/ RemovalReads(r) \/ TriggerRemove(r) \/ RemovalFails(r)
         \/ \E c \in late : ArrivesLate(c)
         \/ \E e \in Env : Redeploy(e) \/ Deliver(e)
         \/ WorkflowRuns \/ AllOver \/ UNCHANGED vars
  PROVE  TypeOK'
  <1> USE DEF sweepVars, outsideVars, TypeOK, Sweeping
  <1>1. ASSUME NEW r \in Remover,
               RemovalArrives(r) \/ RemovalReads(r) \/ TriggerRemove(r) \/ RemovalFails(r)
        PROVE  TypeOK'
    <2>1. removal' \in [Remover -> {"none", "entity", "dispatch", "ok", "failed", "lost"}]
      BY <1>1 DEF RemovalArrives, RemovalReads, TriggerRemove, RemovalFails, RemovalStep
    <2>2. dispatched' \subseteq Remover
      BY <1>1 DEF RemovalArrives, RemovalReads, TriggerRemove, RemovalFails
    <2>3. UNCHANGED <<sweepVars, outsideVars, topic, late, zeroed>>
      BY <1>1 DEF RemovalArrives, RemovalReads, TriggerRemove, RemovalFails
    <2> QED
      BY <2>1, <2>2, <2>3
  <1>2. ASSUME NEW c \in late, ArrivesLate(c)
        PROVE  TypeOK'
    <2>1. c.by \in Sweep /\ c.env \in Env
      OBVIOUS
    <2>2. topic' \in [Env -> Seq(Count)]
      BY <1>2, <2>1 DEF ArrivesLate, Count
    <2>3. zeroed' \in [Sweep -> SUBSET Env]
      BY <1>2, <2>1 DEF ArrivesLate
    <2> QED
      BY <1>2, <2>2, <2>3 DEF ArrivesLate
  <1>3. ASSUME NEW e \in Env, Redeploy(e)
        PROVE  TypeOK'
    <2>1. topic' \in [Env -> Seq(Count)]
      BY <1>3 DEF Redeploy, Count
    <2>2. redeploys' \in 0..MaxRedeploys
      BY <1>3, BoundAssumption DEF Redeploy
    <2>3. again' \in [Sweep -> SUBSET Env]
      BY <1>3 DEF Redeploy
    <2> QED
      BY <1>3, <2>1, <2>2, <2>3 DEF Redeploy
  <1>4. ASSUME NEW e \in Env, Deliver(e)
        PROVE  TypeOK'
    <2>1. PICK i \in 1..Len(topic[e]) :
            /\ running' = [running EXCEPT ![e] = topic[e][i]]
            /\ topic' = [topic EXCEPT ![e] =
                 [k \in 1..(Len(@) - 1) |-> IF k < i THEN @[k] ELSE @[k + 1]]]
      BY <1>4 DEF Deliver
    <2>2. topic[e] \in Seq(Count) /\ topic[e][i] \in Count
      BY <2>1
    <2>3. topic' \in [Env -> Seq(Count)]
      BY <2>1, <2>2, Shorter
    <2>4. running' \in [Env -> Count]
      BY <2>1, <2>2
    <2> QED
      BY <1>4, <2>3, <2>4 DEF Deliver
  <1>5. ASSUME WorkflowRuns \/ AllOver \/ UNCHANGED vars
        PROVE  TypeOK'
    BY <1>5 DEF WorkflowRuns, AllOver, vars
  <1> QED
    BY <1>1, <1>2, <1>3, <1>4, <1>5

LEMMA TypeStep == TypeOK /\ [Next]_vars => TypeOK'
  BY SweepTypes, OutsideTypes DEF Next

\* Every variable keeps its type: the loop of a sweep does not leave its order.
THEOREM TypesCorrect == Spec => []TypeOK
  BY TypeInit, TypeStep, PTL DEF Spec

-----------------------------------------------------------------------------
(* What a sweep has done at each place. *)

LateZero(s, e) == [by |-> s, env |-> e] \in late

Placed(s) ==
  /\ \A i \in 1..Len(Order) :
       /\ i < at[s] => outcome[s][Order[i]] # "none"
       /\ Order[i] \in zeroed[s] \/ LateZero(s, Order[i]) =>
            i < at[s] \/ (i = at[s] /\ stage[s] = "dead")
  /\ stage[s] = "ok" => at[s] = Len(Order) + 1

PlaceInv == \A s \in Sweep : Placed(s)

LEMMA PlaceInit == Init => PlaceInv
  <1> SUFFICES ASSUME Init, NEW s \in Sweep
               PROVE  Placed(s)
    BY DEF PlaceInv
  <1>1. at[s] = 1 /\ stage[s] = "none" /\ zeroed[s] = {} /\ late = {}
    BY DEF Init
  <1>2. \A i \in 1..Len(Order) : ~(i < 1)
    OBVIOUS
  <1> QED
    BY <1>1, <1>2 DEF Placed, LateZero

\* Sweeps do not touch each other.
LEMMA OtherPlaced ==
  ASSUME TypeOK, NEW s \in Sweep, NEW x \in Sweep, x # s, Placed(x),
         stage'[x] = stage[x], at'[x] = at[x], outcome'[x] = outcome[x],
         zeroed'[x] = zeroed[x], \A c \in late' : c \in late \/ c.by = s
  PROVE  Placed(x)'
  <1>1. \A e : LateZero(x, e)' => LateZero(x, e)
    BY DEF LateZero
  <1> QED
    BY <1>1 DEF Placed

\* An environment that is done with, whether a zero was published for it or not.
LEMMA NextPlaced ==
  ASSUME TypeOK, NEW s \in Sweep, Sweeping(s), Placed(s), Advance(s),
         NEW what \in Outcome, what # "none", Comes(s, what),
         zeroed'[s] \subseteq zeroed[s] \cup {Here(s)},
         \A c \in late' : c \in late \/ c = [by |-> s, env |-> Here(s)]
  PROVE  Placed(s)'
  <1> DEFINE N == Len(Order)
  <1>1. /\ at[s] \in 1..N /\ N \in Nat /\ Here(s) \in Env /\ Here(s) = Order[at[s]]
        /\ Order \in Seq(Env)
        /\ \A i, k \in 1..N : Order[i] = Order[k] => i = k
    BY HereIsTyped, OrderAssumption
  <1>2. at'[s] = at[s] + 1 /\ (stage'[s] = "ok" => at[s] = N) /\ stage[s] # "dead"
    BY DEF Advance, TypeOK, Sweeping
  <1>3. /\ outcome'[s][Here(s)] = what
        /\ \A e \in Env : e # Here(s) => outcome'[s][e] = outcome[s][e]
    BY <1>1 DEF Comes, TypeOK
  <1>4. ASSUME NEW i \in 1..N, i < at'[s]
        PROVE  outcome'[s][Order[i]] # "none"
    <2>1. Order[i] \in Env
      BY <1>1
    <2>2. CASE i = at[s]
      BY <1>1, <1>3, <2>2
    <2>3. CASE i < at[s]
      BY <1>1, <1>3, <2>1, <2>3 DEF Placed
    <2> QED
      BY <1>1, <1>2, <1>4, <2>2, <2>3
  <1>5. ASSUME NEW i \in 1..N, Order[i] \in zeroed'[s] \/ LateZero(s, Order[i])'
        PROVE  i < at'[s]
    <2>1. Order[i] \in zeroed[s] \/ LateZero(s, Order[i]) \/ Order[i] = Here(s)
      BY <1>5 DEF LateZero
    <2>2. CASE Order[i] = Here(s)
      BY <1>1, <1>2, <2>2
    <2>3. CASE Order[i] \in zeroed[s] \/ LateZero(s, Order[i])
      BY <1>1, <1>2, <2>3 DEF Placed
    <2> QED
      BY <2>1, <2>2, <2>3
  <1> QED
    BY <1>1, <1>2, <1>4, <1>5 DEF Placed

LEMMA PlaceSweep ==
  ASSUME TypeOK, PlaceInv, NEW s \in Sweep,
         Arrives(s) \/ ReadEntity(s) \/ NoEntity(s) \/ Look(s)
           \/ Deploy(s) \/ CallFails(s) \/ Dies(s)
  PROVE  PlaceInv'
  <1> USE DEF sweepVars, outsideVars
  <1>1. Placed(s)
    BY DEF PlaceInv
  <1>2. Sweeping(s) => at[s] \in 1..Len(Order) /\ Here(s) \in Env /\ Here(s) = Order[at[s]]
    BY HereIsTyped
  <1>3. \A c \in late' : c \in late \/ c = [by |-> s, env |-> Here(s)]
    BY DEF Arrives, ReadEntity, NoEntity, Look, Deploy, CallFails, Dies, LeavesCall
  <1>4. /\ zeroed'[s] \subseteq zeroed[s] \cup {Here(s)}
        /\ \A x \in Sweep : x # s => zeroed'[x] = zeroed[x]
    BY DEF TypeOK, Arrives, ReadEntity, NoEntity, Look, Deploy, CallFails, Dies
  <1>5. \A x \in Sweep : x # s =>
          stage'[x] = stage[x] /\ at'[x] = at[x] /\ outcome'[x] = outcome[x]
    BY DEF TypeOK, Arrives, ReadEntity, NoEntity, Look, Deploy, CallFails, Dies,
           Advance, Comes
  <1>6. ASSUME NEW x \in Sweep, x # s
        PROVE  Placed(x)'
    <2>1. \A c \in late' : c \in late \/ c.by = s
      BY <1>3
    <2> QED
      BY <1>4, <1>5, <1>6, <2>1, OtherPlaced DEF PlaceInv
  <1>7. Placed(s)'
    <2> DEFINE Stays(label) == /\ stage' = [stage EXCEPT ![s] = label]
                               /\ UNCHANGED <<at, outcome, late, zeroed>>
    <2>1. ASSUME NEW label \in {"entity", "failed", "look", "deploy"}, Stays(label),
                 stage[s] # "dead"
          PROVE  Placed(s)'
      <3>1. stage'[s] # "ok"
        BY <2>1 DEF TypeOK
      <3> QED
        BY <1>1, <2>1, <3>1 DEF Placed, LateZero
    <2>2. CASE ReadEntity(s) \/ Look(s)
      <3>1. Sweeping(s) /\ stage[s] # "dead"
        BY <2>2 DEF ReadEntity, Look, Sweeping
      <3>2. CASE \E what \in {"not deployable", "no zone", "nothing"} :
                   Comes(s, what) /\ Advance(s)
        BY <1>1, <1>3, <1>4, <3>1, <3>2, NextPlaced DEF Outcome
      <3>3. CASE \E label \in {"look", "deploy"} : Stays(label)
        BY <2>1, <3>1, <3>3
      <3> QED
        BY <2>2, <3>2, <3>3 DEF ReadEntity, Look
    <2>6. CASE Arrives(s) \/ NoEntity(s)
      <3>1. stage[s] # "dead" /\ \E label \in {"entity", "failed"} : Stays(label)
        BY <2>6 DEF Arrives, NoEntity
      <3> QED
        BY <2>1, <3>1
    <2>3. CASE Deploy(s)
      BY <1>1, <1>3, <1>4, <2>3, NextPlaced DEF Deploy, Sweeping, Outcome
    <2>4. CASE CallFails(s)
      BY <1>1, <1>3, <1>4, <2>4, NextPlaced DEF CallFails, Sweeping, Outcome
    <2>5. CASE Dies(s)
      <3>1. UNCHANGED <<at, outcome, zeroed>> /\ stage'[s] = "dead" /\ stage[s] # "dead"
        BY <2>5 DEF Dies, TypeOK, Sweeping
      <3>2. \A i \in 1..Len(Order) : LateZero(s, Order[i])' =>
              LateZero(s, Order[i]) \/ i = at[s]
        BY <1>2, <1>3, <2>5, OrderAssumption DEF LateZero, Dies
      <3> QED
        BY <1>1, <3>1, <3>2 DEF Placed
    <2> QED
      BY <2>2, <2>3, <2>4, <2>5, <2>6
  <1> QED
    BY <1>6, <1>7 DEF PlaceInv

LEMMA PlaceStep == TypeOK /\ PlaceInv /\ [Next]_vars => PlaceInv'
  <1> SUFFICES ASSUME TypeOK, PlaceInv, [Next]_vars
               PROVE  PlaceInv'
    OBVIOUS
  <1>1. CASE UNCHANGED <<sweepVars, late, zeroed>>
    BY <1>1 DEF PlaceInv, Placed, LateZero, sweepVars
  <1>2. ASSUME NEW e \in Env, Redeploy(e)
        PROVE  PlaceInv'
    BY <1>2 DEF Redeploy, PlaceInv, Placed, LateZero
  <1>3. ASSUME NEW c \in late, ArrivesLate(c)
        PROVE  PlaceInv'
    <2>1. c.by \in Sweep /\ c.env \in Env /\ c = [by |-> c.by, env |-> c.env]
      BY DEF TypeOK
    <2>2. UNCHANGED <<stage, at, outcome>>
      BY <1>3 DEF ArrivesLate, sweepVars
    <2>3. ASSUME NEW s \in Sweep, NEW e, e \in zeroed'[s] \/ LateZero(s, e)'
          PROVE  e \in zeroed[s] \/ LateZero(s, e)
      BY <1>3, <2>1, <2>3 DEF ArrivesLate, LateZero, TypeOK
    <2> QED
      BY <2>2, <2>3 DEF PlaceInv, Placed
  <1> QED
    <2>1. ASSUME NEW r \in Remover,
                 RemovalArrives(r) \/ RemovalReads(r) \/ TriggerRemove(r) \/ RemovalFails(r)
          PROVE  UNCHANGED <<sweepVars, late, zeroed>>
      BY <2>1 DEF RemovalArrives, RemovalReads, TriggerRemove, RemovalFails
    <2>2. ASSUME NEW e \in Env, Deliver(e)
          PROVE  UNCHANGED <<sweepVars, late, zeroed>>
      BY <2>2 DEF Deliver
    <2>3. ASSUME WorkflowRuns \/ AllOver \/ UNCHANGED vars
          PROVE  UNCHANGED <<sweepVars, late, zeroed>>
      BY <2>3 DEF WorkflowRuns, AllOver, vars
    <2> QED
      BY <1>1, <1>2, <1>3, <2>1, <2>2, <2>3, PlaceSweep DEF Next

-----------------------------------------------------------------------------
(* What the removals have done. *)

RemovalInv ==
  \A r \in Remover :
    /\ removal[r] = "ok" => r \in dispatched
    /\ r \in dispatched => removal[r] \in {"ok", "lost"}

LEMMA RemovalInit == Init => RemovalInv
  BY DEF Init, RemovalInv

LEMMA RemovalKept == TypeOK /\ RemovalInv /\ [Next]_vars => RemovalInv'
  <1> SUFFICES ASSUME TypeOK, RemovalInv, [Next]_vars
               PROVE  RemovalInv'
    OBVIOUS
  <1>1. ASSUME NEW r \in Remover,
               RemovalArrives(r) \/ RemovalReads(r) \/ TriggerRemove(r) \/ RemovalFails(r)
        PROVE  RemovalInv'
    BY <1>1 DEF RemovalArrives, RemovalReads, TriggerRemove, RemovalFails, RemovalStep,
                RemovalInv, TypeOK
  <1>2. CASE UNCHANGED <<removal, dispatched>>
    BY <1>2 DEF RemovalInv
  <1> QED
    <2>1. ASSUME NEW s \in Sweep,
                 Arrives(s) \/ ReadEntity(s) \/ NoEntity(s) \/ Look(s)
                   \/ Deploy(s) \/ CallFails(s) \/ Dies(s)
          PROVE  UNCHANGED <<removal, dispatched>>
      BY <2>1 DEF Arrives, ReadEntity, NoEntity, Look, Deploy, CallFails, Dies
    <2>2. ASSUME \/ \E c \in late : ArrivesLate(c)
                 \/ \E e \in Env : Redeploy(e) \/ Deliver(e)
                 \/ WorkflowRuns \/ AllOver \/ UNCHANGED vars
          PROVE  UNCHANGED <<removal, dispatched>>
      BY <2>2 DEF ArrivesLate, Redeploy, Deliver, WorkflowRuns, AllOver, vars
    <2> QED
      BY <1>1, <1>2, <2>1, <2>2 DEF Next

-----------------------------------------------------------------------------
(* What runs in the end. *)

Final(e) == IF topic[e] = <<>> THEN running[e] ELSE topic[e][Len(topic[e])]

Ended(s, e) ==
  /\ outcome[s][e] = "published" /\ e \notin again[s] => Final(e) = "zero"
  /\ outcome[s][e] = "nothing" /\ e \notin again[s] /\ e \notin onItsWay[s] =>
       Final(e) = "zero"

FinalInv == Fifo => \A s \in Sweep, e \in Env : Ended(s, e)

LEMMA FinalInit == Init => FinalInv
  BY DEF Init, FinalInv, Ended

\* What is appended to a topic is the last of it.
LEMMA Appended ==
  ASSUME TypeOK, NEW e \in Env, NEW n \in Count, topic' = [topic EXCEPT ![e] = Append(@, n)],
         UNCHANGED running
  PROVE  /\ Final(e)' = n
         /\ \A x \in Env : x # e => Final(x)' = Final(x)
  <1>1. topic[e] \in Seq(Count) /\ topic'[e] = Append(topic[e], n)
    BY DEF TypeOK
  <1>2. topic'[e] # <<>> /\ topic'[e][Len(topic'[e])] = n
    BY <1>1
  <1>3. \A x \in Env : x # e => topic'[x] = topic[x]
    BY DEF TypeOK
  <1> QED
    BY <1>2, <1>3 DEF Final

\* A fifo topic's delivery leaves in place what will run in the end.
LEMMA Delivered ==
  ASSUME TypeOK, Fifo, NEW e \in Env, Deliver(e)
  PROVE  \A x \in Env : Final(x)' = Final(x)
  <1>1. /\ topic[e] \in Seq(Count) /\ Len(topic[e]) \in Nat /\ Len(topic[e]) >= 1
        /\ running' = [running EXCEPT ![e] = topic[e][1]]
        /\ topic' = [topic EXCEPT ![e] =
             [k \in 1..(Len(topic[e]) - 1) |-> IF k < 1 THEN topic[e][k] ELSE topic[e][k + 1]]]
    BY DEF Deliver, TypeOK
  <1>2. topic'[e] = [k \in 1..(Len(topic[e]) - 1) |-> topic[e][k + 1]]
    BY <1>1 DEF TypeOK
  <1>3. topic'[e] \in Seq(Count) /\ Len(topic'[e]) = Len(topic[e]) - 1
    <2>1. \A k \in 1..(Len(topic[e]) - 1) : topic[e][k + 1] \in Count
      BY <1>1
    <2> QED
      BY <1>1, <1>2, <2>1
  <1>4. running'[e] = topic[e][1]
    BY <1>1 DEF TypeOK
  <1>5. topic[e] # <<>>
    BY <1>1
  <1>6. Final(e)' = Final(e)
    <2>1. CASE Len(topic[e]) = 1
      <3>1. topic'[e] = <<>>
        BY <1>3, <2>1
      <3> QED
        BY <1>4, <1>5, <2>1, <3>1 DEF Final
    <2>2. CASE Len(topic[e]) > 1
      <3>1. topic'[e] # <<>>
        <4>1. Len(topic'[e]) # 0
          BY <1>1, <1>3, <2>2
        <4> QED
          BY <4>1
      <3>2. topic'[e][Len(topic'[e])] = topic[e][Len(topic[e])]
        BY <1>1, <1>2, <1>3, <2>2
      <3> QED
        BY <1>5, <3>1, <3>2 DEF Final
    <2>3. \A n \in Nat : n >= 1 => n = 1 \/ n > 1
      OBVIOUS
    <2>4. Len(topic[e]) = 1 \/ Len(topic[e]) > 1
      BY <1>1, <2>3, Zenon
    <2> QED
      BY <2>1, <2>2, <2>4
  <1>7. \A x \in Env : x # e => topic'[x] = topic[x] /\ running'[x] = running[x]
    BY <1>1 DEF TypeOK
  <1> QED
    BY <1>6, <1>7 DEF Final

\* What a sweep leaves alone of an environment and of what is known about it.
LEMMA EndedStays ==
  ASSUME NEW x \in Sweep, NEW e \in Env, Ended(x, e),
         outcome'[x][e] = outcome[x][e], again[x] \subseteq again'[x],
         onItsWay[x] \subseteq onItsWay'[x], Final(e)' = Final(e) \/ Final(e)' = "zero"
  PROVE  Ended(x, e)'
  BY DEF Ended

\* A sweep at its environment: nothing is published.
LEMMA QuietEnded ==
  ASSUME TypeOK, NEW s \in Sweep, \A x \in Sweep, e \in Env : Ended(x, e),
         Arrives(s) \/ ReadEntity(s) \/ NoEntity(s) \/ CallFails(s) \/ Dies(s)
  PROVE  \A x \in Sweep, e \in Env : Ended(x, e)'
  <1> SUFFICES ASSUME NEW x \in Sweep, NEW e \in Env
               PROVE  Ended(x, e)'
    OBVIOUS
  <1>1. UNCHANGED <<again, onItsWay, topic, running>>
    BY DEF Arrives, ReadEntity, NoEntity, CallFails, Dies, outsideVars
  <1>2. Final(e)' = Final(e)
    BY <1>1 DEF Final
  <1>3. outcome'[x][e] \in {outcome[x][e], "failed", "not deployable", "no zone"}
    <2>1. \/ outcome' = outcome
          \/ \E what \in {"failed", "not deployable", "no zone"} : Comes(s, what)
      BY DEF Arrives, ReadEntity, NoEntity, CallFails, Dies
    <2>2. ASSUME NEW what \in {"failed", "not deployable", "no zone"}, Comes(s, what)
          PROVE  outcome'[x][e] = outcome[x][e] \/ outcome'[x][e] = what
      <3>1. outcome'[x][e] = IF x = s /\ e = Here(s) THEN what ELSE outcome[x][e]
        BY <2>2, ComesOnly, Zenon
      <3> QED
        BY <3>1
    <2> QED
      BY <2>1, <2>2
  <1> QED
    BY <1>1, <1>2, <1>3 DEF Ended

\* Nothing is published where nothing runs, or will run.
LEMMA LookEnded ==
  ASSUME TypeOK, NEW s \in Sweep, \A x \in Sweep, e \in Env : Ended(x, e), Look(s)
  PROVE  \A x \in Sweep, e \in Env : Ended(x, e)'
  <1> SUFFICES ASSUME NEW x \in Sweep, NEW e \in Env
               PROVE  Ended(x, e)'
    OBVIOUS
  <1>1. UNCHANGED <<again, topic, running>> /\ Here(s) \in Env
    BY HereIsTyped DEF Look, outsideVars, Sweeping
  <1>2. Final(e)' = Final(e)
    BY <1>1 DEF Final
  <1>3. onItsWay[x] \subseteq onItsWay'[x]
    BY DEF Look, TypeOK
  <1>4. CASE outcome'[x][e] = outcome[x][e]
    BY <1>1, <1>2, <1>3, <1>4, EndedStays
  <1>5. CASE outcome'[x][e] # outcome[x][e]
    <2>1. /\ x = s /\ e = Here(s) /\ outcome'[x][e] = "nothing"
          /\ running[e] = "zero"
      BY <1>1, <1>5 DEF Look, TypeOK, Comes
    <2>2. topic[e] # <<>> => e \in onItsWay'[x]
      BY <2>1 DEF Look, TypeOK
    <2>3. topic[e] = <<>> => Final(e)' = "zero"
      BY <1>2, <2>1 DEF Final
    <2> QED
      BY <2>1, <2>2, <2>3 DEF Ended
  <1> QED
    BY <1>4, <1>5

LEMMA DeployEnded ==
  ASSUME TypeOK, NEW s \in Sweep, \A x \in Sweep, e \in Env : Ended(x, e), Deploy(s)
  PROVE  \A x \in Sweep, e \in Env : Ended(x, e)'
  <1> SUFFICES ASSUME NEW x \in Sweep, NEW e \in Env
               PROVE  Ended(x, e)'
    OBVIOUS
  <1>0. PICK h \in Env : h = Here(s)
    BY HereIsTyped DEF Deploy, Sweeping
  <1>1. UNCHANGED <<again, onItsWay, running>>
    BY DEF Deploy, outsideVars
  <1>2. /\ Final(h)' = "zero"
        /\ \A y \in Env : y # h => Final(y)' = Final(y)
    <2>1. topic' = [topic EXCEPT ![h] = Append(@, "zero")] /\ "zero" \in Count
      BY <1>0 DEF Deploy, Count
    <2> QED
      BY <1>1, <2>1, Appended
  <1>3. CASE e = h
    BY <1>2, <1>3 DEF Ended
  <1>4. CASE e # h
    <2>1. outcome'[x][e] = outcome[x][e]
      BY <1>0, <1>4, ComesOnly DEF Deploy
    <2> QED
      BY <1>1, <1>2, <1>4, <2>1, EndedStays
  <1> QED
    BY <1>3, <1>4

\* A message that arrives late is a zero too; a deployment by others is known of.
LEMMA PublishedEnded ==
  ASSUME TypeOK, \A x \in Sweep, e \in Env : Ended(x, e),
         \/ \E c \in late : ArrivesLate(c)
         \/ \E y \in Env : Redeploy(y)
  PROVE  \A x \in Sweep, e \in Env : Ended(x, e)'
  <1> SUFFICES ASSUME NEW x \in Sweep, NEW e \in Env
               PROVE  Ended(x, e)'
    OBVIOUS
  <1>1. UNCHANGED <<outcome, onItsWay, running>>
    BY DEF ArrivesLate, Redeploy, sweepVars, outsideVars
  <1>2. ASSUME NEW c \in late, ArrivesLate(c)
        PROVE  Ended(x, e)'
    <2>1. c.env \in Env /\ UNCHANGED again
      BY <1>2 DEF TypeOK, ArrivesLate, sweepVars
    <2>2. Final(e)' = Final(e) \/ Final(e)' = "zero"
      BY <1>1, <1>2, <2>1, Appended DEF ArrivesLate, Count
    <2> QED
      BY <1>1, <2>1, <2>2, EndedStays
  <1>3. ASSUME NEW y \in Env, Redeploy(y)
        PROVE  Ended(x, e)'
    <2>1. e # y => Final(e)' = Final(e)
      BY <1>1, <1>3, Appended DEF Redeploy, Count
    <2>2. again[x] \subseteq again'[x]
      BY <1>3 DEF Redeploy
    <2>3. e = y /\ outcome[x][e] # "none" => e \in again'[x]
      BY <1>3 DEF Redeploy
    <2>4. CASE e = y
      BY <1>1, <2>3, <2>4 DEF Ended
    <2>5. CASE e # y
      BY <1>1, <2>1, <2>2, <2>5, EndedStays
    <2> QED
      BY <2>4, <2>5
  <1> QED
    BY <1>2, <1>3

LEMMA FinalStep == TypeOK /\ FinalInv /\ [Next]_vars => FinalInv'
  <1> SUFFICES ASSUME TypeOK, FinalInv, [Next]_vars, Fifo
               PROVE  \A x \in Sweep, e \in Env : Ended(x, e)'
    BY DEF FinalInv
  <1>1. \A x \in Sweep, e \in Env : Ended(x, e)
    BY DEF FinalInv
  <1>2. ASSUME UNCHANGED <<outcome, again, onItsWay>>, \A e \in Env : Final(e)' = Final(e)
        PROVE  \A x \in Sweep, e \in Env : Ended(x, e)'
    BY <1>1, <1>2 DEF Ended
  <1>3. ASSUME NEW e \in Env, Deliver(e)
        PROVE  \A x \in Sweep, y \in Env : Ended(x, y)'
    <2>1. UNCHANGED <<outcome, again, onItsWay>>
      BY <1>3 DEF Deliver, sweepVars
    <2> QED
      BY <1>2, <1>3, <2>1, Delivered
  <1>4. ASSUME \/ \E r \in Remover :
                    RemovalArrives(r) \/ RemovalReads(r) \/ TriggerRemove(r) \/ RemovalFails(r)
               \/ WorkflowRuns \/ AllOver \/ UNCHANGED vars
        PROVE  \A x \in Sweep, e \in Env : Ended(x, e)'
    <2>1. UNCHANGED <<outcome, again, onItsWay, topic, running>>
      BY <1>4 DEF RemovalArrives, RemovalReads, TriggerRemove, RemovalFails, WorkflowRuns,
                  AllOver, vars, sweepVars, outsideVars
    <2> QED
      BY <1>2, <2>1 DEF Final
  <1> QED
    BY <1>1, <1>3, <1>4, QuietEnded, LookEnded, DeployEnded, PublishedEnded DEF Next

\* With a fifo topic, what runs in an environment that a sweep is done with runs
\* for one of the reasons named.
THEOREM WhatRunsIsExplained == Spec => []NothingRunsUnexplained
  <1>1. Spec => [](TypeOK /\ FinalInv)
    BY TypesCorrect, FinalInit, FinalStep, PTL DEF Spec
  <1>2. TypeOK /\ FinalInv => NothingRunsUnexplained
    <2> SUFFICES ASSUME TypeOK, FinalInv, NEW s \in Sweep, NEW e \in Env,
                        Fifo, topic[e] = <<>>, running[e] = "one", outcome[s][e] # "none"
                 PROVE  \/ outcome[s][e] \in {"failed", "no zone", "not deployable"}
                        \/ e \in again[s]
                        \/ outcome[s][e] = "nothing" /\ e \in onItsWay[s]
      BY DEF NothingRunsUnexplained
    <2>1. Ended(s, e) /\ Final(e) = "one"
      BY DEF FinalInv, Final
    <2>2. outcome[s][e] \in Outcome
      BY DEF TypeOK
    <2> QED
      BY <2>1, <2>2 DEF Ended, Outcome
  <1> QED
    BY <1>1, <1>2, PTL
\* A sweep that failed nowhere: it answers 200, and in every environment it either
\* published a zero, or saw nothing run and no message on its way; nobody has
\* deployed there since.
CleanSweep(s) ==
  /\ stage[s] = "ok"
  /\ \A i \in 1..Len(Order) :
       /\ outcome[s][Order[i]] \in {"published", "nothing"}
       /\ Order[i] \notin again[s]
       /\ outcome[s][Order[i]] = "nothing" => Order[i] \notin onItsWay[s]

CleanSweepsLeaveNothing ==
  \A s \in Sweep : Fifo /\ CleanSweep(s) =>
    \A i \in 1..Len(Order) : topic[Order[i]] = <<>> => running[Order[i]] = "zero"

\* What portal-backend sweeps for: once a fifo topic has delivered everything, a
\* clean sweep has left the service running in no environment, and it is safe to
\* start the workflow that removes it.
THEOREM CleanSweepsWork == Spec => []CleanSweepsLeaveNothing
  <1>1. TypeOK /\ NothingRunsUnexplained => CleanSweepsLeaveNothing
    <2> SUFFICES ASSUME TypeOK, NothingRunsUnexplained, Fifo, NEW s \in Sweep, CleanSweep(s),
                        NEW i \in 1..Len(Order), topic[Order[i]] = <<>>
                 PROVE  running[Order[i]] = "zero"
      BY DEF CleanSweepsLeaveNothing
    <2>1. Order[i] \in Env
      BY OrderAssumption
    <2>2. running[Order[i]] \in {"zero", "one"}
      BY <2>1 DEF TypeOK, Count
    <2>3. running[Order[i]] # "one"
      BY <2>1 DEF NothingRunsUnexplained, CleanSweep
    <2> QED
      BY <2>2, <2>3
  <1> QED
    BY <1>1, TypesCorrect, WhatRunsIsExplained, PTL

-----------------------------------------------------------------------------
(* A sweep goes forward. *)

SweepStep(s) ==
  \/ Arrives(s) \/ ReadEntity(s) \/ NoEntity(s) \/ Look(s)
  \/ Deploy(s) \/ CallFails(s) \/ Dies(s)

\* A sweep has nothing to say of an environment it has not done with, and no zero of
\* it is both on the topic and still to come.
Ahead(s) ==
  /\ \A i \in 1..Len(Order) : i >= at[s] => outcome[s][Order[i]] = "none"
  /\ \A e \in Env : LateZero(s, e) => e \notin zeroed[s]

AheadInv == \A s \in Sweep : Ahead(s)

\* What has come of an environment in a sweep is final, and the sweep publishes one
\* zero for it at most.
NeverReturns ==
  [][\A s \in Sweep, e \in Env :
       /\ outcome[s][e] # "none" => outcome'[s][e] = outcome[s][e]
       /\ (Deploy(s) /\ Here(s) = e) \/ (LateZero(s, e) /\ ArrivesLate([by |-> s, env |-> e]))
            => e \notin zeroed[s]]_vars

LEMMA AheadInit == Init => AheadInv
  <1> SUFFICES ASSUME Init, NEW s \in Sweep
               PROVE  Ahead(s)
    BY DEF AheadInv
  <1>1. \A i \in 1..Len(Order) : Order[i] \in Env
    BY OrderAssumption
  <1> QED
    BY <1>1 DEF Init, Ahead, LateZero

\* Each step of a sweep leaves the others alone, and its own outcomes but that of
\* the environment it leaves.
LEMMA SweepTouches ==
  ASSUME TypeOK, NEW s \in Sweep, SweepStep(s)
  PROVE  /\ \A x \in Sweep : x # s =>
              stage'[x] = stage[x] /\ at'[x] = at[x] /\ outcome'[x] = outcome[x]
                /\ zeroed'[x] = zeroed[x]
         /\ \/ at'[s] = at[s] /\ outcome'[s] = outcome[s]
            \/ /\ Sweeping(s) /\ at'[s] = at[s] + 1
               /\ \A e \in Env : e # Here(s) => outcome'[s][e] = outcome[s][e]
         /\ late' # late => stage[s] = "deploy" /\ late' = late \cup {[by |-> s, env |-> Here(s)]}
                              /\ zeroed' = zeroed
         /\ zeroed' # zeroed => Deploy(s)
  <1> USE DEF sweepVars, outsideVars
  <1>1. \A x \in Sweep : x # s =>
          stage'[x] = stage[x] /\ at'[x] = at[x] /\ outcome'[x] = outcome[x] /\ zeroed'[x] = zeroed[x]
    BY DEF TypeOK, SweepStep, Arrives, ReadEntity, NoEntity, Look, Deploy, CallFails, Dies,
           Advance, Comes
  <1>2. ASSUME NEW what, Comes(s, what), Advance(s), Sweeping(s)
        PROVE  /\ Sweeping(s) /\ at'[s] = at[s] + 1
               /\ \A e \in Env : e # Here(s) => outcome'[s][e] = outcome[s][e]
    BY <1>2 DEF TypeOK, Advance, Comes
  <1>3. \/ at'[s] = at[s] /\ outcome'[s] = outcome[s]
        \/ /\ Sweeping(s) /\ at'[s] = at[s] + 1
           /\ \A e \in Env : e # Here(s) => outcome'[s][e] = outcome[s][e]
    <2>1. CASE UNCHANGED <<at, outcome>>
      BY <2>1
    <2>2. CASE ~UNCHANGED <<at, outcome>>
      <3>1. Sweeping(s) /\ Advance(s) /\ \E what \in Outcome : Comes(s, what)
        BY <2>2 DEF SweepStep, Arrives, ReadEntity, NoEntity, Look, Deploy, CallFails, Dies,
                    Sweeping, Outcome
      <3> QED
        BY <1>2, <3>1
    <2> QED
      BY <2>1, <2>2
  <1>4. /\ late' # late => stage[s] = "deploy" /\ late' = late \cup {[by |-> s, env |-> Here(s)]}
                             /\ zeroed' = zeroed
        /\ zeroed' # zeroed => Deploy(s)
    BY DEF SweepStep, Arrives, ReadEntity, NoEntity, Look, Deploy, CallFails, Dies, LeavesCall
  <1> QED
    BY <1>1, <1>3, <1>4

\* The environment a sweep is in has had no zero from it, and none is on its way.
LEMMA HereIsNew ==
  ASSUME TypeOK, PlaceInv, NEW s \in Sweep, Sweeping(s)
  PROVE  Here(s) \notin zeroed[s] /\ ~LateZero(s, Here(s))
  <1>1. at[s] \in 1..Len(Order) /\ at[s] \in Nat /\ Here(s) = Order[at[s]]
    BY HereIsTyped
  <1>2. stage[s] # "dead" /\ Placed(s)
    BY DEF Sweeping, PlaceInv
  <1> QED
    BY <1>1, <1>2 DEF Placed

LEMMA AheadStep == TypeOK /\ PlaceInv /\ AheadInv /\ [Next]_vars => AheadInv'
  <1> SUFFICES ASSUME TypeOK, PlaceInv, AheadInv, [Next]_vars, NEW x \in Sweep
               PROVE  Ahead(x)'
    BY DEF AheadInv
  <1>0. Ahead(x) /\ at[x] \in Nat
    BY DEF AheadInv, TypeOK
  <1>1. ASSUME NEW s \in Sweep, SweepStep(s)
        PROVE  Ahead(x)'
    <2>1. ASSUME NEW e \in Env, LateZero(x, e)'
          PROVE  e \notin zeroed'[x]
      <3>1. CASE x # s
        BY <1>0, <1>1, <2>1, <3>1, SweepTouches DEF Ahead, LateZero
      <3>2. CASE x = s /\ late' = late /\ zeroed' = zeroed
        BY <1>0, <2>1, <3>2 DEF Ahead, LateZero
      <3>3. CASE x = s /\ late' # late
        <4>1. /\ stage[s] = "deploy" /\ zeroed' = zeroed
              /\ late' = late \cup {[by |-> s, env |-> Here(s)]}
          BY <1>1, <3>3, SweepTouches
        <4>2. Here(s) \notin zeroed[s]
          BY <4>1, HereIsNew DEF Sweeping
        <4> QED
          BY <1>0, <2>1, <3>3, <4>1, <4>2 DEF Ahead, LateZero
      <3>4. CASE x = s /\ late' = late /\ zeroed' # zeroed
        <4>1. Deploy(s) /\ Sweeping(s) /\ zeroed' = [zeroed EXCEPT ![s] = @ \cup {Here(s)}]
          BY <1>1, <3>4, SweepTouches DEF Deploy, Sweeping
        <4>2. ~LateZero(s, Here(s))
          BY <4>1, HereIsNew
        <4> QED
          BY <1>0, <2>1, <3>4, <4>1, <4>2 DEF Ahead, LateZero, TypeOK
      <3> QED
        BY <3>1, <3>2, <3>3, <3>4
    <2>2. ASSUME NEW i \in 1..Len(Order), i >= at'[x]
          PROVE  outcome'[x][Order[i]] = "none"
      <3>1. CASE at'[x] = at[x] /\ outcome'[x] = outcome[x]
        BY <1>0, <2>2, <3>1 DEF Ahead
      <3>2. CASE /\ x = s /\ Sweeping(s) /\ at'[s] = at[s] + 1
                 /\ \A e \in Env : e # Here(s) => outcome'[s][e] = outcome[s][e]
        <4>1. /\ at[s] \in 1..Len(Order) /\ Here(s) = Order[at[s]] /\ Order[i] \in Env
              /\ i # at[s] /\ i >= at[s]
          BY <1>0, <2>2, <3>2, HereIsTyped, OrderAssumption
        <4>2. Order[i] # Here(s)
          BY <4>1, OrderAssumption
        <4> QED
          BY <1>0, <3>2, <4>1, <4>2 DEF Ahead
      <3> QED
        BY <1>1, <3>1, <3>2, SweepTouches
    <2> QED
      BY <2>1, <2>2 DEF Ahead
  <1>2. ASSUME NEW c \in late, ArrivesLate(c)
        PROVE  Ahead(x)'
    <2>1. c.by \in Sweep /\ c.env \in Env /\ c = [by |-> c.by, env |-> c.env]
      BY DEF TypeOK
    <2>2. /\ late' = late \ {c} /\ zeroed' = [zeroed EXCEPT ![c.by] = @ \cup {c.env}]
          /\ UNCHANGED <<at, outcome>>
      BY <1>2 DEF ArrivesLate, sweepVars
    <2>3. \A e \in Env : LateZero(x, e)' => e \notin zeroed'[x]
      BY <1>0, <2>1, <2>2 DEF Ahead, LateZero, TypeOK
    <2> QED
      BY <1>0, <2>2, <2>3 DEF Ahead
  <1>3. CASE UNCHANGED <<at, outcome, late, zeroed>>
    BY <1>0, <1>3 DEF Ahead, LateZero
  <1> QED
    BY <1>1, <1>2, <1>3
       DEF Next, SweepStep, RemovalArrives, RemovalReads, TriggerRemove, RemovalFails, Redeploy,
           Deliver, WorkflowRuns, AllOver, vars, sweepVars, outsideVars

\* A sweep never returns to an environment: what it says of one is final, and it
\* publishes at most one zero there, be that answered, late or its last act.
THEOREM SweepsGoForward == Spec => NeverReturns
  <1>1. Spec => [](TypeOK /\ PlaceInv /\ AheadInv)
    BY TypesCorrect, PlaceInit, PlaceStep, RemovalInit, RemovalKept, AheadInit, AheadStep, PTL
       DEF Spec
  <1>2. ASSUME TypeOK, PlaceInv, AheadInv, [Next]_vars, NEW s \in Sweep, NEW e \in Env
        PROVE  /\ outcome[s][e] # "none" => outcome'[s][e] = outcome[s][e]
               /\ (Deploy(s) /\ Here(s) = e)
                    \/ (LateZero(s, e) /\ ArrivesLate([by |-> s, env |-> e])) => e \notin zeroed[s]
    <2>1. ASSUME outcome[s][e] # "none"
          PROVE  outcome'[s][e] = outcome[s][e]
      <3>1. ASSUME NEW x \in Sweep, SweepStep(x)
            PROVE  outcome'[s][e] = outcome[s][e]
        <4>1. CASE outcome'[s] = outcome[s]
          BY <4>1
        <4>2. CASE /\ s = x /\ Sweeping(x)
                   /\ \A f \in Env : f # Here(x) => outcome'[x][f] = outcome[x][f]
          <5>1. outcome[x][Here(x)] = "none"
            <6>1. at[x] \in 1..Len(Order) /\ at[x] \in Nat /\ Here(x) = Order[at[x]]
              BY <1>2, <4>2, HereIsTyped
            <6> QED
              BY <1>2, <6>1 DEF AheadInv, Ahead
          <5> QED
            BY <1>2, <2>1, <4>2, <5>1
        <4> QED
          BY <1>2, <3>1, <4>1, <4>2, SweepTouches
      <3>2. CASE UNCHANGED outcome
        BY <3>2
      <3> QED
        BY <1>2, <3>1, <3>2
           DEF Next, SweepStep, RemovalArrives, RemovalReads, TriggerRemove, RemovalFails,
               Redeploy, ArrivesLate, Deliver, WorkflowRuns, AllOver, vars, sweepVars, outsideVars
    <2>2. ASSUME Deploy(s), Here(s) = e
          PROVE  e \notin zeroed[s]
      BY <1>2, <2>2, HereIsNew DEF Deploy, Sweeping
    <2>3. ASSUME LateZero(s, e)
          PROVE  e \notin zeroed[s]
      BY <1>2, <2>3 DEF AheadInv, Ahead
    <2> QED
      BY <2>1, <2>2, <2>3
  <1>3. TypeOK /\ PlaceInv /\ AheadInv /\ [Next]_vars =>
          [\A s \in Sweep, e \in Env :
             /\ outcome[s][e] # "none" => outcome'[s][e] = outcome[s][e]
             /\ (Deploy(s) /\ Here(s) = e)
                  \/ (LateZero(s, e) /\ ArrivesLate([by |-> s, env |-> e])) => e \notin zeroed[s]]_vars
    BY <1>2
  <1> QED
    BY <1>1, <1>3, PTL DEF Spec, NeverReturns

-----------------------------------------------------------------------------
(* What a removal leaves of a sweep. *)

Reached(s) ==
  /\ entity # "gone" => reach[s] = Len(Order)
  /\ at[s] - 1 <= reach[s]
  /\ stage[s] \in {"look", "deploy"} => at[s] <= reach[s]
  /\ \A i \in 1..Len(Order) :
       Order[i] \in zeroed[s] \/ LateZero(s, Order[i]) => i <= reach[s]

ReachInv == \A s \in Sweep : Reached(s)

LEMMA ReachInit == Init => ReachInv
  <1> SUFFICES ASSUME Init, NEW s \in Sweep
               PROVE  Reached(s)
    BY DEF ReachInv
  <1>1. at[s] = 1 /\ stage[s] = "none" /\ zeroed[s] = {} /\ late = {} /\ reach[s] = Len(Order)
    BY DEF Init
  <1>2. Len(Order) \in Nat /\ Len(Order) > 0
    BY OrderAssumption
  <1> QED
    BY <1>1, <1>2 DEF Reached, LateZero

\* A step of a sweep, while its own place is within what it has read.
LEMMA ReachSweep ==
  ASSUME TypeOK, PlaceInv, ReachInv, NEW s \in Sweep, SweepStep(s)
  PROVE  ReachInv'
  <1>0. /\ UNCHANGED <<entity, reach>> /\ Reached(s)
        /\ Len(Order) \in Nat /\ at[s] \in Nat /\ reach[s] \in Int
    <2>1. UNCHANGED outsideVars
      BY DEF SweepStep, Arrives, ReadEntity, NoEntity, Look, Deploy, CallFails, Dies
    <2>2. Len(Order) \in Nat
      BY OrderAssumption
    <2>3. at[s] \in Nat /\ reach[s] \in Int
      BY <2>2 DEF TypeOK
    <2> QED
      BY <2>1, <2>2, <2>3 DEF outsideVars, ReachInv
  <1>1. ASSUME NEW x \in Sweep, x # s
        PROVE  Reached(x)'
    <2>1. /\ stage'[x] = stage[x] /\ at'[x] = at[x] /\ zeroed'[x] = zeroed[x]
          /\ \A e : LateZero(x, e)' => LateZero(x, e)
      BY <1>1, SweepTouches DEF LateZero
    <2> QED
      BY <1>0, <2>1 DEF ReachInv, Reached
  <1>2. Reached(s)'
    <2>1. Sweeping(s) => /\ at[s] \in 1..Len(Order) /\ Here(s) = Order[at[s]]
                         /\ Here(s) \in Env
      BY HereIsTyped
    <2>2. Sweeping(s) /\ entity # "gone" => at[s] <= reach[s]
      BY <1>0, <2>1 DEF Reached
    <2>3. stage'[s] \in {"look", "deploy"} => at'[s] = at[s] /\ at[s] <= reach[s]
      <3>1. CASE ReadEntity(s)
        BY <1>0, <2>2, <3>1 DEF ReadEntity, Sweeping, Advance, TypeOK
      <3>2. CASE Look(s)
        BY <1>0, <3>2 DEF Look, Reached, Advance, TypeOK
      <3>3. CASE Arrives(s) \/ NoEntity(s) \/ Deploy(s) \/ CallFails(s) \/ Dies(s)
        BY <3>3 DEF Arrives, NoEntity, Deploy, CallFails, Dies, Advance, TypeOK
      <3> QED
        BY <3>1, <3>2, <3>3 DEF SweepStep
    <2>4. at'[s] - 1 <= reach[s]
      <3>1. CASE at'[s] = at[s]
        BY <1>0, <3>1 DEF Reached
      <3>2. CASE at'[s] = at[s] + 1 /\ at[s] <= reach[s]
        BY <1>0, <3>2
      <3>3. at'[s] = at[s] \/ (at'[s] = at[s] + 1 /\ at[s] <= reach[s])
        <4>1. CASE ReadEntity(s)
          BY <1>0, <2>2, <4>1 DEF ReadEntity, Sweeping, Advance, TypeOK
        <4>2. CASE Look(s) \/ Deploy(s) \/ CallFails(s)
          BY <1>0, <4>2 DEF Look, Deploy, CallFails, Reached, Advance, TypeOK
        <4>3. CASE Arrives(s) \/ NoEntity(s) \/ Dies(s)
          BY <4>3 DEF Arrives, NoEntity, Dies
        <4> QED
          BY <4>1, <4>2, <4>3 DEF SweepStep
      <3> QED
        BY <3>1, <3>2, <3>3
    <2>5. ASSUME NEW i \in 1..Len(Order), Order[i] \in zeroed'[s] \/ LateZero(s, Order[i])'
          PROVE  i <= reach[s]
      <3>1. CASE Order[i] \in zeroed[s] \/ LateZero(s, Order[i])
        BY <1>0, <3>1 DEF Reached
      <3>2. CASE ~(Order[i] \in zeroed[s] \/ LateZero(s, Order[i]))
        <4>1. stage[s] = "deploy" /\ Order[i] = Here(s)
          <5>1. CASE late' # late
            BY <2>5, <3>2, <5>1, SweepTouches DEF LateZero
          <5>2. CASE late' = late
            <6>1. Deploy(s)
              BY <2>5, <3>2, <5>2, SweepTouches DEF LateZero
            <6> QED
              BY <2>5, <3>2, <5>2, <6>1 DEF Deploy, LateZero, TypeOK
          <5> QED
            BY <5>1, <5>2
        <4>2. i = at[s]
          BY <2>1, <4>1, OrderAssumption DEF Sweeping
        <4> QED
          BY <1>0, <4>1, <4>2 DEF Reached
      <3> QED
        BY <3>1, <3>2
    <2> QED
      BY <1>0, <2>3, <2>4, <2>5 DEF Reached
  <1> QED
    BY <1>1, <1>2 DEF ReachInv

LEMMA ReachStep == TypeOK /\ PlaceInv /\ ReachInv /\ [Next]_vars => ReachInv'
  <1> SUFFICES ASSUME TypeOK, PlaceInv, ReachInv, [Next]_vars
               PROVE  ReachInv'
    OBVIOUS
  <1>1. ASSUME NEW s \in Sweep, SweepStep(s)
        PROVE  ReachInv'
    BY <1>1, ReachSweep
  <1>2. ASSUME NEW c \in late, ArrivesLate(c)
        PROVE  ReachInv'
    <2>1. c.by \in Sweep /\ c.env \in Env /\ c = [by |-> c.by, env |-> c.env]
      BY DEF TypeOK
    <2>2. /\ late' = late \ {c} /\ zeroed' = [zeroed EXCEPT ![c.by] = @ \cup {c.env}]
          /\ UNCHANGED <<at, stage, entity, reach>>
      BY <1>2 DEF ArrivesLate, sweepVars, outsideVars
    <2>3. ASSUME NEW s \in Sweep, NEW e, e \in zeroed'[s] \/ LateZero(s, e)'
          PROVE  e \in zeroed[s] \/ LateZero(s, e)
      BY <2>1, <2>2, <2>3 DEF LateZero, TypeOK
    <2> QED
      BY <2>2, <2>3 DEF ReachInv, Reached
  <1>3. CASE WorkflowRuns
    <2>1. /\ UNCHANGED <<stage, at, zeroed, late>> /\ entity' = "gone"
          /\ \A s \in Sweep :
               reach'[s] = IF stage[s] \in {"look", "deploy", "dead"} THEN at[s] ELSE at[s] - 1
      BY <1>3 DEF WorkflowRuns, sweepVars
    <2>2. ASSUME NEW s \in Sweep
          PROVE  Reached(s)'
      <3>1. at[s] \in Nat /\ Placed(s)
        BY DEF TypeOK, PlaceInv
      <3>2. ASSUME NEW i \in 1..Len(Order), Order[i] \in zeroed[s] \/ LateZero(s, Order[i])
            PROVE  i <= reach'[s]
        BY <2>1, <3>1, <3>2 DEF Placed
      <3>3. \A i \in 1..Len(Order) : LateZero(s, Order[i])' <=> LateZero(s, Order[i])
        BY <2>1 DEF LateZero
      <3> QED
        BY <2>1, <3>1, <3>2, <3>3 DEF Reached
    <2> QED
      BY <2>2 DEF ReachInv
  <1>4. CASE UNCHANGED <<stage, at, late, zeroed, entity, reach>>
    BY <1>4 DEF ReachInv, Reached, LateZero
  <1> QED
    BY <1>1, <1>2, <1>3, <1>4
       DEF Next, SweepStep, RemovalArrives, RemovalReads, TriggerRemove, RemovalFails, Redeploy,
           Deliver, AllOver, vars, sweepVars, outsideVars

\* A sweep is done with an environment before it touches the next, a sweep that
\* answers 200 has been everywhere, and so has the removal its workflow; a removal
\* that overtakes a sweep ends it at the next environment.
THEOREM SweepsAndRemovalsHold == Spec => []AnswersHold
  <1>1. Spec => [](TypeOK /\ PlaceInv /\ RemovalInv /\ AheadInv /\ ReachInv)
    BY TypesCorrect, PlaceInit, PlaceStep, RemovalInit, RemovalKept, AheadInit, AheadStep,
       ReachInit, ReachStep, PTL DEF Spec
  <1>2. TypeOK /\ PlaceInv /\ RemovalInv /\ AheadInv /\ ReachInv => AnswersHold
    <2> SUFFICES ASSUME TypeOK, PlaceInv, RemovalInv, AheadInv, ReachInv
                 PROVE  AnswersHold
      OBVIOUS
    <2>1. ASSUME NEW s \in Sweep, NEW i \in 1..Len(Order)
          PROVE  /\ Order[i] \in zeroed[s] => \A k \in 1..(i - 1) : outcome[s][Order[k]] # "none"
                 /\ i > at[s] => Order[i] \notin zeroed[s]
                 /\ i > reach[s] => Order[i] \notin zeroed[s] /\ outcome[s][Order[i]] = "none"
                 /\ stage[s] = "ok" => outcome[s][Order[i]] # "none"
      <3>1. Placed(s) /\ at[s] \in Nat /\ Len(Order) \in Nat /\ reach[s] \in Nat
        BY OrderAssumption DEF PlaceInv, TypeOK
      <3>2. \A k \in 1..(i - 1) : k \in 1..Len(Order) /\ k < i
        BY <3>1
      <3>3. Reached(s) /\ Ahead(s)
        BY DEF ReachInv, AheadInv
      <3>4. i > reach[s] => i >= at[s]
        BY <3>1, <3>3 DEF Reached
      <3>5. i > reach[s] => Order[i] \notin zeroed[s] /\ outcome[s][Order[i]] = "none"
        BY <3>1, <3>3, <3>4 DEF Reached, Ahead
      <3> QED
        BY <3>1, <3>2, <3>5 DEF Placed
    <2>2. ASSUME NEW s \in Sweep, stage[s] = "ok"
          PROVE  reach[s] >= Len(Order)
      <3>1. at[s] = Len(Order) + 1 /\ Len(Order) \in Nat /\ reach[s] \in Nat
        BY <2>2, OrderAssumption DEF PlaceInv, Placed, TypeOK
      <3> QED
        BY <3>1 DEF ReachInv, Reached
    <2> QED
      BY <2>1, <2>2 DEF AnswersHold, RemovalInv
  <1> QED
    BY <1>1, <1>2, PTL

-----------------------------------------------------------------------------
(* A sweep ends. *)

\* The steps a sweep has left, at most: its request, and three for each environment.
InEnvironment == [entity |-> 3, look |-> 2, deploy |-> 1]

SweepLeft(s) ==
  IF stage[s] = "none" THEN 3 * Len(Order) + 1
  ELSE IF Sweeping(s) THEN 3 * (Len(Order) - at[s]) + InEnvironment[stage[s]]
  ELSE 0

\* A sweep that is not over has steps left.
SweepIsLeft ==
  \A s \in Sweep :
    /\ SweepLeft(s) \in 0..(3 * Len(Order) + 1)
    /\ SweepLeft(s) = 0 <=> stage[s] \in {"ok", "failed", "dead"}

\* Each step of a sweep uses up one at least, and nobody else's gives it more.
SweepIsUsed ==
  \A s \in Sweep :
    /\ SweepLeft(s)' <= SweepLeft(s)
    /\ SweepStep(s) => SweepLeft(s)' < SweepLeft(s)

\* An environment costs a sweep three steps.
LEMMA Threes ==
  ASSUME NEW n \in Nat, NEW k \in 1..n, NEW a \in 1..3
  PROVE  /\ 3 * (n - k) + a \in 1..(3 * n)
         /\ 3 * (n - (k + 1)) + 3 < 3 * (n - k) + a
  OBVIOUS

LEMMA SweepLeftNow ==
  ASSUME TypeOK, NEW s \in Sweep
  PROVE  /\ SweepLeft(s) \in 0..(3 * Len(Order) + 1)
         /\ SweepLeft(s) = 0 <=> stage[s] \in {"ok", "failed", "dead"}
         /\ Sweeping(s) => /\ SweepLeft(s) = 3 * (Len(Order) - at[s]) + InEnvironment[stage[s]]
                           /\ InEnvironment[stage[s]] \in 1..3
                           /\ SweepLeft(s) \in 1..(3 * Len(Order))
  <1>1. Len(Order) \in Nat /\ stage[s] \in {"none", "entity", "look", "deploy", "ok", "failed", "dead"}
    BY OrderAssumption DEF TypeOK
  <1>2. CASE Sweeping(s)
    <2>1. InEnvironment[stage[s]] \in 1..3
      BY <1>2 DEF Sweeping, InEnvironment
    <2>2. SweepLeft(s) = 3 * (Len(Order) - at[s]) + InEnvironment[stage[s]]
      BY <1>2 DEF SweepLeft, Sweeping
    <2>3. SweepLeft(s) \in 1..(3 * Len(Order))
      BY <1>1, <1>2, <2>1, <2>2, HereIsTyped, Threes
    <2>4. stage[s] \notin {"ok", "failed", "dead"}
      BY <1>2 DEF Sweeping
    <2> QED
      BY <1>1, <2>1, <2>2, <2>3, <2>4
  <1>3. CASE stage[s] = "none"
    BY <1>1, <1>3 DEF SweepLeft, Sweeping
  <1>4. CASE stage[s] \in {"ok", "failed", "dead"}
    BY <1>1, <1>4 DEF SweepLeft, Sweeping
  <1> QED
    BY <1>1, <1>2, <1>3, <1>4 DEF Sweeping

LEMMA OwnStepUses ==
  ASSUME TypeOK, NEW s \in Sweep, SweepStep(s)
  PROVE  SweepLeft(s)' < SweepLeft(s)
  <1>0. /\ stage \in [Sweep -> {"none", "entity", "look", "deploy", "ok", "failed", "dead"}]
        /\ at \in [Sweep -> 1..(Len(Order) + 1)] /\ Len(Order) \in Nat
    BY OrderAssumption DEF TypeOK
  <1>1. ASSUME stage[s] \notin {"ok", "failed", "dead"}, stage'[s] \in {"ok", "failed", "dead"}
        PROVE  SweepLeft(s)' < SweepLeft(s)
    <2>1. SweepLeft(s)' = 0
      BY <1>1 DEF SweepLeft, Sweeping
    <2> QED
      BY <1>0, <1>1, <2>1, SweepLeftNow
  <1>2. ASSUME Sweeping(s), Advance(s)
        PROVE  SweepLeft(s)' < SweepLeft(s)
    <2>1. /\ at[s] \in 1..Len(Order)
          /\ SweepLeft(s) = 3 * (Len(Order) - at[s]) + InEnvironment[stage[s]]
          /\ InEnvironment[stage[s]] \in 1..3
      BY <1>2, HereIsTyped, SweepLeftNow
    <2>2. CASE stage'[s] = "ok"
      BY <1>1, <1>2, <2>2 DEF Sweeping
    <2>3. CASE stage'[s] = "entity" /\ at'[s] = at[s] + 1
      <3>1. SweepLeft(s)' = 3 * (Len(Order) - (at[s] + 1)) + 3
        BY <2>3 DEF SweepLeft, Sweeping, InEnvironment
      <3> QED
        BY <1>0, <2>1, <3>1, Threes
    <2> QED
      BY <1>0, <1>2, <2>2, <2>3 DEF Advance
  <1>3. ASSUME Sweeping(s), at' = at,
               \/ stage[s] = "entity" /\ stage'[s] = "look"
               \/ stage[s] = "look" /\ stage'[s] = "deploy"
        PROVE  SweepLeft(s)' < SweepLeft(s)
    <2>1. SweepLeft(s)' = 3 * (Len(Order) - at[s]) + InEnvironment[stage'[s]]
      BY <1>3 DEF SweepLeft, Sweeping
    <2>2. SweepLeft(s) = 3 * (Len(Order) - at[s]) + InEnvironment[stage[s]]
      BY <1>3 DEF SweepLeft, Sweeping
    <2>3. InEnvironment[stage'[s]] < InEnvironment[stage[s]]
            /\ InEnvironment[stage'[s]] \in Nat /\ InEnvironment[stage[s]] \in Nat
      BY <1>3 DEF InEnvironment
    <2>4. 3 * (Len(Order) - at[s]) \in Int
      BY <1>0
    <2> QED
      BY <2>1, <2>2, <2>3, <2>4
  <1>4. CASE Arrives(s)
    <2>1. stage[s] = "none" /\ stage'[s] = "entity" /\ at'[s] = at[s] /\ at[s] \in 1..Len(Order)
      BY <1>0, <1>4 DEF Arrives, TypeOK
    <2>2. SweepLeft(s)' = 3 * (Len(Order) - at[s]) + 3
      BY <2>1 DEF SweepLeft, Sweeping, InEnvironment
    <2>3. SweepLeft(s) = 3 * Len(Order) + 1
      BY <2>1 DEF SweepLeft
    <2>4. 3 * (Len(Order) - at[s]) + 3 \in 1..(3 * Len(Order))
      BY <1>0, <2>1, Threes
    <2> QED
      BY <1>0, <2>2, <2>3, <2>4
  <1>5. CASE ReadEntity(s) \/ Look(s)
    <2>1. Sweeping(s)
      BY <1>5 DEF ReadEntity, Look, Sweeping
    <2>2. CASE Advance(s)
      BY <1>2, <2>1, <2>2
    <2>3. CASE ~Advance(s)
      BY <1>0, <1>3, <1>5, <2>1, <2>3 DEF ReadEntity, Look
    <2> QED
      BY <2>2, <2>3
  <1>6. CASE Deploy(s) \/ CallFails(s)
    BY <1>2, <1>6 DEF Deploy, CallFails, Sweeping
  <1>7. CASE NoEntity(s) \/ Dies(s)
    BY <1>0, <1>1, <1>7 DEF NoEntity, Dies, Sweeping
  <1> QED
    BY <1>4, <1>5, <1>6, <1>7 DEF SweepStep

LEMMA SweepUsed == TypeOK /\ [Next]_vars => SweepIsUsed
  <1> SUFFICES ASSUME TypeOK, [Next]_vars, NEW s \in Sweep
               PROVE  SweepLeft(s)' <= SweepLeft(s) /\ (SweepStep(s) => SweepLeft(s)' < SweepLeft(s))
    BY DEF SweepIsUsed
  <1>1. SweepLeft(s) \in Int
    BY SweepLeftNow
  <1>2. SweepLeft(s)' \in Int
    <2>1. TypeOK'
      BY TypeStep
    <2>2. at'[s] \in Int /\ Len(Order) \in Int
      BY <2>1, OrderAssumption DEF TypeOK
    <2>3. stage'[s] \in {"entity", "look", "deploy"} => InEnvironment[stage'[s]] \in Int
      BY DEF InEnvironment
    <2> QED
      BY <2>2, <2>3 DEF SweepLeft, Sweeping
  <1>3. CASE SweepStep(s)
    BY <1>1, <1>2, <1>3, OwnStepUses
  <1>4. CASE ~SweepStep(s)
    <2>1. stage'[s] = stage[s] /\ at'[s] = at[s]
      <3>1. ASSUME NEW x \in Sweep, SweepStep(x)
            PROVE  stage'[s] = stage[s] /\ at'[s] = at[s]
        BY <1>4, <3>1, SweepTouches
      <3>2. CASE UNCHANGED <<stage, at>>
        BY <3>2
      <3> QED
        BY <3>1, <3>2
           DEF Next, SweepStep, RemovalArrives, RemovalReads, TriggerRemove, RemovalFails,
               Redeploy, ArrivesLate, Deliver, WorkflowRuns, AllOver, vars, sweepVars, outsideVars
    <2>2. SweepLeft(s)' = SweepLeft(s)
      BY <2>1 DEF SweepLeft, Sweeping
    <2> QED
      BY <1>1, <1>4, <2>2
  <1> QED
    BY <1>3, <1>4

\* Every sweep is over after at most three steps for each environment and its
\* request, however many deployments, deliveries and removals happen meanwhile.
THEOREM SweepsEnd == Spec => []SweepIsLeft /\ [][SweepIsUsed]_vars
  <1>1. TypeOK => SweepIsLeft
    BY SweepLeftNow DEF SweepIsLeft
  <1>2. TypeOK /\ [Next]_vars => [SweepIsUsed]_vars
    BY SweepUsed
  <1> QED
    BY <1>1, <1>2, TypesCorrect, PTL DEF Spec
=============================================================================
