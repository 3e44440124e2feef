--------------------------- MODULE CreationProofs ---------------------------
(***************************************************************************)
(* What the creation of a name guarantees, for every number of requests.   *)
(*                                                                         *)
(*   TypeOK       every variable has its type                              *)
(*   LockInv      the entity is the lock: whoever is to dispatch a         *)
(*                tenant's workflow, now or late, holds it, or held it     *)
(*                until it was removed                                     *)
(*   OnceInv      a request has one dispatch, made, late or still to come  *)
(***************************************************************************)
EXTENDS Creation, FiniteSetTheorems, TLAPS

-----------------------------------------------------------------------------
(* The inductive invariant. *)

\* The request entered the entity there is, or one that has been removed.
Held(r) == creator = {r} \/ r \in removed

LockInv ==
  /\ entity = "none" => creator = {}
  /\ \A r \in creator : creator = {r}
  /\ \A r \in Caller : kind[r] = "tenant" =>
       /\ stage[r] \in {"dispatch", "ok"} => Held(r)
       /\ Dispatched(r) => Held(r)
       /\ \A c \in late : c.by = r /\ c.call = "dispatch" => Held(r)

OnceInv ==
  /\ \A r \in Caller :
       /\ stage[r] \in {"none", "team", "entity", "dispatch"} =>
            ~Dispatched(r) /\ \A c \in late : c.by # r
       /\ kind[r] = "tenant" /\ stage[r] = "ok" => Dispatched(r)
  /\ \A c \in late : c.call = "dispatch" => ~Dispatched(c.by)
  /\ \A i, j \in 1..Len(dispatched) : dispatched[i] = dispatched[j] => i = j

-----------------------------------------------------------------------------
(* Types. *)

LEMMA TypeInit == Init => TypeOK
  BY DEF Init, TypeOK, Status, Kind

LEMMA TypeStep == TypeOK /\ [Next]_vars => TypeOK'
  <1> SUFFICES ASSUME TypeOK, [Next]_vars
               PROVE  TypeOK'
    OBVIOUS
  <1> USE DEF TypeOK, Status, Kind, Step
  <1>1. ASSUME NEW r \in Caller, Arrives(r)
        PROVE  TypeOK'
    BY <1>1 DEF Arrives
  <1>2. ASSUME NEW r \in Caller, Accept(r) \/ Refuse(r) \/ Duplicate(r)
        PROVE  TypeOK'
    BY <1>2 DEF Accept, Refuse, Duplicate
  <1>3. ASSUME NEW r \in Caller, CreateInitialEntity(r)
        PROVE  TypeOK'
    BY <1>3 DEF CreateInitialEntity, EntersEntity
  <1>4. ASSUME NEW r \in Caller, TriggerWorkflow(r)
        PROVE  TypeOK'
    BY <1>4 DEF TriggerWorkflow, EntersWorkflow
  <1>5. ASSUME NEW r \in Caller, LeavesCall(r)
        PROVE  late' \in SUBSET Call
    BY <1>5 DEF LeavesCall, Call
  <1>6. ASSUME NEW r \in Caller, CallFails(r) \/ Dies(r)
        PROVE  TypeOK'
    BY <1>5, <1>6 DEF CallFails, Dies
  <1>7. ASSUME NEW c \in late, ArrivesLate(c)
        PROVE  TypeOK'
    <2>1. c.by \in Caller
      BY DEF Call
    <2> QED
      BY <1>7, <2>1 DEF ArrivesLate, EntersEntity, EntersWorkflow
  <1>8. ASSUME Completes \/ TriggerRemoveWorkflow \/ AllOver \/ UNCHANGED vars
        PROVE  TypeOK'
    BY <1>8 DEF Completes, TriggerRemoveWorkflow, AllOver, vars
  <1> QED
    BY <1>1, <1>2, <1>3, <1>4, <1>6, <1>7, <1>8 DEF Next

\* Every reachable state of the creation of a name is well-typed.
THEOREM CreationTyping == Spec => []TypeOK
  BY TypeInit, TypeStep, PTL DEF Spec

-----------------------------------------------------------------------------
(* The lock. *)

\* What a dispatch adds to the workflows.
LEMMA DispatchedThen ==
  ASSUME dispatched \in Seq(Caller), NEW r \in Caller, EntersWorkflow(r)
  PROVE  /\ \A q \in Caller : Dispatched(q)' <=> (Dispatched(q) \/ q = r)
         /\ \A i \in 1..Len(dispatched) : dispatched'[i] = dispatched[i]
         /\ Len(dispatched') = Len(dispatched) + 1 /\ Len(dispatched) \in Nat
         /\ dispatched'[Len(dispatched) + 1] = r
  <1>1. /\ \A i \in 1..Len(dispatched) : dispatched'[i] = dispatched[i]
        /\ Len(dispatched') = Len(dispatched) + 1 /\ Len(dispatched) \in Nat
        /\ dispatched'[Len(dispatched) + 1] = r
    BY DEF EntersWorkflow
  <1> QED
    BY <1>1 DEF Dispatched

LEMMA LockInit == Init => LockInv
  BY DEF Init, LockInv, Dispatched

LEMMA LockStep == TypeOK /\ OnceInv /\ LockInv /\ [Next]_vars => LockInv'
  <1> SUFFICES ASSUME TypeOK, OnceInv, LockInv, [Next]_vars
               PROVE  LockInv'
    OBVIOUS
  <1> USE DEF Step
  <1>0. /\ stage \in [Caller -> {"none", "team", "entity", "dispatch",
                                 "ok", "failed", "refused", "dead"}]
        /\ kind \in [Caller -> Kind \cup {"none"}]
        /\ dispatched \in Seq(Caller) /\ \A c \in late : c.by \in Caller
        /\ \A r \in Caller : stage[r] = "entity" => kind[r] = "tenant"
    BY DEF TypeOK, Call
  <1>1. ASSUME NEW r \in Caller, Arrives(r)
        PROVE  LockInv'
    <2>1. /\ stage[r] = "none" /\ stage' = [stage EXCEPT ![r] = "team"]
          /\ \A q \in Caller \ {r} : kind'[q] = kind[q]
          /\ UNCHANGED <<entity, creator, removed, dispatched, late>>
      BY <1>0, <1>1 DEF Arrives
    <2>2. ~Dispatched(r) /\ \A c \in late : c.by # r
      BY <2>1 DEF OnceInv
    <2> QED
      BY <1>0, <2>1, <2>2 DEF LockInv, Held, Dispatched
  <1>2. ASSUME NEW r \in Caller, Accept(r) \/ Refuse(r) \/ Duplicate(r)
        PROVE  LockInv'
    BY <1>0, <1>2 DEF Accept, Refuse, Duplicate, LockInv, Held, Dispatched
  <1>3. ASSUME NEW r \in Caller, EntersEntity(r), UNCHANGED <<kind, removed, dispatched>>,
               late' \subseteq late,
               \A q \in Caller : stage'[q] = stage[q] \/ (q = r /\ stage'[q] = "dispatch")
        PROVE  LockInv'
    BY <1>3 DEF EntersEntity, LockInv, Held, Dispatched
  <1>4. ASSUME NEW r \in Caller, CreateInitialEntity(r)
        PROVE  LockInv'
    BY <1>0, <1>3, <1>4 DEF CreateInitialEntity
  <1>5. ASSUME NEW r \in Caller, TriggerWorkflow(r)
        PROVE  LockInv'
    <2>1. \A q \in Caller : Dispatched(q)' <=> (Dispatched(q) \/ q = r)
      BY <1>0, <1>5, DispatchedThen DEF TriggerWorkflow
    <2> QED
      BY <1>0, <1>5, <2>1 DEF TriggerWorkflow, LockInv, Held
  <1>6. ASSUME NEW r \in Caller, CallFails(r) \/ Dies(r)
        PROVE  LockInv'
    <2>1. /\ UNCHANGED <<kind, entity, creator, removed, dispatched>>
          /\ LeavesCall(r)
          /\ \A q \in Caller \ {r} : stage'[q] = stage[q]
          /\ kind[r] = "tenant" => stage'[r] \in {"failed", "dead"}
      BY <1>0, <1>6 DEF CallFails, Dies
    <2>2. \A c \in late' : c \in late \/ (c.by = r /\ c.call = stage[r])
      BY <2>1 DEF LeavesCall
    <2> QED
      BY <1>0, <2>1, <2>2 DEF LockInv, Held, Dispatched
  <1>7. ASSUME NEW c \in late, ArrivesLate(c)
        PROVE  LockInv'
    <2>1. UNCHANGED <<stage, kind, removed>> /\ late' \subseteq late /\ c.by \in Caller
      BY <1>0, <1>7 DEF ArrivesLate
    <2>2. CASE EntersEntity(c.by) /\ UNCHANGED dispatched
      BY <1>3, <2>1, <2>2
    <2>3. CASE UNCHANGED <<entity, creator, dispatched>>
      BY <2>1, <2>3 DEF LockInv, Held, Dispatched
    <2>4. CASE c.call = "dispatch" /\ EntersWorkflow(c.by) /\ UNCHANGED <<entity, creator>>
      <3>1. \A q \in Caller : Dispatched(q)' <=> (Dispatched(q) \/ q = c.by)
        BY <1>0, <2>1, <2>4, DispatchedThen
      <3> QED
        BY <2>1, <2>4, <3>1 DEF LockInv, Held
    <2> QED
      BY <1>7, <2>2, <2>3, <2>4 DEF ArrivesLate
  <1>8. ASSUME Completes \/ AllOver \/ UNCHANGED vars
        PROVE  LockInv'
    BY <1>8 DEF Completes, AllOver, vars, LockInv, Held, Dispatched
  <1>9. ASSUME TriggerRemoveWorkflow
        PROVE  LockInv'
    <2>1. /\ creator' = {} /\ removed' = removed \cup creator
          /\ UNCHANGED <<stage, kind, dispatched, late>>
      BY <1>9 DEF TriggerRemoveWorkflow
    <2>2. \A r \in Caller : Held(r) => Held(r)'
      BY <2>1 DEF Held
    <2> QED
      BY <2>1, <2>2 DEF LockInv, Dispatched
  <1> QED
    BY <1>1, <1>2, <1>4, <1>5, <1>6, <1>7, <1>8, <1>9 DEF Next

-----------------------------------------------------------------------------
(* One dispatch. *)

\* A step moves q on without a dispatch.
MovesOn(q) ==
  \/ stage'[q] = stage[q] /\ kind'[q] = kind[q]
  \/ /\ stage'[q] \in {"team", "entity", "dispatch"}
     /\ stage[q] \in {"none", "team", "entity"}
  \/ stage'[q] \in {"failed", "refused", "dead"}
  \/ stage'[q] = "ok" /\ kind'[q] # "tenant"

\* A step by which no workflow is dispatched.
LEMMA NothingDispatched ==
  ASSUME OnceInv, UNCHANGED dispatched, \A q \in Caller : MovesOn(q),
         \A c \in late' : c \notin late =>
           /\ stage'[c.by] \notin {"none", "team", "entity", "dispatch"}
           /\ ~Dispatched(c.by)
  PROVE  OnceInv'
  BY DEF OnceInv, Dispatched, MovesOn

\* A step by which one is: by a request that had none and has no other call left.
LEMMA OneDispatched ==
  ASSUME TypeOK, OnceInv, NEW r \in Caller, EntersWorkflow(r), UNCHANGED kind,
         ~Dispatched(r), late' \subseteq late,
         \A c \in late' : c.call = "dispatch" => c.by # r,
         \A q \in Caller \ {r} : stage'[q] = stage[q],
         stage'[r] \notin {"none", "team", "entity", "dispatch"}
  PROVE  OnceInv'
  <1>1. /\ dispatched \in Seq(Caller) /\ \A c \in late : c.by \in Caller
    BY DEF TypeOK, Call
  <1>2. /\ \A q \in Caller : Dispatched(q)' <=> (Dispatched(q) \/ q = r)
        /\ \A i \in 1..Len(dispatched) : dispatched'[i] = dispatched[i]
        /\ Len(dispatched') = Len(dispatched) + 1 /\ Len(dispatched) \in Nat
        /\ dispatched'[Len(dispatched) + 1] = r
    BY <1>1, DispatchedThen
  <1>3. \A i, j \in 1..Len(dispatched') : dispatched'[i] = dispatched'[j] => i = j
    BY <1>2 DEF OnceInv, Dispatched
  <1>4. ASSUME NEW q \in Caller
        PROVE  /\ stage'[q] \in {"none", "team", "entity", "dispatch"} =>
                    ~Dispatched(q)' /\ \A c \in late' : c.by # q
               /\ kind'[q] = "tenant" /\ stage'[q] = "ok" => Dispatched(q)'
    BY <1>2 DEF OnceInv
  <1>5. \A c \in late' : c.call = "dispatch" => ~Dispatched(c.by)'
    BY <1>1, <1>2 DEF OnceInv
  <1> QED
    BY <1>3, <1>4, <1>5 DEF OnceInv

LEMMA OnceInit == Init => OnceInv
  BY DEF Init, OnceInv, Dispatched

LEMMA OnceStep == TypeOK /\ OnceInv /\ [Next]_vars => OnceInv'
  <1> SUFFICES ASSUME TypeOK, OnceInv, [Next]_vars
               PROVE  OnceInv'
    OBVIOUS
  <1> USE DEF Step
  <1>0. /\ stage \in [Caller -> {"none", "team", "entity", "dispatch",
                                 "ok", "failed", "refused", "dead"}]
        /\ kind \in [Caller -> Kind \cup {"none"}]
        /\ late \in SUBSET Call
    BY DEF TypeOK
  <1>1. ASSUME NEW r \in Caller,
               Arrives(r) \/ Accept(r) \/ Refuse(r) \/ CreateInitialEntity(r) \/ Duplicate(r)
        PROVE  OnceInv'
    <2>1. UNCHANGED <<dispatched, late>>
      BY <1>1 DEF Arrives, Accept, Refuse, CreateInitialEntity, Duplicate
    <2>2. \A q \in Caller : MovesOn(q)
      BY <1>0, <1>1 DEF MovesOn, Arrives, Accept, Refuse, CreateInitialEntity, Duplicate
    <2> QED
      BY <2>1, <2>2, NothingDispatched
  <1>2. ASSUME NEW r \in Caller, TriggerWorkflow(r)
        PROVE  OnceInv'
    <2>1. /\ stage[r] = "dispatch" /\ stage' = [stage EXCEPT ![r] = "ok"]
          /\ EntersWorkflow(r) /\ UNCHANGED <<kind, late>>
      BY <1>2 DEF TriggerWorkflow
    <2>2. ~Dispatched(r) /\ \A c \in late : c.by # r
      BY <2>1 DEF OnceInv
    <2> QED
      BY <1>0, <2>1, <2>2, OneDispatched
  <1>3. ASSUME NEW r \in Caller, CallFails(r) \/ Dies(r)
        PROVE  OnceInv'
    <2>1. /\ UNCHANGED <<kind, dispatched>> /\ LeavesCall(r)
          /\ stage[r] \in {"team", "entity", "dispatch"}
          /\ \A q \in Caller \ {r} : stage'[q] = stage[q]
          /\ stage'[r] \in {"failed", "dead"} \/ (stage'[r] = "ok" /\ kind[r] # "tenant")
      BY <1>0, <1>3 DEF CallFails, Dies, Active
    <2>2. ~Dispatched(r)
      BY <2>1 DEF OnceInv
    <2>3. \A c \in late' : c \in late \/ c.by = r
      BY <2>1 DEF LeavesCall
    <2>4. \A q \in Caller : MovesOn(q)
      BY <2>1 DEF MovesOn
    <2>5. stage'[r] \notin {"none", "team", "entity", "dispatch"}
      BY <2>1
    <2> QED
      BY <2>1, <2>2, <2>3, <2>4, <2>5, NothingDispatched
  <1>4. ASSUME NEW c \in late, ArrivesLate(c)
        PROVE  OnceInv'
    <2>1. UNCHANGED <<stage, kind>> /\ late' = late \ {c} /\ c \in Call
      BY <1>0, <1>4 DEF ArrivesLate
    <2>2. CASE UNCHANGED dispatched
      BY <2>1, <2>2, NothingDispatched DEF MovesOn
    <2>3. CASE c.call = "dispatch" /\ EntersWorkflow(c.by)
      <3>1. c.by \in Caller /\ ~Dispatched(c.by)
        BY <2>1, <2>3 DEF OnceInv, Call
      <3>2. \A x \in late' : x.call = "dispatch" => x.by # c.by
        BY <1>0, <2>1, <2>3 DEF Call
      <3>3. stage[c.by] \notin {"none", "team", "entity", "dispatch"}
        BY <3>1 DEF OnceInv
      <3> QED
        BY <2>1, <2>3, <3>1, <3>2, <3>3, OneDispatched
    <2> QED
      BY <1>4, <2>2, <2>3 DEF ArrivesLate
  <1>5. ASSUME Completes \/ TriggerRemoveWorkflow \/ AllOver \/ UNCHANGED vars
        PROVE  OnceInv'
    BY <1>5, NothingDispatched DEF MovesOn, Completes, TriggerRemoveWorkflow, AllOver, vars
  <1> QED
    BY <1>1, <1>2, <1>3, <1>4, <1>5 DEF Next

-----------------------------------------------------------------------------
(* The theorems. *)

CreationInv == TypeOK /\ OnceInv /\ LockInv

LEMMA CreationInvariance == Spec => []CreationInv
  <1>1. Init => CreationInv
    BY TypeInit, OnceInit, LockInit DEF CreationInv
  <1>2. CreationInv /\ [Next]_vars => CreationInv'
    BY TypeStep, OnceStep, LockStep DEF CreationInv
  <1> QED
    BY <1>1, <1>2, PTL DEF Spec

\* However many requests for a name race, fail or come late, and whatever is removed
\* meanwhile, the entity there is has at most one tenant workflow, that of the request
\* that entered it, and each that has been removed had one at most.
THEOREM CreationOnce == Spec => []OneWorkflowPerTenant
  <1>1. CreationInv => OneWorkflowPerTenant
    <2> SUFFICES ASSUME CreationInv
                 PROVE  OneWorkflowPerTenant
      OBVIOUS
    <2>1. ASSUME NEW i \in Making
          PROVE  /\ i \in 1..Len(dispatched) /\ dispatched[i] \in Caller
                 /\ creator = {dispatched[i]} /\ entity # "none"
      BY DEF Making, Workflows, CreationInv, TypeOK, LockInv, Held, Dispatched
    <2>2. \A i, j \in Workflows("tenant") : dispatched[i] = dispatched[j] => i = j
      BY DEF Workflows, CreationInv, OnceInv
    <2>3. \A i, j \in Making : i = j
      BY <2>1, <2>2 DEF Making
    <2>4. Cardinality(Making) <= 1
      <3>1. CASE Making = {}
        BY <3>1, FS_EmptySet
      <3>2. CASE Making # {}
        <4>1. PICK i : Making = {i}
          BY <2>3, <3>2
        <4> QED
          BY <4>1, FS_Singleton
      <3> QED
        BY <3>1, <3>2
    <2> QED
      BY <2>1, <2>2, <2>4 DEF OneWorkflowPerTenant
  <1> QED
    BY <1>1, CreationInvariance, PTL

\* A tenant's request is answered 200 only when its workflow is under way.
THEOREM CreationOk == Spec => []OkMeansUnderWay
  <1>1. CreationInv => OkMeansUnderWay
    BY DEF CreationInv, OnceInv, OkMeansUnderWay
  <1> QED
    BY <1>1, CreationInvariance, PTL

\* A name entered in portal-backend whose workflow nobody is left to dispatch
\* stays that way until it is removed, whatever is requested later.
THEOREM CreationStuck == Spec => StuckUntilRemoved
  <1>1. ASSUME CreationInv, Next, Stuck, entity' # "none"
        PROVE  Stuck'
    <2>0. /\ dispatched \in Seq(Caller) /\ \A c \in late : c.by \in Caller
          /\ stage \in [Caller -> {"none", "team", "entity", "dispatch",
                                   "ok", "failed", "refused", "dead"}]
          /\ kind \in [Caller -> Kind \cup {"none"}]
      BY <1>1 DEF CreationInv, TypeOK, Call
    <2> USE <2>0 DEF Step
    <2>1. \A r \in creator \cup removed : Over(r) /\ \A c \in late : c.by # r
      BY <1>1 DEF Stuck
    <2>2. ~TriggerRemoveWorkflow
      BY <1>1 DEF TriggerRemoveWorkflow
    <2>3. UNCHANGED <<entity, creator, removed>>
      BY <1>1, <2>2
         DEF Stuck, Next, Arrives, Accept, Refuse, CreateInitialEntity, EntersEntity, Duplicate,
             TriggerWorkflow, CallFails, Dies, ArrivesLate, Completes, AllOver, vars
    <2>4. \A r \in creator \cup removed : Over(r)' /\ \A c \in late' : c.by # r
      <3>1. \A q \in Caller : Over(q) => stage'[q] = stage[q]
        BY <1>1, <2>2
           DEF Over, Active, Next, Arrives, Accept, Refuse, CreateInitialEntity, Duplicate,
               TriggerWorkflow, CallFails, Dies, ArrivesLate, Completes, AllOver, vars
      <3>2. \A c \in late' : c \in late \/ ~Over(c.by)
        BY <1>1, <2>2
           DEF Over, Active, LeavesCall, Next, Arrives, Accept, Refuse, CreateInitialEntity,
               Duplicate, TriggerWorkflow, CallFails, Dies, ArrivesLate, Completes, AllOver, vars
      <3> QED
        BY <1>1, <2>1, <3>1, <3>2 DEF Over, CreationInv, TypeOK
    <2>5. Workflows("tenant")' = {}
      <3>1. \A i \in 1..Len(dispatched) : kind[dispatched[i]] # "tenant"
        BY <1>1 DEF Stuck, Workflows
      <3>2. ASSUME NEW r \in Caller, EntersWorkflow(r), UNCHANGED kind, kind[r] # "tenant"
            PROVE  Workflows("tenant")' = {}
        BY <3>1, <3>2, DispatchedThen DEF Workflows
      <3>3. ASSUME NEW r \in Caller, TriggerWorkflow(r)
            PROVE  Workflows("tenant")' = {}
        <4>1. kind[r] # "tenant"
          BY <1>1, <2>1, <3>3 DEF TriggerWorkflow, CreationInv, LockInv, Held, Over
        <4> QED
          BY <3>2, <3>3, <4>1 DEF TriggerWorkflow
      <3>4. ASSUME NEW c \in late, c.call = "dispatch", ArrivesLate(c)
            PROVE  Workflows("tenant")' = {}
        <4>1. kind[c.by] # "tenant"
          BY <1>1, <2>1, <3>4 DEF CreationInv, LockInv, Held
        <4> QED
          BY <3>2, <3>4, <4>1 DEF ArrivesLate
      <3>5. ASSUME NEW r \in Caller, Arrives(r)
            PROVE  Workflows("tenant")' = {}
        <4>1. ~Dispatched(r)
          BY <1>1, <3>5 DEF Arrives, CreationInv, OnceInv
        <4>2. \A q \in Caller \ {r} : kind'[q] = kind[q]
          BY <3>5 DEF Arrives
        <4> QED
          BY <3>1, <3>5, <4>1, <4>2 DEF Arrives, Workflows, Dispatched
      <3>6. CASE UNCHANGED <<kind, dispatched>>
        BY <3>1, <3>6 DEF Workflows
      <3> QED
        BY <1>1, <2>2, <3>3, <3>4, <3>5, <3>6
           DEF Next, Accept, Refuse, CreateInitialEntity, Duplicate, CallFails, Dies, ArrivesLate,
               Completes, AllOver, vars
    <2> QED
      BY <1>1, <2>3, <2>4, <2>5 DEF Stuck
  <1>2. CreationInv /\ [Next]_vars => [Stuck => Stuck' \/ entity' = "none"]_vars
    BY <1>1
  <1> QED
    BY <1>2, CreationInvariance, PTL DEF Spec, StuckUntilRemoved
=============================================================================
