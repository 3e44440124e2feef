---------------------------- MODULE AccessProofs ----------------------------
(***************************************************************************)
(* Proofs about Access, for any teams, any rights and any number of        *)
(* changes.  The heart is AdmitsIffEntitled: the checks of the code,       *)
(* branch by branch, are the table of sufficient scopes.  What a decision  *)
(* guarantees then follows from the histories alone: the scopes and the    *)
(* owners it was made on were there at some moment since the arrival.      *)
(***************************************************************************)
EXTENDS Access, TLAPS

-----------------------------------------------------------------------------
(* The rows of the table. *)

LEMMA HasAlone ==
  ASSUME NEW s, NEW p
  PROVE  Has(s, {Alone(p)}) <=> Global(p) \in s
  BY DEF Has, Alone

LEMMA HasMembers ==
  ASSUME NEW s, NEW o
  PROVE  Has(s, MembersOf(o)) <=> InTeam(s, o)
  <1>1. ASSUME Has(s, MembersOf(o))
        PROVE  InTeam(s, o)
    <2>1. PICK t \in o : {Of("member", t)} \subseteq s
      BY <1>1 DEF Has, MembersOf
    <2> QED
      BY <2>1 DEF InTeam
  <1>2. ASSUME InTeam(s, o)
        PROVE  Has(s, MembersOf(o))
    <2>1. PICK t \in o : Of("member", t) \in s
      BY <1>2 DEF InTeam
    <2>2. {Of("member", t)} \in MembersOf(o) /\ {Of("member", t)} \subseteq s
      BY <2>1 DEF MembersOf
    <2> QED
      BY <2>2 DEF Has
  <1> QED
    BY <1>1, <1>2

LEMMA HasServiceOwners ==
  ASSUME NEW s, NEW o
  PROVE  Has(s, ServiceOwnersOf(o)) <=> (\E t \in o : Of("serviceOwner", t) \in s)
  <1>1. ASSUME Has(s, ServiceOwnersOf(o))
        PROVE  (\E t \in o : Of("serviceOwner", t) \in s)
    <2>1. PICK t \in o : {Of("serviceOwner", t)} \subseteq s
      BY <1>1 DEF Has, ServiceOwnersOf
    <2> QED
      BY <2>1
  <1>2. ASSUME (\E t \in o : Of("serviceOwner", t) \in s)
        PROVE  Has(s, ServiceOwnersOf(o))
    <2>1. PICK t \in o : Of("serviceOwner", t) \in s
      BY <1>2
    <2>2. {Of("serviceOwner", t)} \in ServiceOwnersOf(o) /\ {Of("serviceOwner", t)} \subseteq s
      BY <2>1 DEF ServiceOwnersOf
    <2> QED
      BY <2>2 DEF Has
  <1> QED
    BY <1>1, <1>2

LEMMA HasBreakGlassOf ==
  ASSUME NEW s, NEW o
  PROVE  Has(s, BreakGlassOf(o)) <=> HasBreakGlass(s, o)
  <1>1. ASSUME NEW e \in BreakGlassOf(o), e \subseteq s
        PROVE  HasBreakGlass(s, o)
    <2>1. CASE e = Alone("breakGlass")
      BY <1>1, <2>1 DEF HasBreakGlass, Alone
    <2>2. CASE \E t \in o : e = {Of("breakGlass", t)}
      BY <1>1, <2>2 DEF HasBreakGlass
    <2> QED
      BY <1>1, <2>1, <2>2 DEF BreakGlassOf
  <1>2. ASSUME Global("breakGlass") \in s
        PROVE  Has(s, BreakGlassOf(o))
    <2>1. Alone("breakGlass") \in BreakGlassOf(o) /\ Alone("breakGlass") \subseteq s
      BY <1>2 DEF BreakGlassOf, Alone
    <2> QED
      BY <2>1 DEF Has
  <1>3. ASSUME NEW t \in o, Of("breakGlass", t) \in s
        PROVE  Has(s, BreakGlassOf(o))
    <2>1. {Of("breakGlass", t)} \in BreakGlassOf(o) /\ {Of("breakGlass", t)} \subseteq s
      BY <1>3 DEF BreakGlassOf
    <2> QED
      BY <2>1 DEF Has
  <1> QED
    BY <1>1, <1>2, <1>3 DEF Has, HasBreakGlass

LEMMA HasAnd ==
  ASSUME NEW s, NEW sets, NEW more
  PROVE  Has(s, And(sets, more)) <=> more \subseteq s /\ Has(s, sets)
  <1>1. ASSUME NEW x \in sets, x \cup more \subseteq s
        PROVE  more \subseteq s /\ Has(s, sets)
    <2>1. x \subseteq s /\ more \subseteq s
      BY <1>1
    <2> QED
      BY <2>1 DEF Has
  <1>2. ASSUME more \subseteq s, NEW x \in sets, x \subseteq s
        PROVE  Has(s, And(sets, more))
    <2>1. x \cup more \in And(sets, more) /\ x \cup more \subseteq s
      BY <1>2 DEF And
    <2> QED
      BY <2>1 DEF Has
  <1>3. Has(s, And(sets, more)) <=> \E x \in sets : x \cup more \subseteq s
    BY DEF Has, And
  <1> QED
    BY <1>1, <1>2, <1>3 DEF Has

-----------------------------------------------------------------------------
(* The checks and the table. *)

LEMMA ManageEntitled ==
  ASSUME NEW s, NEW o
  PROVE  Has(s, EnoughToManage(o)) <=> IsAdmin(s) \/ InTeam(s, o)
  <1>1. Has(s, EnoughToManage(o)) <=> Has(s, {Alone("admin")}) \/ Has(s, MembersOf(o))
    BY DEF Has, EnoughToManage
  <1> QED
    BY <1>1, HasAlone, HasMembers DEF IsAdmin

LEMMA SuiteEntitled ==
  ASSUME NEW env \in Env, NEW s, NEW o
  PROVE  Has(s, EnoughForSuite(env, o)) <=> StartsSuite(s, env, o)
  <1>1. Has(s, EnoughForSuite(env, o)) <=>
          \/ Has(s, {Alone("admin")})
          \/ env \in {"dev", "test", "perf-test", "prod"} /\ Has(s, MembersOf(o))
          \/ env = "ext-test" /\ Has(s, And(MembersOf(o), Alone("externalTest")))
    BY DEF Has, EnoughForSuite, When
  <1>2. Has(s, And(MembersOf(o), Alone("externalTest")))
          <=> Global("externalTest") \in s /\ InTeam(s, o)
    BY HasAnd, HasMembers DEF Alone
  <1>3. Has(s, EnoughForSuite(env, o)) <=>
          \/ IsAdmin(s)
          \/ env \in {"dev", "test", "perf-test", "prod"} /\ InTeam(s, o)
          \/ env = "ext-test" /\ Global("externalTest") \in s /\ InTeam(s, o)
    BY <1>1, <1>2, HasAlone, HasMembers DEF IsAdmin
  <1> QED
    BY <1>3 DEF StartsSuite, IsOwnerOfSuite, CanRunInEnvironment, Env, AdminEnv, LowerEnv

LEMMA ImportEntitled ==
  ASSUME NEW env \in Env, NEW s, NEW o
  PROVE  Has(s, EnoughForImport(env, o)) <=> StartsImport(s, env, o)
  <1>1. Has(s, And(BreakGlassOf(o), Alone("admin"))) <=> IsAdmin(s) /\ HasBreakGlass(s, o)
    BY HasAnd, HasBreakGlassOf DEF Alone, IsAdmin
  <1> QED
    BY <1>1, HasAlone DEF EnoughForImport, StartsImport, ScopedUser, IsAdmin

LEMMA TerminalEntitled ==
  ASSUME NEW env \in Env, NEW tool \in Tool, NEW s, NEW o
  PROVE  Has(s, EnoughForTerminal(env, tool, o))
           <=> IsAllowedTerminalEnvironment(s, env, o, tool)
  <1> DEFINE ServiceOwner == \E t \in o : Of("serviceOwner", t) \in s
  <1>1. Has(s, EnoughForTerminal(env, tool, o)) <=>
          \/ Has(s, {Alone("admin")})
          \/ env \in LowerEnv /\ Has(s, ServiceOwnersOf(o))
          \/ env = "prod" /\ Has(s, BreakGlassOf(o))
          \/ /\ env = "prod" /\ tool \in SqsTool
             /\ Has(s, And(ServiceOwnersOf(o), Alone("betaTester")))
    BY DEF Has, EnoughForTerminal, When
  <1>2. Has(s, And(ServiceOwnersOf(o), Alone("betaTester")))
          <=> Global("betaTester") \in s /\ ServiceOwner
    BY HasAnd, HasServiceOwners DEF Alone
  <1>3. ToolConfig[tool].allowInProdWithoutBreakGlass <=> tool \in SqsTool
    BY DEF ToolConfig
  <1> QED
    BY <1>1, <1>2, <1>3, HasAlone, HasServiceOwners, HasBreakGlassOf
       DEF IsAllowedTerminalEnvironment, IsAdmin

LEMMA KeyEntitled ==
  ASSUME NEW env \in Env, NEW s \in SUBSET Scope
  PROVE  Has(s, EnoughForKey(env)) <=> CanAddEphemeralKey(env, s)
  <1>1. Has(s, EnoughForKey(env)) <=>
          \/ env = "prod" /\ Has(s, BreakGlassOf(Team))
          \/ env # "prod" /\ Has(s, {Alone("admin")})
          \/ env \in LowerEnv /\ Has(s, {Alone("tenant")})
    BY DEF Has, EnoughForKey, When
  <1>2. HasBreakGlass(s, Team) <=> \E x \in s : x[1] = "breakGlass"
    <2>1. ASSUME NEW x \in s, x[1] = "breakGlass"
          PROVE  HasBreakGlass(s, Team)
      <3>1. x = <<"breakGlass", "all">> \/ \E t \in Team : x = <<"breakGlass", t>>
        BY <2>1 DEF Scope, GlobalPermission, TeamPermission
      <3> QED
        BY <3>1 DEF HasBreakGlass, Global, Of
    <2> QED
      BY <2>1 DEF HasBreakGlass, Global, Of
  <1>3. env \in LowerEnv <=> env \notin AdminEnv \cup {"prod"}
    BY DEF Env, AdminEnv, LowerEnv
  <1> QED
    BY <1>1, <1>2, <1>3, HasAlone, HasBreakGlassOf DEF CanAddEphemeralKey, IsAdmin

LEMMA CreationEntitled ==
  ASSUME NEW team \in Team, NEW template \in Template, NEW s
  PROVE  Has(s, EnoughForCreation(team, template)) <=> CreatesTenant(s, team, template)
  <1> DEFINE python == "cdp-python-backend-template"
             java == "cdp-java-backend-template"
             Member == Of("member", team) \in s
  <1>1. Has(s, EnoughForCreation(team, template)) <=>
          \/ Has(s, {Alone("admin")})
          \/ template = python /\ Has(s, And(MembersOf({team}), Alone("restrictedTechPython")))
          \/ template = java /\ Has(s, And(MembersOf({team}), Alone("restrictedTechJava")))
          \/ template \notin {python, java} /\ Has(s, MembersOf({team}))
    BY DEF Has, EnoughForCreation, When
  <1>2. Has(s, MembersOf({team})) <=> Member
    BY HasMembers DEF InTeam
  <1>3. ASSUME NEW p
        PROVE  Has(s, And(MembersOf({team}), Alone(p))) <=> Global(p) \in s /\ Member
    BY <1>2, HasAnd DEF Alone
  <1>4. MayUseTemplate(s, template) <=>
          /\ template = python => IsAdmin(s) \/ Global("restrictedTechPython") \in s
          /\ template = java => IsAdmin(s) \/ Global("restrictedTechJava") \in s
    BY DEF MayUseTemplate, RequiredScope, IsAdmin
  <1> QED
    BY <1>1, <1>2, <1>3, <1>4, HasAlone DEF CreatesTenant, IsAdmin

\* The checks let through exactly those the table of sufficient scopes entitles,
\* for every request, every set of scopes and every set of owning teams.
THEOREM AdmitsIffEntitled ==
  ASSUME NEW q \in Query, NEW s \in SUBSET Scope, NEW o \in SUBSET Team
  PROVE  Admits(q, s, o) <=> Entitled(q, s, o)
  <1>1. CASE q.route \in {"manage", "stop"}
    BY <1>1, ManageEntitled DEF Admits, Entitled, ScopedUser, IsOwnerOfSuite
  <1>2. CASE q.route = "suite"
    <2>1. q.env \in Env
      BY <1>2 DEF Query
    <2> QED
      BY <1>2, <2>1, SuiteEntitled DEF Admits, Entitled
  <1>3. CASE q.route = "import"
    <2>1. q.env \in Env
      BY <1>3 DEF Query
    <2> QED
      BY <1>3, <2>1, ImportEntitled DEF Admits, Entitled
  <1>4. CASE q.route = "terminal"
    <2>1. q.env \in Env /\ q.tool \in Tool
      BY <1>4 DEF Query
    <2> QED
      BY <1>4, <2>1, TerminalEntitled DEF Admits, Entitled
  <1>5. CASE q.route = "key"
    <2>1. q.env \in Env
      BY <1>5 DEF Query
    <2> QED
      BY <1>5, <2>1, KeyEntitled DEF Admits, Entitled
  <1>6. CASE q.route = "republish"
    BY <1>6, HasAlone DEF Admits, Entitled, IsAdmin
  <1>7. CASE q.route = "create"
    <2>1. q.team \in Team /\ q.template \in Template
      BY <1>7 DEF Query
    <2> QED
      BY <1>7, <2>1, CreationEntitled DEF Admits, Entitled
  <1>8. q.route \in {"manage", "stop", "suite", "import", "terminal", "key", "republish", "create"}
    BY DEF Query
  <1> QED
    BY <1>1, <1>2, <1>3, <1>4, <1>5, <1>6, <1>7, <1>8

\* Who has more scopes may do no less.
THEOREM MoreScopesMayDoMore ==
  ASSUME NEW q \in Query, NEW s \in SUBSET Scope, NEW more \in SUBSET Scope,
         NEW o \in SUBSET Team, s \subseteq more, Admits(q, s, o)
  PROVE  Admits(q, more, o)
  <1>1. ASSUME NEW sets, Has(s, sets)
        PROVE  Has(more, sets)
    BY <1>1 DEF Has
  <1>2. Entitled(q, s, o)
    BY AdmitsIffEntitled
  <1>3. Entitled(q, more, o)
    BY <1>1, <1>2 DEF Entitled
  <1> QED
    BY <1>3, AdmitsIffEntitled

\* The list of templates shows a user every template of the type and the subtype
\* asked for that he is entitled to create a tenant from, for one of his teams or as
\* an admin; and whatever it shows a member of a team or an admin he may create: the
\* list of filterTemplates and the two checks of createTenantController, made of
\* different code, agree with the table of sufficient scopes.  Only membership is not
\* looked at by the list.
THEOREM ListedAndOfTheTeamIffEntitled ==
  ASSUME NEW s \in SUBSET Scope, NEW team \in Team, NEW t \in Template,
         NEW type \in {NoFilter} \cup {EntityType[x] : x \in Template},
         NEW subtype \in {NoFilter} \cup {EntitySubType[x] : x \in Template}
  PROVE  (t \in FilterTemplates(s, type, subtype) /\ (IsAdmin(s) \/ Of("member", team) \in s))
           <=> /\ Entitled([route |-> "create", team |-> team, template |-> t], s, {})
               /\ type \in {NoFilter, EntityType[t]}
               /\ subtype \in {NoFilter, EntitySubType[t]}
  <1>1. Entitled([route |-> "create", team |-> team, template |-> t], s, {})
          <=> Has(s, EnoughForCreation(team, t))
    BY DEF Entitled
  <1>2. MayUseTemplate(s, t)
          <=> RequiredScope[t] = {} \/ \E x \in RequiredScope[t] : x \in s
    BY DEF MayUseTemplate
  <1> QED
    BY <1>1, <1>2, CreationEntitled DEF FilterTemplates, CreatesTenant

\* A decision made without the entity does not depend on who owns it.
LEMMA EntityNotNeeded ==
  ASSUME NEW q \in Query, NEW h, NEW o, NEW p, ~ReadsEntity(q, Known(h))
  PROVE  Admits(q, h, o) <=> Admits(q, h, p)
  <1>1. Known(h) # Unknown /\ Known(h).scope = h
    BY DEF Known, Unknown
  <1> QED
    BY <1>1 DEF ReadsEntity, Admits, StartsSuite, StartsImport, IsOwnerOfSuite, ScopedUser

\* Nobody is let through without a scope.
LEMMA NoScopeNoAccess ==
  ASSUME NEW q \in Query, NEW o
  PROVE  ~Admits(q, {}, o)
  BY DEF Admits, StartsSuite, StartsImport, IsOwnerOfSuite, ScopedUser, CreatesTenant,
         IsAllowedTerminalEnvironment, CanAddEphemeralKey, IsAdmin, InTeam, HasBreakGlass

-----------------------------------------------------------------------------
(* Types. *)

LEMMA TypeInit == Init => TypeOK
  BY DEF Init, TypeOK, NoCredentials

LEMMA TypeStep == TypeOK /\ [Next]_vars => TypeOK'
  <1> SUFFICES ASSUME TypeOK, [Next]_vars
               PROVE  TypeOK'
    OBVIOUS
  <1> USE DEF TypeOK
  <1>1. ASSUME Arrives
        PROVE  TypeOK'
    BY <1>1 DEF Arrives
  <1>2. ASSUME NEW c, NEW teams, Decide(c, teams)
        PROVE  /\ stage' \in {"granted", "refused"}
               /\ queues' \in {"none", "full"}
    BY <1>2 DEF Decide
  <1>3. ASSUME Authenticate
        PROVE  TypeOK'
    <2>1. PICK c \in {Known(held), Unknown} :
            /\ credentials' = c
            /\ \/ stage' = "entity" /\ UNCHANGED queues
               \/ Decide(c, {})
      BY <1>3 DEF Authenticate
    <2>2. c # NoCredentials
      BY <2>1 DEF NoCredentials, Unknown, Known
    <2>3. c \in [answer : {"none", "error", "scopes"}, scope : Rights \cup {{}}]
      BY <2>1 DEF Unknown, Known
    <2>4. stage = "authenticate" /\ UNCHANGED <<query, held, owners, changes, heldSeen, ownersSeen>>
      BY <1>3 DEF Authenticate
    <2>5. stage' \in {"entity", "granted", "refused"} /\ queues' \in {"none", "full"}
      BY <2>1, <1>2
    <2> QED
      BY <2>1, <2>2, <2>3, <2>4, <2>5
  <1>4. ASSUME ReadEntity
        PROVE  TypeOK'
    BY <1>2, <1>4 DEF ReadEntity
  <1>5. ASSUME CallFails
        PROVE  TypeOK'
    BY <1>5 DEF CallFails
  <1>6. ASSUME RightsChange
        PROVE  TypeOK'
    BY <1>6 DEF RightsChange
  <1>7. ASSUME OwnersChange
        PROVE  TypeOK'
    BY <1>7 DEF OwnersChange
  <1>8. ASSUME Over \/ UNCHANGED vars
        PROVE  TypeOK'
    BY <1>8 DEF Over, vars
  <1> QED
    BY <1>1, <1>3, <1>4, <1>5, <1>6, <1>7, <1>8 DEF Next

\* Every variable keeps its type, and a request is decided on scopes that were read.
THEOREM TypesCorrect == Spec => []TypeOK
  BY TypeInit, TypeStep, PTL DEF Spec

-----------------------------------------------------------------------------
(* The inductive invariant. *)

\* What the handler has read, or is about to, is in the histories.
SeenInv ==
  /\ stage \in {"authenticate", "entity"} => held \in heldSeen /\ owners \in ownersSeen
  /\ credentials \in {NoCredentials, Unknown} \cup {Known(h) : h \in heldSeen}
  /\ stage = "none" => credentials = NoCredentials
  /\ queues = "full" => stage = "granted"

DecisionInv ==
  /\ SeenInv
  /\ GrantedOnlyIfEntitled
  /\ RefusedOnlyIfNotEntitled
  /\ ProdQueuesNeedBreakGlass

LEMMA DecisionInit == Init => DecisionInv
  BY DEF Init, DecisionInv, SeenInv, GrantedOnlyIfEntitled, RefusedOnlyIfNotEntitled,
         ProdQueuesNeedBreakGlass

\* On an answer of user-service without scopes every request is refused.
LEMMA UnknownIsRefused ==
  ASSUME query \in Query, NEW teams, Decide(Unknown, teams)
  PROVE  stage' = "refused" /\ queues' = queues
  BY NoScopeNoAccess DEF Decide, Unknown

\* Any other decision is the right one for the scopes read and the owners of now.
LEMMA DecisionIsRight ==
  ASSUME query \in Query, NEW h \in SUBSET Scope, NEW teams, owners \in SUBSET Team,
         Decide(Known(h), teams),
         teams = owners \/ ~ReadsEntity(query, Known(h))
  PROVE  /\ stage' \in {"granted", "refused"}
         /\ stage' = "granted" <=> Entitled(query, h, owners)
  <1>1. Known(h).scope = h
    BY DEF Known
  <1>2. Admits(query, h, teams) <=> Admits(query, h, owners)
    BY EntityNotNeeded
  <1>3. Admits(query, h, owners) <=> Entitled(query, h, owners)
    BY AdmitsIffEntitled
  <1>4. stage' = (IF Admits(query, h, teams) THEN "granted" ELSE "refused")
    BY <1>1 DEF Decide
  <1> QED
    BY <1>2, <1>3, <1>4

\* Queues are opened by decisions that let a terminal through; in prod, with
\* break glass.
LEMMA QueuesAreRight ==
  ASSUME NEW h, NEW teams, Decide(Known(h), teams), queues = "none", queues' = "full"
  PROVE  /\ stage' = "granted"
         /\ query.route = "terminal"
         /\ query.env = "prod" => Has(h, BreakGlassOf(teams))
  <1>1. Known(h).scope = h
    BY DEF Known
  <1> QED
    BY <1>1, HasBreakGlassOf DEF Decide, HasFullQueueAccess

LEMMA DecideKeepsDecisionInv ==
  ASSUME TypeOK, DecisionInv, stage \in {"authenticate", "entity"},
         NEW c \in {Unknown} \cup {Known(h) : h \in heldSeen},
         NEW teams, Decide(c, teams), credentials' = c,
         teams = owners \/ ~ReadsEntity(query, c),
         UNCHANGED <<query, held, owners, changes, heldSeen, ownersSeen>>
  PROVE  DecisionInv'
  <1> USE DEF DecisionInv, SeenInv, GrantedOnlyIfEntitled, RefusedOnlyIfNotEntitled,
              ProdQueuesNeedBreakGlass
  <1>1. query \in Query
    BY AskedAssumption DEF TypeOK
  <1>2. queues = "none"
    BY DEF TypeOK
  <1>3. CASE c = Unknown
    BY <1>1, <1>2, <1>3, UnknownIsRefused
  <1>4. ASSUME NEW h \in heldSeen, c = Known(h)
        PROVE  DecisionInv'
    <2>1. /\ stage' \in {"granted", "refused"}
          /\ stage' = "granted" <=> Entitled(query, h, owners)
      BY <1>1, <1>4, RightsAssumption, DecisionIsRight DEF TypeOK
    <2>2. c # Unknown
      BY <1>4 DEF Known, Unknown
    <2>3. GrantedOnlyIfEntitled' /\ RefusedOnlyIfNotEntitled'
      BY <2>1, <2>2
    <2>4. queues' \in {"none", "full"}
      BY <1>2 DEF Decide
    <2>5. CASE queues' = "none"
      BY <1>4, <2>1, <2>3, <2>5
    <2>6. CASE queues' = "full"
      <3>1. /\ stage' = "granted"
            /\ query.route = "terminal"
            /\ query.env = "prod" => Has(h, BreakGlassOf(teams))
        BY <1>2, <1>4, <2>6, QueuesAreRight
      <3>2. teams = owners
        BY <3>1 DEF ReadsEntity
      <3>3. ProdQueuesNeedBreakGlass'
        BY <1>4, <3>1, <3>2
      <3> QED
        BY <1>4, <2>1, <2>3, <3>1, <3>3
    <2> QED
      BY <2>4, <2>5, <2>6
  <1> QED
    BY <1>3, <1>4

LEMMA DecisionStep == TypeOK /\ DecisionInv /\ [Next]_vars => DecisionInv'
  <1> SUFFICES ASSUME TypeOK, DecisionInv, [Next]_vars
               PROVE  DecisionInv'
    OBVIOUS
  <1> USE DEF DecisionInv, SeenInv, GrantedOnlyIfEntitled, RefusedOnlyIfNotEntitled,
              ProdQueuesNeedBreakGlass
  <1>1. ASSUME Arrives
        PROVE  DecisionInv'
    <2>1. stage' = "authenticate" /\ queues' = queues /\ queues = "none"
      BY <1>1 DEF Arrives, TypeOK
    <2>2. credentials' = credentials /\ heldSeen' = {held} /\ ownersSeen' = {owners}
      BY <1>1 DEF Arrives
    <2> QED
      BY <1>1, <2>1, <2>2 DEF Arrives
  <1>2. ASSUME Authenticate
        PROVE  DecisionInv'
    <2>1. PICK c \in {Known(held), Unknown} :
            /\ credentials' = c
            /\ IF ReadsEntity(query, c)
               THEN stage' = "entity" /\ UNCHANGED queues
               ELSE Decide(c, {})
      BY <1>2 DEF Authenticate
    <2>2. stage = "authenticate" /\ UNCHANGED <<query, held, owners, changes, heldSeen, ownersSeen>>
      BY <1>2 DEF Authenticate
    <2>3. c \in {Unknown} \cup {Known(h) : h \in heldSeen}
      BY <2>1, <2>2
    <2>4. CASE ReadsEntity(query, c)
      BY <2>1, <2>2, <2>3, <2>4
    <2>5. CASE ~ReadsEntity(query, c)
      BY <2>1, <2>2, <2>3, <2>5, DecideKeepsDecisionInv
    <2> QED
      BY <2>4, <2>5
  <1>3. ASSUME ReadEntity
        PROVE  DecisionInv'
    <2>1. credentials \in {Unknown} \cup {Known(h) : h \in heldSeen}
      BY <1>3 DEF ReadEntity, TypeOK
    <2> QED
      BY <1>3, <2>1, DecideKeepsDecisionInv DEF ReadEntity
  <1>4. ASSUME CallFails
        PROVE  DecisionInv'
    BY <1>4 DEF CallFails
  <1>5. ASSUME RightsChange
        PROVE  DecisionInv'
    BY <1>5 DEF RightsChange
  <1>6. ASSUME OwnersChange
        PROVE  DecisionInv'
    BY <1>6 DEF OwnersChange
  <1>7. ASSUME Over \/ UNCHANGED vars
        PROVE  DecisionInv'
    BY <1>7 DEF Over, vars
  <1> QED
    BY <1>1, <1>2, <1>3, <1>4, <1>5, <1>6, <1>7 DEF Next

LEMMA DecisionAlways == Spec => []DecisionInv
  BY TypesCorrect, DecisionInit, DecisionStep, PTL DEF Spec

\* A request is let through only with scopes and for an owner that were there
\* between its arrival and the decision.
THEOREM GrantsAreEntitled == Spec => []GrantedOnlyIfEntitled
  BY DecisionAlways, PTL DEF DecisionInv

\* Nobody is refused who was entitled throughout.
THEOREM RefusalsAreRight == Spec => []RefusedOnlyIfNotEntitled
  BY DecisionAlways, PTL DEF DecisionInv

\* In prod messages are shown, and queues purged, with break glass only.
THEOREM QueuesNeedBreakGlass == Spec => []ProdQueuesNeedBreakGlass
  BY DecisionAlways, PTL DEF DecisionInv
=============================================================================
