------------------------------- MODULE Scopes -------------------------------
(***************************************************************************)
(* Who may do what: the functions that decide, from the scopes user-service*)
(* gave for the user and the teams portal-backend gave for the entity,     *)
(* whether a request is let through.  They are written as the code is, one *)
(* operator per function; Access asks whether they let through whom they   *)
(* should, and Terminal uses them.                                         *)
(*                                                                         *)
(* A scope is a pair: what it permits, and the team it is limited to or    *)
(* "all" ("permission:breakGlass:team:t" is <<"breakGlass", t>>).          *)
(***************************************************************************)
CONSTANT Team   \* the teams that may own a service

Global(p) == <<p, "all">>
Of(p, t) == <<p, t>>

GlobalPermission == {"admin", "tenant", "externalTest", "betaTester", "breakGlass",
                     "restrictedTechPython", "restrictedTechJava"}
TeamPermission == {"member", "serviceOwner", "breakGlass"}
Scope == (GlobalPermission \X {"all"}) \cup (TeamPermission \X Team)

AdminEnv == {"infra-dev", "management"}
LowerEnv == {"dev", "test", "perf-test", "ext-test"}
Env == AdminEnv \cup LowerEnv \cup {"prod"}

\* scopeFlags.isAdmin is user-service's word for the scope being among the others.
IsAdmin(scope) == Global("admin") \in scope

\* Is the user in one of the teams that own the entity?
InTeam(scope, owners) == \E t \in owners : Of("member", t) \in scope

\* getScopedUser: admins, and members of an owning team.
ScopedUser(scope, owners) == IsAdmin(scope) \/ InTeam(scope, owners)

\* isOwnerOfSuite.
IsOwnerOfSuite(scope, owners) == IsAdmin(scope) \/ InTeam(scope, owners)

\* canRunInEnvironment: a test suite, by its owner.
CanRunInEnvironment(env, scope) ==
  \/ IsAdmin(scope)
  \/ env = "ext-test" /\ Global("externalTest") \in scope
  \/ env \notin AdminEnv \cup {"ext-test"}

\* userHasBreakGlass and hasBreakGlassScope: in general, or for an owning team.
HasBreakGlass(scope, owners) ==
  \/ Global("breakGlass") \in scope
  \/ \E t \in owners : Of("breakGlass", t) \in scope

\* canAddEphemeralKey: in prod the break glass of any team will do (startsWith),
\* and an admin needs one too.
CanAddEphemeralKey(env, scope) ==
  \/ env = "prod" /\ \E s \in scope : s[1] = "breakGlass"
  \/ env # "prod" /\ IsAdmin(scope)
  \/ env \notin AdminEnv \cup {"prod"} /\ Global("tenant") \in scope

-----------------------------------------------------------------------------
(* Terminals. *)

SqsTool == {"sqs_tool", "sqs_tool_latest"}
RedisTool == {"dbgate_redis", "dbgate_redis_latest"}
Tool == SqsTool \cup RedisTool \cup {"terminal", "terminal_latest", "pgweb", "pgweb_latest",
                                     "dbgate", "dbgate_latest"}

\* The flags of toolConfig: the tool is sent the service's redrivable queues, it
\* needs the service's Redis, it may be launched in prod without break glass.
ToolConfig ==
  [tool \in Tool |-> [sqs |-> tool \in SqsTool,
                      redis |-> tool \in RedisTool,
                      allowInProdWithoutBreakGlass |-> tool \in SqsTool]]

\* Slip: whoever owns the service, and not who owns it as a service owner.
IsAllowedTerminalEnvironmentToMembers(scope, env, owners, tool) ==
  \/ IsAdmin(scope)
  \/ env = "prod" /\ HasBreakGlass(scope, owners)
  \/ env \in LowerEnv /\ InTeam(scope, owners)

\* isAllowedTerminalEnvironment.
IsAllowedTerminalEnvironment(scope, env, owners, tool) ==
  LET isServiceOwner == \E t \in owners : Of("serviceOwner", t) \in scope IN
  \/ IsAdmin(scope)
  \/ env = "prod" /\ HasBreakGlass(scope, owners)
  \/ /\ env = "prod"
     /\ ToolConfig[tool].allowInProdWithoutBreakGlass
     /\ Global("betaTester") \in scope
     /\ isServiceOwner
  \/ env \in LowerEnv /\ isServiceOwner

\* Slip: an admin in place of break glass.
HasFullQueueAccessAsAdmin(scope, env, owners, tool) ==
  ToolConfig[tool].sqs /\ (env # "prod" \/ IsAdmin(scope) \/ HasBreakGlass(scope, owners))

\* hasFullQueueAccess: does the SQS tool show the messages and may it purge?
HasFullQueueAccess(scope, env, owners, tool) ==
  ToolConfig[tool].sqs /\ (env # "prod" \/ HasBreakGlass(scope, owners))

-----------------------------------------------------------------------------
(* Templates of tenants. *)

Node == {"cdp-node-frontend-template", "cdp-node-backend-template",
         "cdp-node-backend-template-minimal", "cdp-node-prototype-template",
         "cdp-node-journey-test-suite-template"}
Template == Node \cup {"cdp-dotnet-backend-template", "cdp-python-backend-template",
                       "cdp-perf-test-suite-template", "cdp-java-backend-template"}

\* requiredScope of tenantTemplates: one of these is needed, if there are any.
RequiredScope ==
  [t \in Template |->
     IF t = "cdp-python-backend-template" THEN {Global("restrictedTechPython"), Global("admin")}
     ELSE IF t = "cdp-java-backend-template" THEN {Global("restrictedTechJava"), Global("admin")}
     ELSE {}]

\* What createTenantController asks of the user for a template.
MayUseTemplate(scope, t) == RequiredScope[t] # {} => RequiredScope[t] \cap scope # {}

\* entityType and entitySubType of tenantTemplates.
EntityType ==
  [t \in Template |->
     IF t \in {"cdp-perf-test-suite-template", "cdp-node-journey-test-suite-template"}
     THEN "TestSuite" ELSE "Microservice"]
EntitySubType ==
  [t \in Template |->
     IF t = "cdp-node-frontend-template" THEN "Frontend"
     ELSE IF t = "cdp-node-prototype-template" THEN "Prototype"
     ELSE IF t = "cdp-perf-test-suite-template" THEN "Performance"
     ELSE IF t = "cdp-node-journey-test-suite-template" THEN "Journey"
     ELSE "Backend"]

\* A query without a type, or without a subtype, filters by none.
NoFilter == "any"

\* filterTemplates: what the portal lists.  The team that is to own the tenant is
\* not known yet and not asked for.
FilterTemplates(scope, type, subtype) ==
  {t \in Template : /\ RequiredScope[t] = {} \/ \E s \in RequiredScope[t] : s \in scope
                    /\ type \in {NoFilter, EntityType[t]}
                    /\ subtype \in {NoFilter, EntitySubType[t]}}
=============================================================================
