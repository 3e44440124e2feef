------------------------------- MODULE Access -------------------------------
(***************************************************************************)
(* One request of a user, from its arrival until it is let through or      *)
(* turned away.  The scopes come with the token, from user-service; the    *)
(* owning teams come one call later, from portal-backend, for the routes   *)
(* that ask for them.  Both may change while the request is under way, so  *)
(* the decision is made on answers of different moments.                   *)
(*                                                                         *)
(* The routes, by the check they make: manage (deploy, to zero, shutter,   *)
(* unshutter, migrate: getScopedUser), suite, stop, import, terminal, key, *)
(* republish and create.  A name missing at portal-backend has no entity,  *)
(* which fails the call.                                                   *)
(***************************************************************************)
EXTENDS Scopes, Naturals

CONSTANTS
  Asked,      \* the requests considered, of all those in Query
  Rights,     \* what the user may hold: sets of scopes
  MaxChanges  \* how often scopes or teams change during a request

Query ==
  [route : {"manage", "stop", "republish"}]
    \cup [route : {"suite", "import", "key"}, env : Env]
    \cup [route : {"terminal"}, env : Env, tool : Tool]
    \cup [route : {"create"}, team : Team, template : Template]

ASSUME AskedAssumption == Asked \subseteq Query
ASSUME RightsAssumption == Rights \subseteq SUBSET Scope

VARIABLES
  stage,        \* where the request stands
  query,        \* what it asks for
  held,         \* the scopes user-service knows of now
  owners,       \* the owning teams portal-backend knows of now
  credentials,  \* what authentication has read
  queues,       \* may a terminal's SQS tool show the messages and purge: "full"?
  changes,      \* scopes and teams changed so far
  heldSeen,     \* history: the scopes held at some moment since the arrival
  ownersSeen    \* history: the owning teams at some moment since the arrival

vars == <<stage, query, held, owners, credentials, queues, changes, heldSeen, ownersSeen>>

NoQuery == [route |-> "none"]
NoCredentials == [answer |-> "none", scope |-> {}]
\* The status of user-service's answer is not looked at: one that is an error
\* has no scopes.
Unknown == [answer |-> "error", scope |-> {}]
Known(s) == [answer |-> "scopes", scope |-> s]

Init ==
  /\ stage = "none"
  /\ query = NoQuery
  /\ held \in Rights
  /\ owners \in SUBSET Team
  /\ credentials = NoCredentials
  /\ queues = "none"
  /\ changes = 0
  /\ heldSeen = {}
  /\ ownersSeen = {}

-----------------------------------------------------------------------------
(* The checks of the routes. *)

\* deployTestSuiteController.
StartsSuite(scope, env, teams) ==
  IsOwnerOfSuite(scope, teams) /\ CanRunInEnvironment(env, scope)

\* startDatabaseImport: admins only, while it is being developed.
StartsImport(scope, env, teams) ==
  /\ IsAdmin(scope)
  /\ env = "prod" => HasBreakGlass(scope, teams)
  /\ ScopedUser(scope, teams)

\* createTenantController: the scopes of the route, then those of the template.
CreatesTenant(scope, team, template) ==
  /\ IsAdmin(scope) \/ Of("member", team) \in scope
  /\ MayUseTemplate(scope, template)

Admits(q, scope, teams) ==
  \/ q.route = "manage" /\ ScopedUser(scope, teams)
  \/ q.route = "stop" /\ IsOwnerOfSuite(scope, teams)
  \/ q.route = "suite" /\ StartsSuite(scope, q.env, teams)
  \/ q.route = "import" /\ StartsImport(scope, q.env, teams)
  \/ q.route = "terminal" /\ IsAllowedTerminalEnvironment(scope, q.env, teams, q.tool)
  \/ q.route = "key" /\ CanAddEphemeralKey(q.env, scope)
  \/ q.route = "republish" /\ IsAdmin(scope)
  \/ q.route = "create" /\ CreatesTenant(scope, q.team, q.template)

\* Whose entity is read before the decision: terminals always, imports once the
\* user is known to be an admin, the others unless the user is one.
ReadsEntity(q, c) ==
  \/ q.route = "terminal"
  \/ q.route = "import" /\ IsAdmin(c.scope)
  \/ q.route \in {"manage", "stop", "suite"} /\ c # Unknown /\ ~IsAdmin(c.scope)

-----------------------------------------------------------------------------
(* The request. *)

Arrives ==
  /\ stage = "none"
  /\ query' \in Asked
  /\ stage' = "authenticate"
  /\ heldSeen' = {held}
  /\ ownersSeen' = {owners}
  /\ UNCHANGED <<held, owners, credentials, queues, changes>>

\* The handler decides, with what it has read, and goes on or throws.
Decide(c, teams) ==
  IF Admits(query, c.scope, teams)
  THEN /\ stage' = "granted"
       /\ IF /\ query.route = "terminal"
             /\ HasFullQueueAccess(c.scope, query.env, teams, query.tool)
          THEN queues' = "full" ELSE UNCHANGED queues
  ELSE /\ stage' = "refused"
       /\ UNCHANGED queues

\* Slip: the scopes are read and not handed on.
AuthenticateForgets ==
  /\ stage = "authenticate"
  /\ stage' = "entity"
  /\ UNCHANGED <<query, credentials, queues, held, owners, changes, heldSeen, ownersSeen>>

\* The token is good and user-service answers.
Authenticate ==
  /\ stage = "authenticate"
  /\ \E c \in {Known(held), Unknown} :
       /\ credentials' = c
       /\ IF ReadsEntity(query, c)
          THEN stage' = "entity" /\ UNCHANGED queues
          ELSE Decide(c, {})
  /\ UNCHANGED <<query, held, owners, changes, heldSeen, ownersSeen>>

\* Slip: the owning teams are taken from the request.
ReadEntityOfPayload ==
  /\ stage = "entity"
  /\ \E teams \in SUBSET Team : Decide(credentials, teams)
  /\ UNCHANGED <<query, held, owners, credentials, changes, heldSeen, ownersSeen>>

\* getEntity answers with the teams of now.
ReadEntity ==
  /\ stage = "entity"
  /\ Decide(credentials, owners)
  /\ UNCHANGED <<query, held, owners, credentials, changes, heldSeen, ownersSeen>>

\* A bad token, or a call that fails.
CallFails ==
  /\ stage \in {"authenticate", "entity"}
  /\ stage' = "failed"
  /\ UNCHANGED <<query, held, owners, credentials, queues, changes, heldSeen, ownersSeen>>

\* An admin gives the user a scope or takes one away.
RightsChange ==
  /\ stage \in {"authenticate", "entity"}
  /\ changes < MaxChanges
  /\ \E s \in Scope : held' \in {held \cup {s}, held \ {s}}
  /\ held' # held /\ held' \in Rights
  /\ changes' = changes + 1
  /\ heldSeen' = heldSeen \cup {held'}
  /\ UNCHANGED <<stage, query, owners, credentials, queues, ownersSeen>>

\* The service changes hands.
OwnersChange ==
  /\ stage \in {"authenticate", "entity"}
  /\ changes < MaxChanges
  /\ owners' \in SUBSET Team \ {owners}
  /\ changes' = changes + 1
  /\ ownersSeen' = ownersSeen \cup {owners'}
  /\ UNCHANGED <<stage, query, held, credentials, queues, heldSeen>>

Over == stage \in {"granted", "refused", "failed"} /\ UNCHANGED vars

Next ==
  \/ Arrives
  \/ Authenticate
  \/ ReadEntity
  \/ CallFails
  \/ RightsChange
  \/ OwnersChange
  \/ Over

Spec == Init /\ [][Next]_vars

-----------------------------------------------------------------------------
(* Who may do what, as a table: the sets of scopes any of which is enough. *)

Alone(p) == {Global(p)}
BreakGlassOf(teams) == {Alone("breakGlass")} \cup {{Of("breakGlass", t)} : t \in teams}
MembersOf(teams) == {{Of("member", t)} : t \in teams}
ServiceOwnersOf(teams) == {{Of("serviceOwner", t)} : t \in teams}
And(sets, more) == {s \cup more : s \in sets}
When(condition, sets) == {s \in sets : condition}

EnoughToManage(teams) == {Alone("admin")} \cup MembersOf(teams)

EnoughForSuite(env, teams) ==
  {Alone("admin")}
    \cup When(env \in {"dev", "test", "perf-test", "prod"}, MembersOf(teams))
    \cup When(env = "ext-test", And(MembersOf(teams), Alone("externalTest")))

EnoughForImport(env, teams) ==
  IF env = "prod" THEN And(BreakGlassOf(teams), Alone("admin")) ELSE {Alone("admin")}

EnoughForTerminal(env, tool, teams) ==
  {Alone("admin")}
    \cup When(env \in LowerEnv, ServiceOwnersOf(teams))
    \cup When(env = "prod", BreakGlassOf(teams))
    \cup When(env = "prod" /\ tool \in SqsTool, And(ServiceOwnersOf(teams), Alone("betaTester")))

EnoughForKey(env) ==
  When(env = "prod", BreakGlassOf(Team))
    \cup When(env # "prod", {Alone("admin")})
    \cup When(env \in LowerEnv, {Alone("tenant")})

EnoughForCreation(team, template) ==
  {Alone("admin")}
    \cup When(template = "cdp-python-backend-template",
              And(MembersOf({team}), Alone("restrictedTechPython")))
    \cup When(template = "cdp-java-backend-template",
              And(MembersOf({team}), Alone("restrictedTechJava")))
    \cup When(template \notin {"cdp-python-backend-template", "cdp-java-backend-template"},
              MembersOf({team}))

Has(scopes, sets) == \E enough \in sets : enough \subseteq scopes

Entitled(q, scopes, teams) ==
  \/ q.route \in {"manage", "stop"} /\ Has(scopes, EnoughToManage(teams))
  \/ q.route = "suite" /\ Has(scopes, EnoughForSuite(q.env, teams))
  \/ q.route = "import" /\ Has(scopes, EnoughForImport(q.env, teams))
  \/ q.route = "terminal" /\ Has(scopes, EnoughForTerminal(q.env, q.tool, teams))
  \/ q.route = "key" /\ Has(scopes, EnoughForKey(q.env))
  \/ q.route = "republish" /\ Has(scopes, {Alone("admin")})
  \/ q.route = "create" /\ Has(scopes, EnoughForCreation(q.team, q.template))

-----------------------------------------------------------------------------
(* What holds of the decision. *)

\* Every variable keeps its type, and what is under way has been asked for, and
\* is decided on scopes that were read.
TypeOK ==
  /\ stage \in {"none", "authenticate", "entity", "granted", "refused", "failed"}
  /\ query \in Asked \cup {NoQuery}
  /\ stage # "none" => query \in Asked
  /\ held \in Rights
  /\ owners \subseteq Team
  /\ credentials \in [answer : {"none", "error", "scopes"}, scope : Rights \cup {{}}]
  /\ stage \in {"entity", "granted", "refused"} => credentials # NoCredentials
  /\ queues \in {"none", "full"}
  /\ changes \in Nat
  /\ heldSeen \subseteq Rights
  /\ ownersSeen \subseteq SUBSET Team

\* A request is let through only with scopes the user held, and only for an
\* owner the service had, between its arrival and the decision, and never on an
\* answer of user-service that names no scopes.
GrantedOnlyIfEntitled ==
  stage = "granted" =>
    /\ credentials # Unknown
    /\ \E h \in heldSeen, o \in ownersSeen : Entitled(query, h, o)

\* A request is refused only if, of the scopes and the owners there were while it
\* was under way, some would not do, or if user-service named no scopes: somebody
\* entitled throughout, for every route and environment, is never turned away.
RefusedOnlyIfNotEntitled ==
  stage = "refused" =>
    \/ credentials = Unknown
    \/ \E h \in heldSeen, o \in ownersSeen : ~Entitled(query, h, o)

\* In prod the SQS tool shows messages and purges queues for nobody who did not
\* hold break glass, in general or for an owner: not even for an admin.
ProdQueuesNeedBreakGlass ==
  queues = "full" /\ query.env = "prod" =>
    \E h \in heldSeen, o \in ownersSeen : Has(h, BreakGlassOf(o))
=============================================================================
