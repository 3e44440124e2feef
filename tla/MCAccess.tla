------------------------------ MODULE MCAccess ------------------------------
\* Instances of Access for TLC.
EXTENDS Access, FiniteSets, TLC

CONSTANT MaxRights   \* the most scopes a user holds

UpTo(n) == {h \in SUBSET Scope : Cardinality(h) <= n}
RightsOfAFew == UpTo(MaxRights)

\* An environment and a tool of each kind the checks tell apart, and a template
\* of each kind.
EnvOfEachKind == {"infra-dev", "dev", "ext-test", "prod"}
OneOfEachKind ==
  {q \in Query :
     /\ q.route \in {"suite", "import", "key", "terminal"} => q.env \in EnvOfEachKind
     /\ q.route = "terminal" => q.tool \in {"terminal", "sqs_tool"}
     /\ q.route = "create" => q.template \in {"cdp-node-backend-template",
                                              "cdp-python-backend-template",
                                              "cdp-java-backend-template"}}

TeamSymmetry == Permutations(Team)
=============================================================================
