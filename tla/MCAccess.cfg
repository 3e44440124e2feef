\* One request of each kind, by users with up to two scopes, two teams, and two
\* changes of scopes or owners on the way.
SPECIFICATION Spec
CONSTANTS
  Team = {t1, t2}
  MaxRights = 2
  Asked <- OneOfEachKind
  Rights <- RightsOfAFew
  MaxChanges = 2
SYMMETRY TeamSymmetry
INVARIANTS
  TypeOK
  GrantedOnlyIfEntitled
  RefusedOnlyIfNotEntitled
  ProdQueuesNeedBreakGlass
