CONSTANTS
  NoUser = NoUser
  u1 = u1
  u2 = u2
  Users = {u1, u2}
  Requests = {r1, r2}
  Scenarios <- MCScenarios
  BatchSize = 1
SYMMETRY Symmetric
SPECIFICATION Spec
INVARIANT OneSessionPerSecret
PROPERTY NeverLockedOut
PROPERTY FlagLiftedByEnrolment
