SPECIFICATION Spec
CONSTANTS
  Client = {c1, c2}
  MaxTime = 2
  m1 = m1
  memberSession = memberSession
  staffSession = staffSession
  Member <- MCMember
  Session <- MCSession
  Owner <- MCOwner
  Key = {k1}
  Payload = {p1, p2}
  SessionTTL = 1
  KeyTTL = 1
SYMMETRY Symmetry
INVARIANTS LogoutEffective ReplaysFaithful ActiveHasCriteria
PROPERTIES SessionsOnlyEnd StoredOutcomeStable
