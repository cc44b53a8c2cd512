SPECIFICATION Spec
CONSTANTS
  Client = {c1, c2}
  MaxTime = 1
  m1 = m1
  memberSession = memberSession
  staffSession = staffSession
  Member <- MCMember
  Session <- MCSession
  Owner <- MCOwner
  Key = {k1}
  Payload = {p1, p2}
  SessionTTL = 3
  KeyTTL = 3
SYMMETRY Symmetry
PROPERTY RetiredIsFinal
