SPECIFICATION Spec
CONSTANTS
  a1 = a1  a2 = a2  a3 = a3  s1 = s1  s2 = s2  r1 = r1  r2 = r2
  p1 = p1  m1 = m1  n1 = n1  n2 = n2  None = None
SYMMETRY Symmetry
CONSTRAINT OfInterest
INVARIANTS ApprovalsAreRead OneReply LimitsHold EndsAreTold
