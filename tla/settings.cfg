SPECIFICATION FairSpec
CONSTANTS
  p1 = p1
  p2 = p2
  d1 = d1
  d2 = d2
  s1 = s1
  s2 = s2
  x1 = x1
  x2 = x2
  f = f
  bt = bt
  w = w
  Clients <- TwoPuts
  Accepted <- TwoValues
  Default <- FirstStart
  Omittable = {}
  Passwords = {w}
  NoPassword = NoPassword
  Zero = Zero
  Bad = Bad
  NoSettings = NoSettings
INVARIANTS
  RuntimeFollowsSettings
  SavedBeforeApplied
  AnswerIsDurable
PROPERTIES
  UpdateEnds
