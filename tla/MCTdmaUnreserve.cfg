SPECIFICATION FairSpec
CONSTANTS
  p1 = p1
  p2 = p2
  NoPod = NoPod
  Pods = {p1, p2}
  Length <- LengthValue
  majorcycle = 200
PROPERTIES
  UnreserveCleansUp
