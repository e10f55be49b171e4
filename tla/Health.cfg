SPECIFICATION FairSpec
CONSTANTS
  p1 = p1
  p2 = p2
  Processes = {p1, p2}
  Checks = {c1}
  Usage <- TwoUsages
  MEMORY_THRESHOLD = 1
  CPU_THRESHOLD = 1
  Platforms = {"linux", "darwin"}
  Instances <- TwoOfFirst
  Gracefully = {p1}
  MemoryLimit <- MemoryOfBoth
  CpuLimit <- CpuOfFirst
  Unlimited = Unlimited
  MaxEvents = 3
INVARIANTS
  TypeOK
  OncePerCheck
PROPERTIES
  TooMuchRestarts
CHECK_DEADLOCK FALSE
