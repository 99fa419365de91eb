SPECIFICATION Spec
CONSTANTS
  Record = {"r1", "r2"}
  Param = {"k"}
  Project = {"p", "q"}
  Env = {"TOKEN", "SECRET", "URL"}
  Domain = {"d1", "d2"}
  Repository = {"npm", "maven"}
  Answer <- Answers
  Scenario <- Workloads
  KeyTtl = 2
  TokenLife = 1
  MaxNow = 3
  MaxEvents = 3
INVARIANTS
  TypeOK
  DeployedAgentsServe
  PinnedUnlessDisturbed
  SkillIsEquipped
PROPERTIES
  KeysAreCurrent
  HeadNeverGoesBack
  ConflictsAreReal
CHECK_DEADLOCK FALSE
