SPECIFICATION Spec
CONSTANTS
  m1 = m1
  m2 = m2
  m3 = m3
  m4 = m4
  MaxAttempts = 3
  MaxModels = 3
  MaxTries = 3
  MaxTotalAttempts = 12
  StrictModel <- MCStrictModel
  Configurations <- MCConfigurations
  Failures <- MCFailures
  StartStatus <- MCStartStatus
INVARIANTS
  BoundedCalls
  OurFaultSurfaces
  OnlyWritesFailAfterSend
  TakenOverIsLeftAlone
PROPERTIES
  MeetsContract
  AnswersAreLicensed
  EndsWithOptOutHonoured
