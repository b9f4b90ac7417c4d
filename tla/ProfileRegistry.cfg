SPECIFICATION Spec
CONSTANTS
  Local = local
  Localhost = localhost
  Legacy = legacy
  Ids = {local, localhost, box}
  Synthetic = synthetic
  Versions = {synthetic, v1, v2}
  MaxProfiles = 2
  Absent = Absent
  NoRegistry = NoRegistry
  Broken = Broken
INVARIANTS
  IInv
  ViewsAgree
  AnswersAreDurable
PROPERTIES
  ChangesAreAtomic
  OperationsEnd
