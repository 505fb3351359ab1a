SPECIFICATION Spec
CONSTANTS
  Req <- MCReq
  r1 = r1
  r2 = r2
  Providers = {"gitlab", "github", "bitbucket", "bitbucket_dc", "gitflic"}
  Modes = {"webhook", "oauth_polling", "hybrid"}
  MaxSent = 4
  MaxFaults = 2
  None = None
SYMMETRY Symmetry
INVARIANTS
  TypeOK
  SecretAgrees
  ActiveHasHook
  OneHook
  HooksKnown
PROPERTIES
  OffStaysOff

CHECK_DEADLOCK FALSE
