\* All passwords of three characters, the only length accepted, of four letters of
\* one kind each, or of a letter and the circled a, which has two; one password of
\* two and one of four; one address, and limits of one hit in three ticks
\* (register) and two hits in two (login).
CONSTANTS
  Chars <- MCChars
  KindsOf <- MCKindsOf
  LowerOf <- MCLowerOf
  Blanks = {" "}
  Common <- MCCommon
  MinLength = 3
  MaxLength = 3
  MinToken = 2
  MaxName = 2
  Passes <- MCPasses
  Locals <- MCLocals
  Names <- MCNames
  Endpoints = {"register", "login"}
  Clients = {client}
  Limit <- MCLimit
  Window <- MCWindow
  Settings = {jwt_secret_key}
  None = None
SPECIFICATION FairSpec
INVARIANTS PolicyHolds BurstBounded
PROPERTIES BlockedGetsThrough
