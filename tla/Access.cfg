SPECIFICATION AccessSpec
CONSTANTS
  alice = alice
  bruno = bruno
  desk = desk
  lab = lab
  badge = badge
  spare = spare
  r1 = r1
  r2 = r2
  r3 = r3
  api = api
  cli = cli
  Absent = Absent
  Claims <- SomeClaims
  Processes = {api, cli}
  Revocations = {r1, r2, r3}
  EnvironmentIds = {}
  Policies <- SomePolicies
  Actors <- SomeActors
  Scopes <- SomeScopes
  Instants = {0, 1, 2, 3}
  MaxTokenFaults = 1
  Profiles <- SomeProfiles
  RegistryTexts <- SomeRegistryTexts
  SessionScopes <- SomeScopes
  Moments = {0, 1, 2}
  MaxEdits = 1
  note = note
  other = other
  NoteInfo <- SomeNotes
  Questions <- SomeQuestions
  TextSize <- SomeSizes
  AddedSize = 400
  Sessions = {"s1", "s2"}
  Archives <- SomeArchives
  Recalls <- SomeRecalls
  PacketSizes = {0, 300}
  Frame = 310
  HitFrame = 100
  MaxMessages = 2
  Hosts = {h1, h2}
  Requests = {first, second}
  first = first
  second = second
  CommandsOf <- SomeCommands
  Stores = 2
  MaxHandles = 2
SYMMETRY Symmetric
INVARIANTS
  AccessTypeOK ConnectionServesItsStores WaitingIsServed TransportsAgree RevocationIsDurable
  RevokedIsRefused VerdictsAgree StartupPredictsVerdict DirectoriesAreApart PacketWithinBudget
  BestNoteIsCited FreshnessIsWarned ScopesShareTheRoom TruncationIsReported BlockIsBounded
CHECK_DEADLOCK FALSE
