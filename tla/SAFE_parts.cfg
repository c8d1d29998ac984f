CONSTANTS
  p1 = p1  p2 = p2  none = none
  root = root  trash = trash  f = f  g = g  c = c  t1 = t1  t2 = t2  t3 = t3
  L1 = L1  L2 = L2  u1 = u1  u2 = u2  nolic = nolic  nouser = nouser
  pay = pay  o1 = o1  typed = typed  blank = blank
  blue = blue  green = green  noslot = noslot
  Requests = {p1, p2}
  Items = {root, trash, f, c, t2, t3}
  Kind <- KindOf
  Pk <- PkOf
  Root = root
  Trash = trash
  None = none
  Settled = {f, c}
  Home <- HomeIs
  MaxVersion = 2
  MaxCalls = 3
  RunRequests = {p1, p2}
  PreActions = 2
  FollowUps = 1
  ApiWorkers = 2
  MaxLosses = 1
  SortFields = {"priority", "created_at"}
  FieldValues = {0, 1}
  Unset = none
  Queued = 3
  Licenses = {L1, L2}
  Users = {u1, u2}
  NoLicense = nolic
  NoUser = nouser
  Seats <- SeatsOf
  Lapsing = {L2}
  Admins = {1, 2}
  MaxRequests = 4
  Slots = {blue, green}
  FirstSlot = blue
  NoSlot = noslot
  MaxDeploys = 4
  MaxMishaps = 3
  Payloads = {pay}
  Operators = {o1}
  Typed = typed
  Blank = blank
  Saved = 2
  MaxActions = 3
  Clicks = {1, 2}
  MaxFormActs = 4
  MaxFormErrors = 1
  opr = opr  con = con  fl1 = fl1  fl2 = fl2
  LookedUp = {opr}
  Picked = {con}
  Required = {opr, con}
  FileOrder <- FilesInOrder
  Needs <- NeedsOf
  MaxLookups = 2
  MaxOpenings = 1
  body = body  keep = keep  cleared = cleared  malformed = malformed  worker = worker  sys = sys
  Editors = {p1, p2}
  ItemFields = {body}
  VersionFields = {body}
  Releases = {1, 2}
  Keep = keep
  NoRelease = cleared
  Malformed = malformed
  Nobody = none
  Worker = worker
  MaxEdits = 2
  MaxProgress = 1
  MaxExpiries = 1
  Emails = {1, 2}
  Names = {1, 2}
  NoOne = none
  System = sys
  NoApi = noslot
  MaxUsers = 2
  MaxRuns = 2
  MaxSetupMishaps = 1
SPECIFICATION PartsSpec
CHECK_DEADLOCK FALSE
SYMMETRY Symmetry
INVARIANTS OneItemPerKey EachVersionArchivedOnce TreeIsSound ActionsAreGated OrderIsRight SeatsAgree SlotsAreSound FormIsFaithful ImportIsRight EditsAreSound SetupIsRight
PROPERTIES RestoreSparesOthers
