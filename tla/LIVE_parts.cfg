CONSTANTS
  root = root trash = trash fa = fa fc = fc none = none
  i1 = i1 i2 = i2 f1 = f1 f2 = f2 nil = nil
  l1 = l1 l2 = l2
  nosession = nosession
  d1 = d1 d2 = d2 x1 = x1 nodoc = nodoc noperson = noperson
  Folders = {root, trash, fa, fc}
  Account = root
  Bin = trash
  Nowhere = none
  FirstHome <- HomeAtFirst
  Listed <- ListOrder
  PerPage = 1
  Holders = {}
  Handlers = {1, 2}
  MaxActs = 3
  MaxFailures = 1
  Leaves = {i1, i2}
  Boxes = {f1, f2}
  BoxOf <- BoxIs
  Nil = nil
  Pages = {1, 2}
  MaxTabs = 1
  Threads = {1, 2}
  MaxMoves = 4
  MaxErrors = 1
  Files = {l1, l2}
  Live = {l1}
  Written <- WrittenAtFirst
  MaxLines = 4
  PageSize = 1
  MaxSwitches = 2
  MaxStreamErrors = 1
  Docs = {d1, d2}
  People = {x1}
  NoDoc = nodoc
  NoPerson = noperson
  MaxChanges = 3
  MaxFaults = 1
  NoSession = nosession
  MaxEditors = 2
  MaxSends = 2
  MaxTurns = 3
  MaxAiErrors = 2
SPECIFICATION PartsSpec
CHECK_DEADLOCK FALSE
INVARIANTS SidebarIsRight PaneIsRight LogIsRight KetoAgrees SessionIsRight
PROPERTIES NothingHangs
