SPECIFICATION DiskSpec
CONSTANTS
  small = small
  large = large
  other = other
  Doc = {d1, d2}
  Model = {small, large, other}
  Dims <- MCDims
  FirstModel = large
  MaxEdit = 2
  MaxGeneration = 4
  MaxUpset = 2
  manifest = manifest
  body = body
  extra = extra
  Vault = {v1, v2}
  Release = {1, 2}
  File = {manifest, body, extra}
  Meta = manifest
  Ships <- MCShips
  CacheDir = {old}
  Elsewhere = Elsewhere
  Overlapping = FALSE
  MaxSync = 2
  Updater = {u1, u2}
  Version = {1, 2, 3}
  Serial = TRUE
  MaxUpdate = 3
SYMMETRY Symmetry
VIEW DiskView
INVARIANTS NoGhostHits  MemoFresh SyncTakesEffect UpdateIsSafe
PROPERTIES PinNamesWhole NeverOlder
CHECK_DEADLOCK FALSE
