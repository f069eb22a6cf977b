SPECIFICATION Spec
CONSTANTS
  h1 = h1
  h2 = h2
  Host = {h1, h2}
  Nobody = Nobody
  NoStat = NoStat
  SESSION_MAX = 2
  PACKETS <- Packets
  UPLOADS <- Uploads
  QUEUE = 2
  Context = {c1, c2, c3}
  Null = Null
  ROWS = 2
  LEAKS = 1
  MAX_CONTEXTS = 5
  ADDRESSES <- Addresses
INVARIANTS LossIsWhatIsMissing ReportsAreOfTheUpload ResourcesComeBack
CHECK_DEADLOCK FALSE
