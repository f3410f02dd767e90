CONSTANTS
  Parts = {"pairing", "directory", "login", "transfers", "channels", "clipboard", "x11"}
  ds = ds
  dj = dj
  dk = dk
  A = A
  B = B
  None = None
  Device <- Devices3
  Account <- Accounts2
  Worlds <- PairWorlds
  MaxSessions = 1
SPECIFICATION CoreSpec
INVARIANTS OneSponsor DirectorySound TokenHasSession DeliveriesSound ClipboardSound
PROPERTIES KeysByDecision NothingReplaced
CHECK_DEADLOCK FALSE
