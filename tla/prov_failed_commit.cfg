SPECIFICATION BSpec
CONSTANTS
  o1 = o1
  o2 = o2
  d1 = d1
  d2 = d2
  Owner = {o1, o2}
  NoOwner = NoOwner
  Config <- Configs
  NoConfig = NoConfig
  Oversize = {3}
  Wifi = {w}
  NoWifi = NoWifi
  Blank = Blank
  MaxSave = 3
  Device = {d1, d2}
  Self = d1
  Blobs <- AllBlobs
  Unfit <- Nothing
  NChunks = 2
  MaxFilled = 3
  Document <- Documents
  Features = {"seq-jitter", "quorum-pace", "chain", "veto", "budget", "zones", "calendars"}
  Holdings <- OnlyFew
  MAX_SECRET = 8
  MAX_KEYS = 2
  MAX_SLOTS = 2
  MAX_PATH_LEGS = 2
  MAX_QUORUM = 2
  MAX_CALENDARS = 2
  MAX_ZONES = 1
  MAX_RADIUS_M = 1000
INVARIANT CommitsAllOrNothing
