SPECIFICATION Spec
CONSTANTS
  Members <- FourMembers
  Admins <- OneAdmin
  Channels = {c1, c2}
  None = none
  Handlers = {h1, h2}
  WarnLimit = 2
  WarnCounterMax = 2
  WhitelistMax = 1
  LinkedTTL = 2
  LinkedFailTTL = 1
  MaxNow = 4
  MaxUpdates = 4
  MaxFaults = 1
  MaxRestarts = 1
SYMMETRY Symmetric
INVARIANTS
  LimitReachedIsKept
  AllowedChannelsMayPost
PROPERTIES
  KicksAreEarned
  OnlyRuledOutChannelsBarred
CHECK_DEADLOCK FALSE
