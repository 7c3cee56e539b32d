SPECIFICATION TasksSpec
CONSTANTS
  p1 = p1
  p2 = p2
  p3 = p3
  NoList = NoList
  Lists = {p1, p2, p3}
INVARIANT TasksTypeOK
INVARIANT OnlineIsShown
PROPERTY HubSeesPrinters
PROPERTY OfflineShownInTheEnd
