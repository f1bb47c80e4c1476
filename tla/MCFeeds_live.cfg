\* The plain feed or the two with failover: disconnections, gap fills, the
\* switch (at the second disconnect, the default) and close() in every order.
CONSTANTS
  Feeds <- MCBothFeeds
  MaxSockets = 3
  Threshold = 2
  MaxTicks = 2
  yes = yes
  no = no
  Tokens <- MCBoth
  MaxMoves = 1
  MaxRefreshes = 2
SPECIFICATION MCSpec
INVARIANTS
  ConnectedOnce
  PassedInOrder
PROPERTIES
  QuietAfterClose
  ActiveComesBack
CHECK_DEADLOCK FALSE
