SPECIFICATION AuctionSpec
CONSTANTS
  buyer = buyer
  seller = seller
  c1 = c1
  c2 = c2
  x = x
  y = y
  Nobody = Nobody
  Clients = {buyer, seller}
  Actions = {x, y}
  Connections = {c1, c2}
  Threads <- TheThreads
  Owner <- TheOwner
  InitialBalance <- Balances
  InitialShares <- Shares
  InitialPrice = 2
  MaxNumber = 5
  Requests <- TheRequests
  Amounts <- TheAmounts
  MaxOrders = 3
  MaxMoves = 1
  MaxPlays = 2
INVARIANTS
  FixingTradesTheMost
  BooksMatchRows
  UnracedNeverOverdrawn
PROPERTIES
  SweptIsUncrossed
  SessionEnds
CHECK_DEADLOCK FALSE
