SPECIFICATION AuctionSpec
CONSTANTS
  buyer = buyer
  seller = seller
  c1 = c1
  c2 = c2
  x = x
  y = y
  Nobody = Nobody
  Clients = {buyer, seller}
  Actions = {x, y}
  Connections = {c1, c2}
  Threads <- TheThreads
  Owner <- TheOwner
  InitialBalance <- PlainBalances
  InitialShares <- Shares
  InitialPrice = 2
  MaxNumber = 5
  Requests <- PlainRequests
  Amounts <- TheAmounts
  MaxOrders = 2
  MaxMoves = 0
  MaxPlays = 1
INVARIANT CompletedMeansSettled
CHECK_DEADLOCK FALSE
