CONSTANTS
  addrA = addrA
  addrB = addrB
  a0 = a0
  a0x = a0x
  a1 = a1
  a1x = a1x
  b0 = b0
  NoTx = NoTx
  NoQueue = NoQueue
  Addr = {addrA, addrB}
  Tx = {a0, a0x, a1, b0}
  From <- MCFrom
  Nonce <- MCNonce
  GasPrice <- MCGasPrice
  Cost <- MCFree
  Rejected = {}
  MaxBalance = 0
  MaxEvents <- ReorgEvents
SPECIFICATION Spec
INVARIANTS
  SortedListExact
  PendingMatchesExecuted
  QueueNonceInSync
  StoredTxSelected
  
