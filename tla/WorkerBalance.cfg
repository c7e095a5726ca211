CONSTANTS
  addrA = addrA
  addrB = addrB
  a0 = a0
  a0x = a0x
  a1 = a1
  a1x = a1x
  b0 = b0
  NoTx = NoTx
  NoQueue = NoQueue
  Addr = {addrA}
  Tx = {a0, a1}
  From <- MCFrom
  Nonce <- MCNonce
  GasPrice <- MCGasPrice
  Cost <- MCCost
  Rejected = {}
  MaxBalance = 1
  MaxEvents <- ForcedEvents
SPECIFICATION Spec
INVARIANTS
  QueueConsistent
  LoaderCreatesNewQueue
