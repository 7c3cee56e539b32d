SPECIFICATION PairingSpec
CONSTANTS
  a1 = a1
  a2 = a2
  NoId = NoId
  Ids = {a1, a2}
  MaxSecret = 4
INVARIANT PairingInv
INVARIANT PairedStarts
INVARIANT NoForeignSecret
INVARIANT UninstallForgets
