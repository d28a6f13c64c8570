\* HMAC, encryption and both; servers that may keep their nonce and that do not; clients
\* whose security manager cannot be made or cannot compute its HMAC.
SPECIFICATION Spec
CONSTANTS
  MaxCalls = 4
  MaxConns = 2
  Setups <- AllSetups
INVARIANTS TypeOK OneRetrySuffices ActedOnAtMostOnce MisconfiguredIsRefused IndInv
