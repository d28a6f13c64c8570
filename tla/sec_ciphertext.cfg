\* A ciphered reply that is not nested.
SPECIFICATION Spec
CONSTANTS
  MaxCalls = 2
  MaxConns = 1
  Setups <- FlatCiphered
INVARIANT PlaintextDelivered
