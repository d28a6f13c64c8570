\* Two goroutines share the client; application tickets far from the counter's.
SPECIFICATION Spec
CONSTANTS
  Goroutines = {g1, g2}
  Nobody = nobody
  MaxCalls = 4
  MaxConns = 2
  UserTickets = {9}
  TicketModulus = 8
  Deadlines = TRUE
SYMMETRY Callers
INVARIANTS
  ConnAgrees
  AloneNeverPanics
  OwnAnswer
  CleanMatch
  AnsweredOnce
  IndInv
