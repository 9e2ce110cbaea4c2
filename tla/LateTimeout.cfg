SPECIFICATION ConnectionSpec
CONSTANTS
  Requests <- KeptOpen
  MaxRequests = 2
  Later = TRUE
INVARIANT HeldResponseExists
CHECK_DEADLOCK FALSE
