SPECIFICATION Spec
CONSTANTS
  Batches = {b1, b2, b3, b4}
  EmptyBatches = {b4}
  NoBatch = NoBatch
  Codes = {"Unavailable", "ResourceExhausted"}
  AllRetryable = FALSE
SYMMETRY BatchSymmetry
INVARIANTS
  RetryPromiseKept
