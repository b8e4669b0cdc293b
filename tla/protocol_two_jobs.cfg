SPECIFICATION Spec
CONSTANTS
  j1 = j1
  j2 = j2
  p1 = p1
  Jobs = {j1, j2}
  Printers = {p1}
  PrinterOf <- OnePrinter
  Handlers = {h1}
  Pushers = {}
  Idle = Idle
  MaxDelivery = 1
  MaxRetries = 1
  MaxInFlight = 1
  MaxBatch = 2
  Faults = {}
  MaxPending = 1
  MaxConcurrent = 1
  ReprintAfterCrash = FALSE
INVARIANT InFlightCeiling
SYMMETRY JobSymmetry
