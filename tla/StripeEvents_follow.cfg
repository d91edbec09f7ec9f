SPECIFICATION StripeSpec
CONSTANTS
  Handlers = {h1, h2}
  Subs = {s1, s2}
  Plans = {p, q}
  NoSub = NoSub
  NoPlan = NoPlan
  MaxEvents = 3
  MaxFaults = 1
INVARIANTS AckedIsProcessed RowFollowsStripe
SYMMETRY Symmetry
CHECK_DEADLOCK FALSE
