SPECIFICATION FairSpec
CONSTANTS
  Sockets = {c1, c2}
  MaxTime = 2
INVARIANTS CreditedOnce CreditedWithinPresence NoPresenceLost
PROPERTIES RowIsClosedInTheEnd
