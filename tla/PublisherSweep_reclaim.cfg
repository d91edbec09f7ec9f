SPECIFICATION FairSweepSpec
CONSTANTS
  Replicas = {w1}
  Grace = 3
  Faults = {"probe_error", "db_error", "crash", "slow"}
PROPERTIES  GoneIsReclaimed
