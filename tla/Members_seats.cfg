SPECIFICATION Spec
CONSTANTS
  ana = ana  sso = sso  bob = bob
  home = home  work = work
  Users = {ana, sso, bob}
  Enterprise = {sso}
  Emails = {home, work}
  EmailOf <- MCEmailOf
  Invites = {i1, i2}
  FirstInvite = i1
  FirstEmail = home
  NoInvite = NoInvite
  Nobody = Nobody
  Caps = {1, 2}
CHECK_DEADLOCK FALSE
INVARIANTS OneOwner
PROPERTIES SeatsAreNotOversold RevokedStaysRevoked 
