---- MODULE MCMembers ----
(* An instance of Members: two people who share an email, one of them known *)
(* through the organisation's SSO, and a third with an email of its own.    *)
EXTENDS Members, TLC

CONSTANTS ana, sso, bob, home, work

MCEmailOf == [u \in Users |-> IF u = bob THEN work ELSE home]
====
