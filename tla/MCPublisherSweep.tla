--------------------------- MODULE MCPublisherSweep ---------------------------
(* Instances of PublisherSweep: one replica, a window of three minutes. *)
EXTENDS PublisherSweep, TLC

===============================================================================
