---------------------------- MODULE MCBroadcasts ----------------------------
(* Instances of Broadcasts for TLC. *)
EXTENDS Broadcasts, TLC

CONSTANTS c1, c2, old, new, w1, w2

MCCampaigns == {c1, c2}
MCWorkers == {w1, w2}
MCProcesses == {old, new}
=============================================================================
