----------------------------- MODULE MCFrontDoor -----------------------------
(* An instance of FrontDoor for TLC. *)
EXTENDS FrontDoor, TLC

CONSTANTS w1, w2, u1, u2, c1, a1, a2, p1, p2, l1, h1, h2, ip

MCWorkers == {w1, w2}
MCUsers == {u1, u2}
MCCampaigns == {c1}
MCAdmins == {a1, a2}
MCPasswords == {p1, p2}
MCLeads == {l1}
MCChallenges == {h1, h2}
MCClients == {ip}
MCTargets == {"THB", "GEL"}
MCSymmetry == Permutations(MCWorkers) \cup Permutations(MCUsers)
=============================================================================
