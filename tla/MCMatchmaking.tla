---------------------------- MODULE MCMatchmaking ----------------------------
(***************************************************************************)
(* A model of Matchmaking: what players may ask for is a small set that    *)
(* has two skills of one mode, one avoidance and one preference.           *)
(***************************************************************************)
EXTENDS Matchmaking

CONSTANTS ann, bob, cem

Asks(u, s, avoid, prefer) ==
    [user |-> u, mode |-> "classic", skill |-> s, avoid |-> avoid, prefer |-> prefer]

MCProfiles ==
    {Asks(ann, "beginner", {bob}, {}), Asks(ann, "expert", {}, {}),
     Asks(bob, "beginner", {}, {}), Asks(cem, "beginner", {}, {bob})}
=============================================================================
