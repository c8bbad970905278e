---------------------------- MODULE MCAppSession ----------------------------
(* Two interchangeable sessions and two interchangeable models.               *)
EXTENDS AppSession, TLC

MCSymmetry == Permutations(Sessions) \cup Permutations(Models)
=============================================================================
