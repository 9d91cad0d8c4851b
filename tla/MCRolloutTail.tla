--------------------------- MODULE MCRolloutTail ---------------------------
(***************************************************************************)
(* RolloutTail for TLC: the scanners do the same, so they are symmetric.     *)
(***************************************************************************)
EXTENDS RolloutTail, TLC

ScannerSymmetry == Permutations(Scanners)

\* Once the file has been rewritten only one scan is under way at a time.
Bounded == file.gen > 0 => /\ file.size <= 6
                           /\ \A s, t \in Scanners : s = t \/ scan[s] = Idle \/ scan[t] = Idle
=============================================================================
