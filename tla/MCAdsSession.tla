----------------------------- MODULE MCAdsSession -----------------------------
(* Small instances of AdsSession for TLC. *)
EXTENDS AdsSession, TLC

TaskSymmetry == Permutations(Tasks)
================================================================================
