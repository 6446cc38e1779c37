----------------------------- MODULE MCAdsClient -----------------------------
(* Small instances of AdsClient for TLC. *)
EXTENDS AdsClient, TLC

(* The application's calls are interchangeable as long as all or none of them  *)
(* may be cancelled.                                                           *)
CallSymmetry == Permutations(Requests)
================================================================================
