-------------------------- MODULE MCAdsNotifications --------------------------
(* Small instances of AdsNotifications for TLC. *)
EXTENDS AdsNotifications, TLC

SubscriptionSymmetry == Permutations(Subscriptions)
================================================================================
