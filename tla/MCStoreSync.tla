---------------------------- MODULE MCStoreSync -----------------------------
(* Instances of StoreSync for TLC: two or three replicas of one store. *)
EXTENDS StoreSync, TLC

CONSTANTS a, b, c

MCReplicas == {a, b}
MCEdits == 1..MaxEdits
MCThree == {a, b, c}
MCSymmetry == Permutations(MCReplicas)
MCThreeSymmetry == Permutations(MCThree)
=============================================================================
