---------------------------- MODULE MCSaveState ----------------------------
(* Instances of SaveState: one numbered slot beside the Autosave, two discs.  *)
EXTENDS SaveState, TLC

MCSlots   == {0}
MCSymmetry == Permutations(Discs)
MCKinds   == AllKinds
DiscKinds == {"save", "mount"}
ResetKinds == {"save", "mount", "reset"}
=============================================================================
