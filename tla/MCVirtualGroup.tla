--------------------------- MODULE MCVirtualGroup ---------------------------
(* Small instances of VirtualGroup for TLC.                                *)
EXTENDS VirtualGroup, TLC
CONSTANTS p1, p2, p3, p4

ThreeProviders == {p1, p2, p3}
FourProviders == {p1, p2, p3, p4}
ProviderSymmetry == Permutations(Providers)
=============================================================================
