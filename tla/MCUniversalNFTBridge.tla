------------------------ MODULE MCUniversalNFTBridge ------------------------
(* Small instances of UniversalNFTBridge. *)
EXTENDS UniversalNFTBridge, TLC

MCSymmetry == Permutations(Nfts) \cup Permutations(Users)
=============================================================================
