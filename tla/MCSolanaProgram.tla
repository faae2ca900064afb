--------------------------- MODULE MCSolanaProgram ---------------------------
(***************************************************************************)
(* The Solana program on two token ids and two gateway messages; token     *)
(* zero is the one get_nft_origin refuses.                                 *)
(***************************************************************************)
EXTENDS SolanaProgram, TLC

CONSTANTS k1, k2, k3, u1, u2

MCMints == {k1, k2, k3}

MCTwoUsers == {u1, u2}
\* No string bytes, none but NULs, a URI as short as the padding, and one too
\* long for the account.
MCUris == {-1, 0, 7, 198}
MCTwoSlots == <<100, 200>>
KeySymmetry == Permutations(MCMints) \cup Permutations(MCTwoUsers)
=============================================================================
