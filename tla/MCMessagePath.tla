---------------------------- MODULE MCMessagePath ----------------------------
(***************************************************************************)
(* Messages with every kind of text at the limits: the empty one, URLs of  *)
(* whole words, too long for the legacy decoder, and as long as the shared *)
(* library allows, names with and without ASCII, and one with which a      *)
(* message is just as large as allowed, and too large with metadata.       *)
(***************************************************************************)
EXTENDS MessagePath, TLC

CONSTANTS v1, v2, g1, g2, g3, g4, g5

Url(n) == Run(n, "http", n)
Ipfs == Run(30, "ascii", "ipfs://")
Word == Run(6, "word", "Kitten")
Phrase == Run(9, "phrase", "Kitten 12")
Accented == Word \o Run(2, "wide", "e'") \o Run(3, "word", "end")
Foreign == Run(8, "wide", "neko")

MCUris == {<<>>, Url(64), Url(500)}
MCNftTexts ==
  {<<<<>>, <<>>, <<>>>>, <<Ipfs, Accented, Word>>,
   <<Url(500), Run(1406, "phrase", "long"), Word>>}
MCTexts == {<<>>, Url(40), Url(201), Phrase, Accented}

MCAddress == EthereumAddressToBytes32(Run(20, "key", "wallet"))
MCRecipients == {MCAddress}
MCContracts == {Key("contract")}

\* None, and as much as a key.
MCAdditional == {NoMetadata, Run(32, "wide", "a")}

\* A message is made at the first or a later moment; the limits are an hour
\* and a day after the first.
MCTimes == <<1000, 4600, 4601, 87401>>

MCKeys == {v1, v2, DefaultKey}
\* One more than can be stored.
MCGatewayKeys == {g1, g2, g3, g4, g5, DefaultKey}
KeySymmetry == Permutations({v1, v2})
=============================================================================
