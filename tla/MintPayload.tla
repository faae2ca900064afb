----------------------------- MODULE MintPayload -----------------------------
(***************************************************************************)
(* The payload on_call gets from the gateway, its layout and the program's *)
(* decoders of it (instructions/mint_nft.rs): the one on_call uses, with   *)
(* its fallback, and the legacy one.  A payload is a byte string; the      *)
(* bytes of a key are taken not to be ASCII, so that no text is found in   *)
(* one.  A decoder that may fail is the set of the payloads it returns.    *)
(***************************************************************************)
EXTENDS SharedMessages

MinPayload == 104
MaxPayload == 2048

\* The layout, as the senders build it: three fixed fields, three texts
\* closed by NULs, the recipient, and possibly additional metadata.
BuildPayload(p, additional) ==
  Le(8, p.token_id) \o p.origin_chain_id \o p.gateway_message_id
  \o p.metadata_uri \o Nul \o p.name \o Nul \o p.symbol \o Nul
  \o p.recipient_address \o additional

\* All else this validation and that of the decoded fields find, a score of
\* their integrity among it, is a warning.
ValidateIncomingPayload(payload) == Size(payload) \in MinPayload..MaxPayload
ValidateCrossChainMessageFormatEnhanced(payload) == Size(payload) >= MinPayload

-----------------------------------------------------------------------------
(* on_call's decoder.                                                      *)

DefaultString == Run(7, "word", "default")

\* Mutant: a missing string is empty.
StringsUnpadded(content) ==
  LET ascii == {i \in DOMAIN content : IsAscii(content[i])}
      First(at) == IF at = {} THEN <<>> ELSE <<content[Min(at)]>>
  IN  <<First(ascii), First(AfterFirst(ascii)),
        First(AfterFirst(AfterFirst(ascii)))>>

\* The first three runs of ASCII bytes: a NUL or a byte that is not ASCII
\* ends a string, and empty ones are dropped.
Strings(content) ==
  LET ascii == {i \in DOMAIN content : IsAscii(content[i])}
      First(at) == IF at = {} THEN DefaultString ELSE <<content[Min(at)]>>
  IN  <<First(ascii), First(AfterFirst(ascii)),
        First(AfterFirst(AfterFirst(ascii)))>>

\* Mutant: the recipient is read where a payload without texts has it.
RecipientFixed(payload) == Slice(payload, 72, 32)

\* The recipient is the last 32 bytes, whatever they are.
Recipient(payload) == Slice(payload, Size(payload) - 32, 32)

ContentBytes(payload) == Slice(payload, 72, Size(payload) - MinPayload)

IncomingMintPayload(payload, uri, name, symbol, recipient) ==
  [token_id |-> Number("le", payload, 0, 8),
   origin_chain_id |-> Slice(payload, 8, 32),
   gateway_message_id |-> Slice(payload, 40, 32),
   metadata_uri |-> uri, name |-> name, symbol |-> symbol,
   recipient_address |-> recipient]

DecodeIncomingMintPayloadEnhanced(payload) ==
  LET strings == Strings(ContentBytes(payload))
  IN  IF Size(payload) > MinPayload
      THEN {IncomingMintPayload(payload, strings[1], strings[2], strings[3],
                                Recipient(payload))}
      ELSE NoMessage

\* Only a payload without content gets here.
DecodeIncomingMintPayloadFallback(payload) ==
  IncomingMintPayload(payload,
    Run(14, "ascii", "ipfs://default"), Run(11, "phrase", "Default NFT"),
    Run(4, "word", "DNFT"), Recipient(payload))

\* What on_call goes on with.
DecodedByOnCall(payload) ==
  LET decoded == DecodeIncomingMintPayloadEnhanced(payload)
  IN  IF /\ ValidateIncomingPayload(payload)
         /\ ValidateCrossChainMessageFormatEnhanced(payload)
      THEN IF decoded # NoMessage
           THEN decoded ELSE {DecodeIncomingMintPayloadFallback(payload)}
      ELSE NoMessage

-----------------------------------------------------------------------------
(* The legacy decoder.  No payload counts as a standardized message, so    *)
(* decode_incoming_mint_payload is this one.                               *)

MaxLegacyUri == 200
MaxLegacyName == 32
MaxLegacySymbol == 10
MaxLegacyAdditional == 1000

IsAlphanumeric(text) ==
  \A i \in DOMAIN text : Kind(text[i]) \in {"word", "wide"}
IsName(text) ==
  \A i \in DOMAIN text : Kind(text[i]) \in {"word", "phrase", "wide"}

\* Each text ends at the first NUL after its start; the recipient follows
\* the third, and additional metadata the recipient.
DecodeLegacyMintPayload(payload) ==
  LET nuls == {i \in 4..Len(payload) : payload[i] = Nul[1]}
      first == Min(nuls)
      second == Min(AfterFirst(nuls))
      third == Min(AfterFirst(AfterFirst(nuls)))
      uri == SubSeq(payload, 4, first - 1)
      name == SubSeq(payload, first + 1, second - 1)
      symbol == SubSeq(payload, second + 1, third - 1)
      rest == Start(payload, third + 1)
  IN  IF /\ Size(payload) \in MinPayload..MaxPayload
         /\ AfterFirst(AfterFirst(nuls)) # {}
         /\ Size(uri) \in 1..MaxLegacyUri
         /\ Size(name) \in 1..MaxLegacyName
         /\ Size(symbol) \in 1..MaxLegacySymbol
         /\ rest + 32 <= Size(payload)
         /\ Size(payload) - rest - 32 <= MaxLegacyAdditional
         /\ Kind(uri[1]) = "http"
         /\ IsName(name) /\ IsAlphanumeric(symbol)
      THEN {IncomingMintPayload(payload, uri, name, symbol,
                                Slice(payload, rest, 32))}
      ELSE NoMessage
=============================================================================
