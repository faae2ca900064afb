----------------------------- MODULE MessagePath -----------------------------
(***************************************************************************)
(* The way of a message to the Solana program: it is made by the shared    *)
(* library or by the program, carried in one form after the other by       *)
(* whoever relays it, and at last presented with the signatures collected  *)
(* for it.  Composes the codecs of SharedMessages, ProgramMessages and     *)
(* MintPayload with the checks of MessageValidation; these are functions   *)
(* without state, and the state is the relayer's, but for the gateways     *)
(* the program stores.  No function reads them together with a message,    *)
(* so that list changes only before a message is made.                     *)
(***************************************************************************)
EXTENDS ProgramMessages, MintPayload, MessageValidation

CONSTANTS
  Senders,         \* keys of senders
  TokenIds,        \* token ids (u64)
  Uris,            \* URIs of the shared library's messages
  NftTexts,        \* URI, name and symbol of the program's own messages
  Texts,           \* the same of payloads; all texts are byte strings
  Recipients,      \* 32-byte addresses
  Contracts,       \* 32-byte addresses of origin contracts
  ChainIds,        \* chain ids of the shared library (u32): origins,
  Destinations,    \* and destinations
  NftChains,       \* chain ids of the program's own messages (u8)
  Nonces,
  NftTypes,        \* message types of the program's own messages
  Additional,      \* additional metadata, as byte strings
  Keys,            \* keys of validators and signers
  Signatures,      \* what signers hand in, see SignatureBytes
  GatewayKeys,     \* keys of gateways
  Times,           \* the moments at which something happens, in order
  MaxValidators,   \* bound: validators a caller lists
  MaxSignatures    \* bound: signatures collected

ASSUME MessagePathAssumption ==
  /\ TokenIds \subseteq Nat /\ Nonces \subseteq Nat
  /\ ChainIds \subseteq Nat /\ Destinations \subseteq Nat
  /\ NftChains \subseteq 0..255
  /\ NftTypes \subseteq MessageTypes
  /\ \A a \in Recipients \cup Contracts : IsBytes(a) /\ Size(a) = 32
  /\ \A t \in Texts \cup Uris : IsBytes(t) /\ IsText(t)
  /\ \A texts \in NftTexts, i \in 1..3 : IsBytes(texts[i]) /\ IsText(texts[i])
  /\ \A more \in Additional : IsBytes(more)
  /\ Times \in Seq(Nat) \ {<<>>}
  /\ Signatures \subseteq SignatureBytes

\* A recipient is no piece of a longer run, and additional metadata does not
\* end in what a recipient ends in: else its last 32 bytes might be one.
ASSUME RecipientsApart ==
  \A r \in Recipients :
    /\ Kind(r[Len(r)]) # "cut"
    /\ \A more \in Additional \ {NoMetadata} : more[Len(more)] # r[Len(r)]

ASSUME MessagePathBounds ==
  /\ MaxValidators \in 0..MAX_VALIDATORS
  /\ MaxSignatures \in Nat

VARIABLES
  moment,      \* the index of the present time in Times
  original,    \* the message as it was made
  copy,        \* what the relayer holds of it
  crossed,     \* history: it was turned into the other library's message
  validators,  \* the keys the caller will list as validators
  signatures,  \* the signatures collected
  gateways     \* ProgramState.authorized_gateways

vars == <<moment, original, copy, crossed, validators, signatures, gateways>>
listVars == <<validators, signatures, gateways>>

now == Times[moment]

Form(form, content) == [form |-> form, content |-> content]
NoCopy == Form("none", NoMessage)

Init ==
  /\ moment = 1
  /\ original = NoCopy
  /\ copy = NoCopy
  /\ crossed = FALSE
  /\ validators = <<>>
  /\ signatures = <<>>
  /\ gateways = <<>>

-----------------------------------------------------------------------------
(* The gateways the program stores.                                        *)

AddAuthorizedGateway(key, active) ==
  /\ original.form = "none"
  /\ CanAddAuthorizedGateway(key, gateways)
  /\ gateways' = Append(gateways, [public_key |-> key, is_active |-> active])
  /\ UNCHANGED <<moment, original, copy, crossed, validators, signatures>>

\* An unknown key is an error.
RemoveAuthorizedGateway(key) ==
  /\ original.form = "none"
  /\ \E i \in DOMAIN gateways : gateways[i].public_key = key
  /\ gateways' = WithoutGateway(key, gateways)
  /\ UNCHANGED <<moment, original, copy, crossed, validators, signatures>>

-----------------------------------------------------------------------------
(* A message is made.                                                      *)

Make(message) ==
  /\ original.form = "none" /\ gateways = <<>>
  /\ original' = message
  /\ copy' = message
  /\ UNCHANGED <<moment, crossed, listVars>>

\* NFTTransferMessage::new, by any program or client of the shared library.
New(sender, tokenId, uri, recipient, contract, origin, destination, nonce) ==
  Make(Form("shared",
    NFTTransferMessage(sender, tokenId, uri, recipient, origin, destination,
                       contract, nonce, now)))

\* new_mint and new_burn of the program's format, and messages filled in by
\* hand, as burn_nft_and_transfer does; a burn of new_burn has no texts.
NewNft(type, tokenId, texts, chain, contract, recipient, more) ==
  Make(Form("nft",
    [message_type |-> type, token_id |-> tokenId, metadata_uri |-> texts[1],
     name |-> texts[2], symbol |-> texts[3], origin_chain_id |-> chain,
     origin_address |-> contract, recipient_address |-> recipient,
     timestamp |-> now, message_id |-> Key(<<"nft id", now>>),
     additional_metadata |-> more]))

-----------------------------------------------------------------------------
(* It is carried on: each form is made from and turned back into another.  *)

Hop(from, to, content) ==
  /\ copy.form = from
  /\ validators = <<>> /\ signatures = <<>>
  /\ \E new \in content : copy' = Form(to, new)
  /\ crossed' = (crossed \/ {from, to} = {"shared", "nft"})
  /\ UNCHANGED <<moment, original, listVars>>

EncodeCopy == Hop("shared", "borsh", {Encode(copy.content)})
DecodeCopy == Hop("borsh", "shared", Decode(copy.content))
ToEvm == Hop("shared", "abi", {ToEvmFormat(copy.content)})
FromEvm == Hop("abi", "shared", FromEvmFormat(copy.content))
ToSolana == Hop("shared", "nft", {ToSolanaFormat(copy.content)})
FromSolana == Hop("nft", "shared", {FromSolanaFormat(copy.content)})
SerializeCopy == Hop("nft", "nft borsh", {Serialize(copy.content)})
DeserializeCopy == Hop("nft borsh", "nft", Deserialize(copy.content))

\* "Will be set by caller": who calls from_solana_format fills in the
\* destination and the nonce it knows.
SetRoute(destination, nonce) ==
  /\ crossed /\ copy.form = "shared"
  /\ copy.content.destination_chain = 0
  /\ validators = <<>> /\ signatures = <<>>
  /\ copy' = [copy EXCEPT !.content.destination_chain = destination,
                          !.content.nonce = nonce]
  /\ UNCHANGED <<moment, original, crossed, listVars>>

NextMoment ==
  /\ original.form # "none"
  /\ validators = <<>> /\ signatures = <<>>
  /\ moment + 1 \in DOMAIN Times
  /\ moment' = moment + 1
  /\ UNCHANGED <<original, copy, crossed, listVars>>

-----------------------------------------------------------------------------
(* The call is prepared: the list of validators grows by what the          *)
(* program's functions accept as one, and signatures are collected.        *)

Presentable == copy.form = "nft" /\ ValidNftMessage(copy.content, now)

\* The gateway delivers the message as a payload of on_call, with the texts
\* it is given for the NFT.
Sent(uri, name, symbol) ==
  [token_id |-> copy.content.token_id,
   origin_chain_id |-> Key(<<"chain", copy.content.origin_chain_id>>),
   gateway_message_id |-> copy.content.message_id,
   metadata_uri |-> uri, name |-> name, symbol |-> symbol,
   recipient_address |-> copy.content.recipient_address]

Deliver(uri, name, symbol, additional) ==
  LET sent == Sent(uri, name, symbol)
  IN  /\ Presentable
      /\ validators = <<>> /\ signatures = <<>>
      /\ copy' = Form("payload",
                   [sent |-> sent, additional |-> additional,
                    payload |-> BuildPayload(sent, additional)])
      /\ UNCHANGED <<moment, original, crossed, listVars>>

RegisterValidator(key, weight) ==
  /\ Presentable
  /\ Len(validators) < MaxValidators
  /\ CanRegisterValidator(key, validators, weight)
  /\ validators' = Append(validators, key)
  /\ UNCHANGED <<moment, original, copy, crossed, signatures, gateways>>

AddSignature(signature, signer) ==
  /\ Presentable /\ validators # <<>>
  /\ Len(signatures) < MaxSignatures
  /\ signatures' =
       Append(signatures, [signature |-> signature, signer |-> signer])
  /\ UNCHANGED <<moment, original, copy, crossed, validators, gateways>>

-----------------------------------------------------------------------------
Next ==
  \/ \E sender \in Senders, t \in TokenIds, uri \in Uris, r \in Recipients,
        a \in Contracts, origin \in ChainIds, destination \in Destinations,
        n \in Nonces :
       New(sender, t, uri, r, a, origin, destination, n)
  \/ \E type \in NftTypes, t \in TokenIds, texts \in NftTexts, c \in NftChains,
        a \in Contracts, r \in Recipients, more \in Additional :
       NewNft(type, t, texts, c, a, r, more)
  \/ EncodeCopy \/ DecodeCopy \/ ToEvm \/ FromEvm \/ ToSolana \/ FromSolana
  \/ SerializeCopy \/ DeserializeCopy
  \/ \E destination \in Destinations, n \in Nonces : SetRoute(destination, n)
  \/ NextMoment
  \/ \E uri, name, symbol \in Texts, more \in Additional :
       Deliver(uri, name, symbol, more)
  \/ \E k \in Keys, weight \in {1, 101} : RegisterValidator(k, weight)
  \/ \E s \in Signatures, k \in Keys : AddSignature(s, k)
  \/ \E k \in GatewayKeys : \/ \E active \in BOOLEAN : AddAuthorizedGateway(k, active)
                            \/ RemoveAuthorizedGateway(k)

Spec == Init /\ [][Next]_vars

-----------------------------------------------------------------------------
(* Properties.                                                             *)

SharedForms == {"shared", "borsh", "abi"}
NftForms == {"nft", "nft borsh"}

\* The message that whoever holds the copy reads from it, if it can be read.
Read ==
  CASE copy.form = "borsh" -> Decode(copy.content)
    [] copy.form = "abi" -> FromEvmFormat(copy.content)
    [] copy.form = "nft borsh" -> Deserialize(copy.content)
    [] OTHER -> {copy.content}

\* What both kinds of message hold; the program's has one byte for the chain.
Essence(form, m) ==
  IF form \in SharedForms
  THEN <<m.token_id, m.metadata_uri, m.recipient, m.origin_chain % 256,
         m.origin_contract, m.timestamp, m.message_id>>
  ELSE <<m.token_id, m.metadata_uri, m.recipient_address, m.origin_chain_id,
         m.origin_address, m.timestamp, m.message_id>>

TooLarge == /\ copy.form = "nft borsh"
            /\ Size(copy.content) > CROSS_CHAIN_MAX_MESSAGE_SIZE

\* Whatever forms a message went through, in any order, it can be read, the
\* program's size limit apart.  Within one library it is the message that was
\* made; after a crossing the token, the texts' URI, both addresses, time and
\* id are, and of the origin chain its lowest byte.
CopyKeepsMessage ==
  copy.form \in SharedForms \cup NftForms /\ ~TooLarge =>
    \E read \in Read :
      /\ Essence(copy.form, read) = Essence(original.form, original.content)
      /\ ~crossed => read = original.content

\* Of the program's three ways to write a message for another chain, only
\* serialize gives what the program can read: what encode_for_evm writes is
\* never read back as the message, and construct_chain_optimized_message,
\* whatever the destination, panics.
OnlyBorshTravels ==
  copy.form = "nft" /\ validators = <<>> =>
    LET m == copy.content
    IN  /\ ValidMessageSize(m) => Deserialize(Serialize(m)) = {m}
        /\ m \notin DecodeFromEvm(EncodeForEvm(m))
        /\ \A c \in 0..255 :
             ConstructChainOptimizedMessage(m, c, now) = NoMessage

\* What the shared library names the "Chain IDs for supported networks".
NamedNetworks == {900, 7001, 84532}

\* Where the two libraries' checks part.  A message the shared library finds
\* valid passes the program's checks of its content, its size and the
\* pipeline's if and only if its origin, cut to one byte, is a chain of the
\* program's: 132, 89 and 52, which the shared library's own networks become,
\* are none, so that none of their messages passes.  A mint that passes the
\* program's checks goes back as one the shared library finds compatible.
ChecksPartAtTheChain ==
  copy.form = "nft" /\ validators = <<>> =>
    LET m == copy.content
        n == original.content
    IN  /\ (/\ original.form = "shared"
            /\ Validate(n, MAX_MESSAGE_AGE_SECONDS, now)
            /\ ValidateCrossChainCompatibility(n, now)) =>
              /\ (/\ ValidNftMessage(m, now) /\ ValidMessageSize(m)
                  /\ Size(Serialize(m)) <= MaxPipelinePayload)
                   <=> n.origin_chain % 256 \in SupportedChains
              /\ n.origin_chain \in NamedNetworks => ~ValidNftMessage(m, now)
        /\ (/\ ValidNftMessage(m, now)
            /\ m.message_type = MESSAGE_TYPE_NFT_MINT
            /\ Size(m.metadata_uri) <= MaxUri) =>
              ValidateCrossChainCompatibility(FromSolanaFormat(m), now)

PlainText(text) == Len(text) = 1 /\ IsAscii(text[1])

\* on_call reads a payload as it was sent exactly when its texts are not
\* empty and all ASCII, and nothing follows the recipient: additional
\* metadata, which the layout allows, is taken for the recipient.
PayloadArrives ==
  copy.form = "payload" /\ ValidateIncomingPayload(copy.content.payload) =>
    LET sent == copy.content.sent
    IN  sent \in DecodedByOnCall(copy.content.payload) <=>
          /\ PlainText(sent.metadata_uri)
          /\ PlainText(sent.name) /\ PlainText(sent.symbol)
          /\ copy.content.additional = NoMetadata

\* The payload with the URI alone between the fixed fields and the recipient.
BarePayload ==
  SubSeq(copy.content.payload, 1, 3) \o copy.content.sent.metadata_uri
    \o copy.content.sent.recipient_address

\* Whatever stands between the fixed fields and the recipient, on_call finds
\* its fixed fields and three texts that are not empty; and the legacy decoder
\* refuses a payload or reads what was sent, additional metadata or not.
DecodersAgree ==
  copy.form = "payload" =>
    /\ \A p \in {copy.content.payload, BarePayload} :
         ValidateIncomingPayload(p) =>
           LET sent == copy.content.sent
           IN  \E decoded \in DecodedByOnCall(p) :
               /\ decoded.token_id = sent.token_id
               /\ decoded.origin_chain_id = sent.origin_chain_id
               /\ decoded.gateway_message_id = sent.gateway_message_id
               /\ Size(decoded.metadata_uri) > 0
               /\ Size(decoded.name) > 0 /\ Size(decoded.symbol) > 0
    /\ DecodeLegacyMintPayload(copy.content.payload)
         \subseteq {copy.content.sent}

\* The threshold for as many validators as are listed.
Threshold ==
  CalculateSignatureThreshold(Len(validators), MIN_SIGNATURE_PERCENTAGE)
Verified == VerifySignatures(signatures, validators, Threshold)

Signers ==
  {k \in ToSet(validators) :
     \E i \in DOMAIN signatures :
        signatures[i].signer = k /\ signatures[i].signature = "valid"}

\* Unless a signer hands in two entries, a message is verified by as many
\* different validators as the threshold says; and two or more different
\* validators that all sign are enough, whatever their number, as long as the
\* u8 that counts the entries does not overflow.
QuorumIsReal ==
  /\ Verified /\ Cardinality({s.signer : s \in ToSet(signatures)})
                    = Len(signatures) =>
       Cardinality(Signers) >= Threshold
  /\ (/\ Len(validators) >= 2 /\ Cardinality(ToSet(validators)) = Len(validators)
      /\ Signers = ToSet(validators)
      /\ Counted(signatures, validators) <= MaxCounted) => Verified

Countable(entry) ==
  entry.signer \in ToSet(validators) /\ entry.signature = "valid"

\* The doc of verify_signatures promises an error for any invalid signature
\* and any signer who is no validator (signature_validation.rs:84-87); the
\* code passes them over.  Whatever was collected before, one more entry that
\* is forged or a stranger's changes no verdict, and one more that counts
\* undoes a verification only where the u8 that counts them overflows.
ForgeriesChangeNothing ==
  [][validators' = validators /\ Len(signatures') > Len(signatures) =>
       /\ ~Countable(Last(signatures')) => (Verified' <=> Verified)
       /\ Verified /\ ~Verified' =>
            Counted(signatures, validators) = MaxCounted]_vars

Context(caller) ==
  [source_chain_id |-> copy.content.origin_chain_id,
   destination_chain_id |-> CHAIN_ID_SOLANA,
   payload_size |-> Size(Serialize(copy.content)),
   signatures |-> signatures, validators |-> validators,
   gateway_caller |-> caller]

\* The pipeline is no stricter than the verification it stands for: a message
\* from another chain that is verified, and fits, passes for every caller but
\* the default key; and for that one, which mint_nft always passes on, none
\* does, so that mint_nft never mints.
PipelineAcceptsVerified ==
  copy.form = "nft" =>
    /\ (/\ Verified
        /\ copy.content.origin_chain_id \in SupportedChains \ {CHAIN_ID_SOLANA}
        /\ Size(Serialize(copy.content)) <= MaxPipelinePayload) =>
          \A k \in GatewayKeys \ {DefaultKey} :
            ValidateCrossChainMessage(Context(k)).is_valid
    /\ ~MintNftPassesValidation(Context(DefaultKey))

StoredKeys == [i \in DOMAIN gateways |-> gateways[i].public_key]

\* The program looks a gateway up in three ways.  authorize_gateway lets the
\* first record of the caller decide and ProgramState's function any active
\* one: they agree on every list that gateways were stored in and removed
\* from, in any order, since none is stored twice.  The short form
\* is_gateway_authorized asks for no record, and errs in favour of exactly
\* the gateways stored as inactive.
GatewayLookupsAgree ==
  \A k \in GatewayKeys :
    /\ AuthorizeGateway(k, StoredKeys, gateways)
         <=> IsStoredGatewayAuthorized(k, gateways)
    /\ IsGatewayAuthorized(k, StoredKeys)
          /\ ~IsStoredGatewayAuthorized(k, gateways)
         <=> \E i \in DOMAIN gateways :
               gateways[i].public_key = k /\ ~gateways[i].is_active
=============================================================================
