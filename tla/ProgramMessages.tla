--------------------------- MODULE ProgramMessages ---------------------------
(***************************************************************************)
(* The Solana program's CrossChainNftMessage (constants/message_format.rs, *)
(* its format among them), which is the SolanaNftMessage of the shared     *)
(* library field by field: what is written for another chain, what is read *)
(* back, and which messages are refused.  As in SharedMessages, a function *)
(* that may fail is the set of the messages its caller gets.               *)
(***************************************************************************)
EXTENDS SharedMessages

MESSAGE_TYPE_NFT_MINT == 1
MessageTypes == 1..4        \* mint, burn, transfer, collection update

CHAIN_ID_SOLANA == 1
CHAIN_ID_BASE_SEPOLIA == 2
CHAIN_ID_BNB_TESTNET == 3
SupportedChains == {CHAIN_ID_SOLANA, CHAIN_ID_BASE_SEPOLIA, CHAIN_ID_BNB_TESTNET}

MAX_MESSAGE_AGE_SECONDS == 3600
MAX_METADATA_URI_LENGTH == 200
CROSS_CHAIN_MIN_MESSAGE_SIZE == 100
CROSS_CHAIN_MAX_MESSAGE_SIZE == 2048

\* CrossChainNftMessage::validate; a mint needs its three texts.
ValidNftMessage(m, time) ==
  /\ m.message_type \in MessageTypes
  /\ m.token_id > 0
  /\ m.origin_chain_id \in SupportedChains
  /\ m.message_type = MESSAGE_TYPE_NFT_MINT =>
       /\ m.metadata_uri # <<>> /\ m.name # <<>> /\ m.symbol # <<>>
  /\ Distance(time, m.timestamp) <= MAX_MESSAGE_AGE_SECONDS

\* An Option: a byte, and the bytes if it is Some.
BorshOption(bytes) ==
  IF bytes = NoMetadata THEN Le(1, 0) ELSE Le(1, 1) \o BorshString(bytes)

Serialize(m) ==
  Le(1, m.message_type) \o Le(8, m.token_id) \o BorshString(m.metadata_uri)
  \o BorshString(m.name) \o BorshString(m.symbol) \o Le(1, m.origin_chain_id)
  \o m.origin_address \o m.recipient_address \o Le(8, m.timestamp)
  \o m.message_id \o BorshOption(m.additional_metadata)

\* Three texts lie one after the other from an offset on, each behind its
\* length: text i between ends i and i + 1.
TextEnds(order, data, offset) ==
  LET After(end) == end + 4 + Number(order, data, end, 4)
      first == After(offset)
      second == After(first)
  IN  <<offset, first, second, After(second)>>
TextSize(ends, i) == ends[i + 1] - ends[i] - 4
Text(data, ends, i) == Slice(data, ends[i] + 4, TextSize(ends, i))
HasTexts(data, ends) ==
  \A i \in 1..3 : HasString(data, ends[i] + 4, TextSize(ends, i))

Deserialize(data) ==
  LET ends == TextEnds("le", data, 9)
      rest == ends[4]
      some == Number("le", data, rest + 105, 1)
      more == IF some = 1 THEN Number("le", data, rest + 106, 4) ELSE -4
  IN  IF /\ Size(data) \in 1..CROSS_CHAIN_MAX_MESSAGE_SIZE
         /\ HasTexts(data, ends)
         /\ Size(data) = rest + 110 + more
      THEN {[message_type |-> Number("le", data, 0, 1),
             token_id |-> Number("le", data, 1, 8),
             metadata_uri |-> Text(data, ends, 1),
             name |-> Text(data, ends, 2), symbol |-> Text(data, ends, 3),
             origin_chain_id |-> Number("le", data, rest, 1),
             origin_address |-> Slice(data, rest + 1, 32),
             recipient_address |-> Slice(data, rest + 33, 32),
             timestamp |-> Number("le", data, rest + 65, 8),
             message_id |-> Slice(data, rest + 73, 32),
             additional_metadata |->
               IF some = 1 THEN Slice(data, rest + 110, more) ELSE NoMetadata]}
      ELSE NoMessage

ValidMessageSize(m) ==
  Size(Serialize(m))
    \in CROSS_CHAIN_MIN_MESSAGE_SIZE..CROSS_CHAIN_MAX_MESSAGE_SIZE

-----------------------------------------------------------------------------
(* What the program writes for, and reads from, an EVM chain.              *)

EVM_FUNCTION_SELECTORS == Run(4, "selector", 0)
BeString(text) == Be(4, Size(text)) \o text

\* Mutant: token id and timestamp take the 32 bytes that are read for them.
EncodeForEvmPadded(m) ==
  EVM_FUNCTION_SELECTORS \o Be(8, m.token_id) \o Zeros(24)
  \o BeString(m.metadata_uri) \o BeString(m.name) \o BeString(m.symbol)
  \o Be(1, m.origin_chain_id) \o m.origin_address \o m.recipient_address
  \o Be(8, m.timestamp) \o Zeros(24) \o m.message_id

\* Token id and timestamp take 8 bytes.
EncodeForEvm(m) ==
  EVM_FUNCTION_SELECTORS \o Be(8, m.token_id)
  \o BeString(m.metadata_uri) \o BeString(m.name) \o BeString(m.symbol)
  \o Be(1, m.origin_chain_id) \o m.origin_address \o m.recipient_address
  \o Be(8, m.timestamp) \o m.message_id

\* After the token id and the timestamp 32 bytes are skipped.
DecodeFromEvm(data) ==
  LET ends == TextEnds("be", data, 36)
      rest == ends[4]
  IN  IF /\ HasTexts(data, ends)
         /\ Size(data) >= rest + 129
      THEN {[message_type |-> MESSAGE_TYPE_NFT_MINT,
             token_id |-> Number("be", data, 4, 8),
             metadata_uri |-> Text(data, ends, 1),
             name |-> Text(data, ends, 2), symbol |-> Text(data, ends, 3),
             origin_chain_id |-> Number("be", data, rest, 1),
             origin_address |-> Slice(data, rest + 1, 32),
             recipient_address |-> Slice(data, rest + 33, 32),
             timestamp |-> Number("be", data, rest + 65, 8),
             message_id |-> Slice(data, rest + 97, 32),
             additional_metadata |-> NoMetadata]}
      ELSE NoMessage

-----------------------------------------------------------------------------
(* Messages made for one chain.                                            *)

\* Where a chain-specific id has its parts, and how wide what is copied
\* there is; copy_from_slice panics when the two differ.
ChainSpecificIdParts ==
  [timestamp |-> <<8, 8>>, slot |-> <<8, 8>>, origin_chain |-> <<2, 1>>,
   destination_chain |-> <<2, 1>>, entropy |-> <<12, 12>>]
CanGenerateChainSpecificMessageId ==
  \A part \in DOMAIN ChainSpecificIdParts :
    ChainSpecificIdParts[part][1] = ChainSpecificIdParts[part][2]

UriSuits(uri, destination) ==
  IF destination = CHAIN_ID_SOLANA
  THEN uri # <<>> /\ Kind(uri[1]) = "http"
  ELSE Size(uri) <= MAX_METADATA_URI_LENGTH

\* The message for a destination, made of the fields of another.
ConstructChainOptimizedMessage(m, destination, time) ==
  LET message_id == Key(<<"chain id", time, m.origin_chain_id, destination>>)
      message == [m EXCEPT !.timestamp = time, !.message_id = message_id]
  IN  IF /\ m.origin_chain_id \in SupportedChains
         /\ destination \in SupportedChains
         /\ CanGenerateChainSpecificMessageId
         /\ UriSuits(m.metadata_uri, destination)
         /\ ValidNftMessage(message, time)
      THEN {message}
      ELSE NoMessage
=============================================================================
