--------------------------- MODULE SharedMessages ----------------------------
(***************************************************************************)
(* The shared Rust libraries (src/shared): the NFTTransferMessage of       *)
(* CrossChainMessage.rs, and the conversions of MessageBridge.rs to and    *)
(* from the EVM's ABI and the Solana program's own message.                *)
(*                                                                         *)
(* A text is a byte string of text runs, a 32-byte value a byte string of  *)
(* that size.  A function that may return an error or panic is the set of  *)
(* the messages its caller gets: one, or NoMessage.                        *)
(***************************************************************************)
EXTENDS ByteRuns

NoMessage == {}

-----------------------------------------------------------------------------
(* CrossChainMessage.rs.                                                   *)

\* The hash of the sender, the token, the destination, the nonce and the
\* time: keccak gives two messages that differ in one of them two ids.
GenerateMessageId(sender, tokenId, destination, nonce, timestamp) ==
  Key(<<"id", sender, tokenId, destination, nonce, timestamp>>)

NFTTransferMessage(sender, tokenId, uri, to, from, dest, contract, nonce, time) ==
  [token_id |-> tokenId, metadata_uri |-> uri, recipient |-> to,
   origin_chain |-> from, destination_chain |-> dest,
   message_id |-> GenerateMessageId(sender, tokenId, dest, nonce, time),
   timestamp |-> time, origin_contract |-> contract, nonce |-> nonce]

MaxUri == 500

\* A message from the future is refused: the age is unsigned.
Validate(m, maxAge, time) ==
  /\ m.timestamp > 0
  /\ time >= m.timestamp /\ time - m.timestamp <= maxAge
  /\ Size(m.metadata_uri) \in 1..MaxUri
  /\ m.origin_chain # m.destination_chain

BorshString(text) == Le(4, Size(text)) \o text

\* borsh: the fields in the order of the struct.
Encode(m) ==
  Le(8, m.token_id) \o BorshString(m.metadata_uri) \o m.recipient
  \o Le(4, m.origin_chain) \o Le(4, m.destination_chain) \o m.message_id
  \o Le(8, m.timestamp) \o m.origin_contract \o Le(8, m.nonce)

Decode(data) ==
  LET n == Number("le", data, 8, 4)
      end == 12 + n
  IN  IF HasString(data, 12, n) /\ Size(data) = end + 120
      THEN {[token_id |-> Number("le", data, 0, 8),
             metadata_uri |-> Slice(data, 12, n),
             recipient |-> Slice(data, end, 32),
             origin_chain |-> Number("le", data, end + 32, 4),
             destination_chain |-> Number("le", data, end + 36, 4),
             message_id |-> Slice(data, end + 40, 32),
             timestamp |-> Number("le", data, end + 72, 8),
             origin_contract |-> Slice(data, end + 80, 32),
             nonce |-> Number("le", data, end + 112, 8)]}
      ELSE NoMessage

\* An Ethereum address fills the last 20 of 32 bytes.
EthereumAddressToBytes32(address) == Zeros(12) \o address
Bytes32ToEthereumAddress(bytes32) == Slice(bytes32, 12, 20)

-----------------------------------------------------------------------------
(* MessageBridge.rs: the ABI.                                              *)

Words == 9
UintWord(width, n) == Zeros(32 - width) \o Be(width, n)
PaddedSize(n) == ((n + 31) \div 32) * 32

\* Nine words, of which the second says where the URI is, then the URI's
\* length and its bytes padded with zeros to whole words.
ToEvmFormat(m) ==
  LET n == Size(m.metadata_uri)
  IN  UintWord(8, m.token_id) \o UintWord(4, 32 * Words) \o m.recipient
      \o UintWord(4, m.origin_chain) \o UintWord(4, m.destination_chain)
      \o m.message_id \o UintWord(8, m.timestamp) \o m.origin_contract
      \o UintWord(8, m.nonce)
      \o UintWord(4, n) \o m.metadata_uri \o Zeros(PaddedSize(n) - n)

\* Mutant: the timestamp is read from the word of the nonce and vice versa.
FromEvmFormatSwapped(data) ==
  LET at == Number("be", data, 60, 4)
      n == Number("be", data, at + 28, 4)
  IN  {[token_id |-> Number("be", data, 24, 8),
        metadata_uri |-> Slice(data, at + 32, n),
        recipient |-> Slice(data, 64, 32),
        origin_chain |-> Number("be", data, 124, 4),
        destination_chain |-> Number("be", data, 156, 4),
        message_id |-> Slice(data, 160, 32),
        timestamp |-> Number("be", data, 280, 8),
        origin_contract |-> Slice(data, 224, 32),
        nonce |-> Number("be", data, 216, 8)]}

\* The last bytes of each word are read and the others ignored.
FromEvmFormat(data) ==
  LET at == Number("be", data, 60, 4)
      n == Number("be", data, at + 28, 4)
  IN  IF /\ Size(data) >= 32 * Words
         /\ at # Unknown /\ at < Size(data)
         /\ HasString(data, at + 32, n)
      THEN {[token_id |-> Number("be", data, 24, 8),
             metadata_uri |-> Slice(data, at + 32, n),
             recipient |-> Slice(data, 64, 32),
             origin_chain |-> Number("be", data, 124, 4),
             destination_chain |-> Number("be", data, 156, 4),
             message_id |-> Slice(data, 160, 32),
             timestamp |-> Number("be", data, 216, 8),
             origin_contract |-> Slice(data, 224, 32),
             nonce |-> Number("be", data, 280, 8)]}
      ELSE NoMessage

-----------------------------------------------------------------------------
(* MessageBridge.rs: the Solana program's message.                         *)

UniversalNftName == Run(13, "phrase", "Universal NFT")
UnftSymbol == Run(4, "word", "UNFT")
NoMetadata == <<>>     \* None; Some metadata is not empty

\* Mutant: the name is left to the caller.
ToSolanaFormatUnnamed(m) ==
  [message_type |-> 1, token_id |-> m.token_id,
   metadata_uri |-> m.metadata_uri, name |-> <<>>, symbol |-> UnftSymbol,
   origin_chain_id |-> m.origin_chain % 256,
   origin_address |-> m.origin_contract, recipient_address |-> m.recipient,
   timestamp |-> m.timestamp, message_id |-> m.message_id,
   additional_metadata |-> NoMetadata]

\* The chain id is cut to its lowest byte; the name and the symbol are the
\* same for every NFT; destination and nonce have no place.
ToSolanaFormat(m) ==
  [message_type |-> 1, token_id |-> m.token_id,
   metadata_uri |-> m.metadata_uri,
   name |-> UniversalNftName, symbol |-> UnftSymbol,
   origin_chain_id |-> m.origin_chain % 256,
   origin_address |-> m.origin_contract, recipient_address |-> m.recipient,
   timestamp |-> m.timestamp, message_id |-> m.message_id,
   additional_metadata |-> NoMetadata]

\* Destination and nonce are left to the caller.
FromSolanaFormat(m) ==
  [token_id |-> m.token_id, metadata_uri |-> m.metadata_uri,
   recipient |-> m.recipient_address, origin_chain |-> m.origin_chain_id,
   destination_chain |-> 0, message_id |-> m.message_id,
   timestamp |-> m.timestamp, origin_contract |-> m.origin_address,
   nonce |-> 0]

Distance(a, b) == IF a > b THEN a - b ELSE b - a
Day == 86400

ValidateCrossChainCompatibility(m, time) ==
  /\ m.token_id # 0
  /\ Size(m.metadata_uri) \in 1..MaxUri
  /\ Distance(m.timestamp, time) <= Day
  /\ m.origin_chain # m.destination_chain
  /\ m.message_id # Zeros(32)
=============================================================================
