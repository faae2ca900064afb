---------------------------- MODULE NFTContract ----------------------------
(***************************************************************************)
(* What the two EVM contracts share: the NFT transfer message of the       *)
(* library contracts/shared/CrossChainMessage.sol, and the effect of a     *)
(* mint, a burn and an incoming message on one contract's storage.         *)
(*                                                                         *)
(* A contract's storage is a record: its live tokens (a function from      *)
(* token ids to owner, metadata and origin), the token id counter, the     *)
(* processed message ids, the user nonces and the pause flag.              *)
(* tokenNonces, which nothing writes, and originContract, which follows    *)
(* originChain, are left out.  A failing require, a panic and a revert in  *)
(* a callee undo the call, so they are guards.                             *)
(***************************************************************************)
EXTENDS Naturals

CONSTANTS
    Users,            \* accounts with the same address on every EVM chain
    SolanaKeys,       \* 32-byte Solana public keys
    Nobody,           \* an address no account controls
    Nfts,             \* metadata URIs, each 1 to 500 bytes long
    NoChain,          \* chain 0, the destination of a local mint
    MAX_MESSAGE_AGE   \* 24 hours

\* keccak256 of its arguments, which it maps to ids one to one.  Neither the
\* contract nor its chain is among them.
generateMessageId(sender, tokenId, destinationChain, nonce, timestamp) ==
    <<sender, tokenId, destinationChain, nonce, timestamp>>

\* The subtraction of the two timestamps panics when the message is ahead of
\* the receiving chain's clock.
validateMessage(message, timestamp) ==
    /\ message.timestamp > 0
    /\ message.timestamp <= timestamp
    /\ timestamp - message.timestamp <= MAX_MESSAGE_AGE
    /\ message.originChain # message.destinationChain

\* address(uint160(uint256(recipient))): a Solana key loses twelve bytes.
addressOf(recipient) == IF recipient \in SolanaKeys THEN Nobody ELSE recipient

EmptyContract ==
    [tokens            |-> <<>>,
     tokenIdCounter    |-> 0,
     processedMessages |-> {},
     userNonces        |-> [u \in Users |-> 0],
     paused            |-> FALSE]

\* Mutant: the id is the counter after its increment.
withTokenPreIncremented(contract, token) ==
    [contract EXCEPT
        !.tokenIdCounter = @ + 1,
        !.tokens = [t \in DOMAIN @ \cup {contract.tokenIdCounter + 1} |->
                        IF t = contract.tokenIdCounter + 1 THEN token ELSE @[t]]]

\* _safeMint of the next token id, _setTokenURI and tokenOrigins.
withToken(contract, token) ==
    [contract EXCEPT
        !.tokenIdCounter = @ + 1,
        !.tokens = [t \in DOMAIN @ \cup {contract.tokenIdCounter} |->
                        IF t = contract.tokenIdCounter THEN token ELSE @[t]]]

\* Mutant: the counter counts the live tokens.
withoutTokenUncounted(contract, tokenId) ==
    [contract EXCEPT !.tokens = [t \in DOMAIN @ \ {tokenId} |-> @[t]],
                     !.tokenIdCounter = @ - 1]

\* _burn and delete tokenOrigins.
withoutToken(contract, tokenId) ==
    [contract EXCEPT !.tokens = [t \in DOMAIN @ \ {tokenId} |-> @[t]]]

mintedHere(to, nft, chain) ==
    [owner |-> to, metadataUri |-> nft, originChain |-> chain,
     destinationChain |-> NoChain]

\* Mutant: the hop, not the first mint, becomes the origin.
receivedFromHop(message) ==
    [owner            |-> addressOf(message.recipient),
     metadataUri      |-> message.metadataUri,
     originChain      |-> message.destinationChain,
     destinationChain |-> message.destinationChain]

received(message) ==
    [owner            |-> addressOf(message.recipient),
     metadataUri      |-> message.metadataUri,
     originChain      |-> message.originChain,
     destinationChain |-> message.destinationChain]

\* The message burnAndTransfer builds: the origin of the token, not the chain
\* it leaves from, is its originChain.
transferMessage(contract, tokenId, destinationChain, recipient, timestamp) ==
    LET token == contract.tokens[tokenId]
        nonce == contract.userNonces[token.owner]
    IN  [tokenId          |-> tokenId,
         metadataUri      |-> token.metadataUri,
         recipient        |-> recipient,
         originChain      |-> token.originChain,
         destinationChain |-> destinationChain,
         messageId        |-> generateMessageId(token.owner, tokenId,
                                 destinationChain, nonce, timestamp),
         timestamp        |-> timestamp,
         nonce            |-> nonce]

\* burnAndTransfer goes through for the token's owner.
canTransfer(contract, tokenId, destinationChain, recipient, timestamp) ==
    /\ ~contract.paused
    /\ tokenId \in DOMAIN contract.tokens
    /\ contract.tokens[tokenId].owner \in Users
    /\ validateMessage(transferMessage(contract, tokenId, destinationChain,
                          recipient, timestamp), timestamp)

\* Mutant: the nonce is read, not taken.
afterTransferSameNonce(contract, tokenId) == withoutToken(contract, tokenId)

afterTransfer(contract, tokenId) ==
    withoutToken([contract EXCEPT
                     !.userNonces[contract.tokens[tokenId].owner] = @ + 1],
                 tokenId)

\* Mutant: the processedMessages check is missing.
acceptsReplay(contract, message, timestamp) ==
    validateMessage(message, timestamp) /\ ~contract.paused

\* onCall has no whenNotPaused of its own: _update refuses the mint.
accepts(contract, message, timestamp) ==
    /\ message.messageId \notin contract.processedMessages
    /\ validateMessage(message, timestamp)
    /\ ~contract.paused

afterCall(contract, message) ==
    withToken([contract EXCEPT !.processedMessages = @ \cup {message.messageId}],
              received(message))
============================================================================
