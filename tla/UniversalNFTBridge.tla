------------------------- MODULE UniversalNFTBridge -------------------------
(***************************************************************************)
(* The two EVM contracts and the gateway between them:                     *)
(* contracts/zetachain/UniversalNFT.sol and                                *)
(* contracts/base-sepolia/UniversalNFTReceiver.sol.                        *)
(*                                                                         *)
(* The gateway is external.  It may deliver a call late, in any order and  *)
(* more than once; a call its receiver refuses may be tried again (the     *)
(* test "Operations work correctly after unpause" does) or given up, which *)
(* runs onRevert on the sender.  Only messages the two contracts send are  *)
(* modelled.  Each chain has its own clock.                                *)
(*                                                                         *)
(* mintedOn and reverted are history variables.  Every NFT has metadata of *)
(* its own, so that its copies can be told.                                *)
(***************************************************************************)
EXTENDS NFTContract, FiniteSets

CONSTANTS
    ZetaChain, Base, Solana,  \* chains 7001, 84532 and 900
    Nowhere,                  \* an address with no NFT contract
    ReceiversDeployed,        \* _getReceiverContract was given real addresses
    MaxTime, MaxTokens        \* bounds: each clock, token ids of a contract

EvmChains == {ZetaChain, Base}

\* Where an NFT may be held: Nobody stands for every other address.
Owners == Users \cup {Nobody}

ASSUME UniversalNFTBridgeAssumption ==
    /\ ZetaChain # Base
    /\ EvmChains \cap {Solana, Nowhere, NoChain} = {}
    /\ Nowhere \notin {Solana, NoChain} /\ Solana # NoChain
    /\ ReceiversDeployed \in BOOLEAN
    /\ {MAX_MESSAGE_AGE, MaxTime, MaxTokens} \subseteq Nat
    /\ Users \cap SolanaKeys = {}
    /\ Nobody \notin Users \cup SolanaKeys

VARIABLES
    contracts,              \* the storage of each EVM contract
    zetaChainUniversalNFT,  \* where the Base contract sends
    calls,                  \* calls the gateway holds, delivered ones included
    clock,                  \* block.timestamp of each chain
    mintedOn,               \* history: the chain each NFT was minted on
    reverted                \* history: calls that ended in onRevert

vars == <<contracts, zetaChainUniversalNFT, calls, clock, mintedOn, reverted>>

Init ==
    /\ contracts = [c \in EvmChains |-> EmptyContract]
    /\ zetaChainUniversalNFT = ZetaChain
    /\ calls = {}
    /\ clock = [c \in EvmChains |-> 1]
    /\ mintedOn = [n \in Nfts |-> NoChain]
    /\ reverted = {}

Update(c, contract) == contracts' = [contracts EXCEPT ![c] = contract]

Tick(c) ==
    /\ clock[c] < MaxTime
    /\ clock' = [clock EXCEPT ![c] = @ + 1]
    /\ UNCHANGED <<contracts, zetaChainUniversalNFT, calls, mintedOn, reverted>>

----------------------------------------------------------------------------
(* Handlers the two contracts have in common *)

mint(c, to, nft) ==
    /\ ~contracts[c].paused
    /\ mintedOn[nft] = NoChain
    /\ contracts[c].tokenIdCounter < MaxTokens
    /\ Update(c, withToken(contracts[c], mintedHere(to, nft, c)))
    /\ mintedOn' = [mintedOn EXCEPT ![nft] = c]
    /\ UNCHANGED <<zetaChainUniversalNFT, calls, clock, reverted>>

burnAndSend(c, receiver, tokenId, destinationChain, recipient) ==
    /\ canTransfer(contracts[c], tokenId, destinationChain, recipient, clock[c])
    /\ Update(c, afterTransfer(contracts[c], tokenId))
    /\ calls' = calls \cup
          {[from    |-> c, to |-> receiver,
            message |-> transferMessage(contracts[c], tokenId, destinationChain,
                                        recipient, clock[c])]}
    /\ UNCHANGED <<zetaChainUniversalNFT, clock, mintedOn, reverted>>

receive(c, call) ==
    /\ call.to = c
    /\ accepts(contracts[c], call.message, clock[c])
    /\ contracts[c].tokenIdCounter < MaxTokens
    /\ Update(c, afterCall(contracts[c], call.message))
    /\ UNCHANGED <<zetaChainUniversalNFT, calls, clock, mintedOn, reverted>>

\* Processed by its receiver: it was minted, or an owner marked it.
Processed(call) ==
    /\ call.to \in EvmChains
    /\ call.message.messageId \in contracts[call.to].processedMessages

\* The gateway gives up a call its receiver would not take.  onRevert emits an
\* event and changes nothing.
revert(c, call) ==
    /\ call.from = c
    /\ ~Processed(call)
    /\ call.to \in EvmChains =>
          ~accepts(contracts[call.to], call.message, clock[call.to])
    /\ calls' = calls \ {call}
    /\ reverted' = reverted \cup {call}
    /\ UNCHANGED <<contracts, zetaChainUniversalNFT, clock, mintedOn>>

\* ERC721's transferFrom, by the owner.
transferFrom(c, tokenId, to) ==
    /\ ~contracts[c].paused
    /\ tokenId \in DOMAIN contracts[c].tokens
    /\ contracts[c].tokens[tokenId].owner \in Users
    /\ Update(c, [contracts[c] EXCEPT !.tokens[tokenId].owner = to])
    /\ UNCHANGED <<zetaChainUniversalNFT, calls, clock, mintedOn, reverted>>

\* pause and unpause: each requires the other state.
setPaused(c, pausing) ==
    /\ contracts[c].paused # pausing
    /\ Update(c, [contracts[c] EXCEPT !.paused = pausing])
    /\ UNCHANGED <<zetaChainUniversalNFT, calls, clock, mintedOn, reverted>>

\* The owner marks a message that was sent to the contract.  Marking any other
\* id is left out: it could be the id of a message still to be sent, which
\* would then be lost as it departs.
adminMarkMessageProcessed(c, call) ==
    /\ call.to = c
    /\ Update(c, [contracts[c] EXCEPT !.processedMessages =
                      @ \cup {call.message.messageId}])
    /\ UNCHANGED <<zetaChainUniversalNFT, calls, clock, mintedOn, reverted>>

----------------------------------------------------------------------------
(* UniversalNFT, on ZetaChain *)

\* Both addresses are zero in the source ("This would be set during
\* deployment"); ReceiversDeployed says whether they were filled in.
getReceiverContract(destinationChain) ==
    IF ReceiversDeployed THEN destinationChain ELSE Nowhere

zetaMint(to, nft) == mint(ZetaChain, to, nft)

\* The gas fee the sender pays first may be refused, which undoes the call.
zetaBurnAndTransfer(tokenId, destinationChain, recipient) ==
    /\ destinationChain \in {Base, Solana}
    /\ burnAndSend(ZetaChain, getReceiverContract(destinationChain), tokenId,
                   destinationChain, recipient)

zetaOnCall(call) == receive(ZetaChain, call)

zetaOnRevert(call) == revert(ZetaChain, call)

----------------------------------------------------------------------------
(* UniversalNFTReceiver, on Base *)

baseMint(to, nft) == mint(Base, to, nft)

\* burnAndTransfer and its two wrappers.  Every message goes to the ZetaChain
\* contract, whatever its destination chain.
baseBurnAndTransfer(tokenId, destinationChain, recipient) ==
    /\ destinationChain \in {ZetaChain, Solana}
    /\ burnAndSend(Base, zetaChainUniversalNFT, tokenId, destinationChain,
                   recipient)

baseOnCall(call) == receive(Base, call)

baseOnRevert(call) == revert(Base, call)

setZetaChainContract(address) ==
    /\ zetaChainUniversalNFT' = address
    /\ UNCHANGED <<contracts, calls, clock, mintedOn, reverted>>

----------------------------------------------------------------------------

\* Callers pass a recipient of the destination's kind.
RecipientsOn(chain) == IF chain = Solana THEN SolanaKeys ELSE Users

Next ==
    \/ \E c \in EvmChains :
          \/ Tick(c)
          \/ \E t \in 0 .. MaxTokens - 1, u \in Owners : transferFrom(c, t, u)
          \/ \E b \in BOOLEAN : setPaused(c, b)
          \/ \E call \in calls : adminMarkMessageProcessed(c, call)
    \/ \E u \in Users, n \in Nfts : zetaMint(u, n) \/ baseMint(u, n)
    \/ \E t \in 0 .. MaxTokens - 1, d \in EvmChains \cup {Solana} :
          \E r \in RecipientsOn(d) :
             zetaBurnAndTransfer(t, d, r) \/ baseBurnAndTransfer(t, d, r)
    \/ \E call \in calls : zetaOnCall(call) \/ baseOnCall(call)
    \/ \E call \in calls : zetaOnRevert(call) \/ baseOnRevert(call)
    \/ \E a \in {ZetaChain, Nowhere} : setZetaChainContract(a)

Spec == Init /\ [][Next]_vars

----------------------------------------------------------------------------
(* Properties *)

Token ==
    [owner : Owners, metadataUri : Nfts, originChain : EvmChains,
     destinationChain : EvmChains \cup {Solana, NoChain}]

MessageIds ==
    Users \X Nat \X (EvmChains \cup {Solana}) \X Nat \X Nat

Message ==
    [tokenId : Nat, metadataUri : Nfts, recipient : Users \cup SolanaKeys,
     originChain : EvmChains, destinationChain : EvmChains \cup {Solana},
     messageId : MessageIds, timestamp : Nat, nonce : Nat]

Call == [from : EvmChains, to : EvmChains \cup {Solana, Nowhere}, message : Message]

\* Every variable stays within its type, and live token ids are below the
\* counter that issues the next one.
TypeOK ==
    /\ \A c \in EvmChains :
          /\ \A t \in DOMAIN contracts[c].tokens :
                /\ t \in 0 .. contracts[c].tokenIdCounter - 1
                /\ contracts[c].tokens[t] \in Token
          /\ contracts[c].tokenIdCounter \in Nat
          /\ contracts[c].processedMessages \subseteq MessageIds
          /\ contracts[c].userNonces \in [Users -> Nat]
          /\ contracts[c].paused \in BOOLEAN
    /\ zetaChainUniversalNFT \in {ZetaChain, Nowhere}
    /\ calls \subseteq Call
    /\ clock \in [EvmChains -> Nat]
    /\ mintedOn \in [Nfts -> EvmChains \cup {NoChain}]
    /\ reverted \subseteq Call

\* The tokens and the undelivered messages that carry an NFT.
LiveTokens(n) ==
    {ct \in EvmChains \X (0 .. MaxTokens - 1) :
        /\ ct[2] \in DOMAIN contracts[ct[1]].tokens
        /\ contracts[ct[1]].tokens[ct[2]].metadataUri = n}

InFlight(n) ==
    {call \in calls : call.message.metadataUri = n /\ ~Processed(call)}

\* Burn and mint: however late, often and in whatever order the gateway
\* delivers, an NFT is never in two places, as a token or as a message that
\* could still become one.
OneCopy ==
    \A n \in Nfts : Cardinality(LiveTokens(n)) + Cardinality(InFlight(n)) <= 1

\* "Preserve provenance": after any number of hops a copy of an NFT, live or
\* in flight, names the chain the NFT was first minted on.
ProvenanceKept ==
    \A n \in Nfts :
        /\ \A ct \in LiveTokens(n) :
              contracts[ct[1]].tokens[ct[2]].originChain = mintedOn[n]
        /\ \A call \in InFlight(n) : call.message.originChain = mintedOn[n]

\* A token id that was burned is never issued again, whatever is minted,
\* received or burned in between: a message id or an approval that names it
\* cannot meet another NFT.
TokenIdsNotReused ==
    [][\A c \in EvmChains :
          /\ contracts'[c].tokenIdCounter >= contracts[c].tokenIdCounter
          /\ \A t \in DOMAIN contracts'[c].tokens :
                t < contracts[c].tokenIdCounter
                   => t \in DOMAIN contracts[c].tokens]_vars

\* The abstract ledger: an NFT is held, moving or lost, and provenance is the
\* chain of its mint.
PlaceOf(n) ==
    IF \E ct \in LiveTokens(n) : TRUE
    THEN LET ct == CHOOSE x \in LiveTokens(n) : TRUE
         IN  [kind |-> "held", at |-> ct[1],
              by |-> contracts[ct[1]].tokens[ct[2]].owner]
    ELSE IF InFlight(n) # {} THEN [kind |-> "moving"]
    ELSE IF mintedOn[n] # NoChain THEN [kind |-> "lost"]
    ELSE [kind |-> "unminted"]

Ledger == INSTANCE NFTLedger WITH
             Places <- EvmChains, NoPlace <- NoChain,
             place <- [n \in Nfts |-> PlaceOf(n)], provenance <- mintedOn

\* The contracts and the gateway implement the ledger: no step duplicates an
\* NFT, moves it without a message, or brings a lost one back.
ImplementsLedger == Ledger!Spec

----------------------------------------------------------------------------
(* What the documents say and the code does not do *)

\* "ZetaChain <-> Base Sepolia" among the supported transfer routes: an NFT
\* held by a user on a running contract can be sent to the other EVM chain.
EvmRouteOpen ==
    \A c, d \in EvmChains : c # d =>
        \A t \in DOMAIN contracts[c].tokens :
            (contracts[c].tokens[t].owner \in Users /\ ~contracts[c].paused) =>
                \A u \in Users : canTransfer(contracts[c], t, d, u, clock[c])

\* "Base Sepolia <-> Solana Devnet: EVM-to-Solana via ZetaChain": an NFT is
\* minted on the chain it was sent to.
MintedWhereSent ==
    \A c \in EvmChains : \A t \in DOMAIN contracts[c].tokens :
        contracts[c].tokens[t].destinationChain \in {NoChain, c}
============================================================================
