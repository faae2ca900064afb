---------------------------- MODULE SolanaProgram ----------------------------
(***************************************************************************)
(* The Solana program universal_nft (src/contracts/solana/universal_nft):  *)
(* its accounts and one action per instruction that changes an account.    *)
(*                                                                         *)
(* Solana runs an instruction atomically: one that returns an error leaves *)
(* every account as it was, so an action's guard is the conjunction of the *)
(* account constraints (#[account(...)]), the checks of the handler and    *)
(* the refusals of the programs it calls, and the order of the checks      *)
(* within one instruction cannot be observed.                              *)
(*                                                                         *)
(* A key, a name or a payload is a value of a small set; a metadata URI is *)
(* represented by its length; a 32-byte chain id by its first byte.  The   *)
(* SPL token program and the ZetaChain gateway are external.               *)
(*                                                                         *)
(* mint_nft is not an action: its gateway check reports the gateway's      *)
(* program id, the placeholder Pubkey::default(), which the validation     *)
(* pipeline refuses as a caller, so it never changes anything.  on_revert  *)
(* and get_nft_origin change nothing either.                               *)
(***************************************************************************)
EXTENDS Integers

CONSTANTS
  TokenIds,     \* the token ids of payloads and instructions (u64)
  ChainIds,     \* first bytes of origin chain ids (u8)
  GatewayIds,   \* the gateway's message ids
  Mints,        \* keys of mint accounts
  Users,        \* wallets
  Uris,         \* URIs of payloads and arguments, see DecodedUri
  Contents,     \* the bytes of texts and metadata a burn's message carries
  SlotTime,     \* the Clock's unix_timestamp in each slot
  MaxU64,       \* the largest u64
  MaxCloses,    \* bound: how many accounts are closed
  MaxSupply,    \* bound: tokens of a mint whose authority is a wallet
  NoAccount,    \* an address at which there is no account
  DefaultKey,   \* Pubkey::default()
  StateKey      \* the key of the program state, for which only it signs

Messages == ChainIds \X GatewayIds
Slots == DOMAIN SlotTime

ASSUME ConstantsAssumption ==
  /\ TokenIds \subseteq 0..MaxU64
  /\ ChainIds \subseteq 0..255
  /\ Uris \subseteq Nat \cup {-1} /\ Contents \subseteq Nat
  /\ MaxU64 \in Nat \ {0} /\ MaxCloses \in Nat
  /\ MaxSupply \in Nat \ {0}
  /\ DefaultKey \notin Mints /\ StateKey \notin Users
  /\ 1 \in Slots /\ \A s \in Slots : s \in Nat /\ SlotTime[s] \in Nat \ {0}

VARIABLES
  programState,   \* the account of PROGRAM_STATE_SEED
  nftOrigins,     \* the accounts [nft_origin, token_id]
  originByToken,  \* the accounts [nft_origin_by_token_id, token_id]
  processedAt,    \* processed_at of the accounts [replay, chain, message id]
  mintAuthority,  \* who may mint tokens of each mint account
  supply,         \* its supply
  balance,        \* the wallets' token accounts (absent ones hold none)
  outbox,         \* the messages the gateway accepted
  slot,           \* the slot of the Clock sysvar
  deliveries,     \* history: NFTs minted for each gateway message
  reopened,       \* history: how often the replay account was closed
  mintedFor,      \* history: NFTs minted for each token id
  originCloses,   \* history: how often the origin account was closed
  closes          \* how many accounts were closed, for the bound

tokenVars == <<mintAuthority, supply, balance>>
originVars == <<nftOrigins, originByToken, mintedFor, originCloses>>
replayVars == <<processedAt, deliveries, reopened>>
stateVars == <<programState, closes>>
vars == <<stateVars, originVars, replayVars, tokenVars, outbox, slot>>

now == SlotTime[slot]

-----------------------------------------------------------------------------
(* Accounts.                                                               *)

ProgramStates ==
  [next_token_id : 0..MaxU64, collection_mint : Mints \cup {DefaultKey},
   collection_verified : BOOLEAN]

CanonicalBump == 255     \* the bump create_nft_origin derives
PlaceholderBump == 0     \* the bump on_call stores

Origins ==
  [bump : {PlaceholderBump, CanonicalBump}, token_id : TokenIds \cup {0},
   origin_chain : ChainIds \cup {0}, mint_address : Mints \cup {DefaultKey},
   created_at : Int, metadata_uri : Int]
Mappings ==
  [token_id : TokenIds \cup {0}, mint_address : Mints \cup {DefaultKey},
   created_at : Int]

\* An address without an account is none of these.
ASSUME NoAccountAssumption ==
  NoAccount \notin
    Int \cup Users \cup {StateKey} \cup ProgramStates \cup Origins \cup Mappings

NftOrigin(bump, tokenId, chain, mint, uri) ==
  [bump |-> bump, token_id |-> tokenId, origin_chain |-> chain,
   mint_address |-> mint, created_at |-> now, metadata_uri |-> uri]

\* An account Anchor has just created: every field is zero.
ZeroOrigin ==
  [bump |-> 0, token_id |-> 0, origin_chain |-> 0,
   mint_address |-> DefaultKey, created_at |-> 0, metadata_uri |-> 0]
ZeroByTokenId ==
  [token_id |-> 0, mint_address |-> DefaultKey, created_at |-> 0]

\* The space of an NftOrigin account leaves 196 bytes for the URI.
FitsOrigin(uri) == uri <= 196

MaxUriLength == 200
IsChainSupported(chain) == chain \in {1, 2, 3}

\* What create_nft_origin and get_nft_origin require of an origin account.
ValidOriginData(o) ==
  /\ o.token_id > 0
  /\ o.mint_address # DefaultKey
  /\ o.metadata_uri > 0
  /\ o.created_at > 0

-----------------------------------------------------------------------------
Init ==
  /\ programState = NoAccount
  /\ nftOrigins = [t \in TokenIds |-> NoAccount]
  /\ originByToken = [t \in TokenIds |-> NoAccount]
  /\ processedAt = [m \in Messages |-> NoAccount]
  /\ mintAuthority = [k \in Mints |-> NoAccount]
  /\ supply = [k \in Mints |-> 0]
  /\ balance = [k \in Mints |-> [u \in Users |-> 0]]
  /\ outbox = {}
  /\ slot = 1
  /\ deliveries = [m \in Messages |-> 0]
  /\ reopened = [m \in Messages |-> 0]
  /\ mintedFor = [t \in TokenIds |-> 0]
  /\ originCloses = [t \in TokenIds |-> 0]
  /\ closes = 0

-----------------------------------------------------------------------------
(* The program state and the collection.                                   *)

InitializeProgramState ==
  /\ programState = NoAccount
  /\ programState' = [next_token_id |-> 1, collection_mint |-> DefaultKey,
                      collection_verified |-> FALSE]
  /\ UNCHANGED <<closes, originVars, replayVars, tokenVars, outbox, slot>>

\* Any signer may close the account.
CloseProgramState ==
  /\ programState # NoAccount
  /\ closes < MaxCloses
  /\ programState' = NoAccount
  /\ closes' = closes + 1
  /\ UNCHANGED <<originVars, replayVars, tokenVars, outbox, slot>>

\* The constraint init: there is no account at the mint's address.
MintFreeOrEmpty(mint) == supply[mint] = 0             \* mutant: reuse
MintFree(mint) == mintAuthority[mint] = NoAccount

\* init creates the mint account, and the instruction mints one token.
MintOneTo(mint, authority, user) ==
  /\ mintAuthority' = [mintAuthority EXCEPT ![mint] = authority]
  /\ supply' = [supply EXCEPT ![mint] = 1]
  /\ balance' = [balance EXCEPT ![mint][user] = 1]

MintCollection(authority, mint) ==
  /\ programState # NoAccount
  /\ MintFree(mint)
  /\ programState.collection_mint = DefaultKey
  /\ MintOneTo(mint, authority, authority)
  /\ programState' = [programState EXCEPT !.collection_mint = mint]
  /\ UNCHANGED <<closes, originVars, replayVars, outbox, slot>>

VerifyCollection(authority, mint) ==
  /\ programState # NoAccount
  /\ programState.collection_mint # DefaultKey
  /\ ~programState.collection_verified
  /\ mint = programState.collection_mint
  /\ balance[mint][authority] = 1
  /\ programState' = [programState EXCEPT !.collection_verified = TRUE]
  /\ UNCHANGED <<closes, originVars, replayVars, tokenVars, outbox, slot>>

-----------------------------------------------------------------------------
(* Origin accounts.                                                        *)

OriginFreeIfNeeded(tokenId) == TRUE                   \* mutant: init_if_needed
OriginFree(tokenId) == nftOrigins[tokenId] = NoAccount

HasNextTokenIdUnchecked == TRUE                       \* mutant: overflow
HasNextTokenId == programState.next_token_id < MaxU64

\* The caller chooses the token id; the counter only counts.  The handler
\* panics when the counter would leave u64.
CreateNftOrigin(tokenId, chain, mint, uri) ==
  LET origin == NftOrigin(CanonicalBump, tokenId, chain, mint, uri)
  IN  /\ programState # NoAccount
      /\ OriginFree(tokenId)
      /\ uri <= MaxUriLength
      /\ ValidOriginData(origin)
      /\ FitsOrigin(uri)
      /\ HasNextTokenId
      /\ nftOrigins' = [nftOrigins EXCEPT ![tokenId] = origin]
      /\ programState' = [programState EXCEPT !.next_token_id = @ + 1]
      /\ UNCHANGED <<closes, originByToken, mintedFor, originCloses,
                     replayVars, tokenVars, outbox, slot>>

\* get_nft_origin succeeds: its constraint and both of its validations.
GetNftOriginSucceeds(tokenId) ==
  /\ nftOrigins[tokenId] # NoAccount
  /\ nftOrigins[tokenId].token_id = tokenId
  /\ ValidOriginData(nftOrigins[tokenId])

CloseNftOrigin(tokenId) ==
  /\ nftOrigins[tokenId] # NoAccount
  /\ closes < MaxCloses
  /\ closes' = closes + 1
  /\ nftOrigins' = [nftOrigins EXCEPT ![tokenId] = NoAccount]
  /\ originCloses' = [originCloses EXCEPT ![tokenId] = @ + 1]
  /\ UNCHANGED <<originByToken, mintedFor, programState, replayVars, tokenVars,
                 outbox, slot>>

-----------------------------------------------------------------------------
(* Replay protection.  An account that init_if_needed creates has a        *)
(* processed_at of zero, and the Clock is never zero.                      *)

Unprocessed(m) == processedAt[m] = NoAccount \/ processedAt[m] = 0

\* Mutant: the account is created but not stamped.
MarkProcessedUnstamped(m) == processedAt' = [processedAt EXCEPT ![m] = 0]
MarkProcessed(m) == processedAt' = [processedAt EXCEPT ![m] = now]

\* Both instructions, with and without metadata; the account has room for
\* a hundred bytes of it.
Metadata == {"none", "small", "large"}
FitsReplayProtection(metadata) == metadata # "large"

CheckAndMarkMessage(m, metadata) ==
  /\ Unprocessed(m)
  /\ FitsReplayProtection(metadata)
  /\ MarkProcessed(m)
  /\ UNCHANGED <<deliveries, reopened, stateVars, originVars, tokenVars,
                 outbox, slot>>

CloseReplayProtection(m) ==
  /\ processedAt[m] # NoAccount
  /\ closes < MaxCloses
  /\ closes' = closes + 1
  /\ processedAt' = [processedAt EXCEPT ![m] = NoAccount]
  /\ reopened' = [reopened EXCEPT ![m] = @ + 1]
  /\ UNCHANGED <<deliveries, programState, originVars, tokenVars, outbox, slot>>

-----------------------------------------------------------------------------
(* on_call: an NFT arrives.                                                *)

Payloads ==
  [token_id : TokenIds, origin_chain_id : ChainIds,
   gateway_message_id : GatewayIds, uri : Uris, recipient : Users]

\* The URI that the decoder pads with, "default", and the one the fallback
\* decoder takes when there are no string bytes, "ipfs://default".
PaddedUri == 7
FallbackUri == 14

\* Mutant: an empty URI is not padded.
DecodedUriUnpadded(uri) == IF uri = -1 THEN FallbackUri ELSE uri

\* The length of the metadata URI decoded from a payload's string fields: -1
\* stands for a payload without string bytes, 0 for one with none but NULs.
DecodedUri(uri) ==
  CASE uri = -1 -> FallbackUri
    [] uri = 0  -> PaddedUri
    [] OTHER    -> uri

\* What may stand before the call in its transaction.  The call may be the
\* first instruction, or follow one the gateway program runs.
PreviousInstructions == {"none", "gateway deposit", "gateway other", "other"}
GatewayCaller(previous) == previous \in {"none", "gateway deposit"}

Penalty(condition, tenths) == IF condition THEN tenths ELSE 0

\* The score, in tenths, of an existing mapping and the origin account.
\* (In f64 the sums that can arise compare with 0.5 as the tenths with 5.)
ExistenceScore(byToken, origin, tokenId) ==
  LET age == now - byToken.created_at
      score == 10 - Penalty(byToken.token_id # tokenId, 2)
                  - Penalty(byToken.created_at = 0, 2)
                  - Penalty(byToken.created_at > 0 /\ age < 0, 3)
                  - Penalty(byToken.created_at > 0 /\ age \in 0..59, 1)
                  - Penalty(origin.metadata_uri = 0, 2)
                  - Penalty(origin.origin_chain = 0, 3)
  IN  IF score < 0 THEN 0 ELSE score

\* The NFT is taken for one that returns.  The checks that follow in the
\* code can only take it for a new one again; none of them is reached, as
\* the origin account is always just created.
IsReturningNft(byToken, origin, tokenId) ==
  /\ byToken.mint_address # DefaultKey
  /\ ExistenceScore(byToken, origin, tokenId) > 5

HandleReturningNft(byToken, mint, origin, tokenId) ==
  /\ mint = byToken.mint_address
  /\ nftOrigins' = [nftOrigins EXCEPT ![tokenId] = origin]
  /\ originByToken' = [originByToken EXCEPT ![tokenId] = byToken]

\* Mutant: a mapping that exists is kept.
HandleNewNftKeepsMapping(mint, p) ==
  LET t == p.token_id
      uri == DecodedUri(p.uri)
  IN  /\ FitsOrigin(uri)
      /\ nftOrigins' = [nftOrigins EXCEPT ![t] =
            NftOrigin(PlaceholderBump, t, p.origin_chain_id, mint, uri)]
      /\ originByToken' = [originByToken EXCEPT ![t] =
            IF @ # NoAccount THEN @
            ELSE [token_id |-> t, mint_address |-> mint, created_at |-> now]]

HandleNewNft(mint, p) ==
  LET t == p.token_id
      uri == DecodedUri(p.uri)
  IN  /\ FitsOrigin(uri)
      /\ nftOrigins' = [nftOrigins EXCEPT ![t] =
            NftOrigin(PlaceholderBump, t, p.origin_chain_id, mint, uri)]
      /\ originByToken' = [originByToken EXCEPT ![t] =
            [token_id |-> t, mint_address |-> mint, created_at |-> now]]

\* The collection passed to on_call may be any; the program's must be verified.
CollectionVerified == programState.collection_verified

OnCall(p, mint, previous) ==
  LET t == p.token_id
      m == <<p.origin_chain_id, p.gateway_message_id>>
      byToken == IF originByToken[t] = NoAccount THEN ZeroByTokenId
                                                 ELSE originByToken[t]
  IN  /\ programState # NoAccount
      /\ MintFree(mint)
      /\ OriginFree(t)
      /\ GatewayCaller(previous)
      /\ Unprocessed(m)
      /\ MarkProcessed(m)
      /\ IF IsReturningNft(byToken, ZeroOrigin, t)
         THEN HandleReturningNft(byToken, mint, ZeroOrigin, t)
         ELSE HandleNewNft(mint, p)
      /\ MintOneTo(mint, StateKey, p.recipient)
      /\ CollectionVerified
      /\ deliveries' = [deliveries EXCEPT ![m] = @ + 1]
      /\ mintedFor' = [mintedFor EXCEPT ![t] = @ + 1]
      /\ UNCHANGED <<stateVars, reopened, originCloses, outbox, slot>>

-----------------------------------------------------------------------------
(* burn_nft_and_transfer: an NFT leaves.                                   *)

\* Every burn sends the token id 1 and Solana as origin: the handler never
\* reads the origin account.
PlaceholderTokenId == 1
ChainSolana == 1

\* The id is made of the timestamp and the slot.
GenerateMessageId == <<now, slot>>

BurnMessage(mint, destination) ==
  [message_type |-> IF destination = ChainSolana THEN "burn" ELSE "transfer",
   token_id |-> PlaceholderTokenId, origin_chain_id |-> ChainSolana,
   origin_address |-> mint, destination |-> destination,
   message_id |-> GenerateMessageId]

\* The fixed fields of a serialized message, its length prefixes among them.
FixedFields == 127

\* What a burn's message can fail of create_burn_message_for_transfer's
\* checks, validate, validate_message_size and the gateway's size limit: its
\* type, token id, chain and time always pass, and it is never too small.
FitsMessage(content) == FixedFields + content <= 2048

\* The token program takes a token off the owner's account and the supply.
Burn(mint, owner) ==
  /\ balance[mint][owner] > 0 /\ supply[mint] > 0
  /\ supply' = [supply EXCEPT ![mint] = @ - 1]
  /\ balance' = [balance EXCEPT ![mint][owner] = @ - 1]
  /\ UNCHANGED mintAuthority

\* Mutant: the token is not burned.
BurnNftAndTransferUnburned(owner, mint, destination, content) ==
  /\ balance[mint][owner] = 1
  /\ IsChainSupported(destination)
  /\ FitsMessage(content)
  /\ outbox' = outbox \cup {BurnMessage(mint, destination)}
  /\ UNCHANGED <<tokenVars, stateVars, originVars, replayVars, slot>>

\* The mint may be any of which the owner's account has one token; the
\* gateway has accepted the call.
BurnNftAndTransfer(owner, mint, destination, content) ==
  /\ balance[mint][owner] = 1
  /\ IsChainSupported(destination)
  /\ FitsMessage(content)
  /\ Burn(mint, owner)
  /\ outbox' = outbox \cup {BurnMessage(mint, destination)}
  /\ UNCHANGED <<stateVars, originVars, replayVars, slot>>

-----------------------------------------------------------------------------
(* The environment: what wallets may ask of the token program, and time.   *)

SplTransfer(mint, from, to) ==
  /\ balance[mint][from] > 0
  /\ from # to
  /\ balance' = [balance EXCEPT ![mint][from] = @ - 1, ![mint][to] = @ + 1]
  /\ UNCHANGED <<mintAuthority, supply, stateVars, originVars, replayVars,
                 outbox, slot>>

SplBurn(mint, owner) ==
  /\ Burn(mint, owner)
  /\ UNCHANGED <<stateVars, originVars, replayVars, outbox, slot>>

\* The authority of a mint signs: the collection's is a wallet, that of an
\* NFT is the program state, for which no wallet can.
SplMintTo(mint, authority, to) ==
  /\ mintAuthority[mint] = authority
  /\ supply[mint] < MaxSupply
  /\ supply' = [supply EXCEPT ![mint] = @ + 1]
  /\ balance' = [balance EXCEPT ![mint][to] = @ + 1]
  /\ UNCHANGED <<mintAuthority, stateVars, originVars, replayVars, outbox, slot>>

NextSlot ==
  /\ slot + 1 \in Slots
  /\ slot' = slot + 1
  /\ UNCHANGED <<stateVars, originVars, replayVars, tokenVars, outbox>>

-----------------------------------------------------------------------------
Next ==
  \/ InitializeProgramState
  \/ CloseProgramState
  \/ \E u \in Users, k \in Mints :
        \/ MintCollection(u, k)
        \/ VerifyCollection(u, k)
        \/ \E c \in ChainIds, n \in Contents : BurnNftAndTransfer(u, k, c, n)
        \/ SplBurn(k, u)
        \/ \E v \in Users : SplTransfer(k, u, v) \/ SplMintTo(k, u, v)
  \/ \E t \in TokenIds :
        \/ CloseNftOrigin(t)
        \/ \E c \in ChainIds, k \in Mints, uri \in Uris \ {-1} :
              CreateNftOrigin(t, c, k, uri)
  \/ \E m \in Messages :
        \/ CloseReplayProtection(m)
        \/ \E metadata \in Metadata : CheckAndMarkMessage(m, metadata)
  \/ \E p \in Payloads, k \in Mints, previous \in PreviousInstructions :
        OnCall(p, k, previous)
  \/ NextSlot

Spec == Init /\ [][Next]_vars

-----------------------------------------------------------------------------
(* Properties.                                                             *)

Exists(account) == account # NoAccount

\* Every account holds data of its type.
TypeOK ==
  /\ programState \in ProgramStates \cup {NoAccount}
  /\ nftOrigins \in [TokenIds -> Origins \cup {NoAccount}]
  /\ originByToken \in [TokenIds -> Mappings \cup {NoAccount}]
  /\ processedAt \in [Messages -> Int \cup {NoAccount}]
  /\ mintAuthority \in [Mints -> Users \cup {StateKey, NoAccount}]
  /\ supply \in [Mints -> Nat]
  /\ balance \in [Mints -> [Users -> Nat]]
  /\ slot \in Slots
  /\ deliveries \in [Messages -> Nat] /\ reopened \in [Messages -> Nat]
  /\ mintedFor \in [TokenIds -> Nat] /\ originCloses \in [TokenIds -> Nat]
  /\ closes \in Nat

One(condition) == IF condition THEN 1 ELSE 0

\* A gateway message mints at most one NFT for each life of its replay
\* account: as long as nobody closes the account, repeated deliveries, and
\* deliveries after check_and_mark_message, mint nothing more.
DeliveriesBounded ==
  \A m \in Messages :
    deliveries[m] <= reopened[m] + One(Exists(processedAt[m]))

\* However many messages name a token id, the NFTs minted for it are at most
\* as many as its origin account was closed, and one more while it stands:
\* on_call and create_nft_origin compete for the same account.
MintsPerToken ==
  \A t \in TokenIds :
    mintedFor[t] <= originCloses[t] + One(Exists(nftOrigins[t]))

\* The two accounts on_call writes for a token, which instructions close and
\* create independently, name the same mint whenever the origin account is
\* one on_call wrote.
MappingsAgree ==
  \A t \in TokenIds :
    LET o == nftOrigins[t]
    IN  Exists(o) /\ o.bump = PlaceholderBump =>
          /\ Exists(originByToken[t])
          /\ originByToken[t].token_id = t /\ o.token_id = t
          /\ originByToken[t].mint_address = o.mint_address

IsNft(mint) == mintAuthority[mint] = StateKey

\* A mint stands for one thing: a mapped mint is an NFT of the program, whose
\* supply no wallet controls, and no two token ids are mapped to it.
MintsStandForOneToken ==
  \A t \in TokenIds :
    Exists(originByToken[t]) =>
      LET k == originByToken[t].mint_address
      IN  /\ k \in Mints /\ IsNft(k)
          /\ \A u \in TokenIds \ {t} :
                Exists(originByToken[u]) => originByToken[u].mint_address # k

\* Whatever string fields a message had, and whoever wrote the account,
\* get_nft_origin can read the origin of every token but token zero.
OriginsReadable ==
  \A t \in TokenIds \ {0} :
    Exists(nftOrigins[t]) => GetNftOriginSucceeds(t)

\* An NFT leaves Solana once: the gateway accepts at most one message for
\* its mint, and when it has, no wallet holds the NFT, then or later.
SentNftsAreGone ==
  \A k \in Mints :
    LET sent == {x \in outbox : x.origin_address = k}
    IN  IsNft(k) /\ sent # {} =>
          /\ supply[k] = 0 /\ \A u \in Users : balance[k][u] = 0
          /\ \A x, y \in sent : x = y

\* The supply of an NFT never grows: no instruction mints a second token of
\* it, or a new one when it was burned, and its authority never changes.
NftSupplyNeverGrows ==
  [][\A k \in Mints :
       IsNft(k) => /\ supply'[k] <= supply[k]
                   /\ mintAuthority'[k] = mintAuthority[k]]_vars

\* "Case 1: Link to existing mint (returning NFT)": an NFT that arrives when
\* its token id is already mapped to a mint keeps that mint.
ReturningLinksMint ==
  [][\A t \in TokenIds :
       Exists(originByToken[t]) /\ mintedFor'[t] > mintedFor[t] =>
         originByToken'[t].mint_address = originByToken[t].mint_address]_vars
=============================================================================
