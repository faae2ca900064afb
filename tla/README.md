# Verification of the universal NFT protocol

TLA+ models, TLC runs and TLAPS proofs for the contracts of this repository:
an NFT collection that lives on ZetaChain, Base Sepolia and Solana, moves
between them by burning on one chain and minting on another, and is watched by
an error-recovery contract that times messages out, retries them and lets
administrators settle them. Paths are relative to `src/`.

## 1. Inventory

| Part | State | Operations | Talks to |
|---|---|---|---|
| `contracts/zetachain/UniversalNFT.sol` | tokens, token id counter, origins, processed message ids, user nonces, pause flag | mint, burnAndTransfer, onCall, onRevert, onAbort, pause, adminMarkMessageProcessed, ERC-721 transfers | gateway (messages), ZRC-20 (fees) |
| `contracts/base-sepolia/UniversalNFTReceiver.sol` | the same, and the address of the ZetaChain contract | the same, two wrappers of burnAndTransfer, setZetaChainContract, depositAndCall, withdrawals | gateway |
| `shared/CrossChainMessage.sol` | none | message ids, validation, ABI encoding | called by both |
| `contracts/shared/ErrorHandling.sol` | none (works on a message record) | timeouts, retry delays, scheduling, recovery actions | called by the manager |
| `contracts/shared/ErrorRecoveryManager.sol` | message records, two id lists, retry and timeout configuration, switches, statistics | registration, completion and error reports, two keeper functions, administrators' recoveries, configuration | called by UniversalNFTEnhanced, keepers, administrators |
| `contracts/zetachain/UniversalNFTEnhanced.sol` | UniversalNFT's, backups of burned token ids, transfer marks, a keeper interval | burnAndTransferEnhanced, onCall, onRevert, runAutoRetry, handleTimeouts, adminRecoverToken | gateway, the manager |
| `contracts/shared/MonitoringLogger.sol` | log entries and their indexes, metrics, alert rules, audit events, switches | logging, metrics, alerts, audit, archiving, clearing | called by holders of its roles |
| Solana program (`contracts/solana/universal_nft/programs/universal_nft/src/`) | program state with the collection, per token id an origin account and a mapping to its mint, per gateway message a replay account; mints and token accounts are kept by the token program | mint_collection, verify_collection, create_nft_origin, on_call, burn_nft_and_transfer, check_and_mark_message, closing of accounts; mint_nft, on_revert and get_nft_origin change nothing | gateway program, SPL token program, Metaplex |
| Solana program, `constants/message_format.rs` and `utils/*_validation.rs`, `utils/gateway_authorization.rs`, `utils/validation_pipeline.rs` | none (lists of validators and signatures are arguments; the program state has a list of gateways, whose functions no instruction calls) | message format, codecs for EVM chains, payload decoding, signature and gateway checks, the pipeline | `mint_nft`, `on_call`, callers outside the program |
| `shared/CrossChainMessage.rs`, `shared/MessageBridge.rs` | none | a message of its own, its checks, conversions to and from Borsh, ABI and the program's format | clients; the program does not call it |
| `shared/*.ts` | in-memory bridge and flow state | the same codecs, a message bridge, a flow simulator | tests and demonstrations |
| `scripts/`, `test/` | none | deployment, demonstration, tests | all of the above |

A transfer goes: burn and send on the source contract, one call held by the
ZetaChain gateway, `onCall` on the receiver (or `onRevert` on the sender). The
enhanced contract also registers the message with the manager, whose keeper
functions anyone may call.

**What is hard here.** On one chain a transaction is atomic, so the difficult
behaviour is (a) the order of transactions of independent actors on one record:
senders, two keepers, administrators, late reports; (b) the gateway: calls
delivered late, twice, out of order, refused and tried again, or given up;
(c) clocks of two chains and limits on age; (d) arithmetic at the edge (delays
that overflow, a cap of zero, counters that are subtracted); (e) identifiers
that outlive what they name (token ids, message ids, lists that are never
trimmed); (f) on Solana, accounts that any signer may close and create again
while other accounts still refer to them; (g) five formats of one message, with
fields of different widths, that are converted into one another by hand-written
offsets. `PROJECT.json` lists each such place with its line.

**What makes each part correct.**

- *Manager*: no message is retried more often than the limit allows or sooner
  than the floor; what is due is found; what was given up is retried only
  when an administrator asks, once each time; no message that timed out fails to
  come to rest; every completion is counted.
- *EVM contracts and gateway*: an NFT is in one place at a time, keeps the chain
  of its first mint, and token ids do not come back.
- *Enhanced contract*: a burned and marked token can be restored once, and nothing
  but a restoration that came too early makes a second copy; the manager's records of
  the contract's own making name what was sent, whatever strangers do there.
- *Logger*: every live entry is found through its indexes and only through
  those, alerts respect their cooldown, totals add up.
- *Solana program*: a gateway message mints once for each life of its replay
  account, a token id once for each life of its origin account; the two accounts
  on_call writes agree; a mint stands for one token id; a sent NFT is gone.
- *Messages*: what is read is what was written, for every chain of conversions; the
  checks of the two libraries part only where their chain ids do; a quorum is worth
  as many validators as its threshold says; the lookups of a gateway agree.

## 2. Modules

| Module | Stands for |
|---|---|
| `ErrorHandling.tla` | the library: message records, configurations, `isMessageTimedOut`, `calculateRetryDelay` (with the checked multiplication, whose overflow reverts), `scheduleRetry`, `handleRetryFailure`, `handleMessageTimeout`, `executeRecoveryAction` as operators on a record |
| `ErrorRecoveryManager.tla` | the contract: one action per state-changing function, its properties |
| `ErrorRecoveryManagerProofs.tla` | its inductive invariant, theorems and proofs |
| `ErrorRecoveryManagerStepProofs.tla` | what a step may do to a message, and the theorems that follow |
| `MCErrorRecoveryManager.tla` | small configurations for TLC |
| `NFTContract.tla` | what the two EVM contracts share: messages, validation, the effect of mint, burn and onCall on one contract's storage |
| `UniversalNFTBridge.tla` | both contracts, the gateway, one clock per chain |
| `NFTLedger.tla` | abstract specification: an NFT is unminted, held, moving or lost, and its provenance is fixed at its mint |
| `UniversalNFTBridgeProofs.tla` | its inductive invariant, theorems and proofs |
| `MCUniversalNFTBridge.tla` | symmetry for TLC |
| `UniversalNFTEnhanced.tla` | the enhanced contract: extends the bridge, overrides its ZetaChain side, and has an instance of `ErrorRecoveryManager` |
| `UniversalNFTEnhancedProofs.tla` | its inductive invariant, theorems and proofs |
| `MCUniversalNFTEnhanced.tla` | its configurations for TLC |
| `MonitoringLogger.tla` | the logger: entries and their three lists, metrics, alert rules, switches, archiving, clearing |
| `MonitoringLoggerProofs.tla` | its inductive invariant, theorems and proofs |
| `MCMonitoringLogger.tla` | its inputs for TLC |
| `SolanaProgram.tla` | the Solana program: its accounts, one action per instruction that changes one, the token program and the Clock as environment |
| `SolanaProgramProofs.tla` | its inductive invariant, theorems and proofs |
| `MCSolanaProgram.tla` | its keys and inputs for TLC |
| `ByteRuns.tla` | byte strings as sequences of runs: what a decoder with fixed offsets can tell of them |
| `SharedMessages.tla` | the shared Rust library: `NFTTransferMessage`, its checks, Borsh, ABI, the program's format |
| `ProgramMessages.tla` | the program's `CrossChainNftMessage`: Borsh, the two codecs for EVM chains, `construct_chain_optimized_message` |
| `MintPayload.tla` | the payload of `on_call`: its layout, the decoder with its guesses, the legacy decoder |
| `MessageValidation.tla` | signatures, gateways and the pipeline of `mint_nft` |
| `MessagePath.tla` | their composition: one message, made, converted, carried on, delivered or presented with signatures |
| `MessageCodecProofs.tla` | what each codec reads of what another wrote: lemmas, theorems and proofs about the four modules of messages |
| `MessagePathProofs.tla` | the inductive invariant of `MessagePath`, theorems and proofs |
| `MCMessagePath.tla` | its inputs for TLC |

**Conventions.** A transaction that reverts changes nothing, so each `require`,
modifier, checked subtraction or overflow is a guard of its action, and the
loops of a transaction (batches, scans) run inside one action. Events, error
texts and the log calls are left out. Operators keep the names of the functions
they model. Operators marked *Mutant* are faulty variants used to show that a
property notices the fault; no action uses them.

### The manager

`pendingMessages` maps every id to a record (`registered` is the test
`messageId != 0`), `allMessageIds` and `userMessages` are the lists, which
nothing trims. `Tick` is the next block. RECOVERY_ROLE is a constant set of
callers, because `executeBatchRecovery` calls `this.executeRecovery` and so runs
it as the contract (`Self`); the other roles only say that some administrator
may act. A retry is what the code does: it simulates success, so an executed
retry ends COMPLETED. Three history variables are read by no guard:
`attempts` (retries executed), `lastAttempt` (when) and `adminRetries` (retries
an administrator scheduled outside the automatic limit). Lists that nothing reads in
order are sets, so that an id twice in a list argument or in `allMessageIds`, which the
scans pass over the second time, is one id.

### The contracts and the gateway

`contracts` holds the storage of each contract, `calls` every call the gateway
ever accepted and did not give up. `onCall` may happen to any of them, any
number of times: the processed-message map is what prevents a second mint. A
call the receiver refuses (paused, too old, ahead of its clock, already
processed) may be tried again later, as a test does after unpausing, or given
up, which runs `onRevert` and changes nothing but `calls` and the history
`reverted`. `mintedOn` is the history of first mints. Every NFT has its own
metadata, which is how its copies are recognised. `ReceiversDeployed` is FALSE
for the source as it stands (both addresses in `_getReceiverContract` are
placeholders) and TRUE for the deployment its comments describe; the passing run
uses the latter, the runs that contradict a document use the former.

Two inputs are narrower than the code: recipients are of the destination's kind,
and `adminMarkMessageProcessed` marks messages that were sent to that contract.
Marking any other id can lose an NFT as it leaves, because the id may be that of
a message still to be sent; that is the operator's mistake, not the transfer's.

`NFTLedger` is implemented through the mapping `PlaceOf`: a live token is *held*,
an undelivered message is *moving*, an NFT that is neither but was minted is
*lost*. Loss is part of what the contracts promise, as neither restores a burned
NFT (their comments say so); duplication, teleportation and resurrection are not.

### The enhanced contract

The contract inherits from `UniversalNFT`, so its module extends the bridge and
takes the inherited handlers as they are (`burnAndTransfer` included: it sets no
mark and registers nothing). `Manager` is an instance of `ErrorRecoveryManager`
whose clock is ZetaChain's and whose configuration stays fixed; a call the
contract catches becomes a condition of an IF, with the manager unchanged
otherwise. The manager's functions that anybody may call are open to strangers at any
moment (`openCall`): `registerMessage`, for any id and any sender, error reports,
completions, timeout checks and the keeper's retries; its administrators pause it and
clear records (`ownerCall`). So a stranger may register the id of a transfer before the
contract does: it hashes values everybody sees. The history `foreign` holds the ids
registered by strangers, `openCalls` bounds their calls. Recoveries and configuration by
the manager's administrators, pauses of the NFT contracts, gifts of tokens and the Base
clock are explored in the runs of their own modules and left out of this product.
`adminRecoverToken` is called by an
owner who passes the metadata of the burned token, but at any time: before its
message arrived, after it did, or after the NFT was lost. The history
`recoveries` records which.

`onRevert` is a no-op on this contract's state, because the message id it parses
is the first word of an ABI-encoded string (section 4); token 0 is matched by
every id without a backup, because mappings default to 0.

### The logger

A deleted record is absent from its function, so `DOMAIN logs` are the live entries; the
lists keep every id, as in the code. `addEntries` is the sequence of `_addLog` calls of
one transaction: the entry of the operation, then one for each alert its metric update
triggers; the entries of alerts name neither a message nor a user, so that only the first
can be in an index. If one of them is refused (logging off, level too low) the whole
transaction is, which is why its conditions are guards of every metric update.
`lastUpdated = 0` makes a metric new in the code, also for the default metrics that the
logging paths count in without setting it; the model keeps that.

### The Solana program

An instruction is atomic: an error anywhere, in an account constraint, in the
handler or in a program it calls, leaves every account as it was. So an action's
guard is the conjunction of all of these checks, and their order does not matter.
An account is a record, or `NoAccount` at an address where there is none;
`init` requires `NoAccount`, `init_if_needed` reads zeros there, `close` returns
to it. Addresses derived from seeds are the index of the function that holds the
account (token id, or chain and message id). A URI is its length, since
the code compares lengths only; a chain id is its first byte.

*External, modelled from its use:* the token program. `mintAuthority`, `supply` and
`balance` are what the instructions read and write through it; wallets may
transfer and burn tokens they hold (`SplTransfer`, `SplBurn`) and mint tokens of
mints whose authority they are (`SplMintTo`: collections). The mint authority of
an NFT is the program state's address (`StateKey`), for which no wallet can
sign. The gateway is any caller that passes the check of the preceding
instruction, with any payload, as often as it likes; the Clock advances by
`NextSlot`, along times given by `SlotTime`.

*Not actions:* `mint_nft` (its gateway check hands the validation pipeline the
placeholder program id, `Pubkey::default()`, which the pipeline refuses, so it
always fails), `on_revert` and `get_nft_origin` (they change nothing; what the
latter requires is the operator `GetNftOriginSucceeds`), `burn_nft` (no instruction
of the program calls it). The branch for a returning NFT is part of `OnCall` as in
the code, though the origin account it scores is always just created, so that the
branch is never taken (section 4, and the lemma `NeverReturning`).

A burn carries a `content` length, the bytes of its message's variable part: the
message must fit the program's limit together with its fixed fields (`FitsMessage`).

*Histories and bound.* `deliveries`, `mintedFor`, `reopened` and `originCloses` count
what was minted and closed and are read by no guard. `MaxCloses` bounds how many
accounts are closed in all.

### Messages

All code here is pure: the state of `MessagePath` is that of whoever carries a
message (`original`, `copy`, the present moment) and of the caller who collects
`validators` and `signatures`. Conversions are the actions, so TLC
tries every chain of them. A byte string is a sequence of runs (`ByteRuns`): a
piece of known length, content and kind (ASCII or not), since the decoders look
at lengths, offsets, NUL bytes, character classes and prefixes and at nothing
else. Cutting inside a run gives a part of it, so a field read at a wrong offset
is a value no field was written with. Two simplifications: the bytes of a key are
taken to be no ASCII text, and a length read where no length was written is taken
to leave the byte string, which makes the decoder fail (in the code it may by
chance fit, and the content is then wrong all the same). A function that may return
an error or panic is the set of what its caller gets, and empty when it fails.

The program stores up to five gateways (`gateways`); they are added and removed before
a message is made, since no function reads them together with one. The two functions
that change the list have no caller in the program: the model is what they will do once
an instruction exists.

A signature is `valid` when it has 64 bytes that are not all zero: that is what
`verify_single_signature` tests ("Simplified verification"), so the model says
nothing about cryptography. Valid entries are counted in a u8; `MaxCounted` is 255 in
the code and small in the run, so that the overflow, a panic, is within reach. Nothing
in the program stores validators or signatures.

## 3. Runs

| Run | Asks | Result |
|---|---|---|
| `erm_two` | two messages, one configuration, all interleavings of senders, keepers and administrators, clearing and registering again; with a keeper that keeps checking, do timed-out messages come to rest? | holds |
| `erm_config` | one message while administrators change every setting, including a delay that overflows and a cap of zero; messages given up, reopened and recovered | holds |
| `erm_batch` | does a batch recover its messages? | violated (finding) |
| `bridge_two` | two NFTs on two chains: one copy, provenance, token ids, the ledger | holds |
| `enhanced_two` | the enhanced contract with its manager and strangers who call it: marks, backups, recoveries, tracking | holds |
| `enhanced_revert` | is the token of a reverted transfer restored? | violated (finding) |
| `monitoring` | logs, metrics, alerts, archiving and clearing in any order | holds |
| `bridge_route` | can an NFT go to the other EVM chain? | violated (finding) |
| `bridge_solana` | is an NFT minted where it was sent? | violated (finding) |
| `solana_two` | two gateway messages and two token ids, every instruction in any order, wallets using the token program in between | holds |
| `solana_returning` | does an NFT that returns keep its mint? | violated (finding) |
| `messages` | one message through every chain of conversions, every short list of validators and signatures, and every list of stored gateways | holds |

What the properties say, beyond their comments in the modules:

- `AttemptsWithinBudget`, `AttemptSpacing`, `RetryHorizon`: the guide's "Maximum
  Retry Limits: Configurable limits to prevent infinite retry loops" and the
  back-off, for every mix of timeouts, reports, forced retries and configuration
  changes.
- `KeeperSeesDueMessages`: the scan with a limit, over a list that keeps deleted
  ids and may hold an id twice, still retries exactly what is due.
- `CompletionsCounted`: three paths complete a message, with clearing in between;
  how far the statistics can be trusted.
- `TimedOutSettles`: a message that timed out comes to rest (completed, settled,
  failed with its retries spent, or cleared) whatever is reported, retried,
  reopened or recovered meanwhile. A status no timeout check handles would break it.
- `SettledNotRescheduled`: late reports and keepers do not schedule what an
  administrator settled. `GivenUpRetriedOnRequest`: it may be reported failed by
  anyone, though, and a RETRY recovery then reopens it without asking whether it is
  recoverable; the property says that this is the only way back, and that one request
  is worth one attempt.
- `OneCopy`, `ProvenanceKept`, `TokenIdsNotReused`, `ImplementsLedger`: section 2.
- `CopiesBounded`: retries, redeliveries and failures never duplicate an NFT, only
  a recovery made before the NFT was lost does, once each time.
  `OriginKeptOrErased`: provenance is never forged, but a recovery erases it.
  `RecoverableOnce`: a mark and a backup go together, so that a burn can be
  recovered once. `RecordsMatchMessages`, `MonitoredTransfersTracked`: a stranger can
  take the place of a record, but no record the contract made names anything but what
  it sent, and its own earlier transfers never get in the way of a registration: this
  depends on the nonce, as a recovered token can be sent again in the same block.
- `LogsListed` (`IndexesTellTruth`, `RecentLogsNewestFirst`): archiving and clearing
  leave stale ids behind; they never name another entry, because the id counter
  survives clearing. `MetricsCoherent` (`OperationsAddUp`, `HistogramsCoherent`,
  `MetricsListed`): a refused alert or histogram undoes the counters with it; metrics
  are born twice (once by default, once by their first update) and cleared in between.
- `DeliveriesBounded`, `MintsPerToken`: closing an account is what makes a message
  or a token id usable again; each close buys at most one more mint, in whatever
  order on_call, create_nft_origin and check_and_mark_message compete for it.
  `MappingsAgree`, `MintsStandForOneToken`: of the two accounts on_call writes only one
  can be closed; a stale mapping never survives beside a new origin account, and
  mints are not shared. `OriginsReadable`: whatever the decoder, its fallback and
  its padding make of a payload, get_nft_origin accepts the account (but for
  token 0, which on_call accepts and get_nft_origin refuses).
  `SentNftsAreGone`, `NftSupplyNeverGrows`: burn_nft_and_transfer accepts any token of
  which one unit is held, so the guarantee rests on who may mint.
- `CopyKeepsMessage`, `OnlyBorshTravels`: of the codecs, the shared library's ABI and
  both Borsh forms keep a message, through any number of conversions; the program's
  own EVM codec never does. After a crossing to the program's format one byte of the
  origin chain is left, and destination and nonce are the caller's to fill in.
  `ChecksPartAtTheChain`: a message valid for the shared library passes the
  program's checks, at the limits of age, length and size, if and only if its origin's
  lowest byte is a chain of the program's, which it is for none of the networks the
  library names; a valid mint of the program's is compatible for the library.
- `PayloadArrives`, `DecodersAgree`: exactly which payloads `on_call` reads as they were
  sent, and that it never reads an empty text or another token; the legacy decoder
  refuses where the newer one guesses.
- `QuorumIsReal`, `ForgeriesChangeNothing`: the quorum counts entries, so it is worth
  as many validators as it says unless a signer hands in two; it can always be
  reached by two or more validators. Entries that are forged or a stranger's change no
  verdict, before or after others, although the doc promises an error for them; a valid
  one undoes a verification only by overflowing the u8 that counts them.
  `PipelineAcceptsVerified`: the simplified stages refuse nothing the verification
  accepts, and the default key always. `GatewayLookupsAgree`: the lookup by the
  first record of a gateway and the one by any active record agree on every list that
  adding and removing builds, because no gateway is stored twice.

**Bounds.** Time is scaled: a unit stands for the smallest delay, so a delay of one,
the floor, the cap and a doubled delay can all be told apart (in `erm_config` the
floor is 2 units and the cap 3). `MaxTime` lets a message time out, be scheduled,
become due and be retried once or more. `MaxRegistrations` is 2 in `erm_two`: both
messages are registered, or one is registered, cleared and registered again.
`MaxCount` and `MaxRecovered` bound statistics no other action reads; both are 1 in
`erm_two`, and `MaxRecovered` is 2 in `erm_config`, where a message is cancelled by
one recovery and reopened by the next. For the bridge two NFTs, two token ids per
contract and two units of time per clock give redelivery and journeys of two hops: a
third is refused, or has nobody to send it (section 4). There a unit of time is more
than `MAX_MESSAGE_AGE`: a call arrives in the unit it was sent, too late, or before
the receiver's clock reached the sender's; that a call may arrive in a later unit
and still be young enough is in the proof and in `enhanced_two`, whose limit is one
unit. One user suffices because a transfer to an address without a key is the only
other owner that matters, and ids differ by nonce. For the enhanced contract two
NFTs, two token ids, two transfers per user, one recovery, two blocks and one call
by a stranger (`MaxOpenCalls`) give a second transfer of a recovered token, in the
same block or the next, refused calls (the Base clock stays behind), a retry by the
keeper, and a registration by a stranger of the id the contract will use for the
second token (`ForeignIds`), before it or without it; `InitialInterval` 2 and the
only other interval 1 make the keeper's run refused or allowed. For the logger two
entries, one alert rule, two samples, one custom metric and one default one, which
operations sample and callers may update or re-type, give an alert that logs within
an operation or is refused with it, a re-triggered and a cooling-down alert, and
histograms with unequal samples; `MaxUpdated` lets one of the two metrics have
updates at a time, since no decision reads two. For the Solana program two token ids
(0 is the odd one), two messages, three mints (one for the collection), two wallets,
two slots and one close give a redelivery after a close, a second mint for a token
id, and an NFT burned after it changed hands; payloads have no string bytes (the
fallback decoder), none but NULs (the padding), an ordinary URI and one that
`validate_uri` accepts and the account has no room for; two lengths of content let a
burn message fit or just not fit its limit; a u64 of at most 2 lets the counter
reach its end. For the messages, texts are empty, short, non-ASCII, just within and
just beyond each limit of a decoder; origins 900, 7001 and 84532, the networks the
shared library names, and 2, a chain of the program's; chains 2 and 89 (what is left
of 7001) for the program's own messages; moments at the limits of an hour and a day;
lists of up to four entries of two validators, whose threshold is rounded, three
signatures, of which several may be one signer's or forged, and counts of more than
two overflow; five gateways, as many as can be stored, and the default key.
`CHECK_DEADLOCK FALSE` in every run: at the bounds the model stops.

**Fairness.** One assumption, in `FairSpec` of the manager: weak fairness of
`handleTimeouts(MsgIds)`, a keeper that again and again checks all messages. The
function is open to everybody, and the guide counts on its being called: "Messages
are monitored for timeout" (`docs/ERROR_RECOVERY_GUIDE.md:123`). In `erm_two`'s
configuration nothing disables it for good: delays do not overflow, and the checks
are not paused. Nothing is assumed of the other keeper, of reporters, of
administrators or of time, which may stand still once the message has timed out:
the retry count only grows, so that `TimedOutSettles` is not a consequence of the
bounds `MaxTime` and `MaxCount`. All other properties are safety properties. The gateway
promises nothing the source could show, and no fairness is assumed of it.

## 4. Findings

- `executeBatchRecovery` fails for every message unless the contract itself holds
  RECOVERY_ROLE, which the deployment script does not grant; the failure is caught
  and the batch reports success (`BatchRecoversMessages`).
- `validateMessage` refuses a message whose origin is its destination, and origin
  is the chain of the *first* mint: an NFT can never come home, against the
  documented two-way routes and the "Full Loop" (`EvmRouteOpen`).
- An NFT sent from Base to Solana is minted on ZetaChain, to the last twenty bytes
  of the Solana key (`MintedWhereSent`).
- `onRevert` of the enhanced contract never restores a token (`RevertRestores`).
- On Solana, "Case 1: Link to existing mint (returning NFT)" is never reached: the
  origin account is created by the same instruction, and its empty fields cost
  half of the score that has to exceed one half. An NFT that returns is refused
  while its origin account stands, and gets a second mint after it was closed
  (`ReturningLinksMint`).

Met while modelling, without a run:

*Manager, logger, EVM.* `isStatusFinal` is documented as "cannot be changed"
(`ErrorHandling.sol:513`), but `markMessageCompleted`
(`ErrorRecoveryManager.sol:204`), `reportMessageError` and `forceRetry` never
consult it: a cancelled message can be completed, a failed one rescheduled.
`timeoutMessages` is always 0: it is incremented in a branch
(`ErrorRecoveryManager.sol:282`) no status reaches. A message the manager "retries"
becomes COMPLETED without having been sent again, and one that was delivered stays
PENDING on the sending side, because `onCall` reports the completion on the
receiving chain; `adminRecoverToken` does not ask whether the message was delivered;
`getSystemStats` underflows after a message fails and then completes;
`executeAutoRetries` ignores `autoRetryEnabled`; a RETRY recovery of a message with
no retries yet is never due, as `isReadyForRetry` needs a retry count; a recovery
does not ask whether a message is recoverable, so that one given up and then
reported failed is retried after all; `emergencyClearMessages` leaves ids in the
lists; every timeout check spends a retry without an attempt;
`emergencyClearAllData` ("Clear all mappings and arrays") leaves `messageToLogs` and
`userToLogs`; `archiveLogs` counts entries it archived before once more, as a
deleted entry has timestamp 0; a default counter such as `operations_total` may be
turned into a gauge and lowered by its first direct update. The manager's
`registerMessage` is open to everybody, for any id and any sender
(`ErrorRecoveryManager.sol:149`), and the enhanced contract's ids are predictable:
if a stranger registers one first, the contract's registration fails, the failure is
swallowed (`UniversalNFTEnhanced.sol:102`), and the transfer is watched under the
stranger's record. Message ids of the EVM contracts hash neither the contract nor
the chain they are sent from, so the two can produce the same id.

*Solana program.* A message id is made
of the time and the slot, so that two burns in one slot share it, though the
comment calls it unique (`burn_nft_and_transfer.rs:337`); every burn message names
token id 1 and Solana as origin, whatever the NFT; `validate_uri` accepts 200 bytes
and the origin account has room for 196; `on_call` is accepted as the first
instruction of a transaction, without a gateway instruction before it. The outgoing
replay record is built and dropped. The gateway's program id is all zero, so the
burn's gateway call cannot succeed as shipped (the model has a gateway that answers);
`execute_gateway_cpi_with_retry` never tries again. `mint_nft` would mint without its
signer seeds, if its checks let it.

*Messages.* `encode_for_evm` writes token id and timestamp in eight bytes,
`decode_from_evm` skips thirty-two for each, so that neither reads the other;
`construct_chain_optimized_message` panics for every message, as it copies one-byte
chain ids into ranges of two (`message_format.rs:354`).
`calculate_signature_threshold(4, 67)` is 2, below the documented two thirds
(`signature_validation.rs:12`), and with a single validator the minimum of 2 cannot
be reached. `verify_signatures` counts entries, so one validator's two entries make
a quorum of two, and its u8 count panics at 256; its doc promises an error "If any
signature is invalid" and "If a signer is not an authorized validator"
(`signature_validation.rs:85`), but such entries are passed over
(`ForgeriesChangeNothing`). No instruction calls `add_authorized_gateway` or
`remove_authorized_gateway`, and the short `is_gateway_authorized` of
`gateway_authorization.rs:200` does not ask whether the gateway is active, unlike
the program state's function of the same name (`program_state.rs:35`). The pipeline
accepts payloads of 1 to 1024 bytes, `on_call` those of 104 to 2048. `on_call` takes
the last 32 bytes as recipient, so that the additional metadata its layout allows is
read as one; empty and non-ASCII texts shift the fields. `to_solana_format` cuts the
chain id to a byte: 7001 becomes 89, 84532 becomes 52, 900 becomes 132, none of
which the program supports, so that it refuses every message from the networks the
library names (`CrossChainMessage.rs:143`, `ChecksPartAtTheChain`).

## 5. Proofs

`ErrorRecoveryManagerProofs.tla` proves, for any set of messages, users and
chains, any limits, any sets of configuration inputs and any bounds that satisfy
the named assumptions of the two modules:

| Theorem | Statement |
|---|---|
| `Invariance` | `Spec => []IInv` |
| `TypeCorrect` | `Spec => []TypeOK` |
| `NoRetryLoop` | `Spec => []AttemptsWithinBudget` |
| `RetriesAreSpaced` | `Spec => []AttemptSpacing` |
| `RetryDueInTime` | `Spec => []RetryHorizon` |

*Argument.* The three retry properties are not inductive: that a message is due
says nothing of when it was tried unless one also knows that scheduling always
happens at or after the last attempt. `IInv` adds, for each record: a scheduled
message's `nextRetryAt` is at least its last attempt plus the floor and at most
now plus the largest cap; attempts never exceed scheduled plus administrators'
retries, with one to spare while a retry is outstanding; the retry count never
exceeds the largest limit that was ever configurable; nothing is dated in the
future; the settings in force satisfy the limits `updateRetryConfig` enforces.
The lemma `RetryDelayBounds` gives the delay's range for every configuration and
count that does not revert. Each operator of `ErrorHandling` then has a lemma
that it takes a good record to a good record; `OneRecordStep` and
`AllRecordsStep` lift these to actions that touch one message or a batch, and
every action has a step lemma. The batch loops are functions applied to each
message of a set, so no induction is needed.

`ErrorRecoveryManagerStepProofs.tla` extends it with what a step may do to a message:

| Theorem | Statement |
|---|---|
| `StepInvariance` | `Spec => []StepInv` |
| `CompletionsAreCounted` | `Spec => []CompletionsCounted` |
| `KeepersSeeAll` | `Spec => []KeeperSeesDueMessages` |
| `SettledIsNotRescheduled` | `Spec => SettledNotRescheduled` |
| `GivenUpNeedsRequest` | `Spec => GivenUpRetriedOnRequest` |

*Argument.* One relation, `Effect`, says what a step may turn a message's record into:
complete it (and count it), fail it, clear it, register it anew, settle it, schedule
it while it is recoverable, or make it PENDING at an administrator's request, which is
counted. Every action is shown to keep to it for every message
(`EveryStep` and the lemmas before it), and the theorems follow from it alone. The
theorems are about `Spec`, which `FairSpec` implies.

`UniversalNFTBridgeProofs.tla` proves every property of `bridge_two`, for any users, keys
and NFTs, any clocks, ages and bounds, whether the receivers are deployed or not:

| Theorem | Statement |
|---|---|
| `Invariance` | `Spec => []IInv` |
| `TypeCorrect` | `Spec => []TypeOK` |
| `NeverTwoCopies` | `Spec => []OneCopy` |
| `ProvenanceIsKept` | `Spec => []ProvenanceKept` |
| `IdsAreNotReused` | `Spec => TokenIdsNotReused` |
| `LedgerIsImplemented` | `Spec => ImplementsLedger` |

*Argument.* `OneCopy` depends on ids: a delivery is harmless the second time only if the
processed id belongs to the first, and a departure is lost if the receiver already knows
its id. `IdsOK` therefore ties ids to nonces: every call of a contract carries a nonce its
sender has taken there, two calls of one contract differ in their ids, no contract calls
itself, so that a receiver hears from one contract only, and an id a receiver knows is
one whose nonce was taken on the other side. `CopiesOK` says that a live token and an
undelivered message exclude one another. The refinement is proved with the same
vocabulary: each action leaves an NFT's copies untouched or is its mint, departure,
arrival, loss or gift, which are the steps of `NFTLedger`. What the theorems assume is
`UniversalNFTBridgeAssumption`: the chains, users and keys are different things.

`UniversalNFTEnhancedProofs.tla` proves every property of `enhanced_two`, for any users,
keys and NFTs, any clocks, intervals, configurations and bounds:

| Theorem | Statement |
|---|---|
| `Invariance` | `EnhancedSpec => []EInv` |
| `TypeCorrect` | `EnhancedSpec => []EnhancedTypeOK` |
| `CopiesAreBounded` | `EnhancedSpec => []CopiesBounded` |
| `OriginsKeptOrErased` | `EnhancedSpec => []OriginKeptOrErased` |
| `RecoveredAtMostOnce` | `EnhancedSpec => []RecoverableOnce` |
| `RecordsAreOfMessages` | `EnhancedSpec => []RecordsMatchMessages` |
| `TransfersAreTracked` | `EnhancedSpec => MonitoredTransfersTracked` |

*Argument.* A recovery breaks the bridge's invariant, under which an NFT has one copy, so
copies are counted instead: every step of the bridge either leaves fewer copies, turns one
into another, or makes the first (`CopiesMoved`), and a recovery adds one and an entry of
`recoveries`, unless there was none. `Marks` says that a marked token is burned, was
issued, and that a message still tells which NFT it was, so that what a recovery mints has
a mint chain. `Backups` makes marks and backups one to one, token 0 apart; a transfer
keeps this because its token is unmarked, so its id has no backup to overwrite. `Records`
gives every registered id but those of `foreign` a nonce its user has taken: the id of a
new transfer is therefore none of the contract's own records, and only a stranger's record
can make its registration fail. Steps that neither mark nor recover are treated at once
(`OrdinaryStep`): all that matters is that the bridge `Moves` and the manager keeps sender
and block of its records (`RecordsKept`; `OwnRecordsKept` where strangers add theirs).
Besides the assumptions of the bridge they use `UniversalNFTEnhancedAssumption` and
`ManagerConfigAssumption`: the configuration the manager's constructor sets has its type.

`MonitoringLoggerProofs.tla` proves every property of `monitoring`, for any messages, users,
metrics and arguments and any bounds:

| Theorem | Statement |
|---|---|
| `Invariance` | `Spec => []LInv` |
| `TypeCorrect` | `Spec => []TypeOK` |
| `ListsShowLogs` | `Spec => []LogsListed` |
| `MetricsAreCoherent` | `Spec => []MetricsCoherent` |

*Argument.* `allLogIds` is increasing and its ids do not exceed the counter, so that an id
occurs once and a new one can be in no list yet; entries are dated in the order of their
ids. For the metrics, `SamplesOK` ties the average of a histogram to the total and the
number of its samples, and these to the smallest and the largest
(`min * count <= sum <= max * count`), which a further sample keeps (`SampleKeepsBounds`);
a metric without an update has no sample yet, which is what makes its first one both
smallest and largest, also when the logging paths have counted in it. Custom metrics
are taken not to have the name of a default one, and arguments to fit their type.

`SolanaProgramProofs.tla` proves every property of `solana_two`, for any sets of keys,
token ids, messages and URIs, any Clock whose times are positive and any bounds:

| Theorem | Statement |
|---|---|
| `Invariance` | `Spec => []IInv` |
| `TypeCorrect` | `Spec => []TypeOK` |
| `ReplayIsBounded` | `Spec => []DeliveriesBounded` |
| `TokensAreBounded` | `Spec => []MintsPerToken` |
| `OriginsAgree` | `Spec => []MappingsAgree` |
| `OriginsCanBeRead` | `Spec => []OriginsReadable` |
| `MintsAreDistinct` | `Spec => []MintsStandForOneToken` |
| `SentIsGone` | `Spec => []SentNftsAreGone` |
| `SupplyNeverGrows` | `Spec => NftSupplyNeverGrows` |

*Assumptions.* `ConstantsAssumption`: token ids fit in u64, chain ids in a byte, the
Clock is positive, the null key is no mint and no wallet has the program state's
address. `NoAccountAssumption`: the marker for an absent account is no account.

*Argument.* `IInv` has four parts that hardly meet. `ReplayOK`: a replay account that
exists is stamped (a stamp of 0 would read as unprocessed), and deliveries are
bounded by its lives. `OriginsOK`: the same for token ids, together with the
agreement of the two accounts; it is inductive only because on_call creates the
origin account, so that the mapping is always overwritten with it. The lemma
`NeverReturning` excludes the other branch by the score. `MintsOK` is the
strengthening `SentNftsAreGone` needs: an NFT either has supply 1, exactly one
holder with one token and no message sent, or supply 0, no holder and at most one
message; a mint that does not exist has neither. Transfers keep the one
holder, a burn moves from the first case to the second, and nobody can mint.
`MintOneToStep` and `BurnStep` show this for the effects that several
instructions share; each part has a step lemma with one step per action that can
disturb it, and frames for the rest.

`MessageCodecProofs.tla` proves, for every message, text and number, whatever their size:

| Theorem | Statement |
|---|---|
| `DecodeEncode`, `FromEvmToEvm` | the shared library reads back what it wrote, as Borsh and as ABI |
| `DeserializeSerialize` | the program reads back what it serialized, within its size limit |
| `EvmNeverReadBack` | the program never reads back what it encoded for an EVM chain |
| `LegacyDecoderReads` | the legacy decoder reads a payload as it was sent, or refuses it |
| `OnCallReadsFront` | `on_call` finds the fixed fields of every payload it accepts, and three texts |
| `OnCallReadsSent`, `OnCallReadsOnly` | it reads a payload as it was sent if, and only if, the texts are plain and nothing follows the recipient |

*Argument.* A field is read back if the runs before it fill exactly the bytes before its
offset. `ConcatShape` and `ConcatEnds` say where the runs of a concatenation end,
`SliceMiddle` that a slice between two such ends is the piece written there, and `Field`,
`NumberField` and `Segment` apply this to an encoder's fields one after the other: each
fact about the written prefix `p1`, `p2`, ... gives the offset of the next. That the ends of
runs exist, are unique and increase would be inductions over the length; the library's
induction theorems are out of reach, but not its minimum principle, so each is proved by
looking at the first position that fails (`LeastNatural`). The negative results,
`EvmNeverReadBack` and `OnCallReadsOnly`, compare sizes and last runs: whatever the decoder
takes for a length, what it then reads cannot be the message. `OnCallReadsOnly` asks that
the recipient's last run is not a cut one and not the last run of the metadata; otherwise
metadata that ends in the recipient's own bytes would be read as sent.

`MessagePathProofs.tla` proves every property of `messages`, for any messages, texts,
keys and moments and any bounds within the program's limits:

| Theorem | Statement |
|---|---|
| `PathAlwaysOK` | `Spec => []PathOK` |
| `CopyAlwaysKeepsMessage` | `Spec => []CopyKeepsMessage` |
| `OnlyBorshEverTravels` | `Spec => []OnlyBorshTravels` |
| `ChecksAlwaysPart` | `Spec => []ChecksPartAtTheChain` |
| `PayloadAlwaysArrives` | `Spec => []PayloadArrives` |
| `DecodersAlwaysAgree` | `Spec => []DecodersAgree` |
| `QuorumAlwaysReal` | `Spec => []QuorumIsReal` |
| `PipelineAlwaysAcceptsVerified` | `Spec => []PipelineAcceptsVerified` |
| `ForgeriesNeverCount` | `Spec => ForgeriesChangeNothing` |
| `LookupsAlwaysAgree` | `Spec => []GatewayLookupsAgree` |

*Argument.* `CopyKeepsMessage` speaks of what can be read now, which says nothing of what
a further conversion will read. `PathOK` instead names the message: some `m`, of the type
its library gives it, is what the copy was *written* from in its present form; `m` has the
essence of the original, and is the original as long as nothing crossed between the
libraries. A hop then replaces `m` by itself or by its conversion (`HopOK`, `HopsOK`), and
the codec theorems turn "written from" into "reads as". For `ChecksPartAtTheChain` the
invariant also keeps that a shared message in the program's format has its fixed name and
symbol, and no metadata: this bounds its size. `Delivered` says the same of a payload.
Quorums and gateways need another invariant, `ListsOK`: the lists hold what the functions
that add to them accept, within the bounds, and the stored gateways have different keys.
Removing keeps this (`RetainedIs`: what is retained are different entries of the list), so
that the first record of a key is its only one, and the lookups agree. The counted signers
are a subset of the listed ones (`CountedAreSigners`), each counted entry is another one's
if no signer hands in two, and a further entry adds one to the count or nothing
(`OneMoreEntry`); the arithmetic of the threshold is `ThresholdOf`.

*Assumptions.* `MessagePathAssumption`: the constants have their types, and there is
a first moment. `MessagePathBounds`: the list of validators stays within the
program's limit of 10; signatures and gateways are unbounded but for what the code
refuses. `MessageValidationAssumption`: the largest count is a number.
`RecipientsApart`: a recipient is not a piece cut out of a longer run, and
additional metadata does not end in what a recipient ends in; `PayloadArrives` is an
equivalence, and its one direction is false for metadata that repeats the recipient.

*Only model-checked*: `TimedOutSettles`, which is liveness. The properties of the runs that
expect a violation are false, and need no proof. *Out of reach of the prover*: liveness and
ENABLED, the library's induction theorems, RECURSIVE operators (none is used).

## 6. Not modelled

- Gas, fees, ERC-20 and ETH balances, `depositAndCall` with caller-made data,
  events and views without a decision.
- ABI encoding (one to one), keccak256 (as an injective function).
- `onAbort`, which only emits; the logger's audit trail, which only grows and is
  cleared.
- The enhanced contract's `handleTimeouts`, whose list of messages is always empty.
- Of the Solana program: Metaplex calls, which are placeholders; rent and compute
  limits; `validate_gateway_registration` and the switches of the gateway integration,
  which nothing calls or reads.
- The shared TypeScript libraries, which simulate a bridge in memory for tests, and
  the demonstrations.
- Role administration of OpenZeppelin's AccessControl: roles are constants.
- Messages that the two contracts did not send.
- `scripts/`, `test/`, generated IDL, Metaplex.

## 7. Plan

What is left, in this order:

1. Composition: the Solana program as a third place of the bridge, with
   `NFTLedger` as what the whole promises, and a run that shows two burns in one
   slot sharing an id.
2. The logger's audit trail, if anything comes to read it.
