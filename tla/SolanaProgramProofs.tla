------------------------- MODULE SolanaProgramProofs -------------------------
(***************************************************************************)
(* Theorems about SolanaProgram, for any tokens, messages, mints, wallets, *)
(* clocks and bounds.  The inductive invariant has a part for the replay   *)
(* accounts, one for the origin accounts and their mappings, and one for   *)
(* the mints; each action is shown to preserve the parts whose accounts it *)
(* writes, and frame lemmas do the rest.                                   *)
(***************************************************************************)
EXTENDS SolanaProgram, TLAPS

-----------------------------------------------------------------------------
(* The inductive invariant.                                                *)

\* An account marked by the Clock is never taken for one just created.
ReplayOK ==
  \A m \in Messages :
    /\ processedAt[m] # 0
    /\ deliveries[m] <= reopened[m] + One(Exists(processedAt[m]))

OriginsOK == MintsPerToken /\ MappingsAgree /\ OriginsReadable

SentFor(k) == {x \in outbox : x.origin_address = k}
Unheld(k) == \A u \in Users : balance[k][u] = 0
HeldBy(k, u) == \A v \in Users : balance[k][v] = IF v = u THEN 1 ELSE 0

\* One mint: before init nobody can hold or send it, and afterwards an NFT is
\* held by one wallet and was never sent, or it is gone.
MintOK(k) ==
  /\ mintAuthority[k] = NoAccount => Unheld(k) /\ SentFor(k) = {}
  /\ IsNft(k) =>
       \/ supply[k] = 0 /\ Unheld(k) /\ \A x, y \in SentFor(k) : x = y
       \/ supply[k] = 1 /\ SentFor(k) = {} /\ \E u \in Users : HeldBy(k, u)

MintsOK == MintsStandForOneToken /\ \A k \in Mints : MintOK(k)

IInv == TypeOK /\ ReplayOK /\ OriginsOK /\ MintsOK

-----------------------------------------------------------------------------
(* What the operators return.                                              *)

\* The Clock reads a positive number.
LEMMA ClockPositive == TypeOK => now \in Nat /\ now > 0
  BY ConstantsAssumption DEF TypeOK, now

\* A just created origin account costs five tenths: on_call never takes the
\* NFT for one that returns.
LEMMA NeverReturning ==
  ASSUME NEW b \in Mappings, NEW t \in TokenIds, TypeOK
  PROVE  ~IsReturningNft(b, ZeroOrigin, t)
<1>1. now \in Nat /\ b.created_at \in Int
  BY ClockPositive DEF Mappings
<1>2. ExistenceScore(b, ZeroOrigin, t) <= 5
  BY <1>1, SMTT(30) DEF ExistenceScore, ZeroOrigin, Penalty
<1>3. ExistenceScore(b, ZeroOrigin, t) \in Int
  BY <1>1, SMTT(30) DEF ExistenceScore, ZeroOrigin, Penalty
<1> QED
  BY <1>2, <1>3 DEF IsReturningNft

\* However a payload's strings are decoded, the URI is not empty.
LEMMA DecodedUriNotEmpty ==
  ASSUME NEW uri \in Uris
  PROVE  DecodedUri(uri) \in Nat /\ DecodedUri(uri) > 0
  BY ConstantsAssumption DEF DecodedUri, FallbackUri, PaddedUri

\* Records of the account types are accounts.
LEMMA RecordsExist ==
  /\ \A o \in Origins : Exists(o)
  /\ \A b \in Mappings : Exists(b)
  /\ \A s \in ProgramStates : Exists(s)
  /\ \A n \in Int : Exists(n)
  /\ Exists(StateKey) /\ \A u \in Users : Exists(u)
  BY NoAccountAssumption DEF Exists

-----------------------------------------------------------------------------
(* Frames: a part holds as long as what it reads is not written.           *)

LEMMA ReplayFrame ==
  ASSUME ReplayOK, UNCHANGED replayVars
  PROVE  ReplayOK'
  BY DEF ReplayOK, replayVars

LEMMA OriginsFrame ==
  ASSUME OriginsOK, UNCHANGED originVars
  PROVE  OriginsOK'
  BY DEF OriginsOK, MintsPerToken, MappingsAgree, OriginsReadable,
         GetNftOriginSucceeds, originVars

LEMMA MintsFrame ==
  ASSUME MintsOK, UNCHANGED <<tokenVars, originByToken, outbox>>
  PROVE  MintsOK'
  BY DEF MintsOK, MintsStandForOneToken, MintOK, IsNft, SentFor, Unheld,
         HeldBy, tokenVars

-----------------------------------------------------------------------------
LEMMA IInvInit == Init => IInv
<1> SUFFICES ASSUME Init PROVE IInv
  OBVIOUS
<1>1. TypeOK
  BY ConstantsAssumption DEF Init, TypeOK
<1>2. ReplayOK
  BY NoAccountAssumption DEF Init, ReplayOK, One, Exists
<1>3. OriginsOK
  BY DEF Init, OriginsOK, MintsPerToken, MappingsAgree, OriginsReadable,
         One, Exists
<1>4. MintsOK
  BY NoAccountAssumption
  DEF Init, MintsOK, MintsStandForOneToken, MintOK, IsNft, SentFor, Unheld,
      Exists
<1> QED
  BY <1>1, <1>2, <1>3, <1>4 DEF IInv
-----------------------------------------------------------------------------
(* Type correctness, action by action.                                     *)

\* What on_call writes has the types of its accounts.
LEMMA OnCallWrites ==
  ASSUME TypeOK, NEW p \in Payloads, NEW mint \in Mints,
         NEW previous \in PreviousInstructions, OnCall(p, mint, previous)
  PROVE  LET t == p.token_id
             uri == DecodedUri(p.uri)
             o == NftOrigin(PlaceholderBump, t, p.origin_chain_id, mint, uri)
             b == [token_id |-> t, mint_address |-> mint, created_at |-> now]
         IN  /\ t \in TokenIds /\ p.recipient \in Users
             /\ <<p.origin_chain_id, p.gateway_message_id>> \in Messages
             /\ o \in Origins /\ b \in Mappings
             /\ uri \in Nat /\ uri > 0
             /\ nftOrigins' = [nftOrigins EXCEPT ![t] = o]
             /\ originByToken' = [originByToken EXCEPT ![t] = b]
<1> DEFINE t == p.token_id
           old == IF originByToken[t] = NoAccount THEN ZeroByTokenId
                                                  ELSE originByToken[t]
<1>1. /\ t \in TokenIds /\ p.origin_chain_id \in ChainIds
      /\ p.gateway_message_id \in GatewayIds /\ p.uri \in Uris
      /\ p.recipient \in Users
  BY DEF Payloads
<1>2. old \in Mappings
  BY <1>1 DEF TypeOK, ZeroByTokenId, Mappings
<1>3. HandleNewNft(mint, p)
  BY <1>1, <1>2, NeverReturning DEF OnCall
<1>4. now \in Int
  BY ClockPositive
<1>5. DecodedUri(p.uri) \in Nat /\ DecodedUri(p.uri) > 0
  BY <1>1, DecodedUriNotEmpty
<1> QED
  BY <1>1, <1>3, <1>4, <1>5
  DEF HandleNewNft, NftOrigin, Origins, Mappings, Messages

LEMMA TypeStep == TypeOK /\ [Next]_vars => TypeOK'
<1> SUFFICES ASSUME TypeOK, [Next]_vars PROVE TypeOK'
  OBVIOUS
<1> USE DEF TypeOK
<1>1. CASE InitializeProgramState
  BY <1>1, ConstantsAssumption
  DEF InitializeProgramState, ProgramStates, originVars, replayVars, tokenVars
<1>2. CASE CloseProgramState
  BY <1>2 DEF CloseProgramState, originVars, replayVars, tokenVars
<1>3. ASSUME NEW u \in Users, NEW k \in Mints, MintCollection(u, k)
      PROVE  TypeOK'
  BY <1>3
  DEF MintCollection, MintOneTo, ProgramStates, originVars, replayVars
<1>4. ASSUME NEW u \in Users, NEW k \in Mints, VerifyCollection(u, k)
      PROVE  TypeOK'
  BY <1>4 DEF VerifyCollection, ProgramStates, originVars, replayVars, tokenVars
<1>5. ASSUME NEW u \in Users, NEW k \in Mints, NEW c \in ChainIds,
             NEW n \in Contents, BurnNftAndTransfer(u, k, c, n)
      PROVE  TypeOK'
  BY <1>5 DEF BurnNftAndTransfer, Burn, originVars, replayVars, stateVars
<1>6. ASSUME NEW u \in Users, NEW k \in Mints, SplBurn(k, u)
      PROVE  TypeOK'
  BY <1>6 DEF SplBurn, Burn, originVars, replayVars, stateVars
<1>7. ASSUME NEW u \in Users, NEW k \in Mints, NEW v \in Users,
             SplTransfer(k, u, v)
      PROVE  TypeOK'
  BY <1>7 DEF SplTransfer, originVars, replayVars, stateVars
<1>8. ASSUME NEW u \in Users, NEW k \in Mints, NEW v \in Users,
             SplMintTo(k, u, v)
      PROVE  TypeOK'
  BY <1>8 DEF SplMintTo, originVars, replayVars, stateVars
<1>9. ASSUME NEW t \in TokenIds, CloseNftOrigin(t)
      PROVE  TypeOK'
  BY <1>9 DEF CloseNftOrigin, replayVars, tokenVars
<1>10. ASSUME NEW t \in TokenIds, NEW c \in ChainIds, NEW k \in Mints,
              NEW uri \in Uris \ {-1}, CreateNftOrigin(t, c, k, uri)
       PROVE  TypeOK'
  <2>1. NftOrigin(CanonicalBump, t, c, k, uri) \in Origins
    <3>1. now \in Int /\ uri \in Int
      BY ClockPositive, ConstantsAssumption
    <3> QED
      BY <3>1 DEF NftOrigin, Origins
  <2>2. programState' \in ProgramStates
    <3>1. programState \in ProgramStates /\ programState.next_token_id < MaxU64
      BY <1>10 DEF CreateNftOrigin, HasNextTokenId
    <3>2. programState.next_token_id + 1 \in 0..MaxU64
      BY <3>1, ConstantsAssumption DEF ProgramStates
    <3>3. programState' = [programState EXCEPT
                            !.next_token_id = programState.next_token_id + 1]
      BY <1>10 DEF CreateNftOrigin
    <3> QED
      BY <3>1, <3>2, <3>3 DEF ProgramStates
  <2> QED
    BY <1>10, <2>1, <2>2 DEF CreateNftOrigin, replayVars, tokenVars
<1>11. ASSUME NEW m \in Messages, CloseReplayProtection(m)
       PROVE  TypeOK'
  BY <1>11 DEF CloseReplayProtection, originVars, tokenVars
<1>12. ASSUME NEW m \in Messages, NEW metadata \in Metadata,
              CheckAndMarkMessage(m, metadata)
       PROVE  TypeOK'
  BY <1>12, ClockPositive
  DEF CheckAndMarkMessage, MarkProcessed, originVars, tokenVars, stateVars
<1>13. ASSUME NEW p \in Payloads, NEW k \in Mints,
              NEW previous \in PreviousInstructions, OnCall(p, k, previous)
       PROVE  TypeOK'
  <2>1. now \in Int
    BY ClockPositive
  <2>2. nftOrigins' \in [TokenIds -> Origins \cup {NoAccount}]
        /\ originByToken' \in [TokenIds -> Mappings \cup {NoAccount}]
    <3> DEFINE t == p.token_id
               o == NftOrigin(PlaceholderBump, t, p.origin_chain_id, k,
                              DecodedUri(p.uri))
               b == [token_id |-> t, mint_address |-> k, created_at |-> now]
    <3>1. /\ o \in Origins /\ b \in Mappings
          /\ nftOrigins' = [nftOrigins EXCEPT ![t] = o]
          /\ originByToken' = [originByToken EXCEPT ![t] = b]
      BY <1>13, OnCallWrites
    <3> HIDE DEF t, o, b
    <3> QED
      BY <3>1
  <2>3. /\ p.recipient \in Users
        /\ <<p.origin_chain_id, p.gateway_message_id>> \in Messages
        /\ p.token_id \in TokenIds
    BY <1>13 DEF Payloads, Messages
  <2>4. /\ mintAuthority' \in [Mints -> Users \cup {StateKey, NoAccount}]
        /\ supply' \in [Mints -> Nat]
        /\ balance' \in [Mints -> [Users -> Nat]]
    BY <1>13, <2>3 DEF OnCall, MintOneTo
  <2>5. /\ processedAt' \in [Messages -> Int \cup {NoAccount}]
        /\ deliveries' \in [Messages -> Nat] /\ mintedFor' \in [TokenIds -> Nat]
    BY <1>13, <2>1, <2>3 DEF OnCall, MarkProcessed
  <2> QED
    BY <1>13, <2>2, <2>4, <2>5 DEF OnCall, stateVars
<1>14. CASE NextSlot
  BY <1>14 DEF NextSlot, originVars, replayVars, tokenVars, stateVars
<1>15. CASE UNCHANGED vars
  BY <1>15 DEF vars, originVars, replayVars, tokenVars, stateVars
<1> QED
  BY <1>1, <1>2, <1>3, <1>4, <1>5, <1>6, <1>7, <1>8, <1>9, <1>10, <1>11,
     <1>12, <1>13, <1>14, <1>15 DEF Next

-----------------------------------------------------------------------------
(* The replay accounts.                                                    *)

LEMMA ReplayStep == TypeOK /\ ReplayOK /\ [Next]_vars => ReplayOK'
<1> SUFFICES ASSUME TypeOK, ReplayOK, [Next]_vars PROVE ReplayOK'
  OBVIOUS
<1>0. /\ now \in Nat /\ now > 0 /\ Exists(now) /\ NoAccount # 0
      /\ processedAt \in [Messages -> Int \cup {NoAccount}]
      /\ deliveries \in [Messages -> Nat] /\ reopened \in [Messages -> Nat]
  BY ClockPositive, RecordsExist DEF TypeOK, Exists
<1>1. ASSUME NEW m \in Messages, CloseReplayProtection(m)
      PROVE  ReplayOK'
  BY <1>0, <1>1 DEF CloseReplayProtection, ReplayOK, One, Exists
<1>2. ASSUME NEW m \in Messages, NEW metadata \in Metadata,
             CheckAndMarkMessage(m, metadata)
      PROVE  ReplayOK'
  BY <1>0, <1>2
  DEF CheckAndMarkMessage, Unprocessed, MarkProcessed, ReplayOK, One, Exists
<1>3. ASSUME NEW p \in Payloads, NEW k \in Mints,
             NEW previous \in PreviousInstructions, OnCall(p, k, previous)
      PROVE  ReplayOK'
  <2> DEFINE m == <<p.origin_chain_id, p.gateway_message_id>>
  <2>1. m \in Messages
    BY DEF Payloads, Messages
  <2>2. /\ Unprocessed(m) /\ MarkProcessed(m)
        /\ deliveries' = [deliveries EXCEPT ![m] = @ + 1]
        /\ reopened' = reopened
    BY <1>3 DEF OnCall
  <2> HIDE DEF m
  <2>3. \A n \in Messages : processedAt'[n] # 0
    BY <1>0, <2>1, <2>2 DEF MarkProcessed, ReplayOK
  <2>4. deliveries'[m] <= reopened'[m] + One(Exists(processedAt[m]))'
    BY <1>0, <2>1, <2>2
    DEF Unprocessed, MarkProcessed, ReplayOK, One, Exists
  <2>5. \A n \in Messages \ {m} :
          deliveries'[n] <= reopened'[n] + One(Exists(processedAt[n]))'
    BY <1>0, <2>1, <2>2 DEF MarkProcessed, ReplayOK, One, Exists
  <2> QED
    BY <2>3, <2>4, <2>5 DEF ReplayOK
<1>4. CASE UNCHANGED replayVars
  BY <1>4, ReplayFrame
<1> QED
  BY <1>1, <1>2, <1>3, <1>4
  DEF Next, vars, InitializeProgramState, CloseProgramState, MintCollection,
      VerifyCollection, BurnNftAndTransfer, SplBurn, SplTransfer, SplMintTo,
      CloseNftOrigin, CreateNftOrigin, NextSlot

-----------------------------------------------------------------------------
(* The origin accounts and the mappings by token id.                       *)

\* Closing, creating and on_call keep the two accounts of a token in step.
LEMMA OriginsStep == TypeOK /\ OriginsOK /\ [Next]_vars => OriginsOK'
<1> SUFFICES ASSUME TypeOK, OriginsOK, [Next]_vars PROVE OriginsOK'
  OBVIOUS
<1>0. /\ nftOrigins \in [TokenIds -> Origins \cup {NoAccount}]
      /\ originByToken \in [TokenIds -> Mappings \cup {NoAccount}]
      /\ mintedFor \in [TokenIds -> Nat] /\ originCloses \in [TokenIds -> Nat]
      /\ now \in Nat /\ now > 0
  BY ClockPositive DEF TypeOK
<1>1. ASSUME NEW t \in TokenIds, CloseNftOrigin(t)
      PROVE  OriginsOK'
  <2>1. /\ Exists(nftOrigins[t])
        /\ nftOrigins' = [nftOrigins EXCEPT ![t] = NoAccount]
        /\ originCloses' = [originCloses EXCEPT ![t] = @ + 1]
        /\ originByToken' = originByToken /\ mintedFor' = mintedFor
    BY <1>1 DEF CloseNftOrigin, Exists
  <2>2. MintsPerToken'
    BY <1>0, <2>1 DEF OriginsOK, MintsPerToken, One, Exists
  <2>3. MappingsAgree'
    BY <1>0, <2>1 DEF OriginsOK, MappingsAgree, Exists
  <2>4. OriginsReadable'
    BY <1>0, <2>1 DEF OriginsOK, OriginsReadable, GetNftOriginSucceeds, Exists
  <2> QED
    BY <2>2, <2>3, <2>4 DEF OriginsOK
<1>2. ASSUME NEW t \in TokenIds, NEW c \in ChainIds, NEW k \in Mints,
             NEW uri \in Uris \ {-1}, CreateNftOrigin(t, c, k, uri)
      PROVE  OriginsOK'
  <2> DEFINE o == NftOrigin(CanonicalBump, t, c, k, uri)
  <2>1. /\ nftOrigins[t] = NoAccount /\ ValidOriginData(o)
        /\ nftOrigins' = [nftOrigins EXCEPT ![t] = o]
        /\ originCloses' = originCloses
        /\ originByToken' = originByToken /\ mintedFor' = mintedFor
    BY <1>2 DEF CreateNftOrigin, OriginFree
  <2>2. o.bump # PlaceholderBump /\ o.token_id = t
    BY DEF NftOrigin, CanonicalBump, PlaceholderBump
  <2> HIDE DEF o
  <2>3. MintsPerToken'
    BY <1>0, <2>1 DEF OriginsOK, MintsPerToken, One, Exists
  <2>4. MappingsAgree'
    BY <1>0, <2>1, <2>2 DEF OriginsOK, MappingsAgree, Exists
  <2>5. OriginsReadable'
    BY <1>0, <2>1, <2>2
    DEF OriginsOK, OriginsReadable, GetNftOriginSucceeds, Exists
  <2> QED
    BY <2>3, <2>4, <2>5 DEF OriginsOK
<1>3. ASSUME NEW p \in Payloads, NEW k \in Mints,
             NEW previous \in PreviousInstructions, OnCall(p, k, previous)
      PROVE  OriginsOK'
  <2> DEFINE t == p.token_id
             uri == DecodedUri(p.uri)
             o == NftOrigin(PlaceholderBump, t, p.origin_chain_id, k, uri)
             b == [token_id |-> t, mint_address |-> k, created_at |-> now]
  <2>1. /\ t \in TokenIds /\ o \in Origins /\ b \in Mappings
        /\ uri \in Nat /\ uri > 0
        /\ nftOrigins' = [nftOrigins EXCEPT ![t] = o]
        /\ originByToken' = [originByToken EXCEPT ![t] = b]
    BY <1>3, OnCallWrites
  <2>2. /\ nftOrigins[t] = NoAccount /\ originCloses' = originCloses
        /\ mintedFor' = [mintedFor EXCEPT ![t] = @ + 1]
    BY <1>3 DEF OnCall, OriginFree
  <2>3. Exists(o) /\ Exists(b)
    BY <2>1, RecordsExist
  <2>4. /\ o.token_id = t /\ o.mint_address = k /\ o.created_at = now
        /\ o.metadata_uri = uri
        /\ b.token_id = t /\ b.mint_address = k
    BY DEF NftOrigin
  <2> HIDE DEF t, uri, o, b
  <2>5. k # DefaultKey /\ (t # 0 => t > 0)
    <3>1. t \in 0..MaxU64 /\ MaxU64 \in Nat
      BY <2>1, ConstantsAssumption
    <3>2. k # DefaultKey
      BY ConstantsAssumption
    <3> QED
      BY <3>1, <3>2
  <2>6. MintsPerToken'
    BY <1>0, <2>1, <2>2, <2>3 DEF OriginsOK, MintsPerToken, One, Exists
  <2>7. MappingsAgree'
    BY <1>0, <2>1, <2>3, <2>4 DEF OriginsOK, MappingsAgree, Exists
  <2>8. OriginsReadable'
    BY <1>0, <2>1, <2>4, <2>5
    DEF OriginsOK, OriginsReadable, GetNftOriginSucceeds, ValidOriginData, Exists
  <2> QED
    BY <2>6, <2>7, <2>8 DEF OriginsOK
<1>4. CASE UNCHANGED originVars
  BY <1>4, OriginsFrame
<1> QED
  BY <1>1, <1>2, <1>3, <1>4
  DEF Next, vars, InitializeProgramState, CloseProgramState, MintCollection,
      VerifyCollection, BurnNftAndTransfer, SplBurn, SplTransfer, SplMintTo,
      CloseReplayProtection, CheckAndMarkMessage, NextSlot

-----------------------------------------------------------------------------
(* The mints.                                                              *)

\* A mint that is created now was mapped to no token, and becomes an NFT
\* held by its recipient or the mint of a collection.
LEMMA MintOneToStep ==
  ASSUME TypeOK, MintsOK, NEW k \in Mints, NEW u \in Users,
         NEW a \in Users \cup {StateKey},
         MintFree(k), MintOneTo(k, a, u), outbox' = outbox
  PROVE  \A j \in Mints : MintOK(j)'
<1>1. /\ mintAuthority \in [Mints -> Users \cup {StateKey, NoAccount}]
      /\ supply \in [Mints -> Nat] /\ balance \in [Mints -> [Users -> Nat]]
      /\ a # NoAccount
  BY NoAccountAssumption DEF TypeOK
<1>2. \A j \in Mints \ {k} :
        /\ mintAuthority'[j] = mintAuthority[j] /\ supply'[j] = supply[j]
        /\ balance'[j] = balance[j]
  BY <1>1 DEF MintOneTo
<1>3. \A j \in Mints \ {k} : MintOK(j)'
  BY <1>2 DEF MintsOK, MintOK, IsNft, SentFor, Unheld, HeldBy
<1>4. /\ mintAuthority'[k] = a /\ supply'[k] = 1
      /\ balance'[k] = [balance[k] EXCEPT ![u] = 1]
  BY <1>1 DEF MintOneTo
<1>5. MintOK(k)'
  <2>1. Unheld(k) /\ SentFor(k) = {}
    BY DEF MintFree, MintsOK, MintOK
  <2>2. HeldBy(k, u)'
    BY <1>1, <1>4, <2>1 DEF Unheld, HeldBy
  <2>3. SentFor(k)' = {}
    BY <2>1 DEF SentFor
  <2> QED
    BY <1>1, <1>4, <2>2, <2>3 DEF MintOK
<1> QED
  BY <1>3, <1>5

\* A token that is burned leaves the supply; when a message leaves with it, it
\* is the only one for its mint.
LEMMA BurnStep ==
  ASSUME TypeOK, MintsOK, NEW k \in Mints, NEW u \in Users, Burn(k, u),
         NEW sent, sent = {} \/ \E x : sent = {x} /\ x.origin_address = k,
         outbox' = outbox \cup sent
  PROVE  \A j \in Mints : MintOK(j)'
<1>1. /\ mintAuthority' = mintAuthority
      /\ supply \in [Mints -> Nat] /\ balance \in [Mints -> [Users -> Nat]]
      /\ supply' = [supply EXCEPT ![k] = @ - 1]
      /\ balance' = [balance EXCEPT ![k][u] = @ - 1]
      /\ balance[k][u] > 0
  BY DEF TypeOK, Burn
<1>2. \A j \in Mints \ {k} :
        supply'[j] = supply[j] /\ balance'[j] = balance[j]
        /\ SentFor(j)' = SentFor(j)
  BY <1>1 DEF SentFor
<1>3. \A j \in Mints \ {k} : MintOK(j)'
  BY <1>1, <1>2 DEF MintsOK, MintOK, IsNft, Unheld, HeldBy
<1>4. mintAuthority[k] # NoAccount
  BY <1>1 DEF MintsOK, MintOK, Unheld
<1>5. ASSUME IsNft(k)
      PROVE  supply'[k] = 0 /\ Unheld(k)' /\ \A x, y \in SentFor(k)' : x = y
  <2>1. PICK v \in Users : HeldBy(k, v)
    BY <1>1, <1>5 DEF MintsOK, MintOK, Unheld
  <2>2. v = u
    BY <1>1, <2>1 DEF HeldBy
  <2>3. supply[k] = 1 /\ SentFor(k) = {}
    BY <1>1, <1>5 DEF MintsOK, MintOK, Unheld
  <2>4. supply'[k] = 0
    BY <1>1, <2>3
  <2>5. Unheld(k)'
    <3>1. balance[k][u] = 1 /\ balance[k] \in [Users -> Nat]
      BY <1>1, <2>1, <2>2 DEF HeldBy
    <3>2. balance'[k] = [balance[k] EXCEPT ![u] = balance[k][u] - 1]
      BY <1>1
    <3> QED
      BY <2>1, <2>2, <3>1, <3>2 DEF HeldBy, Unheld
  <2>6. \A x, y \in SentFor(k)' : x = y
    BY <2>3 DEF SentFor
  <2> QED
    BY <2>4, <2>5, <2>6
<1>6. MintOK(k)'
  BY <1>1, <1>4, <1>5 DEF MintOK, IsNft
<1> QED
  BY <1>3, <1>6

\* What is left to show for MintsOK: no mapping changes, and an NFT stays one.
LEMMA MappingsFrame ==
  ASSUME MintsOK, UNCHANGED originByToken,
         \A k \in Mints : IsNft(k) => IsNft(k)'
  PROVE  MintsStandForOneToken'
  BY DEF MintsOK, MintsStandForOneToken

LEMMA MintsStep == TypeOK /\ MintsOK /\ [Next]_vars => MintsOK'
<1> SUFFICES ASSUME TypeOK, MintsOK, [Next]_vars PROVE MintsOK'
  OBVIOUS
<1>0. /\ mintAuthority \in [Mints -> Users \cup {StateKey, NoAccount}]
      /\ supply \in [Mints -> Nat] /\ balance \in [Mints -> [Users -> Nat]]
      /\ StateKey # NoAccount
  BY NoAccountAssumption DEF TypeOK
<1>1. ASSUME NEW u \in Users, NEW k \in Mints, MintCollection(u, k)
      PROVE  MintsOK'
  <2>1. /\ MintFree(k) /\ MintOneTo(k, u, u)
        /\ outbox' = outbox /\ originByToken' = originByToken
    BY <1>1 DEF MintCollection, originVars
  <2>2. \A j \in Mints : IsNft(j) => IsNft(j)'
    BY <1>0, <2>1 DEF MintFree, MintOneTo, IsNft
  <2> QED
    BY <2>1, <2>2, MintOneToStep, MappingsFrame DEF MintsOK
<1>2. ASSUME NEW u \in Users, NEW k \in Mints, NEW c \in ChainIds,
             NEW n \in Contents, BurnNftAndTransfer(u, k, c, n)
      PROVE  MintsOK'
  <2> DEFINE message == BurnMessage(k, c)
  <2>1. /\ Burn(k, u) /\ outbox' = outbox \cup {message}
        /\ originByToken' = originByToken
    BY <1>2 DEF BurnNftAndTransfer, originVars
  <2>2. message.origin_address = k
    BY DEF BurnMessage
  <2> HIDE DEF message
  <2>3. \A j \in Mints : MintOK(j)'
    BY <2>1, <2>2, BurnStep
  <2>4. \A j \in Mints : IsNft(j) => IsNft(j)'
    BY <2>1 DEF Burn, IsNft
  <2> QED
    BY <2>1, <2>3, <2>4, MappingsFrame DEF MintsOK
<1>3. ASSUME NEW u \in Users, NEW k \in Mints, SplBurn(k, u)
      PROVE  MintsOK'
  <2>1. /\ Burn(k, u) /\ outbox' = outbox \cup {}
        /\ originByToken' = originByToken
    BY <1>3 DEF SplBurn, originVars
  <2>2. \A j \in Mints : MintOK(j)'
    BY <2>1, BurnStep
  <2>3. \A j \in Mints : IsNft(j) => IsNft(j)'
    BY <2>1 DEF Burn, IsNft
  <2> QED
    BY <2>1, <2>2, <2>3, MappingsFrame DEF MintsOK
<1>4. ASSUME NEW u \in Users, NEW k \in Mints, NEW v \in Users,
             SplTransfer(k, u, v)
      PROVE  MintsOK'
  <2>1. /\ balance[k][u] > 0 /\ u # v
        /\ balance' = [balance EXCEPT ![k][u] = @ - 1, ![k][v] = @ + 1]
        /\ mintAuthority' = mintAuthority /\ supply' = supply
        /\ outbox' = outbox /\ originByToken' = originByToken
    BY <1>4 DEF SplTransfer, originVars
  <2>2. \A j \in Mints \ {k} : balance'[j] = balance[j] /\ supply'[j] = supply[j]
    BY <1>0, <2>1
  <2>3. ASSUME NEW j \in Mints \ {k}
        PROVE  MintOK(j)'
    <3>1. /\ mintAuthority' = mintAuthority /\ outbox' = outbox
          /\ supply'[j] = supply[j] /\ balance'[j] = balance[j]
      BY <2>1, <2>2
    <3>2. MintOK(j)
      BY DEF MintsOK
    <3>3. /\ SentFor(j)' = SentFor(j) /\ (Unheld(j) => Unheld(j)')
          /\ \A w \in Users : HeldBy(j, w) => HeldBy(j, w)'
      BY <3>1 DEF SentFor, Unheld, HeldBy
    <3> QED
      BY <3>1, <3>2, <3>3 DEF MintOK, IsNft
  <2>4. mintAuthority[k] # NoAccount
    BY <2>1 DEF MintsOK, MintOK, Unheld
  <2>5. ASSUME IsNft(k)
        PROVE  supply'[k] = 1 /\ SentFor(k)' = {} /\ HeldBy(k, v)'
    <3>1. PICK w \in Users : HeldBy(k, w)
      BY <2>1, <2>5 DEF MintsOK, MintOK, Unheld
    <3>2. w = u /\ balance[k][u] = 1 /\ balance[k][v] = 0
      BY <2>1, <3>1 DEF HeldBy
    <3>3. supply[k] = 1 /\ SentFor(k) = {}
      BY <2>1, <2>5 DEF MintsOK, MintOK, Unheld
    <3>4. /\ balance'[k][u] = 0 /\ balance'[k][v] = 1
          /\ \A j \in Users \ {u, v} : balance'[k][j] = balance[k][j]
      BY <1>0, <2>1, <3>2
    <3>5. HeldBy(k, v)'
      BY <3>1, <3>2, <3>4 DEF HeldBy
    <3> QED
      BY <2>1, <3>3, <3>5 DEF SentFor
  <2>6. MintOK(k)'
    BY <2>1, <2>4, <2>5 DEF MintOK, IsNft
  <2>7. \A j \in Mints : IsNft(j) => IsNft(j)'
    BY <2>1 DEF IsNft
  <2> QED
    BY <2>1, <2>3, <2>6, <2>7, MappingsFrame DEF MintsOK
<1>5. ASSUME NEW u \in Users, NEW k \in Mints, NEW v \in Users,
             SplMintTo(k, u, v)
      PROVE  MintsOK'
  <2>1. /\ mintAuthority[k] = u
        /\ mintAuthority' = mintAuthority
        /\ supply' = [supply EXCEPT ![k] = @ + 1]
        /\ balance' = [balance EXCEPT ![k][v] = @ + 1]
        /\ outbox' = outbox /\ originByToken' = originByToken
    BY <1>5 DEF SplMintTo, originVars
  <2>2. mintAuthority[k] # NoAccount /\ ~IsNft(k)
    BY <2>1, ConstantsAssumption, NoAccountAssumption DEF IsNft
  <2>3. \A j \in Mints \ {k} : balance'[j] = balance[j] /\ supply'[j] = supply[j]
    BY <1>0, <2>1
  <2>4. \A j \in Mints \ {k} : MintOK(j)'
    BY <2>1, <2>3 DEF MintsOK, MintOK, IsNft, SentFor, Unheld, HeldBy
  <2>5. MintOK(k)'
    BY <2>1, <2>2 DEF MintOK, IsNft
  <2>6. \A j \in Mints : IsNft(j) => IsNft(j)'
    BY <2>1 DEF IsNft
  <2> QED
    BY <2>1, <2>4, <2>5, <2>6, MappingsFrame DEF MintsOK
<1>6. ASSUME NEW p \in Payloads, NEW k \in Mints,
             NEW previous \in PreviousInstructions, OnCall(p, k, previous)
      PROVE  MintsOK'
  <2> DEFINE t == p.token_id
             b == [token_id |-> t, mint_address |-> k, created_at |-> now]
  <2>1. /\ t \in TokenIds /\ p.recipient \in Users
        /\ originByToken' = [originByToken EXCEPT ![t] = b]
    BY <1>6, OnCallWrites
  <2>2. /\ MintFree(k) /\ MintOneTo(k, StateKey, p.recipient)
        /\ outbox' = outbox
    BY <1>6 DEF OnCall
  <2>3. \A j \in Mints : MintOK(j)'
    BY <2>1, <2>2, MintOneToStep
  <2>4. b.mint_address = k
    OBVIOUS
  <2> HIDE DEF t, b
  <2>5. ~IsNft(k) /\ IsNft(k)' /\ \A j \in Mints : IsNft(j) => IsNft(j)'
    BY <1>0, <2>2 DEF MintFree, MintOneTo, IsNft
  <2>6. \A s \in TokenIds : Exists(originByToken[s]) =>
          originByToken[s].mint_address # k
    BY <2>5 DEF MintsOK, MintsStandForOneToken
  <2>7. /\ originByToken'[t] = b
        /\ \A s \in TokenIds \ {t} : originByToken'[s] = originByToken[s]
    BY <2>1 DEF TypeOK
  <2>8. MintsStandForOneToken'
    BY <2>1, <2>4, <2>5, <2>6, <2>7
    DEF MintsOK, MintsStandForOneToken, Exists
  <2> QED
    BY <2>3, <2>8 DEF MintsOK
<1>7. CASE UNCHANGED <<tokenVars, originByToken, outbox>>
  BY <1>7, MintsFrame
<1> QED
  BY <1>1, <1>2, <1>3, <1>4, <1>5, <1>6, <1>7
  DEF Next, vars, originVars, InitializeProgramState, CloseProgramState,
      VerifyCollection, CloseNftOrigin, CreateNftOrigin, CloseReplayProtection,
      CheckAndMarkMessage, NextSlot

-----------------------------------------------------------------------------
LEMMA IInvStep == IInv /\ [Next]_vars => IInv'
  BY TypeStep, ReplayStep, OriginsStep, MintsStep DEF IInv

\* The inductive invariant holds in every reachable state.
THEOREM Invariance == Spec => []IInv
  BY IInvInit, IInvStep, PTL DEF Spec

-----------------------------------------------------------------------------
(* What follows from it.                                                   *)

\* Type correctness; it includes that the token id counter stays within u64.
THEOREM TypeCorrect == Spec => []TypeOK
<1>1. IInv => TypeOK
  BY DEF IInv
<1> QED
  BY <1>1, Invariance, PTL

\* A gateway message mints at most one NFT for each life of its replay
\* account, in whatever order it is delivered, marked and closed.
THEOREM ReplayIsBounded == Spec => []DeliveriesBounded
<1>1. IInv => DeliveriesBounded
  BY DEF IInv, ReplayOK, DeliveriesBounded
<1> QED
  BY <1>1, Invariance, PTL

\* A token id has at most one NFT for each life of its origin account.
THEOREM TokensAreBounded == Spec => []MintsPerToken
<1>1. IInv => MintsPerToken
  BY DEF IInv, OriginsOK
<1> QED
  BY <1>1, Invariance, PTL

\* The origin account and the mapping on_call wrote name the same mint.
THEOREM OriginsAgree == Spec => []MappingsAgree
<1>1. IInv => MappingsAgree
  BY DEF IInv, OriginsOK
<1> QED
  BY <1>1, Invariance, PTL

\* Whatever texts a message had, get_nft_origin can read every origin account
\* but that of token zero.
THEOREM OriginsCanBeRead == Spec => []OriginsReadable
<1>1. IInv => OriginsReadable
  BY DEF IInv, OriginsOK
<1> QED
  BY <1>1, Invariance, PTL

\* No two token ids share a mint, and no wallet controls a mapped mint.
THEOREM MintsAreDistinct == Spec => []MintsStandForOneToken
<1>1. IInv => MintsStandForOneToken
  BY DEF IInv, MintsOK
<1> QED
  BY <1>1, Invariance, PTL

\* An NFT leaves once, and whoever transfers, burns or mints tokens before or
\* after, no wallet holds it then.
THEOREM SentIsGone == Spec => []SentNftsAreGone
<1>1. IInv => SentNftsAreGone
  <2> SUFFICES ASSUME IInv, NEW k \in Mints, IsNft(k), SentFor(k) # {}
               PROVE  /\ supply[k] = 0 /\ Unheld(k)
                      /\ \A x, y \in SentFor(k) : x = y
    BY DEF SentNftsAreGone, SentFor, Unheld
  <2> QED
    BY DEF IInv, MintsOK, MintOK
<1> QED
  BY <1>1, Invariance, PTL

\* No step adds to the supply of an NFT or changes its authority.
LEMMA SupplyStep ==
  ASSUME IInv, [Next]_vars, NEW k \in Mints, IsNft(k)
  PROVE  supply'[k] <= supply[k] /\ mintAuthority'[k] = mintAuthority[k]
<1>0. /\ mintAuthority \in [Mints -> Users \cup {StateKey, NoAccount}]
      /\ supply \in [Mints -> Nat] /\ StateKey # NoAccount
      /\ mintAuthority[k] = StateKey
  BY NoAccountAssumption DEF IInv, TypeOK, IsNft
<1>1. ASSUME NEW j \in Mints, NEW a, NEW u, MintFree(j), MintOneTo(j, a, u)
      PROVE  supply'[k] <= supply[k] /\ mintAuthority'[k] = mintAuthority[k]
  <2>1. j # k
    BY <1>0, <1>1 DEF MintFree
  <2> QED
    BY <1>0, <1>1, <2>1 DEF MintOneTo
<1>2. ASSUME NEW j \in Mints, NEW u, Burn(j, u)
      PROVE  supply'[k] <= supply[k] /\ mintAuthority'[k] = mintAuthority[k]
  BY <1>0, <1>2 DEF Burn
<1>3. ASSUME NEW j \in Mints, NEW a \in Users, NEW u, SplMintTo(j, a, u)
      PROVE  supply'[k] <= supply[k] /\ mintAuthority'[k] = mintAuthority[k]
  <2>1. j # k
    BY <1>0, <1>3, ConstantsAssumption DEF SplMintTo
  <2> QED
    BY <1>0, <1>3, <2>1 DEF SplMintTo
<1>4. CASE UNCHANGED <<supply, mintAuthority>>
  BY <1>0, <1>4
<1> QED
  BY <1>1, <1>2, <1>3, <1>4
  DEF Next, vars, tokenVars, InitializeProgramState, CloseProgramState,
      MintCollection, VerifyCollection, BurnNftAndTransfer, SplBurn,
      SplTransfer, CloseNftOrigin, CreateNftOrigin, CloseReplayProtection,
      CheckAndMarkMessage, OnCall, NextSlot

\* The supply of an NFT never grows: no instruction of the program and no
\* wallet mints a second token of it, or one after it was burned.
THEOREM SupplyNeverGrows == Spec => NftSupplyNeverGrows
<1>1. IInv /\ [Next]_vars =>
        [\A k \in Mints :
           IsNft(k) => /\ supply'[k] <= supply[k]
                       /\ mintAuthority'[k] = mintAuthority[k]]_vars
  BY SupplyStep
<1> QED
  BY <1>1, Invariance, PTL DEF Spec, NftSupplyNeverGrows
=============================================================================
