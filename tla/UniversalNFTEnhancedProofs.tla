--------------------- MODULE UniversalNFTEnhancedProofs ---------------------
(***************************************************************************)
(* Theorems about UniversalNFTEnhanced: its types, how many copies of an   *)
(* NFT there can be, their origins, what a mark and a backup are worth,    *)
(* and that the manager's records, but for those strangers register, are   *)
(* those of the messages sent.                                             *)
(***************************************************************************)
EXTENDS UniversalNFTEnhanced, FiniteSetTheorems, TLAPS

----------------------------------------------------------------------------
(* The inductive invariant *)

Shaped(s) ==
    /\ s = [tokens |-> s.tokens, tokenIdCounter |-> s.tokenIdCounter,
            processedMessages |-> s.processedMessages,
            userNonces |-> s.userNonces, paused |-> s.paused]
    /\ s.tokenIdCounter \in Nat
    /\ DOMAIN s.tokens \subseteq 0 .. s.tokenIdCounter - 1
    /\ s.userNonces \in [Users -> Nat]

\* A copy of NFT n may name o as its origin.
Origin(n, o) ==
    /\ n \in Nfts /\ mintedOn[n] \in EvmChains
    /\ \/ o = mintedOn[n]
       \/ o = NoChain /\ \E i \in DOMAIN recoveries : recoveries[i].nft = n

Storages ==
    /\ contracts = [c \in EvmChains |-> contracts[c]]
    /\ \A c \in EvmChains : Shaped(contracts[c])
    /\ clock \in [EvmChains -> Nat]
    /\ mintedOn \in [Nfts -> EvmChains \cup {NoChain}]
    /\ recoveries \in Seq([nft : Nfts, lost : BOOLEAN])
    /\ IsFiniteSet(calls)

Origins ==
    /\ \A c \in EvmChains : \A t \in DOMAIN contracts[c].tokens :
          Origin(contracts[c].tokens[t].metadataUri,
                 contracts[c].tokens[t].originChain)
    /\ \A call \in calls \cup reverted :
          Origin(call.message.metadataUri, call.message.originChain)

\* A marked token is burned, and a message still tells what it was.
Marks ==
    /\ tokenInTransfer \subseteq 0 .. MaxTokens - 1
    /\ \A t \in tokenInTransfer :
          /\ t < contracts[ZetaChain].tokenIdCounter
          /\ t \notin DOMAIN contracts[ZetaChain].tokens
          /\ \E call \in calls \cup reverted :
                call.from = ZetaChain /\ call.message.tokenId = t

\* A backup is of the token its id names; marked tokens have one each.
Backups ==
    /\ burnedTokenBackup \in [MsgIds -> 0 .. MaxTokens - 1]
    /\ \A m \in MsgIds : burnedTokenBackup[m] # 0 =>
          /\ burnedTokenBackup[m] = m[2]
          /\ m[2] \in tokenInTransfer
          /\ \A k \in MsgIds : burnedTokenBackup[k] = m[2] => k = m
    /\ \A t \in tokenInTransfer : t # 0 =>
          \E m \in MsgIds : burnedTokenBackup[m] = t

Sent(m) ==
    \E call \in calls \cup reverted :
        /\ call.from = ZetaChain
        /\ call.message.messageId = m
        /\ pendingMessages[m].originalSender = m[1]
        /\ pendingMessages[m].createdAt = call.message.timestamp

\* A record that no stranger registered is of a message sent, and the nonce
\* of its id was taken.
Records ==
    /\ pendingMessages \in [MsgIds -> Manager!PendingMessage]
    /\ \A m \in Manager!Registered \ foreign :
          /\ Sent(m)
          /\ m[4] < contracts[ZetaChain].userNonces[m[1]]

Keepers ==
    /\ monitoringEnabled \in BOOLEAN
    /\ autoRetryInterval \in Nat
    /\ lastAutoRetryRun \in Nat

EInv ==
    /\ Storages /\ Origins /\ CopiesBounded
    /\ Marks /\ Backups /\ Records /\ Keepers

----------------------------------------------------------------------------
(* What the operators of NFTContract do to a storage *)

LEMMA WithTokenShaped ==
    ASSUME NEW s, Shaped(s), NEW token
    PROVE  LET w == withToken(s, token)
           IN  /\ Shaped(w)
               /\ w.tokenIdCounter = s.tokenIdCounter + 1
               /\ DOMAIN w.tokens = DOMAIN s.tokens \cup {s.tokenIdCounter}
               /\ w.tokens[s.tokenIdCounter] = token
               /\ \A t \in DOMAIN s.tokens : w.tokens[t] = s.tokens[t]
               /\ w.processedMessages = s.processedMessages
               /\ w.userNonces = s.userNonces
  <1> DEFINE w == withToken(s, token)
             ctr == s.tokenIdCounter
             tok == [t \in DOMAIN s.tokens \cup {ctr} |->
                        IF t = ctr THEN token ELSE s.tokens[t]]
  <1>1. w = [tokens |-> tok, tokenIdCounter |-> ctr + 1,
             processedMessages |-> s.processedMessages,
             userNonces |-> s.userNonces, paused |-> s.paused]
    <2>1. w = [s EXCEPT !.tokenIdCounter = ctr + 1, !.tokens = tok]
      BY DEF withToken
    <2> HIDE DEF tok, w
    <2> QED BY <2>1 DEF Shaped
  <1>2. ctr \in Nat /\ DOMAIN s.tokens \subseteq 0 .. ctr - 1
    BY DEF Shaped
  <1>3. /\ DOMAIN tok = DOMAIN s.tokens \cup {ctr}
        /\ tok[ctr] = token
        /\ \A t \in DOMAIN s.tokens : tok[t] = s.tokens[t]
    BY <1>2
  <1>4. DOMAIN tok \subseteq 0 .. (ctr + 1) - 1 /\ ctr + 1 \in Nat
    BY <1>2, <1>3
  <1> HIDE DEF tok
  <1> QED BY <1>1, <1>3, <1>4 DEF Shaped

LEMMA WithoutTokenShaped ==
    ASSUME NEW s, Shaped(s), NEW tokenId
    PROVE  LET w == withoutToken(s, tokenId)
           IN  /\ Shaped(w)
               /\ w.tokenIdCounter = s.tokenIdCounter
               /\ DOMAIN w.tokens = DOMAIN s.tokens \ {tokenId}
               /\ \A t \in DOMAIN w.tokens : w.tokens[t] = s.tokens[t]
               /\ w.processedMessages = s.processedMessages
               /\ w.userNonces = s.userNonces
  <1> DEFINE w == withoutToken(s, tokenId)
             tok == [t \in DOMAIN s.tokens \ {tokenId} |-> s.tokens[t]]
  <1>1. w = [tokens |-> tok, tokenIdCounter |-> s.tokenIdCounter,
             processedMessages |-> s.processedMessages,
             userNonces |-> s.userNonces, paused |-> s.paused]
    BY DEF withoutToken, Shaped
  <1>2. /\ DOMAIN tok = DOMAIN s.tokens \ {tokenId}
        /\ \A t \in DOMAIN tok : tok[t] = s.tokens[t]
    OBVIOUS
  <1> HIDE DEF tok
  <1> QED BY <1>1, <1>2 DEF Shaped

LEMMA AfterTransferShaped ==
    ASSUME NEW s, Shaped(s), NEW tokenId \in DOMAIN s.tokens,
           s.tokens[tokenId].owner \in Users
    PROVE  LET w == afterTransfer(s, tokenId)
               u == s.tokens[tokenId].owner
           IN  /\ Shaped(w)
               /\ w.tokenIdCounter = s.tokenIdCounter
               /\ DOMAIN w.tokens = DOMAIN s.tokens \ {tokenId}
               /\ \A t \in DOMAIN w.tokens : w.tokens[t] = s.tokens[t]
               /\ w.processedMessages = s.processedMessages
               /\ w.userNonces[u] = s.userNonces[u] + 1
               /\ \A v \in Users : w.userNonces[v] >= s.userNonces[v]
  <1> DEFINE u == s.tokens[tokenId].owner
             p == [s EXCEPT !.userNonces[u] = @ + 1]
  <1>1. p = [tokens |-> s.tokens, tokenIdCounter |-> s.tokenIdCounter,
             processedMessages |-> s.processedMessages,
             userNonces |-> [s.userNonces EXCEPT ![u] = @ + 1],
             paused |-> s.paused]
    BY DEF Shaped
  <1>2. /\ [s.userNonces EXCEPT ![u] = @ + 1] \in [Users -> Nat]
        /\ [s.userNonces EXCEPT ![u] = @ + 1][u] = s.userNonces[u] + 1
        /\ \A v \in Users : [s.userNonces EXCEPT ![u] = @ + 1][v] >= s.userNonces[v]
    BY DEF Shaped
  <1>3. Shaped(p)
    BY <1>1, <1>2 DEF Shaped
  <1>4. afterTransfer(s, tokenId) = withoutToken(p, tokenId)
    BY DEF afterTransfer
  <1>5. /\ p.tokens = s.tokens /\ p.tokenIdCounter = s.tokenIdCounter
        /\ p.processedMessages = s.processedMessages
        /\ p.userNonces = [s.userNonces EXCEPT ![u] = @ + 1]
    BY <1>1
  <1> HIDE DEF p
  <1> DEFINE w == withoutToken(p, tokenId)
  <1>6. /\ Shaped(w)
        /\ w.tokenIdCounter = p.tokenIdCounter
        /\ DOMAIN w.tokens = DOMAIN p.tokens \ {tokenId}
        /\ \A t \in DOMAIN w.tokens : w.tokens[t] = p.tokens[t]
        /\ w.processedMessages = p.processedMessages
        /\ w.userNonces = p.userNonces
    BY <1>3, WithoutTokenShaped
  <1> QED BY <1>2, <1>4, <1>5, <1>6

LEMMA AfterCallShaped ==
    ASSUME NEW s, Shaped(s), NEW message
    PROVE  LET w == afterCall(s, message)
           IN  /\ Shaped(w)
               /\ w.tokenIdCounter = s.tokenIdCounter + 1
               /\ DOMAIN w.tokens = DOMAIN s.tokens \cup {s.tokenIdCounter}
               /\ w.tokens[s.tokenIdCounter] = received(message)
               /\ \A t \in DOMAIN s.tokens : w.tokens[t] = s.tokens[t]
               /\ w.processedMessages =
                     s.processedMessages \cup {message.messageId}
               /\ w.userNonces = s.userNonces
  <1> DEFINE p == [s EXCEPT !.processedMessages = @ \cup {message.messageId}]
  <1>1. p = [tokens |-> s.tokens, tokenIdCounter |-> s.tokenIdCounter,
             processedMessages |-> s.processedMessages \cup {message.messageId},
             userNonces |-> s.userNonces, paused |-> s.paused]
    BY DEF Shaped
  <1>2. Shaped(p)
    BY <1>1 DEF Shaped
  <1>3. afterCall(s, message) = withToken(p, received(message))
    BY DEF afterCall
  <1>4. /\ p.tokens = s.tokens /\ p.tokenIdCounter = s.tokenIdCounter
        /\ p.processedMessages = s.processedMessages \cup {message.messageId}
        /\ p.userNonces = s.userNonces
    BY <1>1
  <1> HIDE DEF p
  <1> DEFINE w == withToken(p, received(message))
  <1>5. /\ Shaped(w)
        /\ w.tokenIdCounter = p.tokenIdCounter + 1
        /\ DOMAIN w.tokens = DOMAIN p.tokens \cup {p.tokenIdCounter}
        /\ w.tokens[p.tokenIdCounter] = received(message)
        /\ \A t \in DOMAIN p.tokens : w.tokens[t] = p.tokens[t]
        /\ w.processedMessages = p.processedMessages
        /\ w.userNonces = p.userNonces
    BY <1>2, WithTokenShaped
  <1> QED BY <1>3, <1>4, <1>5

\* A token put back under its old id.
RestoredTo(s, tokenId, token) ==
    [s EXCEPT !.tokens = [t \in DOMAIN @ \cup {tokenId} |->
                              IF t = tokenId THEN token ELSE @[t]]]

LEMMA RestoredShaped ==
    ASSUME NEW s, Shaped(s), NEW token, NEW tokenId \in 0 .. s.tokenIdCounter - 1,
           tokenId \notin DOMAIN s.tokens
    PROVE  LET w == RestoredTo(s, tokenId, token)
           IN  /\ Shaped(w)
               /\ w.tokenIdCounter = s.tokenIdCounter
               /\ DOMAIN w.tokens = DOMAIN s.tokens \cup {tokenId}
               /\ w.tokens[tokenId] = token
               /\ \A t \in DOMAIN s.tokens : w.tokens[t] = s.tokens[t]
               /\ w.processedMessages = s.processedMessages
               /\ w.userNonces = s.userNonces
  <1> DEFINE w == RestoredTo(s, tokenId, token)
             tok == [t \in DOMAIN s.tokens \cup {tokenId} |->
                        IF t = tokenId THEN token ELSE s.tokens[t]]
  <1>1. w = [tokens |-> tok, tokenIdCounter |-> s.tokenIdCounter,
             processedMessages |-> s.processedMessages,
             userNonces |-> s.userNonces, paused |-> s.paused]
    <2>1. w = [s EXCEPT !.tokens = tok]
      BY DEF RestoredTo
    <2> HIDE DEF tok, w
    <2> QED BY <2>1 DEF Shaped
  <1>2. /\ DOMAIN tok = DOMAIN s.tokens \cup {tokenId}
        /\ tok[tokenId] = token
        /\ \A t \in DOMAIN s.tokens : tok[t] = s.tokens[t]
    OBVIOUS
  <1>3. DOMAIN tok \subseteq 0 .. s.tokenIdCounter - 1
    BY <1>2 DEF Shaped
  <1> HIDE DEF tok
  <1> QED BY <1>1, <1>2, <1>3 DEF Shaped

----------------------------------------------------------------------------
(* Counting the copies of one NFT: L and F are its tokens and its messages   *)
(* in flight before a step, M and G after it.                                *)

Moved(L, F, M, G) ==
    \/ M \subseteq L /\ G \subseteq F
    \/ \E x \in L : \E y : M \subseteq L \ {x} /\ G \subseteq F \cup {y}
    \/ \E x \in F : \E y : G \subseteq F \ {x} /\ M \subseteq L \cup {y}

Fresh(L, F, M, G) == L = {} /\ F = {} /\ G = {} /\ \E y : M \subseteq {y}

LEMMA CardAdd ==
    ASSUME NEW S, IsFiniteSet(S), NEW y, NEW T, T \subseteq S \cup {y}
    PROVE  /\ IsFiniteSet(T) /\ Cardinality(T) \in Nat
           /\ Cardinality(S) \in Nat
           /\ Cardinality(T) <= Cardinality(S) + 1
  <1>1. IsFiniteSet(S \cup {y}) /\ Cardinality(S) \in Nat
    BY FS_AddElement, FS_CardinalityType
  <1>2. Cardinality(S \cup {y}) \in {Cardinality(S), Cardinality(S) + 1}
    BY FS_AddElement
  <1>3. IsFiniteSet(T) /\ Cardinality(T) <= Cardinality(S \cup {y})
    BY <1>1, FS_Subset
  <1>4. Cardinality(T) \in Nat
    BY <1>3, FS_CardinalityType
  <1> QED BY <1>1, <1>2, <1>3, <1>4

LEMMA CardRemove ==
    ASSUME NEW S, IsFiniteSet(S), NEW x \in S, NEW T, T \subseteq S \ {x}
    PROVE  /\ IsFiniteSet(T) /\ Cardinality(T) \in Nat
           /\ Cardinality(S) \in Nat
           /\ Cardinality(T) + 1 <= Cardinality(S)
  <1>1. /\ IsFiniteSet(S \ {x}) /\ Cardinality(S) \in Nat
        /\ Cardinality(S \ {x}) = Cardinality(S) - 1
    BY FS_RemoveElement, FS_CardinalityType
  <1>2. IsFiniteSet(T) /\ Cardinality(T) <= Cardinality(S \ {x})
    BY <1>1, FS_Subset
  <1>3. Cardinality(T) \in Nat
    BY <1>2, FS_CardinalityType
  <1> QED BY <1>1, <1>2, <1>3

LEMMA CardLess ==
    ASSUME NEW S, IsFiniteSet(S), NEW T, T \subseteq S
    PROVE  /\ IsFiniteSet(T) /\ Cardinality(T) \in Nat
           /\ Cardinality(S) \in Nat
           /\ Cardinality(T) <= Cardinality(S)
  BY FS_Subset, FS_CardinalityType

LEMMA MovedCount ==
    ASSUME NEW L, NEW F, NEW M, NEW G, IsFiniteSet(L), IsFiniteSet(F),
           Moved(L, F, M, G)
    PROVE  Cardinality(M) + Cardinality(G) <= Cardinality(L) + Cardinality(F)
  <1>1. CASE M \subseteq L /\ G \subseteq F
    <2>1. /\ Cardinality(M) \in Nat /\ Cardinality(L) \in Nat
          /\ Cardinality(M) <= Cardinality(L)
      BY <1>1, CardLess
    <2>2. /\ Cardinality(G) \in Nat /\ Cardinality(F) \in Nat
          /\ Cardinality(G) <= Cardinality(F)
      BY <1>1, CardLess
    <2> QED BY <2>1, <2>2
  <1>2. ASSUME NEW x \in L, NEW y, M \subseteq L \ {x}, G \subseteq F \cup {y}
        PROVE  Cardinality(M) + Cardinality(G) <= Cardinality(L) + Cardinality(F)
    <2>1. /\ Cardinality(M) \in Nat /\ Cardinality(L) \in Nat
          /\ Cardinality(M) + 1 <= Cardinality(L)
      BY <1>2, CardRemove
    <2>2. /\ Cardinality(G) \in Nat /\ Cardinality(F) \in Nat
          /\ Cardinality(G) <= Cardinality(F) + 1
      BY <1>2, CardAdd
    <2> QED BY <2>1, <2>2
  <1>3. ASSUME NEW x \in F, NEW y, G \subseteq F \ {x}, M \subseteq L \cup {y}
        PROVE  Cardinality(M) + Cardinality(G) <= Cardinality(L) + Cardinality(F)
    <2>1. /\ Cardinality(G) \in Nat /\ Cardinality(F) \in Nat
          /\ Cardinality(G) + 1 <= Cardinality(F)
      BY <1>3, CardRemove
    <2>2. /\ Cardinality(M) \in Nat /\ Cardinality(L) \in Nat
          /\ Cardinality(M) <= Cardinality(L) + 1
      BY <1>3, CardAdd
    <2> QED BY <2>1, <2>2
  <1> QED BY <1>1, <1>2, <1>3 DEF Moved

LEMMA FreshCount ==
    ASSUME NEW L, NEW F, NEW M, NEW G, Fresh(L, F, M, G)
    PROVE  Cardinality(M) + Cardinality(G) <= 1
  <1>1. PICK y : M \subseteq {} \cup {y}
    BY DEF Fresh
  <1>2. Cardinality(M) \in Nat /\ Cardinality(M) <= Cardinality({}) + 1
    BY <1>1, CardAdd, FS_EmptySet
  <1>3. Cardinality({}) = 0 /\ G = {}
    BY FS_EmptySet DEF Fresh
  <1> QED BY <1>2, <1>3

LEMMA CopiesFinite ==
    ASSUME Storages, NEW n
    PROVE  /\ IsFiniteSet(LiveTokens(n)) /\ IsFiniteSet(InFlight(n))
           /\ \A S : /\ IsFiniteSet(RecoveriesOf(n, S))
                     /\ Cardinality(RecoveriesOf(n, S)) \in Nat
  <1>1. IsFiniteSet(EvmChains)
    <2>1. IsFiniteSet({ZetaChain}) /\ IsFiniteSet({ZetaChain} \cup {Base})
      BY FS_Singleton, FS_AddElement
    <2> QED BY <2>1 DEF EvmChains
  <1>2. IsFiniteSet(0 .. MaxTokens - 1)
    BY FS_Interval, UniversalNFTBridgeAssumption
  <1>3. IsFiniteSet(EvmChains \X (0 .. MaxTokens - 1))
    BY <1>1, <1>2, FS_Product
  <1>4. IsFiniteSet(LiveTokens(n))
    <2>1. LiveTokens(n) \subseteq EvmChains \X (0 .. MaxTokens - 1)
      BY DEF LiveTokens
    <2> QED BY <1>3, <2>1, FS_Subset
  <1>5. IsFiniteSet(InFlight(n))
    <2>1. InFlight(n) \subseteq calls
      BY DEF InFlight
    <2> QED BY <2>1, FS_Subset DEF Storages
  <1>6. ASSUME NEW S
        PROVE  /\ IsFiniteSet(RecoveriesOf(n, S))
               /\ Cardinality(RecoveriesOf(n, S)) \in Nat
    <2>1. Len(recoveries) \in Nat /\ DOMAIN recoveries = 1 .. Len(recoveries)
      BY DEF Storages
    <2>2. IsFiniteSet(1 .. Len(recoveries))
      BY <2>1, FS_Interval
    <2>3. RecoveriesOf(n, S) \subseteq 1 .. Len(recoveries)
      BY <2>1 DEF RecoveriesOf
    <2> QED BY <2>2, <2>3, FS_Subset, FS_CardinalityType
  <1> QED BY <1>4, <1>5, <1>6

----------------------------------------------------------------------------
(* The steps of the bridge, as far as marks, records and copies can tell *)

ZetaGrew ==
    LET s == contracts[ZetaChain]
        w == contracts'[ZetaChain]
    IN  /\ w.tokenIdCounter >= s.tokenIdCounter
        /\ DOMAIN w.tokens \subseteq DOMAIN s.tokens \cup {s.tokenIdCounter}
        /\ \A u \in Users : w.userNonces[u] >= s.userNonces[u]

SentKept == calls \cup reverted \subseteq calls' \cup reverted'

CopiesMoved ==
    \A n \in Nfts :
        \/ Moved(LiveTokens(n), InFlight(n), LiveTokens(n)', InFlight(n)')
        \/ Fresh(LiveTokens(n), InFlight(n), LiveTokens(n)', InFlight(n)')

Moves ==
    Storages' /\ Origins' /\ ZetaGrew /\ SentKept /\ CopiesMoved

LEMMA Updated ==
    ASSUME Storages, NEW c \in EvmChains, NEW w, Shaped(w), Update(c, w)
    PROVE  /\ contracts' = [d \in EvmChains |-> contracts'[d]]
           /\ contracts'[c] = w
           /\ \A d \in EvmChains \ {c} : contracts'[d] = contracts[d]
           /\ \A d \in EvmChains : Shaped(contracts'[d])
  <1>1. contracts' = [contracts EXCEPT ![c] = w]
    BY DEF Update
  <1>2. /\ contracts'[c] = w
        /\ \A d \in EvmChains \ {c} : contracts'[d] = contracts[d]
    BY <1>1 DEF Storages
  <1>3. contracts' = [d \in EvmChains |-> contracts'[d]]
    BY <1>1 DEF Storages
  <1>4. \A d \in EvmChains : Shaped(contracts'[d])
    BY <1>2 DEF Storages
  <1> QED BY <1>2, <1>3, <1>4

LEMMA ChainsDiffer ==
    /\ ZetaChain # Base /\ {ZetaChain, Base} \subseteq EvmChains
    /\ NoChain \notin EvmChains
  BY UniversalNFTBridgeAssumption DEF EvmChains

LEMMA UnchangedGrew ==
    ASSUME Storages, contracts'[ZetaChain] = contracts[ZetaChain]
    PROVE  ZetaGrew
  BY ChainsDiffer DEF ZetaGrew, Storages, Shaped

LEMMA MovesIfStill ==
    ASSUME Storages, Origins,
           UNCHANGED <<contracts, calls, mintedOn, reverted, recoveries>>,
           clock' \in [EvmChains -> Nat]
    PROVE  Moves
  <1>1. Storages'
    BY DEF Storages, Shaped
  <1>2. Origins'
    BY DEF Origins, Origin
  <1>3. ZetaGrew
    BY ChainsDiffer DEF ZetaGrew, Storages, Shaped
  <1>4. CopiesMoved
    BY DEF CopiesMoved, Moved, LiveTokens, InFlight, Processed
  <1> QED BY <1>1, <1>2, <1>3, <1>4 DEF Moves, SentKept

LEMMA MovesIfMinted ==
    ASSUME Storages, Origins, NEW c \in EvmChains, NEW u, NEW n \in Nfts,
           mint(c, u, n), UNCHANGED recoveries
    PROVE  Moves
  <1> DEFINE s == contracts[c]
             token == mintedHere(u, n, c)
             w == withToken(s, token)
  <1>1. /\ Update(c, w) /\ mintedOn[n] = NoChain
        /\ mintedOn' = [mintedOn EXCEPT ![n] = c]
        /\ UNCHANGED <<calls, clock, reverted>>
    BY DEF mint
  <1>2. Shaped(s)
    BY DEF Storages
  <1>3. /\ Shaped(w)
        /\ w.tokenIdCounter = s.tokenIdCounter + 1
        /\ DOMAIN w.tokens = DOMAIN s.tokens \cup {s.tokenIdCounter}
        /\ w.tokens[s.tokenIdCounter] = token
        /\ \A t \in DOMAIN s.tokens : w.tokens[t] = s.tokens[t]
        /\ w.processedMessages = s.processedMessages
        /\ w.userNonces = s.userNonces
    BY <1>2, WithTokenShaped
  <1>4. token.metadataUri = n /\ token.originChain = c
    BY DEF mintedHere
  <1> HIDE DEF w, token
  <1>5. /\ contracts' = [d \in EvmChains |-> contracts'[d]]
        /\ contracts'[c] = w
        /\ \A d \in EvmChains \ {c} : contracts'[d] = contracts[d]
        /\ \A d \in EvmChains : Shaped(contracts'[d])
    BY <1>1, <1>3, Updated
  <1>6. /\ mintedOn' \in [Nfts -> EvmChains \cup {NoChain}]
        /\ mintedOn'[n] = c
        /\ \A k \in Nfts \ {n} : mintedOn'[k] = mintedOn[k]
    BY <1>1 DEF Storages
  <1>7. Storages'
    BY <1>1, <1>5, <1>6 DEF Storages
  <1>8. ASSUME NEW k, NEW o, Origin(k, o)
        PROVE  Origin(k, o)' /\ k # n
    BY <1>1, <1>6, <1>8, ChainsDiffer DEF Origin
  <1>9. Origins'
    <2>1. ASSUME NEW d \in EvmChains, NEW t \in DOMAIN contracts'[d].tokens
          PROVE  Origin(contracts[d].tokens[t].metadataUri,
                        contracts[d].tokens[t].originChain)'
      <3>1. CASE d = c /\ t = s.tokenIdCounter
        BY <3>1, <1>3, <1>4, <1>5, <1>6 DEF Origin
      <3>2. CASE ~(d = c /\ t = s.tokenIdCounter)
        <4>1. t \in DOMAIN contracts[d].tokens
              /\ contracts'[d].tokens[t] = contracts[d].tokens[t]
          BY <3>2, <1>3, <1>5, <2>1
        <4>2. Origin(contracts[d].tokens[t].metadataUri,
                     contracts[d].tokens[t].originChain)
          BY <4>1 DEF Origins
        <4> QED BY <4>1, <4>2, <1>8
      <3> QED BY <3>1, <3>2
    <2>2. ASSUME NEW call \in calls \cup reverted
          PROVE  Origin(call.message.metadataUri, call.message.originChain)'
      BY <1>8 DEF Origins
    <2> QED BY <1>1, <2>1, <2>2 DEF Origins
  <1>10. ZetaGrew
    <2>1. s.tokenIdCounter + 1 >= s.tokenIdCounter
          /\ \A x \in Users : s.userNonces[x] >= s.userNonces[x]
      BY <1>2 DEF Shaped
    <2>2. CASE c = ZetaChain
      BY <2>1, <2>2, <1>3, <1>5 DEF ZetaGrew
    <2>3. CASE c # ZetaChain
      BY <2>3, <1>5, ChainsDiffer, UnchangedGrew
    <2> QED BY <2>2, <2>3
  <1>11. CopiesMoved
    <2>1. LiveTokens(n) = {} /\ InFlight(n) = {}
      BY <1>8 DEF LiveTokens, InFlight, Origins
    <2>2. LiveTokens(n)' \subseteq {<<c, s.tokenIdCounter>>}
      <3>1. ASSUME NEW x \in LiveTokens(n)'
            PROVE  x = <<c, s.tokenIdCounter>>
        <4>1. /\ x \in EvmChains \X (0 .. MaxTokens - 1)
              /\ x[2] \in DOMAIN contracts'[x[1]].tokens
              /\ contracts'[x[1]].tokens[x[2]].metadataUri = n
          BY <3>1 DEF LiveTokens
        <4>2. ASSUME x[1] # c \/ x[2] # s.tokenIdCounter
              PROVE  x \in LiveTokens(n)
          BY <4>1, <4>2, <1>3, <1>5 DEF LiveTokens
        <4> QED BY <4>1, <4>2, <2>1
      <3> QED BY <3>1
    <2>3. \A k \in Nfts : InFlight(k)' \subseteq InFlight(k)
      BY <1>1, <1>3, <1>5 DEF InFlight, Processed
    <2>4. \A k \in Nfts \ {n} : LiveTokens(k)' \subseteq LiveTokens(k)
      BY <1>3, <1>4, <1>5 DEF LiveTokens
    <2> QED BY <2>1, <2>2, <2>3, <2>4 DEF CopiesMoved, Moved, Fresh
  <1> QED BY <1>1, <1>7, <1>9, <1>10, <1>11 DEF Moves, SentKept

LEMMA MovesIfSent ==
    ASSUME Storages, Origins, NEW c \in EvmChains, NEW receiver, NEW r, NEW d,
           NEW tokenId \in 0 .. MaxTokens - 1,
           burnAndSend(c, receiver, tokenId, d, r), UNCHANGED recoveries
    PROVE  /\ Moves
           /\ DOMAIN contracts'[c].tokens = DOMAIN contracts[c].tokens \ {tokenId}
           /\ LET u == contracts[c].tokens[tokenId].owner
              IN  /\ tokenId \in DOMAIN contracts[c].tokens
                  /\ u \in Users
                  /\ contracts'[c].userNonces[u] = contracts[c].userNonces[u] + 1
  <1> DEFINE s == contracts[c]
             message == transferMessage(s, tokenId, d, r, clock[c])
             call == [from |-> c, to |-> receiver, message |-> message]
             w == afterTransfer(s, tokenId)
             uri == s.tokens[tokenId].metadataUri
             u == s.tokens[tokenId].owner
  <1>1. /\ tokenId \in DOMAIN s.tokens /\ u \in Users
        /\ Update(c, w) /\ calls' = calls \cup {call}
        /\ UNCHANGED <<clock, mintedOn, reverted>>
    BY DEF burnAndSend, canTransfer
  <1>2. Shaped(s)
    BY DEF Storages
  <1>3. /\ Shaped(w)
        /\ w.tokenIdCounter = s.tokenIdCounter
        /\ DOMAIN w.tokens = DOMAIN s.tokens \ {tokenId}
        /\ \A t \in DOMAIN w.tokens : w.tokens[t] = s.tokens[t]
        /\ w.processedMessages = s.processedMessages
        /\ w.userNonces[u] = s.userNonces[u] + 1
        /\ \A v \in Users : w.userNonces[v] >= s.userNonces[v]
    BY <1>1, <1>2, AfterTransferShaped
  <1>4. /\ call.message.metadataUri = uri
        /\ call.message.originChain = s.tokens[tokenId].originChain
    BY DEF transferMessage
  <1> HIDE DEF w, call
  <1>5. /\ contracts' = [e \in EvmChains |-> contracts'[e]]
        /\ contracts'[c] = w
        /\ \A e \in EvmChains \ {c} : contracts'[e] = contracts[e]
        /\ \A e \in EvmChains : Shaped(contracts'[e])
    BY <1>1, <1>3, Updated
  <1>6. Storages'
    <2>1. IsFiniteSet(calls')
      BY <1>1, FS_AddElement DEF Storages
    <2> QED BY <1>1, <1>5, <2>1 DEF Storages
  <1>7. ASSUME NEW k, NEW o, Origin(k, o)
        PROVE  Origin(k, o)'
    BY <1>1, <1>7 DEF Origin
  <1>8. Origin(uri, s.tokens[tokenId].originChain)
    BY <1>1 DEF Origins
  <1> PICK n \in Nfts : n = uri
    BY <1>8 DEF Origin
  <1>9. Origins'
    <2>1. ASSUME NEW e \in EvmChains, NEW t \in DOMAIN contracts'[e].tokens
          PROVE  Origin(contracts[e].tokens[t].metadataUri,
                        contracts[e].tokens[t].originChain)'
      <3>1. t \in DOMAIN contracts[e].tokens
            /\ contracts'[e].tokens[t] = contracts[e].tokens[t]
        BY <1>3, <1>5, <2>1
      <3>2. Origin(contracts[e].tokens[t].metadataUri,
                   contracts[e].tokens[t].originChain)
        BY <3>1 DEF Origins
      <3> QED BY <3>1, <3>2, <1>7
    <2>2. ASSUME NEW x \in calls' \cup reverted'
          PROVE  Origin(x.message.metadataUri, x.message.originChain)'
      <3>1. CASE x = call
        BY <3>1, <1>4, <1>7, <1>8
      <3>2. CASE x \in calls \cup reverted
        BY <3>2, <1>7 DEF Origins
      <3> QED BY <3>1, <3>2, <2>2, <1>1
    <2> QED BY <2>1, <2>2 DEF Origins
  <1>10. ZetaGrew
    <2>1. s.tokenIdCounter >= s.tokenIdCounter
      BY <1>2 DEF Shaped
    <2>2. CASE c = ZetaChain
      BY <2>1, <2>2, <1>3, <1>5 DEF ZetaGrew
    <2>3. CASE c # ZetaChain
      BY <2>3, <1>5, ChainsDiffer, UnchangedGrew
    <2> QED BY <2>2, <2>3
  <1>11. CopiesMoved
    <2>1. \A k \in Nfts : LiveTokens(k)' \subseteq LiveTokens(k)
      BY <1>3, <1>5 DEF LiveTokens
    <2>2. \A e \in EvmChains :
             contracts'[e].processedMessages = contracts[e].processedMessages
      BY <1>3, <1>5
    <2>3. \A k \in Nfts \ {n} : InFlight(k)' \subseteq InFlight(k)
      BY <1>1, <1>4, <2>2 DEF InFlight, Processed
    <2>4. InFlight(n)' \subseteq InFlight(n) \cup {call}
      BY <1>1, <2>2 DEF InFlight, Processed
    <2>5. <<c, tokenId>> \in LiveTokens(n)
      BY <1>1 DEF LiveTokens
    <2>6. <<c, tokenId>> \notin LiveTokens(n)'
      BY <1>3, <1>5 DEF LiveTokens
    <2>7. Moved(LiveTokens(n), InFlight(n), LiveTokens(n)', InFlight(n)')
      <3>1. LiveTokens(n)' \subseteq LiveTokens(n) \ {<<c, tokenId>>}
        BY <2>1, <2>6
      <3> QED BY <3>1, <2>4, <2>5 DEF Moved
    <2> QED BY <2>1, <2>3, <2>7 DEF CopiesMoved, Moved
  <1> QED BY <1>1, <1>3, <1>5, <1>6, <1>9, <1>10, <1>11 DEF Moves, SentKept

LEMMA MovesIfReceived ==
    ASSUME Storages, Origins, NEW c \in EvmChains, NEW call \in calls,
           receive(c, call), UNCHANGED recoveries
    PROVE  Moves
  <1> DEFINE s == contracts[c]
             message == call.message
             id == message.messageId
             w == afterCall(s, message)
             uri == message.metadataUri
  <1>1. /\ call.to = c /\ id \notin s.processedMessages
        /\ Update(c, w)
        /\ UNCHANGED <<calls, clock, mintedOn, reverted>>
    BY DEF receive, accepts
  <1>2. Shaped(s)
    BY DEF Storages
  <1>3. /\ Shaped(w)
        /\ w.tokenIdCounter = s.tokenIdCounter + 1
        /\ DOMAIN w.tokens = DOMAIN s.tokens \cup {s.tokenIdCounter}
        /\ w.tokens[s.tokenIdCounter] = received(message)
        /\ \A t \in DOMAIN s.tokens : w.tokens[t] = s.tokens[t]
        /\ w.processedMessages = s.processedMessages \cup {id}
        /\ w.userNonces = s.userNonces
    BY <1>2, AfterCallShaped
  <1>4. /\ received(message).metadataUri = uri
        /\ received(message).originChain = message.originChain
    BY DEF received
  <1> HIDE DEF w
  <1>5. /\ contracts' = [e \in EvmChains |-> contracts'[e]]
        /\ contracts'[c] = w
        /\ \A e \in EvmChains \ {c} : contracts'[e] = contracts[e]
        /\ \A e \in EvmChains : Shaped(contracts'[e])
    BY <1>1, <1>3, Updated
  <1>6. Storages'
    BY <1>1, <1>5 DEF Storages
  <1>7. ASSUME NEW k, NEW o, Origin(k, o)
        PROVE  Origin(k, o)'
    BY <1>1, <1>7 DEF Origin
  <1>8. Origin(uri, message.originChain)
    BY DEF Origins
  <1>9. Origins'
    <2>1. ASSUME NEW e \in EvmChains, NEW t \in DOMAIN contracts'[e].tokens
          PROVE  Origin(contracts[e].tokens[t].metadataUri,
                        contracts[e].tokens[t].originChain)'
      <3>1. CASE e = c /\ t = s.tokenIdCounter
        BY <3>1, <1>3, <1>4, <1>5, <1>7, <1>8
      <3>2. CASE ~(e = c /\ t = s.tokenIdCounter)
        <4>1. t \in DOMAIN contracts[e].tokens
              /\ contracts'[e].tokens[t] = contracts[e].tokens[t]
          BY <3>2, <1>3, <1>5, <2>1
        <4>2. Origin(contracts[e].tokens[t].metadataUri,
                     contracts[e].tokens[t].originChain)
          BY <4>1 DEF Origins
        <4> QED BY <4>1, <4>2, <1>7
      <3> QED BY <3>1, <3>2
    <2>2. ASSUME NEW x \in calls \cup reverted
          PROVE  Origin(x.message.metadataUri, x.message.originChain)'
      BY <1>7 DEF Origins
    <2> QED BY <1>1, <2>1, <2>2 DEF Origins
  <1>10. ZetaGrew
    <2>1. s.tokenIdCounter + 1 >= s.tokenIdCounter
          /\ \A x \in Users : s.userNonces[x] >= s.userNonces[x]
      BY <1>2 DEF Shaped
    <2>2. CASE c = ZetaChain
      BY <2>1, <2>2, <1>3, <1>5 DEF ZetaGrew
    <2>3. CASE c # ZetaChain
      BY <2>3, <1>5, ChainsDiffer, UnchangedGrew
    <2> QED BY <2>2, <2>3
  <1>11. CopiesMoved
    <2>1. \A k \in Nfts : InFlight(k)' \subseteq InFlight(k)
      BY <1>1, <1>3, <1>5 DEF InFlight, Processed
    <2>2. call \in InFlight(uri) /\ call \notin InFlight(uri)'
      BY <1>1, <1>3, <1>5 DEF InFlight, Processed
    <2>3. \A k \in Nfts \ {uri} : LiveTokens(k)' \subseteq LiveTokens(k)
      BY <1>3, <1>4, <1>5 DEF LiveTokens
    <2>4. LiveTokens(uri)' \subseteq LiveTokens(uri) \cup {<<c, s.tokenIdCounter>>}
      <3>1. ASSUME NEW x \in LiveTokens(uri)', x # <<c, s.tokenIdCounter>>
            PROVE  x \in LiveTokens(uri)
        BY <3>1, <1>3, <1>5 DEF LiveTokens
      <3> QED BY <3>1
    <2>5. Moved(LiveTokens(uri), InFlight(uri), LiveTokens(uri)', InFlight(uri)')
      <3>1. InFlight(uri)' \subseteq InFlight(uri) \ {call}
        BY <2>1, <2>2, <1>8 DEF Origin
      <3> QED BY <3>1, <2>2, <2>4 DEF Moved
    <2> QED BY <2>1, <2>3, <2>5 DEF CopiesMoved, Moved
  <1> QED BY <1>1, <1>6, <1>9, <1>10, <1>11 DEF Moves, SentKept

LEMMA MovesIfReverted ==
    ASSUME Storages, Origins, NEW c, NEW call \in calls,
           revert(c, call), UNCHANGED recoveries
    PROVE  Moves
  <1>1. /\ calls' = calls \ {call} /\ reverted' = reverted \cup {call}
        /\ UNCHANGED <<contracts, clock, mintedOn>>
    BY DEF revert
  <1>2. Storages'
    <2>1. IsFiniteSet(calls')
      BY <1>1, FS_RemoveElement DEF Storages
    <2> QED BY <1>1, <2>1 DEF Storages, Shaped
  <1>3. Origins'
    <2>1. calls' \cup reverted' \subseteq calls \cup reverted
      BY <1>1
    <2> QED BY <1>1, <2>1 DEF Origins, Origin
  <1>4. ZetaGrew
    BY <1>1, UnchangedGrew
  <1>5. CopiesMoved
    BY <1>1 DEF CopiesMoved, Moved, LiveTokens, InFlight, Processed
  <1> QED BY <1>1, <1>2, <1>3, <1>4, <1>5 DEF Moves, SentKept

LEMMA MovesKeepBound ==
    ASSUME Storages, CopiesBounded, Moves, UNCHANGED recoveries
    PROVE  CopiesBounded'
  <1> SUFFICES ASSUME NEW n \in Nfts
               PROVE  Cardinality(LiveTokens(n)') + Cardinality(InFlight(n)')
                         <= 1 + Cardinality(RecoveriesOf(n, {FALSE}))
    BY DEF CopiesBounded, RecoveriesOf
  <1>1. /\ IsFiniteSet(LiveTokens(n)) /\ IsFiniteSet(InFlight(n))
        /\ Cardinality(RecoveriesOf(n, {FALSE})) \in Nat
    BY CopiesFinite
  <1>2. CASE Moved(LiveTokens(n), InFlight(n), LiveTokens(n)', InFlight(n)')
    <2>1. Cardinality(LiveTokens(n)') + Cardinality(InFlight(n)')
             <= Cardinality(LiveTokens(n)) + Cardinality(InFlight(n))
      BY <1>1, <1>2, MovedCount
    <2>2. Cardinality(LiveTokens(n)) + Cardinality(InFlight(n))
             <= 1 + Cardinality(RecoveriesOf(n, {FALSE}))
      BY DEF CopiesBounded
    <2>3. /\ Cardinality(LiveTokens(n)) \in Nat /\ Cardinality(InFlight(n)) \in Nat
          /\ IsFiniteSet(LiveTokens(n)') /\ IsFiniteSet(InFlight(n)')
      <3>1. \A y : /\ IsFiniteSet(LiveTokens(n) \cup {y})
                   /\ IsFiniteSet(InFlight(n) \cup {y})
        BY <1>1, FS_AddElement
      <3>2. \E y, z : /\ LiveTokens(n)' \subseteq LiveTokens(n) \cup {y}
                      /\ InFlight(n)' \subseteq InFlight(n) \cup {z}
        BY <1>2 DEF Moved
      <3> QED BY <1>1, <3>1, <3>2, FS_Subset, FS_CardinalityType
    <2>4. Cardinality(LiveTokens(n)') \in Nat /\ Cardinality(InFlight(n)') \in Nat
      BY <2>3, FS_CardinalityType
    <2> QED BY <1>1, <2>1, <2>2, <2>3, <2>4
  <1>3. CASE Fresh(LiveTokens(n), InFlight(n), LiveTokens(n)', InFlight(n)')
    <2>1. Cardinality(LiveTokens(n)') + Cardinality(InFlight(n)') <= 1
      BY <1>3, FreshCount
    <2>2. \E y : LiveTokens(n)' \subseteq {} \cup {y}
      BY <1>3 DEF Fresh
    <2>3. Cardinality(LiveTokens(n)') \in Nat
      BY <2>2, CardAdd, FS_EmptySet
    <2>4. Cardinality(InFlight(n)') \in Nat
      BY <1>3, FS_EmptySet DEF Fresh
    <2> QED BY <1>1, <2>1, <2>3, <2>4
  <1> QED BY <1>2, <1>3 DEF Moves, CopiesMoved

\* Recovering a token adds one copy; the history counts it unless the NFT was
\* lost.
LEMMA RecoveredCopies ==
    ASSUME EInv, NEW m, NEW tokenId, NEW u, adminRecoverToken(m, tokenId, u)
    PROVE  /\ Storages' /\ Origins' /\ CopiesBounded'
           /\ LET s == contracts[ZetaChain]
                  w == contracts'[ZetaChain]
              IN  /\ w.tokenIdCounter = s.tokenIdCounter
                  /\ DOMAIN w.tokens = DOMAIN s.tokens \cup {tokenId}
                  /\ w.userNonces = s.userNonces
  <1> DEFINE s == contracts[ZetaChain]
             lost == LiveTokens(burnedNft(tokenId)) = {}
                        /\ InFlight(burnedNft(tokenId)) = {}
  <1>0. Storages /\ Origins /\ CopiesBounded /\ Marks
    BY DEF EInv
  <1>1. PICK n \in Nfts : n = burnedNft(tokenId) /\ mintedOn[n] \in EvmChains
    <2>1. PICK call \in calls \cup reverted :
             call.from = ZetaChain /\ call.message.tokenId = tokenId
      BY <1>0 DEF adminRecoverToken, Marks
    <2>2. call.message.metadataUri \in Nfts
      BY <1>0, <2>1 DEF Origins, Origin
    <2>3. /\ burnedNft(tokenId) \in Nfts
          /\ \E x \in calls \cup reverted : x.message.metadataUri = burnedNft(tokenId)
      BY <2>1, <2>2 DEF burnedNft
    <2> QED BY <1>0, <2>3 DEF Origins, Origin
  <1> DEFINE token == mintedHere(u, n, NoChain)
             w == RestoredTo(s, tokenId, token)
  <1>2. /\ tokenId \in tokenInTransfer
        /\ Update(ZetaChain, w)
        /\ recoveries' = Append(recoveries, [nft |-> n, lost |-> lost])
        /\ UNCHANGED <<calls, clock, mintedOn, reverted>>
    BY <1>1 DEF adminRecoverToken, RestoredTo
  <1>3. Shaped(s) /\ tokenId \in 0 .. s.tokenIdCounter - 1
        /\ tokenId \notin DOMAIN s.tokens
    <2>1. Shaped(s) /\ tokenId < s.tokenIdCounter /\ tokenId \notin DOMAIN s.tokens
      BY <1>0, <1>2, ChainsDiffer DEF Storages, Marks
    <2>2. tokenId \in 0 .. MaxTokens - 1 /\ s.tokenIdCounter \in Nat
      BY <1>0, <1>2, <2>1 DEF Marks, Shaped
    <2> QED BY <2>1, <2>2, UniversalNFTBridgeAssumption
  <1>4. /\ Shaped(w)
        /\ w.tokenIdCounter = s.tokenIdCounter
        /\ DOMAIN w.tokens = DOMAIN s.tokens \cup {tokenId}
        /\ w.tokens[tokenId] = token
        /\ \A t \in DOMAIN s.tokens : w.tokens[t] = s.tokens[t]
        /\ w.processedMessages = s.processedMessages
        /\ w.userNonces = s.userNonces
    BY <1>3, RestoredShaped
  <1>5. token.metadataUri = n /\ token.originChain = NoChain
    BY DEF mintedHere
  <1>6. lost \in BOOLEAN
    OBVIOUS
  <1> HIDE DEF w, token, lost
  <1>7. /\ contracts' = [d \in EvmChains |-> contracts'[d]]
        /\ contracts'[ZetaChain] = w
        /\ \A d \in EvmChains \ {ZetaChain} : contracts'[d] = contracts[d]
        /\ \A d \in EvmChains : Shaped(contracts'[d])
    BY <1>0, <1>2, <1>4, ChainsDiffer, Updated
  <1>8. /\ recoveries' \in Seq([nft : Nfts, lost : BOOLEAN])
        /\ Len(recoveries) \in Nat
        /\ DOMAIN recoveries = 1 .. Len(recoveries)
        /\ DOMAIN recoveries' = 1 .. Len(recoveries) + 1
        /\ \A i \in DOMAIN recoveries : recoveries'[i] = recoveries[i]
        /\ recoveries'[Len(recoveries) + 1] = [nft |-> n, lost |-> lost]
    <2>1. [nft |-> n, lost |-> lost] \in [nft : Nfts, lost : BOOLEAN]
      BY <1>6
    <2> QED BY <1>0, <1>2, <2>1 DEF Storages
  <1>9. Storages'
    BY <1>0, <1>2, <1>7, <1>8 DEF Storages
  <1> DEFINE next == Len(recoveries) + 1
  <1>a. /\ \A i \in DOMAIN recoveries :
              /\ i \in DOMAIN recoveries' /\ i # next
              /\ recoveries'[i].nft = recoveries[i].nft
              /\ recoveries'[i].lost = recoveries[i].lost
        /\ next \in DOMAIN recoveries'
        /\ recoveries'[next].nft = n
        /\ recoveries'[next].lost = lost
    BY <1>8
  <1> HIDE DEF next
  <1>10. ASSUME NEW k, NEW o, Origin(k, o)
         PROVE  Origin(k, o)'
    BY <1>2, <1>8, <1>10 DEF Origin
  <1>11. Origin(n, NoChain)'
    BY <1>1, <1>2, <1>8 DEF Origin
  <1>12. Origins'
    <2>1. ASSUME NEW d \in EvmChains, NEW t \in DOMAIN contracts'[d].tokens
          PROVE  Origin(contracts[d].tokens[t].metadataUri,
                        contracts[d].tokens[t].originChain)'
      <3>1. CASE d = ZetaChain /\ t = tokenId
        BY <3>1, <1>4, <1>5, <1>7, <1>11
      <3>2. CASE ~(d = ZetaChain /\ t = tokenId)
        <4>1. t \in DOMAIN contracts[d].tokens
              /\ contracts'[d].tokens[t] = contracts[d].tokens[t]
          BY <3>2, <1>4, <1>7, <2>1
        <4>2. Origin(contracts[d].tokens[t].metadataUri,
                     contracts[d].tokens[t].originChain)
          BY <1>0, <4>1 DEF Origins
        <4> QED BY <4>1, <4>2, <1>10
      <3> QED BY <3>1, <3>2
    <2>2. ASSUME NEW x \in calls \cup reverted
          PROVE  Origin(x.message.metadataUri, x.message.originChain)'
      BY <1>0, <1>10 DEF Origins
    <2> QED BY <1>2, <2>1, <2>2 DEF Origins
  <1>13. CopiesBounded'
    <2> SUFFICES ASSUME NEW k \in Nfts
                 PROVE  Cardinality(LiveTokens(k)') + Cardinality(InFlight(k)')
                          <= 1 + Cardinality(RecoveriesOf(k, {FALSE})')
      BY DEF CopiesBounded, RecoveriesOf
    <2>1. /\ IsFiniteSet(LiveTokens(k)) /\ IsFiniteSet(InFlight(k))
          /\ Cardinality(LiveTokens(k)) \in Nat /\ Cardinality(InFlight(k)) \in Nat
      BY <1>0, CopiesFinite, FS_CardinalityType
    <2>2. RecoveriesOf(k, {FALSE}) \subseteq RecoveriesOf(k, {FALSE})'
      BY <1>a DEF RecoveriesOf
    <2>3. IsFiniteSet(RecoveriesOf(k, {FALSE})')
      <3>1. RecoveriesOf(k, {FALSE})' \subseteq 1 .. Len(recoveries) + 1
        BY <1>8 DEF RecoveriesOf
      <3>2. IsFiniteSet(1 .. Len(recoveries) + 1)
        BY <1>8, FS_Interval
      <3> QED BY <3>1, <3>2, FS_Subset
    <2>4. /\ Cardinality(RecoveriesOf(k, {FALSE})) \in Nat
          /\ Cardinality(RecoveriesOf(k, {FALSE})') \in Nat
          /\ Cardinality(RecoveriesOf(k, {FALSE}))
               <= Cardinality(RecoveriesOf(k, {FALSE})')
      BY <2>2, <2>3, CardLess
    <2>5. InFlight(k)' \subseteq InFlight(k)
      BY <1>2, <1>4, <1>7 DEF InFlight, Processed
    <2>6. /\ Cardinality(InFlight(k)') \in Nat
          /\ Cardinality(InFlight(k)') <= Cardinality(InFlight(k))
      BY <2>1, <2>5, CardLess
    <2>7. Cardinality(LiveTokens(k)) + Cardinality(InFlight(k))
            <= 1 + Cardinality(RecoveriesOf(k, {FALSE}))
      BY <1>0 DEF CopiesBounded
    <2>8. CASE k # n
      <3>1. LiveTokens(k)' \subseteq LiveTokens(k)
        BY <2>8, <1>4, <1>5, <1>7 DEF LiveTokens
      <3>2. /\ Cardinality(LiveTokens(k)') \in Nat
            /\ Cardinality(LiveTokens(k)') <= Cardinality(LiveTokens(k))
        BY <2>1, <3>1, CardLess
      <3> QED BY <2>1, <2>4, <2>6, <2>7, <3>2
    <2>9. CASE k = n
      <3>1. LiveTokens(k)' \subseteq LiveTokens(k) \cup {<<ZetaChain, tokenId>>}
        <4>1. ASSUME NEW x \in LiveTokens(k)', x # <<ZetaChain, tokenId>>
              PROVE  x \in LiveTokens(k)
          BY <4>1, <1>4, <1>7 DEF LiveTokens
        <4> QED BY <4>1
      <3>2. /\ Cardinality(LiveTokens(k)') \in Nat
            /\ Cardinality(LiveTokens(k)') <= Cardinality(LiveTokens(k)) + 1
        BY <2>1, <3>1, CardAdd
      <3>3. CASE lost
        <4>1. LiveTokens(k) = {} /\ InFlight(k) = {}
          BY <3>3, <2>9, <1>1 DEF lost
        <4>2. Cardinality(LiveTokens(k)) = 0 /\ Cardinality(InFlight(k)) = 0
          BY <4>1, FS_EmptySet
        <4> QED BY <4>2, <2>4, <2>6, <3>2
      <3>4. CASE ~lost
        <4>1. next \in RecoveriesOf(k, {FALSE})'
          <5>1. lost = FALSE
            BY <3>4, <1>6
          <5> QED BY <2>9, <5>1, <1>a DEF RecoveriesOf
        <4>2. RecoveriesOf(k, {FALSE}) \subseteq RecoveriesOf(k, {FALSE})' \ {next}
          <5>1. next \notin RecoveriesOf(k, {FALSE})
            BY <1>a DEF RecoveriesOf
          <5> QED BY <2>2, <5>1
        <4>3. Cardinality(RecoveriesOf(k, {FALSE})) + 1
                <= Cardinality(RecoveriesOf(k, {FALSE})')
          BY <2>3, <4>1, <4>2, CardRemove
        <4> QED BY <2>1, <2>4, <2>6, <2>7, <3>2, <4>3
      <3> QED BY <3>3, <3>4
    <2> QED BY <2>8, <2>9
  <1> QED BY <1>4, <1>7, <1>9, <1>12, <1>13

----------------------------------------------------------------------------
(* What the manager's functions do to the records *)

Typed == pendingMessages \in [MsgIds -> Manager!PendingMessage]

\* The step registers nothing, and the records that stay keep their sender and
\* their block.
RecordsKept ==
    /\ Typed'
    /\ \A m \in MsgIds : pendingMessages'[m].registered =>
          /\ pendingMessages[m].registered
          /\ pendingMessages'[m].originalSender = pendingMessages[m].originalSender
          /\ pendingMessages'[m].createdAt = pendingMessages[m].createdAt

KeptRecord(pm, qm) ==
    /\ qm \in Manager!PendingMessage
    /\ qm.registered = pm.registered
    /\ qm.originalSender = pm.originalSender
    /\ qm.createdAt = pm.createdAt

LEMMA StatusKept ==
    ASSUME NEW pm \in Manager!PendingMessage, NEW st \in Manager!MessageStatus
    PROVE  KeptRecord(pm, [pm EXCEPT !.status = st])
  BY DEF KeptRecord, Manager!PendingMessage

LEMMA RetryFailureKept ==
    ASSUME NEW pm \in Manager!PendingMessage, NEW now \in Nat,
           ~Manager!RetryFailurePanics(pm, InitialRetryConfig)
    PROVE  KeptRecord(pm, Manager!handleRetryFailure(pm, InitialRetryConfig, now))
  <1>1. CASE Manager!CanRetry(pm, InitialRetryConfig)
    <2> DEFINE delay == Manager!calculateRetryDelay(pm.retryCount, InitialRetryConfig)
    <2>1. delay \in Nat
      <3>1. Manager!RawRetryDelay(pm.retryCount, InitialRetryConfig) \in Nat
        BY <1>1, ManagerConfigAssumption
        DEF Manager!RetryFailurePanics, Manager!RetryDelayFits
      <3>2. InitialRetryConfig.maxDelay \in Nat /\ MIN_RETRY_DELAY \in Nat
        BY ManagerConfigAssumption DEF Manager!RetryConfig
      <3> QED BY <3>1, <3>2 DEF Manager!calculateRetryDelay
    <2>2. Manager!handleRetryFailure(pm, InitialRetryConfig, now)
             = [pm EXCEPT !.nextRetryAt = now + delay,
                          !.retryCount = pm.retryCount + 1,
                          !.status = "PENDING"]
      BY <1>1 DEF Manager!handleRetryFailure, Manager!scheduleRetry
    <2> HIDE DEF delay
    <2>3. /\ now + delay \in Nat
          /\ pm.retryCount + 1 \in Nat
          /\ "PENDING" \in Manager!MessageStatus
      BY <2>1 DEF Manager!PendingMessage, Manager!MessageStatus
    <2> QED BY <2>2, <2>3 DEF KeptRecord, Manager!PendingMessage
  <1>2. CASE ~Manager!CanRetry(pm, InitialRetryConfig)
    <2>1. "FAILED" \in Manager!MessageStatus
      BY DEF Manager!MessageStatus
    <2> QED BY <1>2, <2>1, StatusKept DEF Manager!handleRetryFailure
  <1> QED BY <1>1, <1>2

LEMMA CompletedKept ==
    ASSUME Typed, NEW m, Manager!markMessageCompleted(m)
    PROVE  RecordsKept
  <1>1. /\ m \in MsgIds
        /\ pendingMessages' = [pendingMessages EXCEPT ![m].status = "COMPLETED"]
    BY DEF Manager!markMessageCompleted, Manager!Registered
  <1>2. "COMPLETED" \in Manager!MessageStatus
    BY DEF Manager!MessageStatus
  <1>3. KeptRecord(pendingMessages[m], [pendingMessages[m] EXCEPT !.status = "COMPLETED"])
    BY <1>1, <1>2, StatusKept DEF Typed
  <1> QED BY <1>1, <1>3 DEF RecordsKept, Typed, KeptRecord

LEMMA ReportKept ==
    ASSUME Typed, clock[ZetaChain] \in Nat, NEW m, NEW b,
           Manager!reportMessageError(m, b)
    PROVE  RecordsKept
  <1>1. m \in MsgIds
    BY DEF Manager!reportMessageError, Manager!Registered
  <1>2. PICK qm : /\ pendingMessages' = [pendingMessages EXCEPT ![m] = qm]
                  /\ KeptRecord(pendingMessages[m], qm)
    <2>1. CASE /\ ~Manager!RetryFailurePanics(pendingMessages[m], InitialRetryConfig)
               /\ pendingMessages' = [pendingMessages EXCEPT ![m] =
                     Manager!handleRetryFailure(pendingMessages[m],
                         InitialRetryConfig, clock[ZetaChain])]
      BY <1>1, <2>1, RetryFailureKept DEF Typed
    <2>2. CASE pendingMessages' = [pendingMessages EXCEPT ![m].status = "FAILED"]
      <3>1. "FAILED" \in Manager!MessageStatus
        BY DEF Manager!MessageStatus
      <3>2. KeptRecord(pendingMessages[m], [pendingMessages[m] EXCEPT !.status = "FAILED"])
        BY <1>1, <3>1, StatusKept DEF Typed
      <3> QED BY <2>2, <3>2
    <2> QED BY <2>1, <2>2 DEF Manager!reportMessageError
  <1> QED BY <1>1, <1>2 DEF RecordsKept, Typed, KeptRecord

LEMMA ClearedKept ==
    ASSUME Typed, NEW ids, Manager!emergencyClearMessages(ids)
    PROVE  RecordsKept
  <1>1. pendingMessages' = [m \in MsgIds |->
          IF m \in ids THEN Manager!DeletedMessage ELSE pendingMessages[m]]
    BY DEF Manager!emergencyClearMessages
  <1>2. /\ Manager!DeletedMessage \in Manager!PendingMessage
        /\ Manager!DeletedMessage.registered = FALSE
    BY DEF Manager!DeletedMessage, Manager!PendingMessage, Manager!MessageStatus
  <1> HIDE DEF Manager!DeletedMessage, Manager!PendingMessage
  <1> QED BY <1>1, <1>2 DEF RecordsKept, Typed

LEMMA RetriesKept ==
    ASSUME Typed, clock[ZetaChain] \in Nat, NEW limit,
           Manager!executeAutoRetries(limit)
    PROVE  RecordsKept
  <1> DEFINE batch == Manager!RetryBatch(limit)
  <1>1. PICK succeeded \in SUBSET batch :
          /\ \A m \in batch \ succeeded :
                ~Manager!RetryFailurePanics(pendingMessages[m], InitialRetryConfig)
          /\ pendingMessages' = [m \in MsgIds |->
                IF m \in batch
                THEN Manager!AfterRetry(pendingMessages[m], m \in succeeded)
                ELSE pendingMessages[m]]
    BY DEF Manager!executeAutoRetries
  <1> HIDE DEF batch
  <1>2. ASSUME NEW m \in MsgIds
        PROVE  KeptRecord(pendingMessages[m], pendingMessages'[m])
    <2> DEFINE pm == pendingMessages[m]
    <2>0. pm \in Manager!PendingMessage
      BY DEF Typed
    <2>1. CASE m \notin batch
      BY <1>1, <2>0, <2>1 DEF KeptRecord
    <2>2. CASE m \in succeeded
      <3>1. pendingMessages'[m] = [pm EXCEPT !.status = "COMPLETED"]
        BY <1>1, <2>2 DEF Manager!AfterRetry
      <3>2. "COMPLETED" \in Manager!MessageStatus
        BY DEF Manager!MessageStatus
      <3> QED BY <2>0, <3>1, <3>2, StatusKept
    <2>3. CASE m \in batch \ succeeded
      <3> DEFINE qm == [pm EXCEPT !.status = "PROCESSING"]
      <3>1. pendingMessages'[m] =
               Manager!handleRetryFailure(qm, InitialRetryConfig, clock[ZetaChain])
        BY <1>1, <2>3 DEF Manager!AfterRetry
      <3>2. "PROCESSING" \in Manager!MessageStatus
        BY DEF Manager!MessageStatus
      <3>3. KeptRecord(pm, qm)
        BY <2>0, <3>2, StatusKept
      <3>4. ~Manager!RetryFailurePanics(qm, InitialRetryConfig)
        <4>1. qm.retryCount = pm.retryCount /\ qm.isRecoverable = pm.isRecoverable
          BY <2>0 DEF Manager!PendingMessage
        <4> QED BY <1>1, <2>3, <4>1
            DEF Manager!RetryFailurePanics, Manager!CanRetry
      <3> HIDE DEF qm
      <3>5. KeptRecord(qm, pendingMessages'[m])
        BY <3>1, <3>3, <3>4, RetryFailureKept DEF KeptRecord
      <3> QED BY <3>3, <3>5 DEF KeptRecord
    <2> QED BY <2>1, <2>2, <2>3
  <1>3. pendingMessages' = [m \in MsgIds |-> pendingMessages'[m]]
    BY <1>1
  <1> QED BY <1>2, <1>3 DEF RecordsKept, Typed, KeptRecord

LEMMA TimeoutsKept ==
    ASSUME Typed, clock[ZetaChain] \in Nat, NEW ids, Manager!handleTimeouts(ids)
    PROVE  RecordsKept
  <1> DEFINE known == ids \cap Manager!Registered
             now == clock[ZetaChain]
  <1>1. /\ \A m \in known :
              Manager!ShouldRetryTimeout(pendingMessages[m], InitialRetryConfig, now)
                 => Manager!RetryDelayFits(pendingMessages[m].retryCount,
                                           InitialRetryConfig)
        /\ pendingMessages' = [m \in MsgIds |->
              IF m \in known THEN Manager!AfterTimeoutCheck(pendingMessages[m])
                             ELSE pendingMessages[m]]
    BY DEF Manager!handleTimeouts
  <1> HIDE DEF known
  <1>2. ASSUME NEW m \in MsgIds
        PROVE  KeptRecord(pendingMessages[m], pendingMessages'[m])
    <2> DEFINE pm == pendingMessages[m]
    <2>0. pm \in Manager!PendingMessage
      BY DEF Typed
    <2>1. CASE m \notin known \/ ~Manager!isMessageTimedOut(pm, now)
      <3>1. pendingMessages'[m] = pm
        BY <1>1, <2>1 DEF Manager!AfterTimeoutCheck, Manager!handleMessageTimeout,
                          Manager!ShouldRetryTimeout
      <3> QED BY <2>0, <3>1 DEF KeptRecord
    <2>2. CASE /\ m \in known /\ Manager!isMessageTimedOut(pm, now)
               /\ ~Manager!CanRetry(pm, InitialRetryConfig)
      <3>1. pendingMessages'[m] = [pm EXCEPT !.status = "FAILED"]
        BY <1>1, <2>2 DEF Manager!AfterTimeoutCheck, Manager!handleMessageTimeout,
                          Manager!ShouldRetryTimeout
      <3>2. "FAILED" \in Manager!MessageStatus
        BY DEF Manager!MessageStatus
      <3> QED BY <2>0, <3>1, <3>2, StatusKept
    <2>3. CASE /\ m \in known /\ Manager!isMessageTimedOut(pm, now)
               /\ Manager!CanRetry(pm, InitialRetryConfig)
      <3> DEFINE qm == [pm EXCEPT !.status = "TIMEOUT"]
      <3>1. /\ pendingMessages'[m] =
                  Manager!scheduleRetry(qm, InitialRetryConfig, now)
            /\ Manager!RetryDelayFits(pm.retryCount, InitialRetryConfig)
        BY <1>1, <2>3 DEF Manager!AfterTimeoutCheck, Manager!handleMessageTimeout,
                          Manager!ShouldRetryTimeout
      <3>2. "TIMEOUT" \in Manager!MessageStatus
        BY DEF Manager!MessageStatus
      <3>3. KeptRecord(pm, qm)
        BY <2>0, <3>2, StatusKept
      <3>4. qm.retryCount = pm.retryCount /\ qm.isRecoverable = pm.isRecoverable
        BY <2>0 DEF Manager!PendingMessage
      <3> HIDE DEF qm
      <3>5. /\ pendingMessages'[m] =
                  Manager!handleRetryFailure(qm, InitialRetryConfig, now)
            /\ ~Manager!RetryFailurePanics(qm, InitialRetryConfig)
        BY <2>3, <3>1, <3>4 DEF Manager!handleRetryFailure,
           Manager!RetryFailurePanics, Manager!CanRetry
      <3>6. KeptRecord(qm, pendingMessages'[m])
        BY <3>3, <3>5, RetryFailureKept DEF KeptRecord
      <3> QED BY <3>3, <3>6 DEF KeptRecord
    <2> QED BY <2>1, <2>2, <2>3
  <1>3. pendingMessages' = [m \in MsgIds |-> pendingMessages'[m]]
    BY <1>1
  <1> QED BY <1>2, <1>3 DEF RecordsKept, Typed, KeptRecord

LEMMA RegisteredRecord ==
    ASSUME Typed, clock[ZetaChain] \in Nat, NEW m \in MsgIds, NEW u \in Users,
           NEW chain \in {Base, Solana}, Manager!registerMessage(m, u, chain)
    PROVE  /\ Typed'
           /\ pendingMessages'[m].registered
           /\ pendingMessages'[m].originalSender = u
           /\ pendingMessages'[m].createdAt = clock[ZetaChain]
           /\ \A k \in MsgIds \ {m} : pendingMessages'[k] = pendingMessages[k]
  <1> DEFINE timeout == Manager!calculateMessageTimeout(chain, InitialTimeoutConfig)
             pm == Manager!createPendingMessage(u, timeout, clock[ZetaChain])
  <1>1. pendingMessages' = [pendingMessages EXCEPT ![m] = pm]
    BY DEF Manager!registerMessage
  <1>2. timeout \in Nat
    BY ManagerConfigAssumption
    DEF Manager!calculateMessageTimeout, Manager!TimeoutConfig
  <1> HIDE DEF timeout
  <1>3. /\ pm \in Manager!PendingMessage
        /\ pm.registered /\ pm.originalSender = u
        /\ pm.createdAt = clock[ZetaChain]
    BY <1>2 DEF Manager!createPendingMessage, Manager!PendingMessage,
                Manager!MessageStatus
  <1> HIDE DEF pm
  <1> QED BY <1>1, <1>3 DEF Typed

----------------------------------------------------------------------------
(* The invariant is inductive *)

LEMMA RecordsIfStill ==
    ASSUME Typed, UNCHANGED pendingMessages
    PROVE  RecordsKept
  BY DEF Typed, RecordsKept

\* The same for the records that no stranger registered: a step registers
\* nothing or is the registration of a stranger.
OwnRecordsKept ==
    /\ Typed'
    /\ \A m \in MsgIds \ foreign' : pendingMessages'[m].registered =>
          /\ pendingMessages[m].registered /\ m \notin foreign
          /\ pendingMessages'[m].originalSender = pendingMessages[m].originalSender
          /\ pendingMessages'[m].createdAt = pendingMessages[m].createdAt

LEMMA OwnIfKept ==
    ASSUME RecordsKept, UNCHANGED foreign
    PROVE  OwnRecordsKept
  BY DEF RecordsKept, OwnRecordsKept

LEMMA OwnIfForeign ==
    ASSUME Typed, clock[ZetaChain] \in Nat, NEW m \in MsgIds, NEW u \in Users,
           NEW chain \in {Base, Solana}, Manager!registerMessage(m, u, chain),
           foreign' = foreign \cup {m}
    PROVE  OwnRecordsKept
  BY RegisteredRecord DEF OwnRecordsKept

LEMMA OwnIfCleared ==
    ASSUME Typed, NEW m, Manager!emergencyClearMessages({m}),
           foreign' = foreign \ {m}
    PROVE  OwnRecordsKept
  <1>1. RecordsKept
    BY ClearedKept
  <1>2. \A k \in MsgIds : pendingMessages'[k].registered => k # m
    BY DEF Manager!emergencyClearMessages, Manager!DeletedMessage
  <1> QED BY <1>1, <1>2 DEF RecordsKept, OwnRecordsKept

\* A step of the bridge or the manager that neither marks nor recovers.
LEMMA OrdinaryStep ==
    ASSUME EInv, Moves, UNCHANGED backupVars, OwnRecordsKept, Keepers'
    PROVE  EInv'
  <1>0. /\ Storages /\ CopiesBounded /\ Marks /\ Backups /\ Records
        /\ UNCHANGED <<tokenInTransfer, burnedTokenBackup, recoveries>>
        /\ ZetaGrew /\ SentKept
    BY DEF EInv, backupVars, Moves
  <1>1. Storages' /\ Origins'
    BY DEF Moves
  <1>2. CopiesBounded'
    BY <1>0, MovesKeepBound
  <1>3. Marks'
    <2> SUFFICES ASSUME NEW t \in tokenInTransfer
                 PROVE  /\ t < contracts'[ZetaChain].tokenIdCounter
                        /\ t \notin DOMAIN contracts'[ZetaChain].tokens
                        /\ \E call \in calls' \cup reverted' :
                              call.from = ZetaChain /\ call.message.tokenId = t
      BY <1>0 DEF Marks
    <2>1. /\ t < contracts[ZetaChain].tokenIdCounter
          /\ t \notin DOMAIN contracts[ZetaChain].tokens
          /\ \E call \in calls \cup reverted :
                call.from = ZetaChain /\ call.message.tokenId = t
      BY <1>0 DEF Marks
    <2>2. \E call \in calls' \cup reverted' :
             call.from = ZetaChain /\ call.message.tokenId = t
      BY <1>0, <2>1 DEF SentKept
    <2>3. t \in Nat /\ contracts[ZetaChain].tokenIdCounter \in Nat
          /\ contracts'[ZetaChain].tokenIdCounter \in Nat
      BY <1>0, <1>1, ChainsDiffer, UniversalNFTBridgeAssumption
      DEF Marks, Storages, Shaped
    <2> QED BY <1>0, <2>1, <2>2, <2>3 DEF ZetaGrew
  <1>4. Backups'
    BY <1>0 DEF Backups
  <1>5. Records'
    <2>1. Typed'
      BY DEF OwnRecordsKept
    <2>2. ASSUME NEW m \in MsgIds \ foreign', pendingMessages'[m].registered
          PROVE  Sent(m)' /\ m[4] < contracts'[ZetaChain].userNonces[m[1]]
      <3>1. /\ m \in Manager!Registered \ foreign
            /\ pendingMessages'[m].originalSender = pendingMessages[m].originalSender
            /\ pendingMessages'[m].createdAt = pendingMessages[m].createdAt
        BY <2>2 DEF OwnRecordsKept, Manager!Registered
      <3>2. Sent(m) /\ m[4] < contracts[ZetaChain].userNonces[m[1]]
        BY <1>0, <3>1 DEF Records
      <3>3. Sent(m)'
        BY <1>0, <3>1, <3>2 DEF Sent, SentKept
      <3>4. m[1] \in Users /\ m[4] \in Nat
        BY DEF MsgIds
      <3>5. /\ contracts[ZetaChain].userNonces[m[1]] \in Nat
            /\ contracts'[ZetaChain].userNonces[m[1]] \in Nat
            /\ contracts'[ZetaChain].userNonces[m[1]]
                  >= contracts[ZetaChain].userNonces[m[1]]
        BY <1>0, <1>1, <3>4, ChainsDiffer DEF ZetaGrew, Storages, Shaped
      <3> QED BY <3>2, <3>3, <3>4, <3>5
    <2> QED BY <2>1, <2>2 DEF Records, Typed, Manager!Registered
  <1> QED BY <1>1, <1>2, <1>3, <1>4, <1>5 DEF EInv

\* The message with the nonce that the owner of token t has next is
\* registered by the step, or was by a stranger.
TrackedTransfer(t) ==
    \E call \in calls' :
       LET owner == contracts[ZetaChain].tokens[t].owner
           m     == call.message.messageId
       IN  /\ call.from = ZetaChain /\ call.message.tokenId = t
           /\ m[1] = owner
           /\ call.message.nonce = contracts[ZetaChain].userNonces[owner]
           /\ pendingMessages'[m].registered
           /\ ~pendingMessages[m].registered \/ m \in foreign

LEMMA EnhancedSendStep ==
    ASSUME EInv, NEW tokenId \in 0 .. MaxTokens - 1, NEW d, NEW r,
           burnAndTransferEnhanced(tokenId, d, r)
    PROVE  /\ EInv'
           /\ tokenInTransfer' = tokenInTransfer \cup {tokenId}
           /\ (monitoringEnabled /\ ~managerPaused) =>
                 TrackedTransfer(tokenId)
  <1> DEFINE s == contracts[ZetaChain]
             u == s.tokens[tokenId].owner
             now == clock[ZetaChain]
             message == transferMessage(s, tokenId, d, r, now)
             id == message.messageId
             receiver == getReceiverContract(d)
             call == [from |-> ZetaChain, to |-> receiver, message |-> message]
  <1>0. Storages /\ Origins /\ CopiesBounded /\ Marks /\ Backups /\ Records /\ Keepers
    BY DEF EInv
  <1>1. /\ tokenId \notin tokenInTransfer /\ d \in {Base, Solana}
        /\ burnAndSend(ZetaChain, receiver, tokenId, d, r)
        /\ id \in MsgIds
        /\ register(message, u)
        /\ tokenInTransfer' = tokenInTransfer \cup {tokenId}
        /\ burnedTokenBackup' = [burnedTokenBackup EXCEPT ![id] = tokenId]
        /\ UNCHANGED <<recoveries, keeperVars>>
    BY DEF burnAndTransferEnhanced, zetaBurnAndTransfer
  <1>2. calls' = calls \cup {call}
    BY <1>1 DEF burnAndSend
  <1>3. /\ id[1] = u /\ id[2] = tokenId /\ id[4] = s.userNonces[u]
        /\ message.destinationChain = d /\ message.timestamp = now
        /\ message.tokenId = tokenId /\ message.nonce = s.userNonces[u]
    BY DEF transferMessage, generateMessageId
  <1>4. call.from = ZetaChain /\ call.message = message
    OBVIOUS
  <1> HIDE DEF call, receiver
  <1>5. /\ Moves
        /\ DOMAIN contracts'[ZetaChain].tokens = DOMAIN s.tokens \ {tokenId}
        /\ tokenId \in DOMAIN s.tokens /\ u \in Users
        /\ contracts'[ZetaChain].userNonces[u] = s.userNonces[u] + 1
    BY <1>0, <1>1, ChainsDiffer, MovesIfSent
  <1>6. Storages' /\ Origins' /\ CopiesBounded' /\ Keepers'
    BY <1>0, <1>1, <1>5, MovesKeepBound DEF Moves, Keepers, keeperVars
  <1> HIDE DEF message
  <1>7. /\ s.tokenIdCounter \in Nat /\ contracts'[ZetaChain].tokenIdCounter \in Nat
        /\ s.userNonces \in [Users -> Nat]
        /\ contracts'[ZetaChain].userNonces \in [Users -> Nat]
        /\ tokenId < s.tokenIdCounter
        /\ contracts'[ZetaChain].tokenIdCounter >= s.tokenIdCounter
        /\ \A v \in Users :
              contracts'[ZetaChain].userNonces[v] >= s.userNonces[v]
        /\ SentKept
    <2>1. Shaped(s) /\ Shaped(contracts[ZetaChain])'
      BY <1>0, <1>6, ChainsDiffer DEF Storages
    <2>2. tokenId \in Nat /\ MaxTokens \in Nat
      BY UniversalNFTBridgeAssumption
    <2> QED BY <1>5, <2>1, <2>2 DEF Moves, ZetaGrew, Shaped
  <1>8. Marks'
    <2>1. tokenInTransfer' \subseteq 0 .. MaxTokens - 1
      BY <1>0, <1>1 DEF Marks
    <2>2. ASSUME NEW t \in tokenInTransfer'
          PROVE  /\ t < contracts'[ZetaChain].tokenIdCounter
                 /\ t \notin DOMAIN contracts'[ZetaChain].tokens
                 /\ \E x \in calls' \cup reverted' :
                       x.from = ZetaChain /\ x.message.tokenId = t
      <3>0. t \in Nat
        BY <2>1, UniversalNFTBridgeAssumption
      <3>1. CASE t = tokenId
        <4>1. call \in calls' \cup reverted'
          BY <1>2
        <4> QED BY <3>1, <4>1, <1>3, <1>4, <1>5, <1>7
      <3>2. CASE t \in tokenInTransfer
        <4>1. /\ t < s.tokenIdCounter /\ t \notin DOMAIN s.tokens
              /\ \E x \in calls \cup reverted :
                    x.from = ZetaChain /\ x.message.tokenId = t
          BY <1>0, <3>2 DEF Marks
        <4>2. \E x \in calls' \cup reverted' :
                 x.from = ZetaChain /\ x.message.tokenId = t
          BY <4>1, <1>7 DEF SentKept
        <4> QED BY <3>0, <4>1, <4>2, <1>5, <1>7
      <3> QED BY <1>1, <3>1, <3>2, <2>2
    <2> QED BY <2>1, <2>2 DEF Marks
  <1>9. Backups'
    <2>1. burnedTokenBackup' \in [MsgIds -> 0 .. MaxTokens - 1]
      BY <1>0, <1>1 DEF Backups
    <2>2. /\ burnedTokenBackup'[id] = tokenId
          /\ \A m \in MsgIds \ {id} : burnedTokenBackup'[m] = burnedTokenBackup[m]
      BY <1>0, <1>1 DEF Backups
    <2>3. \A m \in MsgIds : burnedTokenBackup[m] # 0 =>
             burnedTokenBackup[m] # tokenId
      BY <1>0, <1>1 DEF Backups
    <2>4. burnedTokenBackup[id] = 0
      BY <1>0, <1>1, <1>3, <2>3 DEF Backups
    <2>5. ASSUME NEW m \in MsgIds, burnedTokenBackup'[m] # 0
          PROVE  /\ burnedTokenBackup'[m] = m[2]
                 /\ m[2] \in tokenInTransfer'
                 /\ \A k \in MsgIds : burnedTokenBackup'[k] = m[2] => k = m
      <3>1. CASE m = id
        BY <3>1, <2>2, <2>3, <2>5, <1>1, <1>3
      <3>2. CASE m # id
        BY <3>2, <2>2, <2>3, <2>5, <1>0, <1>1 DEF Backups
      <3> QED BY <3>1, <3>2
    <2>6. ASSUME NEW t \in tokenInTransfer', t # 0
          PROVE  \E m \in MsgIds : burnedTokenBackup'[m] = t
      BY <2>2, <2>4, <2>6, <1>0, <1>1 DEF Backups
    <2> QED BY <2>1, <2>5, <2>6 DEF Backups
  <1>10. CASE /\ monitoringEnabled /\ ~managerPaused
              /\ id \notin Manager!Registered
              /\ Manager!registerMessage(id, u, d)
              /\ UNCHANGED foreign
    <2>1. /\ Typed' /\ pendingMessages'[id].registered
          /\ pendingMessages'[id].originalSender = u
          /\ pendingMessages'[id].createdAt = now
          /\ \A k \in MsgIds \ {id} : pendingMessages'[k] = pendingMessages[k]
      <3>1. Typed /\ clock[ZetaChain] \in Nat
        BY <1>0, ChainsDiffer DEF Records, Typed, Storages
      <3> QED BY <3>1, <1>1, <1>5, <1>10, RegisteredRecord
    <2>2. Records'
      <3>1. ASSUME NEW m \in MsgIds \ foreign', pendingMessages'[m].registered
            PROVE  Sent(m)' /\ m[4] < contracts'[ZetaChain].userNonces[m[1]]
        <4>1. CASE m = id
          <5>1. call \in calls' \cup reverted'
            BY <1>2
          <5>2. Sent(m)'
            BY <5>1, <4>1, <1>3, <1>4, <2>1 DEF Sent
          <5> QED BY <5>2, <4>1, <1>3, <1>5, <1>7
        <4>2. CASE m # id
          <5>1. /\ m \in Manager!Registered \ foreign
                /\ pendingMessages'[m] = pendingMessages[m]
            BY <4>2, <2>1, <3>1, <1>10 DEF Manager!Registered
          <5>2. Sent(m) /\ m[4] < s.userNonces[m[1]]
            BY <1>0, <5>1 DEF Records
          <5>3. Sent(m)'
            BY <1>7, <5>1, <5>2 DEF Sent, SentKept
          <5>4. m[1] \in Users /\ m[4] \in Nat
            BY DEF MsgIds
          <5>5. /\ s.userNonces[m[1]] \in Nat
                /\ contracts'[ZetaChain].userNonces[m[1]] \in Nat
                /\ contracts'[ZetaChain].userNonces[m[1]] >= s.userNonces[m[1]]
            BY <1>7, <5>4
          <5> QED BY <5>2, <5>3, <5>4, <5>5
        <4> QED BY <4>1, <4>2
      <3> QED BY <2>1, <3>1 DEF Records, Typed, Manager!Registered
    <2>3. ~pendingMessages[id].registered
      BY <1>1, <1>10 DEF Manager!Registered
    <2>4. TrackedTransfer(tokenId)
      BY <1>2, <1>3, <1>4, <2>1, <2>3 DEF TrackedTransfer
    <2> QED BY <2>2, <2>4, <1>1, <1>6, <1>8, <1>9 DEF EInv
  <1>11. CASE /\ UNCHANGED managerVars
              /\ ~(monitoringEnabled /\ ~managerPaused
                     /\ id \notin Manager!Registered)
    <2>1. UNCHANGED <<pendingMessages, foreign>>
      BY <1>11 DEF managerVars, historyVars
    <2>2. Records'
      <3>1. ASSUME NEW m \in MsgIds \ foreign', pendingMessages'[m].registered
            PROVE  Sent(m)' /\ m[4] < contracts'[ZetaChain].userNonces[m[1]]
        <4>1. /\ m \in Manager!Registered \ foreign
              /\ pendingMessages'[m] = pendingMessages[m]
          BY <2>1, <3>1 DEF Manager!Registered
        <4>2. Sent(m) /\ m[4] < s.userNonces[m[1]]
          BY <1>0, <4>1 DEF Records
        <4>3. Sent(m)'
          BY <1>7, <4>1, <4>2 DEF Sent, SentKept
        <4>4. m[1] \in Users /\ m[4] \in Nat
          BY DEF MsgIds
        <4>5. /\ s.userNonces[m[1]] \in Nat
              /\ contracts'[ZetaChain].userNonces[m[1]] \in Nat
              /\ contracts'[ZetaChain].userNonces[m[1]] >= s.userNonces[m[1]]
          BY <1>7, <4>4
        <4> QED BY <4>2, <4>3, <4>4, <4>5
      <3> QED BY <1>0, <2>1, <3>1 DEF Records, Manager!Registered
    <2>3. id \in Manager!Registered => id \in foreign
      <3>1. ASSUME id \in Manager!Registered \ foreign PROVE FALSE
        <4>1. s.userNonces[u] < s.userNonces[u]
          BY <1>0, <1>3, <3>1 DEF Records
        <4>2. s.userNonces[u] \in Nat
          BY <1>5, <1>7
        <4> QED BY <4>1, <4>2
      <3> QED BY <3>1
    <2>4. ASSUME monitoringEnabled, ~managerPaused
          PROVE  TrackedTransfer(tokenId)
      <3>1. /\ id \in foreign /\ pendingMessages'[id].registered
        BY <1>11, <2>1, <2>3, <2>4 DEF Manager!Registered
      <3> QED BY <1>2, <1>3, <1>4, <3>1 DEF TrackedTransfer
    <2> QED BY <2>2, <2>4, <1>1, <1>6, <1>8, <1>9 DEF EInv
  <1>12. message.messageId = id /\ message.destinationChain = d
    BY <1>3
  <1> QED BY <1>1, <1>10, <1>11, <1>12 DEF register, historyVars

LEMMA RecoverStep ==
    ASSUME EInv, NEW m \in MsgIds, NEW tokenId, NEW u,
           adminRecoverToken(m, tokenId, u)
    PROVE  EInv' /\ tokenInTransfer' \subseteq tokenInTransfer
  <1> DEFINE s == contracts[ZetaChain]
             w == contracts'[ZetaChain]
  <1>0. Storages /\ Marks /\ Backups /\ Records /\ Keepers
    BY DEF EInv
  <1>1. /\ tokenId \in tokenInTransfer /\ burnedTokenBackup[m] = tokenId
        /\ tokenInTransfer' = tokenInTransfer \ {tokenId}
        /\ burnedTokenBackup' = [burnedTokenBackup EXCEPT ![m] = 0]
        /\ UNCHANGED <<calls, reverted, keeperVars, managerVars>>
    BY DEF adminRecoverToken, backupAfterRecovery
  <1>2. /\ Storages' /\ Origins' /\ CopiesBounded'
        /\ w.tokenIdCounter = s.tokenIdCounter
        /\ DOMAIN w.tokens = DOMAIN s.tokens \cup {tokenId}
        /\ w.userNonces = s.userNonces
    BY RecoveredCopies
  <1>3. Keepers'
    BY <1>0, <1>1 DEF Keepers, keeperVars
  <1>4. Marks'
    BY <1>0, <1>1, <1>2 DEF Marks
  <1>5. Backups'
    <2>0. tokenId \in 0 .. MaxTokens - 1 /\ 0 \in 0 .. MaxTokens - 1
      BY <1>0, <1>1, UniversalNFTBridgeAssumption DEF Marks
    <2>1. burnedTokenBackup' \in [MsgIds -> 0 .. MaxTokens - 1]
      BY <1>0, <1>1, <2>0 DEF Backups
    <2>2. /\ burnedTokenBackup'[m] = 0
          /\ \A k \in MsgIds \ {m} : burnedTokenBackup'[k] = burnedTokenBackup[k]
      BY <1>0, <1>1 DEF Backups
    <2>3. ASSUME NEW k \in MsgIds, burnedTokenBackup'[k] # 0
          PROVE  /\ burnedTokenBackup'[k] = k[2]
                 /\ k[2] \in tokenInTransfer'
                 /\ \A j \in MsgIds : burnedTokenBackup'[j] = k[2] => j = k
      <3>1. /\ k # m /\ burnedTokenBackup[k] = k[2] /\ k[2] # 0
            /\ k[2] \in tokenInTransfer
            /\ \A j \in MsgIds : burnedTokenBackup[j] = k[2] => j = k
        BY <2>2, <2>3, <1>0 DEF Backups
      <3>2. k[2] # tokenId
        BY <3>1, <1>1
      <3> QED BY <3>1, <3>2, <2>2, <1>1
    <2>4. ASSUME NEW t \in tokenInTransfer', t # 0
          PROVE  \E k \in MsgIds : burnedTokenBackup'[k] = t
      BY <2>2, <2>4, <1>0, <1>1 DEF Backups
    <2> QED BY <2>1, <2>3, <2>4 DEF Backups
  <1>6. Records'
    BY <1>0, <1>1, <1>2 DEF Records, Sent, managerVars, historyVars,
                            Manager!Registered
  <1> QED BY <1>1, <1>2, <1>3, <1>4, <1>5, <1>6 DEF EInv

LEMMA InheritedMoves ==
    ASSUME Storages, Origins, Inherited
    PROVE  Moves
  <1>0. UNCHANGED recoveries
    BY DEF Inherited, backupVars
  <1>1. CASE Tick(ZetaChain)
    <2>1. clock' \in [EvmChains -> Nat]
      BY <1>1, ChainsDiffer DEF Tick, Storages
    <2> QED BY <1>0, <1>1, <2>1, MovesIfStill DEF Tick
  <1>2. ASSUME NEW u \in Users, NEW n \in Nfts, zetaMint(u, n) \/ baseMint(u, n)
        PROVE  Moves
    BY <1>0, <1>2, ChainsDiffer, MovesIfMinted DEF zetaMint, baseMint
  <1>3. ASSUME NEW t \in 0 .. MaxTokens - 1, NEW d, NEW r,
               zetaBurnAndTransfer(t, d, r) \/ baseBurnAndTransfer(t, d, r)
        PROVE  Moves
    BY <1>0, <1>3, ChainsDiffer, MovesIfSent
    DEF zetaBurnAndTransfer, baseBurnAndTransfer
  <1>4. ASSUME NEW call \in calls, baseOnCall(call) \/ baseOnRevert(call)
        PROVE  Moves
    BY <1>0, <1>4, ChainsDiffer, MovesIfReceived, MovesIfReverted
    DEF baseOnCall, baseOnRevert
  <1> QED BY <1>1, <1>2, <1>3, <1>4 DEF Inherited

\* Every step but a marked transfer and a recovery.
OrdinaryNext ==
    \/ Inherited
    \/ \E call \in calls : onCall(call) \/ onRevert(call)
    \/ runAutoRetry
    \/ \E b \in BOOLEAN : setMonitoringEnabled(b)
    \/ \E i \in IntervalInputs : setAutoRetryInterval(i)
    \/ managerCall

LEMMA OrdinaryNextStep ==
    ASSUME EInv, OrdinaryNext
    PROVE  EInv' /\ UNCHANGED tokenInTransfer
  <1>0. /\ Storages /\ Origins /\ Keepers /\ Typed /\ clock[ZetaChain] \in Nat
        /\ clock \in [EvmChains -> Nat]
    BY ChainsDiffer DEF EInv, Records, Typed, Storages
  <1>a. ASSUME UNCHANGED bridgeVars, UNCHANGED backupVars PROVE Moves
    BY <1>0, <1>a, MovesIfStill DEF bridgeVars, backupVars
  <1>b. ASSUME UNCHANGED managerVars PROVE OwnRecordsKept
    BY <1>0, <1>b, RecordsIfStill, OwnIfKept DEF managerVars, historyVars
  <1>c. ASSUME UNCHANGED keeperVars PROVE Keepers'
    BY <1>0, <1>c DEF keeperVars, Keepers
  <1> SUFFICES Moves /\ UNCHANGED backupVars /\ OwnRecordsKept /\ Keepers'
    BY OrdinaryStep DEF backupVars
  <1>1. CASE Inherited
    BY <1>0, <1>1, <1>b, <1>c, InheritedMoves DEF Inherited
  <1>2. ASSUME NEW call \in calls, onCall(call)
        PROVE  Moves /\ UNCHANGED backupVars /\ OwnRecordsKept /\ Keepers'
    <2>1. UNCHANGED backupVars /\ UNCHANGED keeperVars /\ UNCHANGED recoveries
      BY <1>2 DEF onCall, backupVars
    <2>2. Moves
      BY <1>0, <1>2, <2>1, ChainsDiffer, MovesIfReceived DEF onCall, zetaOnCall
    <2>3. OwnRecordsKept
      BY <1>0, <1>2, <1>b, CompletedKept, OwnIfKept DEF onCall, historyVars
    <2> QED BY <2>1, <2>2, <2>3, <1>c
  <1>3. ASSUME NEW call \in calls, onRevert(call)
        PROVE  Moves /\ UNCHANGED backupVars /\ OwnRecordsKept /\ Keepers'
    <2>1. /\ UNCHANGED backupVars /\ UNCHANGED keeperVars /\ UNCHANGED managerVars
          /\ UNCHANGED recoveries
      BY <1>3 DEF onRevert, backupVars
    <2>2. Moves
      BY <1>0, <1>3, <2>1, MovesIfReverted DEF onRevert, zetaOnRevert
    <2> QED BY <2>1, <2>2, <1>b, <1>c
  <1>4. CASE runAutoRetry
    <2>1. /\ UNCHANGED bridgeVars /\ UNCHANGED backupVars
          /\ UNCHANGED <<monitoringEnabled, autoRetryInterval>>
          /\ lastAutoRetryRun' = clock[ZetaChain]
      BY <1>4 DEF runAutoRetry
    <2>2. OwnRecordsKept
      BY <1>0, <1>4, <1>b, RetriesKept, OwnIfKept DEF runAutoRetry, historyVars
    <2>3. Keepers'
      BY <1>0, <2>1 DEF Keepers
    <2> QED BY <2>1, <2>2, <2>3, <1>a
  <1>5. ASSUME NEW b \in BOOLEAN, setMonitoringEnabled(b)
        PROVE  Moves /\ UNCHANGED backupVars /\ OwnRecordsKept /\ Keepers'
    BY <1>0, <1>5, <1>a, <1>b DEF setMonitoringEnabled, Keepers
  <1>6. ASSUME NEW i \in IntervalInputs, setAutoRetryInterval(i)
        PROVE  Moves /\ UNCHANGED backupVars /\ OwnRecordsKept /\ Keepers'
    <2>1. i \in Nat
      BY UniversalNFTEnhancedAssumption
    <2> QED BY <1>0, <1>6, <1>a, <1>b, <2>1 DEF setAutoRetryInterval, Keepers
  <1>7. CASE managerCall
    <2>1. /\ UNCHANGED bridgeVars /\ UNCHANGED backupVars
          /\ UNCHANGED keeperVars
      BY <1>7 DEF managerCall
    <2>2. ASSUME openCall PROVE OwnRecordsKept
      <3>1. ASSUME NEW m \in ForeignIds, NEW u \in Users,
                   NEW c \in {Base, Solana}, Manager!registerMessage(m, u, c),
                   foreign' = foreign \cup {m}
            PROVE  OwnRecordsKept
        <4>1. m \in MsgIds
          BY ManagerConfigAssumption
        <4> QED BY <1>0, <3>1, <4>1, OwnIfForeign
      <3>2. ASSUME NEW m, NEW b, Manager!reportMessageError(m, b),
                   UNCHANGED foreign
            PROVE  OwnRecordsKept
        BY <1>0, <3>2, ReportKept, OwnIfKept
      <3>3. ASSUME NEW m, Manager!markMessageCompleted(m), UNCHANGED foreign
            PROVE  OwnRecordsKept
        BY <1>0, <3>3, CompletedKept, OwnIfKept
      <3>4. ASSUME NEW ids, Manager!handleTimeouts(ids), UNCHANGED foreign
            PROVE  OwnRecordsKept
        BY <1>0, <3>4, TimeoutsKept, OwnIfKept
      <3>5. ASSUME Manager!executeAutoRetries(1), UNCHANGED foreign
            PROVE  OwnRecordsKept
        BY <1>0, <3>5, RetriesKept, OwnIfKept
      <3>6. CASE \E m \in ForeignIds, u \in Users, c \in {Base, Solana} :
                    /\ Manager!registerMessage(m, u, c)
                    /\ foreign' = foreign \cup {m}
        BY <3>1, <3>6
      <3>7. CASE \E m \in Manager!Registered :
                    /\ \/ \E shouldRetry \in ReportInputs :
                             Manager!reportMessageError(m, shouldRetry)
                       \/ Manager!markMessageCompleted(m)
                       \/ Manager!handleTimeouts({m})
                    /\ UNCHANGED foreign
        <4> PICK m \in Manager!Registered :
                 \/ \E shouldRetry \in ReportInputs :
                       Manager!reportMessageError(m, shouldRetry)
                 \/ Manager!markMessageCompleted(m)
                 \/ Manager!handleTimeouts({m})
          BY <3>7
        <4>1. UNCHANGED foreign
          BY <3>7
        <4>2. CASE \E b \in ReportInputs : Manager!reportMessageError(m, b)
          BY <3>2, <4>1, <4>2
        <4>3. CASE Manager!markMessageCompleted(m)
          BY <3>3, <4>1, <4>3
        <4>4. CASE Manager!handleTimeouts({m})
          BY <3>4, <4>1, <4>4
        <4> QED BY <4>2, <4>3, <4>4
      <3> QED BY <2>2, <3>5, <3>6, <3>7 DEF openCall
    <2>3. ASSUME ownerCall PROVE OwnRecordsKept
      <3>1. ASSUME NEW m, Manager!emergencyClearMessages({m}),
                   foreign' = foreign \ {m}
            PROVE  OwnRecordsKept
        BY <1>0, <3>1, OwnIfCleared
      <3>2. ASSUME NEW b, Manager!setPaused(b), UNCHANGED foreign
            PROVE  OwnRecordsKept
        BY <1>0, <3>2, RecordsIfStill, OwnIfKept DEF Manager!setPaused
      <3>3. CASE \E m \in Manager!Registered :
                    Manager!emergencyClearMessages({m}) /\ foreign' = foreign \ {m}
        BY <3>1, <3>3
      <3>4. CASE \E b \in BOOLEAN : Manager!setPaused(b) /\ UNCHANGED foreign
        BY <3>2, <3>4
      <3> QED BY <2>3, <3>3, <3>4 DEF ownerCall
    <2> QED BY <1>7, <2>1, <2>2, <2>3, <1>a, <1>c DEF managerCall
  <1> QED BY <1>1, <1>2, <1>3, <1>4, <1>5, <1>6, <1>7 DEF OrdinaryNext

TrackedStep ==
    \A t \in tokenInTransfer' \ tokenInTransfer :
        (monitoringEnabled /\ ~managerPaused) => TrackedTransfer(t)

LEMMA EnhancedStep ==
    ASSUME EInv, [EnhancedNext]_enhancedVars
    PROVE  EInv' /\ TrackedStep
  <1>1. CASE OrdinaryNext
    BY <1>1, OrdinaryNextStep DEF TrackedStep
  <1>2. ASSUME NEW t \in 0 .. MaxTokens - 1, NEW d, NEW r,
               burnAndTransferEnhanced(t, d, r)
        PROVE  EInv' /\ TrackedStep
    BY <1>2, EnhancedSendStep DEF TrackedStep
  <1>3. ASSUME NEW m \in MsgIds, NEW t, NEW u, adminRecoverToken(m, t, u)
        PROVE  EInv' /\ TrackedStep
    BY <1>3, RecoverStep DEF TrackedStep
  <1>4. CASE UNCHANGED enhancedVars
    <2>1. /\ UNCHANGED bridgeVars /\ UNCHANGED backupVars
          /\ UNCHANGED keeperVars /\ UNCHANGED managerVars
      BY <1>4 DEF enhancedVars
    <2>2. Moves
      BY <2>1, MovesIfStill DEF EInv, Storages, bridgeVars, backupVars
    <2>3. OwnRecordsKept
      BY <2>1, RecordsIfStill, OwnIfKept
      DEF EInv, Records, Typed, managerVars, historyVars
    <2>4. Keepers'
      BY <2>1 DEF EInv, Keepers, keeperVars
    <2>5. EInv'
      BY <2>1, <2>2, <2>3, <2>4, OrdinaryStep
    <2> QED BY <2>1, <2>5 DEF TrackedStep, backupVars
  <1> QED BY <1>1, <1>2, <1>3, <1>4 DEF EnhancedNext, OrdinaryNext

LEMMA EnhancedStart == EnhancedInit => EInv
  <1> SUFFICES ASSUME EnhancedInit PROVE EInv
    OBVIOUS
  <1>0. /\ contracts = [c \in EvmChains |-> EmptyContract]
        /\ calls = {} /\ reverted = {}
        /\ clock = [c \in EvmChains |-> 1]
        /\ mintedOn = [n \in Nfts |-> NoChain]
        /\ tokenInTransfer = {} /\ recoveries = <<>>
        /\ burnedTokenBackup = [m \in MsgIds |-> 0]
        /\ pendingMessages = [m \in MsgIds |-> Manager!DeletedMessage]
        /\ monitoringEnabled = TRUE /\ autoRetryInterval = InitialInterval
        /\ lastAutoRetryRun = 0
    BY DEF EnhancedInit, Init, Manager!Init
  <1>1. Shaped(EmptyContract) /\ DOMAIN EmptyContract.tokens = {}
    BY DEF EmptyContract, Shaped
  <1>2. Storages
    BY <1>0, <1>1, FS_EmptySet DEF Storages
  <1>3. Origins
    BY <1>0, <1>1 DEF Origins
  <1>4. CopiesBounded
    <2> SUFFICES ASSUME NEW n \in Nfts
                 PROVE  Cardinality(LiveTokens(n)) + Cardinality(InFlight(n))
                          <= 1 + Cardinality(RecoveriesOf(n, {FALSE}))
      BY DEF CopiesBounded
    <2>1. LiveTokens(n) = {} /\ InFlight(n) = {}
      BY <1>0, <1>1 DEF LiveTokens, InFlight
    <2>2. Cardinality(LiveTokens(n)) = 0 /\ Cardinality(InFlight(n)) = 0
      BY <2>1, FS_EmptySet
    <2>3. Cardinality(RecoveriesOf(n, {FALSE})) \in Nat
      BY <1>2, CopiesFinite
    <2> QED BY <2>2, <2>3
  <1>5. Marks
    BY <1>0 DEF Marks
  <1>6. Backups
    <2>1. \A m \in MsgIds : 0 \in 0 .. MaxTokens - 1
      BY UniversalNFTBridgeAssumption DEF MsgIds
    <2> QED BY <1>0, <2>1 DEF Backups
  <1>7. Records
    <2>1. /\ Manager!DeletedMessage \in Manager!PendingMessage
          /\ Manager!DeletedMessage.registered = FALSE
      BY DEF Manager!DeletedMessage, Manager!PendingMessage, Manager!MessageStatus
    <2> HIDE DEF Manager!DeletedMessage, Manager!PendingMessage
    <2> QED BY <1>0, <2>1 DEF Records, Manager!Registered
  <1>8. Keepers
    BY <1>0, UniversalNFTEnhancedAssumption DEF Keepers
  <1> QED BY <1>2, <1>3, <1>4, <1>5, <1>6, <1>7, <1>8 DEF EInv

----------------------------------------------------------------------------
(* Theorems *)

\* EInv holds in every reachable state of the enhanced contract, whatever is
\* minted, sent, delivered, reverted, recovered, reported or retried.
THEOREM Invariance == EnhancedSpec => []EInv
  <1>1. EInv /\ [EnhancedNext]_enhancedVars => EInv'
    BY EnhancedStep
  <1> QED BY EnhancedStart, <1>1, PTL DEF EnhancedSpec

\* Every variable of UniversalNFTEnhanced keeps its type.
THEOREM TypeCorrect == EnhancedSpec => []EnhancedTypeOK
  <1>1. ASSUME EInv PROVE EnhancedTypeOK
    <2>1. ASSUME NEW c \in EvmChains, NEW t \in DOMAIN contracts[c].tokens
          PROVE  /\ t \in 0 .. contracts[c].tokenIdCounter - 1
                 /\ contracts[c].tokens[t].originChain \in EvmChains \cup {NoChain}
      <3>1. t \in 0 .. contracts[c].tokenIdCounter - 1
        BY <1>1 DEF EInv, Storages, Shaped
      <3>2. Origin(contracts[c].tokens[t].metadataUri,
                   contracts[c].tokens[t].originChain)
        BY <1>1 DEF EInv, Origins
      <3> QED BY <3>1, <3>2 DEF Origin
    <2> QED BY <1>1, <2>1 DEF EInv, Storages, Marks, Backups, Records, Keepers,
                              EnhancedTypeOK
  <1> QED BY Invariance, <1>1, PTL

\* An NFT has one copy, and one more for each use of adminRecoverToken before
\* the NFT was lost: retries, error reports and reverts duplicate nothing.
THEOREM CopiesAreBounded == EnhancedSpec => []CopiesBounded
  <1>1. EInv => CopiesBounded
    BY DEF EInv
  <1> QED BY Invariance, <1>1, PTL

\* A copy names the chain of its NFT's mint, or no chain after a recovery.
THEOREM OriginsKeptOrErased == EnhancedSpec => []OriginKeptOrErased
  <1>1. EInv => OriginKeptOrErased
    <2> SUFFICES ASSUME EInv, NEW n \in Nfts, NEW o,
                        \/ \E ct \in LiveTokens(n) :
                              o = contracts[ct[1]].tokens[ct[2]].originChain
                        \/ \E call \in InFlight(n) : o = call.message.originChain
                 PROVE  \/ o = mintedOn[n]
                        \/ o = NoChain /\ RecoveriesOf(n, BOOLEAN) # {}
      BY DEF OriginKeptOrErased
    <2>0. Storages /\ Origins
      BY DEF EInv
    <2>1. Origin(n, o)
      BY <2>0 DEF LiveTokens, InFlight, Origins
    <2>2. \A i \in DOMAIN recoveries : recoveries[i].lost \in BOOLEAN
      <3>1. \A i \in DOMAIN recoveries :
               recoveries[i] \in [nft : Nfts, lost : BOOLEAN]
        <4> DEFINE R == [nft : Nfts, lost : BOOLEAN]
        <4>1. recoveries \in Seq(R)
          BY <2>0 DEF Storages
        <4> HIDE DEF R
        <4>2. \A i \in DOMAIN recoveries : recoveries[i] \in R
          BY <4>1
        <4> QED BY <4>2 DEF R
      <3> QED BY <3>1
    <2>3. ASSUME NEW i \in DOMAIN recoveries, recoveries[i].nft = n
          PROVE  RecoveriesOf(n, BOOLEAN) # {}
      <3>1. i \in RecoveriesOf(n, BOOLEAN)
        BY <2>2, <2>3, Zenon DEF RecoveriesOf
      <3> QED BY <3>1
    <2> QED BY <2>1, <2>3 DEF Origin
  <1> QED BY Invariance, <1>1, PTL

\* A marked token is burned and has one backup; no other token but 0 has any.
THEOREM RecoveredAtMostOnce == EnhancedSpec => []RecoverableOnce
  <1>1. EInv => RecoverableOnce
    <2> SUFFICES ASSUME EInv PROVE RecoverableOnce
      OBVIOUS
    <2>0. Marks /\ Backups
      BY DEF EInv
    <2>1. ASSUME NEW t \in 1 .. MaxTokens - 1
          PROVE  Cardinality({m \in MsgIds : burnedTokenBackup[m] = t})
                    = IF t \in tokenInTransfer THEN 1 ELSE 0
      <3>0. t # 0
        BY UniversalNFTBridgeAssumption
      <3>1. CASE t \in tokenInTransfer
        <4>1. PICK m \in MsgIds : burnedTokenBackup[m] = t
          BY <2>0, <3>0, <3>1 DEF Backups
        <4>2. {k \in MsgIds : burnedTokenBackup[k] = t} = {m}
          BY <2>0, <3>0, <4>1 DEF Backups
        <4> QED BY <3>1, <4>2, FS_Singleton
      <3>2. CASE t \notin tokenInTransfer
        <4>1. {k \in MsgIds : burnedTokenBackup[k] = t} = {}
          BY <2>0, <3>0, <3>2 DEF Backups
        <4> QED BY <3>2, <4>1, FS_EmptySet
      <3> QED BY <3>1, <3>2
    <2> QED BY <2>0, <2>1 DEF RecoverableOnce, Marks
  <1> QED BY Invariance, <1>1, PTL

\* A record of the manager that no stranger registered is that of a message
\* this contract sent, whatever strangers register beside it.
THEOREM RecordsAreOfMessages == EnhancedSpec => []RecordsMatchMessages
  <1>1. EInv => RecordsMatchMessages
    BY DEF EInv, Records, Sent, RecordsMatchMessages
  <1> QED BY Invariance, <1>1, PTL

\* With monitoring on and the manager running, every marked transfer is
\* registered, by the contract or beforehand by a stranger: no record of the
\* contract's own has its id, which holds a nonce no such record has.
THEOREM TransfersAreTracked == EnhancedSpec => MonitoredTransfersTracked
  <1>1. EInv /\ [EnhancedNext]_enhancedVars => [TrackedStep]_enhancedVars
    BY EnhancedStep
  <1>2. [][TrackedStep]_enhancedVars => MonitoredTransfersTracked
    BY PTL DEF TrackedStep, TrackedTransfer, MonitoredTransfersTracked
  <1> QED BY Invariance, <1>1, <1>2, PTL DEF EnhancedSpec
=============================================================================
