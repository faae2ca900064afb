---------------------- MODULE UniversalNFTBridgeProofs ----------------------
(***************************************************************************)
(* Theorems about UniversalNFTBridge: type correctness, one copy of every  *)
(* NFT, its provenance, token ids that are not reused, and that the bridge *)
(* implements NFTLedger.                                                   *)
(***************************************************************************)
EXTENDS UniversalNFTBridge, FiniteSetTheorems, TLAPS

----------------------------------------------------------------------------
(* The inductive invariant *)

StorageOK(s) ==
    /\ s = [tokens |-> s.tokens, tokenIdCounter |-> s.tokenIdCounter,
            processedMessages |-> s.processedMessages,
            userNonces |-> s.userNonces, paused |-> s.paused]
    /\ s.tokens = [t \in DOMAIN s.tokens |-> s.tokens[t]]
    /\ s.tokenIdCounter \in 0 .. MaxTokens
    /\ DOMAIN s.tokens \subseteq 0 .. s.tokenIdCounter - 1
    /\ \A t \in DOMAIN s.tokens : s.tokens[t] \in Token
    /\ s.processedMessages \subseteq MessageIds
    /\ s.userNonces \in [Users -> Nat]
    /\ s.paused \in BOOLEAN

Types ==
    /\ contracts = [c \in EvmChains |-> contracts[c]]
    /\ \A c \in EvmChains : StorageOK(contracts[c])
    /\ zetaChainUniversalNFT \in {ZetaChain, Nowhere}
    /\ calls \subseteq Call
    /\ clock \in [EvmChains -> Nat]
    /\ mintedOn \in [Nfts -> EvmChains \cup {NoChain}]
    /\ reverted \subseteq Call

\* The nonce of a message id was taken by its sender on chain c.
Taken(c, id) == id[4] < contracts[c].userNonces[id[1]]

\* Ids are unique among the calls of one contract, because each takes a nonce;
\* no contract calls itself, so a receiver hears from one contract only.
IdsOK ==
    /\ \A call \in calls :
          /\ call.from # call.to
          /\ Taken(call.from, call.message.messageId)
    /\ \A x, y \in calls :
          x.from = y.from /\ x.message.messageId = y.message.messageId => x = y
    /\ \A c, d \in EvmChains : c # d =>
          \A id \in contracts[c].processedMessages : Taken(d, id)

AtMostOne(S) == \A x, y \in S : x = y

CopiesOK ==
    \A n \in Nfts :
        /\ AtMostOne(LiveTokens(n)) /\ AtMostOne(InFlight(n))
        /\ LiveTokens(n) = {} \/ InFlight(n) = {}
        /\ mintedOn[n] = NoChain => LiveTokens(n) = {} /\ InFlight(n) = {}

IInv == Types /\ IdsOK /\ CopiesOK /\ ProvenanceKept

----------------------------------------------------------------------------
(* What the operators of NFTContract do to a storage *)

LEMMA WithToken ==
    ASSUME NEW s, StorageOK(s), NEW token \in Token,
           s.tokenIdCounter < MaxTokens
    PROVE  LET w == withToken(s, token)
           IN  /\ StorageOK(w)
               /\ w.tokenIdCounter = s.tokenIdCounter + 1
               /\ DOMAIN w.tokens = DOMAIN s.tokens \cup {s.tokenIdCounter}
               /\ w.tokens[s.tokenIdCounter] = token
               /\ \A t \in DOMAIN s.tokens : w.tokens[t] = s.tokens[t]
               /\ w.processedMessages = s.processedMessages
               /\ w.userNonces = s.userNonces
  <1> DEFINE w == withToken(s, token)
             ctr == s.tokenIdCounter
             tok == [t \in DOMAIN s.tokens \cup {ctr} |->
                        IF t = ctr THEN token ELSE s.tokens[t]]
  <1>1. w = [tokens |-> tok, tokenIdCounter |-> ctr + 1,
             processedMessages |-> s.processedMessages,
             userNonces |-> s.userNonces, paused |-> s.paused]
    <2>1. w = [s EXCEPT !.tokenIdCounter = ctr + 1, !.tokens = tok]
      BY DEF withToken
    <2> HIDE DEF tok, w
    <2> QED BY <2>1 DEF StorageOK
  <1>2. MaxTokens \in Nat /\ ctr \in 0 .. MaxTokens /\ ctr < MaxTokens
    BY UniversalNFTBridgeAssumption DEF StorageOK
  <1>3. DOMAIN s.tokens \subseteq 0 .. ctr - 1
    BY DEF StorageOK
  <1>4. /\ DOMAIN tok = DOMAIN s.tokens \cup {ctr}
        /\ tok[ctr] = token
        /\ \A t \in DOMAIN s.tokens : tok[t] = s.tokens[t]
    BY <1>2, <1>3
  <1>5. tok = [t \in DOMAIN tok |-> tok[t]]
    BY Zenon
  <1>6. \A t \in DOMAIN tok : tok[t] \in Token
    BY <1>4 DEF StorageOK
  <1>7. DOMAIN tok \subseteq 0 .. (ctr + 1) - 1 /\ ctr + 1 \in 0 .. MaxTokens
    BY <1>2, <1>3, <1>4
  <1> HIDE DEF tok
  <1>8. StorageOK(w)
    BY <1>1, <1>5, <1>6, <1>7 DEF StorageOK
  <1> QED BY <1>1, <1>4, <1>8

LEMMA WithoutToken ==
    ASSUME NEW s, StorageOK(s), NEW tokenId
    PROVE  LET w == withoutToken(s, tokenId)
           IN  /\ StorageOK(w)
               /\ w.tokenIdCounter = s.tokenIdCounter
               /\ DOMAIN w.tokens = DOMAIN s.tokens \ {tokenId}
               /\ \A t \in DOMAIN w.tokens : w.tokens[t] = s.tokens[t]
               /\ w.processedMessages = s.processedMessages
               /\ w.userNonces = s.userNonces
  <1> DEFINE w == withoutToken(s, tokenId)
             tok == [t \in DOMAIN s.tokens \ {tokenId} |-> s.tokens[t]]
  <1>1. w = [tokens |-> tok, tokenIdCounter |-> s.tokenIdCounter,
             processedMessages |-> s.processedMessages,
             userNonces |-> s.userNonces, paused |-> s.paused]
    BY DEF withoutToken, StorageOK
  <1>2. /\ DOMAIN tok = DOMAIN s.tokens \ {tokenId}
        /\ \A t \in DOMAIN tok : tok[t] = s.tokens[t]
    OBVIOUS
  <1>3. tok = [t \in DOMAIN tok |-> tok[t]]
    BY Zenon
  <1> HIDE DEF tok
  <1>4. StorageOK(w)
    BY <1>1, <1>2, <1>3 DEF StorageOK
  <1> QED BY <1>1, <1>2, <1>4

LEMMA AfterTransfer ==
    ASSUME NEW s, StorageOK(s), NEW tokenId \in DOMAIN s.tokens,
           s.tokens[tokenId].owner \in Users
    PROVE  LET w == afterTransfer(s, tokenId)
               u == s.tokens[tokenId].owner
           IN  /\ StorageOK(w)
               /\ w.tokenIdCounter = s.tokenIdCounter
               /\ DOMAIN w.tokens = DOMAIN s.tokens \ {tokenId}
               /\ \A t \in DOMAIN w.tokens : w.tokens[t] = s.tokens[t]
               /\ w.processedMessages = s.processedMessages
               /\ w.userNonces[u] = s.userNonces[u] + 1
               /\ \A v \in Users : w.userNonces[v] >= s.userNonces[v]
  <1> DEFINE u == s.tokens[tokenId].owner
             p == [s EXCEPT !.userNonces[u] = @ + 1]
  <1>1. p = [tokens |-> s.tokens, tokenIdCounter |-> s.tokenIdCounter,
             processedMessages |-> s.processedMessages,
             userNonces |-> [s.userNonces EXCEPT ![u] = @ + 1],
             paused |-> s.paused]
    BY DEF StorageOK
  <1>2. /\ [s.userNonces EXCEPT ![u] = @ + 1] \in [Users -> Nat]
        /\ [s.userNonces EXCEPT ![u] = @ + 1][u] = s.userNonces[u] + 1
        /\ \A v \in Users : [s.userNonces EXCEPT ![u] = @ + 1][v] >= s.userNonces[v]
    BY DEF StorageOK
  <1>3. StorageOK(p)
    BY <1>1, <1>2 DEF StorageOK
  <1>4. afterTransfer(s, tokenId) = withoutToken(p, tokenId)
    BY DEF afterTransfer
  <1>5. /\ p.tokens = s.tokens /\ p.tokenIdCounter = s.tokenIdCounter
        /\ p.processedMessages = s.processedMessages
        /\ p.userNonces = [s.userNonces EXCEPT ![u] = @ + 1]
    BY <1>1
  <1> HIDE DEF p
  <1> DEFINE w == withoutToken(p, tokenId)
  <1>6. /\ StorageOK(w)
        /\ w.tokenIdCounter = p.tokenIdCounter
        /\ DOMAIN w.tokens = DOMAIN p.tokens \ {tokenId}
        /\ \A t \in DOMAIN w.tokens : w.tokens[t] = p.tokens[t]
        /\ w.processedMessages = p.processedMessages
        /\ w.userNonces = p.userNonces
    BY <1>3, WithoutToken
  <1> QED BY <1>2, <1>4, <1>5, <1>6

LEMMA MarkedOK ==
    ASSUME NEW s, StorageOK(s), NEW id \in MessageIds
    PROVE  LET w == [s EXCEPT !.processedMessages = @ \cup {id}]
           IN  /\ StorageOK(w)
               /\ w.tokenIdCounter = s.tokenIdCounter /\ w.tokens = s.tokens
               /\ w.processedMessages = s.processedMessages \cup {id}
               /\ w.userNonces = s.userNonces
  <1> DEFINE ids == s.processedMessages \cup {id}
             w == [s EXCEPT !.processedMessages = ids]
  <1>1. ids \subseteq MessageIds
    BY DEF StorageOK
  <1> HIDE DEF ids
  <1>2. w = [tokens |-> s.tokens, tokenIdCounter |-> s.tokenIdCounter,
             processedMessages |-> ids,
             userNonces |-> s.userNonces, paused |-> s.paused]
    BY DEF StorageOK
  <1> HIDE DEF w
  <1>3. StorageOK(w)
    BY <1>1, <1>2 DEF StorageOK
  <1>4. /\ w.tokenIdCounter = s.tokenIdCounter /\ w.tokens = s.tokens
        /\ w.processedMessages = ids /\ w.userNonces = s.userNonces
    BY <1>2
  <1> QED BY <1>3, <1>4 DEF w, ids

LEMMA AfterCall ==
    ASSUME NEW s, StorageOK(s), NEW message \in Message,
           s.tokenIdCounter < MaxTokens
    PROVE  LET w == afterCall(s, message)
           IN  /\ StorageOK(w)
               /\ w.tokenIdCounter = s.tokenIdCounter + 1
               /\ DOMAIN w.tokens = DOMAIN s.tokens \cup {s.tokenIdCounter}
               /\ w.tokens[s.tokenIdCounter] = received(message)
               /\ \A t \in DOMAIN s.tokens : w.tokens[t] = s.tokens[t]
               /\ w.processedMessages =
                     s.processedMessages \cup {message.messageId}
               /\ w.userNonces = s.userNonces
  <1> DEFINE p == [s EXCEPT !.processedMessages = @ \cup {message.messageId}]
  <1>0. message.messageId \in MessageIds
    BY DEF Message
  <1>1. /\ StorageOK(p)
        /\ p.tokenIdCounter = s.tokenIdCounter /\ p.tokens = s.tokens
        /\ p.processedMessages = s.processedMessages \cup {message.messageId}
        /\ p.userNonces = s.userNonces
    BY <1>0, MarkedOK
  <1>2. StorageOK(p)
    BY <1>1
  <1>3. received(message) \in Token
    BY UniversalNFTBridgeAssumption
    DEF received, Token, Message, addressOf, Owners
  <1>4. afterCall(s, message) = withToken(p, received(message))
    BY DEF afterCall
  <1>5. /\ p.tokens = s.tokens /\ p.tokenIdCounter = s.tokenIdCounter
        /\ p.processedMessages = s.processedMessages \cup {message.messageId}
        /\ p.userNonces = s.userNonces
    BY <1>1
  <1> HIDE DEF p
  <1> DEFINE w == withToken(p, received(message))
  <1>6. /\ StorageOK(w)
        /\ w.tokenIdCounter = p.tokenIdCounter + 1
        /\ DOMAIN w.tokens = DOMAIN p.tokens \cup {p.tokenIdCounter}
        /\ w.tokens[p.tokenIdCounter] = received(message)
        /\ \A t \in DOMAIN p.tokens : w.tokens[t] = p.tokens[t]
        /\ w.processedMessages = p.processedMessages
        /\ w.userNonces = p.userNonces
    BY <1>2, <1>3, <1>5, WithToken
  <1> QED BY <1>4, <1>5, <1>6

LEMMA PausedOK ==
    ASSUME NEW s, StorageOK(s), NEW b \in BOOLEAN
    PROVE  LET w == [s EXCEPT !.paused = b]
           IN  /\ StorageOK(w)
               /\ w.tokenIdCounter = s.tokenIdCounter /\ w.tokens = s.tokens
               /\ w.processedMessages = s.processedMessages
               /\ w.userNonces = s.userNonces
  <1> DEFINE w == [s EXCEPT !.paused = b]
  <1>1. w = [tokens |-> s.tokens, tokenIdCounter |-> s.tokenIdCounter,
             processedMessages |-> s.processedMessages,
             userNonces |-> s.userNonces, paused |-> b]
    BY DEF StorageOK
  <1> HIDE DEF w
  <1> QED BY <1>1 DEF StorageOK

LEMMA GivenOK ==
    ASSUME NEW s, StorageOK(s), NEW tokenId \in DOMAIN s.tokens, NEW to \in Owners
    PROVE  LET w == [s EXCEPT !.tokens[tokenId].owner = to]
           IN  /\ StorageOK(w)
               /\ w.tokenIdCounter = s.tokenIdCounter
               /\ DOMAIN w.tokens = DOMAIN s.tokens
               /\ w.tokens[tokenId] = [s.tokens[tokenId] EXCEPT !.owner = to]
               /\ \A t \in DOMAIN s.tokens \ {tokenId} : w.tokens[t] = s.tokens[t]
               /\ w.processedMessages = s.processedMessages
               /\ w.userNonces = s.userNonces
  <1> DEFINE w == [s EXCEPT !.tokens[tokenId].owner = to]
             tok == [s.tokens EXCEPT ![tokenId] = [@ EXCEPT !.owner = to]]
  <1>1. w = [tokens |-> tok, tokenIdCounter |-> s.tokenIdCounter,
             processedMessages |-> s.processedMessages,
             userNonces |-> s.userNonces, paused |-> s.paused]
    BY DEF StorageOK
  <1>2. /\ DOMAIN tok = DOMAIN s.tokens
        /\ tok[tokenId] = [s.tokens[tokenId] EXCEPT !.owner = to]
        /\ \A t \in DOMAIN s.tokens \ {tokenId} : tok[t] = s.tokens[t]
    BY DEF StorageOK
  <1>3. tok = [t \in DOMAIN tok |-> tok[t]]
    BY DEF StorageOK
  <1>4. \A t \in DOMAIN tok : tok[t] \in Token
    BY <1>2 DEF StorageOK, Token
  <1> HIDE DEF tok
  <1>5. StorageOK(w)
    BY <1>1, <1>2, <1>3, <1>4 DEF StorageOK
  <1> QED BY <1>1, <1>2, <1>5

----------------------------------------------------------------------------
(* Where the copies of an NFT are *)

LiveAt(cs, n) ==
    {ct \in EvmChains \X (0 .. MaxTokens - 1) :
        /\ ct[2] \in DOMAIN cs[ct[1]].tokens
        /\ cs[ct[1]].tokens[ct[2]].metadataUri = n}

ProcessedAt(cs, call) ==
    /\ call.to \in EvmChains
    /\ call.message.messageId \in cs[call.to].processedMessages

FlightAt(cs, cl, n) ==
    {call \in cl : call.message.metadataUri = n /\ ~ProcessedAt(cs, call)}

StoragesOK(cs) == \A c \in EvmChains : StorageOK(cs[c])

LEMMA Views ==
    ASSUME NEW n
    PROVE  /\ LiveTokens(n) = LiveAt(contracts, n)
           /\ LiveTokens(n)' = LiveAt(contracts', n)
           /\ InFlight(n) = FlightAt(contracts, calls, n)
           /\ InFlight(n)' = FlightAt(contracts', calls', n)
  BY DEF LiveTokens, LiveAt, InFlight, FlightAt, Processed, ProcessedAt

LEMMA LiveIs ==
    ASSUME NEW cs, StoragesOK(cs), NEW n
    PROVE  /\ \A c \in EvmChains : \A t \in DOMAIN cs[c].tokens :
                 <<c, t>> \in LiveAt(cs, n) <=> cs[c].tokens[t].metadataUri = n
           /\ \A x \in LiveAt(cs, n) :
                 /\ x[1] \in EvmChains /\ x[2] \in DOMAIN cs[x[1]].tokens
                 /\ x = <<x[1], x[2]>>
                 /\ cs[x[1]].tokens[x[2]].metadataUri = n
  <1>1. ASSUME NEW c \in EvmChains, NEW t \in DOMAIN cs[c].tokens
        PROVE  t \in 0 .. MaxTokens - 1
    <2>1. /\ cs[c].tokenIdCounter \in 0 .. MaxTokens
          /\ t \in 0 .. cs[c].tokenIdCounter - 1
      BY DEF StoragesOK, StorageOK
    <2>2. MaxTokens \in Nat
      BY UniversalNFTBridgeAssumption
    <2> QED BY <2>1, <2>2
  <1> QED BY <1>1 DEF LiveAt

LEMMA LiveAdded ==
    ASSUME NEW cs, StoragesOK(cs), NEW new, StoragesOK(new),
           NEW c \in EvmChains, NEW t,
           \A d \in EvmChains \ {c} : new[d] = cs[d],
           DOMAIN new[c].tokens = DOMAIN cs[c].tokens \cup {t},
           t \notin DOMAIN cs[c].tokens,
           \A u \in DOMAIN cs[c].tokens : new[c].tokens[u] = cs[c].tokens[u],
           NEW n
    PROVE  LiveAt(new, n) = IF new[c].tokens[t].metadataUri = n
                            THEN LiveAt(cs, n) \cup {<<c, t>>} ELSE LiveAt(cs, n)
  <1>1. \A d \in EvmChains : \A u \in DOMAIN cs[d].tokens :
           u \in DOMAIN new[d].tokens /\ new[d].tokens[u] = cs[d].tokens[u]
    OBVIOUS
  <1>2. \A d \in EvmChains : \A u \in DOMAIN new[d].tokens :
           (d = c /\ u = t) \/ u \in DOMAIN cs[d].tokens
    OBVIOUS
  <1>3. t \in DOMAIN new[c].tokens
    OBVIOUS
  <1>4. \A x \in LiveAt(cs, n) : x \in LiveAt(new, n)
    BY <1>1, LiveIs
  <1>5. \A x \in LiveAt(new, n) :
           \/ x = <<c, t>> /\ new[c].tokens[t].metadataUri = n
           \/ x \in LiveAt(cs, n)
    BY <1>1, <1>2, LiveIs
  <1>6. new[c].tokens[t].metadataUri = n => <<c, t>> \in LiveAt(new, n)
    BY <1>3, LiveIs
  <1> QED BY <1>4, <1>5, <1>6

LEMMA LiveRemoved ==
    ASSUME NEW cs, StoragesOK(cs), NEW new, StoragesOK(new),
           NEW c \in EvmChains, NEW t \in DOMAIN cs[c].tokens,
           \A d \in EvmChains \ {c} : new[d] = cs[d],
           DOMAIN new[c].tokens = DOMAIN cs[c].tokens \ {t},
           \A u \in DOMAIN new[c].tokens : new[c].tokens[u] = cs[c].tokens[u],
           NEW n
    PROVE  LiveAt(new, n) = LiveAt(cs, n) \ {<<c, t>>}
  <1>1. \A d \in EvmChains : \A u \in DOMAIN new[d].tokens :
           /\ u \in DOMAIN cs[d].tokens /\ new[d].tokens[u] = cs[d].tokens[u]
           /\ ~(d = c /\ u = t)
    OBVIOUS
  <1>2. \A d \in EvmChains : \A u \in DOMAIN cs[d].tokens :
           (d = c /\ u = t) \/ u \in DOMAIN new[d].tokens
    OBVIOUS
  <1>3. \A x \in LiveAt(new, n) : x \in LiveAt(cs, n) /\ x # <<c, t>>
    BY <1>1, LiveIs
  <1>4. \A x \in LiveAt(cs, n) : x = <<c, t>> \/ x \in LiveAt(new, n)
    BY <1>1, <1>2, LiveIs
  <1> QED BY <1>3, <1>4

LEMMA LiveSame ==
    ASSUME NEW cs, StoragesOK(cs), NEW new, StoragesOK(new),
           \A d \in EvmChains :
              /\ DOMAIN new[d].tokens = DOMAIN cs[d].tokens
              /\ \A u \in DOMAIN cs[d].tokens :
                    new[d].tokens[u].metadataUri = cs[d].tokens[u].metadataUri,
           NEW n
    PROVE  LiveAt(new, n) = LiveAt(cs, n)
  <1>1. \A x \in LiveAt(new, n) : x \in LiveAt(cs, n)
    BY LiveIs
  <1>2. \A x \in LiveAt(cs, n) : x \in LiveAt(new, n)
    BY LiveIs
  <1> QED BY <1>1, <1>2

LEMMA FlightSame ==
    ASSUME NEW cs, NEW new, NEW cl, NEW n,
           \A d \in EvmChains : new[d].processedMessages = cs[d].processedMessages
    PROVE  FlightAt(new, cl, n) = FlightAt(cs, cl, n)
  BY DEF FlightAt, ProcessedAt

\* An id that is marked takes its call out of flight, and no other call.
LEMMA FlightMarked ==
    ASSUME NEW cs, NEW new, NEW cl, NEW c \in EvmChains, NEW call \in cl,
           call.to = c,
           new[c].processedMessages =
              cs[c].processedMessages \cup {call.message.messageId},
           \A d \in EvmChains \ {c} :
              new[d].processedMessages = cs[d].processedMessages,
           \A x \in cl : x.to = c /\ x.message.messageId = call.message.messageId
                            => x = call,
           NEW n
    PROVE  FlightAt(new, cl, n) = FlightAt(cs, cl, n) \ {call}
  <1>1. \A x \in cl : ProcessedAt(new, x) <=> ProcessedAt(cs, x) \/ x = call
    BY DEF ProcessedAt
  <1> QED BY <1>1 DEF FlightAt

----------------------------------------------------------------------------
(* What a step does to the copies of an NFT *)

Untouched(n) ==
    /\ LiveTokens(n)' = LiveTokens(n) /\ InFlight(n)' = InFlight(n)
    /\ mintedOn'[n] = mintedOn[n]
    /\ \A ct \in LiveTokens(n) :
          contracts'[ct[1]].tokens[ct[2]] = contracts[ct[1]].tokens[ct[2]]

Minted(n) ==
    \E c \in EvmChains, t \in Nat :
        /\ mintedOn[n] = NoChain /\ mintedOn' = [mintedOn EXCEPT ![n] = c]
        /\ LiveTokens(n)' = LiveTokens(n) \cup {<<c, t>>}
        /\ InFlight(n)' = InFlight(n)
        /\ contracts'[c].tokens[t].originChain = c

Departed(n) ==
    \E c \in EvmChains, t \in Nat, call \in calls' :
        /\ mintedOn' = mintedOn
        /\ <<c, t>> \in LiveTokens(n)
        /\ LiveTokens(n)' = LiveTokens(n) \ {<<c, t>>}
        /\ InFlight(n)' = InFlight(n) \cup {call}
        /\ call.message.originChain = contracts[c].tokens[t].originChain

Arrived(n) ==
    \E c \in EvmChains, t \in Nat, call \in InFlight(n) :
        /\ mintedOn' = mintedOn
        /\ LiveTokens(n)' = LiveTokens(n) \cup {<<c, t>>}
        /\ InFlight(n)' = InFlight(n) \ {call}
        /\ contracts'[c].tokens[t].originChain = call.message.originChain

Gone(n) ==
    \E call \in InFlight(n) :
        /\ mintedOn' = mintedOn
        /\ LiveTokens(n)' = LiveTokens(n)
        /\ InFlight(n)' = InFlight(n) \ {call}

Given(n) ==
    \E ct \in LiveTokens(n) :
        /\ mintedOn' = mintedOn
        /\ LiveTokens(n)' = LiveTokens(n) /\ InFlight(n)' = InFlight(n)
        /\ contracts'[ct[1]].tokens[ct[2]].originChain =
              contracts[ct[1]].tokens[ct[2]].originChain

CopiesStep ==
    \/ mintedOn' = mintedOn /\ \A n \in Nfts : Untouched(n)
    \/ \E n \in Nfts :
          /\ \A m \in Nfts \ {n} : Untouched(m)
          /\ Minted(n) \/ Departed(n) \/ Arrived(n) \/ Gone(n) \/ Given(n)

----------------------------------------------------------------------------
(* The actions keep types and ids, and make a step of the copies *)

LEMMA UpdateOK ==
    ASSUME Types, NEW c \in EvmChains, NEW w, StorageOK(w), Update(c, w)
    PROVE  /\ contracts' = [d \in EvmChains |-> contracts'[d]]
           /\ contracts'[c] = w
           /\ \A d \in EvmChains \ {c} : contracts'[d] = contracts[d]
           /\ StoragesOK(contracts) /\ StoragesOK(contracts')
  <1>1. /\ contracts = [d \in EvmChains |-> contracts[d]]
        /\ contracts' = [contracts EXCEPT ![c] = w]
        /\ StoragesOK(contracts)
    BY DEF Types, Update, StoragesOK
  <1>2. /\ contracts' = [d \in EvmChains |-> contracts'[d]]
        /\ contracts'[c] = w
        /\ \A d \in EvmChains \ {c} : contracts'[d] = contracts[d]
    BY <1>1
  <1> QED BY <1>1, <1>2 DEF StoragesOK

LEMMA MintStep ==
    ASSUME IInv, NEW c \in EvmChains, NEW to \in Users, NEW nft \in Nfts,
           mint(c, to, nft)
    PROVE  Types' /\ IdsOK' /\ CopiesStep
  <1> DEFINE s == contracts[c]
             token == mintedHere(to, nft, c)
             w == withToken(s, token)
  <1> USE DEF IInv
  <1>1. token \in Token
    BY UniversalNFTBridgeAssumption DEF mintedHere, Token, Owners
  <1>2. StorageOK(s) /\ s.tokenIdCounter < MaxTokens
    BY DEF Types, mint
  <1>3. /\ StorageOK(w)
        /\ DOMAIN w.tokens = DOMAIN s.tokens \cup {s.tokenIdCounter}
        /\ w.tokens[s.tokenIdCounter] = token
        /\ \A t \in DOMAIN s.tokens : w.tokens[t] = s.tokens[t]
        /\ w.processedMessages = s.processedMessages
        /\ w.userNonces = s.userNonces
    BY <1>1, <1>2, WithToken
  <1>4. /\ Update(c, w)
        /\ mintedOn[nft] = NoChain /\ mintedOn' = [mintedOn EXCEPT ![nft] = c]
        /\ UNCHANGED <<zetaChainUniversalNFT, calls, clock, reverted>>
    BY DEF mint
  <1> DEFINE k == s.tokenIdCounter
  <1> HIDE DEF w, k
  <1>5. /\ contracts' = [d \in EvmChains |-> contracts'[d]]
        /\ contracts'[c] = w
        /\ \A d \in EvmChains \ {c} : contracts'[d] = contracts[d]
        /\ StoragesOK(contracts) /\ StoragesOK(contracts')
    BY <1>3, <1>4, UpdateOK
  <1>6. Types'
    BY <1>4, <1>5 DEF Types, StoragesOK
  <1>7. \A d \in EvmChains :
           /\ contracts'[d].processedMessages = contracts[d].processedMessages
           /\ contracts'[d].userNonces = contracts[d].userNonces
    BY <1>3, <1>5
  <1>8. IdsOK'
    BY <1>4, <1>7 DEF IdsOK, Taken, Types, Call
  <1>9. k \notin DOMAIN s.tokens
    BY <1>2 DEF StorageOK, k
  <1>10. \A n \in Nfts :
           /\ LiveTokens(n)' = IF n = nft THEN LiveTokens(n) \cup {<<c, k>>}
                               ELSE LiveTokens(n)
           /\ InFlight(n)' = InFlight(n)
    <2> TAKE n \in Nfts
    <2>1. contracts'[c].tokens[k].metadataUri = nft
      BY <1>3, <1>5 DEF k, mintedHere
    <2>2. LiveAt(contracts', n) = IF n = nft
             THEN LiveAt(contracts, n) \cup {<<c, k>>} ELSE LiveAt(contracts, n)
      BY <2>1, <1>3, <1>5, <1>9, LiveAdded DEF k
    <2>3. FlightAt(contracts', calls', n) = FlightAt(contracts, calls, n)
      BY <1>4, <1>7, FlightSame
    <2> QED BY <2>2, <2>3, Views
  <1>11. \A m \in Nfts \ {nft} : Untouched(m)
    <2> TAKE m \in Nfts \ {nft}
    <2>1. mintedOn'[m] = mintedOn[m]
      BY <1>4 DEF Types
    <2>2. \A ct \in LiveTokens(m) :
             contracts'[ct[1]].tokens[ct[2]] = contracts[ct[1]].tokens[ct[2]]
      BY <1>3, <1>5, LiveIs, Views
    <2> QED BY <1>10, <2>1, <2>2 DEF Untouched
  <1>12. Minted(nft)
    <2>1. contracts'[c].tokens[k].originChain = c
      BY <1>3, <1>5 DEF k, mintedHere
    <2>2. k \in Nat
      BY <1>2, UniversalNFTBridgeAssumption DEF k, StorageOK
    <2> QED BY <1>4, <1>10, <2>1, <2>2 DEF Minted
  <1> QED BY <1>6, <1>8, <1>11, <1>12 DEF CopiesStep

LEMMA BurnStep ==
    ASSUME IInv, NEW c \in EvmChains, NEW receiver \in (EvmChains \cup {Solana, Nowhere}),
           receiver # c, NEW t \in 0 .. MaxTokens - 1,
           NEW dest \in EvmChains \cup {Solana},
           NEW r \in Users \cup SolanaKeys,
           burnAndSend(c, receiver, t, dest, r)
    PROVE  Types' /\ IdsOK' /\ CopiesStep
  <1> DEFINE s == contracts[c]
             w == afterTransfer(s, t)
             u == s.tokens[t].owner
             m == transferMessage(s, t, dest, r, clock[c])
             call == [from |-> c, to |-> receiver, message |-> m]
  <1> USE DEF IInv
  <1>1. /\ StorageOK(s) /\ t \in DOMAIN s.tokens /\ u \in Users
        /\ s.tokens[t] \in Token /\ clock[c] \in Nat /\ s.userNonces[u] \in Nat
    BY DEF Types, StorageOK, burnAndSend, canTransfer
  <1> PICK nft \in Nfts : nft = s.tokens[t].metadataUri
    BY <1>1 DEF Token
  <1>2. /\ StorageOK(w)
        /\ DOMAIN w.tokens = DOMAIN s.tokens \ {t}
        /\ \A i \in DOMAIN w.tokens : w.tokens[i] = s.tokens[i]
        /\ w.processedMessages = s.processedMessages
        /\ w.userNonces[u] = s.userNonces[u] + 1
        /\ \A v \in Users : w.userNonces[v] >= s.userNonces[v]
    BY <1>1, AfterTransfer
  <1>3. /\ Update(c, w) /\ calls' = calls \cup {call}
        /\ UNCHANGED <<zetaChainUniversalNFT, clock, mintedOn, reverted>>
    BY DEF burnAndSend
  <1>4. /\ m = [tokenId |-> t, metadataUri |-> nft, recipient |-> r,
                originChain |-> s.tokens[t].originChain,
                destinationChain |-> dest,
                messageId |-> <<u, t, dest, s.userNonces[u], clock[c]>>,
                timestamp |-> clock[c], nonce |-> s.userNonces[u]]
    BY DEF transferMessage, generateMessageId
  <1>5. m \in Message /\ m.messageId \in MessageIds
    <2>1. t \in Nat /\ s.tokens[t].originChain \in EvmChains
      BY <1>1, UniversalNFTBridgeAssumption DEF Token
    <2>2. <<u, t, dest, s.userNonces[u], clock[c]>> \in MessageIds
      BY <1>1, <2>1 DEF MessageIds
    <2> QED BY <1>1, <1>4, <2>1, <2>2 DEF Message
  <1>6. call \in Call
    BY <1>5 DEF Call
  <1>7. /\ call.from = c /\ call.to = receiver /\ call.message = m
        /\ m.messageId[1] = u /\ m.messageId[4] = s.userNonces[u]
        /\ m.metadataUri = nft /\ m.originChain = s.tokens[t].originChain
    BY <1>4
  <1> HIDE DEF w, m, call
  <1>8. /\ contracts' = [d \in EvmChains |-> contracts'[d]]
        /\ contracts'[c] = w
        /\ \A d \in EvmChains \ {c} : contracts'[d] = contracts[d]
        /\ StoragesOK(contracts) /\ StoragesOK(contracts')
    BY <1>2, <1>3, UpdateOK
  <1>9. Types'
    BY <1>3, <1>6, <1>8 DEF Types, StoragesOK
  <1>10. \A d \in EvmChains :
            /\ contracts'[d].processedMessages = contracts[d].processedMessages
            /\ contracts[d].userNonces \in [Users -> Nat]
            /\ contracts'[d].userNonces \in [Users -> Nat]
            /\ \A v \in Users :
                  contracts'[d].userNonces[v] >= contracts[d].userNonces[v]
    <2>1. \A d \in EvmChains : /\ contracts[d].userNonces \in [Users -> Nat]
                               /\ contracts'[d].userNonces \in [Users -> Nat]
      BY <1>8 DEF StoragesOK, StorageOK
    <2>2. \A d \in EvmChains \ {c} : contracts'[d] = contracts[d]
      BY <1>8
    <2>3. \A d \in EvmChains \ {c} : \A v \in Users :
             contracts'[d].userNonces[v] >= contracts[d].userNonces[v]
      BY <2>1, <2>2
    <2> QED BY <1>2, <1>8, <2>1, <2>3
  <1>11. IdsOK'
    <2>1. \A d \in EvmChains, id \in MessageIds :
             Taken(d, id) => Taken(d, id)'
      BY <1>10 DEF Taken, MessageIds
    <2>2. ASSUME NEW x \in calls
          PROVE  /\ x.from # x.to /\ Taken(x.from, x.message.messageId)
                 /\ x.from \in EvmChains /\ x.message.messageId \in MessageIds
      BY DEF IdsOK, Types, Call, Message
    <2>3. /\ m.messageId[4] < contracts'[c].userNonces[m.messageId[1]]
          /\ ~Taken(c, m.messageId)
      BY <1>2, <1>7, <1>8, <1>10, <1>1 DEF Taken
    <2>4. \A x \in calls' : x.from # x.to /\ Taken(x.from, x.message.messageId)'
      BY <1>3, <1>7, <2>1, <2>2, <2>3 DEF Taken
    <2>5. \A x, y \in calls' :
             x.from = y.from /\ x.message.messageId = y.message.messageId => x = y
      BY <1>3, <1>7, <2>2, <2>3 DEF IdsOK
    <2>6. \A d, e \in EvmChains : d # e =>
             \A id \in contracts'[d].processedMessages : Taken(e, id)'
      BY <1>10, <2>1 DEF IdsOK, Types, StorageOK
    <2> QED BY <2>4, <2>5, <2>6 DEF IdsOK, Taken
  <1>12. ~ProcessedAt(contracts', call)
    <2>1. ~Taken(c, m.messageId)
      BY <1>1, <1>7 DEF Taken
    <2> QED BY <1>7, <1>10, <2>1 DEF ProcessedAt, IdsOK
  <1>13. \A n \in Nfts :
           /\ LiveTokens(n)' = LiveTokens(n) \ {<<c, t>>}
           /\ InFlight(n)' = IF n = nft THEN InFlight(n) \cup {call}
                             ELSE InFlight(n)
    <2> TAKE n \in Nfts
    <2>1. LiveAt(contracts', n) = LiveAt(contracts, n) \ {<<c, t>>}
      BY <1>1, <1>2, <1>8, LiveRemoved
    <2>2. FlightAt(contracts', calls, n) = FlightAt(contracts, calls, n)
      BY <1>10, FlightSame
    <2>3. FlightAt(contracts', calls', n) =
             IF n = nft THEN FlightAt(contracts', calls, n) \cup {call}
             ELSE FlightAt(contracts', calls, n)
      BY <1>3, <1>7, <1>12 DEF FlightAt
    <2> QED BY <2>1, <2>2, <2>3, Views
  <1>14. \A n \in Nfts : <<c, t>> \in LiveTokens(n) <=> n = nft
    BY <1>1, <1>8, LiveIs, Views
  <1>15. \A n \in Nfts \ {nft} : Untouched(n)
    <2> TAKE n \in Nfts \ {nft}
    <2>1. LiveTokens(n)' = LiveTokens(n) /\ InFlight(n)' = InFlight(n)
      <3>1. <<c, t>> \notin LiveTokens(n) /\ n # nft
        BY <1>14
      <3>2. LiveTokens(n)' = LiveTokens(n) \ {<<c, t>>}
        BY <1>13
      <3>3. InFlight(n)' = InFlight(n)
        BY <1>13, <3>1
      <3> QED BY <3>1, <3>2, <3>3, Zenon
    <2>2. \A ct \in LiveTokens(n) :
             contracts'[ct[1]].tokens[ct[2]] = contracts[ct[1]].tokens[ct[2]]
      <3> TAKE ct \in LiveTokens(n)
      <3>1. /\ ct[1] \in EvmChains /\ ct[2] \in DOMAIN contracts[ct[1]].tokens
            /\ ct = <<ct[1], ct[2]>> /\ ct # <<c, t>>
        BY <1>8, <1>14, LiveIs, Views
      <3> QED BY <3>1, <1>2, <1>8
    <2> QED BY <1>3, <2>1, <2>2 DEF Untouched
  <1>16. Departed(nft)
    <2>1. call \in calls'
      BY <1>3
    <2>2. t \in Nat
      BY UniversalNFTBridgeAssumption
    <2> QED BY <1>1, <1>3, <1>7, <1>13, <1>14, <2>1, <2>2 DEF Departed
  <1> QED BY <1>9, <1>11, <1>15, <1>16 DEF CopiesStep

\* A receiver hears from one contract, whose ids are unique.
LEMMA SameReceiverSameCall ==
    ASSUME IInv, NEW c \in EvmChains, NEW call \in calls, call.to = c
    PROVE  \A x \in calls :
              x.to = c /\ x.message.messageId = call.message.messageId => x = call
  <1> USE DEF IInv
  <1> TAKE x \in calls
  <1> HAVE x.to = c /\ x.message.messageId = call.message.messageId
  <1>1. x.from \in EvmChains /\ x.from # c /\ call.from \in EvmChains /\ call.from # c
    BY DEF Types, Call, IdsOK
  <1>2. x.from = call.from
    BY <1>1 DEF EvmChains
  <1> QED BY <1>2 DEF IdsOK

LEMMA MarkedIdsOK ==
    ASSUME IInv, NEW c \in EvmChains, NEW call \in calls, call.to = c,
           calls' = calls,
           contracts'[c].processedMessages =
              contracts[c].processedMessages \cup {call.message.messageId},
           \A d \in EvmChains \ {c} :
              contracts'[d].processedMessages = contracts[d].processedMessages,
           \A d \in EvmChains : contracts'[d].userNonces = contracts[d].userNonces
    PROVE  IdsOK'
  <1> USE DEF IInv
  <1>1. call.from \in EvmChains /\ call.from # c /\ call.message.messageId \in MessageIds
    BY DEF Types, Call, Message, IdsOK
  <1>2. \A d \in EvmChains, id \in MessageIds : Taken(d, id)' <=> Taken(d, id)
    BY DEF Taken
  <1>3. \A x \in calls' : x.from # x.to /\ Taken(x.from, x.message.messageId)'
    BY <1>2 DEF IdsOK, Types, Call, Message
  <1>4. \A d \in EvmChains : d # c => d = call.from
    BY <1>1 DEF EvmChains
  <1>5. \A d, e \in EvmChains : d # e =>
           \A id \in contracts'[d].processedMessages : Taken(e, id)'
    <2> TAKE d, e \in EvmChains
    <2> HAVE d # e
    <2> TAKE id \in contracts'[d].processedMessages
    <2>1. CASE id \in contracts[d].processedMessages
      BY <2>1, <1>2 DEF IdsOK, Types, StorageOK
    <2>2. CASE id \notin contracts[d].processedMessages
      <3>1. d = c /\ id = call.message.messageId
        BY <2>2
      <3>2. e = call.from /\ Taken(call.from, call.message.messageId)
        BY <3>1, <1>4 DEF IdsOK
      <3> QED BY <3>1, <3>2, <1>2, <1>1
    <2> QED BY <2>1, <2>2
  <1> QED BY <1>3, <1>5 DEF IdsOK, Taken

LEMMA ReceiveStep ==
    ASSUME IInv, NEW c \in EvmChains, NEW call \in calls, receive(c, call)
    PROVE  Types' /\ IdsOK' /\ CopiesStep
  <1> DEFINE s == contracts[c]
             m == call.message
             w == afterCall(s, m)
             nft == m.metadataUri
             k == s.tokenIdCounter
  <1> USE DEF IInv
  <1>1. /\ StorageOK(s) /\ m \in Message /\ k < MaxTokens
        /\ m.messageId \in MessageIds /\ nft \in Nfts
        /\ call.from \in EvmChains /\ call.to = c /\ call.from # c
        /\ m.messageId \notin s.processedMessages
    BY DEF Types, receive, accepts, Call, Message, IdsOK
  <1>2. /\ StorageOK(w)
        /\ DOMAIN w.tokens = DOMAIN s.tokens \cup {k}
        /\ w.tokens[k] = received(m)
        /\ \A t \in DOMAIN s.tokens : w.tokens[t] = s.tokens[t]
        /\ w.processedMessages = s.processedMessages \cup {m.messageId}
        /\ w.userNonces = s.userNonces
    BY <1>1, AfterCall
  <1>3. /\ Update(c, w)
        /\ UNCHANGED <<zetaChainUniversalNFT, calls, clock, mintedOn, reverted>>
    BY DEF receive
  <1>4. received(m).metadataUri = nft /\ received(m).originChain = m.originChain
    BY DEF received
  <1> HIDE DEF w, k
  <1>5. /\ contracts' = [d \in EvmChains |-> contracts'[d]]
        /\ contracts'[c] = w
        /\ \A d \in EvmChains \ {c} : contracts'[d] = contracts[d]
        /\ StoragesOK(contracts) /\ StoragesOK(contracts')
    BY <1>2, <1>3, UpdateOK
  <1>6. Types'
    BY <1>3, <1>5 DEF Types, StoragesOK
  <1>7. \A x \in calls : x.to = c /\ x.message.messageId = m.messageId => x = call
    BY <1>1, SameReceiverSameCall
  <1>8. IdsOK'
    <2>1. \A d \in EvmChains : contracts'[d].userNonces = contracts[d].userNonces
      BY <1>2, <1>5
    <2> QED BY <1>1, <1>2, <1>3, <1>5, <2>1, MarkedIdsOK
  <1>9. k \notin DOMAIN s.tokens
    BY <1>1 DEF StorageOK, k
  <1>10. call \in InFlight(nft)
    BY <1>1 DEF InFlight, Processed
  <1>11. \A n \in Nfts : call \in InFlight(n) => n = nft
    BY DEF InFlight
  <1>12. \A n \in Nfts :
            /\ LiveTokens(n)' = IF n = nft THEN LiveTokens(n) \cup {<<c, k>>}
                                ELSE LiveTokens(n)
            /\ InFlight(n)' = InFlight(n) \ {call}
    <2> TAKE n \in Nfts
    <2>1. contracts'[c].tokens[k].metadataUri = nft
      BY <1>2, <1>4, <1>5 DEF k
    <2>2. LiveAt(contracts', n) = IF n = nft
             THEN LiveAt(contracts, n) \cup {<<c, k>>} ELSE LiveAt(contracts, n)
      BY <2>1, <1>2, <1>5, <1>9, LiveAdded DEF k
    <2>3. FlightAt(contracts', calls, n) = FlightAt(contracts, calls, n) \ {call}
      BY <1>1, <1>2, <1>5, <1>7, FlightMarked
    <2> QED BY <1>3, <2>2, <2>3, Views
  <1>13. \A n \in Nfts \ {nft} : Untouched(n)
    <2> TAKE n \in Nfts \ {nft}
    <2>1. \A ct \in LiveTokens(n) :
             contracts'[ct[1]].tokens[ct[2]] = contracts[ct[1]].tokens[ct[2]]
      BY <1>2, <1>5, LiveIs, Views
    <2> QED BY <1>3, <1>11, <1>12, <2>1 DEF Untouched
  <1>14. Arrived(nft)
    <2>1. contracts'[c].tokens[k].originChain = m.originChain
      BY <1>2, <1>4, <1>5 DEF k
    <2>2. k \in Nat
      BY <1>1, UniversalNFTBridgeAssumption DEF k, StorageOK
    <2> QED BY <1>1, <1>3, <1>10, <1>12, <2>1, <2>2 DEF Arrived
  <1> QED BY <1>1, <1>6, <1>8, <1>13, <1>14 DEF CopiesStep

LEMMA RevertStep ==
    ASSUME IInv, NEW c \in EvmChains, NEW call \in calls, revert(c, call)
    PROVE  Types' /\ IdsOK' /\ CopiesStep
  <1> DEFINE nft == call.message.metadataUri
  <1> USE DEF IInv
  <1>1. /\ calls' = calls \ {call} /\ reverted' = reverted \cup {call}
        /\ UNCHANGED <<contracts, zetaChainUniversalNFT, clock, mintedOn>>
        /\ call \in InFlight(nft) /\ nft \in Nfts
    BY DEF revert, InFlight, Types, Call, Message
  <1>2. Types'
    BY <1>1 DEF Types
  <1>3. IdsOK'
    BY <1>1 DEF IdsOK, Taken
  <1>4. \A n \in Nfts : /\ LiveTokens(n)' = LiveTokens(n)
                        /\ InFlight(n)' = InFlight(n) \ {call}
                        /\ n # nft => call \notin InFlight(n)
    BY <1>1 DEF LiveTokens, InFlight, Processed
  <1>5. \A n \in Nfts \ {nft} : Untouched(n)
    BY <1>1, <1>4 DEF Untouched
  <1>6. Gone(nft)
    BY <1>1, <1>4 DEF Gone
  <1> QED BY <1>1, <1>2, <1>3, <1>5, <1>6 DEF CopiesStep

LEMMA MarkStep ==
    ASSUME IInv, NEW c \in EvmChains, NEW call \in calls,
           adminMarkMessageProcessed(c, call)
    PROVE  Types' /\ IdsOK' /\ CopiesStep
  <1> DEFINE s == contracts[c]
             m == call.message
             w == [s EXCEPT !.processedMessages = @ \cup {m.messageId}]
             nft == m.metadataUri
  <1> USE DEF IInv
  <1>1. /\ StorageOK(s) /\ m.messageId \in MessageIds /\ nft \in Nfts
        /\ call.from \in EvmChains /\ call.to = c /\ call.from # c
    BY DEF Types, adminMarkMessageProcessed, Call, Message, IdsOK
  <1>2. /\ StorageOK(w) /\ w.tokens = s.tokens
        /\ w.processedMessages = s.processedMessages \cup {m.messageId}
        /\ w.userNonces = s.userNonces
    BY <1>1, MarkedOK
  <1>3. /\ Update(c, w)
        /\ UNCHANGED <<zetaChainUniversalNFT, calls, clock, mintedOn, reverted>>
    BY DEF adminMarkMessageProcessed
  <1> HIDE DEF w
  <1>5. /\ contracts' = [d \in EvmChains |-> contracts'[d]]
        /\ contracts'[c] = w
        /\ \A d \in EvmChains \ {c} : contracts'[d] = contracts[d]
        /\ StoragesOK(contracts) /\ StoragesOK(contracts')
    BY <1>2, <1>3, UpdateOK
  <1>6. Types'
    BY <1>3, <1>5 DEF Types, StoragesOK
  <1>7. \A x \in calls : x.to = c /\ x.message.messageId = m.messageId => x = call
    BY <1>1, SameReceiverSameCall
  <1>8. IdsOK'
    <2>1. \A d \in EvmChains : contracts'[d].userNonces = contracts[d].userNonces
      BY <1>2, <1>5
    <2> QED BY <1>1, <1>2, <1>3, <1>5, <2>1, MarkedIdsOK
  <1>9. \A d \in EvmChains : contracts'[d].tokens = contracts[d].tokens
    BY <1>2, <1>5
  <1>10. \A n \in Nfts : /\ LiveTokens(n)' = LiveTokens(n)
                         /\ InFlight(n)' = InFlight(n) \ {call}
    <2> TAKE n \in Nfts
    <2>1. LiveAt(contracts', n) = LiveAt(contracts, n)
      BY <1>5, <1>9, LiveSame
    <2>2. FlightAt(contracts', calls, n) = FlightAt(contracts, calls, n) \ {call}
      BY <1>1, <1>2, <1>5, <1>7, FlightMarked
    <2> QED BY <1>3, <2>1, <2>2, Views
  <1>11. \A n \in Nfts : call \notin InFlight(n) => Untouched(n)
    <2> TAKE n \in Nfts
    <2> HAVE call \notin InFlight(n)
    <2>1. InFlight(n)' = InFlight(n)
      BY <1>10
    <2>2. \A ct \in LiveTokens(n) :
             contracts'[ct[1]].tokens[ct[2]] = contracts[ct[1]].tokens[ct[2]]
      BY <1>5, <1>9, LiveIs, Views
    <2> QED BY <1>3, <1>10, <2>1, <2>2 DEF Untouched
  <1>12. \A n \in Nfts : call \in InFlight(n) => n = nft
    BY DEF InFlight
  <1>13. CASE call \in InFlight(nft)
    <2>1. Gone(nft)
      BY <1>1, <1>3, <1>10, <1>13 DEF Gone
    <2>2. \A n \in Nfts \ {nft} : Untouched(n)
      BY <1>11, <1>12
    <2> QED BY <1>1, <1>6, <1>8, <2>1, <2>2 DEF CopiesStep
  <1>14. CASE call \notin InFlight(nft)
    <2>1. \A n \in Nfts : Untouched(n)
      BY <1>11, <1>12, <1>14
    <2> QED BY <1>3, <1>6, <1>8, <2>1 DEF CopiesStep
  <1> QED BY <1>13, <1>14

LEMMA TransferStep ==
    ASSUME IInv, NEW c \in EvmChains, NEW t \in 0 .. MaxTokens - 1,
           NEW to \in Owners, transferFrom(c, t, to)
    PROVE  Types' /\ IdsOK' /\ CopiesStep
  <1> DEFINE s == contracts[c]
             w == [s EXCEPT !.tokens[t].owner = to]
  <1> USE DEF IInv
  <1>1. StorageOK(s) /\ t \in DOMAIN s.tokens /\ s.tokens[t] \in Token
    BY DEF Types, StorageOK, transferFrom
  <1>2. /\ StorageOK(w)
        /\ DOMAIN w.tokens = DOMAIN s.tokens
        /\ w.tokens[t] = [s.tokens[t] EXCEPT !.owner = to]
        /\ \A i \in DOMAIN s.tokens \ {t} : w.tokens[i] = s.tokens[i]
        /\ w.processedMessages = s.processedMessages
        /\ w.userNonces = s.userNonces
    BY <1>1, GivenOK
  <1>3. /\ Update(c, w)
        /\ UNCHANGED <<zetaChainUniversalNFT, calls, clock, mintedOn, reverted>>
    BY DEF transferFrom
  <1> HIDE DEF w
  <1> PICK nft \in Nfts : nft = s.tokens[t].metadataUri
    BY <1>1 DEF Token
  <1>5. /\ contracts' = [d \in EvmChains |-> contracts'[d]]
        /\ contracts'[c] = w
        /\ \A d \in EvmChains \ {c} : contracts'[d] = contracts[d]
        /\ StoragesOK(contracts) /\ StoragesOK(contracts')
    BY <1>2, <1>3, UpdateOK
  <1>6. Types'
    BY <1>3, <1>5 DEF Types, StoragesOK
  <1>7. \A d \in EvmChains :
           /\ contracts'[d].processedMessages = contracts[d].processedMessages
           /\ contracts'[d].userNonces = contracts[d].userNonces
    BY <1>2, <1>5
  <1>8. IdsOK'
    BY <1>3, <1>7 DEF IdsOK, Taken, Types, Call
  <1>9. /\ w.tokens[t].metadataUri = s.tokens[t].metadataUri
        /\ w.tokens[t].originChain = s.tokens[t].originChain
    BY <1>1, <1>2 DEF Token
  <1>10. \A d \in EvmChains :
            /\ DOMAIN contracts'[d].tokens = DOMAIN contracts[d].tokens
            /\ \A i \in DOMAIN contracts[d].tokens :
                  contracts'[d].tokens[i].metadataUri
                     = contracts[d].tokens[i].metadataUri
    BY <1>2, <1>5, <1>9
  <1>11. \A n \in Nfts : LiveTokens(n)' = LiveTokens(n) /\ InFlight(n)' = InFlight(n)
    <2> TAKE n \in Nfts
    <2>1. LiveAt(contracts', n) = LiveAt(contracts, n)
      BY <1>5, <1>10, LiveSame
    <2>2. FlightAt(contracts', calls, n) = FlightAt(contracts, calls, n)
      BY <1>7, FlightSame
    <2> QED BY <1>3, <2>1, <2>2, Views
  <1>12. \A n \in Nfts : <<c, t>> \in LiveTokens(n) <=> n = nft
    BY <1>1, <1>5, LiveIs, Views
  <1>13. \A n \in Nfts \ {nft} : Untouched(n)
    <2> TAKE n \in Nfts \ {nft}
    <2>1. \A ct \in LiveTokens(n) :
             contracts'[ct[1]].tokens[ct[2]] = contracts[ct[1]].tokens[ct[2]]
      <3> TAKE ct \in LiveTokens(n)
      <3>1. /\ ct[1] \in EvmChains /\ ct[2] \in DOMAIN contracts[ct[1]].tokens
            /\ ct = <<ct[1], ct[2]>> /\ ct # <<c, t>>
        BY <1>5, <1>12, LiveIs, Views
      <3> QED BY <3>1, <1>2, <1>5
    <2> QED BY <1>3, <1>11, <2>1 DEF Untouched
  <1>14. Given(nft)
    <2>1. contracts'[c].tokens[t].originChain = contracts[c].tokens[t].originChain
      BY <1>5, <1>9
    <2>2. <<c, t>>[1] = c /\ <<c, t>>[2] = t
      OBVIOUS
    <2> QED BY <1>3, <1>11, <1>12, <2>1, <2>2 DEF Given
  <1> QED BY <1>6, <1>8, <1>13, <1>14 DEF CopiesStep

LEMMA PauseStep ==
    ASSUME IInv, NEW c \in EvmChains, NEW b \in BOOLEAN, setPaused(c, b)
    PROVE  Types' /\ IdsOK' /\ CopiesStep
  <1> DEFINE s == contracts[c]
             w == [s EXCEPT !.paused = b]
  <1> USE DEF IInv
  <1>2. /\ StorageOK(w) /\ w.tokens = s.tokens
        /\ w.processedMessages = s.processedMessages
        /\ w.userNonces = s.userNonces
    BY PausedOK DEF Types
  <1>3. /\ Update(c, w)
        /\ UNCHANGED <<zetaChainUniversalNFT, calls, clock, mintedOn, reverted>>
    BY DEF setPaused
  <1> HIDE DEF w
  <1>5. /\ contracts' = [d \in EvmChains |-> contracts'[d]]
        /\ contracts'[c] = w
        /\ \A d \in EvmChains \ {c} : contracts'[d] = contracts[d]
        /\ StoragesOK(contracts) /\ StoragesOK(contracts')
    BY <1>2, <1>3, UpdateOK
  <1>6. Types'
    BY <1>3, <1>5 DEF Types, StoragesOK
  <1>7. \A d \in EvmChains :
           /\ contracts'[d].processedMessages = contracts[d].processedMessages
           /\ contracts'[d].userNonces = contracts[d].userNonces
           /\ contracts'[d].tokens = contracts[d].tokens
    BY <1>2, <1>5
  <1>8. IdsOK'
    BY <1>3, <1>7 DEF IdsOK, Taken, Types, Call
  <1>9. \A n \in Nfts : Untouched(n)
    <2> TAKE n \in Nfts
    <2>1. LiveAt(contracts', n) = LiveAt(contracts, n)
      BY <1>5, <1>7, LiveSame
    <2>2. FlightAt(contracts', calls, n) = FlightAt(contracts, calls, n)
      BY <1>7, FlightSame
    <2>3. \A ct \in LiveTokens(n) :
             contracts'[ct[1]].tokens[ct[2]] = contracts[ct[1]].tokens[ct[2]]
      BY <1>5, <1>7, LiveIs, Views
    <2> QED BY <1>3, <2>1, <2>2, <2>3, Views DEF Untouched
  <1> QED BY <1>3, <1>6, <1>8, <1>9 DEF CopiesStep

\* Steps that leave contracts, calls and history alone.
LEMMA QuietStep ==
    ASSUME IInv, UNCHANGED <<contracts, calls, mintedOn, reverted>>,
           zetaChainUniversalNFT' \in {ZetaChain, Nowhere},
           clock' \in [EvmChains -> Nat]
    PROVE  Types' /\ IdsOK' /\ CopiesStep
  <1> USE DEF IInv
  <1>1. Types'
    BY DEF Types
  <1>2. IdsOK'
    BY DEF IdsOK, Taken
  <1>3. \A n \in Nfts : Untouched(n)
    BY DEF Untouched, LiveTokens, InFlight, Processed
  <1> QED BY <1>1, <1>2, <1>3 DEF CopiesStep

LEMMA NextStep ==
    ASSUME IInv, [Next]_vars
    PROVE  Types' /\ IdsOK' /\ CopiesStep
  <1>1. ASSUME NEW c \in EvmChains, Tick(c)
        PROVE  Types' /\ IdsOK' /\ CopiesStep
    <2>1. /\ clock' \in [EvmChains -> Nat]
          /\ UNCHANGED <<contracts, zetaChainUniversalNFT, calls, mintedOn, reverted>>
      BY <1>1 DEF IInv, Types, Tick
    <2>2. zetaChainUniversalNFT' \in {ZetaChain, Nowhere}
      BY <2>1 DEF IInv, Types
    <2> QED BY <2>1, <2>2, QuietStep
  <1>2. ASSUME NEW t \in 0 .. MaxTokens - 1, NEW d \in EvmChains \cup {Solana},
               NEW r \in RecipientsOn(d), zetaBurnAndTransfer(t, d, r)
        PROVE  Types' /\ IdsOK' /\ CopiesStep
    <2>1. /\ d \in {Base, Solana}
          /\ burnAndSend(ZetaChain, getReceiverContract(d), t, d, r)
      BY <1>2 DEF zetaBurnAndTransfer
    <2>2. getReceiverContract(d) \in {d, Nowhere}
      BY DEF getReceiverContract
    <2>3. /\ getReceiverContract(d) \in EvmChains \cup {Solana, Nowhere}
          /\ getReceiverContract(d) # ZetaChain
      BY <2>1, <2>2, UniversalNFTBridgeAssumption DEF EvmChains
    <2>4. r \in Users \cup SolanaKeys /\ ZetaChain \in EvmChains
      BY DEF RecipientsOn, EvmChains
    <2> QED BY <2>1, <2>3, <2>4, BurnStep
  <1>3. ASSUME NEW t \in 0 .. MaxTokens - 1, NEW d \in EvmChains \cup {Solana},
               NEW r \in RecipientsOn(d), baseBurnAndTransfer(t, d, r)
        PROVE  Types' /\ IdsOK' /\ CopiesStep
    <2>1. burnAndSend(Base, zetaChainUniversalNFT, t, d, r)
      BY <1>3 DEF baseBurnAndTransfer
    <2>2. zetaChainUniversalNFT \in {ZetaChain, Nowhere}
      BY DEF IInv, Types
    <2>3. /\ zetaChainUniversalNFT \in EvmChains \cup {Solana, Nowhere}
          /\ zetaChainUniversalNFT # Base
      BY <2>2, UniversalNFTBridgeAssumption DEF EvmChains
    <2>4. r \in Users \cup SolanaKeys /\ Base \in EvmChains
      BY DEF RecipientsOn, EvmChains
    <2> QED BY <2>1, <2>3, <2>4, BurnStep
  <1>4. ASSUME NEW u \in Users, NEW n \in Nfts, zetaMint(u, n) \/ baseMint(u, n)
        PROVE  Types' /\ IdsOK' /\ CopiesStep
    BY <1>4, MintStep DEF zetaMint, baseMint, EvmChains
  <1>5. ASSUME NEW call \in calls, zetaOnCall(call) \/ baseOnCall(call)
        PROVE  Types' /\ IdsOK' /\ CopiesStep
    BY <1>5, ReceiveStep DEF zetaOnCall, baseOnCall, EvmChains
  <1>6. ASSUME NEW call \in calls, zetaOnRevert(call) \/ baseOnRevert(call)
        PROVE  Types' /\ IdsOK' /\ CopiesStep
    BY <1>6, RevertStep DEF zetaOnRevert, baseOnRevert, EvmChains
  <1>7. ASSUME NEW a \in {ZetaChain, Nowhere}, setZetaChainContract(a)
        PROVE  Types' /\ IdsOK' /\ CopiesStep
    BY <1>7, QuietStep DEF setZetaChainContract, IInv, Types
  <1>8. CASE UNCHANGED vars
    BY <1>8, QuietStep DEF vars, IInv, Types
  <1> QED BY <1>1, <1>2, <1>3, <1>4, <1>5, <1>6, <1>7, <1>8,
             TransferStep, PauseStep, MarkStep DEF Next

\* One copy, and its provenance, survive every step of the copies.
LEMMA CopiesKept ==
    ASSUME IInv, Types', CopiesStep
    PROVE  CopiesOK' /\ ProvenanceKept'
  <1> DEFINE Good(n) ==
          /\ AtMostOne(LiveTokens(n)') /\ AtMostOne(InFlight(n)')
          /\ LiveTokens(n)' = {} \/ InFlight(n)' = {}
          /\ mintedOn'[n] = NoChain => LiveTokens(n)' = {} /\ InFlight(n)' = {}
          /\ \A ct \in LiveTokens(n)' :
                contracts'[ct[1]].tokens[ct[2]].originChain = mintedOn'[n]
          /\ \A call \in InFlight(n)' : call.message.originChain = mintedOn'[n]
  <1> USE DEF IInv, CopiesOK, ProvenanceKept, AtMostOne
  <1>0. mintedOn \in [Nfts -> EvmChains \cup {NoChain}]
    BY DEF Types
  <1>1. ASSUME NEW n \in Nfts, Untouched(n) PROVE Good(n)
    BY <1>1 DEF Untouched
  <1>2. ASSUME NEW n \in Nfts, Minted(n) PROVE Good(n)
    <2> PICK c \in EvmChains, t \in Nat :
          /\ mintedOn[n] = NoChain /\ mintedOn' = [mintedOn EXCEPT ![n] = c]
          /\ LiveTokens(n)' = LiveTokens(n) \cup {<<c, t>>}
          /\ InFlight(n)' = InFlight(n)
          /\ contracts'[c].tokens[t].originChain = c
      BY <1>2 DEF Minted
    <2>1. LiveTokens(n)' = {<<c, t>>} /\ InFlight(n)' = {} /\ mintedOn'[n] = c
      BY <1>0
    <2>2. c # NoChain
      BY UniversalNFTBridgeAssumption
    <2> QED BY <2>1, <2>2
  <1>3. ASSUME NEW n \in Nfts, Departed(n) PROVE Good(n)
    <2> PICK c \in EvmChains, t \in Nat, call \in calls' :
          /\ mintedOn' = mintedOn
          /\ <<c, t>> \in LiveTokens(n)
          /\ LiveTokens(n)' = LiveTokens(n) \ {<<c, t>>}
          /\ InFlight(n)' = InFlight(n) \cup {call}
          /\ call.message.originChain = contracts[c].tokens[t].originChain
      BY <1>3 DEF Departed
    <2>1. LiveTokens(n)' = {} /\ InFlight(n)' = {call} /\ mintedOn[n] # NoChain
      BY Zenon
    <2>2. contracts[c].tokens[t].originChain = mintedOn[n]
      OBVIOUS
    <2> QED BY <2>1, <2>2
  <1>4. ASSUME NEW n \in Nfts, Arrived(n) PROVE Good(n)
    <2> PICK c \in EvmChains, t \in Nat, call \in InFlight(n) :
          /\ mintedOn' = mintedOn
          /\ LiveTokens(n)' = LiveTokens(n) \cup {<<c, t>>}
          /\ InFlight(n)' = InFlight(n) \ {call}
          /\ contracts'[c].tokens[t].originChain = call.message.originChain
      BY <1>4 DEF Arrived
    <2>1. LiveTokens(n)' = {<<c, t>>} /\ InFlight(n)' = {} /\ mintedOn[n] # NoChain
      BY Zenon
    <2> QED BY <2>1
  <1>5. ASSUME NEW n \in Nfts, Gone(n) PROVE Good(n)
    <2> PICK call \in InFlight(n) :
          /\ mintedOn' = mintedOn
          /\ LiveTokens(n)' = LiveTokens(n)
          /\ InFlight(n)' = InFlight(n) \ {call}
      BY <1>5 DEF Gone
    <2>1. LiveTokens(n)' = {} /\ InFlight(n)' = {}
      BY Zenon
    <2> QED BY <2>1
  <1>6. ASSUME NEW n \in Nfts, Given(n) PROVE Good(n)
    <2> PICK ct \in LiveTokens(n) :
          /\ mintedOn' = mintedOn
          /\ LiveTokens(n)' = LiveTokens(n) /\ InFlight(n)' = InFlight(n)
          /\ contracts'[ct[1]].tokens[ct[2]].originChain =
                contracts[ct[1]].tokens[ct[2]].originChain
      BY <1>6 DEF Given
    <2>1. \A x \in LiveTokens(n) : x = ct
      OBVIOUS
    <2> QED BY <2>1
  <1>7. \A n \in Nfts : Good(n)
    BY <1>1, <1>2, <1>3, <1>4, <1>5, <1>6 DEF CopiesStep
  <1> QED BY <1>7

----------------------------------------------------------------------------

\* The inductive invariant: storages and calls are well typed, ids of calls are
\* unique and backed by a taken nonce, and each NFT has at most one copy, of
\* the provenance of its mint.
THEOREM Invariance == Spec => []IInv
  <1>1. Init => IInv
    <2> SUFFICES ASSUME Init PROVE IInv
      OBVIOUS
    <2>1. StorageOK(EmptyContract)
      BY UniversalNFTBridgeAssumption DEF StorageOK, EmptyContract
    <2>2. \A c \in EvmChains : /\ contracts[c] = EmptyContract
                               /\ DOMAIN contracts[c].tokens = {}
                               /\ contracts[c].processedMessages = {}
      BY DEF Init, EmptyContract
    <2>3. Types
      BY <2>1, <2>2 DEF Init, Types
    <2>4. \A n \in Nfts : LiveTokens(n) = {} /\ InFlight(n) = {}
      BY <2>2 DEF Init, LiveTokens, InFlight
    <2>5. CopiesOK /\ ProvenanceKept
      BY <2>4 DEF CopiesOK, ProvenanceKept, AtMostOne
    <2>6. IdsOK
      BY <2>2 DEF Init, IdsOK
    <2> QED BY <2>3, <2>5, <2>6 DEF IInv
  <1>2. IInv /\ [Next]_vars => IInv'
    BY NextStep, CopiesKept DEF IInv
  <1> QED BY <1>1, <1>2, PTL DEF Spec

\* Every variable stays within its type.
THEOREM TypeCorrect == Spec => []TypeOK
  <1>1. IInv => TypeOK
    <2> SUFFICES ASSUME IInv PROVE TypeOK
      OBVIOUS
    <2>1. ASSUME NEW c \in EvmChains
          PROVE  /\ \A t \in DOMAIN contracts[c].tokens :
                       /\ t \in 0 .. contracts[c].tokenIdCounter - 1
                       /\ contracts[c].tokens[t] \in Token
                 /\ contracts[c].tokenIdCounter \in Nat
                 /\ contracts[c].processedMessages \subseteq MessageIds
                 /\ contracts[c].userNonces \in [Users -> Nat]
                 /\ contracts[c].paused \in BOOLEAN
      <3>1. StorageOK(contracts[c])
        BY DEF IInv, Types
      <3>2. MaxTokens \in Nat
        BY UniversalNFTBridgeAssumption
      <3> QED BY <3>1, <3>2 DEF StorageOK
    <2> QED BY <2>1 DEF IInv, Types, TypeOK
  <1> QED BY <1>1, Invariance, PTL

\* An NFT is never in two places, as a token or as a message that could still
\* become one, however the gateway delivers.
THEOREM NeverTwoCopies == Spec => []OneCopy
  <1>1. ASSUME NEW S, AtMostOne(S) PROVE S = {} \/ \E x : S = {x}
    BY <1>1 DEF AtMostOne
  <1>2. ASSUME NEW S, NEW T, AtMostOne(S), AtMostOne(T), S = {} \/ T = {}
        PROVE  Cardinality(S) + Cardinality(T) <= 1
    <2>1. Cardinality({}) = 0
      BY FS_EmptySet
    <2>2. \A x : Cardinality({x}) = 1
      BY FS_Singleton
    <2>3. Cardinality(S) \in {0, 1} /\ (S = {} => Cardinality(S) = 0)
      BY <1>1, <1>2, <2>1, <2>2
    <2>4. Cardinality(T) \in {0, 1} /\ (T = {} => Cardinality(T) = 0)
      BY <1>1, <1>2, <2>1, <2>2
    <2> QED BY <1>2, <2>3, <2>4
  <1>3. IInv => OneCopy
    BY <1>2 DEF IInv, CopiesOK, OneCopy
  <1> QED BY <1>3, Invariance, PTL

\* Each copy names the chain the NFT was first minted on, after any journey.
THEOREM ProvenanceIsKept == Spec => []ProvenanceKept
  BY Invariance, PTL DEF IInv

----------------------------------------------------------------------------
(* Token ids *)

IdsFresh(old, new) ==
    /\ new.tokenIdCounter >= old.tokenIdCounter
    /\ \A t \in DOMAIN new.tokens :
          t < old.tokenIdCounter => t \in DOMAIN old.tokens

NotReused == \A c \in EvmChains : IdsFresh(contracts[c], contracts'[c])

LEMMA UnmovedIsFresh ==
    ASSUME Types
    PROVE  \A c \in EvmChains : IdsFresh(contracts[c], contracts[c])
  <1>0. MaxTokens \in Nat
    BY UniversalNFTBridgeAssumption
  <1>1. \A c \in EvmChains : contracts[c].tokenIdCounter \in 0 .. MaxTokens
    BY DEF Types, StorageOK
  <1> QED BY <1>0, <1>1 DEF IdsFresh

LEMMA UpdateFresh ==
    ASSUME Types, NEW c \in EvmChains, NEW w, Update(c, w),
           IdsFresh(contracts[c], w)
    PROVE  NotReused
  <1>1. /\ contracts' = [contracts EXCEPT ![c] = w]
        /\ contracts = [d \in EvmChains |-> contracts[d]]
    BY DEF Types, Update
  <1>2. contracts'[c] = w /\ \A d \in EvmChains \ {c} : contracts'[d] = contracts[d]
    BY <1>1
  <1> QED BY <1>2, UnmovedIsFresh DEF NotReused

LEMMA NextFresh ==
    ASSUME IInv, [Next]_vars
    PROVE  NotReused
  <1>0. /\ Types /\ MaxTokens \in Nat
        /\ \A c \in EvmChains : /\ StorageOK(contracts[c])
                                /\ contracts[c].tokenIdCounter \in Nat
    BY UniversalNFTBridgeAssumption DEF IInv, Types, StorageOK
  <1>1. ASSUME UNCHANGED contracts PROVE NotReused
    BY <1>0, <1>1, UnmovedIsFresh DEF NotReused
  <1>2. ASSUME NEW c \in EvmChains, NEW u \in Users, NEW n \in Nfts, mint(c, u, n)
        PROVE  NotReused
    <2> DEFINE s == contracts[c]
               w == withToken(s, mintedHere(u, n, c))
    <2>1. Update(c, w) /\ s.tokenIdCounter < MaxTokens
      BY <1>2 DEF mint
    <2>2. mintedHere(u, n, c) \in Token
      BY UniversalNFTBridgeAssumption DEF mintedHere, Token, Owners
    <2>3. /\ w.tokenIdCounter = s.tokenIdCounter + 1
          /\ DOMAIN w.tokens = DOMAIN s.tokens \cup {s.tokenIdCounter}
      BY <1>0, <2>1, <2>2, WithToken
    <2> HIDE DEF w
    <2>4. IdsFresh(s, w)
      BY <1>0, <2>3 DEF IdsFresh
    <2> QED BY <1>0, <2>1, <2>4, UpdateFresh
  <1>3. ASSUME NEW c \in EvmChains, NEW call \in calls, receive(c, call)
        PROVE  NotReused
    <2> DEFINE s == contracts[c]
               w == afterCall(s, call.message)
    <2>1. Update(c, w) /\ s.tokenIdCounter < MaxTokens
      BY <1>3 DEF receive
    <2>2. call.message \in Message
      BY <1>0 DEF Types, Call
    <2>3. /\ w.tokenIdCounter = s.tokenIdCounter + 1
          /\ DOMAIN w.tokens = DOMAIN s.tokens \cup {s.tokenIdCounter}
      BY <1>0, <2>1, <2>2, AfterCall
    <2> HIDE DEF w
    <2>4. IdsFresh(s, w)
      BY <1>0, <2>3 DEF IdsFresh
    <2> QED BY <1>0, <2>1, <2>4, UpdateFresh
  <1>4. ASSUME NEW c \in EvmChains, NEW receiver, NEW t, NEW d, NEW r,
               burnAndSend(c, receiver, t, d, r)
        PROVE  NotReused
    <2> DEFINE s == contracts[c]
               w == afterTransfer(s, t)
    <2>1. /\ Update(c, w)
          /\ t \in DOMAIN s.tokens /\ s.tokens[t].owner \in Users
      BY <1>4 DEF burnAndSend, canTransfer
    <2>2. /\ w.tokenIdCounter = s.tokenIdCounter
          /\ DOMAIN w.tokens = DOMAIN s.tokens \ {t}
      BY <1>0, <2>1, AfterTransfer
    <2> HIDE DEF w
    <2>3. IdsFresh(s, w)
      BY <1>0, <2>2 DEF IdsFresh
    <2> QED BY <1>0, <2>1, <2>3, UpdateFresh
  <1>5. ASSUME NEW c \in EvmChains, NEW t, NEW to \in Owners, transferFrom(c, t, to)
        PROVE  NotReused
    <2> DEFINE s == contracts[c]
               w == [s EXCEPT !.tokens[t].owner = to]
    <2>1. Update(c, w) /\ t \in DOMAIN s.tokens
      BY <1>5 DEF transferFrom
    <2>2. w.tokenIdCounter = s.tokenIdCounter /\ DOMAIN w.tokens = DOMAIN s.tokens
      BY <1>0, <2>1, GivenOK
    <2> HIDE DEF w
    <2>3. IdsFresh(s, w)
      BY <1>0, <2>2 DEF IdsFresh
    <2> QED BY <1>0, <2>1, <2>3, UpdateFresh
  <1>6. ASSUME NEW c \in EvmChains, NEW b \in BOOLEAN, setPaused(c, b)
        PROVE  NotReused
    <2> DEFINE s == contracts[c]
               w == [s EXCEPT !.paused = b]
    <2>1. Update(c, w)
      BY <1>6 DEF setPaused
    <2>2. w.tokenIdCounter = s.tokenIdCounter /\ w.tokens = s.tokens
      BY <1>0, PausedOK
    <2> HIDE DEF w
    <2>3. IdsFresh(s, w)
      BY <1>0, <2>2 DEF IdsFresh
    <2> QED BY <1>0, <2>1, <2>3, UpdateFresh
  <1>7. ASSUME NEW c \in EvmChains, NEW call \in calls,
               adminMarkMessageProcessed(c, call)
        PROVE  NotReused
    <2> DEFINE s == contracts[c]
               w == [s EXCEPT !.processedMessages = @ \cup {call.message.messageId}]
    <2>1. Update(c, w) /\ call.message.messageId \in MessageIds
      BY <1>0, <1>7 DEF adminMarkMessageProcessed, Types, Call, Message
    <2>2. w.tokenIdCounter = s.tokenIdCounter /\ w.tokens = s.tokens
      BY <1>0, <2>1, MarkedOK
    <2> HIDE DEF w
    <2>3. IdsFresh(s, w)
      BY <1>0, <2>2 DEF IdsFresh
    <2> QED BY <1>0, <2>1, <2>3, UpdateFresh
  <1>8. ZetaChain \in EvmChains /\ Base \in EvmChains
    BY DEF EvmChains
  <1>9. CASE \E c \in EvmChains : Tick(c)
    BY <1>1, <1>9 DEF Tick
  <1>10. CASE \E call \in calls : zetaOnRevert(call) \/ baseOnRevert(call)
    BY <1>1, <1>10 DEF zetaOnRevert, baseOnRevert, revert
  <1>11. CASE \E a \in {ZetaChain, Nowhere} : setZetaChainContract(a)
    BY <1>1, <1>11 DEF setZetaChainContract
  <1>12. CASE UNCHANGED vars
    BY <1>1, <1>12 DEF vars
  <1>13. CASE \E u \in Users, n \in Nfts : zetaMint(u, n) \/ baseMint(u, n)
    BY <1>2, <1>8, <1>13 DEF zetaMint, baseMint
  <1>14. CASE \E t \in 0 .. MaxTokens - 1, d \in EvmChains \cup {Solana} :
                \E r \in RecipientsOn(d) :
                   zetaBurnAndTransfer(t, d, r) \/ baseBurnAndTransfer(t, d, r)
    BY <1>4, <1>8, <1>14 DEF zetaBurnAndTransfer, baseBurnAndTransfer
  <1>15. CASE \E call \in calls : zetaOnCall(call) \/ baseOnCall(call)
    BY <1>3, <1>8, <1>15 DEF zetaOnCall, baseOnCall
  <1> QED BY <1>5, <1>6, <1>7, <1>9, <1>10, <1>11, <1>12, <1>13, <1>14, <1>15
          DEF Next

\* A burned token id is never issued again, so a message id that names it
\* cannot meet another NFT.
THEOREM IdsAreNotReused == Spec => TokenIdsNotReused
  <1>1. ASSUME IInv, [Next]_vars
        PROVE  [\A c \in EvmChains :
                  /\ contracts'[c].tokenIdCounter >= contracts[c].tokenIdCounter
                  /\ \A t \in DOMAIN contracts'[c].tokens :
                        t < contracts[c].tokenIdCounter
                           => t \in DOMAIN contracts[c].tokens]_vars
    BY <1>1, NextFresh DEF NotReused, IdsFresh
  <1> QED BY <1>1, Invariance, PTL DEF Spec, TokenIdsNotReused

----------------------------------------------------------------------------
(* The ledger *)

HeldAt(cs, ct) ==
    [kind |-> "held", at |-> ct[1], by |-> cs[ct[1]].tokens[ct[2]].owner]

PlaceFrom(cs, live, flight, chain) ==
    IF \E ct \in live : TRUE
    THEN LET ct == CHOOSE x \in live : TRUE IN HeldAt(cs, ct)
    ELSE IF flight # {} THEN [kind |-> "moving"]
    ELSE IF chain # NoChain THEN [kind |-> "lost"]
    ELSE [kind |-> "unminted"]

LEMMA PlaceViews ==
    ASSUME NEW n
    PROVE  /\ PlaceOf(n) =
                 PlaceFrom(contracts, LiveTokens(n), InFlight(n), mintedOn[n])
           /\ PlaceOf(n)' =
                 PlaceFrom(contracts', LiveTokens(n)', InFlight(n)', mintedOn'[n])
  BY DEF PlaceOf, PlaceFrom, HeldAt

LEMMA PlaceHeld ==
    ASSUME NEW cs, NEW live, AtMostOne(live), NEW flight, NEW chain,
           NEW ct \in live
    PROVE  PlaceFrom(cs, live, flight, chain) = HeldAt(cs, ct)
  <1> DEFINE x == CHOOSE y \in live : TRUE
  <1>1. x \in live
    BY Zenon
  <1>2. x = ct
    BY <1>1 DEF AtMostOne
  <1> HIDE DEF x
  <1>3. PlaceFrom(cs, live, flight, chain) = HeldAt(cs, x)
    BY Zenon DEF PlaceFrom, x
  <1> QED BY <1>2, <1>3

LEMMA PlaceFree ==
    ASSUME NEW cs, NEW flight, NEW chain
    PROVE  PlaceFrom(cs, {}, flight, chain) =
              IF flight # {} THEN [kind |-> "moving"]
              ELSE IF chain # NoChain THEN [kind |-> "lost"]
              ELSE [kind |-> "unminted"]
  BY DEF PlaceFrom

\* An NFT that a step leaves untouched stays in its place.
LEMMA UntouchedPlace ==
    ASSUME NEW n, AtMostOne(LiveTokens(n)), Untouched(n)
    PROVE  PlaceOf(n)' = PlaceOf(n)
  <1>1. /\ PlaceOf(n) = PlaceFrom(contracts, LiveTokens(n), InFlight(n), mintedOn[n])
        /\ PlaceOf(n)' = PlaceFrom(contracts', LiveTokens(n), InFlight(n), mintedOn[n])
    BY PlaceViews DEF Untouched
  <1>2. CASE LiveTokens(n) = {}
    BY <1>1, <1>2, PlaceFree
  <1>3. ASSUME NEW ct \in LiveTokens(n) PROVE PlaceOf(n)' = PlaceOf(n)
    <2>1. HeldAt(contracts', ct) = HeldAt(contracts, ct)
      BY DEF Untouched, HeldAt
    <2> QED BY <1>1, <2>1, PlaceHeld
  <1> QED BY <1>2, <1>3

LEMMA OwnersAreOwners ==
    ASSUME NEW cs, StoragesOK(cs), NEW n, NEW ct \in LiveAt(cs, n)
    PROVE  ct[1] \in EvmChains /\ cs[ct[1]].tokens[ct[2]].owner \in Owners
  <1>1. ct[1] \in EvmChains /\ ct[2] \in DOMAIN cs[ct[1]].tokens
    BY LiveIs
  <1> QED BY <1>1 DEF StoragesOK, StorageOK, Token

LEMMA LedgerStep ==
    ASSUME IInv, IInv', CopiesStep
    PROVE  [Ledger!Next]_<<[n \in Nfts |-> PlaceOf(n)], mintedOn>>
  <1> DEFINE place == [n \in Nfts |-> PlaceOf(n)]
  <1>0. /\ StoragesOK(contracts) /\ StoragesOK(contracts')
        /\ mintedOn \in [Nfts -> EvmChains \cup {NoChain}]
    BY DEF IInv, Types, StoragesOK
  <1>1. \A n \in Nfts : /\ AtMostOne(LiveTokens(n)) /\ AtMostOne(LiveTokens(n)')
                        /\ LiveTokens(n) = {} \/ InFlight(n) = {}
                        /\ LiveTokens(n)' = {} \/ InFlight(n)' = {}
                        /\ AtMostOne(InFlight(n))
                        /\ mintedOn[n] = NoChain =>
                              LiveTokens(n) = {} /\ InFlight(n) = {}
    BY DEF IInv, CopiesOK, AtMostOne
  <1>2. CASE mintedOn' = mintedOn /\ \A n \in Nfts : Untouched(n)
    <2>1. \A n \in Nfts : PlaceOf(n)' = PlaceOf(n)
      BY <1>1, <1>2, UntouchedPlace
    <2>2. place' = place
      BY <2>1
    <2> QED BY <1>2, <2>2
  <1>3. ASSUME NEW n \in Nfts, \A m \in Nfts \ {n} : Untouched(m),
               Minted(n) \/ Departed(n) \/ Arrived(n) \/ Gone(n) \/ Given(n)
        PROVE  Ledger!Next
    <2>1. place' = [place EXCEPT ![n] = PlaceOf(n)']
      <3>1. \A m \in Nfts \ {n} : PlaceOf(m)' = PlaceOf(m)
        BY <1>1, <1>3, UntouchedPlace
      <3> QED BY <3>1
    <2>2. place[n] = PlaceOf(n)
      OBVIOUS
    <2> HIDE DEF place
    <2>3. \A ct \in LiveTokens(n) :
             /\ ct[1] \in EvmChains /\ contracts[ct[1]].tokens[ct[2]].owner \in Owners
             /\ PlaceOf(n) = HeldAt(contracts, ct)
      BY <1>0, <1>1, OwnersAreOwners, Views, PlaceViews, PlaceHeld
    <2>4. \A ct \in LiveTokens(n)' :
             /\ ct[1] \in EvmChains /\ contracts'[ct[1]].tokens[ct[2]].owner \in Owners
             /\ PlaceOf(n)' = HeldAt(contracts', ct)
      BY <1>0, <1>1, OwnersAreOwners, Views, PlaceViews, PlaceHeld
    <2>5. LiveTokens(n) = {} =>
             PlaceOf(n) = IF InFlight(n) # {} THEN [kind |-> "moving"]
                          ELSE IF mintedOn[n] # NoChain THEN [kind |-> "lost"]
                          ELSE [kind |-> "unminted"]
      BY PlaceViews, PlaceFree
    <2>6. LiveTokens(n)' = {} =>
             PlaceOf(n)' = IF InFlight(n)' # {} THEN [kind |-> "moving"]
                           ELSE IF mintedOn'[n] # NoChain THEN [kind |-> "lost"]
                           ELSE [kind |-> "unminted"]
      BY PlaceViews, PlaceFree
    <2>7. CASE Minted(n)
      <3> PICK c \in EvmChains, t \in Nat :
            /\ mintedOn[n] = NoChain /\ mintedOn' = [mintedOn EXCEPT ![n] = c]
            /\ LiveTokens(n)' = LiveTokens(n) \cup {<<c, t>>}
        BY <2>7 DEF Minted
      <3> DEFINE o == contracts'[c].tokens[t].owner
      <3>1. PlaceOf(n) = Ledger!Unminted
        BY <1>1, <2>5 DEF Ledger!Unminted
      <3>2. o \in Owners /\ PlaceOf(n)' = Ledger!Held(c, o)
        <4>1. <<c, t>> \in LiveTokens(n)' /\ <<c, t>>[1] = c /\ <<c, t>>[2] = t
          OBVIOUS
        <4>2. o \in Owners /\ PlaceOf(n)' = HeldAt(contracts', <<c, t>>)
          BY <2>4, <4>1
        <4> QED BY <4>1, <4>2 DEF HeldAt, Ledger!Held
      <3>3. Ledger!Mint(n, c, o)
        BY <2>1, <2>2, <3>1, <3>2 DEF Ledger!Mint, place
      <3> QED BY <3>2, <3>3 DEF Ledger!Next
    <2>8. CASE Departed(n)
      <3> PICK c \in EvmChains, t \in Nat, call \in calls' :
            /\ mintedOn' = mintedOn
            /\ <<c, t>> \in LiveTokens(n)
            /\ InFlight(n)' = InFlight(n) \cup {call}
        BY <2>8 DEF Departed
      <3> DEFINE o == contracts[c].tokens[t].owner
      <3>1. o \in Owners /\ PlaceOf(n) = Ledger!Held(c, o)
        BY <2>3 DEF HeldAt, Ledger!Held
      <3>2. PlaceOf(n)' = Ledger!Moving
        BY <1>1, <2>6 DEF Ledger!Moving
      <3>3. Ledger!Depart(n, c, o)
        BY <2>1, <2>2, <3>1, <3>2 DEF Ledger!Depart, Ledger!Move, place
      <3> QED BY <3>1, <3>3 DEF Ledger!Next
    <2>9. CASE Arrived(n)
      <3> PICK c \in EvmChains, t \in Nat, call \in InFlight(n) :
            /\ mintedOn' = mintedOn
            /\ LiveTokens(n)' = LiveTokens(n) \cup {<<c, t>>}
        BY <2>9 DEF Arrived
      <3> DEFINE o == contracts'[c].tokens[t].owner
      <3>1. PlaceOf(n) = Ledger!Moving
        BY <1>1, <2>5 DEF Ledger!Moving
      <3>2. o \in Owners /\ PlaceOf(n)' = Ledger!Held(c, o)
        <4>1. <<c, t>> \in LiveTokens(n)' /\ <<c, t>>[1] = c /\ <<c, t>>[2] = t
          OBVIOUS
        <4>2. o \in Owners /\ PlaceOf(n)' = HeldAt(contracts', <<c, t>>)
          BY <2>4, <4>1
        <4> QED BY <4>1, <4>2 DEF HeldAt, Ledger!Held
      <3>3. Ledger!Arrive(n, c, o)
        BY <2>1, <2>2, <3>1, <3>2 DEF Ledger!Arrive, Ledger!Move, place
      <3> QED BY <3>2, <3>3 DEF Ledger!Next
    <2>10. CASE Gone(n)
      <3> PICK call \in InFlight(n) :
            /\ mintedOn' = mintedOn
            /\ LiveTokens(n)' = LiveTokens(n)
            /\ InFlight(n)' = InFlight(n) \ {call}
        BY <2>10 DEF Gone
      <3>1. LiveTokens(n) = {} /\ InFlight(n)' = {} /\ mintedOn[n] # NoChain
        BY <1>1 DEF AtMostOne
      <3>2. PlaceOf(n) = Ledger!Moving /\ PlaceOf(n)' = Ledger!Lost
        BY <2>5, <2>6, <3>1 DEF Ledger!Moving, Ledger!Lost
      <3>3. Ledger!Lose(n)
        BY <2>1, <2>2, <3>2 DEF Ledger!Lose, Ledger!Move, place
      <3> QED BY <3>3 DEF Ledger!Next
    <2>11. CASE Given(n)
      <3> PICK ct \in LiveTokens(n) :
            mintedOn' = mintedOn /\ LiveTokens(n)' = LiveTokens(n)
        BY <2>11 DEF Given
      <3> DEFINE o == contracts[ct[1]].tokens[ct[2]].owner
                 q == contracts'[ct[1]].tokens[ct[2]].owner
                 c == ct[1]
      <3>1. o \in Owners /\ c \in EvmChains /\ PlaceOf(n) = Ledger!Held(c, o)
        BY <2>3 DEF HeldAt, Ledger!Held
      <3>2. q \in Owners /\ PlaceOf(n)' = Ledger!Held(c, q)
        <4>1. ct \in LiveTokens(n)'
          OBVIOUS
        <4> QED BY <2>4, <4>1 DEF HeldAt, Ledger!Held
      <3>3. Ledger!Give(n, c, o, q)
        BY <2>1, <2>2, <3>1, <3>2 DEF Ledger!Give, Ledger!Move, place
      <3> QED BY <3>1, <3>2, <3>3 DEF Ledger!Next
    <2> QED BY <1>3, <2>7, <2>8, <2>9, <2>10, <2>11
  <1> QED BY <1>2, <1>3 DEF CopiesStep

\* The two contracts and the gateway implement the ledger: no step duplicates
\* an NFT, moves it without a message, or brings a lost one back.
THEOREM LedgerIsImplemented == Spec => ImplementsLedger
  <1>1. Init => Ledger!Init
    <2> SUFFICES ASSUME Init PROVE Ledger!Init
      OBVIOUS
    <2>1. \A c \in EvmChains : DOMAIN contracts[c].tokens = {}
      BY DEF Init, EmptyContract
    <2>2. \A n \in Nfts : LiveTokens(n) = {} /\ InFlight(n) = {}
      BY <2>1 DEF Init, LiveTokens, InFlight
    <2>3. \A n \in Nfts : PlaceOf(n) = Ledger!Unminted
      <3> TAKE n \in Nfts
      <3>1. PlaceOf(n) = PlaceFrom(contracts, {}, {}, NoChain)
        BY <2>2, PlaceViews DEF Init
      <3> QED BY <3>1, PlaceFree DEF Ledger!Unminted
    <2> QED BY <2>3 DEF Init, Ledger!Init
  <1>2. IInv /\ IInv' /\ [Next]_vars
           => [Ledger!Next]_<<[n \in Nfts |-> PlaceOf(n)], mintedOn>>
    BY NextStep, LedgerStep
  <1> QED BY <1>1, <1>2, Invariance, PTL DEF Spec, ImplementsLedger, Ledger!Spec
============================================================================
