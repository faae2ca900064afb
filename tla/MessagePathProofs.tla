------------------------- MODULE MessagePathProofs --------------------------
(***************************************************************************)
(* Theorems about MessagePath: what a message is after any way through the *)
(* forms, what on_call reads of a payload, where the checks of the two     *)
(* libraries part, and which signatures and gateways are accepted.         *)
(***************************************************************************)
EXTENDS MessagePath, MessageCodecProofs

Entries == [signature : Signatures, signer : Keys]
Records == [public_key : GatewayKeys, is_active : BOOLEAN]

\* The lists hold what the program's functions accept, within their bounds;
\* no gateway is stored twice.
ListsOK ==
  /\ validators \in Seq(Keys) /\ Len(validators) <= MaxValidators
  /\ \A i \in DOMAIN validators : validators[i] # DefaultKey
  /\ signatures \in Seq(Entries)
  /\ gateways \in Seq(Records)
  /\ \A i, j \in DOMAIN gateways :
       gateways[i].public_key = gateways[j].public_key => i = j

\* The steps that change the lists of the call.
LEMMA NextChangesLists ==
  ASSUME [Next]_vars
  PROVE  \/ UNCHANGED listVars
         \/ \E k \in Keys, weight \in {1, 101} : RegisterValidator(k, weight)
         \/ \E s \in Signatures, k \in Keys : AddSignature(s, k)
         \/ \E k \in GatewayKeys, active \in BOOLEAN :
              AddAuthorizedGateway(k, active)
         \/ \E k \in GatewayKeys : RemoveAuthorizedGateway(k)
<1>1. CASE UNCHANGED vars
  BY <1>1 DEF vars, listVars
<1>2. ASSUME NEW sender \in Senders, NEW t \in TokenIds, NEW uri \in Uris,
             NEW r \in Recipients, NEW a \in Contracts,
             NEW origin \in ChainIds, NEW destination \in Destinations,
             NEW n \in Nonces,
             New(sender, t, uri, r, a, origin, destination, n)
      PROVE  UNCHANGED listVars
  BY <1>2 DEF New, Make
<1>3. ASSUME NEW type \in NftTypes, NEW t \in TokenIds, NEW texts \in NftTexts,
             NEW c \in NftChains, NEW a \in Contracts, NEW r \in Recipients,
             NEW more \in Additional, NewNft(type, t, texts, c, a, r, more)
      PROVE  UNCHANGED listVars
  BY <1>3 DEF NewNft, Make
<1>4. ASSUME NEW from, NEW to, NEW content, Hop(from, to, content)
      PROVE  UNCHANGED listVars
  BY <1>4 DEF Hop
<1>5. CASE \/ EncodeCopy \/ DecodeCopy \/ ToEvm \/ FromEvm \/ ToSolana
           \/ FromSolana \/ SerializeCopy \/ DeserializeCopy
  BY <1>4, <1>5 DEF EncodeCopy, DecodeCopy, ToEvm, FromEvm, ToSolana,
     FromSolana, SerializeCopy, DeserializeCopy
<1>6. ASSUME NEW destination \in Destinations, NEW n \in Nonces,
             SetRoute(destination, n)
      PROVE  UNCHANGED listVars
  BY <1>6 DEF SetRoute
<1>7. CASE NextMoment
  BY <1>7 DEF NextMoment
<1>8. ASSUME NEW uri \in Texts, NEW name \in Texts, NEW symbol \in Texts,
             NEW more \in Additional, Deliver(uri, name, symbol, more)
      PROVE  UNCHANGED listVars
  BY <1>8 DEF Deliver
<1> HIDE DEF listVars
<1> QED BY <1>1, <1>2, <1>3, <1>5, <1>6, <1>7, <1>8 DEF Next

\* The bounds are numbers, and no larger than the code allows.
LEMMA Bounds ==
  MaxValidators \in Nat /\ MaxValidators <= 10 /\ MaxCounted \in Nat
BY MessagePathBounds, MessageValidationAssumption DEF MAX_VALIDATORS

\* The lists are empty at first.
LEMMA ListsOKInit == Init => ListsOK
BY Bounds, EmptySeq DEF Init, ListsOK

\* What is retained of a list is a list of its entries, and two of them
\* stood at two positions of it.
LEMMA RetainedIs ==
  ASSUME NEW S, NEW list \in Seq(S), NEW keep \in SUBSET DOMAIN list
  PROVE  /\ Retained(list, keep) \in Seq(S)
         /\ \A m, n \in DOMAIN Retained(list, keep) : m # n =>
              \E i, j \in keep : /\ i # j
                                /\ Retained(list, keep)[m] = list[i]
                                /\ Retained(list, keep)[n] = list[j]
<1> DEFINE Upto(i) == {j \in keep : j <= i}
           Rank(i) == Cardinality(Upto(i))
           size == Cardinality(keep)
           At(n) == CHOOSE i \in keep : Rank(i) = n
           rank == [i \in keep |-> Rank(i)]
           rest == [n \in 1..size |-> list[At(n)]]
<1>1. /\ DOMAIN list = 1..Len(list) /\ Len(list) \in Nat
      /\ \A i \in keep : list[i] \in S
  BY LenProperties, ElementOfSeq
<1>2. IsFiniteSet(1..Len(list))
  BY <1>1, FS_Interval
<1>3. IsFiniteSet(keep) /\ size \in Nat /\ keep \subseteq Nat
  BY <1>1, <1>2, FS_Subset, FS_CardinalityType
<1>4. ASSUME NEW i \in keep
      PROVE  IsFiniteSet(Upto(i)) /\ Rank(i) \in 1..size
  <2>1. /\ IsFiniteSet(Upto(i)) /\ Rank(i) <= size /\ Rank(i) \in Nat
    BY <1>3, FS_Subset, FS_CardinalityType
  <2>2. i \in Upto(i)
    BY <1>3
  <2>3. Rank(i) # 0
    BY <2>1, <2>2, FS_EmptySet
  <2> QED BY <2>1, <2>3, <1>3
<1>5. ASSUME NEW i \in keep, NEW j \in keep, i < j
      PROVE  Rank(i) # Rank(j)
  <2>1. Upto(i) \in SUBSET Upto(j) /\ j \in Upto(j) /\ j \notin Upto(i)
    BY <1>3, <1>5
  <2>2. IsFiniteSet(Upto(j))
    BY <1>4
  <2> QED BY <2>1, <2>2, FS_Subset
<1>6. rank \in Injection(keep, 1..size)
  <2>1. rank \in [keep -> 1..size]
    BY <1>4
  <2>2. ASSUME NEW i \in keep, NEW j \in keep, rank[i] = rank[j]
        PROVE  i = j
    <3>1. i \in Nat /\ j \in Nat /\ Rank(i) = Rank(j)
      BY <1>3, <2>2
    <3> HIDE DEF Rank
    <3> QED BY <1>5, <3>1
  <2> QED BY <2>1, <2>2 DEF Injection, IsInjective
<1>7. IsFiniteSet(1..size) /\ Cardinality(1..size) = size
  <2> HIDE DEF size
  <2>1. IsFiniteSet(1..size) /\ Cardinality(1..size) = IF 1 > size THEN 0 ELSE size - 1 + 1
    BY <1>3, FS_Interval
  <2> QED BY <2>1, <1>3
<1>8. rank \in Surjection(keep, 1..size)
  BY <1>6, <1>7, FS_Injection
<1>9. ASSUME NEW n \in 1..size PROVE At(n) \in keep /\ Rank(At(n)) = n
  <2>1. \E i \in keep : Rank(i) = n
    BY <1>8 DEF Surjection
  <2> HIDE DEF Rank
  <2> QED BY <2>1
<1>10. Retained(list, keep) = rest
  BY DEF Retained
<1> HIDE DEF Rank, At, size
<1>11. rest \in Seq(S)
  BY <1>1, <1>3, <1>9, SeqDef
<1>12. \A m, n \in 1..size : m # n =>
         \E i, j \in keep : i # j /\ rest[m] = list[i] /\ rest[n] = list[j]
  BY <1>9
<1> HIDE DEF rest
<1>13. DOMAIN rest = 1..size
  BY DEF rest
<1> QED BY <1>10, <1>11, <1>12, <1>13

\* Every step keeps the lists so.
LEMMA ListsOKStep ==
  ASSUME ListsOK, [Next]_vars
  PROVE  ListsOK'
<1>1. CASE UNCHANGED listVars
  BY <1>1 DEF ListsOK, listVars
<1>2. ASSUME NEW k \in Keys, NEW weight \in {1, 101}, RegisterValidator(k, weight)
      PROVE  ListsOK'
  <2>1. /\ k # DefaultKey /\ Len(validators) < MaxValidators
        /\ validators' = Append(validators, k)
        /\ UNCHANGED <<signatures, gateways>>
    BY <1>2 DEF RegisterValidator, CanRegisterValidator
  <2> QED BY <2>1, AppendProperties, Bounds DEF ListsOK
<1>3. ASSUME NEW s \in Signatures, NEW k \in Keys, AddSignature(s, k)
      PROVE  ListsOK'
  <2> DEFINE entry == [signature |-> s, signer |-> k]
  <2>1. /\ signatures' = Append(signatures, entry)
        /\ UNCHANGED <<validators, gateways>>
    BY <1>3 DEF AddSignature
  <2>2. entry \in Entries
    BY DEF Entries
  <2> HIDE DEF entry
  <2> QED BY <2>1, <2>2, AppendProperties DEF ListsOK
<1>4. ASSUME NEW k \in GatewayKeys, NEW active \in BOOLEAN,
             AddAuthorizedGateway(k, active)
      PROVE  ListsOK'
  <2> DEFINE record == [public_key |-> k, is_active |-> active]
  <2>1. /\ gateways' = Append(gateways, record)
        /\ \A i \in DOMAIN gateways : gateways[i].public_key # k
        /\ UNCHANGED <<validators, signatures>>
    BY <1>4 DEF AddAuthorizedGateway, CanAddAuthorizedGateway
  <2>2. record \in Records /\ record.public_key = k
    BY DEF Records
  <2> HIDE DEF record
  <2>3. gateways \in Seq(Records)
    BY DEF ListsOK
  <2>4. /\ gateways' \in Seq(Records)
        /\ DOMAIN gateways = 1..Len(gateways) /\ Len(gateways) \in Nat
        /\ DOMAIN gateways' = 1..Len(gateways) + 1
        /\ \A i \in 1..Len(gateways) : gateways'[i] = gateways[i]
        /\ gateways'[Len(gateways) + 1] = record
    BY <2>1, <2>2, <2>3, AppendProperties, LenProperties
  <2>5. ASSUME NEW i \in DOMAIN gateways', NEW j \in DOMAIN gateways',
               gateways'[i].public_key = gateways'[j].public_key
        PROVE  i = j
    BY <2>1, <2>2, <2>4, <2>5 DEF ListsOK
  <2> QED BY <2>1, <2>4, <2>5 DEF ListsOK
<1>5. ASSUME NEW k \in GatewayKeys, RemoveAuthorizedGateway(k)
      PROVE  ListsOK'
  <2> DEFINE kept == {i \in DOMAIN gateways : gateways[i].public_key # k}
  <2>1. /\ gateways' = Retained(gateways, kept)
        /\ UNCHANGED <<validators, signatures>>
    BY <1>5 DEF RemoveAuthorizedGateway, WithoutGateway
  <2>2. gateways \in Seq(Records) /\ kept \in SUBSET DOMAIN gateways
    BY DEF ListsOK
  <2> HIDE DEF kept
  <2>3. /\ gateways' \in Seq(Records)
        /\ \A m, n \in DOMAIN gateways' : m # n =>
             \E i, j \in kept : /\ i # j /\ gateways'[m] = gateways[i]
                               /\ gateways'[n] = gateways[j]
    BY <2>1, <2>2, RetainedIs
  <2> QED BY <2>1, <2>2, <2>3 DEF ListsOK
<1> QED BY <1>1, <1>2, <1>3, <1>4, <1>5, NextChangesLists

\* The lists are so in every state.
LEMMA ListsOKAlways == Spec => []ListsOK
BY ListsOKInit, ListsOKStep, PTL DEF Spec

-----------------------------------------------------------------------------
\* The entries that Counted counts.
CountedIn(entries, keys) ==
  {i \in DOMAIN entries :
    /\ entries[i].signer \in ToSet(keys)
    /\ VerifySingleSignature(entries[i].signature, entries[i].signer)}

\* Counted is the number of a finite set of entries.
LEMMA CountedIsFinite ==
  ASSUME NEW entries \in Seq(Entries), NEW keys
  PROVE  /\ DOMAIN entries = 1..Len(entries) /\ Len(entries) \in Nat
         /\ IsFiniteSet(CountedIn(entries, keys))
         /\ Cardinality(CountedIn(entries, keys)) \in Nat
         /\ Cardinality(CountedIn(entries, keys)) <= Len(entries)
         /\ Counted(entries, keys) = Cardinality(CountedIn(entries, keys))
<1> DEFINE D == 1..Len(entries)
           C == CountedIn(entries, keys)
<1>1. DOMAIN entries = D /\ Len(entries) \in Nat
  BY LenProperties, Bounds
<1>2. IsFiniteSet(D) /\ Cardinality(D) = Len(entries)
  <2> Len(entries) \in Int /\ ~(1 > Len(entries) /\ Len(entries) > 0)
    BY <1>1
  <2> QED BY <1>1, FS_Interval
<1>3. C \in SUBSET D
  BY <1>1 DEF CountedIn
<1>4. IsFiniteSet(C) /\ Cardinality(C) <= Len(entries)
  BY <1>2, <1>3, FS_Subset
<1>5. Cardinality(C) \in Nat
  BY <1>4, FS_CardinalityType
<1>6. Counted(entries, keys) = Cardinality(C)
  BY DEF Counted, CountedIn
<1> QED BY <1>1, <1>4, <1>5, <1>6

\* The validators are ten at most, none of them the default key, and the
\* signers are among them.
LEMMA SetOfValidators ==
  ASSUME ListsOK
  PROVE  /\ DOMAIN validators = 1..Len(validators)
         /\ Len(validators) \in Nat /\ Len(validators) <= 10
         /\ IsFiniteSet(ToSet(validators))
         /\ DefaultKey \notin ToSet(validators)
         /\ Signers \subseteq ToSet(validators)
         /\ IsFiniteSet(Signers) /\ Cardinality(Signers) \in Nat
<1>0. validators \in Seq(Keys) /\ Len(validators) <= MaxValidators
  BY DEF ListsOK
<1>1. DOMAIN validators = 1..Len(validators) /\ Len(validators) \in Nat /\ Len(validators) <= 10
  BY <1>0, LenProperties, Bounds
<1>2. IsFiniteSet(1..Len(validators))
  BY <1>1, FS_Interval
<1>3. validators \in Surjection(1..Len(validators), ToSet(validators))
  BY <1>1, LenProperties DEF Surjection, ToSet, ListsOK
<1>4. IsFiniteSet(ToSet(validators))
  BY <1>2, <1>3, FS_Surjection
<1>5. DefaultKey \notin ToSet(validators)
  BY DEF ListsOK, ToSet
<1>6. Signers \subseteq ToSet(validators)
  BY DEF Signers
<1>7. IsFiniteSet(Signers) /\ Cardinality(Signers) \in Nat
  BY <1>4, <1>6, FS_Subset, FS_CardinalityType
<1> QED BY <1>1, <1>4, <1>5, <1>6, <1>7

\* The threshold of up to ten validators is at least two, and never more
\* than they are unless there are fewer than two.
LEMMA ThresholdOf ==
  ASSUME NEW n \in Nat, n <= 10
  PROVE  /\ CalculateSignatureThreshold(n, MIN_SIGNATURE_PERCENTAGE) \in 2..10
         /\ n >= 2 =>
              CalculateSignatureThreshold(n, MIN_SIGNATURE_PERCENTAGE) <= n
<1> DEFINE t == U8((n * 67) \div 100)
           S == {t, 2}
<1>1. t \in 0..n
  BY DEF U8
<1>2. CalculateSignatureThreshold(n, MIN_SIGNATURE_PERCENTAGE) = Max(S)
  BY DEF CalculateSignatureThreshold, MIN_SIGNATURE_PERCENTAGE,
         MIN_VALIDATOR_THRESHOLD
<1> HIDE DEF t
<1>3. \E x \in S : \A y \in S : x >= y
  BY <1>1
<1>4. Max(S) \in S /\ \A y \in S : Max(S) >= y
  BY <1>3 DEF Max
<1> QED BY <1>1, <1>2, <1>4

\* When verify_signatures succeeds; no u8 but the count can overflow.
LEMMA VerifiedIs ==
  ASSUME NEW entries \in Seq(Entries), NEW keys, Len(keys) \in Nat, Len(keys) <= 10, NEW threshold
  PROVE  VerifySignatures(entries, keys, threshold) <=>
           /\ entries # <<>> /\ keys # <<>>
           /\ threshold \in 1..Len(keys)
           /\ Cardinality(CountedIn(entries, keys)) >= threshold
           /\ Cardinality(CountedIn(entries, keys)) <= MaxCounted
<1>1. \A n \in Nat : n <= 10 => U8(n) = n
  BY DEF U8
<1>2. U8(Len(keys)) = Len(keys)
  BY <1>1
<1> QED BY <1>2, CountedIsFinite
       DEF VerifySignatures, SignatureValidationResult

\* The same for the lists as they are.
LEMMA VerifiedNow ==
  ASSUME ListsOK
  PROVE  Verified <=>
           /\ signatures # <<>> /\ validators # <<>>
           /\ Threshold \in 1..Len(validators)
           /\ Cardinality(CountedIn(signatures, validators)) >= Threshold
           /\ Cardinality(CountedIn(signatures, validators)) <= MaxCounted
BY VerifiedIs, SetOfValidators DEF Verified, ListsOK

\* The entries that count are no more than the signatures.
LEMMA CountedNow ==
  ASSUME ListsOK
  PROVE  /\ DOMAIN signatures = 1..Len(signatures)
         /\ Len(signatures) \in Nat
         /\ IsFiniteSet(CountedIn(signatures, validators))
         /\ Cardinality(CountedIn(signatures, validators)) \in Nat
         /\ Cardinality(CountedIn(signatures, validators)) <= Len(signatures)
         /\ Counted(signatures, validators)
              = Cardinality(CountedIn(signatures, validators))
BY CountedIsFinite DEF ListsOK

-----------------------------------------------------------------------------

\* Each entry that counts is of a signer of its own, if no signer has two.
LEMMA CountedAreSigners ==
  ASSUME ListsOK,
         Cardinality({s.signer : s \in ToSet(signatures)}) = Len(signatures)
  PROVE  Cardinality(CountedIn(signatures, validators)) <= Cardinality(Signers)
<1> DEFINE D == 1..Len(signatures)
           S == {s.signer : s \in ToSet(signatures)}
           f == [i \in D |-> signatures[i].signer]
           g == [i \in CountedIn(signatures, validators) |-> signatures[i].signer]
<1>1. DOMAIN signatures = D /\ CountedIn(signatures, validators) \subseteq D
  BY CountedNow DEF CountedIn
<1>2. f \in Surjection(D, S)
  BY <1>1 DEF Surjection, ToSet
<1>3. IsFiniteSet(D) /\ Cardinality(D) = Cardinality(S)
  <2> DEFINE n == Len(signatures)
  <2>1. n \in Nat
    BY CountedNow
  <2> HIDE DEF n
  <2>2. IsFiniteSet(1..n) /\ Cardinality(1..n) = IF 1 > n THEN 0 ELSE n - 1 + 1
    BY <2>1, FS_Interval
  <2>3. Cardinality(1..n) = n
    BY <2>1, <2>2
  <2> QED BY <2>2, <2>3 DEF n
<1>4. f \in Injection(D, S)
  BY <1>2, <1>3, FS_SurjSameCardinalityImpliesInj
<1>5. \A i, j \in D : signatures[i].signer = signatures[j].signer => i = j
  BY <1>4 DEF Injection, IsInjective
<1>6. g \in Injection(CountedIn(signatures, validators), Signers)
  <2>1. \A i \in CountedIn(signatures, validators) : g[i] \in Signers
    BY DEF CountedIn, Signers, VerifySingleSignature
  <2>2. \A i, j \in CountedIn(signatures, validators) : g[i] = g[j] => i = j
    BY <1>1, <1>5
  <2> QED BY <2>1, <2>2 DEF Injection, IsInjective
<1> QED BY <1>6, SetOfValidators, FS_Injection

\* Each validator that signed has an entry that counts.
LEMMA SignersAreCounted ==
  ASSUME ListsOK
  PROVE  Cardinality(Signers) <= Cardinality(CountedIn(signatures, validators))
<1> DEFINE Entry(k) == CHOOSE i \in DOMAIN signatures :
                         /\ signatures[i].signer = k
                         /\ signatures[i].signature = "valid"
           f == [k \in Signers |-> Entry(k)]
<1>1. \A k \in Signers : /\ Entry(k) \in DOMAIN signatures
                         /\ signatures[Entry(k)].signer = k
                         /\ signatures[Entry(k)].signature = "valid"
  BY DEF Signers
<1> HIDE DEF Entry
<1>2. \A k \in Signers : f[k] \in CountedIn(signatures, validators)
  BY <1>1, SetOfValidators DEF CountedIn, VerifySingleSignature
<1>3. f \in Injection(Signers, CountedIn(signatures, validators))
  BY <1>1, <1>2 DEF Injection, IsInjective
<1> QED BY <1>3, CountedNow, FS_Injection

\* What the lists are is enough for the property.
LEMMA QuorumIsRealFromLists == ListsOK => QuorumIsReal
<1> SUFFICES ASSUME ListsOK
             PROVE  QuorumIsReal
  OBVIOUS
<1>1. Len(validators) \in Nat /\ Len(validators) <= 10 /\ Threshold \in 2..10
      /\ (Len(validators) >= 2 => Threshold <= Len(validators))
  BY SetOfValidators, ThresholdOf DEF Threshold
<1>2. ASSUME Verified, Cardinality({s.signer : s \in ToSet(signatures)})
                         = Len(signatures)
      PROVE  Cardinality(Signers) >= Threshold
  BY <1>1, <1>2, VerifiedNow, CountedAreSigners, CountedNow,
     SetOfValidators
<1>3. ASSUME Len(validators) >= 2,
             Cardinality(ToSet(validators)) = Len(validators),
             Signers = ToSet(validators),
             Counted(signatures, validators) <= MaxCounted
      PROVE  Verified
  <2>1. /\ Cardinality(CountedIn(signatures, validators)) >= Threshold
        /\ Cardinality(CountedIn(signatures, validators)) <= MaxCounted
    BY <1>1, <1>3, SignersAreCounted, CountedNow
  <2>2. validators # <<>>
    BY <1>3, EmptySeq
  <2>3. signatures # <<>>
    <3>1. validators[1] \in Signers
      BY <1>3, SetOfValidators DEF ToSet
    <3>2. PICK i \in DOMAIN signatures : TRUE
      BY <3>1 DEF Signers
    <3> QED BY <3>2, CountedNow, EmptySeq
  <2> QED BY <1>1, <1>3, <2>1, <2>2, <2>3, VerifiedNow
<1> QED BY <1>2, <1>3 DEF QuorumIsReal

\* verify_signatures: without double entries, a verified message has as many
\* different validators as the threshold says, and a message all of two or
\* more validators signed is verified.
THEOREM QuorumAlwaysReal == Spec => []QuorumIsReal
BY ListsOKAlways, QuorumIsRealFromLists, PTL

-----------------------------------------------------------------------------
\* An entry that is collected counts, or leaves those that count as they are.
LEMMA OneMoreEntry ==
  ASSUME ListsOK, NEW entry \in Entries
  PROVE  LET more == Append(signatures, entry)
             before == CountedIn(signatures, validators)
             after == CountedIn(more, validators)
         IN  /\ more \in Seq(Entries) /\ more # <<>>
             /\ ~Countable(entry) => after = before
             /\ Cardinality(after) \in
                  {Cardinality(before), Cardinality(before) + 1}
<1> DEFINE more == Append(signatures, entry)
           before == CountedIn(signatures, validators)
           after == CountedIn(more, validators)
           last == Len(signatures) + 1
<1>1. /\ more \in Seq(Entries) /\ Len(signatures) \in Nat
      /\ DOMAIN signatures = 1..Len(signatures) /\ DOMAIN more = 1..last
      /\ \A i \in 1..Len(signatures) : more[i] = signatures[i]
      /\ more[last] = entry
  BY AppendProperties, LenProperties DEF ListsOK
<1>2. more # <<>>
  BY <1>1, EmptySeq
<1>3. IsFiniteSet(before) /\ Cardinality(before) \in Nat
      /\ before \subseteq 1..Len(signatures)
  BY <1>1, CountedNow DEF CountedIn
<1> HIDE DEF more
<1>4. last \notin before
  BY <1>1, <1>3
<1>5. CASE last \in after
  <2>1. Countable(entry)
    BY <1>1, <1>5 DEF CountedIn, Countable, VerifySingleSignature
  <2>2. after = before \cup {last}
    BY <1>1, <1>5 DEF CountedIn
  <2> HIDE DEF before, after, last
  <2>3. Cardinality(after) = Cardinality(before) + 1
    BY <2>2, <1>3, <1>4, FS_AddElement
  <2> QED BY <1>1, <1>2, <2>1, <2>3 DEF more, before, after
<1>6. CASE last \notin after
  <2>1. after = before
    BY <1>1, <1>6 DEF CountedIn
  <2> QED BY <1>1, <1>2, <2>1 DEF more
<1> QED BY <1>5, <1>6

\* So it is for every step that collects one.
LEMMA ForgeriesStep ==
  ASSUME ListsOK, [Next]_vars, validators' = validators,
         Len(signatures') > Len(signatures)
  PROVE  /\ ~Countable(Last(signatures')) => (Verified' <=> Verified)
         /\ Verified /\ ~Verified' =>
              Counted(signatures, validators) = MaxCounted
<1>0. Len(signatures) \in Nat /\ ~(Len(signatures) > Len(signatures))
  BY CountedNow
<1>1. PICK s \in Signatures, k \in Keys : AddSignature(s, k)
  BY <1>0, NextChangesLists DEF listVars, RegisterValidator,
     AddAuthorizedGateway, RemoveAuthorizedGateway
<1> DEFINE entry == [signature |-> s, signer |-> k]
           before == Cardinality(CountedIn(signatures, validators))
           after == Cardinality(CountedIn(signatures', validators))
<1>2. signatures' = Append(signatures, entry) /\ entry \in Entries
  BY <1>1 DEF AddSignature, Entries
<1> HIDE DEF entry
<1>3. Last(signatures') = entry
  BY <1>2, AppendProperties DEF Last, ListsOK
<1>4. /\ signatures' \in Seq(Entries) /\ signatures' # <<>>
      /\ ~Countable(entry) =>
           CountedIn(signatures', validators) = CountedIn(signatures, validators)
      /\ after \in {before, before + 1}
  BY <1>2, OneMoreEntry
<1>5. Threshold' = Threshold /\ Threshold \in 2..10
      /\ Len(validators) \in Nat /\ Len(validators) <= 10
  BY SetOfValidators, ThresholdOf DEF Threshold
<1>6. Verified' <=> /\ validators # <<>> /\ Threshold \in 1..Len(validators)
                    /\ after >= Threshold /\ after <= MaxCounted
  BY <1>4, <1>5, VerifiedIs DEF Verified
<1>7. before \in Nat /\ before <= Len(signatures)
      /\ Counted(signatures, validators) = before
  BY CountedNow
<1>8. signatures = <<>> => before = 0
  BY <1>7, EmptySeq
<1>9. Verified <=> /\ validators # <<>> /\ Threshold \in 1..Len(validators)
                   /\ before >= Threshold /\ before <= MaxCounted
  BY <1>5, <1>8, VerifiedNow
<1>10. ~Countable(entry) => after = before
  BY <1>4
<1> HIDE DEF before, after
<1>11. Verified /\ ~Verified' => before = MaxCounted
  BY <1>4, <1>5, <1>6, <1>7, <1>9, Bounds
<1> QED BY <1>3, <1>6, <1>7, <1>9, <1>10, <1>11

\* verify_signatures: entries that are forged or of strangers are passed over,
\* where its doc promises an error, and nothing but the overflow of the count
\* undoes a verification.
THEOREM ForgeriesNeverCount == Spec => ForgeriesChangeNothing
<1>1. ListsOK /\ [Next]_vars =>
        [validators' = validators /\ Len(signatures') > Len(signatures) =>
           /\ ~Countable(Last(signatures')) => (Verified' <=> Verified)
           /\ Verified /\ ~Verified' =>
                Counted(signatures, validators) = MaxCounted]_vars
  BY ForgeriesStep
<1> QED BY <1>1, ListsOKAlways, PTL DEF Spec, ForgeriesChangeNothing

-----------------------------------------------------------------------------
\* Of a list that holds no key twice the first record of a key is its only one.
LEMMA LookupsAgreeFromLists == ListsOK => GatewayLookupsAgree
<1> SUFFICES ASSUME ListsOK, NEW k \in GatewayKeys
             PROVE  /\ AuthorizeGateway(k, StoredKeys, gateways)
                         <=> IsStoredGatewayAuthorized(k, gateways)
                    /\ IsGatewayAuthorized(k, StoredKeys)
                          /\ ~IsStoredGatewayAuthorized(k, gateways)
                         <=> \E i \in DOMAIN gateways :
                               /\ gateways[i].public_key = k
                               /\ ~gateways[i].is_active
  BY DEF GatewayLookupsAgree
<1> DEFINE own == {i \in DOMAIN gateways : gateways[i].public_key = k}
<1>1. k \in ToSet(StoredKeys) <=> own # {}
  BY DEF StoredKeys, ToSet
<1>2. \A i, j \in own : i = j
  BY DEF ListsOK
<1>3. own \subseteq Nat
  BY LenProperties DEF ListsOK
<1>4. own # {} => Min(own) \in own
  BY <1>3, MinOfNat
<1>5. IsGatewayAuthorized(k, StoredKeys) <=> k \in ToSet(StoredKeys)
  <2>1. {i \in DOMAIN << >> : << >>[i].public_key = k} = {}
    OBVIOUS
  <2> QED BY <2>1 DEF IsGatewayAuthorized, AuthorizeGateway
<1>6. AuthorizeGateway(k, StoredKeys, gateways)
        <=> own # {} /\ gateways[Min(own)].is_active
  BY <1>1 DEF AuthorizeGateway
<1>7. IsStoredGatewayAuthorized(k, gateways)
        <=> \E i \in own : gateways[i].is_active
  BY DEF IsStoredGatewayAuthorized
<1> QED BY <1>1, <1>2, <1>4, <1>5, <1>6, <1>7

\* The lookups of a gateway agree on every list the program can store.
THEOREM LookupsAlwaysAgree == Spec => []GatewayLookupsAgree
BY ListsOKAlways, LookupsAgreeFromLists, PTL

-----------------------------------------------------------------------------
\* How a form holds a message.
Written(form, m) ==
  CASE form = "borsh" -> Encode(m)
    [] form = "abi" -> ToEvmFormat(m)
    [] form = "nft borsh" -> Serialize(m)
    [] OTHER -> m

\* The message of a form, for a recipient there is.
MessageOK(form, m) ==
  IF form \in SharedForms THEN SharedOK(m) /\ m.recipient \in Recipients
                          ELSE NftOK(m) /\ m.recipient_address \in Recipients

OriginalOK ==
  /\ original.form \in {"shared", "nft"}
  /\ MessageOK(original.form, original.content)

\* What ToSolanaFormat fills in, which no hop changes.
Standard(m) ==
  /\ m.message_type = 1
  /\ m.name = UniversalNftName /\ m.symbol = UnftSymbol
  /\ m.additional_metadata = NoMetadata

\* The copy holds m, and m is what became of the original.
Carries(m) ==
  /\ copy = Form(copy.form, Written(copy.form, m))
  /\ MessageOK(copy.form, m)
  /\ Essence(copy.form, m) = Essence(original.form, original.content)
  /\ ~crossed => /\ m = original.content
                 /\ copy.form \in SharedForms <=> original.form = "shared"
  /\ original.form = "shared" /\ copy.form \in NftForms => Standard(m)

Delivered ==
  \E p : \E more \in Additional :
    /\ copy = Form("payload", [sent |-> p, additional |-> more,
                               payload |-> BuildPayload(p, more)])
    /\ PayloadOK(p) /\ p.recipient_address \in Recipients

CopyOK ==
  \/ original = NoCopy /\ copy = NoCopy
  \/ OriginalOK /\ copy.form \in SharedForms \cup NftForms /\ \E m : Carries(m)
  \/ OriginalOK /\ Delivered

PathOK == moment \in DOMAIN Times /\ CopyOK

-----------------------------------------------------------------------------
\* The present time is a number.
LEMMA NowIsNat ==
  ASSUME moment \in DOMAIN Times
  PROVE  now \in Nat
BY MessagePathAssumption, ElementOfSeq, LenProperties DEF now

\* At first there is no message.
LEMMA PathOKInit == Init => PathOK
<1>1. 1 \in DOMAIN Times
  <2> Times \in Seq(Nat) /\ Times # <<>>
    BY MessagePathAssumption
  <2> QED BY EmptySeq, LenProperties
<1> QED BY <1>1 DEF Init, PathOK, CopyOK

\* A message m in one form becomes k in another: the same, or what it is in
\* the other library.
Becomes(from, m, to, k) ==
  /\ MessageOK(to, k) /\ Essence(to, k) = Essence(from, m)
  /\ \/ k = m /\ (to \in SharedForms <=> from \in SharedForms)
     \/ {from, to} = {"shared", "nft"} /\ (to = "nft" => Standard(k))

\* What a hop leaves is what the invariant says of the copy.
LEMMA HopOK ==
  ASSUME NEW from \in SharedForms \cup NftForms,
         NEW to \in SharedForms \cup NftForms,
         NEW content, Hop(from, to, content), CopyOK,
         \A m : Carries(m) => \A new \in content :
           \E k : new = Written(to, k) /\ Becomes(from, m, to, k)
  PROVE  CopyOK'
<1>1. /\ copy.form = from /\ original' = original
      /\ crossed' = (crossed \/ {from, to} = {"shared", "nft"})
  BY DEF Hop
<1>2. PICK new \in content : copy' = Form(to, new)
  BY DEF Hop
<1>3. from \notin {"none", "payload"}
  BY DEF SharedForms, NftForms
<1>4. OriginalOK /\ \E m : Carries(m)
  BY <1>1, <1>3 DEF CopyOK, Delivered, NoCopy, Form
<1>5. PICK m : Carries(m)
  BY <1>4
<1>6. PICK k : new = Written(to, k) /\ Becomes(from, m, to, k)
  BY <1>5
<1>7. copy'.form = to /\ copy' = Form(to, Written(to, k))
  BY <1>2, <1>6 DEF Form
<1>8. MessageOK(to, k) /\ Essence(to, k) = Essence(original.form, original.content)
  BY <1>1, <1>5, <1>6 DEF Becomes, Carries
<1>9. ~crossed' => /\ k = original.content
                   /\ to \in SharedForms <=> original.form = "shared"
  BY <1>1, <1>5, <1>6, Zenon DEF Becomes, Carries
<1>10. original.form = "shared" /\ to \in NftForms => Standard(k)
  <2> SUFFICES ASSUME original.form = "shared", to \in NftForms
               PROVE  Standard(k)
    OBVIOUS
  <2>1. to \notin SharedForms
    BY DEF SharedForms, NftForms
  <2>2. CASE k = m /\ (to \in SharedForms <=> from \in SharedForms)
    BY <1>1, <1>5, <2>1, <2>2 DEF Carries
  <2>3. CASE {from, to} = {"shared", "nft"} /\ (to = "nft" => Standard(k))
    <3> to = "nft"
      BY <2>1, <2>3 DEF SharedForms
    <3> QED BY <2>3
  <2> QED BY <1>6, <2>2, <2>3 DEF Becomes
<1>11. Carries(k)'
  BY <1>1, <1>7, <1>8, <1>9, <1>10 DEF Carries
<1> QED BY <1>1, <1>4, <1>7, <1>11 DEF CopyOK, OriginalOK

\* A message turned into the other library's keeps what both hold.
LEMMA ToSolanaIs ==
  ASSUME NEW m, MessageOK("shared", m)
  PROVE  Becomes("shared", m, "nft", ToSolanaFormat(m))
<1> DEFINE k == ToSolanaFormat(m)
<1>1. SharedOK(m) /\ m.recipient \in Recipients
  BY DEF MessageOK, SharedForms
<1>2. IsString(UniversalNftName) /\ IsString(UnftSymbol) /\ IsBytes(NoMetadata)
  <2>1. \A v : /\ IsBytes(Run(13, "phrase", v)) /\ Len(Run(13, "phrase", v)) = 1
               /\ Kind(Run(13, "phrase", v)[1]) = "phrase"
    BY RunIs
  <2>2. \A v : /\ IsBytes(Run(4, "word", v)) /\ Len(Run(4, "word", v)) = 1
               /\ Kind(Run(4, "word", v)[1]) = "word"
    BY RunIs
  <2>3. ASSUME NEW b, IsBytes(b), Len(b) = 1, Kind(b[1]) \in AsciiKinds
        PROVE  IsString(b)
    <3> DOMAIN b = {1}
      BY <2>3, BytesShape
    <3> QED BY <2>3 DEF IsString, IsText, IsAscii
  <2>4. IsString(UniversalNftName)
    BY <2>1, <2>3 DEF UniversalNftName, AsciiKinds
  <2>5. IsString(UnftSymbol)
    BY <2>2, <2>3 DEF UnftSymbol, AsciiKinds
  <2> QED BY <2>4, <2>5, EmptyBytes DEF NoMetadata
<1>3. m.origin_chain % 256 \in 0..255
  <2> m.origin_chain \in Nat
    BY <1>1 DEF SharedOK
  <2> QED OBVIOUS
<1>4. NftOK(k)
  <2> HIDE DEF NoMetadata
  <2> QED BY <1>1, <1>2, <1>3 DEF NftOK, SharedOK, ToSolanaFormat, MessageTypes
<1>5. k.recipient_address = m.recipient /\ Standard(k)
  BY DEF ToSolanaFormat, Standard
<1>6. Essence("nft", k) = Essence("shared", m)
  BY DEF Essence, SharedForms, ToSolanaFormat
<1>7. "nft" \notin SharedForms
  BY DEF SharedForms
<1> QED BY <1>1, <1>4, <1>5, <1>6, <1>7, Zenon DEF Becomes, MessageOK

\* The same the other way: the byte of the chain is all there is of it.
LEMMA FromSolanaIs ==
  ASSUME NEW m, MessageOK("nft", m)
  PROVE  Becomes("nft", m, "shared", FromSolanaFormat(m))
<1> DEFINE k == FromSolanaFormat(m)
<1>1. NftOK(m) /\ m.recipient_address \in Recipients
  BY DEF MessageOK, SharedForms
<1>2. SharedOK(k)
  BY <1>1 DEF NftOK, SharedOK, FromSolanaFormat
<1>3. k.recipient = m.recipient_address
  BY DEF FromSolanaFormat
<1>4. m.origin_chain_id % 256 = m.origin_chain_id
  <2> m.origin_chain_id \in 0..255
    BY <1>1 DEF NftOK
  <2> QED OBVIOUS
<1>5. Essence("shared", k) = Essence("nft", m)
  BY <1>4 DEF Essence, SharedForms, FromSolanaFormat
<1>6. "shared" \in SharedForms /\ "shared" # "nft"
  BY DEF SharedForms
<1>7. {"nft", "shared"} = {"shared", "nft"}
  OBVIOUS
<1> QED BY <1>1, <1>2, <1>3, <1>5, <1>6, <1>7, Zenon DEF Becomes, MessageOK

\* The same message, in another form of the same library.
LEMMA SameIs ==
  ASSUME NEW from, NEW to, NEW m, MessageOK(from, m),
         to \in SharedForms <=> from \in SharedForms
  PROVE  Becomes(from, m, to, m)
BY Zenon DEF Becomes, MessageOK, Essence

\* What is held by a copy that holds m.
LEMMA HeldIs ==
  ASSUME NEW m, Carries(m), NEW form, copy.form = form
  PROVE  /\ copy.content = Written(form, m) /\ MessageOK(form, m)
         /\ form \in SharedForms => SharedOK(m)
         /\ form \notin SharedForms => NftOK(m)
BY DEF Carries, Form, MessageOK

\* What deserialize returns of what serialize wrote is what was written.
LEMMA DeserializeOnly ==
  ASSUME NEW m, NftOK(m), NEW new \in Deserialize(Serialize(m))
  PROVE  new = m
<1> DEFINE d == Serialize(m)
<1>1. CASE Size(d) <= CROSS_CHAIN_MAX_MESSAGE_SIZE
  BY <1>1, DeserializeSerialize
<1>2. CASE ~(Size(d) <= CROSS_CHAIN_MAX_MESSAGE_SIZE)
  <2>1. Size(d) \notin 1..CROSS_CHAIN_MAX_MESSAGE_SIZE
    <3> HIDE DEF d
    <3> QED BY <1>2
  <2>2. Deserialize(d) = NoMessage
    <3> HIDE DEF d
    <3> QED BY <2>1, Zenon DEF Deserialize
  <2> QED BY <2>2 DEF NoMessage
<1> QED BY <1>1, <1>2

\* Each conversion keeps what the copy carries; the decoders by the lemmas
\* that they read what the encoders write.
LEMMA HopsOK ==
  ASSUME CopyOK,
         \/ EncodeCopy \/ DecodeCopy \/ ToEvm \/ FromEvm \/ ToSolana \/ FromSolana
         \/ SerializeCopy \/ DeserializeCopy
  PROVE  CopyOK'
<1>1. /\ "shared" \in SharedForms /\ "borsh" \in SharedForms
      /\ "abi" \in SharedForms /\ "nft" \notin SharedForms
      /\ "nft borsh" \notin SharedForms
      /\ "nft" \in NftForms /\ "nft borsh" \in NftForms
  BY DEF SharedForms, NftForms
<1>2. \A m : /\ Written("shared", m) = m /\ Written("nft", m) = m
             /\ Written("borsh", m) = Encode(m)
             /\ Written("abi", m) = ToEvmFormat(m)
             /\ Written("nft borsh", m) = Serialize(m)
  BY DEF Written
<1>3. CASE EncodeCopy
  <2>1. copy.form = "shared"
    BY <1>3 DEF EncodeCopy, Hop
  <2>2. ASSUME NEW m, Carries(m), NEW new \in {Encode(copy.content)}
        PROVE  new = Written("borsh", m) /\ Becomes("shared", m, "borsh", m)
    <3>1. /\ copy.content = Written("shared", m) /\ MessageOK("shared", m)
          /\ SharedOK(m)
      BY <1>1, <2>1, <2>2, HeldIs
    <3>2. new = Encode(m)
      BY <1>2, <2>2, <3>1
    <3> QED BY <1>1, <1>2, <3>1, <3>2, SameIs
  <2> QED BY <1>1, <1>3, <2>2, HopOK DEF EncodeCopy
<1>4. CASE DecodeCopy
  <2>1. copy.form = "borsh"
    BY <1>4 DEF DecodeCopy, Hop
  <2>2. ASSUME NEW m, Carries(m), NEW new \in Decode(copy.content)
        PROVE  new = Written("shared", m) /\ Becomes("borsh", m, "shared", m)
    <3>1. /\ copy.content = Written("borsh", m) /\ MessageOK("borsh", m)
          /\ SharedOK(m)
      BY <1>1, <2>1, <2>2, HeldIs
    <3>2. new = m
      BY <1>2, <2>2, <3>1, DecodeEncode
    <3> QED BY <1>1, <1>2, <3>1, <3>2, SameIs
  <2> QED BY <1>1, <1>4, <2>2, HopOK DEF DecodeCopy
<1>5. CASE ToEvm
  <2>1. copy.form = "shared"
    BY <1>5 DEF ToEvm, Hop
  <2>2. ASSUME NEW m, Carries(m), NEW new \in {ToEvmFormat(copy.content)}
        PROVE  new = Written("abi", m) /\ Becomes("shared", m, "abi", m)
    <3>1. /\ copy.content = Written("shared", m) /\ MessageOK("shared", m)
          /\ SharedOK(m)
      BY <1>1, <2>1, <2>2, HeldIs
    <3>2. new = ToEvmFormat(m)
      BY <1>2, <2>2, <3>1
    <3> QED BY <1>1, <1>2, <3>1, <3>2, SameIs
  <2> QED BY <1>1, <1>5, <2>2, HopOK DEF ToEvm
<1>6. CASE FromEvm
  <2>1. copy.form = "abi"
    BY <1>6 DEF FromEvm, Hop
  <2>2. ASSUME NEW m, Carries(m), NEW new \in FromEvmFormat(copy.content)
        PROVE  new = Written("shared", m) /\ Becomes("abi", m, "shared", m)
    <3>1. /\ copy.content = Written("abi", m) /\ MessageOK("abi", m)
          /\ SharedOK(m)
      BY <1>1, <2>1, <2>2, HeldIs
    <3>2. new = m
      BY <1>2, <2>2, <3>1, FromEvmToEvm
    <3> QED BY <1>1, <1>2, <3>1, <3>2, SameIs
  <2> QED BY <1>1, <1>6, <2>2, HopOK DEF FromEvm
<1>7. CASE SerializeCopy
  <2>1. copy.form = "nft"
    BY <1>7 DEF SerializeCopy, Hop
  <2>2. ASSUME NEW m, Carries(m), NEW new \in {Serialize(copy.content)}
        PROVE  new = Written("nft borsh", m) /\ Becomes("nft", m, "nft borsh", m)
    <3>1. /\ copy.content = Written("nft", m) /\ MessageOK("nft", m)
          /\ NftOK(m)
      BY <1>1, <2>1, <2>2, HeldIs
    <3>2. new = Serialize(m)
      BY <1>2, <2>2, <3>1
    <3> QED BY <1>1, <1>2, <3>1, <3>2, SameIs
  <2> QED BY <1>1, <1>7, <2>2, HopOK DEF SerializeCopy
<1>8. CASE DeserializeCopy
  <2>1. copy.form = "nft borsh"
    BY <1>8 DEF DeserializeCopy, Hop
  <2>2. ASSUME NEW m, Carries(m), NEW new \in Deserialize(copy.content)
        PROVE  new = Written("nft", m) /\ Becomes("nft borsh", m, "nft", m)
    <3>1. /\ copy.content = Written("nft borsh", m) /\ MessageOK("nft borsh", m)
          /\ NftOK(m)
      BY <1>1, <2>1, <2>2, HeldIs
    <3>2. new = m
      BY <1>2, <2>2, <3>1, DeserializeOnly
    <3> QED BY <1>1, <1>2, <3>1, <3>2, SameIs
  <2> QED BY <1>1, <1>8, <2>2, HopOK DEF DeserializeCopy
<1>9. CASE ToSolana
  <2>1. copy.form = "shared"
    BY <1>9 DEF ToSolana, Hop
  <2>2. ASSUME NEW m, Carries(m), NEW new \in {ToSolanaFormat(copy.content)}
        PROVE  /\ new = Written("nft", ToSolanaFormat(m))
               /\ Becomes("shared", m, "nft", ToSolanaFormat(m))
    <3>1. copy.content = m /\ MessageOK("shared", m)
      BY <1>1, <1>2, <2>1, <2>2, HeldIs
    <3> QED BY <1>2, <2>2, <3>1, ToSolanaIs
  <2> QED BY <1>1, <1>9, <2>2, HopOK DEF ToSolana
<1>10. CASE FromSolana
  <2>1. copy.form = "nft"
    BY <1>10 DEF FromSolana, Hop
  <2>2. ASSUME NEW m, Carries(m), NEW new \in {FromSolanaFormat(copy.content)}
        PROVE  /\ new = Written("shared", FromSolanaFormat(m))
               /\ Becomes("nft", m, "shared", FromSolanaFormat(m))
    <3>1. copy.content = m /\ MessageOK("nft", m)
      BY <1>1, <1>2, <2>1, <2>2, HeldIs
    <3> QED BY <1>2, <2>2, <3>1, FromSolanaIs
  <2> QED BY <1>1, <1>10, <2>2, HopOK DEF FromSolana
<1> QED BY <1>3, <1>4, <1>5, <1>6, <1>7, <1>8, <1>9, <1>10

-----------------------------------------------------------------------------
\* The inputs are of the kinds the lemmas on codecs ask for.
LEMMA InputsOK ==
  /\ \A a \in Recipients \cup Contracts : Is32(a)
  /\ \A t \in Texts \cup Uris : IsString(t)
  /\ \A texts \in NftTexts, i \in 1..3 : IsString(texts[i])
  /\ \A more \in Additional : IsBytes(more)
  /\ TokenIds \subseteq Nat /\ ChainIds \subseteq Nat /\ Nonces \subseteq Nat
  /\ Destinations \subseteq Nat /\ NftChains \subseteq 0..255
  /\ NftTypes \subseteq MessageTypes
BY MessagePathAssumption, Zenon DEF Is32, IsString

\* A key can be an id.
LEMMA KeyIsId == ASSUME NEW k PROVE IsId(Key(k))
BY KeyIs DEF IsId, Is32

\* A message as it is made is the copy of itself.
LEMMA MadeOK ==
  ASSUME NEW form \in {"shared", "nft"}, NEW m, MessageOK(form, m),
         Make(Form(form, m))
  PROVE  CopyOK'
<1>1. original' = Form(form, m) /\ copy' = Form(form, m)
  BY DEF Make
<1>2. original'.form = form /\ original'.content = m
      /\ copy'.form = form /\ copy'.content = m
  BY <1>1 DEF Form
<1>3. Written(form, m) = m
  BY DEF Written
<1>4. form \in SharedForms <=> form = "shared"
  BY DEF SharedForms
<1>5. form = "shared" => form \notin NftForms
  BY DEF NftForms
<1>6. Carries(m)'
  BY <1>1, <1>2, <1>3, <1>4, <1>5, Zenon DEF Carries
<1>7. OriginalOK' /\ copy'.form \in SharedForms \cup NftForms
  BY <1>2 DEF OriginalOK, SharedForms, NftForms
<1> QED BY <1>6, <1>7 DEF CopyOK

\* NFTTransferMessage::new makes a message of the shared library.
LEMMA NewOK ==
  ASSUME PathOK, NEW sender \in Senders, NEW t \in TokenIds, NEW uri \in Uris,
         NEW r \in Recipients, NEW a \in Contracts,
         NEW origin \in ChainIds, NEW destination \in Destinations,
         NEW n \in Nonces,
         New(sender, t, uri, r, a, origin, destination, n)
  PROVE  CopyOK'
<1> DEFINE m == NFTTransferMessage(sender, t, uri, r, origin, destination, a, n, now)
<1>1. now \in Nat
  BY NowIsNat DEF PathOK
<1>2. IsId(m.message_id)
  BY KeyIsId DEF NFTTransferMessage, GenerateMessageId
<1>3. /\ m.token_id = t /\ m.metadata_uri = uri /\ m.recipient = r
      /\ m.origin_chain = origin /\ m.destination_chain = destination
      /\ m.timestamp = now /\ m.origin_contract = a /\ m.nonce = n
      /\ m = [token_id |-> m.token_id, metadata_uri |-> m.metadata_uri,
              recipient |-> m.recipient, origin_chain |-> m.origin_chain,
              destination_chain |-> m.destination_chain,
              message_id |-> m.message_id, timestamp |-> m.timestamp,
              origin_contract |-> m.origin_contract, nonce |-> m.nonce]
  BY DEF NFTTransferMessage
<1>4. /\ t \in Nat /\ origin \in Nat /\ destination \in Nat /\ n \in Nat
      /\ IsString(uri) /\ Is32(r) /\ Is32(a)
  BY InputsOK
<1> HIDE DEF m
<1>5. SharedOK(m)
  BY <1>1, <1>2, <1>3, <1>4 DEF SharedOK
<1>6. MessageOK("shared", m)
  BY <1>3, <1>5 DEF MessageOK, SharedForms
<1> QED BY <1>6, MadeOK DEF New, m

\* The program makes a message of its own.
LEMMA NewNftOK ==
  ASSUME PathOK, NEW type \in NftTypes, NEW t \in TokenIds,
         NEW texts \in NftTexts, NEW c \in NftChains, NEW a \in Contracts,
         NEW r \in Recipients, NEW more \in Additional,
         NewNft(type, t, texts, c, a, r, more)
  PROVE  CopyOK'
<1> DEFINE m == [message_type |-> type, token_id |-> t, metadata_uri |-> texts[1],
                 name |-> texts[2], symbol |-> texts[3],
                 origin_chain_id |-> c,
                 origin_address |-> a, recipient_address |-> r,
                 timestamp |-> now, message_id |-> Key(<<"nft id", now>>),
                 additional_metadata |-> more]
<1>1. now \in Nat
  BY NowIsNat DEF PathOK
<1>2. IsId(Key(<<"nft id", now>>))
  BY KeyIsId
<1>3. /\ type \in MessageTypes /\ t \in Nat
      /\ Is32(a) /\ Is32(r) /\ IsBytes(more)
  BY InputsOK
<1>4. IsString(texts[1]) /\ IsString(texts[2]) /\ IsString(texts[3])
  BY InputsOK
<1>5. c \in 0..255
  BY InputsOK
<1>6. NftOK(m)
  BY <1>1, <1>2, <1>3, <1>4, <1>5 DEF NftOK
<1>7. MessageOK("nft", m)
  BY <1>6 DEF MessageOK, SharedForms
<1> HIDE DEF m
<1> QED BY <1>7, MadeOK DEF NewNft, m

\* The destination and the nonce are no part of what is kept.
LEMMA SetRouteOK ==
  ASSUME CopyOK, NEW destination \in Destinations, NEW n \in Nonces,
         SetRoute(destination, n)
  PROVE  CopyOK'
<1>1. /\ crossed /\ copy.form = "shared"
      /\ crossed' = crossed /\ original' = original
      /\ copy' = [copy EXCEPT !.content.destination_chain = destination,
                              !.content.nonce = n]
  BY DEF SetRoute
<1>2. OriginalOK /\ \E m : Carries(m)
  BY <1>1 DEF CopyOK, Delivered, NoCopy, Form
<1>3. PICK m : Carries(m)
  BY <1>2
<1> DEFINE k == [m EXCEPT !.destination_chain = destination, !.nonce = n]
<1>4. /\ Written("shared", m) = m /\ Written("shared", k) = k
      /\ "shared" \in SharedForms /\ "shared" \notin NftForms
  BY DEF Written, SharedForms, NftForms
<1>5. SharedOK(m) /\ m.recipient \in Recipients
      /\ copy = [form |-> "shared", content |-> m]
  BY <1>1, <1>3, <1>4 DEF Carries, MessageOK, Form
<1>6. copy' = [form |-> "shared", content |-> k]
  BY <1>1, <1>5
<1>7. destination \in Nat /\ n \in Nat
  BY InputsOK
<1>8. SharedOK(k) /\ k.recipient = m.recipient
      /\ Essence("shared", k) = Essence("shared", m)
  <2>1. /\ k.token_id = m.token_id /\ k.metadata_uri = m.metadata_uri
        /\ k.recipient = m.recipient /\ k.origin_chain = m.origin_chain
        /\ k.destination_chain = destination /\ k.message_id = m.message_id
        /\ k.timestamp = m.timestamp /\ k.origin_contract = m.origin_contract
        /\ k.nonce = n
        /\ k = [token_id |-> k.token_id, metadata_uri |-> k.metadata_uri,
                recipient |-> k.recipient, origin_chain |-> k.origin_chain,
                destination_chain |-> k.destination_chain,
                message_id |-> k.message_id, timestamp |-> k.timestamp,
                origin_contract |-> k.origin_contract, nonce |-> k.nonce]
    <3> DEFINE Of(t, u, r, o, d, i, s, a, e) ==
                 [token_id |-> t, metadata_uri |-> u, recipient |-> r,
                  origin_chain |-> o, destination_chain |-> d, message_id |-> i,
                  timestamp |-> s, origin_contract |-> a, nonce |-> e]
    <3>1. m = Of(m.token_id, m.metadata_uri, m.recipient, m.origin_chain,
                 m.destination_chain, m.message_id, m.timestamp,
                 m.origin_contract, m.nonce)
      BY <1>5, Zenon DEF SharedOK
    <3>2. k = Of(m.token_id, m.metadata_uri, m.recipient, m.origin_chain,
                 destination, m.message_id, m.timestamp, m.origin_contract, n)
      <4>1. \A t, u, r, o, d, i, s, a, e :
              [Of(t, u, r, o, d, i, s, a, e)
                 EXCEPT !.destination_chain = destination]
              = Of(t, u, r, o, destination, i, s, a, e)
        OBVIOUS
      <4>2. \A t, u, r, o, d, i, s, a, e :
              [Of(t, u, r, o, d, i, s, a, e) EXCEPT !.nonce = n]
              = Of(t, u, r, o, d, i, s, a, n)
        OBVIOUS
      <4> DEFINE j == [m EXCEPT !.destination_chain = destination]
      <4>3. k = [j EXCEPT !.nonce = n]
        OBVIOUS
      <4> HIDE DEF Of, k
      <4>4. j = Of(m.token_id, m.metadata_uri, m.recipient, m.origin_chain,
                   destination, m.message_id, m.timestamp,
                   m.origin_contract, m.nonce)
        BY <3>1, <4>1
      <4> HIDE DEF j
      <4> QED BY <4>2, <4>3, <4>4
    <3> HIDE DEF k
    <3> QED BY <3>2
  <2> HIDE DEF k
  <2>2. SharedOK(k)
    BY <1>5, <1>7, <2>1 DEF SharedOK
  <2> QED BY <1>4, <2>1, <2>2 DEF Essence
<1> HIDE DEF k
<1>9. MessageOK("shared", k)
  BY <1>4, <1>5, <1>8 DEF MessageOK
<1>10. Carries(k)'
  BY <1>1, <1>3, <1>4, <1>6, <1>8, <1>9 DEF Carries, Form
<1>11. copy'.form \in SharedForms \cup NftForms
  BY <1>4, <1>6
<1> QED BY <1>1, <1>2, <1>10, <1>11 DEF CopyOK, OriginalOK

\* What is delivered is built from the message and three texts.
LEMMA DeliverOK ==
  ASSUME CopyOK, NEW uri \in Texts, NEW name \in Texts, NEW symbol \in Texts,
         NEW more \in Additional, Deliver(uri, name, symbol, more)
  PROVE  CopyOK'
<1> DEFINE p == Sent(uri, name, symbol)
<1>1. /\ copy.form = "nft" /\ original' = original
      /\ copy' = Form("payload", [sent |-> p, additional |-> more,
                                  payload |-> BuildPayload(p, more)])
  BY DEF Deliver, Presentable
<1>2. OriginalOK /\ \E m : Carries(m)
  BY <1>1 DEF CopyOK, Delivered, NoCopy, Form
<1>3. PICK m : Carries(m)
  BY <1>2
<1>4. NftOK(m) /\ m.recipient_address \in Recipients /\ copy.content = m
  <2> "nft" \notin SharedForms /\ Written("nft", m) = m
    BY DEF SharedForms, Written
  <2> QED BY <1>1, <1>3 DEF Carries, MessageOK, Form
<1>5. IsString(uri) /\ IsString(name) /\ IsString(symbol)
  BY InputsOK
<1>6. IsId(Key(<<"chain", copy.content.origin_chain_id>>))
  BY KeyIsId
<1>7. PayloadOK(p) /\ p.recipient_address \in Recipients
  BY <1>4, <1>5, <1>6 DEF PayloadOK, NftOK, Sent
<1> HIDE DEF p
<1>8. Delivered'
  BY <1>1, <1>7 DEF Delivered
<1> QED BY <1>1, <1>2, <1>8 DEF CopyOK, OriginalOK

\* Every step keeps the invariant.
LEMMA PathOKStep ==
  ASSUME PathOK, [Next]_vars
  PROVE  PathOK'
<1>1. ASSUME UNCHANGED <<moment, original, copy, crossed>>
      PROVE  PathOK'
  BY <1>1 DEF PathOK, CopyOK, OriginalOK, Carries, Delivered
<1>2. CASE UNCHANGED vars
  BY <1>1, <1>2 DEF vars
<1>3. ASSUME NEW sender \in Senders, NEW t \in TokenIds, NEW uri \in Uris,
             NEW r \in Recipients, NEW a \in Contracts,
             NEW origin \in ChainIds, NEW destination \in Destinations,
             NEW n \in Nonces,
             New(sender, t, uri, r, a, origin, destination, n)
      PROVE  PathOK'
  BY <1>3, NewOK DEF PathOK, New, Make
<1>4. ASSUME NEW type \in NftTypes, NEW t \in TokenIds, NEW texts \in NftTexts,
             NEW c \in NftChains, NEW a \in Contracts, NEW r \in Recipients,
             NEW more \in Additional, NewNft(type, t, texts, c, a, r, more)
      PROVE  PathOK'
  <2>1. CopyOK'
    BY <1>4, NewNftOK
  <2>2. moment' = moment
    BY <1>4 DEF NewNft, Make
  <2> QED BY <2>1, <2>2 DEF PathOK
<1>5. CASE \/ EncodeCopy \/ DecodeCopy \/ ToEvm \/ FromEvm \/ ToSolana
           \/ FromSolana \/ SerializeCopy \/ DeserializeCopy
  <2>1. moment' = moment
    BY <1>5 DEF Hop, EncodeCopy, DecodeCopy, ToEvm, FromEvm, ToSolana,
       FromSolana, SerializeCopy, DeserializeCopy
  <2> QED BY <1>5, <2>1, HopsOK DEF PathOK
<1>6. ASSUME NEW destination \in Destinations, NEW n \in Nonces,
             SetRoute(destination, n)
      PROVE  PathOK'
  BY <1>6, SetRouteOK DEF PathOK, SetRoute
<1>7. CASE NextMoment
  BY <1>7 DEF NextMoment, PathOK, CopyOK, OriginalOK, Carries, Delivered
<1>8. ASSUME NEW uri \in Texts, NEW name \in Texts, NEW symbol \in Texts,
             NEW more \in Additional, Deliver(uri, name, symbol, more)
      PROVE  PathOK'
  BY <1>8, DeliverOK DEF PathOK, Deliver
<1>9. ASSUME NEW k \in Keys, NEW weight \in {1, 101}, RegisterValidator(k, weight)
      PROVE  PathOK'
  BY <1>1, <1>9 DEF RegisterValidator
<1>10. ASSUME NEW s \in Signatures, NEW k \in Keys, AddSignature(s, k)
       PROVE  PathOK'
  BY <1>1, <1>10 DEF AddSignature
<1>11. ASSUME NEW k \in GatewayKeys, NEW active \in BOOLEAN,
              AddAuthorizedGateway(k, active)
       PROVE  PathOK'
  BY <1>1, <1>11 DEF AddAuthorizedGateway
<1>12. ASSUME NEW k \in GatewayKeys, RemoveAuthorizedGateway(k)
       PROVE  PathOK'
  BY <1>1, <1>12 DEF RemoveAuthorizedGateway
<1> QED BY <1>2, <1>3, <1>4, <1>5, <1>6, <1>7, <1>8, <1>9, <1>10, <1>11, <1>12
       DEF Next

\* The inductive invariant: whatever form the copy is in, it is what the
\* encoder of that form writes of a message that is still the one that was
\* made.
THEOREM PathAlwaysOK == Spec => []PathOK
BY PathOKInit, PathOKStep, PTL DEF Spec

-----------------------------------------------------------------------------
\* A message of the program as whoever holds it has it.
LEMMA HeldNft ==
  ASSUME CopyOK, copy.form = "nft"
  PROVE  OriginalOK /\ Carries(copy.content) /\ NftOK(copy.content)
<1>1. OriginalOK /\ \E m : Carries(m)
  BY DEF CopyOK, Delivered, NoCopy, Form
<1>2. PICK m : Carries(m)
  BY <1>1
<1>3. "nft" \notin SharedForms /\ Written("nft", m) = m
  BY DEF SharedForms, Written
<1>4. copy.content = m
  BY <1>2, <1>3, HeldIs
<1> QED BY <1>1, <1>2, <1>3, <1>4, HeldIs

\* A copy that carries a message is read as that message.
LEMMA CopyKeepsMessageFromPath == PathOK => CopyKeepsMessage
<1> SUFFICES ASSUME PathOK, copy.form \in SharedForms \cup NftForms, ~TooLarge
             PROVE  \E read \in Read :
                      /\ Essence(copy.form, read)
                           = Essence(original.form, original.content)
                      /\ ~crossed => read = original.content
  BY Zenon DEF CopyKeepsMessage
<1>1. OriginalOK /\ \E m : Carries(m)
  <2> copy.form \notin {"none", "payload"}
    BY DEF SharedForms, NftForms
  <2> QED BY DEF PathOK, CopyOK, Delivered, NoCopy, Form
<1>2. PICK m : Carries(m)
  BY <1>1
<1>3. /\ copy.content = Written(copy.form, m)
      /\ copy.form \in SharedForms => SharedOK(m)
      /\ copy.form \notin SharedForms => NftOK(m)
  BY <1>2, HeldIs
<1>4. m \in Read
  <2>1. CASE copy.form = "borsh"
    <3>1. SharedOK(m) /\ copy.content = Encode(m)
      BY <1>3, <2>1 DEF SharedForms, Written
    <3>2. Read = Decode(copy.content)
      BY <2>1 DEF Read
    <3> QED BY <3>1, <3>2, DecodeEncode
  <2>2. CASE copy.form = "abi"
    <3>1. SharedOK(m) /\ copy.content = ToEvmFormat(m)
      BY <1>3, <2>2 DEF SharedForms, Written
    <3>2. Read = FromEvmFormat(copy.content)
      BY <2>2 DEF Read
    <3> QED BY <3>1, <3>2, FromEvmToEvm
  <2>3. CASE copy.form = "nft borsh"
    <3>1. NftOK(m) /\ copy.content = Serialize(m)
      BY <1>3, <2>3 DEF SharedForms, Written
    <3>2. Read = Deserialize(copy.content)
      BY <2>3 DEF Read
    <3>3. ~(Size(Serialize(m)) > CROSS_CHAIN_MAX_MESSAGE_SIZE)
      BY <2>3, <3>1 DEF TooLarge
    <3>4. Size(Serialize(m)) \in Nat
      BY <3>1, SizeOfSerialize, EndsOf
    <3>5. Size(Serialize(m)) <= CROSS_CHAIN_MAX_MESSAGE_SIZE
      BY <3>3, <3>4 DEF CROSS_CHAIN_MAX_MESSAGE_SIZE
    <3> QED BY <3>1, <3>2, <3>5, DeserializeSerialize
  <2>4. CASE copy.form \notin {"borsh", "abi", "nft borsh"}
    <3>1. copy.content = m
      BY <1>3, <2>4 DEF Written
    <3>2. Read = {copy.content}
      BY <2>4 DEF Read
    <3> QED BY <3>1, <3>2
  <2> QED BY <2>1, <2>2, <2>3, <2>4
<1> QED BY <1>2, <1>4, Zenon DEF Carries

\* A message the program holds is one the lemmas on its encoders are about.
LEMMA OnlyBorshTravelsFromPath == PathOK => OnlyBorshTravels
<1> DEFINE m == copy.content
<1> SUFFICES ASSUME PathOK, copy.form = "nft"
             PROVE  /\ ValidMessageSize(m) => Deserialize(Serialize(m)) = {m}
                    /\ m \notin DecodeFromEvm(EncodeForEvm(m))
                    /\ \A c \in 0..255 :
                         ConstructChainOptimizedMessage(m, c, now) = NoMessage
  BY Zenon DEF OnlyBorshTravels
<1>1. NftOK(m)
  BY HeldNft DEF PathOK
<1> HIDE DEF m
<1>2. ASSUME ValidMessageSize(m) PROVE Deserialize(Serialize(m)) = {m}
  <2>1. Size(Serialize(m)) <= CROSS_CHAIN_MAX_MESSAGE_SIZE
    BY <1>2 DEF ValidMessageSize, CROSS_CHAIN_MAX_MESSAGE_SIZE,
       CROSS_CHAIN_MIN_MESSAGE_SIZE
  <2> QED BY <1>1, <2>1, DeserializeSerialize
<1> QED BY <1>1, <1>2, EvmNeverReadBack, NeverOptimized

\* A byte string that is not empty has a byte.
LEMMA NotEmpty ==
  ASSUME NEW b, IsBytes(b)
  PROVE  Size(b) \in Nat /\ (Size(b) = 0 <=> b = <<>>)
<1>1. Size(b) \in Nat /\ Len(b) \in Nat
  BY EndsOf, BytesShape
<1>2. ASSUME b # <<>> PROVE Size(b) # 0
  <2>1. Len(b) # 0
    BY <1>2, EmptySeq DEF IsBytes
  <2>2. 0 \in 0..Len(b) /\ Len(b) \in 0..Len(b) /\ 0 < Len(b)
    BY <1>1, <2>1
  <2>3. Ends(b)[0] < Ends(b)[Len(b)] /\ Ends(b)[0] = 0
    BY <2>2, EndsIncrease, EndsOf
  <2> QED BY <1>1, <2>3 DEF Size
<1> QED BY <1>1, <1>2, EmptyBytes

\* abs_diff has no sign, and no order.
LEMMA DistanceIs ==
  ASSUME NEW a \in Nat, NEW b \in Nat
  PROVE  Distance(a, b) \in Nat /\ Distance(a, b) = Distance(b, a)
BY DEF Distance

\* What the shared library finds valid the program accepts if it takes the
\* chain for one of its own, which it does for no network the library names.
LEMMA SharedPasses ==
  ASSUME PathOK, copy.form = "nft", original.form = "shared",
         Validate(original.content, MAX_MESSAGE_AGE_SECONDS, now),
         ValidateCrossChainCompatibility(original.content, now)
  PROVE  LET m == copy.content
             n == original.content
         IN  /\ (/\ ValidNftMessage(m, now) /\ ValidMessageSize(m)
                 /\ Size(Serialize(m)) <= MaxPipelinePayload)
                  <=> n.origin_chain % 256 \in SupportedChains
             /\ n.origin_chain \in NamedNetworks => ~ValidNftMessage(m, now)
<1> DEFINE m == copy.content
           n == original.content
           u == Size(n.metadata_uri)
<1>1. OriginalOK /\ Carries(m) /\ NftOK(m) /\ now \in Nat
  BY HeldNft, NowIsNat DEF PathOK
<1>2. Essence("nft", m) = Essence("shared", n) /\ Standard(m)
  BY <1>1 DEF Carries, NftForms
<1>3. SharedOK(n)
  BY <1>1 DEF OriginalOK, MessageOK, SharedForms
<1>4. /\ m.token_id = n.token_id /\ m.metadata_uri = n.metadata_uri
      /\ m.origin_chain_id = n.origin_chain % 256 /\ m.timestamp = n.timestamp
  BY <1>2 DEF Essence, SharedForms
<1>5. /\ now >= n.timestamp /\ now - n.timestamp <= 3600
      /\ u \in 1..500 /\ n.token_id # 0
  BY DEF Validate, ValidateCrossChainCompatibility, MAX_MESSAGE_AGE_SECONDS, MaxUri
<1>6. n.token_id \in Nat /\ n.timestamp \in Nat /\ IsBytes(n.metadata_uri)
  BY <1>3 DEF SharedOK, IsString
<1>7. /\ Len(UniversalNftName) = 1 /\ Size(UniversalNftName) = 13
      /\ Len(UnftSymbol) = 1 /\ Size(UnftSymbol) = 4
  <2>1. \A v : Len(Run(13, "phrase", v)) = 1 /\ Size(Run(13, "phrase", v)) = 13
    BY RunIs
  <2>2. \A v : Len(Run(4, "word", v)) = 1 /\ Size(Run(4, "word", v)) = 4
    BY RunIs
  <2> QED BY <2>1, <2>2 DEF UniversalNftName, UnftSymbol
<1>8. Size(Serialize(m)) = 144 + u
  <2>1. /\ Size(Serialize(m)) = Rest(m) + (IF m.additional_metadata = NoMetadata
                THEN 106 ELSE 110 + Size(m.additional_metadata))
    BY <1>1, SizeOfSerialize
  <2>2. Size(Serialize(m)) = Rest(m) + 106
    BY <1>2, <2>1 DEF Standard
  <2>3. Rest(m) = 21 + u + 13 + 4
    BY <1>2, <1>4, <1>7 DEF Rest, Standard
  <2> HIDE DEF m, u
  <2> QED BY <1>5, <2>2, <2>3
<1>9. Distance(now, m.timestamp) <= 3600
  <2> DEFINE time == n.timestamp
  <2>1. /\ time \in Nat /\ now \in Nat /\ now >= time /\ now - time <= 3600
        /\ m.timestamp = time
    BY <1>1, <1>4, <1>5, <1>6
  <2> HIDE DEF time, m, n
  <2>2. Distance(now, time) = now - time
    BY <2>1 DEF Distance
  <2> QED BY <2>1, <2>2
<1>10. m.metadata_uri # <<>> /\ m.name # <<>> /\ m.symbol # <<>>
  <2>1. m.metadata_uri # <<>>
    <3> Size(m.metadata_uri) # 0
      BY <1>4, <1>5
    <3> QED BY EmptyBytes
  <2>2. m.name # <<>> /\ m.symbol # <<>>
    BY <1>2, <1>7, EmptyBytes DEF Standard
  <2> QED BY <2>1, <2>2
<1>11. m.token_id > 0
  BY <1>4, <1>5, <1>6
<1> HIDE DEF m, u
<1>12. ValidNftMessage(m, now) <=> m.origin_chain_id \in SupportedChains
  BY <1>2, <1>9, <1>10, <1>11 DEF ValidNftMessage, Standard, MessageTypes,
     MAX_MESSAGE_AGE_SECONDS
<1>13. ValidMessageSize(m) /\ Size(Serialize(m)) <= MaxPipelinePayload
  BY <1>5, <1>8 DEF ValidMessageSize, CROSS_CHAIN_MIN_MESSAGE_SIZE,
     CROSS_CHAIN_MAX_MESSAGE_SIZE, MaxPipelinePayload
<1>14. \A c \in NamedNetworks : c % 256 \notin SupportedChains
  BY DEF NamedNetworks, SupportedChains, CHAIN_ID_SOLANA,
     CHAIN_ID_BASE_SEPOLIA, CHAIN_ID_BNB_TESTNET
<1> QED BY <1>4, <1>12, <1>13, <1>14 DEF m

\* A mint that the program accepts the shared library finds compatible.
LEMMA ProgramPasses ==
  ASSUME NEW m, NftOK(m), NEW time \in Nat,
         ValidNftMessage(m, time), m.message_type = MESSAGE_TYPE_NFT_MINT,
         Size(m.metadata_uri) <= MaxUri
  PROVE  ValidateCrossChainCompatibility(FromSolanaFormat(m), time)
<1> DEFINE k == FromSolanaFormat(m)
<1>1. /\ k.token_id = m.token_id /\ k.metadata_uri = m.metadata_uri
      /\ k.timestamp = m.timestamp /\ k.message_id = m.message_id
      /\ k.origin_chain = m.origin_chain_id /\ k.destination_chain = 0
  BY DEF FromSolanaFormat
<1>2. m.token_id \in Nat /\ m.timestamp \in Nat /\ IsBytes(m.metadata_uri)
      /\ IsId(m.message_id)
  BY DEF NftOK, IsString
<1>3. /\ m.token_id > 0 /\ m.origin_chain_id \in SupportedChains
      /\ m.metadata_uri # <<>> /\ Distance(time, m.timestamp) <= 3600
  BY DEF ValidNftMessage, MAX_MESSAGE_AGE_SECONDS
<1>4. k.token_id # 0
  BY <1>1, <1>2, <1>3
<1>5. Size(k.metadata_uri) \in 1..MaxUri
  <2>1. Size(m.metadata_uri) \in Nat /\ Size(m.metadata_uri) # 0
    BY <1>2, <1>3, NotEmpty
  <2> QED BY <1>1, <2>1 DEF MaxUri
<1>6. Distance(k.timestamp, time) <= Day
  <2>1. Distance(m.timestamp, time) \in Nat /\ Distance(m.timestamp, time) <= 3600
    <3> DEFINE stamp == m.timestamp
    <3>1. stamp \in Nat /\ Distance(time, stamp) <= 3600
      BY <1>2, <1>3
    <3> HIDE DEF stamp
    <3>2. Distance(stamp, time) \in Nat
      BY <3>1, DistanceIs
    <3>3. Distance(stamp, time) = Distance(time, stamp)
      BY <3>1, DistanceIs
    <3> QED BY <3>1, <3>2, <3>3 DEF stamp
  <2> QED BY <1>1, <2>1 DEF Day
<1>7. k.origin_chain # k.destination_chain
  BY <1>1, <1>3 DEF SupportedChains, CHAIN_ID_SOLANA, CHAIN_ID_BASE_SEPOLIA,
     CHAIN_ID_BNB_TESTNET
<1>8. k.message_id # Zeros(32)
  <2>1. \A v : Kind(Run(32, "zeros", v)[1]) = "zeros"
    BY RunIs
  <2>2. Kind(Zeros(32)[1]) = "zeros"
    BY <2>1 DEF Zeros
  <2> QED BY <1>1, <1>2, <2>2 DEF IsId
<1> HIDE DEF k
<1> QED BY <1>4, <1>5, <1>6, <1>7, <1>8 DEF ValidateCrossChainCompatibility, k

\* Both directions.
LEMMA ChecksPartFromPath == PathOK => ChecksPartAtTheChain
<1> SUFFICES ASSUME PathOK, copy.form = "nft"
             PROVE  ChecksPartAtTheChain
  BY DEF ChecksPartAtTheChain
<1>1. NftOK(copy.content) /\ now \in Nat
  BY HeldNft, NowIsNat DEF PathOK
<1> QED BY <1>1, SharedPasses, ProgramPasses, Zenon DEF ChecksPartAtTheChain

-----------------------------------------------------------------------------
\* A payload as it was delivered.
LEMMA HeldPayload ==
  ASSUME CopyOK, copy.form = "payload"
  PROVE  LET p == copy.content.sent
             more == copy.content.additional
         IN  /\ PayloadOK(p) /\ p.recipient_address \in Recipients
             /\ more \in Additional
             /\ copy.content.payload = BuildPayload(p, more)
<1>1. Delivered
  BY DEF CopyOK, NoCopy, Form, SharedForms, NftForms
<1>2. PICK p : \E more \in Additional :
        /\ copy = Form("payload", [sent |-> p, additional |-> more,
                                   payload |-> BuildPayload(p, more)])
        /\ PayloadOK(p) /\ p.recipient_address \in Recipients
  BY <1>1 DEF Delivered
<1>3. PICK more \in Additional :
        copy = Form("payload", [sent |-> p, additional |-> more,
                                payload |-> BuildPayload(p, more)])
  BY <1>2
<1>4. /\ copy.content.sent = p /\ copy.content.additional = more
      /\ copy.content.payload = BuildPayload(p, more)
  BY <1>3 DEF Form
<1> QED BY <1>2, <1>4

\* A delivered payload is one the lemmas on on_call are about, and its
\* recipient stands apart from the metadata.
LEMMA PayloadArrivesFromPath == PathOK => PayloadArrives
<1> DEFINE p == copy.content.sent
           more == copy.content.additional
           d == copy.content.payload
           plain == /\ PlainText(p.metadata_uri)
                    /\ PlainText(p.name) /\ PlainText(p.symbol)
<1> SUFFICES ASSUME PathOK, copy.form = "payload", ValidateIncomingPayload(d)
             PROVE  p \in DecodedByOnCall(d) <=> plain /\ more = NoMetadata
  BY DEF PayloadArrives
<1>1. /\ PayloadOK(p) /\ p.recipient_address \in Recipients
      /\ more \in Additional /\ IsBytes(more) /\ d = BuildPayload(p, more)
  BY HeldPayload, InputsOK DEF PathOK
<1>2. plain <=> /\ IsPlain(p.metadata_uri) /\ IsPlain(p.name) /\ IsPlain(p.symbol)
  BY DEF PlainText, IsPlain
<1>3. /\ Kind(p.recipient_address[Len(p.recipient_address)]) # "cut"
      /\ more # NoMetadata =>
           more[Len(more)] # p.recipient_address[Len(p.recipient_address)]
  BY <1>1, RecipientsApart
<1> HIDE DEF p, more, d, plain
<1>4. ASSUME p \in DecodedByOnCall(d) PROVE plain /\ more = NoMetadata
  BY <1>1, <1>2, <1>3, <1>4, OnCallReadsOnly
<1>5. ASSUME plain, more = NoMetadata PROVE p \in DecodedByOnCall(d)
  <2> d = BuildPayload(p, NoMetadata)
    BY <1>1, <1>5
  <2> QED BY <1>1, <1>2, <1>5, OnCallReadsSent
<1> QED BY <1>4, <1>5

\* The bare payload starts as the payload does.
LEMMA BareStarts ==
  ASSUME NEW p, PayloadOK(p), NEW d, StartsWith(d, FrontOf(p))
  PROVE  LET bare == SubSeq(d, 1, 3) \o p.metadata_uri \o p.recipient_address
         IN  IsBytes(bare) /\ StartsWith(bare, FrontOf(p))
<1> DEFINE f == FrontOf(p)
           first == SubSeq(d, 1, 3)
<1>1. IsBytes(f) /\ Len(f) = 3
  BY FrontIs
<1>2. /\ 3 <= Len(d) /\ Len(d) \in Nat /\ \A i \in 1..3 : d[i] = f[i]
  BY <1>1, EndOfFront
<1>3. first = f
  <2>1. f \in Seq(ToSet(f)) /\ DOMAIN f = 1..3
    BY <1>1, BytesShape DEF IsBytes
  <2>2. \A i \in 1..3 : d[i] \in ToSet(f)
    BY <1>2, <2>1 DEF ToSet
  <2>3. PICK rest : IsBytes(rest) /\ d = f \o rest
    BY DEF StartsWith
  <2>4. IsBytes(d)
    BY <1>1, <2>3, Built
  <2> HIDE DEF f
  <2>5. /\ first \in Seq(ToSet(d)) /\ Len(first) = 3
        /\ \A i \in 1..3 : first[i] = d[i]
    <3>1. d \in Seq(ToSet(d)) /\ DOMAIN d = 1..Len(d)
      BY <2>4, BytesShape DEF IsBytes
    <3>2. \A i \in 1..3 : d[i] \in ToSet(d)
      BY <1>2, <3>1 DEF ToSet
    <3>3. /\ first \in Seq(ToSet(d))
          /\ Len(first) = IF 1 <= 3 THEN 3 - 1 + 1 ELSE 0
          /\ \A i \in 1..(3 - 1 + 1) : first[i] = d[1 + i - 1]
      BY <3>2, SubSeqProperties
    <3>4. \A i \in 1..3 : 1 + i - 1 = i
      OBVIOUS
    <3> HIDE DEF first
    <3> QED BY <3>3, <3>4
  <2> HIDE DEF first
  <2> QED BY <1>1, <1>2, <2>1, <2>5, SeqEqual
<1> HIDE DEF f, first
<1>4. IsBytes(p.metadata_uri) /\ IsBytes(p.recipient_address)
  BY DEF PayloadOK, IsString, Is32
<1> DEFINE u == p.metadata_uri
           r == p.recipient_address
<1> HIDE DEF u, r
<1>5. IsBytes(u) /\ IsBytes(r)
  BY <1>4 DEF u, r
<1>6. IsBytes((f \o u) \o r)
  BY <1>1, <1>5, Built
<1>7. IsBytes(u \o r)
  BY <1>5, Built
<1>8. (f \o u) \o r = f \o (u \o r)
  BY <1>1, <1>5, ConcatAssoc
<1> QED BY <1>3, <1>6, <1>7, <1>8 DEF StartsWith, f, first, u, r

\* So it is for the lemmas on both decoders.
LEMMA DecodersAgreeFromPath == PathOK => DecodersAgree
<1> DEFINE p == copy.content.sent
           more == copy.content.additional
           d == copy.content.payload
           Found(bytes) ==
             \E decoded \in DecodedByOnCall(bytes) :
               /\ decoded.token_id = p.token_id
               /\ decoded.origin_chain_id = p.origin_chain_id
               /\ decoded.gateway_message_id = p.gateway_message_id
               /\ Size(decoded.metadata_uri) > 0
               /\ Size(decoded.name) > 0 /\ Size(decoded.symbol) > 0
<1> SUFFICES ASSUME PathOK, copy.form = "payload"
             PROVE  /\ ValidateIncomingPayload(d) => Found(d)
                    /\ ValidateIncomingPayload(BarePayload) => Found(BarePayload)
                    /\ DecodeLegacyMintPayload(d) \subseteq {p}
  BY Zenon DEF DecodersAgree
<1>1. /\ PayloadOK(p) /\ IsBytes(more) /\ d = BuildPayload(p, more)
  BY HeldPayload, InputsOK DEF PathOK
<1>2. BarePayload = SubSeq(d, 1, 3) \o p.metadata_uri \o p.recipient_address
  BY DEF BarePayload
<1> HIDE DEF p, more, d
<1>3. IsBytes(d) /\ StartsWith(d, FrontOf(p))
  BY <1>1, PayloadIs
<1>4. IsBytes(BarePayload) /\ StartsWith(BarePayload, FrontOf(p))
  BY <1>1, <1>2, <1>3, BareStarts
<1>5. \A bytes : IsBytes(bytes) /\ StartsWith(bytes, FrontOf(p))
                 /\ ValidateIncomingPayload(bytes) => Found(bytes)
  BY <1>1, OnCallReadsFront
<1>6. DecodeLegacyMintPayload(d) \subseteq {p}
  BY <1>1, LegacyDecoderReads
<1> HIDE DEF Found
<1> QED BY <1>3, <1>4, <1>5, <1>6

-----------------------------------------------------------------------------
\* The four stages, one by one, of a message that is verified; and the
\* fourth, of mint_nft's own caller.
LEMMA PipelineAcceptsFromPath ==
  PathOK /\ ListsOK => PipelineAcceptsVerified
<1> SUFFICES ASSUME PathOK, ListsOK, copy.form = "nft"
             PROVE  PipelineAcceptsVerified
  BY DEF PipelineAcceptsVerified
<1> DEFINE m == copy.content
           size == Size(Serialize(m))
<1>0. Len(Stages) = 4 /\ DOMAIN Stages = 1..4
      /\ Stages[1] = "ChainValidation" /\ Stages[2] = "PayloadValidation"
      /\ Stages[3] = "SignatureValidation" /\ Stages[4] = "GatewayAuthorization"
  BY DEF Stages
<1>1. size \in Nat /\ size >= 1
  <2>1. NftOK(m)
    BY HeldNft DEF PathOK
  <2>2. /\ Rest(m) \in Nat /\ Size(m.additional_metadata) \in Nat
        /\ size = Rest(m) + (IF m.additional_metadata = NoMetadata THEN 106
                             ELSE 110 + Size(m.additional_metadata))
    BY <2>1, SizeOfSerialize
  <2> HIDE DEF m, size
  <2> QED BY <2>2
<1>2. ASSUME Verified PROVE Len(signatures) >= 2 /\ validators # <<>>
  <2>1. Threshold >= 2 /\ Threshold \in Nat
    BY SetOfValidators, ThresholdOf DEF Threshold
  <2>2. /\ validators # <<>>
        /\ Cardinality(CountedIn(signatures, validators)) >= Threshold
    BY <1>2, VerifiedNow
  <2> QED BY <2>1, <2>2, CountedNow
<1>3. ASSUME Verified, m.origin_chain_id \in SupportedChains \ {CHAIN_ID_SOLANA},
             size <= MaxPipelinePayload,
             NEW k \in GatewayKeys \ {DefaultKey}
      PROVE  ValidateCrossChainMessage(Context(k)).is_valid
  <2> DEFINE c == Context(k)
  <2>1. /\ c.source_chain_id = m.origin_chain_id /\ c.destination_chain_id = 1
        /\ c.payload_size = size /\ c.signatures = signatures
        /\ c.validators = validators /\ c.gateway_caller = k
    BY DEF Context, CHAIN_ID_SOLANA
  <2> HIDE DEF c, m, size
  <2>2. ValidateChainIdsSimple(c)
    BY <1>3, <2>1 DEF ValidateChainIdsSimple, SupportedChains, CHAIN_ID_SOLANA,
       CHAIN_ID_BASE_SEPOLIA, CHAIN_ID_BNB_TESTNET
  <2>3. ValidatePayloadSizeSimple(c)
    BY <1>1, <1>3, <2>1 DEF ValidatePayloadSizeSimple, MaxPipelinePayload
  <2>4. VerifySignaturesSimple(c)
    BY <1>2, <1>3, <2>1 DEF VerifySignaturesSimple, PipelineThreshold
  <2>5. IsGatewayAuthorizedSimple(c)
    BY <1>3, <2>1 DEF IsGatewayAuthorizedSimple
  <2>6. \A i \in DOMAIN Stages : StagePasses(Stages[i], c)
    <3>1. StagePasses("ChainValidation", c)
      BY <2>2 DEF StagePasses
    <3>2. StagePasses("PayloadValidation", c)
      BY <2>3 DEF StagePasses
    <3>3. StagePasses("SignatureValidation", c)
      BY <2>4 DEF StagePasses
    <3>4. StagePasses("GatewayAuthorization", c)
      BY <2>5 DEF StagePasses
    <3>5. \A i \in 1..4 : i = 1 \/ i = 2 \/ i = 3 \/ i = 4
      OBVIOUS
    <3> QED BY <1>0, <3>1, <3>2, <3>3, <3>4, <3>5
  <2>7. {i \in DOMAIN Stages : ~StagePasses(Stages[i], c)} = {}
    BY <2>6
  <2>8. ValidateCrossChainMessage(c).is_valid
          = ({i \in DOMAIN Stages : ~StagePasses(Stages[i], c)} = {})
    BY DEF ValidateCrossChainMessage
  <2>9. ValidateCrossChainMessage(c).is_valid
    BY <2>7, <2>8
  <2> QED BY <2>9 DEF c
<1>4. ~MintNftPassesValidation(Context(DefaultKey))
  <2> DEFINE c == [Context(DefaultKey) EXCEPT !.gateway_caller = GatewayProgramId]
  <2>1. c.gateway_caller = DefaultKey
    BY DEF Context, GatewayProgramId
  <2>2. MintNftPassesValidation(Context(DefaultKey))
          = ValidateCrossChainMessage(c).is_valid
    BY DEF MintNftPassesValidation
  <2> HIDE DEF c
  <2>3. ~StagePasses(Stages[4], c)
    BY <1>0, <2>1 DEF StagePasses, IsGatewayAuthorizedSimple
  <2>4. ValidateCrossChainMessage(c).is_valid
          = ({i \in DOMAIN Stages : ~StagePasses(Stages[i], c)} = {})
    BY DEF ValidateCrossChainMessage
  <2>5. 4 \in {i \in DOMAIN Stages : ~StagePasses(Stages[i], c)}
    BY <1>0, <2>3
  <2> QED BY <2>2, <2>4, <2>5
<1> HIDE DEF Context
<1> QED BY <1>3, <1>4, Zenon DEF PipelineAcceptsVerified

-----------------------------------------------------------------------------
\* Whatever forms a message went through, it can be read and is the message
\* that was made, up to what the other library has no place for.
THEOREM CopyAlwaysKeepsMessage == Spec => []CopyKeepsMessage
BY PathAlwaysOK, CopyKeepsMessageFromPath, PTL

\* Only serialize writes what the program reads back.
THEOREM OnlyBorshEverTravels == Spec => []OnlyBorshTravels
BY PathAlwaysOK, OnlyBorshTravelsFromPath, PTL

\* What the shared library finds valid the program accepts, but for the chain
\* it comes from; its own networks are all refused.
THEOREM ChecksAlwaysPart == Spec => []ChecksPartAtTheChain
BY PathAlwaysOK, ChecksPartFromPath, PTL

\* on_call reads what was sent exactly when the texts are plain and nothing
\* follows the recipient.
THEOREM PayloadAlwaysArrives == Spec => []PayloadArrives
BY PathAlwaysOK, PayloadArrivesFromPath, PTL

\* Both decoders of a payload find in it what was put into its fixed fields.
THEOREM DecodersAlwaysAgree == Spec => []DecodersAgree
BY PathAlwaysOK, DecodersAgreeFromPath, PTL

\* What is verified passes the pipeline, but never as mint_nft calls it.
THEOREM PipelineAlwaysAcceptsVerified == Spec => []PipelineAcceptsVerified
BY PathAlwaysOK, ListsOKAlways, PipelineAcceptsFromPath, PTL
=============================================================================
