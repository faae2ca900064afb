-------------------------- MODULE MessageValidation --------------------------
(***************************************************************************)
(* The program's validation utilities: signatures (signature_validation),  *)
(* gateways (gateway_authorization and the list of them in program_state)  *)
(* and the pipeline mint_nft runs (validation_pipeline).  The program      *)
(* stores no validators: their list is an argument, built by whoever       *)
(* calls.  It stores a list of gateways, which no instruction changes or   *)
(* reads: its functions wait for one that does.                            *)
(*                                                                         *)
(* A signature is what can be told of its bytes: "valid" stands for 64     *)
(* bytes that are not all zero, which verify_single_signature takes for    *)
(* valid whoever signed what.  The message is not empty.                   *)
(***************************************************************************)
EXTENDS Integers, SequencesExt

CONSTANTS
  DefaultKey,      \* Pubkey::default()
  MaxCounted       \* the largest count of valid signatures: u8::MAX, 255

ASSUME MessageValidationAssumption == MaxCounted \in Nat

U8(n) == n % 256

-----------------------------------------------------------------------------
(* Signatures.                                                             *)

MIN_VALIDATOR_THRESHOLD == 2
MAX_VALIDATORS == 10
MIN_SIGNATURE_PERCENTAGE == 67

SignatureBytes == {"valid", "zeros", "short", "empty"}

VerifySingleSignature(signature, signer) ==
  signature = "valid" /\ signer # DefaultKey

CanRegisterValidator(key, validators, weight) ==
  /\ key # DefaultKey
  /\ Len(validators) < MAX_VALIDATORS
  /\ weight \in 1..100

\* The share is rounded down, and at least the minimum.
CalculateSignatureThreshold(total, percentage) ==
  LET threshold == U8((total * percentage) \div 100)
  IN  Max({threshold, MIN_VALIDATOR_THRESHOLD})

\* Mutant: whoever signed counts.
CountedUnregistered(signatures, validators) ==
  Cardinality({i \in DOMAIN signatures :
    VerifySingleSignature(signatures[i].signature, signatures[i].signer)})

\* The entries that count: each of a validator, with a valid signature.  A
\* validator with two entries counts twice.
Counted(signatures, validators) ==
  Cardinality({i \in DOMAIN signatures :
    /\ signatures[i].signer \in ToSet(validators)
    /\ VerifySingleSignature(signatures[i].signature, signatures[i].signer)})

SignatureValidationResult(signatures, validators, threshold) ==
  [is_valid |-> Counted(signatures, validators) >= threshold,
   valid_signatures |-> Counted(signatures, validators),
   total_signatures |-> U8(Len(signatures)),
   total_validators |-> U8(Len(validators))]

\* Mutant: an entry that does not count is an error, as the doc has it.
VerifySignaturesStrict(signatures, validators, threshold) ==
  /\ signatures # <<>> /\ validators # <<>>
  /\ threshold \in 1..U8(Len(validators))
  /\ Counted(signatures, validators) = Len(signatures)
  /\ SignatureValidationResult(signatures, validators, threshold).is_valid

\* verify_signatures succeeds, and finds enough.  The count is a u8, and the
\* program, built with overflow checks, panics when it would overflow.
VerifySignatures(signatures, validators, threshold) ==
  /\ signatures # <<>> /\ validators # <<>>
  /\ threshold \in 1..U8(Len(validators))
  /\ Counted(signatures, validators) <= MaxCounted
  /\ SignatureValidationResult(signatures, validators, threshold).is_valid

-----------------------------------------------------------------------------
(* Gateways.                                                               *)

MaxStoredGateways == 5

\* Mutant: a gateway may be stored twice.
CanAddAuthorizedGatewayTwice(key, gateways) == Len(gateways) < MaxStoredGateways

\* Any key may be stored, the default one included, but only once.
CanAddAuthorizedGateway(key, gateways) ==
  /\ Len(gateways) < MaxStoredGateways
  /\ \A i \in DOMAIN gateways : gateways[i].public_key # key

\* Vec::retain: the entries at these positions, in their order.
Retained(list, positions) ==
  LET Rank(i) == Cardinality({j \in positions : j <= i})
  IN  [n \in 1..Cardinality(positions) |->
         list[CHOOSE i \in positions : Rank(i) = n]]

WithoutGateway(key, gateways) ==
  Retained(gateways, {i \in DOMAIN gateways : gateways[i].public_key # key})

\* ProgramState::is_gateway_authorized: any active record will do.
IsStoredGatewayAuthorized(caller, gateways) ==
  \E i \in DOMAIN gateways :
    gateways[i].public_key = caller /\ gateways[i].is_active

\* The first record of the caller decides, if there is one; no details are
\* the empty sequence of them.
AuthorizeGateway(caller, authorized, details) ==
  LET own == {i \in DOMAIN details : details[i].public_key = caller}
  IN  /\ caller \in ToSet(authorized)
      /\ own = {} \/ details[Min(own)].is_active

IsGatewayAuthorized(caller, authorized) ==
  AuthorizeGateway(caller, authorized, <<>>)

-----------------------------------------------------------------------------
(* The pipeline.                                                           *)

MaxPipelinePayload == 1024
PipelineThreshold == 2

ValidateChainIdsSimple(context) ==
  /\ context.source_chain_id # 0 /\ context.destination_chain_id # 0
  /\ context.source_chain_id # context.destination_chain_id

ValidatePayloadSizeSimple(context) ==
  context.payload_size \in 1..MaxPipelinePayload

\* The signatures are counted and not looked at.
VerifySignaturesSimple(context) ==
  /\ Len(context.signatures) >= PipelineThreshold
  /\ context.validators # <<>>

\* Mutant: any caller is authorized.
AnyGatewayAuthorizedSimple(context) == TRUE
IsGatewayAuthorizedSimple(context) == context.gateway_caller # DefaultKey

Stages == <<"ChainValidation", "PayloadValidation", "SignatureValidation",
            "GatewayAuthorization">>

StagePasses(stage, context) ==
  CASE stage = "ChainValidation" -> ValidateChainIdsSimple(context)
    [] stage = "PayloadValidation" -> ValidatePayloadSizeSimple(context)
    [] stage = "SignatureValidation" -> VerifySignaturesSimple(context)
    [] stage = "GatewayAuthorization" -> IsGatewayAuthorizedSimple(context)

\* passed / completed in percent, rounded half up.
CalculateSuccessRate(completed, passed) ==
  IF completed = 0 THEN 0 ELSE (200 * passed + completed) \div (2 * completed)

\* The stages run in order, and the first that fails ends the validation.
ValidateCrossChainMessage(context) ==
  LET failing == {i \in DOMAIN Stages : ~StagePasses(Stages[i], context)}
      completed == IF failing = {} THEN Len(Stages) ELSE Min(failing)
      failed == IF failing = {} THEN 0 ELSE 1
  IN  [is_valid |-> failing = {},
       failed_stage |-> IF failing = {} THEN "none" ELSE Stages[completed],
       stages_completed |-> completed,
       stages_passed |-> completed - failed,
       stages_failed |-> failed,
       success_rate_percentage |->
         CalculateSuccessRate(completed, completed - failed)]

\* mint_nft passes on as the caller what validate_gateway_caller found, the
\* gateway's program id, which is the default key.
GatewayProgramId == DefaultKey
MintNftPassesValidation(context) ==
  ValidateCrossChainMessage(
    [context EXCEPT !.gateway_caller = GatewayProgramId]).is_valid
=============================================================================
