\* One message from its making to the call that presents it: every order of conversions, every list of validators and signatures, and every list of stored gateways.
SPECIFICATION Spec
CONSTANTS
  v1 = v1
  v2 = v2
  g1 = g1
  g2 = g2
  g3 = g3
  g4 = g4
  g5 = g5
  DefaultKey = DefaultKey
  Senders = {"sender"}
  TokenIds = {0, 7}
  Uris <- MCUris
  NftTexts <- MCNftTexts
  Texts <- MCTexts
  Recipients <- MCRecipients
  Contracts <- MCContracts
  ChainIds = {2, 900, 7001, 84532}
  Destinations = {2, 7001}
  NftChains = {2, 89}
  Nonces = {3}
  NftTypes = {1, 2}
  Additional <- MCAdditional
  Keys <- MCKeys
  Signatures = {"valid", "zeros"}
  GatewayKeys <- MCGatewayKeys
  Times <- MCTimes
  MaxValidators = 4
  MaxSignatures = 3
  MaxCounted = 2
SYMMETRY KeySymmetry
CHECK_DEADLOCK FALSE
INVARIANTS
  CopyKeepsMessage
  OnlyBorshTravels
  ChecksPartAtTheChain
  PayloadArrives
  DecodersAgree
  QuorumIsReal
  GatewayLookupsAgree
  PipelineAcceptsVerified
PROPERTIES
  ForgeriesChangeNothing
