SPECIFICATION Spec
CONSTANTS
  k1 = k1
  k2 = k2
  k3 = k3
  u1 = u1
  u2 = u2
  TokenIds = {0, 1}
  ChainIds = {2}
  GatewayIds = {1, 2}
  Mints <- MCMints
  Users <- MCTwoUsers
  Uris <- MCUris
  Contents = {47, 1922}
  SlotTime <- MCTwoSlots
  MaxU64 = 2
  MaxCloses = 1
  MaxSupply = 1
  NoAccount = NoAccount
  DefaultKey = DefaultKey
  StateKey = StateKey
SYMMETRY KeySymmetry
INVARIANTS
  TypeOK
  DeliveriesBounded
  MintsPerToken
  MappingsAgree
  MintsStandForOneToken
  OriginsReadable
  SentNftsAreGone
PROPERTIES
  NftSupplyNeverGrows
CHECK_DEADLOCK FALSE
