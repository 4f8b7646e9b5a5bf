SPECIFICATION Spec
CONSTANTS
  Characters <- NineCharacters
  Addresses <- TwoAddresses
  Tokens <- ThreeTokens
  Names <- Filters
  Batches <- Pairs
  Entities <- FourEntities
  NoAccount = NoAccount
  FanOuts <- Fans
  MaxCommits = 2
  Holdings <- TwoHoldings
INVARIANTS
  TotalsAreTheFold
  AmountsAddUp
  RetirementsCountedOnce
  TokensOfTwoSnapshots
  AllRetiredCoversOwn
