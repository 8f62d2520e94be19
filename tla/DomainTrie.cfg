SPECIFICATION PSpec
CONSTANTS
  Domains <- TwoBranches
  Names <- MCNames
  lowerLabel <- MCLower
INVARIANT ContainsMatchesSuffixes
INVARIANT ListRead
PROPERTY ImplementsRules
