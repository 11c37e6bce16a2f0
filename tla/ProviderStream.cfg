\* Replies of up to three items and four pieces, in two attempts, for every client.
SPECIFICATION FairSpec
CONSTANTS
  Providers = {"anthropic", "openai", "codex"}
  MaxTries = 2
  MaxItems = 3
  MaxPieces = 4
INVARIANTS
  Assembled
  ShownIsKept
  ToldBack
PROPERTIES
  StalledStreamEnds
