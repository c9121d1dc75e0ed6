SPECIFICATION PathSpec
CONSTANTS
  HttpRequests <- MCHttpRequests
  CapturePrefixes <- MCPrefixes
  CaptureLimits <- MCCaptureLimits
  MaxInt = 7
  Chunk = 3
  JSON <- MCJSON
  Requests <- MCRequests
  Runes <- MCRunes
  Values <- MCValues
  PromptLimits <- MCPromptLimits
  Families <- MCFamilies
CHECK_DEADLOCK FALSE
INVARIANT OnlyUsersWords
