SPECIFICATION FairSpec
CONSTANTS
  Chunks <- MCChunks
  Texts = {"hello", "no"}
  Arguments = {"x", "y"}
  Calls = {0, 1}
  Usages = {"u1", "u2"}
  Providers = {"openai", "anthropic"}
  MaxChunks = 4

  
PROPERTIES
  ImplementsItemStream
  
CHECK_DEADLOCK FALSE
