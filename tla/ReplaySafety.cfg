SPECIFICATION ReplaySpec
CONSTANTS
  Providers = {"openai", "responses", "anthropic", "gemini", "ollama", "ollama_tools"}
  MaxBlocks = 3
  MaxPieces = 2
  Targets = {"openai", "responses", "anthropic", "gemini", "ollama"}
  MaxReplied = 2
INVARIANTS StreamedAsAnswered PartialIsPrefix SaidBack ResultsPaired PrefixStable
CHECK_DEADLOCK FALSE
