SPECIFICATION FairRequestSpec
CONSTANTS
  Endpoints = {"providers", "models", "health", "chat", "chat_stream", "embed", "embed_multimodal", "rerank"}
  ProviderNames = {p, q}
  None = None
INVARIANTS OutcomeTold OneAnswer RefusedNotCalled
PROPERTIES RequestFinishes AbandonedEnds
CHECK_DEADLOCK FALSE
