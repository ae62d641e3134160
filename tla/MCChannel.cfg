SPECIFICATION Spec
CONSTANTS
  AllocSize = 6
  OverflowChecks = TRUE
  Carriers <- MCCarriers
  Messages <- MCMessages
  MaxSent <- MCMaxSent
  MaxRefused <- MCMaxRefused
  MaxChunk = 3
  MaxWaiting <- MCMaxWaiting
  Masks <- MCMasks
INVARIANTS
  Transcodes
  StreamsAgree
