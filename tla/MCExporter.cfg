SPECIFICATION Spec
CONSTANTS
  TagCacheValidity = 1
  MaxTime = 3
  MaxFetchTime = 1
  Environments <- AllEnvironments
INVARIANTS
  TypeOK
  EmittedIsRouted
  SocketsOpenBeforeRegistration
  DummyHoldsNothing
  ContextIsRecent
  ContextNotForgotten
PROPERTIES
  ExtensionStarts
CHECK_DEADLOCK FALSE
