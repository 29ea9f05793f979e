SPECIFICATION Spec
CONSTANTS
  Servers = {"old", "new"}
  MaxAddresses = 2
  Revision <- MCRevision
  NoServer = NoServer
  MaxResets = 2
  MaxQueries = 2
INVARIANTS HandlesOwnedOnce StreamsFollowSocket ErrorOfThisCall HelloUnderstood ServerReadsItsLayout
PROPERTIES ResetReturns ImplementsAttempt
