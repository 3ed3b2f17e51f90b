SPECIFICATION Spec
CONSTANTS
  Domains <- MCDomains
  MaxMicroseconds = 3
  Lease = 2
  MaxOwner = 2
  MaxSequence = 2
  Sessions <- MCSessions
  Catalogs <- MCRevisions
  StateRevisions <- MCRevisions
  Fields = {1, 2}
  Entities = {1, 2}
  Entity = 1
  NoGrant = NoGrant
  IssueInputs <- MCIssueInputs
  Proposals <- MCProposals
INVARIANTS
  AcceptedInOrder
  GateSound
PROPERTIES
  AcceptedWithinLease
  ExhaustedForGood
