SPECIFICATION MessageSpec
CONSTANTS
  Rules <- SomeRules
  Hosts <- SomeHosts
  Asked <- SomeAsked
  Payloads <- SomePayloads
  MaxLines = 3
  READ_BUFFER_SIZE = 21
  Width = 64
INVARIANTS
  ListInv
  DestinationIsAsked
  DatagramIntact
