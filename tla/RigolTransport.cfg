SPECIFICATION Spec
CONSTANTS
  MaxQueries = 4
  Payloads <- MCPayloads
INVARIANTS TypeOK OwnBlock OwnText OneText WholeBlock
PROPERTY CallEnds
