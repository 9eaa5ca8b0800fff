\* Two queries on a connection; waveforms without samples, of one segment, of two, and ragged.
SPECIFICATION Spec
CONSTANTS
  MaxQueries = 2
  MaxTotal = 4
  Descriptors <- MCDescriptors
INVARIANTS
  TypeOK
  AxisFits
PROPERTIES
  CallEnds
  DeliversReplies
