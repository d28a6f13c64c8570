\* Every range of every opcode table, nested objects on a stream that may be cut, and objects that the decoder does not read as they were written.
SPECIFICATION Spec
CONSTANTS
  Int32Modulus = 16384
  Int64Modulus = 1073741824
  Objects <- MCObjects
  Nesting <- MCNesting
  Inputs <- AllInputs
  Foreign <- ForeignInputs
  Entries = {"Decode", "decodeMessage"}
  Cuttable <- NestedInputs
INVARIANTS TypeOK RoundTrip RefusedForReason OnlyWholeMessages OnlyTextLost
INVARIANTS SizesNeverRead SeriesAsDefined SeriesKept
