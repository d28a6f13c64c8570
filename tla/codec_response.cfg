\* A response with a text.
SPECIFICATION Spec
CONSTANTS
  Int32Modulus = 16384
  Int64Modulus = 1073741824
  Objects <- MCObjects
  Nesting <- MCNesting
  Inputs <- ResponseInputs
  Foreign <- None
  Entries = {"decodeMessage"}
  Cuttable <- None
INVARIANT ResponseKeepsMessage
