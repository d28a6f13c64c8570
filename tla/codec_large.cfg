\* Ten elements.
SPECIFICATION Spec
CONSTANTS
  Int32Modulus = 16384
  Int64Modulus = 1073741824
  Objects <- MCObjects
  Nesting <- MCNesting
  Inputs <- LargeInputs
  Foreign <- None
  Entries = {"decodeMessage"}
  Cuttable <- None
INVARIANT LargeContainersDecode
