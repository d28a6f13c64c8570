\* Slices of int8 and int16, and a vector of numbers of a named type.
SPECIFICATION Spec
CONSTANTS
  Int32Modulus = 16384
  Int64Modulus = 1073741824
  Objects <- MCObjects
  Nesting <- MCNesting
  Inputs <- UncasedInputs
  Foreign <- None
  Entries = {"decodeMessage"}
  Cuttable <- None
INVARIANT SupportedIsEncoded
