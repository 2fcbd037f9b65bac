CONSTANTS
  Blocks = {b1, b2, b3, b4}
  Ports = 2
  MaxNodes = 4
  MaxLinks = 3
SPECIFICATION Spec
SYMMETRY BlockSymmetry
INVARIANTS
  LinkedIff
  NoMisdelivery
  EveryLinkCarries
