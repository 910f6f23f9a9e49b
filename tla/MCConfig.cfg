SPECIFICATION Spec
CONSTANTS
  MaxLines = 5
  MaxIndent = 2
  Names = {a, b}
  NoName = NoName
  NoNode = NoNode
  a = a
  b = b
INVARIANTS
  TreeIsOutline
  DepthBounded
  GetIsFirst
PROPERTY
  Terminates
CHECK_DEADLOCK FALSE
