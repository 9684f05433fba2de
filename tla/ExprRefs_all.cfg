CONSTANTS
  Handle = {h1, h2, h3}
  Node = {n1, n2, n3}
  Label = {"a", "b"}
  Null = Null
  NoObject = NoObject
  MaxArgs = 1
  MaxKeys = 1
SYMMETRY Symmetry
SPECIFICATION Spec
INVARIANT CountIsRefs
INVARIANT NothingLeaks
PROPERTY ValueSemantics
