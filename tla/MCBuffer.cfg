SPECIFICATION Spec
CONSTANTS
  Byte = {x, y}
  Size = 4
INVARIANTS PointersInOrder
PROPERTIES ImplementsQueue
