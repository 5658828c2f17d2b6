SPECIFICATION Spec
CONSTANTS
  o1 = o1
  o2 = o2
  o3 = o3
  Null = Null
  OrderId <- MCOrderId
  Price <- MCPrice
  Quantity <- MCQuantity
SYMMETRY Symmetry
INVARIANTS
  TypeOK
  WellLinked
  ObserversMatchReference
PROPERTIES
  NoOvertaking
  LeakOnlyOnThrow
  ImplementsReferenceBook
