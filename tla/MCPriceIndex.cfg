SPECIFICATION Spec
CONSTANTS
  Radix = 16
  Price <- MCPrice
INVARIANTS
  TypeOK
  BitsLeadToPrices
  FindsExtremes
PROPERTIES
  EmptiedNodesAreFreed
  ImplementsPriceSet
