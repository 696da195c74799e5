CONSTANTS
  Row <- MCRow
  OrderKey <- MCOrderKey
  SupplierKey <- MCSupplierKey
  Price <- MCPrice
  Discount <- MCDiscount
  OrderMap <- MCOrderMap
  SupplierMap <- MCSupplierMap
  NationCount = 2
  MaxI64 = 399
  Total <- MCTotal
SPECIFICATION Spec
INVARIANTS NoLostUpdate OverflowIffSumTooLarge
PROPERTIES GridTerminates ImplementsAccumulator
CHECK_DEADLOCK FALSE
