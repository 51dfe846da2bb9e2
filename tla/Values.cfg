SPECIFICATION Spec
CONSTANTS
  Codes <- AllCodes
  Modulus = 65536
  Amounts <- SomeAmounts
INVARIANTS
  NameTellsCode
  SumAndDifferenceAgree
  UnitsAgree
