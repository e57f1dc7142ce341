SPECIFICATION Spec
CONSTANTS
  Alphabet <- MCAlphabet
  MaxInt = 7
  Mantissa = 4
  MaxFloat = 48
  One = 2
  UpperOf <- MCUpperOf
  Malformed <- MCMalformed
  Requests <- MCRequests
  HostValues <- MCHostValues
INVARIANTS HeldIsPaid StaticBounds NamesResolve DispatchVerified ReadsAdmitted
  RegexesFound NumbersConsistent ResultExact
PROPERTY Terminates
CHECK_DEADLOCK FALSE
