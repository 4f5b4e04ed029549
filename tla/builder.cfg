CONSTANTS
  Documents <- AnyDocument
  Null = Null
  Garbage = Garbage
SPECIFICATION Spec
INVARIANTS TypeOK BuiltAsWritten CountsArguments StaysInTable
CHECK_DEADLOCK FALSE
