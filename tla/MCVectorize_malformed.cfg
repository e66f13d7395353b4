\* The instance of MCVectorize.cfg: three of its requests have malformed values
\* that are taken all the same.
SPECIFICATION Spec
CONSTANTS
  Numeral <- Numerals
  Truth <- Truths
  Numbers <- SomeNumbers
  Stamp <- Stamps
  Spelling <- Categories
  Requests <- SomeRequests
  Orders <- SomeOrders
  TableFiles <- SomeTables
INVARIANTS
  RejectsTheMalformed
CHECK_DEADLOCK FALSE
