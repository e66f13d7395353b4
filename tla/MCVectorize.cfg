\* Eighteen requests in six orders, with and without spaces, three risk files.
SPECIFICATION Spec
CONSTANTS
  Numeral <- Numerals
  Truth <- Truths
  Numbers <- SomeNumbers
  Stamp <- Stamps
  Spelling <- Categories
  Requests <- SomeRequests
  Orders <- SomeOrders
  TableFiles <- SomeTables
INVARIANTS
  TypeOK
  ReadsItsOwnFields
  RejectsTheUnacceptable
  FeaturesFollowTheRequest
  RisksFollowTheFile
CHECK_DEADLOCK FALSE
