SPECIFICATION FairSpec
CONSTANTS
  None = None
  SESSION_LIMIT = 2
  MaxAccepts = 3
  MaxLate = 3
INVARIANTS TypeOK ChecksExact CleanStop NoStaleAnswer BooksAgree
PROPERTIES StopsInOrder
CHECK_DEADLOCK FALSE
