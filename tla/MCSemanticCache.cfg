SPECIFICATION Spec
CONSTANTS
  Tokens = {"a", "b"}
  Capacity = 4
  Queries <- MCQueries
INVARIANTS TypeOK BooksAgree RecentKept
PROPERTIES StoreSpec
