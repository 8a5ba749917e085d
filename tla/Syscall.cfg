SPECIFICATION FairSpec
CONSTANTS
  U64_MAX = 15
  USER_SPACE_LIMIT = 12
  PAGE_SIZE = 9
  Mapped <- MCMapped
  Class <- MCClass
  Nums = {1, 2, 3}
  Fds = {1, 2}
INVARIANTS
  AnswerTruthful
  ReadsInUserSpace
  NothingLeaked
PROPERTY
  CallsEnd
CHECK_DEADLOCK FALSE
