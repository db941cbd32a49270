CONSTANTS
  Plans <- AllPlans
  Url <- SmallUrl
  Pages <- SmallPages
  NSOCKS = 2
  BUFFLEN = 6
  MinSegment = 2
  EGI_BUFFLEN = 4
  EGI_STARTLEN = 2
  HTTP_MAXLEN = 2
  FOPEN_MAX = 3
SPECIFICATION FairSpec
INVARIANTS AnswersWhole FilesClosed ClicksCount
PROPERTIES Served
