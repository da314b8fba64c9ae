SPECIFICATION FairSpec
CONSTANTS
  a = a
  b = b
  c = c
  screen = screen
  Views <- OneScreen
  Home = screen
  Found <- FindsTwo
  Pages <- TwoPages
  WithPoster <- Posters
  Fetchers <- HomeRequests
  Limit = 1
  MinInterval = 1
  MaxInterval = 2
  Oversize <- LargePoster
  Flaky <- SomePosters
  PutOff <- LargePoster
  StorageOf <- StorageOfScreen
  MaxReports = 1
INVARIANTS
  SlotLimit
  NoIdleSlot
  OneAnswer
  PostersRight
  ScreenComplete
PROPERTIES
  SlotsReturned
  RequestsAnswered
CHECK_DEADLOCK FALSE
