CONSTANTS
  Heights <- ThreeChapters
  MaxLoads = 3
SPECIFICATION PagesSpec
INVARIANTS SeenIsTitled ChapterWhole
CHECK_DEADLOCK FALSE
