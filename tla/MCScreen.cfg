SPECIFICATION Spec
CONSTANTS
  Lists <- MCLists
  LINES = 8
  COLS = 10
  MIN_LINES_PAD = 11
  MIN_COLS_PAD = 10
  verbose = FALSE
  view_conections = TRUE
  MaxScroll = 8
  NoText = NoText
  AnyText = AnyText
INVARIANTS
  RowsTrue
  OnePainted
  CursorSeen
  HiddenIdle
