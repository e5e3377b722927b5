CONSTANTS
  Plugins <- MCPlugins
  Categories <- MCCategories
  Items <- MCItems
  Subs <- MCSubs
  ItemsOf <- MCItemsOf
  Unmovable = {"i2", "i3"}
  MaxButtonsOnScreen = 2
  NoItem = NoItem
SPECIFICATION Spec
CHECK_DEADLOCK FALSE
INVARIANT TypeOK
INVARIANT CursorVisible
INVARIANT OpenShowsSelected
INVARIANT ItemsHearOnce
INVARIANT AppliedOrUndone
