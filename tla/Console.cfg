CONSTANTS
    LINES = 3
    COLUMNS = 2
    SCREEN_END = 8
    TAB = 2
    NPAR = 2
    Word = 4
    Digits = {0, 1}
    SaveAt = 0
    RestoreAt = 1
    Glyphs = {"a", "blank"}
    Blank = "blank"
SPECIFICATION Spec
CONSTRAINT MCFewGlyphs
INVARIANTS
    CursorInWindow
PROPERTIES
    ShowsTheScreen
