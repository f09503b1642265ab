CONSTANTS
    Width = 10
    Height = 9
    GlyphWidth = 2
    GlyphHeight = 2
    LineSpacing = 1
    BorderPadding = 1
    Chars = {"a", "esc", "[", "0", "3", "1", "m", "nl", "cr"}
SPECIFICATION TextSpec
INVARIANTS GlyphsInFrame LogShowsText LogRecovers
PROPERTIES BackspaceErases
