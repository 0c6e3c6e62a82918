SPECIFICATION DecoderSpec
CONSTANTS
    Corpora <- SomeCorpora
    JSON_MAX_DEPTH = 2
    JSON_KEY_MAX = 1
    JSON_NUM_MAX = 4
    Bgs = {6}
    Fills = {2}
    AppBg = 0
    Dark = 7
    Ops <- SomeOps
    Ids = {s1, s2}
    NoId = NoId
    Defs = {d}
    PALETTE_SIZE = 4
    PALETTE_RESET_THRESHOLD = 2
    PALETTE_BLEND_CACHE = 2
    ARENA_CAP = 3
    KIOSK_MAX_OPS = 2
    LastLine = 2
    MaxMembers <- Members
SYMMETRY AnyName
INVARIANTS ReadsAsWritten LinesKeepColours 
CHECK_DEADLOCK FALSE
