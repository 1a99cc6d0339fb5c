\* The fast path beside one other run; the file is swapped once.
CONSTANTS
    Version = {0, 1}
    Thread = {fast_path, other}
    Copy = {c1, c2}
    None = None
    Blank = Blank
    Torn = Torn
    Undecoded = Undecoded
    Fetcher = fast_path
    ManualTracks <- VideoManual
    AutoTracks <- VideoAuto
    MetadataAttempts = 2
    Spoken <- ShortLines

SPECIFICATION CaptionSpec
SYMMETRY Symmetry

INVARIANTS
    CaptionTypeOK
    FilesReclaimed
    CurrentCookies
    WordsOnce
PROPERTY
    OriginalLanguage
