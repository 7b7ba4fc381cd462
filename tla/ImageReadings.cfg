SPECIFICATION FairSpec
CONSTANTS
    p1 = p1
    p2 = p2
    Photos = {p1, p2}
    Slots = {s1, s2}
    Texts <- TextsOfTwo
    DownloadAttempts = 2
    MaxRedirects = 1
    None = None
INVARIANT FaithfulReading
INVARIANT NoFilesLeft
PROPERTY ReadingEnds
CHECK_DEADLOCK FALSE
