\* The loop of README.txt with two workers, going on after events; anything may
\* fail and nothing is parsed right.
SPECIFICATION Spec
CONSTANTS
    loop = loop  w1 = w1  w2 = w2
    N = 2
    at <- MC_at
    hdr_len <- MC_hdrBasic
    Requests = {}
    Streamed = {1}
    Framing = "BASIC"
    Loop = loop
    Workers = {w1, w2}
    None = None
    kDefaultBufSize = 3
    kMethodDelete = 2
    kMaxBasicLen = 4
    Transport = "tcp"
    Failures = {"read", "open", "write", "short_write", "realloc", "calloc", "stray"}
    ReparsesHdr = TRUE
    ClosesOnEvent = FALSE
INVARIANTS RoomToRead OneAtATime
SYMMETRY MC_Workers
CONSTRAINT MC_FewTaken
\* a session that was closed stops, and so does one whose lock is not released
CHECK_DEADLOCK FALSE
