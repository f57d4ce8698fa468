\* One thread; the first message goes to a file; anything may fail.
SPECIFICATION FairSpec
CONSTANTS
    loop = loop  w1 = w1  w2 = w2
    N = 2
    at <- MC_at
    hdr_len <- MC_hdr_len
    Requests = {2}
    Streamed = {1}
    Framing = "HTTP"
    Loop = loop
    Workers = {}
    None = None
    kDefaultBufSize = 3
    kMethodDelete = 2
    kMaxBasicLen = 0
    Transport = "tcp"
    Failures = {"read", "open", "write", "short_write", "realloc", "stray"}
    ReparsesHdr = FALSE
    ClosesOnEvent = TRUE
INVARIANTS TypeOK BufferIsStream BodyInPlace TakenExact
PROPERTIES ArrivedIsTaken
\* a session that was closed stops
CHECK_DEADLOCK FALSE
