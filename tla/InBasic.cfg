\* A BasicFramingHdr is parsed.
SPECIFICATION Spec
CONSTANTS
    loop = loop  w1 = w1  w2 = w2
    N = 2
    at <- MC_at
    hdr_len <- MC_hdrBasic
    Requests = {}
    Streamed = {}
    Framing = "BASIC"
    Loop = loop
    Workers = {}
    None = None
    kDefaultBufSize = 3
    kMethodDelete = 2
    kMaxBasicLen = 4
    Transport = "tcp"
    Failures = {}
    ReparsesHdr = FALSE
    ClosesOnEvent = TRUE
INVARIANTS BodyInPlace
\* a session that was closed stops
CHECK_DEADLOCK FALSE
