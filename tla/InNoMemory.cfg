\* calloc(3) fails in InitIncomingMsg.
SPECIFICATION Spec
CONSTANTS
    loop = loop  w1 = w1  w2 = w2
    N = 2
    at <- MC_at
    hdr_len <- MC_hdr_len
    Requests = {}
    Streamed = {}
    Framing = "HTTP"
    Loop = loop
    Workers = {}
    None = None
    kDefaultBufSize = 3
    kMethodDelete = 2
    kMaxBasicLen = 0
    Transport = "tcp"
    Failures = {"calloc"}
    ReparsesHdr = FALSE
    ClosesOnEvent = TRUE
INVARIANTS LockReleased
\* a session that was closed stops
CHECK_DEADLOCK FALSE
