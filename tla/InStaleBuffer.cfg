\* A worker processes a message while the event loop reads on.
SPECIFICATION Spec
CONSTANTS
    loop = loop  w1 = w1  w2 = w2
    N = 2
    at <- MC_at
    hdr_len <- MC_hdr_len
    Requests = {}
    Streamed = {}
    Framing = "HTTP"
    Loop = loop
    Workers = {w1}
    None = None
    kDefaultBufSize = 6
    kMethodDelete = 2
    kMaxBasicLen = 0
    Transport = "tcp"
    Failures = {}
    ReparsesHdr = FALSE
    ClosesOnEvent = TRUE
INVARIANTS NoStaleBuffer
\* a session that was closed stops
CHECK_DEADLOCK FALSE
