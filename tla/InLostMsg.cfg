\* The connection fails while a worker processes a message.
SPECIFICATION Spec
CONSTANTS
    loop = loop  w1 = w1  w2 = w2
    N = 2
    at <- MC_at
    hdr_len <- MC_hdr_len
    Requests = {}
    Streamed = {}
    Framing = "HTTP"
    Loop = loop
    Workers = {w1}
    None = None
    kDefaultBufSize = 11
    kMethodDelete = 2
    kMaxBasicLen = 0
    Transport = "tcp"
    Failures = {"read"}
    ReparsesHdr = FALSE
    ClosesOnEvent = TRUE
INVARIANTS TakenExact
\* a session that was closed stops
CHECK_DEADLOCK FALSE
