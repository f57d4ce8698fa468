\* An event loop and two workers; nothing fails.  rbuf_ may have to grow
\* before a message is complete, never after (InStaleBuffer.cfg has one that does).
SPECIFICATION Spec
CONSTANTS
    loop = loop  w1 = w1  w2 = w2
    N = 2
    at <- MC_at
    hdr_len <- MC_hdrLong
    Requests = {1}
    Streamed = {}
    Framing = "HTTP"
    Loop = loop
    Workers = {w1, w2}
    None = None
    kDefaultBufSize = 8
    kMethodDelete = 2
    kMaxBasicLen = 0
    Transport = "tcp"
    Failures = {}
    ReparsesHdr = FALSE
    ClosesOnEvent = TRUE
INVARIANTS TakenExact NeverReset
\* a session that was closed stops
CHECK_DEADLOCK FALSE
