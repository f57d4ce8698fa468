\* A request without a body, and nothing after it.
SPECIFICATION Spec
CONSTANTS
    loop = loop  w1 = w1  w2 = w2
    N = 1
    at <- MC_atBare
    hdr_len <- MC_hdrBare
    Requests = {1}
    Streamed = {}
    Framing = "HTTP"
    Loop = loop
    Workers = {}
    None = None
    kDefaultBufSize = 3
    kMethodDelete = 2
    kMaxBasicLen = 0
    Transport = "tcp"
    Failures = {}
    ReparsesHdr = FALSE
    ClosesOnEvent = TRUE
PROPERTIES HdrRecognised
\* a session that was closed stops
CHECK_DEADLOCK FALSE
