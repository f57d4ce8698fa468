\* A nonblocking socket takes part of a chunk of a file.
SPECIFICATION Spec
CONSTANTS
    m1 = m1  m2 = m2  m3 = m3
    f1 = f1  f2 = f2  f3 = f3
    Msgs = {m1, m2, m3}
    Files = {f1, f2, f3}
    Retained = {f1}
    Requests <- MC_Requests
    t1 = t1  t2 = t2  t3 = t3
    Producers = {t1}
    Consumers = {t1}
    None = None
    hdr_len <- MC_hdr_len
    body_len <- MC_body_len
    storage <- MC_storage
    file <- MC_file
    kDefaultBufSize = 3
    kFileChunkSize = 2
    kSslRecord = 2
    Transport = "tcp_nonblocking"
INVARIANTS WireInOrder
