SPECIFICATION Spec
CONSTANTS
  URL_PORT_NULL = "none"
  Methods = {"GET"}
  URIs <- MC_URIs
  Codes = {"200"}
  Fields <- MC_Fields
  Bodies <- MC_Bodies
  Digits = {"0", "1", "9", "80", "200"}
  Number <- MC_Number
  Phrase <- MC_Phrase
  AbsPath = {TRUE, FALSE}
  Stale = "NUL"
  Whole = {"chunks"}
  Bare = FALSE
  MaxFields = 2
  MaxMsgs = 2
INVARIANT NoFalseAlarm
CHECK_DEADLOCK FALSE
