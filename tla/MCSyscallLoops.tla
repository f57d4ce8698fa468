--------------------------- MODULE MCSyscallLoops ---------------------------
EXTENDS SyscallLoops

MC_Text == <<"x", "CR", "LF", "x", "x", "LF">>

=============================================================================
