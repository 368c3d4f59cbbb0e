--------------------------- MODULE MCSoundCommand ---------------------------
EXTENDS SoundCommand

AnyCaller == {"0x8402", "0xa765", "other"}
PatchedAndNot == {"0x8402", "other"}
NoPatchedCaller == {"0xa765", "other"}
=============================================================================
