---------------------------- MODULE MCSyncClient ----------------------------
(* Constants that a .cfg cannot write.                                     *)
EXTENDS SyncClient, TLC

CONSTANTS CR, LF
CRLF == <<CR, LF>>
NegativeAndLong == {-5, 1500}
OptionSymmetry == Permutations(Options)
=============================================================================
