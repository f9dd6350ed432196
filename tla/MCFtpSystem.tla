---------------------------- MODULE MCFtpSystem ----------------------------
(* The instance of FtpSystem that TLC checks. *)
EXTENDS FtpSystem

\* A download from the start, and one that is resumed ("patch").
MCOffsets == {0, 1}
=============================================================================
