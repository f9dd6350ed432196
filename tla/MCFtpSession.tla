---------------------------- MODULE MCFtpSession ----------------------------
(* FtpSession with a small descriptor table, for TLC. *)
EXTENDS FtpSession

\* The start of the file, and an offset that lseek refuses.
MCOffsets == {-1, 0}
=============================================================================
