----------------------------- MODULE MCFtpNames -----------------------------
(* FtpNames with a character of each kind and names of one or two, for TLC. *)
EXTENDS FtpNames

MCShows == {"a"}
MCBlanks == {" "}
MCOthers == {"#"}
MCNames == UNION {[1 .. n -> {"a", "total", " ", "#"}] : n \in 1 .. 2}
=============================================================================
