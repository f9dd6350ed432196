---------------------------- MODULE FtpProtocol ----------------------------
(***************************************************************************)
(* What one FTP session promises its client about the ORDER of commands:   *)
(* the rules listed in the project report under "command handling" and     *)
(* enforced by check_stage in server/command.c.  Only the protocol state   *)
(* is kept; sockets, files and replies belong to FtpSession, which is      *)
(* shown to implement this specification.                                  *)
(***************************************************************************)
EXTENDS Naturals

VARIABLES
  login,      \* 0 connected, 1 user name accepted, 2 logged in
  selected,   \* PORT or PASV has been accepted and not been used up
  renaming,   \* RNFR has been accepted and RNTO is owed
  open        \* the control connection is served

pvars == <<login, selected, renaming, open>>

PInit ==
  /\ login = 0
  /\ selected = FALSE
  /\ renaming = FALSE
  /\ open = TRUE

\* USER then PASS, in that order, each at most once.
LogIn ==
  /\ open /\ login < 2
  /\ login' = login + 1
  /\ UNCHANGED <<selected, renaming, open>>

\* PORT or PASV: only after login, never twice in a row, never inside a rename.
SelectMode ==
  /\ open /\ login = 2 /\ ~selected /\ ~renaming
  /\ selected' = TRUE
  /\ UNCHANGED <<login, renaming, open>>

\* RETR, STOR or LIST is the only command that uses the mode up.
UseMode ==
  /\ open /\ login = 2 /\ selected
  /\ selected' = FALSE
  /\ UNCHANGED <<login, renaming, open>>

\* RNFR: only after login, and not while a mode is selected.
RenameFrom ==
  /\ open /\ login = 2 /\ ~selected /\ ~renaming
  /\ renaming' = TRUE
  /\ UNCHANGED <<login, selected, open>>

\* RNTO, successful or not.
RenameTo ==
  /\ open /\ renaming
  /\ renaming' = FALSE
  /\ UNCHANGED <<login, selected, open>>

\* QUIT, the client going away, or the process being killed.
Disconnect ==
  /\ open
  /\ open' = FALSE
  /\ UNCHANGED <<login, selected, renaming>>

PNext ==
  \/ LogIn
  \/ SelectMode
  \/ UseMode
  \/ RenameFrom
  \/ RenameTo
  \/ Disconnect

PSpec == PInit /\ [][PNext]_pvars
=============================================================================
