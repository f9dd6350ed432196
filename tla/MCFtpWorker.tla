---------------------------- MODULE MCFtpWorker -----------------------------
(* FtpWorker with two directories, a file and a directory to list, for TLC. *)
EXTENDS FtpWorker
CONSTANTS home, sub, file, folder

MCDirs == {home, sub}
MCFiles == {file}
MCFolders == {folder}
=============================================================================
