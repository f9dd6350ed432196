------------------------------ MODULE FtpNames ------------------------------
(***************************************************************************)
(* How a file name travels: from the server's directory through the lines  *)
(* of fakelsl (command.c) and the regular expression of downloadList       *)
(* (myftp.py) into a row of the interface, from the row or from what the   *)
(* user types into a command, and through sscanf (parse_command) to the    *)
(* name that the server works on.  Files and directories are alike here,   *)
(* and so are DELE and RMD, STOR and MKD.                                  *)
(***************************************************************************)
EXTENDS Integers, Sequences, FiniteSets, FiniteSetsExt

CONSTANTS
  Shows,     \* characters that the expression takes: letters, digits, _ - > / . : |
  Total,     \* the text "total", taken as one of them
  Blanks,    \* characters that end a %s
  Others,    \* all that are neither, as # + ( ~
  Names,     \* names of files, and what the user types
  MaxFiles   \* bound: files in the directory
Chars == Shows \cup {Total} \cup Blanks \cup Others
ASSUME CharsAssumption ==
  /\ Total \notin Blanks \cup Others
  /\ Shows \cap (Blanks \cup Others) = {}
ASSUME NamesAssumption == Names \subseteq Seq(Chars) \ {<<>>}

VARIABLES
  files,     \* names in the server's directory
  table      \* the entries listed last, by their real names

vars == <<files, table>>

-----------------------------------------------------------------------------
(* Conversions *)

\* Mutant: the run ends one character early.
Ends_Early(s, first, C) ==
  {i \in first .. Len(s) : i = Len(s) \/ s[i + 1] \notin C \/ i + 1 = Len(s)}

\* Where a run from first on may end.
Ends(s, first, C) == {i \in first .. Len(s) : i = Len(s) \/ s[i + 1] \notin C}

\* The first run in s of characters of C.
FirstRun(s, C) ==
  LET At == {i \in 1 .. Len(s) : s[i] \in C}
  IN  IF At = {} THEN <<>> ELSE SubSeq(s, Min(At), Min(Ends(s, Min(At), C)))

\* The ninth of the runs that findall() gives for a line: eight come from the
\* columns before the name.  Nothing if the name has no such character.
Taken == Shows \cup {Total}
Shown(name) == FirstRun(name, Taken)

\* A line with "total" in it is passed over.
Hidden(name) == \E i \in 1 .. Len(name) : name[i] = Total

\* sscanf("%s %s"): the argument that the server takes from the command.
Argument(said) == FirstRun(said, Chars \ Blanks)

\* No row can be made of the entry: infoLine[8] raises.
Unshowable(name) == ~Hidden(name) /\ Shown(name) = <<>>
Blocked == \E name \in files : Unshowable(name)

-----------------------------------------------------------------------------
(* Actions *)

\* Mutant: an entry without a name to show gets an empty row.
GetList_AnyEntry ==
  /\ table' = {name \in files : ~Hidden(name)}
  /\ UNCHANGED files

\* The table is replaced; or the exception of one entry fails the listing, or
\* stat() of one that has gone since readdir(), or the connection.
GetList ==
  /\ \/ UNCHANGED table
     \/ ~Blocked /\ table' = {name \in files : ~Hidden(name)}
  /\ UNCHANGED files

\* DELE or RMD of the row's name; it may be refused.
Delete(row) ==
  /\ files' \in {files, files \ {Argument(Shown(row))}}
  /\ UNCHANGED table

\* Mutant: the names of RNFR and RNTO are swapped.
Rename_Swapped(row, typed) ==
  /\ LET old == Argument(typed)
         new == Argument(Shown(row))
     IN  \/ files' = files
         \/ old \in files /\ new # <<>> /\ files' = (files \ {old}) \cup {new}
  /\ UNCHANGED table

\* RNFR of the row's name, RNTO of what is typed.
Rename(row, typed) ==
  /\ LET old == Argument(Shown(row))
         new == Argument(typed)
     IN  \/ files' = files
         \/ old \in files /\ new # <<>> /\ files' = (files \ {old}) \cup {new}
  /\ UNCHANGED table

\* STOR or MKD.
Upload(typed) ==
  /\ Cardinality(files) < MaxFiles
  /\ Argument(typed) # <<>> /\ files' = files \cup {Argument(typed)}
  /\ UNCHANGED table

\* Another session, or somebody on the server.
Elsewhere ==
  /\ \/ Cardinality(files) < MaxFiles /\ \E name \in Names : files' = files \cup {name}
     \/ \E name \in files : files' = files \ {name}
  /\ UNCHANGED table

RowStep(row) == Delete(row) \/ \E typed \in Names : Rename(row, typed)
ClientStep ==
  \/ GetList
  \/ \E row \in table : RowStep(row)
  \/ \E typed \in Names : Upload(typed)

Init == files = {} /\ table = {}
Next == ClientStep \/ Elsewhere
Spec == Init /\ [][Next]_vars

-----------------------------------------------------------------------------
(* Properties *)

\* A name that should travel unchanged.
Plain(name) == \A i \in 1 .. Len(name) : name[i] \in Taken

\* A deletion or a renaming of a row that has a plain name takes that file
\* away, or none: never another one, whatever else is in the directory.
PlainRowsAreSafe ==
  [][\A row \in table : RowStep(row) /\ Plain(row) => files \ files' \subseteq {row}]_vars

\* The type of the table: its rows have names to show and to send.
RowsHaveNames == \A row \in table : Shown(row) # <<>> /\ ~Hidden(row)

\* A directory with an entry that no row can be made of cannot be listed, and
\* the client cannot mend it: no step of its own takes the entry away.
BlockedForGood == [][Blocked /\ ClientStep => Blocked']_vars
=============================================================================
