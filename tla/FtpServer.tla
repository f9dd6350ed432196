----------------------------- MODULE FtpServer -----------------------------
(***************************************************************************)
(* main() of server.c: the process that accepts clients and forks a child  *)
(* for each, the copies of a connection that fork leaves in the processes, *)
(* and the children that end and are not waited for.  What a child does    *)
(* between its fork and its end is FtpSession's.                           *)
(*                                                                         *)
(* The loop has no blocking call but accept, so a turn of it is one step.  *)
(***************************************************************************)
EXTENDS Naturals, FiniteSets

CONSTANTS
  Conns,      \* connections that can exist at one time
  MaxFds,     \* descriptors of main less the standard streams
  MaxProcs    \* children, running or zombies, with which fork always fails

ASSUME ConnsAssumption == IsFiniteSet(Conns)
ASSUME LimitsAssumption == MaxFds \in Nat /\ MaxFds >= 2 /\ MaxProcs \in Nat \ {0}

VARIABLES
  main,      \* "loop", or "dead"
  conn,      \* "none", "queued" for accept, "served" by a child, "refused"
             \* with 425, "over" when its child has ended
  gone,      \* the client has closed its end
  kept,      \* connections open in main between two turns of the loop
  holds,     \* connections open in the child that serves c; empty without one
  zombies    \* children that have ended and that nobody has waited for

vars == <<main, conn, gone, kept, holds, zombies>>

Running == {c \in Conns : holds[c] # {}}

\* Mutant: a child that has ended takes no place in the process table.
ProcsFull_RunningOnly == Cardinality(Running) >= MaxProcs

ProcsFull == Cardinality(Running) + zombies >= MaxProcs

\* One descriptor is the listening socket, one is for the next accept.
FdsFull == Cardinality(kept) + 2 > MaxFds

\* Somebody has the server's end of c open.
Held(c) == c \in kept \/ \E d \in Conns : c \in holds[d]

-----------------------------------------------------------------------------
(* One turn of the loop of main *)

\* Mutant: the connection is closed before the fork.
Fork_ClosesFirst(c) ==
  /\ conn' = [conn EXCEPT ![c] = "served"]
  /\ holds' = [holds EXCEPT ![c] = kept]
  /\ UNCHANGED <<main, kept, zombies>>

\* Mutant: the parent does not close its copy of the connection.
Fork_KeepsConn(c) ==
  /\ conn' = [conn EXCEPT ![c] = "served"]
  /\ holds' = [holds EXCEPT ![c] = kept \cup {c}]
  /\ kept' = kept \cup {c}
  /\ UNCHANGED <<main, zombies>>

\* The child inherits all that main has open and closes the listening socket;
\* main closes the connection.  The handler for SIGCHLD is installed in the
\* child, which has no children.
Fork(c) ==
  /\ conn' = [conn EXCEPT ![c] = "served"]
  /\ holds' = [holds EXCEPT ![c] = kept \cup {c}]
  /\ UNCHANGED <<main, kept, zombies>>

\* fork fails: 425, and the connection stays open.  Nothing handles SIGPIPE,
\* which the write may raise when the client has gone.
Refuse(c) ==
  /\ conn' = [conn EXCEPT ![c] = "refused"]
  /\ \/ kept' = kept \cup {c} /\ UNCHANGED <<main, zombies>>
     \/ gone[c] /\ main' = "dead" /\ kept' = {} /\ zombies' = 0
  /\ UNCHANGED holds

\* Without a descriptor accept fails and the loop tries again at once.  fork
\* fails when the process table is full, and now and then for want of memory.
Accept(c) ==
  /\ main = "loop" /\ conn[c] = "queued" /\ ~FdsFull
  /\ \/ Refuse(c)
     \/ ~ProcsFull /\ Fork(c)
  /\ UNCHANGED gone

-----------------------------------------------------------------------------
(* Around it *)

\* Mutant: the child goes on after communicate has returned.
ChildEnds_LivesOn(c) ==
  /\ conn[c] = "served"
  /\ conn' = [conn EXCEPT ![c] = "over"]
  /\ UNCHANGED <<main, gone, kept, holds, zombies>>

\* Mutant: main waits for a child that has ended.
ChildEnds_Reaped(c) ==
  /\ holds[c] # {}
  /\ holds' = [holds EXCEPT ![c] = {}]
  /\ conn' = [conn EXCEPT ![c] = "over"]
  /\ UNCHANGED <<main, gone, kept, zombies>>

\* communicate returns or the process exits.  main never waits for its children;
\* init does for those of a dead parent.
ChildEnds(c) ==
  /\ holds[c] # {}
  /\ holds' = [holds EXCEPT ![c] = {}]
  /\ zombies' = IF main = "loop" THEN zombies + 1 ELSE 0
  /\ conn' = [conn EXCEPT ![c] = "over"]
  /\ UNCHANGED <<main, gone, kept>>

Connect(c) ==
  /\ main = "loop" /\ conn[c] = "none"
  /\ conn' = [conn EXCEPT ![c] = "queued"]
  /\ gone' = [gone EXCEPT ![c] = FALSE]
  /\ UNCHANGED <<main, kept, holds, zombies>>

ClientCloses(c) ==
  /\ conn[c] # "none" /\ ~gone[c]
  /\ gone' = [gone EXCEPT ![c] = TRUE]
  /\ UNCHANGED <<main, conn, kept, holds, zombies>>

\* Both ends are closed; with main dead, also what it had not yet accepted.
Vanish(c) ==
  /\ \/ conn[c] \in {"refused", "over"} /\ gone[c] /\ ~Held(c)
     \/ conn[c] = "queued" /\ main = "dead"
  /\ conn' = [conn EXCEPT ![c] = "none"]
  /\ UNCHANGED <<main, gone, kept, holds, zombies>>

Init ==
  /\ main = "loop"
  /\ conn = [c \in Conns |-> "none"]
  /\ gone = [c \in Conns |-> FALSE]
  /\ kept = {}
  /\ holds = [c \in Conns |-> {}]
  /\ zombies = 0

Next ==
  \E c \in Conns :
    \/ Accept(c)
    \/ ChildEnds(c)
    \/ Connect(c)
    \/ ClientCloses(c)
    \/ Vanish(c)

Spec == Init /\ [][Next]_vars

\* accept takes connections in the order in which they came.
FairSpec == Spec /\ \A c \in Conns : WF_vars(Accept(c))

-----------------------------------------------------------------------------
(* Properties *)

\* The type of every variable; children and zombies never exceed the limit.
TypeOK ==
  /\ main \in {"loop", "dead"}
  /\ conn \in [Conns -> {"none", "queued", "served", "refused", "over"}]
  /\ gone \in [Conns -> BOOLEAN]
  /\ kept \subseteq Conns
  /\ holds \in [Conns -> SUBSET Conns]
  /\ zombies \in 0 .. MaxProcs

\* Every copy of a connection that fork has made is accounted for: main holds
\* what it has refused and nothing else; a child holds its own connection and
\* copies of refused ones.  So a child has nothing open but its connection,
\* as FtpSession assumes, unless fork has failed before.
CopiesAccounted ==
  /\ kept = IF main = "dead" THEN {} ELSE {c \in Conns : conn[c] = "refused"}
  /\ \A c \in Conns :
       /\ conn[c] = "served" <=> c \in holds[c]
       /\ \A d \in holds[c] : d = c \/ conn[d] = "refused"
       /\ conn[c] # "served" => holds[c] = {}

\* When the child of a client has ended, no process has the connection open:
\* the client sees its end at once, whatever was forked in the meantime.
EndReachesClient == \A c \in Conns : conn[c] = "over" => ~Held(c)

\* No end of a session and no close of a client makes room again: once the
\* process table is full it stays full, and so do the descriptors of main,
\* until main is started anew.
FullForGood ==
  [][main = "loop" /\ main' = "loop" =>
       (ProcsFull => ProcsFull') /\ (FdsFull => FdsFull')]_vars

\* A client that waits gets a child, however many came and went before it and
\* whatever they do; only a fork that has failed, for it or for an earlier one,
\* can take main its descriptors or its life and leave the client waiting.
ServedUntilRefusal ==
  \A c \in Conns :
    (main = "loop" /\ conn[c] = "queued")
      ~> (conn[c] = "served" \/ \E d \in Conns : conn[d] = "refused")

-----------------------------------------------------------------------------
(* A statement of the report that the code does not keep *)

\* report.md: a client that connects gets a child process; so none is turned
\* away for a full process table while fewer children run than it has places.
EveryClientServed ==
  [][\A c \in Conns : conn[c] = "queued" /\ conn'[c] = "refused" /\ ProcsFull =>
       Cardinality(Running) >= MaxProcs]_vars
=============================================================================
