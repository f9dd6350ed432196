-------------------------- MODULE FtpServerProofs --------------------------
(***************************************************************************)
(* Proofs about FtpServer, for every finite set of connections and every   *)
(* limit on descriptors and processes.                                     *)
(***************************************************************************)
EXTENDS FtpServer, FiniteSetTheorems, TLAPS

\* The process table: what runs and what has not been waited for fits in it.
ProcsFit == Cardinality(Running) + zombies <= MaxProcs

IInv ==
  /\ TypeOK
  /\ CopiesAccounted
  /\ ProcsFit

-----------------------------------------------------------------------------
(* The process table *)

\* The children are finitely many.
LEMMA RunningFinite ==
  /\ IsFiniteSet(Running)
  /\ Cardinality(Running) \in Nat
<1>1. Running \subseteq Conns
  BY DEF Running
<1>2. IsFiniteSet(Running)
  BY <1>1, ConnsAssumption, FS_Subset
<1>3. QED
  BY <1>2, FS_CardinalityType

\* A step that gives no child to anybody and takes none leaves them as many.
LEMMA SameRunning ==
  ASSUME holds' = holds
  PROVE  Running' = Running
BY DEF Running

-----------------------------------------------------------------------------
(* The steps *)

\* fork succeeds: main keeps no copy, and the table had room for the child.
LEMMA ForkKeeps ==
  ASSUME IInv, NEW c \in Conns, main = "loop", conn[c] = "queued", ~ProcsFull,
         Fork(c), gone' = gone
  PROVE  IInv'
<1>1. /\ conn' = [conn EXCEPT ![c] = "served"]
      /\ holds' = [holds EXCEPT ![c] = kept \cup {c}]
      /\ main' = main /\ kept' = kept /\ zombies' = zombies
  BY DEF Fork
<1>2. c \notin kept
  BY DEF IInv, CopiesAccounted
<1>3. TypeOK'
  BY <1>1 DEF IInv, TypeOK
<1>4. CopiesAccounted'
  <2>1. kept' = IF main' = "dead" THEN {} ELSE {d \in Conns : conn'[d] = "refused"}
    BY <1>1 DEF IInv, TypeOK, CopiesAccounted
  <2>2. ASSUME NEW d \in Conns
        PROVE  /\ conn'[d] = "served" <=> d \in holds'[d]
               /\ \A e \in holds'[d] : e = d \/ conn'[e] = "refused"
               /\ conn'[d] # "served" => holds'[d] = {}
    <3>1. CASE d = c
      BY <3>1, <1>1, <1>2 DEF IInv, TypeOK, CopiesAccounted
    <3>2. CASE d # c
      BY <3>2, <1>1, <1>2 DEF IInv, TypeOK, CopiesAccounted
    <3>3. QED
      BY <3>1, <3>2
  <2>3. QED
    BY <2>1, <2>2 DEF CopiesAccounted
<1>5. ProcsFit'
  <2>1. Running' = Running \cup {c} /\ c \notin Running
    BY <1>1 DEF Running, IInv, TypeOK, CopiesAccounted
  <2>2. Cardinality(Running') = Cardinality(Running) + 1
    BY <2>1, RunningFinite, FS_AddElement
  <2>3. Cardinality(Running) + zombies < MaxProcs
    BY RunningFinite, LimitsAssumption DEF ProcsFull, IInv, TypeOK
  <2>4. QED
    BY <2>2, <2>3, <1>1, RunningFinite, LimitsAssumption DEF ProcsFit, IInv, TypeOK
<1>6. QED
  BY <1>3, <1>4, <1>5 DEF IInv

\* fork fails: main keeps the connection, or dies of its own answer.
LEMMA RefuseKeeps ==
  ASSUME IInv, NEW c \in Conns, main = "loop", conn[c] = "queued",
         Refuse(c), gone' = gone
  PROVE  IInv'
<1>1. /\ conn' = [conn EXCEPT ![c] = "refused"]
      /\ holds' = holds
  BY DEF Refuse
<1>2. \/ kept' = kept \cup {c} /\ main' = main /\ zombies' = zombies
      \/ main' = "dead" /\ kept' = {} /\ zombies' = 0
  BY DEF Refuse
<1>3. TypeOK'
  BY <1>1, <1>2, LimitsAssumption DEF IInv, TypeOK
<1>4. CopiesAccounted'
  <2>1. kept' = IF main' = "dead" THEN {} ELSE {d \in Conns : conn'[d] = "refused"}
    BY <1>1, <1>2 DEF IInv, TypeOK, CopiesAccounted
  <2>2. ASSUME NEW d \in Conns
        PROVE  /\ conn'[d] = "served" <=> d \in holds'[d]
               /\ \A e \in holds'[d] : e = d \/ conn'[e] = "refused"
               /\ conn'[d] # "served" => holds'[d] = {}
    BY <1>1 DEF IInv, TypeOK, CopiesAccounted
  <2>3. QED
    BY <2>1, <2>2 DEF CopiesAccounted
<1>5. ProcsFit'
  BY <1>1, <1>2, SameRunning, RunningFinite, LimitsAssumption DEF ProcsFit, IInv, TypeOK
<1>6. QED
  BY <1>3, <1>4, <1>5 DEF IInv

\* A child that ends gives its place to a zombie, and its descriptors back.
LEMMA ChildEndsKeeps ==
  ASSUME IInv, NEW c \in Conns, ChildEnds(c)
  PROVE  IInv'
<1>1. /\ holds[c] # {}
      /\ holds' = [holds EXCEPT ![c] = {}]
      /\ zombies' = IF main = "loop" THEN zombies + 1 ELSE 0
      /\ conn' = [conn EXCEPT ![c] = "over"]
      /\ main' = main /\ gone' = gone /\ kept' = kept
  BY DEF ChildEnds
<1>2. Running' = Running \ {c} /\ c \in Running
  BY <1>1 DEF Running, IInv, TypeOK
<1>3. Cardinality(Running') = Cardinality(Running) - 1
  BY <1>2, RunningFinite, FS_RemoveElement
<1>4. Cardinality(Running) \in Nat \ {0}
  BY <1>2, RunningFinite, FS_EmptySet
<1>5. ProcsFit' /\ zombies' \in 0 .. MaxProcs
  BY <1>1, <1>3, <1>4, LimitsAssumption DEF ProcsFit, IInv, TypeOK
<1>6. TypeOK'
  BY <1>1, <1>5 DEF IInv, TypeOK
<1>7. conn[c] = "served"
  BY <1>1 DEF IInv, CopiesAccounted
<1>8. CopiesAccounted'
  BY <1>1, <1>7 DEF IInv, TypeOK, CopiesAccounted
<1>9. QED
  BY <1>5, <1>6, <1>8 DEF IInv

\* A client that comes or closes its end moves no descriptor of the server.
LEMMA ClientKeeps ==
  ASSUME IInv, NEW c \in Conns, Connect(c) \/ ClientCloses(c)
  PROVE  IInv'
<1>1. /\ main' = main /\ kept' = kept /\ holds' = holds /\ zombies' = zombies
      /\ gone' \in [Conns -> BOOLEAN]
      /\ \/ conn' = conn
         \/ conn[c] = "none" /\ conn' = [conn EXCEPT ![c] = "queued"]
  BY DEF Connect, ClientCloses, IInv, TypeOK
<1>2. TypeOK'
  BY <1>1 DEF IInv, TypeOK
<1>3. CopiesAccounted'
  BY <1>1 DEF IInv, TypeOK, CopiesAccounted
<1>4. ProcsFit'
  BY <1>1, SameRunning DEF ProcsFit, IInv
<1>5. QED
  BY <1>2, <1>3, <1>4 DEF IInv

\* A connection vanishes only when no process has a copy of it.
LEMMA VanishKeeps ==
  ASSUME IInv, NEW c \in Conns, Vanish(c)
  PROVE  IInv'
<1>1. /\ conn' = [conn EXCEPT ![c] = "none"]
      /\ main' = main /\ gone' = gone /\ kept' = kept
      /\ holds' = holds /\ zombies' = zombies
      /\ conn[c] # "served"
      /\ conn[c] = "refused" => ~Held(c)
  BY DEF Vanish
<1>2. TypeOK'
  BY <1>1 DEF IInv, TypeOK
<1>3. CopiesAccounted'
  BY <1>1 DEF IInv, TypeOK, CopiesAccounted, Held
<1>4. ProcsFit'
  BY <1>1, SameRunning DEF ProcsFit, IInv
<1>5. QED
  BY <1>2, <1>3, <1>4 DEF IInv

-----------------------------------------------------------------------------
(* Theorems *)

\* The inductive invariant holds in every reachable state.
THEOREM Invariance == Spec => []IInv
<1>1. Init => IInv
  <2> SUFFICES ASSUME Init PROVE IInv
    OBVIOUS
  <2>1. Running = {}
    BY DEF Init, Running
  <2>2. Cardinality(Running) = 0
    BY <2>1, FS_EmptySet
  <2>3. QED
    BY <2>2, LimitsAssumption DEF Init, IInv, TypeOK, CopiesAccounted, ProcsFit
<1>2. IInv /\ [Next]_vars => IInv'
  <2> SUFFICES ASSUME IInv, [Next]_vars PROVE IInv'
    OBVIOUS
  <2>1. ASSUME NEW c \in Conns, Accept(c)
        PROVE  IInv'
    BY <2>1, ForkKeeps, RefuseKeeps DEF Accept
  <2>2. ASSUME NEW c \in Conns, ChildEnds(c)
        PROVE  IInv'
    BY <2>2, ChildEndsKeeps
  <2>3. ASSUME NEW c \in Conns, Connect(c) \/ ClientCloses(c)
        PROVE  IInv'
    BY <2>3, ClientKeeps
  <2>4. ASSUME NEW c \in Conns, Vanish(c)
        PROVE  IInv'
    BY <2>4, VanishKeeps
  <2>5. CASE UNCHANGED vars
    BY <2>5 DEF vars, IInv, TypeOK, CopiesAccounted, ProcsFit, Running
  <2>6. QED
    BY <2>1, <2>2, <2>3, <2>4, <2>5 DEF Next
<1>3. QED
  BY <1>1, <1>2, PTL DEF Spec

\* main of server.c: every variable keeps its type, and the children with the
\* zombies they leave never exceed the limit at which fork fails.
THEOREM TypeCorrect == Spec => []TypeOK
BY Invariance, PTL DEF IInv

\* main of server.c: main has nothing open but what it refused, and a child
\* nothing but its connection and copies of refused ones.
THEOREM Accounting == Spec => []CopiesAccounted
BY Invariance, PTL DEF IInv

\* main of server.c: once the child of a client has ended, no process keeps
\* the connection open, however many children were forked meanwhile.
THEOREM EndSeen == Spec => []EndReachesClient
<1>1. IInv => EndReachesClient
  BY DEF IInv, CopiesAccounted, EndReachesClient, Held
<1>2. QED
  BY <1>1, Invariance, PTL

\* A child that ends leaves as many places in the table as there were.
LEMMA EndMakesNoRoom ==
  ASSUME IInv, NEW c \in Conns, ChildEnds(c), main = "loop"
  PROVE  (ProcsFull => ProcsFull') /\ kept' = kept
<1>1. holds' = [holds EXCEPT ![c] = {}] /\ holds[c] # {} /\ zombies' = zombies + 1
  BY DEF ChildEnds
<1>2. Running' = Running \ {c} /\ c \in Running
  BY <1>1 DEF Running, IInv, TypeOK
<1>3. Cardinality(Running') = Cardinality(Running) - 1
  BY <1>2, RunningFinite, FS_RemoveElement
<1>4. Cardinality(Running') + zombies' = Cardinality(Running) + zombies
  BY <1>1, <1>3, RunningFinite, LimitsAssumption DEF IInv, TypeOK
<1>5. QED
  BY <1>4 DEF ProcsFull, ChildEnds

\* What main keeps open only grows while it lives.
LEMMA KeptGrows ==
  ASSUME IInv, kept \subseteq kept', kept' \subseteq Conns
  PROVE  FdsFull => FdsFull'
<1>1. IsFiniteSet(kept') /\ IsFiniteSet(kept)
  BY ConnsAssumption, FS_Subset DEF IInv, TypeOK
<1>2. Cardinality(kept) <= Cardinality(kept')
  BY <1>1, FS_Subset
<1>3. Cardinality(kept) \in Nat /\ Cardinality(kept') \in Nat
  BY <1>1, FS_CardinalityType
<1>4. QED
  BY <1>2, <1>3, LimitsAssumption DEF FdsFull

\* main of server.c: a process table that is full stays full, and so do the
\* descriptors of main, as long as main runs.
THEOREM NoRoomAgain == Spec => FullForGood
<1>1. ASSUME IInv, IInv', [Next]_vars, main = "loop", main' = "loop"
      PROVE  (ProcsFull => ProcsFull') /\ (FdsFull => FdsFull')
  <2>1. kept' \subseteq Conns
    BY <1>1 DEF IInv, TypeOK
  <2>2. ASSUME NEW c \in Conns, Accept(c)
        PROVE  (ProcsFull => ProcsFull') /\ kept \subseteq kept'
    <3>1. CASE Refuse(c)
      <4>1. holds' = holds /\ zombies' = zombies /\ kept \subseteq kept'
        BY <1>1, <3>1 DEF Refuse
      <4>2. QED
        BY <4>1, SameRunning DEF ProcsFull
    <3>2. CASE ~ProcsFull /\ Fork(c)
      BY <3>2 DEF Fork
    <3>3. QED
      BY <2>2, <3>1, <3>2 DEF Accept
  <2>3. ASSUME NEW c \in Conns, ChildEnds(c)
        PROVE  (ProcsFull => ProcsFull') /\ kept \subseteq kept'
    BY <1>1, <2>3, EndMakesNoRoom
  <2>4. ASSUME holds' = holds, zombies' = zombies, kept' = kept
        PROVE  (ProcsFull => ProcsFull') /\ kept \subseteq kept'
    BY <2>4, SameRunning DEF ProcsFull
  <2>5. (ProcsFull => ProcsFull') /\ kept \subseteq kept'
    BY <1>1, <2>2, <2>3, <2>4 DEF Next, Connect, ClientCloses, Vanish, vars
  <2>6. QED
    BY <1>1, <2>1, <2>5, KeptGrows
<1>2. QED
  BY <1>1, Invariance, PTL DEF Spec, FullForGood
=============================================================================
