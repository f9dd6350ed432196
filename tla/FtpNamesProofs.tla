--------------------------- MODULE FtpNamesProofs ----------------------------
(***************************************************************************)
(* Proofs about the way of a name, for all alphabets and names.            *)
(***************************************************************************)
EXTENDS FtpNames, FiniteSetTheorems, WellFoundedInduction, TLAPS

LEMMA MinIsLeast ==
  ASSUME NEW S, S \subseteq Nat, S # {}
  PROVE  Min(S) \in S /\ \A j \in S : Min(S) <= j
<1> DEFINE Below == {1 .. n : n \in S}
           less == StrictSubsetOrdering(Nat)
<1>1. IsWellFoundedOn(less, FiniteSubsetsOf(Nat))
  BY FS_StrictSubsetOrderingWellFounded
<1>2. Below \subseteq FiniteSubsetsOf(Nat) /\ Below # {}
  <2>1. ASSUME NEW n \in S PROVE 1 .. n \in SUBSET Nat /\ IsFiniteSet(1 .. n)
    BY FS_Interval
  <2>2. QED
    BY <2>1 DEF FiniteSubsetsOf
<1>3. PICK U \in Below : \A V \in Below : <<V, U>> \notin less
  <2> HIDE DEF Below, less
  <2>1. QED
    BY <1>1, <1>2, WFMin
<1>4. PICK x \in S : U = 1 .. x
  OBVIOUS
<1>5. ASSUME NEW y \in S PROVE x <= y
  <2>1. SUFFICES ASSUME y < x PROVE FALSE
    OBVIOUS
  <2>2. 1 .. y \in SUBSET Nat /\ 1 .. x \in SUBSET Nat /\ 1 .. y \subseteq 1 .. x
    BY <2>1
  <2>3. x \in 1 .. x /\ x \notin 1 .. y
    BY <2>1
  <2>4. <<1 .. y, 1 .. x>> \in less
    BY <2>2, <2>3 DEF StrictSubsetOrdering
  <2>5. QED
    BY <1>3, <1>4, <2>4
<1>6. QED
  BY <1>5 DEF Min

\* Where the first run of characters of C is, if there is one.
LEMMA RunBounds ==
  ASSUME NEW s \in Seq(Chars), NEW C, NEW k \in 1 .. Len(s), s[k] \in C
  PROVE  LET At == {i \in 1 .. Len(s) : s[i] \in C}
             first == Min(At)
             last == Min(Ends(s, first, C))
         IN  /\ At # {} /\ first \in 1 .. Len(s) /\ last \in first .. Len(s)
             /\ \A i \in 1 .. Len(s) : s[i] \in C => first <= i
             /\ s[first] \in C
             /\ last = Len(s) \/ s[last + 1] \notin C
             /\ \A i \in first .. last - 1 : s[i + 1] \in C
<1> DEFINE At == {i \in 1 .. Len(s) : s[i] \in C}
           first == Min(At)
           Stop == Ends(s, first, C)
           last == Min(Stop)
<1>1. At # {} /\ At \subseteq Nat
  OBVIOUS
<1>2. first \in At /\ \A i \in At : first <= i
  BY <1>1, MinIsLeast
<1> HIDE DEF first
<1>3. Stop \subseteq Nat /\ Len(s) \in Stop
  BY <1>2 DEF Ends
<1>4. last \in Stop /\ \A i \in Stop : last <= i
  BY <1>3, MinIsLeast
<1> HIDE DEF last
<1>5. last \in first .. Len(s) /\ (last = Len(s) \/ s[last + 1] \notin C)
  BY <1>4 DEF Ends
<1>6. ASSUME NEW i \in first .. last - 1 PROVE s[i + 1] \in C
  <2>1. i \in first .. Len(s) /\ i \notin Stop
    BY <1>2, <1>4, <1>5, <1>6
  <2>2. QED
    BY <2>1 DEF Ends
<1>7. QED
  BY <1>1, <1>2, <1>5, <1>6 DEF first, last

\* A run is made of characters of the kind, and is not empty where one is.
LEMMA RunFacts ==
  ASSUME NEW s \in Seq(Chars), NEW C
  PROVE  /\ FirstRun(s, C) \in Seq(Chars)
         /\ \A i \in 1 .. Len(FirstRun(s, C)) : FirstRun(s, C)[i] \in C
         /\ FirstRun(s, C) = <<>> <=> \A i \in 1 .. Len(s) : s[i] \notin C
<1>1. CASE \A i \in 1 .. Len(s) : s[i] \notin C
  <2>1. FirstRun(s, C) = <<>>
    BY <1>1 DEF FirstRun
  <2>2. QED
    BY <1>1, <2>1
<1>2. ASSUME NEW k \in 1 .. Len(s), s[k] \in C
      PROVE  /\ FirstRun(s, C) \in Seq(Chars) /\ FirstRun(s, C) # <<>>
             /\ \A i \in 1 .. Len(FirstRun(s, C)) : FirstRun(s, C)[i] \in C
  <2> DEFINE At == {i \in 1 .. Len(s) : s[i] \in C}
             first == Min(At)
             last == Min(Ends(s, first, C))
  <2>1. /\ At # {} /\ first \in 1 .. Len(s) /\ last \in first .. Len(s)
        /\ s[first] \in C
        /\ \A i \in first .. last - 1 : s[i + 1] \in C
    BY <1>2, RunBounds
  <2>2. FirstRun(s, C) = SubSeq(s, first, last)
    BY <2>1 DEF FirstRun
  <2> HIDE DEF At, first, last
  <2>3. /\ SubSeq(s, first, last) \in Seq(Chars)
        /\ Len(SubSeq(s, first, last)) = last - first + 1
        /\ \A i \in 1 .. last - first + 1 : SubSeq(s, first, last)[i] = s[first + i - 1]
    BY <2>1
  <2>4. ASSUME NEW i \in 1 .. last - first + 1 PROVE s[first + i - 1] \in C
    <3>1. CASE i = 1
      BY <2>1, <3>1
    <3>2. CASE i # 1
      <4>1. first + i - 2 \in first .. last - 1 /\ (first + i - 2) + 1 = first + i - 1
        BY <2>1, <2>4, <3>2
      <4>2. QED
        BY <2>1, <4>1
    <3>3. QED
      BY <3>1, <3>2
  <2>5. SubSeq(s, first, last) # <<>>
    <3>1. Len(SubSeq(s, first, last)) # 0
      BY <2>1, <2>3
    <3>2. Len(<<>>) = 0
      OBVIOUS
    <3>3. QED
      BY <3>1, <3>2, Zenon
  <2>6. QED
    BY <2>2, <2>3, <2>4, <2>5
<1>3. QED
  BY <1>1, <1>2

\* A sequence that is a run from its first to its last character.
LEMMA WholeRun ==
  ASSUME NEW s \in Seq(Chars), NEW C, \A i \in 1 .. Len(s) : s[i] \in C
  PROVE  FirstRun(s, C) = s
<1>1. CASE s = <<>>
  <2>1. {i \in 1 .. Len(s) : s[i] \in C} = {}
    <3>1. Len(s) = 0
      BY <1>1
    <3>2. 1 .. Len(s) = {}
      BY <3>1
    <3>3. QED
      BY <3>2, Zenon
  <2>2. QED
    BY <1>1, <2>1 DEF FirstRun
<1>2. CASE s # <<>>
  <2> DEFINE At == {i \in 1 .. Len(s) : s[i] \in C}
             first == Min(At)
             last == Min(Ends(s, first, C))
  <2>1. 1 \in 1 .. Len(s)
    BY <1>2
  <2>2. /\ At # {} /\ first \in 1 .. Len(s) /\ last \in first .. Len(s)
        /\ \A i \in 1 .. Len(s) : s[i] \in C => first <= i
        /\ last = Len(s) \/ s[last + 1] \notin C
    BY <2>1, RunBounds
  <2>3. FirstRun(s, C) = SubSeq(s, first, last)
    BY <2>2 DEF FirstRun
  <2> HIDE DEF At, first, last
  <2>4. first = 1 /\ last = Len(s)
    BY <2>1, <2>2
  <2>5. QED
    BY <2>3, <2>4
<1>3. QED
  BY <1>1, <1>2

-----------------------------------------------------------------------------
(* Names *)

LEMMA ShownFacts ==
  ASSUME NEW name \in Seq(Chars)
  PROVE  /\ Shown(name) \in Seq(Chars)
         /\ Argument(Shown(name)) = Shown(name)
         /\ Shown(name) # <<>> => \E i \in 1 .. Len(Shown(name)) : Shown(name)[i] \in Taken
         /\ Plain(name) => Shown(name) = name
<1>1. Shown(name) \in Seq(Chars) /\ \A i \in 1 .. Len(Shown(name)) : Shown(name)[i] \in Taken
  BY RunFacts DEF Shown
<1>2. Taken \subseteq Chars \ Blanks
  BY CharsAssumption DEF Taken, Chars
<1>3. Argument(Shown(name)) = Shown(name)
  BY <1>1, <1>2, WholeRun DEF Argument
<1>4. Shown(name) # <<>> => 1 \in 1 .. Len(Shown(name))
  BY <1>1
<1>5. Plain(name) => Shown(name) = name
  BY WholeRun DEF Plain, Shown
<1>6. QED
  BY <1>1, <1>3, <1>4, <1>5

\* What cannot be shown has no character that can be.
LEMMA UnshowableFacts ==
  ASSUME NEW name \in Seq(Chars)
  PROVE  Unshowable(name) <=> \A i \in 1 .. Len(name) : name[i] \notin Taken
<1>1. Shown(name) = <<>> <=> \A i \in 1 .. Len(name) : name[i] \notin Taken
  BY RunFacts DEF Shown
<1>2. Hidden(name) => \E i \in 1 .. Len(name) : name[i] \in Taken
  BY DEF Hidden, Taken
<1>3. QED
  BY <1>1, <1>2 DEF Unshowable

LEMMA ArgumentType ==
  ASSUME NEW said \in Seq(Chars)
  PROVE  Argument(said) \in Seq(Chars)
BY RunFacts DEF Argument

NamesInv ==
  /\ files \subseteq Seq(Chars) /\ table \subseteq Seq(Chars)
  /\ RowsHaveNames

\* What a step on a row takes away is what the row shows.
LEMMA RowStepTakes ==
  ASSUME NamesInv, NEW row \in table, RowStep(row)
  PROVE  /\ files \ files' \subseteq {Shown(row)}
         /\ files' \subseteq Seq(Chars) /\ table' = table
<1>1. row \in Seq(Chars) /\ Argument(Shown(row)) = Shown(row)
  BY ShownFacts DEF NamesInv
<1>2. CASE Delete(row)
  BY <1>1, <1>2 DEF Delete, NamesInv
<1>3. ASSUME NEW typed \in Names, Rename(row, typed)
      PROVE  /\ files \ files' \subseteq {Shown(row)}
             /\ files' \subseteq Seq(Chars) /\ table' = table
  <2>1. typed \in Seq(Chars) /\ Argument(typed) \in Seq(Chars)
    BY NamesAssumption, ArgumentType
  <2>2. QED
    BY <1>1, <1>3, <2>1 DEF Rename, NamesInv
<1>4. QED
  BY <1>2, <1>3 DEF RowStep

LEMMA NamesNext ==
  ASSUME NamesInv, [Next]_vars
  PROVE  NamesInv'
<1>1. CASE GetList
  BY <1>1 DEF GetList, NamesInv, RowsHaveNames, Blocked, Unshowable
<1>2. ASSUME NEW row \in table, RowStep(row) PROVE NamesInv'
  BY <1>2, RowStepTakes DEF NamesInv, RowsHaveNames
<1>3. ASSUME NEW typed \in Names, Upload(typed) PROVE NamesInv'
  <2>1. Argument(typed) \in Seq(Chars)
    BY NamesAssumption, ArgumentType
  <2>2. QED
    BY <1>3, <2>1 DEF Upload, NamesInv, RowsHaveNames
<1>4. CASE Elsewhere
  BY <1>4, NamesAssumption DEF Elsewhere, NamesInv, RowsHaveNames
<1>5. CASE UNCHANGED vars
  BY <1>5 DEF vars, NamesInv, RowsHaveNames
<1>6. QED
  BY <1>1, <1>2, <1>3, <1>4, <1>5 DEF Next, ClientStep

-----------------------------------------------------------------------------
(* Theorems *)

THEOREM NamesInvariance == Spec => []NamesInv
<1>1. Init => NamesInv
  BY DEF Init, NamesInv, RowsHaveNames
<1>2. NamesInv /\ [Next]_vars => NamesInv'
  BY NamesNext
<1>3. QED
  BY <1>1, <1>2, PTL DEF Spec

\* Every row has a name to show and to send.
THEOREM RowsAreNamed == Spec => []RowsHaveNames
<1>1. NamesInv => RowsHaveNames
  BY DEF NamesInv
<1>2. QED
  BY <1>1, NamesInvariance, PTL

\* A plain row stands for its file and for no other.
THEOREM PlainRowsTouchTheirFile == Spec => PlainRowsAreSafe
<1>1. ASSUME NamesInv, NEW row \in table, RowStep(row), Plain(row)
      PROVE  files \ files' \subseteq {row}
  BY <1>1, RowStepTakes, ShownFacts DEF NamesInv
<1>2. NamesInv => [\A row \in table : RowStep(row) /\ Plain(row)
                     => files \ files' \subseteq {row}]_vars
  BY <1>1
<1>3. QED
  BY <1>2, NamesInvariance, PTL DEF PlainRowsAreSafe

\* The client cannot mend a directory that it cannot list.
THEOREM BlockedStaysBlocked == Spec => BlockedForGood
<1>1. ASSUME NamesInv, Blocked, ClientStep
      PROVE  Blocked'
  <2>1. PICK name \in files : Unshowable(name)
    BY <1>1 DEF Blocked
  <2>2. name \in Seq(Chars)
    BY <1>1 DEF NamesInv
  <2>3. name \in files'
    <3>1. CASE GetList \/ \E typed \in Names : Upload(typed)
      BY <3>1 DEF GetList, Upload
    <3>2. ASSUME NEW row \in table, RowStep(row) PROVE name \in files'
      <4>1. row \in Seq(Chars) /\ Shown(row) # <<>>
        BY <1>1, <3>2 DEF NamesInv, RowsHaveNames
      <4>2. name # Shown(row)
        BY <2>1, <2>2, <4>1, ShownFacts, UnshowableFacts
      <4>3. QED
        BY <1>1, <3>2, <4>2, RowStepTakes
    <3>3. QED
      BY <1>1, <3>1, <3>2 DEF ClientStep
  <2>4. QED
    BY <2>1, <2>3 DEF Blocked, Unshowable
<1>2. NamesInv => [Blocked /\ ClientStep => Blocked']_vars
  BY <1>1
<1>3. QED
  BY <1>2, NamesInvariance, PTL DEF BlockedForGood
=============================================================================
