------------------------- MODULE FtpTransferProofs -------------------------
(***************************************************************************)
(* Proofs about FtpTransfer, for any number of sessions, names and files,  *)
(* files of any length, any size of the buffer and any set of offsets:     *)
(* what a transfer has moved is what the file holds.                       *)
(***************************************************************************)
EXTENDS FtpTransfer, SequenceTheorems, TLAPS

-----------------------------------------------------------------------------
(* Lemmas about bytes *)

\* A slice within a file is a sequence of as many bytes as asked for, and its
\* elements are those of the file.
LEMMA SliceInside ==
  ASSUME NEW s \in Seq(Byte), NEW p \in Nat, NEW n \in Nat, p + n <= Len(s)
  PROVE  /\ Slice(s, p, n) \in Seq(Byte)
         /\ Len(Slice(s, p, n)) = n
         /\ \A i \in 1 .. n : Slice(s, p, n)[i] = s[p + i]
<1>1. Slice(s, p, n) = SubSeq(s, p + 1, p + n)
  BY DEF Slice, Min2
<1>2. p + 1 \in Int /\ p + n \in Int
  OBVIOUS
<1>3. \A i \in p + 1 .. p + n : s[i] \in Byte
  <2> TAKE i \in p + 1 .. p + n
  <2>1. i \in 1 .. Len(s)
    BY LenProperties
  <2>2. QED
    BY <2>1, ElementOfSeq
<1>4. /\ SubSeq(s, p + 1, p + n) \in Seq(Byte)
      /\ Len(SubSeq(s, p + 1, p + n)) = IF p + 1 <= p + n THEN (p + n) - (p + 1) + 1 ELSE 0
      /\ \A i \in 1 .. (p + n) - (p + 1) + 1 :
           SubSeq(s, p + 1, p + n)[i] = s[(p + 1) + i - 1]
  BY <1>2, <1>3, SubSeqProperties
<1>5. \A i \in 1 .. n : SubSeq(s, p + 1, p + n)[i] = s[p + i]
  BY <1>4
<1>6. QED
  BY <1>1, <1>4, <1>5

\* A slice that reaches beyond the end is the rest of the file.
LEMMA SliceBeyond ==
  ASSUME NEW s \in Seq(Byte), NEW p \in Nat, NEW n \in Nat, Len(s) <= p + n
  PROVE  Slice(s, p, n) = IF p <= Len(s) THEN Slice(s, p, Len(s) - p) ELSE <<>>
<1>1. Slice(s, p, n) = SubSeq(s, p + 1, Len(s))
  BY LenProperties DEF Slice, Min2
<1>2. CASE p <= Len(s)
  <2>1. Slice(s, p, Len(s) - p) = SubSeq(s, p + 1, Len(s))
    <3>1. p + (Len(s) - p) = Len(s)
      BY LenProperties
    <3>2. QED
      BY <3>1 DEF Slice, Min2
  <2>2. QED
    BY <1>1, <1>2, <2>1
<1>3. CASE p > Len(s)
  <2>1. SubSeq(s, p + 1, Len(s)) = <<>>
    BY <1>3, LenProperties, SubSeqEmpty
  <2>2. QED
    BY <1>1, <1>3, <2>1, LenProperties
<1>4. QED
  BY <1>2, <1>3, LenProperties

\* A slice of no bytes is empty.
LEMMA EmptySlice ==
  ASSUME NEW s \in Seq(Byte), NEW p \in Nat
  PROVE  Slice(s, p, 0) = <<>>
<1>1. PICK q \in Int : q < p + 1 /\ Slice(s, p, 0) = SubSeq(s, p + 1, q)
  BY LenProperties DEF Slice, Min2
<1>2. QED
  BY <1>1, SubSeqEmpty

\* What read() gives are bytes, at most as many as the buffer takes, and some
\* unless the position is at the end.
LEMMA SliceBytes ==
  ASSUME NEW s \in Seq(Byte), NEW p \in Nat, NEW n \in Nat \ {0}
  PROVE  \/ p >= Len(s) /\ Slice(s, p, n) = <<>>
         \/ \E m \in 1 .. n : p + m <= Len(s) /\ Slice(s, p, n) = Slice(s, p, m)
<1>1. CASE p + n <= Len(s)
  BY <1>1
<1>2. CASE Len(s) <= p
  <2>1. Slice(s, p, n) = IF p <= Len(s) THEN Slice(s, p, Len(s) - p) ELSE <<>>
    BY <1>2, SliceBeyond, LenProperties
  <2>2. CASE p = Len(s)
    BY <2>1, <2>2, EmptySlice, LenProperties
  <2>3. QED
    BY <1>2, <2>1, <2>2, LenProperties
<1>3. CASE p < Len(s) /\ Len(s) < p + n
  <2>1. Slice(s, p, n) = Slice(s, p, Len(s) - p)
    BY <1>3, SliceBeyond, LenProperties
  <2>2. Len(s) - p \in 1 .. n /\ p + (Len(s) - p) <= Len(s)
    BY <1>3, LenProperties
  <2>3. QED
    BY <2>1, <2>2
<1>4. QED
  BY <1>1, <1>2, <1>3, LenProperties

\* A sequence that begins with a and goes on with b is their concatenation.
LEMMA Joined ==
  ASSUME NEW a \in Seq(Byte), NEW b \in Seq(Byte), NEW c \in Seq(Byte),
         Len(c) = Len(a) + Len(b),
         \A i \in 1 .. Len(a) : c[i] = a[i],
         \A i \in 1 .. Len(b) : c[Len(a) + i] = b[i]
  PROVE  a \o b = c
<1> DEFINE d == a \o b
<1>1. /\ d \in Seq(Byte)
      /\ Len(d) = Len(a) + Len(b)
      /\ \A i \in 1 .. Len(a) + Len(b) : d[i] = IF i <= Len(a) THEN a[i] ELSE b[i - Len(a)]
  BY ConcatProperties
<1> HIDE DEF d
<1>2. ASSUME NEW i \in 1 .. Len(d)
      PROVE  d[i] = c[i]
  <2>1. i \in 1 .. Len(a) + Len(b) /\ Len(a) \in Nat /\ Len(b) \in Nat
    BY <1>1, LenProperties
  <2>2. CASE i <= Len(a)
    <3>1. i \in 1 .. Len(a)
      BY <2>1, <2>2
    <3>2. QED
      BY <1>1, <2>1, <2>2, <3>1
  <2>3. CASE i > Len(a)
    <3>1. i - Len(a) \in 1 .. Len(b) /\ Len(a) + (i - Len(a)) = i
      BY <2>1, <2>3
    <3>2. c[i] = b[i - Len(a)]
      BY <3>1
    <3>3. QED
      BY <1>1, <2>1, <2>3, <3>2
  <2>4. QED
    BY <2>1, <2>2, <2>3
<1>3. d = c
  BY <1>1, <1>2, SeqEqual
<1>4. QED
  BY <1>3 DEF d

\* Two adjoining slices make one.
LEMMA SliceAppend ==
  ASSUME NEW s \in Seq(Byte), NEW p \in Nat, NEW n \in Nat, NEW k \in Nat,
         p + n + k <= Len(s)
  PROVE  Slice(s, p, n) \o Slice(s, p + n, k) = Slice(s, p, n + k)
<1>1. PICK a \in Seq(Byte) :
        /\ a = Slice(s, p, n) /\ Len(a) = n
        /\ \A i \in 1 .. n : a[i] = s[p + i]
  <2>1. p + n <= Len(s)
    BY LenProperties
  <2>2. QED
    BY <2>1, SliceInside
<1>2. PICK b \in Seq(Byte) :
        /\ b = Slice(s, p + n, k) /\ Len(b) = k
        /\ \A i \in 1 .. k : b[i] = s[(p + n) + i]
  <2>1. p + n \in Nat
    OBVIOUS
  <2>2. QED
    BY <2>1, SliceInside, ZenonT(60)
<1>3. PICK c \in Seq(Byte) :
        /\ c = Slice(s, p, n + k) /\ Len(c) = n + k
        /\ \A i \in 1 .. n + k : c[i] = s[p + i]
  <2>1. n + k \in Nat /\ p + (n + k) <= Len(s)
    BY LenProperties
  <2>2. QED
    BY <2>1, SliceInside, ZenonT(60)
<1>4. \A i \in 1 .. Len(a) : c[i] = a[i]
  <2> TAKE i \in 1 .. Len(a)
  <2>1. i \in 1 .. n /\ i \in 1 .. n + k
    BY <1>1
  <2>2. QED
    BY <1>1, <1>3, <2>1
<1>5. \A i \in 1 .. Len(b) : c[Len(a) + i] = b[i]
  <2> TAKE i \in 1 .. Len(b)
  <2>1. n + i \in 1 .. n + k /\ p + (n + i) = (p + n) + i /\ i \in 1 .. k
    BY <1>2
  <2>2. QED
    BY <1>1, <1>2, <1>3, <2>1
<1>6. Len(c) = Len(a) + Len(b)
  BY <1>1, <1>2, <1>3
<1>7. a \o b = c
  BY <1>4, <1>5, <1>6, Joined
<1>8. QED
  BY <1>1, <1>2, <1>3, <1>7

\* Writing keeps a file a sequence of bytes, and what it does not reach.
LEMMA PutAtFacts ==
  ASSUME NEW s \in Seq(Byte), NEW p \in Nat, NEW b \in Seq(Byte)
  PROVE  /\ PutAt(s, p, b) \in Seq(Byte)
         /\ Len(PutAt(s, p, b)) = Max2(Len(s), p + Len(b))
         /\ \A i \in 1 .. Len(PutAt(s, p, b)) :
              PutAt(s, p, b)[i] = IF p < i /\ i <= p + Len(b) THEN b[i - p]
                                  ELSE IF i <= Len(s) THEN s[i] ELSE 0
<1> DEFINE n == Max2(Len(s), p + Len(b))
           e(i) == IF p < i /\ i <= p + Len(b) THEN b[i - p]
                   ELSE IF i <= Len(s) THEN s[i] ELSE 0
<1>1. n \in Nat
  BY DEF Max2
<1>2. \A i \in 1 .. n : e(i) \in Byte
  <2> TAKE i \in 1 .. n
  <2>1. CASE p < i /\ i <= p + Len(b)
    <3>1. i - p \in 1 .. Len(b)
      BY <2>1
    <3>2. QED
      BY <2>1, <3>1, ElementOfSeq
  <2>2. CASE ~(p < i /\ i <= p + Len(b)) /\ i <= Len(s)
    BY <2>2, ElementOfSeq
  <2>3. CASE ~(p < i /\ i <= p + Len(b)) /\ i > Len(s)
    BY <2>3 DEF Byte
  <2>4. QED
    BY <2>1, <2>2, <2>3
<1>3. PutAt(s, p, b) = [i \in 1 .. n |-> e(i)]
  BY DEF PutAt
<1> HIDE DEF n, e
<1>4. [i \in 1 .. n |-> e(i)] \in Seq(Byte)
  BY <1>1, <1>2
<1>5. Len([i \in 1 .. n |-> e(i)]) = n
  BY <1>1, <1>4
<1>6. QED
  BY <1>3, <1>4, <1>5 DEF n, e

\* A hole is a sequence of bytes.
LEMMA ZerosFacts ==
  ASSUME NEW n \in Nat
  PROVE  /\ Zeros(n) \in Seq(Byte) /\ Len(Zeros(n)) = n
         /\ \A i \in 1 .. n : Zeros(n)[i] = 0
BY DEF Zeros, Byte

\* What is written at the end of a file is appended to it.
LEMMA PutAtEnd ==
  ASSUME NEW s \in Seq(Byte), NEW b \in Seq(Byte)
  PROVE  PutAt(s, Len(s), b) = s \o b
<1>0. Len(s) \in Nat /\ Len(b) \in Nat
  BY LenProperties
<1>1. PICK t \in Seq(Byte) :
        /\ t = PutAt(s, Len(s), b)
        /\ Len(t) = Max2(Len(s), Len(s) + Len(b))
        /\ \A i \in 1 .. Len(t) :
             t[i] = IF Len(s) < i /\ i <= Len(s) + Len(b) THEN b[i - Len(s)]
                    ELSE IF i <= Len(s) THEN s[i] ELSE 0
  BY <1>0, PutAtFacts
<1>2. Len(t) = Len(s) + Len(b)
  BY <1>0, <1>1 DEF Max2
<1>3. \A i \in 1 .. Len(s) : t[i] = s[i]
  BY <1>0, <1>1, <1>2
<1>4. ASSUME NEW i \in 1 .. Len(b) PROVE t[Len(s) + i] = b[i]
  <2>1. Len(s) + i \in 1 .. Len(t) /\ (Len(s) + i) - Len(s) = i
    BY <1>0, <1>2
  <2>2. QED
    BY <1>0, <1>1, <2>1
<1>5. s \o b = t
  BY <1>2, <1>3, <1>4, Joined
<1>6. QED
  BY <1>1, <1>5

\* What is written beyond the end of an empty file comes after a hole.
LEMMA PutAtHole ==
  ASSUME NEW s \in Seq(Byte), Len(s) = 0, NEW p \in Nat, NEW b \in Seq(Byte)
  PROVE  PutAt(s, p, b) = Zeros(p) \o b
<1>0. Len(b) \in Nat
  BY LenProperties
<1>1. PICK t \in Seq(Byte) :
        /\ t = PutAt(s, p, b)
        /\ Len(t) = Max2(Len(s), p + Len(b))
        /\ \A i \in 1 .. Len(t) :
             t[i] = IF p < i /\ i <= p + Len(b) THEN b[i - p]
                    ELSE IF i <= Len(s) THEN s[i] ELSE 0
  BY PutAtFacts, ZenonT(60)
<1>2. PICK z \in Seq(Byte) :
        z = Zeros(p) /\ Len(z) = p /\ \A i \in 1 .. p : z[i] = 0
  BY ZerosFacts
<1>3. Len(t) = Len(z) + Len(b)
  BY <1>0, <1>1, <1>2 DEF Max2
<1>4. \A i \in 1 .. Len(z) : t[i] = z[i]
  <2> TAKE i \in 1 .. Len(z)
  <2>1. i \in 1 .. p /\ i \in 1 .. Len(t) /\ ~(p < i) /\ ~(i <= Len(s))
    BY <1>0, <1>2, <1>3
  <2>2. QED
    BY <1>1, <1>2, <2>1
<1>5. \A i \in 1 .. Len(b) : t[Len(z) + i] = b[i]
  <2> TAKE i \in 1 .. Len(b)
  <2>1. p + i \in 1 .. Len(t) /\ (p + i) - p = i /\ p < p + i /\ p + i <= p + Len(b)
    BY <1>0, <1>2, <1>3
  <2>2. QED
    BY <1>0, <1>1, <1>2, <2>1
<1>6. z \o b = t
  BY <1>3, <1>4, <1>5, Joined
<1>7. QED
  BY <1>1, <1>2, <1>6

\* Concatenation of bytes is associative.
LEMMA ConcatAssociativeBytes ==
  ASSUME NEW a \in Seq(Byte), NEW b \in Seq(Byte), NEW c \in Seq(Byte)
  PROVE  (a \o b) \o c = a \o (b \o c)
BY ConcatAssociative

\* The first t bytes and those that follow up to k.
LEMMA HeadGrows ==
  ASSUME NEW s \in Seq(Byte), NEW t \in Nat, NEW k \in Nat, t <= k, k <= Len(s)
  PROVE  SubSeq(s, 1, k) = SubSeq(s, 1, t) \o SubSeq(s, t + 1, k)
<1>0. Len(s) \in Nat
  BY LenProperties
<1>1. PICK p \in Nat, m \in Nat : p = 0 /\ k = t + m
  <2>1. k - t \in Nat /\ k = t + (k - t) /\ 0 \in Nat
    OBVIOUS
  <2>2. QED
    BY <2>1
<1>2. p + t + m <= Len(s)
  BY <1>0, <1>1
<1>3. Slice(s, p, t) \o Slice(s, p + t, m) = Slice(s, p, t + m)
  BY <1>2, SliceAppend
<1>4. /\ Slice(s, p, t) = SubSeq(s, 1, t)
      /\ Slice(s, p + t, m) = SubSeq(s, t + 1, k)
      /\ Slice(s, p, t + m) = SubSeq(s, 1, k)
  BY <1>0, <1>1 DEF Slice, Min2
<1>5. QED
  BY <1>3, <1>4

\* A block of the bytes of an upload is a sequence of bytes.
LEMMA BlockBytes ==
  ASSUME NEW s \in Seq(Byte), NEW t \in Nat, NEW k \in Nat, k <= Len(s)
  PROVE  SubSeq(s, t + 1, k) \in Seq(Byte)
<1>1. t + 1 \in Int /\ k \in Int
  OBVIOUS
<1>2. \A i \in t + 1 .. k : s[i] \in Byte
  <2> TAKE i \in t + 1 .. k
  <2>1. i \in 1 .. Len(s)
    BY LenProperties
  <2>2. QED
    BY <2>1, ElementOfSeq
<1>3. QED
  BY <1>1, <1>2, SubSeqProperties

\* e begins with d.
Extends(e, d) == Len(d) <= Len(e) /\ \A i \in 1 .. Len(d) : e[i] = d[i]

\* A concatenation begins with its first part.
LEMMA ConcatExtends ==
  ASSUME NEW d \in Seq(Byte), NEW b \in Seq(Byte)
  PROVE  Extends(d \o b, d)
<1>1. Len(d) \in Nat /\ Len(b) \in Nat
  BY LenProperties
<1>2. /\ Len(d \o b) = Len(d) + Len(b)
      /\ \A i \in 1 .. Len(d) + Len(b) :
           (d \o b)[i] = IF i <= Len(d) THEN d[i] ELSE b[i - Len(d)]
  BY ConcatProperties
<1>3. ASSUME NEW i \in 1 .. Len(d) PROVE (d \o b)[i] = d[i]
  <2>1. i \in 1 .. Len(d) + Len(b) /\ i <= Len(d)
    BY <1>1
  <2>2. QED
    BY <1>2, <2>1
<1>4. Len(d) <= Len(d \o b)
  BY <1>1, <1>2
<1>5. QED
  BY <1>3, <1>4 DEF Extends

\* What has been read of a file does not change when it grows at its end.
LEMMA SliceOfLonger ==
  ASSUME NEW s \in Seq(Byte), NEW t \in Seq(Byte), NEW p \in Nat, NEW n \in Nat,
         p + n <= Len(s), Extends(t, s)
  PROVE  Slice(t, p, n) = Slice(s, p, n)
<1>1. PICK a \in Seq(Byte) :
        /\ a = Slice(s, p, n) /\ Len(a) = n
        /\ \A i \in 1 .. n : a[i] = s[p + i]
  BY SliceInside
<1>2. PICK b \in Seq(Byte) :
        /\ b = Slice(t, p, n) /\ Len(b) = n
        /\ \A i \in 1 .. n : b[i] = t[p + i]
  <2>1. p + n <= Len(t)
    BY LenProperties DEF Extends
  <2>2. QED
    BY <2>1, SliceInside
<1>3. ASSUME NEW i \in 1 .. n
      PROVE  a[i] = b[i]
  <2>1. p + i \in 1 .. Len(s)
    BY LenProperties
  <2>2. t[p + i] = s[p + i]
    BY <2>1 DEF Extends
  <2>3. QED
    BY <1>1, <1>2, <2>2
<1>4. a = b
  BY <1>1, <1>2, <1>3, SeqEqual
<1>5. QED
  BY <1>1, <1>2, <1>4

\* What a file holds when t of the bytes s have been stored after a hole of c.
Holds(s, c, t) == IF t = 0 THEN <<>> ELSE Zeros(c) \o SubSeq(s, 1, t)

\* One turn of an upload: of the bytes s of the client t have been stored after
\* a hole of c, and those up to k are written at the position; the file grows
\* at its end only.
LEMMA UploadGrows ==
  ASSUME NEW s \in Seq(Byte), NEW c \in Nat, NEW t \in Nat, NEW k \in Nat,
         t < k, k <= Len(s), Holds(s, c, t) \in Seq(Byte)
  PROVE  LET e == PutAt(Holds(s, c, t), c + t, SubSeq(s, t + 1, k)) IN
         /\ e = Holds(s, c, k)
         /\ Extends(e, Holds(s, c, t))
<1> DEFINE d == Holds(s, c, t)
           b == SubSeq(s, t + 1, k)
           o == c + t
<1>0. /\ d = Holds(s, c, t) /\ d \in Seq(Byte)
      /\ b = SubSeq(s, t + 1, k) /\ b \in Seq(Byte)
      /\ o = c + t /\ o \in Nat
  BY BlockBytes
<1> HIDE DEF d, b, o
<1>1. PICK h \in Seq(Byte) : h = SubSeq(s, 1, t) /\ Len(h) = t
  <2>1. t <= Len(s) /\ 0 + t <= Len(s) /\ Len(s) \in Nat
    BY LenProperties
  <2>2. Slice(s, 0, t) = SubSeq(s, 1, t)
    BY <2>1 DEF Slice, Min2
  <2>3. QED
    BY <2>1, <2>2, SliceInside
<1>2. SubSeq(s, 1, k) = h \o b
  <2>1. SubSeq(s, 1, k) = SubSeq(s, 1, t) \o SubSeq(s, t + 1, k)
    BY HeadGrows
  <2>2. QED
    BY <1>0, <1>1, <2>1
<1>3. PICK z \in Seq(Byte) : z = Zeros(c) /\ Len(z) = c
  BY ZerosFacts
<1>4. PICK e : e = PutAt(d, o, b)
  OBVIOUS
<1>5. ASSUME t = 0 PROVE e = Zeros(c) \o SubSeq(s, 1, k) /\ Extends(e, d)
  <2>1. h = <<>> /\ h \o b = b
    BY <1>0, <1>1, <1>5, EmptySeq, ConcatEmptySeq
  <2>2. d = <<>> /\ Len(d) = 0 /\ o = c
    BY <1>0, <1>5, EmptySeq DEF Holds
  <2>3. PutAt(d, c, b) = Zeros(c) \o b
    BY <1>0, <2>2, PutAtHole, ZenonT(60)
  <2>4. e = z \o b
    BY <1>3, <1>4, <2>2, <2>3
  <2>5. z \o b \in Seq(Byte)
    BY <1>0, ConcatProperties
  <2>6. Extends(e, d)
    <3>1. Len(e) \in Nat
      BY <2>4, <2>5, LenProperties
    <3>2. QED
      BY <2>2, <3>1 DEF Extends
  <2>7. e = Zeros(c) \o SubSeq(s, 1, k)
    BY <1>2, <1>3, <2>1, <2>4
  <2>8. QED
    BY <2>6, <2>7
<1>6. ASSUME t # 0 PROVE e = Zeros(c) \o SubSeq(s, 1, k) /\ Extends(e, d)
  <2>1. d = z \o h
    BY <1>0, <1>1, <1>3, <1>6 DEF Holds
  <2>2. Len(z \o h) = Len(z) + Len(h)
    BY ConcatProperties
  <2>3. o = Len(d)
    BY <1>0, <1>1, <1>3, <2>1, <2>2
  <2>4. PutAt(d, Len(d), b) = d \o b
    BY <1>0, PutAtEnd
  <2>5. e = d \o b
    BY <1>4, <2>3, <2>4
  <2>6. (z \o h) \o b = z \o (h \o b)
    BY <1>0, ConcatAssociativeBytes, ZenonT(60)
  <2>7. Extends(d \o b, d)
    BY <1>0, ConcatExtends
  <2>8. e = Zeros(c) \o SubSeq(s, 1, k)
    BY <1>2, <1>3, <2>1, <2>5, <2>6
  <2>9. QED
    BY <2>5, <2>7, <2>8
<1>7. e = Zeros(c) \o SubSeq(s, 1, k) /\ Extends(e, d)
  BY <1>5, <1>6
<1>8. e = Holds(s, c, k)
  BY <1>7 DEF Holds
<1>9. QED
  BY <1>4, <1>7, <1>8 DEF d, b, o

\* One turn of a download: what has been sent of the file s from c on is
\* followed by the next block.
LEMMA DownloadGrows ==
  ASSUME NEW s \in Seq(Byte), NEW c \in Nat, NEW o \in Nat, c <= o,
         NEW n \in Nat \ {0}, Slice(s, o, n) # <<>>
  PROVE  LET b == Slice(s, o, n) IN
         /\ b \in Seq(Byte) /\ Len(b) \in Nat /\ o + Len(b) <= Len(s)
         /\ SubSeq(b, 1, Len(b)) = b
         /\ Slice(s, c, o - c) \o b = Slice(s, c, o + Len(b) - c)
<1> DEFINE b == Slice(s, o, n)
<1>1. PICK m \in 1 .. n : o + m <= Len(s) /\ b = Slice(s, o, m)
  BY SliceBytes
<1> HIDE DEF b
<1>2. b \in Seq(Byte) /\ Len(b) = m
  BY <1>1, SliceInside
<1>3. Slice(s, c, o - c) \o b = Slice(s, c, o + Len(b) - c)
  <2>1. /\ o - c \in Nat /\ m \in Nat /\ c + (o - c) = o
        /\ c + (o - c) + m <= Len(s)
        /\ (o - c) + m = o + Len(b) - c
    BY <1>1, <1>2, LenProperties
  <2>2. PICK k \in Nat : k = o - c /\ c + k = o
    BY <2>1
  <2>3. c + k + m <= Len(s)
    BY <2>1, <2>2
  <2>4. Slice(s, c, k) \o Slice(s, c + k, m) = Slice(s, c, k + m)
    <3>1. m \in Nat
      BY <2>1, Zenon
    <3>2. QED
      BY <2>3, <3>1, SliceAppend, SMTT(60)
  <2>5. k + m = o + Len(b) - c
    BY <2>1, <2>2
  <2>6. QED
    BY <1>1, <2>2, <2>4, <2>5
<1>4. SubSeq(b, 1, Len(b)) = b
  BY <1>2, SubSeqFull
<1>5. Len(b) \in Nat /\ o + Len(b) <= Len(s)
  BY <1>1, <1>2
<1>6. QED
  BY <1>2, <1>3, <1>4, <1>5 DEF b

\* A download that has come to the end of the file has sent the rest of it.
LEMMA DownloadEnds ==
  ASSUME NEW s \in Seq(Byte), NEW c \in Nat, NEW o \in Nat, c <= o,
         o = c \/ o <= Len(s), Len(s) <= o
  PROVE  Slice(s, c, o - c) = Slice(s, c, Len(s))
<1>0. Len(s) \in Nat
  BY LenProperties
<1>1. Slice(s, c, Len(s)) = IF c <= Len(s) THEN Slice(s, c, Len(s) - c) ELSE <<>>
  BY <1>0, SliceBeyond
<1>2. CASE o <= Len(s)
  <2>1. o = Len(s) /\ c <= Len(s)
    BY <1>0, <1>2
  <2>2. QED
    BY <1>1, <2>1
<1>3. CASE o = c
  <2>1. o - c = 0 /\ Slice(s, c, 0) = <<>>
    BY <1>3, EmptySlice
  <2>2. c <= Len(s) => Len(s) - c = 0
    BY <1>0, <1>3
  <2>3. QED
    BY <1>1, <2>1, <2>2
<1>4. QED
  BY <1>2, <1>3

-----------------------------------------------------------------------------
(* The inductive invariant *)

\* The local state of p fits the place it is in.
ProcOK(p) ==
  /\ phase[p] # "xfer" => stream[p] = <<>>
  /\ Busy(p) => /\ fd[p] \in Inodes
                /\ currentPos[p] \in Nat
                /\ currentPos[p] <= off[p]
  /\ phase[p] = "dial" => off[p] = currentPos[p]
  /\ Running(p, "STOR") => Taken(p) <= Len(stream[p])

\* What sole promises: those who write the file of p are themselves undisturbed,
\* and an upload is the only one of them.
SoleOK(p) ==
  Busy(p) /\ sole[p] =>
    \A q \in Writers(fd[p]) : sole[q] /\ (cmd[p] = "STOR" => q = p)

\* RetrieveFaithful of p, with what bounds the position.
Sent(p) ==
  Running(p, "RETR") /\ sole[p] /\ ~cut[p] =>
    /\ stream[p] = Slice(data[fd[p]], currentPos[p], off[p] - currentPos[p])
    /\ off[p] = currentPos[p] \/ off[p] <= Len(data[fd[p]])

\* StoreFaithful of p.
Stored(p) ==
  Busy(p) /\ cmd[p] = "STOR" /\ sole[p] =>
    data[fd[p]] = IF Taken(p) = 0 THEN <<>>
                  ELSE Zeros(currentPos[p]) \o SubSeq(stream[p], 1, Taken(p))

Good(p) == ProcOK(p) /\ SoleOK(p) /\ Sent(p) /\ Stored(p)

IInv == TypeOK /\ \A p \in Procs : Good(p)

\* The step does not touch what q has open, where it is and what it has moved.
Apart(q) ==
  /\ phase'[q] = phase[q] /\ cmd'[q] = cmd[q] /\ currentPos'[q] = currentPos[q]
  /\ fd'[q] = fd[q] /\ off'[q] = off[q] /\ stream'[q] = stream[q] /\ cut'[q] = cut[q]

\* The writers of the file of q are no others than before, and as undisturbed.
NoNewWriter(q) ==
  \A r \in Procs :
    r \in Writers(fd[q])' => r \in Writers(fd[q]) /\ (sole[r] => sole'[r])

\* A process that a step leaves alone, its file included, stays good.
LEMMA ApartGood ==
  ASSUME NEW q \in Procs, Good(q), Apart(q), sole'[q] => sole[q],
         Busy(q) /\ sole'[q] => data'[fd[q]] = data[fd[q]] /\ NoNewWriter(q)
  PROVE  Good(q)'
<1>1. ProcOK(q)'
  BY DEF Good, ProcOK, Apart, Busy, Running, Taken
<1>2. SoleOK(q)'
  <2> SUFFICES ASSUME Busy(q)', sole'[q]
               PROVE  \A r \in Writers(fd[q])' : sole'[r] /\ (cmd'[q] = "STOR" => r = q)
    BY DEF SoleOK, Apart, Busy
  <2>1. Busy(q) /\ sole[q]
    BY DEF Apart, Busy
  <2>2. \A r \in Writers(fd[q]) : sole[r] /\ (cmd[q] = "STOR" => r = q)
    BY <2>1 DEF Good, SoleOK
  <2>3. NoNewWriter(q) /\ \A r \in Writers(fd[q])' : r \in Procs
    BY <2>1 DEF Writers, Users
  <2>4. QED
    BY <2>2, <2>3 DEF NoNewWriter, Apart
<1>3. Sent(q)'
  <2> SUFFICES ASSUME Running(q, "RETR")', sole'[q], ~cut'[q]
               PROVE  /\ stream'[q] = Slice(data'[fd'[q]], currentPos'[q],
                                            off'[q] - currentPos'[q])
                      /\ off'[q] = currentPos'[q] \/ off'[q] <= Len(data'[fd'[q]])
    BY DEF Sent
  <2>1. Running(q, "RETR") /\ sole[q] /\ ~cut[q] /\ Busy(q)
    BY DEF Apart, Running, Busy
  <2>2. data'[fd'[q]] = data[fd[q]]
    BY <2>1 DEF Apart
  <2>3. QED
    BY <2>1, <2>2 DEF Good, Sent, Apart
<1>4. Stored(q)'
  <2> SUFFICES ASSUME Busy(q)', cmd'[q] = "STOR", sole'[q]
               PROVE  data'[fd'[q]] =
                        IF Taken(q)' = 0 THEN <<>>
                        ELSE Zeros(currentPos'[q]) \o SubSeq(stream'[q], 1, Taken(q)')
    BY DEF Stored
  <2>1. Busy(q) /\ cmd[q] = "STOR" /\ sole[q] /\ Taken(q)' = Taken(q)
    BY DEF Apart, Busy, Taken
  <2>2. data'[fd'[q]] = data[fd[q]]
    BY <2>1 DEF Apart
  <2>3. QED
    BY <2>1, <2>2 DEF Good, Stored, Apart
<1>5. QED
  BY <1>1, <1>2, <1>3, <1>4 DEF Good

\* A process without a transfer has nothing to promise.
LEMMA IdleGood ==
  ASSUME NEW p \in Procs, phase'[p] \in {"ready", "dead"}, stream'[p] = <<>>
  PROVE  Good(p)'
BY DEF Good, ProcOK, SoleOK, Sent, Stored, Busy, Running

\* Steps that end a transfer or concern none: the process that takes the step
\* is idle after it, the bytes stay, and nobody begins to write.
LEMMA QuietKeeps ==
  ASSUME IInv, TypeOK', NEW p \in Procs,
         phase'[p] \in {"ready", "dead"}, stream'[p] = <<>>,
         data' = data,
         \A q \in Procs \ {p} : Apart(q) /\ sole'[q] = sole[q]
  PROVE  IInv'
<1>1. Good(p)'
  BY IdleGood
<1>2. ASSUME NEW q \in Procs \ {p}
      PROVE  Good(q)'
  <2>1. Good(q) /\ Apart(q) /\ sole'[q] = sole[q]
    BY DEF IInv
  <2>2. ASSUME NEW r \in Procs, r \in Writers(fd[q])'
        PROVE  r \in Writers(fd[q]) /\ (sole[r] => sole'[r])
    <3>1. r # p /\ Busy(r)' /\ fd'[r] = fd'[q] /\ cmd'[r] = "STOR"
      BY <2>2 DEF Writers, Users, Busy
    <3>2. Apart(r) /\ sole'[r] = sole[r]
      BY <3>1
    <3>3. QED
      BY <2>1, <3>1, <3>2 DEF Writers, Users, Busy, Apart
  <2>3. NoNewWriter(q)
    BY <2>2 DEF NoNewWriter
  <2>4. QED
    BY <2>1, <2>3, ApartGood
<1>3. QED
  BY <1>1, <1>2 DEF IInv

-----------------------------------------------------------------------------
(* Types *)

\* What a file holds at the start is bytes.
LEMMA InitTypes ==
  Init => TypeOK
<1> SUFFICES ASSUME Init PROVE TypeOK
  OBVIOUS
<1>1. <<>> \in Seq(Byte)
  BY EmptySeq
<1>2. data \in [Inodes -> Seq(Byte)]
  BY <1>1, ContentsAssumption DEF Init
<1>3. stream \in [Procs -> Seq(Byte)]
  BY <1>1 DEF Init
<1>4. dir \in [Names -> Inodes \cup {NoIno}]
  BY DEF Init
<1>5. currentPos \in [Procs -> Offsets]
  BY OffsetsAssumption DEF Init
<1>6. QED
  BY <1>2, <1>3, <1>4, <1>5 DEF Init, TypeOK

\* A step of a process leaves the fields of the others as they are.
OthersApart(p) == \A q \in Procs \ {p} : Apart(q)

\* What the end of a transfer leaves: types, an idle process, nothing of it in
\* the others.
LEMMA LeaveFacts ==
  ASSUME TypeOK, NEW p \in Procs, NEW mode \in BOOLEAN, Leave(p, mode)
  PROVE  /\ phase' \in [Procs -> {"ready", "dial", "xfer", "dead"}]
         /\ cmd' \in [Procs -> {"RETR", "STOR", "none"}]
         /\ currentPos' \in [Procs -> Offsets]
         /\ selected' \in [Procs -> BOOLEAN]
         /\ rnfrName' \in [Procs -> Names \cup {NULL}]
         /\ fd' \in [Procs -> Inodes \cup {NoIno}]
         /\ off' \in [Procs -> Nat]
         /\ stream' \in [Procs -> Seq(Byte)]
         /\ cut' \in [Procs -> BOOLEAN]
         /\ phase'[p] = "ready" /\ stream'[p] = <<>>
         /\ OthersApart(p)
<1>1. <<>> \in Seq(Byte)
  BY EmptySeq
<1>2. QED
  BY <1>1 DEF Leave, TypeOK, OthersApart, Apart

\* The same of a handler that goes on to the data connection.
LEMMA SeekFacts ==
  ASSUME TypeOK, NEW p \in Procs, NEW i \in Inodes, NEW title \in {"RETR", "STOR"},
         currentPos[p] >= 0, SeekTo(p, i, title)
  PROVE  /\ phase' \in [Procs -> {"ready", "dial", "xfer", "dead"}]
         /\ cmd' \in [Procs -> {"RETR", "STOR", "none"}]
         /\ currentPos' \in [Procs -> Offsets]
         /\ selected' \in [Procs -> BOOLEAN]
         /\ rnfrName' \in [Procs -> Names \cup {NULL}]
         /\ fd' \in [Procs -> Inodes \cup {NoIno}]
         /\ off' \in [Procs -> Nat]
         /\ stream' \in [Procs -> Seq(Byte)]
         /\ cut' \in [Procs -> BOOLEAN]
         /\ phase'[p] = "dial" /\ cmd'[p] = title /\ fd'[p] = i
         /\ off'[p] = currentPos[p] /\ currentPos'[p] = currentPos[p]
         /\ currentPos[p] \in Nat /\ stream'[p] = stream[p]
         /\ OthersApart(p)
<1>1. currentPos[p] \in Nat
  <2>1. currentPos[p] \in Offsets
    BY DEF TypeOK
  <2>2. currentPos[p] \in Int
    BY <2>1, OffsetsAssumption
  <2>3. QED
    BY <2>2
<1>2. QED
  BY <1>1 DEF SeekTo, ctl, TypeOK, OthersApart, Apart

-----------------------------------------------------------------------------
(* The steps that move no bytes *)

\* The end of a transfer.
LEMMA OverKeeps ==
  ASSUME IInv, NEW p \in Procs, NEW mode \in BOOLEAN, Over(p, mode)
  PROVE  IInv'
<1>1. TypeOK /\ Leave(p, mode) /\ data' = data /\ dir' = dir
      /\ sole' = [sole EXCEPT ![p] = TRUE]
  BY DEF IInv, Over, fs
<1>2. TypeOK'
  BY <1>1, LeaveFacts DEF TypeOK
<1>3. \A q \in Procs \ {p} : Apart(q) /\ sole'[q] = sole[q]
  BY <1>1, LeaveFacts DEF TypeOK, OthersApart
<1>4. phase'[p] \in {"ready", "dead"} /\ stream'[p] = <<>>
  BY <1>1, LeaveFacts
<1>5. QED
  BY <1>1, <1>2, <1>3, <1>4, QuietKeeps

\* Commands between transfers, which change names, offset, mode or the pending
\* name.
LEMMA BetweenKeeps ==
  ASSUME IInv, NEW p \in Procs, phase[p] = "ready", TypeOK',
         UNCHANGED <<data, phase, cmd, loc, hist>>,
         \A q \in Procs \ {p} : currentPos'[q] = currentPos[q]
  PROVE  IInv'
<1>1. phase'[p] \in {"ready", "dead"}
  OBVIOUS
<1>2. stream'[p] = <<>>
  BY DEF IInv, Good, ProcOK, loc
<1>3. \A q \in Procs \ {p} : Apart(q) /\ sole'[q] = sole[q]
  BY DEF Apart, loc, hist
<1>4. QED
  BY <1>1, <1>2, <1>3, QuietKeeps

\* Commands between transfers keep the invariant.
LEMMA PlainKeeps ==
  ASSUME IInv, NEW p \in Procs,
         \/ cmd_rest(p)
         \/ SelectMode(p)
         \/ \E n \in Names : cmd_dele(p, n) \/ cmd_rnfr(p, n) \/ cmd_rnto(p, n)
  PROVE  IInv'
<1>1. CASE cmd_rest(p)
  <2>1. TypeOK'
    BY <1>1 DEF cmd_rest, IInv, TypeOK, fs, loc, hist
  <2>2. \A q \in Procs \ {p} : currentPos'[q] = currentPos[q]
    BY <1>1 DEF cmd_rest, IInv, TypeOK
  <2>3. QED
    BY <1>1, <2>1, <2>2, BetweenKeeps DEF cmd_rest, Plain, fs
<1>2. CASE SelectMode(p)
  <2>1. TypeOK'
    BY <1>2 DEF SelectMode, IInv, TypeOK, fs, loc, hist
  <2>2. QED
    BY <1>2, <2>1, BetweenKeeps DEF SelectMode, Plain, fs
<1>3. ASSUME NEW n \in Names, cmd_dele(p, n)
      PROVE  IInv'
  <2>1. TypeOK'
    BY <1>3 DEF cmd_dele, IInv, TypeOK, ctl, loc, hist
  <2>2. QED
    BY <1>3, <2>1, BetweenKeeps DEF cmd_dele, Plain, ctl
<1>4. ASSUME NEW n \in Names, cmd_rnfr(p, n)
      PROVE  IInv'
  <2>1. TypeOK'
    BY <1>4 DEF cmd_rnfr, IInv, TypeOK, fs, loc, hist
  <2>2. QED
    BY <1>4, <2>1, BetweenKeeps DEF cmd_rnfr, Plain, fs
<1>5. ASSUME NEW n \in Names, cmd_rnto(p, n)
      PROVE  IInv'
  <2>1. dir' \in [Names -> Inodes \cup {NoIno}]
    <3>1. rnfrName[p] \in Names
      BY <1>5 DEF cmd_rnto, IInv, TypeOK
    <3>2. QED
      BY <1>5, <3>1 DEF cmd_rnto, Renamed, IInv, TypeOK
  <2>2. rnfrName' \in [Procs -> Names \cup {NULL}]
    BY <1>5 DEF cmd_rnto, IInv, TypeOK
  <2>3. TypeOK'
    BY <1>5, <2>1, <2>2 DEF cmd_rnto, IInv, TypeOK, loc, hist
  <2>4. QED
    BY <1>5, <2>3, BetweenKeeps DEF cmd_rnto
<1>6. QED
  BY <1>1, <1>2, <1>3, <1>4, <1>5

\* The end of a process and the start of the next.
LEMMA DieKeeps ==
  ASSUME IInv, NEW p \in Procs, Die(p)
  PROVE  IInv'
<1>1. <<>> \in Seq(Byte) /\ 0 \in Offsets
  BY EmptySeq, OffsetsAssumption
<1>2. TypeOK'
  BY <1>1 DEF Die, fs, IInv, TypeOK
<1>3. \A q \in Procs \ {p} : Apart(q) /\ sole'[q] = sole[q]
  BY DEF Die, IInv, TypeOK, Apart
<1>4. phase'[p] \in {"ready", "dead"} /\ stream'[p] = <<>> /\ data' = data
  BY DEF Die, fs, IInv, TypeOK
<1>5. QED
  BY <1>2, <1>3, <1>4, QuietKeeps

\* A new process has no transfer.
LEMMA StartKeeps ==
  ASSUME IInv, NEW p \in Procs, Start(p)
  PROVE  IInv'
<1>1. TypeOK'
  BY DEF Start, fs, ctl, loc, hist, IInv, TypeOK
<1>2. \A q \in Procs \ {p} : Apart(q) /\ sole'[q] = sole[q]
  BY DEF Start, IInv, TypeOK, Apart, ctl, loc, hist
<1>3. phase'[p] \in {"ready", "dead"} /\ data' = data
  BY DEF Start, fs, IInv, TypeOK
<1>4. stream'[p] = <<>>
  BY DEF Start, loc, IInv, Good, ProcOK
<1>5. QED
  BY <1>1, <1>2, <1>3, <1>4, QuietKeeps

-----------------------------------------------------------------------------
(* The steps that open a file or move bytes *)

\* When p changes no bytes and no history but its own, and either writes
\* nothing or wrote the same file before, the others stay good.
LEMMA OthersKeep ==
  ASSUME IInv, NEW p \in Procs, OthersApart(p), data' = data,
         \A q \in Procs \ {p} : sole'[q] = sole[q],
         \/ ~(Busy(p)' /\ cmd'[p] = "STOR")
         \/ /\ Busy(p) /\ cmd[p] = "STOR" /\ fd'[p] = fd[p]
            /\ sole'[p] = sole[p]
  PROVE  \A q \in Procs \ {p} : NoNewWriter(q) /\ Good(q)'
<1> SUFFICES ASSUME NEW q \in Procs \ {p}
             PROVE  NoNewWriter(q) /\ Good(q)'
  OBVIOUS
<1>1. Good(q) /\ Apart(q) /\ sole'[q] = sole[q]
  BY DEF IInv, OthersApart
<1>2. ASSUME NEW r \in Procs, r \in Writers(fd[q])'
      PROVE  r \in Writers(fd[q]) /\ (sole[r] => sole'[r])
  <2>1. Busy(r)' /\ fd'[r] = fd[q] /\ cmd'[r] = "STOR"
    BY <1>1, <1>2 DEF Writers, Users, Apart
  <2>2. CASE r = p
    BY <2>1, <2>2 DEF Writers, Users
  <2>3. CASE r # p
    BY <2>1, <2>3 DEF Writers, Users, Busy, Apart, OthersApart
  <2>4. QED
    BY <2>2, <2>3
<1>3. NoNewWriter(q)
  BY <1>2 DEF NoNewWriter
<1>4. QED
  BY <1>1, <1>3, ApartGood

\* RETR opens a file that is there; it is disturbed from the start when one of
\* its writers is.
LEMMA OpenKeeps ==
  ASSUME IInv, NEW p \in Procs, NEW n \in Names,
         Selected(p), dir[n] # NoIno, currentPos[p] >= 0,
         SeekTo(p, dir[n], "RETR"),
         sole' = [sole EXCEPT ![p] = \A q \in Writers(dir[n]) : sole[q]],
         UNCHANGED fs
  PROVE  IInv'
<1> DEFINE i == dir[n]
<1>1. TypeOK /\ i \in Inodes /\ data' = data /\ dir' = dir
  BY DEF IInv, TypeOK, fs
<1> HIDE DEF i
<1>2. SeekTo(p, i, "RETR") /\ sole' = [sole EXCEPT ![p] = \A q \in Writers(i) : sole[q]]
  BY DEF i
<1>3. TypeOK'
  <2>1. sole' \in [Procs -> BOOLEAN]
    BY <1>1, <1>2 DEF TypeOK
  <2>2. QED
    BY <1>1, <1>2, <2>1, SeekFacts DEF TypeOK
<1>4. OthersApart(p) /\ cmd'[p] = "RETR" /\ phase'[p] = "dial" /\ fd'[p] = i
  BY <1>1, <1>2, SeekFacts
<1>5. \A q \in Procs \ {p} : sole'[q] = sole[q]
  BY <1>1, <1>2 DEF TypeOK
<1>6. \A q \in Procs \ {p} : Good(q)'
  BY <1>1, <1>4, <1>5, OthersKeep
<1>7. ProcOK(p)'
  <2>1. stream[p] = <<>>
    BY DEF Selected, IInv, Good, ProcOK
  <2>2. QED
    BY <1>1, <1>2, <2>1, SeekFacts DEF ProcOK, Busy, Running
<1>8. SoleOK(p)'
  <2> SUFFICES ASSUME sole'[p], NEW r \in Writers(fd[p])'
               PROVE  sole'[r]
    BY <1>4 DEF SoleOK
  <2>1. r \in Procs /\ Busy(r)' /\ fd'[r] = i /\ cmd'[r] = "STOR"
    BY <1>4 DEF Writers, Users
  <2>2. r # p
    BY <1>4, <2>1
  <2>3. r \in Writers(i)
    BY <1>4, <2>1, <2>2 DEF Writers, Users, Busy, Apart, OthersApart
  <2>4. \A q \in Writers(i) : sole[q]
    BY <1>1, <1>2 DEF TypeOK
  <2>5. QED
    BY <1>5, <2>1, <2>2, <2>3, <2>4
<1>9. Sent(p)' /\ Stored(p)'
  BY <1>4 DEF Sent, Stored, Running
<1>10. QED
  BY <1>3, <1>6, <1>7, <1>8, <1>9 DEF IInv, Good

\* STOR empties the file and is alone in it, unless somebody is writing; those
\* who have it open are disturbed.
LEMMA CreateKeeps ==
  ASSUME IInv, NEW p \in Procs, NEW n \in Names, NEW i \in Inodes,
         Selected(p),
         dir' = [dir EXCEPT ![n] = i],
         Emptied(i),
         IF currentPos[p] < 0 THEN Leave(p, FALSE) ELSE SeekTo(p, i, "STOR"),
         sole' = [q \in Procs |-> IF q = p THEN Writers(i) = {}
                                  ELSE sole[q] /\ q \notin Users(i)]
  PROVE  IInv'
<1>1. /\ TypeOK /\ data' = [data EXCEPT ![i] = <<>>]
      /\ <<>> \in Seq(Byte) /\ FALSE \in BOOLEAN /\ stream[p] = <<>>
  BY EmptySeq DEF IInv, Emptied, Selected, Good, ProcOK
<1>2. /\ dir' \in [Names -> Inodes \cup {NoIno}]
      /\ data' \in [Inodes -> Seq(Byte)]
      /\ sole' \in [Procs -> BOOLEAN]
  BY <1>1 DEF TypeOK
<1>3. OthersApart(p) /\ TypeOK'
  <2>1. CASE currentPos[p] < 0
    BY <1>1, <1>2, <2>1, LeaveFacts DEF TypeOK
  <2>2. CASE ~(currentPos[p] < 0)
    <3>1. currentPos[p] >= 0
      <4>1. currentPos[p] \in Offsets
        BY <1>1 DEF TypeOK
      <4>2. currentPos[p] \in Int
        BY <4>1, OffsetsAssumption
      <4>3. QED
        BY <2>2, <4>2
    <3>2. SeekTo(p, i, "STOR")
      BY <2>2
    <3>3. QED
      BY <1>1, <1>2, <3>1, <3>2, SeekFacts DEF TypeOK
  <2>3. QED
    BY <2>1, <2>2
<1>4. ~Busy(p)
  BY DEF Selected, Busy
<1>5. ASSUME NEW q \in Procs \ {p}
      PROVE  Good(q)'
  <2>1. Good(q) /\ Apart(q) /\ (sole'[q] => sole[q] /\ q \notin Users(i))
    BY <1>3 DEF IInv, OthersApart
  <2>2. ASSUME Busy(q), sole'[q]
        PROVE  data'[fd[q]] = data[fd[q]] /\ NoNewWriter(q)
    <3>1. fd[q] # i /\ fd[q] \in Inodes
      BY <2>1, <2>2 DEF Users, Good, ProcOK
    <3>2. data'[fd[q]] = data[fd[q]]
      BY <1>1, <3>1 DEF TypeOK
    <3>3. ASSUME NEW r \in Procs, r \in Writers(fd[q])'
          PROVE  r \in Writers(fd[q]) /\ (sole[r] => sole'[r])
      <4>1. Busy(r)' /\ fd'[r] = fd[q] /\ cmd'[r] = "STOR"
        BY <2>1, <3>3 DEF Writers, Users, Apart
      <4>2. r # p
        <5>1. CASE currentPos[p] < 0
          <6>1. phase'[p] = "ready"
            BY <1>1, <5>1, LeaveFacts
          <6>2. QED
            BY <4>1, <6>1 DEF Busy
        <5>2. CASE ~(currentPos[p] < 0)
          <6>1. fd'[p] = i
            BY <1>1, <5>2 DEF SeekTo, TypeOK
          <6>2. QED
            BY <3>1, <4>1, <6>1
        <5>3. QED
          BY <5>1, <5>2
      <4>3. Apart(r)
        BY <1>3, <4>2 DEF OthersApart
      <4>4. Busy(r) /\ fd[r] = fd[q] /\ cmd[r] = "STOR"
        BY <4>1, <4>3 DEF Apart, Busy
      <4>5. r \notin Users(i)
        BY <3>1, <4>4 DEF Users
      <4>6. QED
        BY <4>2, <4>4, <4>5 DEF Writers, Users
    <3>4. QED
      BY <3>2, <3>3 DEF NoNewWriter
  <2>3. QED
    BY <2>1, <2>2, ApartGood
<1>6. Good(p)'
  <2>1. CASE currentPos[p] < 0
    <3>1. phase'[p] \in {"ready", "dead"} /\ stream'[p] = <<>>
      BY <1>1, <2>1, LeaveFacts
    <3>2. QED
      BY <3>1, IdleGood
  <2>2. CASE ~(currentPos[p] < 0)
    <3>1. currentPos[p] \in Nat
      <4>1. currentPos[p] \in Offsets
        BY <1>1 DEF TypeOK
      <4>2. currentPos[p] \in Int
        BY <4>1, OffsetsAssumption
      <4>3. QED
        BY <2>2, <4>2
    <3>2. /\ phase'[p] = "dial" /\ cmd'[p] = "STOR" /\ fd'[p] = i
          /\ off'[p] = currentPos[p] /\ currentPos'[p] = currentPos[p]
          /\ stream'[p] = <<>>
      BY <1>1, <2>2, <3>1, SeekFacts
    <3>3. ProcOK(p)'
      BY <3>1, <3>2 DEF ProcOK, Busy, Running
    <3>4. SoleOK(p)'
      <4> SUFFICES ASSUME sole'[p], NEW r \in Writers(fd[p])'
                   PROVE  sole'[r] /\ r = p
        BY DEF SoleOK
      <4>1. r \in Procs /\ Busy(r)' /\ fd'[r] = i /\ cmd'[r] = "STOR"
        BY <3>2 DEF Writers, Users
      <4>2. Writers(i) = {}
        OBVIOUS
      <4>3. r = p
        <5> SUFFICES ASSUME r # p PROVE FALSE
          OBVIOUS
        <5>1. r \in Writers(i)
          BY <1>3, <4>1 DEF Writers, Users, Busy, Apart, OthersApart
        <5>2. QED
          BY <4>2, <5>1
      <4>4. QED
        BY <4>3
    <3>5. Sent(p)'
      BY <3>2 DEF Sent, Running
    <3>6. Stored(p)'
      <4>1. Taken(p)' = 0
        BY <3>1, <3>2 DEF Taken
      <4>2. data'[fd'[p]] = <<>>
        BY <1>1, <3>2 DEF TypeOK
      <4>3. QED
        BY <4>1, <4>2 DEF Stored
    <3>7. QED
      BY <3>3, <3>4, <3>5, <3>6 DEF Good
  <2>3. QED
    BY <2>1, <2>2
<1>7. QED
  BY <1>3, <1>5, <1>6 DEF IInv

\* A transfer that goes on stays alone with its file if it was.
LEMMA SoleStays ==
  ASSUME NEW p \in Procs, SoleOK(p), OthersApart(p), Busy(p),
         fd'[p] = fd[p], cmd'[p] = cmd[p], sole' = sole
  PROVE  SoleOK(p)'
<1> SUFFICES ASSUME sole'[p], NEW r \in Writers(fd[p])'
             PROVE  sole'[r] /\ (cmd'[p] = "STOR" => r = p)
  BY DEF SoleOK
<1>1. r \in Procs /\ Busy(r)' /\ fd'[r] = fd[p] /\ cmd'[r] = "STOR"
  BY DEF Writers, Users
<1>2. CASE r = p
  BY <1>2
<1>3. CASE r # p
  <2>1. r \in Writers(fd[p])
    BY <1>1, <1>3 DEF Writers, Users, Busy, Apart, OthersApart
  <2>2. QED
    BY <2>1 DEF SoleOK
<1>4. QED
  BY <1>2, <1>3

\* With the data connection, nothing has been sent, or the client has its bytes
\* ready and none of them has been stored.
LEMMA DialKeeps ==
  ASSUME IInv, NEW p \in Procs, DialWorks(p)
  PROVE  IInv'
<1>1. /\ TypeOK /\ phase[p] = "dial" /\ Good(p) /\ Busy(p)
      /\ phase' = [phase EXCEPT ![p] = "xfer"]
      /\ dir' = dir /\ data' = data /\ cmd' = cmd /\ fd' = fd /\ off' = off
      /\ currentPos' = currentPos /\ selected' = selected /\ rnfrName' = rnfrName
      /\ sole' = sole /\ cut' = cut
  BY DEF IInv, DialWorks, fs, ctl, hist, Busy
<1>2. PICK s \in Seq(Byte) :
        stream' = [stream EXCEPT ![p] = s] /\ (cmd[p] # "STOR" => s = <<>>)
  <2>1. PICK s \in IF cmd[p] = "STOR" THEN Contents ELSE {<<>>} :
          stream' = [stream EXCEPT ![p] = s]
    BY DEF DialWorks
  <2>2. <<>> \in Seq(Byte)
    BY EmptySeq
  <2>3. QED
    BY <2>1, <2>2, ContentsAssumption
<1>3. TypeOK'
  BY <1>1, <1>2 DEF TypeOK
<1>4. OthersApart(p) /\ phase'[p] = "xfer" /\ stream'[p] = s
  BY <1>1, <1>2 DEF TypeOK, OthersApart, Apart
<1>5. \A q \in Procs \ {p} : Good(q)'
  BY <1>1, <1>4, OthersKeep
<1>6. /\ off[p] = currentPos[p] /\ fd[p] \in Inodes /\ currentPos[p] \in Nat
      /\ Taken(p) = 0 /\ off[p] - currentPos[p] = 0
  BY <1>1 DEF Good, ProcOK, Taken
<1>7. ProcOK(p)'
  <2>1. Len(s) \in Nat
    BY LenProperties
  <2>2. QED
    BY <1>1, <1>4, <1>6, <2>1 DEF ProcOK, Busy, Running, Taken
<1>8. SoleOK(p)'
  BY <1>1, <1>4, SoleStays DEF Good
<1>9. Sent(p)'
  <2> SUFFICES ASSUME cmd[p] = "RETR"
               PROVE  stream'[p] = Slice(data[fd[p]], currentPos[p], 0)
    BY <1>1, <1>6 DEF Sent, Running
  <2>1. stream'[p] = <<>>
    BY <1>2, <1>4
  <2>2. data[fd[p]] \in Seq(Byte)
    BY <1>1, <1>6 DEF TypeOK
  <2>3. QED
    BY <1>6, <2>1, <2>2, EmptySlice
<1>10. Stored(p)'
  <2> SUFFICES ASSUME cmd[p] = "STOR", sole[p]
               PROVE  data[fd[p]] = <<>>
    BY <1>1, <1>6 DEF Stored, Taken
  <2>1. QED
    BY <1>1, <1>6 DEF Good, Stored
<1>11. QED
  BY <1>3, <1>5, <1>7, <1>8, <1>9, <1>10 DEF IInv, Good

\* One turn of a download, of which a part of the block may be lost: then cut
\* releases the promise.
LEMMA RetrieveKeeps ==
  ASSUME IInv, NEW p \in Procs, RetrieveChunk(p)
  PROVE  IInv'
<1> DEFINE d == data[fd[p]]
           b == Slice(d, off[p], BufSize)
<1>0. d = data[fd[p]] /\ b = Slice(d, off[p], BufSize)
  OBVIOUS
<1>1. PICK k \in 1 .. Len(b) :
        /\ stream' = [stream EXCEPT ![p] = @ \o SubSeq(b, 1, k)]
        /\ off' = [off EXCEPT ![p] = @ + Len(b)]
        /\ cut' = [cut EXCEPT ![p] = @ \/ k < Len(b)]
  BY DEF RetrieveChunk
<1> HIDE DEF d, b
<1>2. /\ TypeOK /\ Good(p) /\ Busy(p) /\ phase[p] = "xfer" /\ cmd[p] = "RETR"
      /\ dir' = dir /\ data' = data /\ phase' = phase /\ cmd' = cmd /\ fd' = fd
      /\ currentPos' = currentPos /\ selected' = selected /\ rnfrName' = rnfrName
      /\ sole' = sole
  BY DEF IInv, RetrieveChunk, Running, Busy, fs, ctl
<1>3. /\ fd[p] \in Inodes /\ d \in Seq(Byte) /\ off[p] \in Nat
      /\ currentPos[p] \in Nat /\ currentPos[p] <= off[p]
      /\ stream[p] \in Seq(Byte) /\ cut[p] \in BOOLEAN
  BY <1>0, <1>2 DEF TypeOK, Good, ProcOK
<1>4. b # <<>>
  <2> SUFFICES ASSUME b = <<>> PROVE FALSE
    OBVIOUS
  <2>1. Len(b) = 0
    BY EmptySeq
  <2>2. QED
    BY <1>1, <2>1
<1>5. /\ b \in Seq(Byte) /\ Len(b) \in Nat /\ off[p] + Len(b) <= Len(d)
      /\ SubSeq(b, 1, Len(b)) = b
      /\ Slice(d, currentPos[p], off[p] - currentPos[p]) \o b
           = Slice(d, currentPos[p], off[p] + Len(b) - currentPos[p])
  <2>1. PICK c \in Nat, o \in Nat : c = currentPos[p] /\ o = off[p]
    BY <1>3
  <2>2. /\ d \in Seq(Byte) /\ c <= o /\ BufSize \in Nat \ {0}
        /\ Slice(d, o, BufSize) # <<>>
    BY <1>0, <1>3, <1>4, <2>1, BufSizeAssumption
  <2>3. LET e == Slice(d, o, BufSize) IN
        /\ e \in Seq(Byte) /\ Len(e) \in Nat /\ o + Len(e) <= Len(d)
        /\ SubSeq(e, 1, Len(e)) = e
        /\ Slice(d, c, o - c) \o e = Slice(d, c, o + Len(e) - c)
    BY <2>2, DownloadGrows, ZenonT(60)
  <2>4. QED
    BY <1>0, <2>1, <2>3
<1>6. stream[p] \o SubSeq(b, 1, k) \in Seq(Byte)
  <2>1. SubSeq(b, 1, k) \in Seq(Byte)
    <3>1. k \in Int /\ 1 \in Int /\ \A i \in 1 .. k : b[i] \in Byte
      BY <1>5, ElementOfSeq
    <3>2. QED
      BY <3>1, SubSeqProperties
  <2>2. QED
    BY <1>3, <2>1, ConcatProperties
<1>7. TypeOK'
  <2>1. stream' \in [Procs -> Seq(Byte)]
    BY <1>1, <1>2, <1>6 DEF TypeOK
  <2>2. off[p] + Len(b) \in Nat
    BY <1>3, <1>5
  <2>3. off' \in [Procs -> Nat]
    BY <1>1, <1>2, <2>2 DEF TypeOK
  <2>4. cut' \in [Procs -> BOOLEAN]
    BY <1>1, <1>2 DEF TypeOK
  <2>5. QED
    BY <1>2, <2>1, <2>3, <2>4 DEF TypeOK
<1>8. /\ OthersApart(p)
      /\ off'[p] = off[p] + Len(b)
      /\ stream'[p] = stream[p] \o SubSeq(b, 1, k)
      /\ ~cut'[p] => ~cut[p] /\ k = Len(b)
  <2>1. k < Len(b) \/ k = Len(b)
    <3>1. Len(b) \in Nat
      BY <1>5
    <3>2. QED
      BY <3>1
  <2>2. QED
    BY <1>1, <1>2, <2>1 DEF TypeOK, OthersApart, Apart
<1>9. \A q \in Procs \ {p} : Good(q)'
  BY <1>2, <1>8, OthersKeep
<1>10. ProcOK(p)'
  <2>1. currentPos'[p] <= off'[p]
    <3>1. currentPos[p] <= off[p] + Len(b)
      BY <1>3, <1>5
    <3>2. QED
      BY <1>2, <1>8, <3>1
  <2>2. QED
    BY <1>2, <1>3, <2>1 DEF ProcOK, Busy, Running
<1>11. SoleOK(p)'
  BY <1>2, <1>8, SoleStays DEF Good
<1>12. Sent(p)'
  <2> SUFFICES ASSUME sole[p], ~cut'[p]
               PROVE  /\ stream'[p] = Slice(d, currentPos[p], off'[p] - currentPos[p])
                      /\ off'[p] <= Len(d)
    BY <1>0, <1>2 DEF Sent
  <2>1. stream'[p] = stream[p] \o SubSeq(b, 1, k) /\ k = Len(b)
    BY <1>8
  <2>2. stream'[p] = stream[p] \o b
    BY <1>5, <2>1
  <2>3. stream[p] = Slice(d, currentPos[p], off[p] - currentPos[p])
    BY <1>0, <1>2, <1>8 DEF Good, Sent, Running
  <2>4. off'[p] = off[p] + Len(b)
    BY <1>8
  <2>5. stream'[p] = Slice(d, currentPos[p], off'[p] - currentPos[p])
    <3>1. stream[p] \o b = Slice(d, currentPos[p], off[p] + Len(b) - currentPos[p])
      BY <1>5, <2>3, Zenon
    <3>2. stream'[p] = Slice(d, currentPos[p], off[p] + Len(b) - currentPos[p])
      BY <2>2, <3>1, Zenon
    <3>3. off[p] \in Nat /\ Len(b) \in Nat /\ currentPos[p] \in Nat
      BY <1>3, <1>5
    <3>4. off[p] + Len(b) - currentPos[p] = off'[p] - currentPos[p]
      BY <2>4, <3>3
    <3>5. QED
      BY <3>2, <3>4, Zenon
  <2>6. off'[p] <= Len(d)
    BY <1>5, <2>4
  <2>7. QED
    BY <2>5, <2>6
<1>13. Stored(p)'
  BY <1>2 DEF Stored
<1>14. QED
  BY <1>7, <1>9, <1>10, <1>11, <1>12, <1>13 DEF IInv, Good

\* An upload without anybody else on the file makes it longer and changes
\* nothing of it.
LEMMA StoreGrows ==
  ASSUME IInv, NEW p \in Procs, Running(p, "STOR"), sole[p],
         NEW m \in Nat \ {0}, Taken(p) + m <= Len(stream[p]),
         NEW e, e = PutAt(data[fd[p]], off[p],
                          SubSeq(stream[p], Taken(p) + 1, Taken(p) + m))
  PROVE  /\ e = Zeros(currentPos[p]) \o SubSeq(stream[p], 1, Taken(p) + m)
         /\ Extends(e, data[fd[p]])
<1>1. Good(p) /\ Busy(p) /\ cmd[p] = "STOR" /\ TypeOK
  BY DEF IInv, Running, Busy
<1>2. /\ fd[p] \in Inodes /\ currentPos[p] \in Nat /\ currentPos[p] <= off[p]
      /\ off[p] \in Nat /\ stream[p] \in Seq(Byte) /\ data[fd[p]] \in Seq(Byte)
  BY <1>1 DEF Good, ProcOK, TypeOK
<1>3. PICK c \in Nat, t \in Nat, k \in Nat, s \in Seq(Byte) :
        /\ c = currentPos[p] /\ t = Taken(p) /\ s = stream[p] /\ k = Taken(p) + m
        /\ t < k /\ k <= Len(s) /\ off[p] = c + t
  <2>1. Taken(p) \in Nat /\ off[p] = currentPos[p] + Taken(p)
    BY <1>2 DEF Taken
  <2>2. Taken(p) + m \in Nat /\ Taken(p) < Taken(p) + m
    BY <2>1
  <2>3. QED
    BY <1>2, <2>1, <2>2
<1>4. data[fd[p]] = Holds(s, c, t) /\ Holds(s, c, t) \in Seq(Byte)
  BY <1>1, <1>2, <1>3 DEF Good, Stored, Holds
<1>5. t < k /\ k <= Len(s)
  BY <1>3
<1>6. LET f == PutAt(Holds(s, c, t), c + t, SubSeq(s, t + 1, k)) IN
      /\ f = Holds(s, c, k)
      /\ Extends(f, Holds(s, c, t))
  BY <1>4, <1>5, UploadGrows
<1>7. e = PutAt(Holds(s, c, t), c + t, SubSeq(s, t + 1, k))
  BY <1>3, <1>4
<1>8. Holds(s, c, k) = Zeros(c) \o SubSeq(s, 1, k)
  BY <1>5 DEF Holds
<1>9. QED
  BY <1>3, <1>4, <1>6, <1>7, <1>8

\* What a turn of an upload does: m bytes go into the file, and the transfer
\* ends unless they are all that have come.
StoreTurn(p, n, m) ==
  /\ n \in 1 .. Min2(BufSize, Len(stream[p]) - Taken(p)) /\ m \in 0 .. n
  /\ data' = IF m = 0 THEN data
             ELSE [data EXCEPT ![fd[p]] =
                     PutAt(@, off[p], SubSeq(stream[p], Taken(p) + 1, Taken(p) + m))]
  /\ IF m < n THEN Leave(p, FALSE)
     ELSE /\ off' = [off EXCEPT ![p] = @ + n]
          /\ UNCHANGED <<phase, cmd, ctl, fd, stream, cut>>

\* The types after it.
LEMMA StoreTypes ==
  ASSUME IInv, NEW p \in Procs, Running(p, "STOR"), dir' = dir, sole' = sole,
         NEW n, NEW m, StoreTurn(p, n, m)
  PROVE  /\ n \in Nat \ {0} /\ m \in Nat /\ m <= n /\ Taken(p) + n <= Len(stream[p])
         /\ OthersApart(p) /\ TypeOK'
<1>1. Good(p) /\ Busy(p) /\ cmd[p] = "STOR" /\ TypeOK
  BY DEF IInv, Running, Busy
<1>2. /\ fd[p] \in Inodes /\ currentPos[p] \in Nat /\ currentPos[p] <= off[p]
      /\ off[p] \in Nat /\ stream[p] \in Seq(Byte) /\ data[fd[p]] \in Seq(Byte)
      /\ Taken(p) \in Nat /\ Len(stream[p]) \in Nat
  BY <1>1, LenProperties DEF Good, ProcOK, TypeOK, Taken
<1>3. n \in Nat \ {0} /\ m \in Nat /\ m <= n /\ Taken(p) + n <= Len(stream[p])
  <2>1. n \in 1 .. Min2(BufSize, Len(stream[p]) - Taken(p)) /\ m \in 0 .. n
    BY DEF StoreTurn
  <2>2. QED
    BY <1>2, <2>1, BufSizeAssumption DEF Min2
<1>4. data' \in [Inodes -> Seq(Byte)]
  <2>1. CASE m = 0
    BY <1>1, <2>1 DEF StoreTurn, TypeOK
  <2>2. CASE m # 0
    <3>1. PICK t \in Nat, k \in Nat, s \in Seq(Byte) :
            t = Taken(p) /\ k = t + m /\ s = stream[p] /\ k <= Len(s)
      BY <1>2, <1>3
    <3>2. SubSeq(s, t + 1, k) \in Seq(Byte)
      BY <3>1, BlockBytes
    <3>3. PutAt(data[fd[p]], off[p], SubSeq(s, t + 1, k)) \in Seq(Byte)
      BY <1>2, <3>2, PutAtFacts
    <3>4. data' = [data EXCEPT ![fd[p]] = PutAt(data[fd[p]], off[p], SubSeq(s, t + 1, k))]
      BY <1>1, <1>2, <2>2, <3>1 DEF StoreTurn, TypeOK
    <3>5. QED
      BY <1>1, <3>3, <3>4 DEF TypeOK
  <2>3. QED
    BY <2>1, <2>2
<1>5. CASE m < n
  <2>1. Leave(p, FALSE) /\ FALSE \in BOOLEAN
    BY <1>5 DEF StoreTurn
  <2>2. QED
    BY <1>1, <1>3, <1>4, <2>1, LeaveFacts DEF TypeOK
<1>6. CASE ~(m < n)
  <2>1. off' = [off EXCEPT ![p] = @ + n] /\ UNCHANGED <<phase, cmd, ctl, fd, stream, cut>>
    BY <1>6 DEF StoreTurn
  <2>2. off' \in [Procs -> Nat]
    BY <1>1, <1>2, <1>3, <2>1 DEF TypeOK
  <2>3. TypeOK'
    BY <1>1, <1>4, <2>1, <2>2 DEF TypeOK, ctl
  <2>4. OthersApart(p)
    BY <1>1, <2>1 DEF TypeOK, ctl, OthersApart, Apart
  <2>5. QED
    BY <1>3, <2>3, <2>4
<1>7. QED
  BY <1>5, <1>6

\* The others: an undisturbed upload cannot share the file, and an undisturbed
\* download of it has sent what the longer file begins with.
LEMMA StoreOthers ==
  ASSUME IInv, NEW p \in Procs, Running(p, "STOR"), dir' = dir, sole' = sole,
         NEW n, NEW m, StoreTurn(p, n, m), NEW q \in Procs \ {p}
  PROVE  Good(q)'
<1>1. /\ Good(p) /\ Busy(p) /\ cmd[p] = "STOR" /\ TypeOK
      /\ Good(q) /\ fd[p] \in Inodes
  BY DEF IInv, Running, Busy, Good, ProcOK
<1>2. /\ n \in Nat \ {0} /\ m \in Nat /\ m <= n /\ Taken(p) + n <= Len(stream[p])
      /\ OthersApart(p) /\ TypeOK' /\ Apart(q)
  BY StoreTypes DEF OthersApart
<1>3. fd[q] # fd[p] => data'[fd[q]] = data[fd[q]]
  BY <1>1 DEF StoreTurn, TypeOK
<1>4. NoNewWriter(q)
  <2> SUFFICES ASSUME NEW r \in Procs, r \in Writers(fd[q])'
               PROVE  r \in Writers(fd[q])
    BY DEF NoNewWriter
  <2>1. Busy(r)' /\ fd'[r] = fd[q] /\ cmd'[r] = "STOR"
    BY <1>2 DEF Writers, Users, Apart
  <2>2. CASE r = p
    <3>1. ~(m < n)
      <4> SUFFICES ASSUME m < n PROVE FALSE
        OBVIOUS
      <4>1. Leave(p, FALSE) /\ FALSE \in BOOLEAN
        BY DEF StoreTurn
      <4>2. phase'[p] = "ready"
        BY <1>1, <4>1, LeaveFacts
      <4>3. QED
        BY <2>1, <2>2, <4>2 DEF Busy
    <3>2. fd' = fd
      BY <3>1 DEF StoreTurn
    <3>3. QED
      BY <1>1, <2>1, <2>2, <3>2 DEF Writers, Users
  <2>3. CASE r # p
    BY <1>2, <2>1, <2>3 DEF Writers, Users, Busy, Apart, OthersApart
  <2>4. QED
    BY <2>2, <2>3
<1>5. CASE ~(Busy(q) /\ sole[q] /\ fd[q] = fd[p] /\ m # 0)
  <2>1. Busy(q) /\ sole'[q] => data'[fd[q]] = data[fd[q]]
    <3>1. CASE m = 0
      BY <3>1 DEF StoreTurn
    <3>2. CASE m # 0
      BY <1>3, <1>5, <3>2
    <3>3. QED
      BY <3>1, <3>2
  <2>2. QED
    BY <1>1, <1>2, <1>4, <2>1, ApartGood
<1>6. CASE Busy(q) /\ sole[q] /\ fd[q] = fd[p] /\ m # 0
  <2>1. p \in Writers(fd[q])
    BY <1>1, <1>6 DEF Writers, Users
  <2>2. sole[p] /\ cmd[q] # "STOR"
    BY <1>1, <1>6, <2>1 DEF Good, SoleOK
  <2>3. PICK e : e = PutAt(data[fd[p]], off[p],
                           SubSeq(stream[p], Taken(p) + 1, Taken(p) + m))
    OBVIOUS
  <2>4. Taken(p) + m <= Len(stream[p])
    <3>1. Taken(p) \in Nat /\ Len(stream[p]) \in Nat
      BY <1>1, LenProperties DEF Good, ProcOK, TypeOK, Taken
    <3>2. QED
      BY <1>2, <3>1
  <2>5. Extends(e, data[fd[p]])
    BY <1>2, <1>6, <2>2, <2>3, <2>4, StoreGrows
  <2>6. data'[fd[q]] = e
    BY <1>1, <1>6, <2>3 DEF StoreTurn, TypeOK
  <2>7. ProcOK(q)'
    BY <1>1, <1>2 DEF Good, ProcOK, Apart, Busy, Running, Taken
  <2>8. SoleOK(q)'
    <3> SUFFICES ASSUME NEW r \in Writers(fd[q])'
                 PROVE  sole'[r]
      BY <1>2, <2>2 DEF SoleOK, Apart
    <3>1. r \in Procs
      BY DEF Writers, Users
    <3>2. r \in Writers(fd[q])
      BY <1>4, <3>1 DEF NoNewWriter
    <3>3. QED
      BY <1>1, <1>6, <3>2 DEF Good, SoleOK
  <2>9. Stored(q)'
    BY <1>2, <2>2 DEF Stored, Apart
  <2>10. Sent(q)'
    <3> SUFFICES ASSUME Running(q, "RETR"), ~cut[q]
                 PROVE  /\ stream[q] = Slice(e, currentPos[q], off[q] - currentPos[q])
                        /\ off[q] = currentPos[q] \/ off[q] <= Len(e)
      BY <1>2, <2>6 DEF Sent, Apart, Running
    <3>1. PICK c \in Nat, k \in Nat, s \in Seq(Byte), t \in Seq(Byte) :
            /\ c = currentPos[q] /\ k = off[q] - currentPos[q] /\ off[q] = c + k
            /\ s = data[fd[p]] /\ t = e
      <4>1. currentPos[q] \in Nat /\ currentPos[q] <= off[q] /\ off[q] \in Nat
        BY <1>1, <1>6 DEF Good, ProcOK, TypeOK
      <4>2. data[fd[p]] \in Seq(Byte) /\ e \in Seq(Byte)
        BY <1>1, <1>2, <1>6, <2>6 DEF TypeOK
      <4>3. off[q] - currentPos[q] \in Nat
             /\ off[q] = currentPos[q] + (off[q] - currentPos[q])
        BY <4>1
      <4>4. QED
        BY <4>1, <4>2, <4>3
    <3>2. stream[q] = Slice(s, c, k) /\ (k = 0 \/ c + k <= Len(s))
      BY <1>1, <1>6, <3>1 DEF Good, Sent
    <3>3. Len(s) \in Nat /\ Len(t) \in Nat /\ Len(s) <= Len(t)
      BY <2>5, <3>1, LenProperties DEF Extends
    <3>4. CASE k = 0
      <4>1. Slice(s, c, 0) = <<>> /\ Slice(t, c, 0) = <<>>
        BY EmptySlice
      <4>2. stream[q] = Slice(t, c, k)
        BY <3>2, <3>4, <4>1, Zenon
      <4>3. stream[q] = Slice(e, currentPos[q], off[q] - currentPos[q])
        BY <3>1, <4>2, Zenon
      <4>4. off[q] = currentPos[q]
        BY <3>1, <3>4
      <4>5. QED
        BY <4>3, <4>4
    <3>5. CASE c + k <= Len(s)
      <4>1. Extends(t, s)
        BY <2>5, <3>1
      <4>2. Slice(t, c, k) = Slice(s, c, k)
        BY <3>3, <3>5, <4>1, SliceOfLonger
      <4>3. c + k <= Len(t)
        BY <3>3, <3>5
      <4>4. stream[q] = Slice(t, c, k) /\ off[q] <= Len(e)
        BY <3>1, <3>2, <4>2, <4>3
      <4>5. stream[q] = Slice(e, currentPos[q], off[q] - currentPos[q])
        BY <3>1, <4>4, Zenon
      <4>6. QED
        BY <4>4, <4>5
    <3>6. QED
      BY <3>2, <3>4, <3>5
  <2>11. QED
    BY <2>7, <2>8, <2>9, <2>10 DEF Good
<1>7. QED
  BY <1>5, <1>6

\* The process that takes the turn.
LEMMA StoreSelf ==
  ASSUME IInv, NEW p \in Procs, Running(p, "STOR"), dir' = dir, sole' = sole,
         NEW n, NEW m, StoreTurn(p, n, m)
  PROVE  Good(p)'
<1>1. Good(p) /\ Busy(p) /\ cmd[p] = "STOR" /\ TypeOK
  BY DEF IInv, Running, Busy
<1>2. /\ n \in Nat \ {0} /\ m \in Nat /\ m <= n /\ Taken(p) + n <= Len(stream[p])
      /\ OthersApart(p) /\ TypeOK'
  BY StoreTypes
<1>3. CASE m < n
  <2>1. Leave(p, FALSE) /\ FALSE \in BOOLEAN
    BY <1>3 DEF StoreTurn
  <2>2. phase'[p] \in {"ready", "dead"} /\ stream'[p] = <<>>
    BY <1>1, <2>1, LeaveFacts
  <2>3. QED
    BY <2>2, IdleGood
<1>4. CASE ~(m < n)
  <2>1. /\ off' = [off EXCEPT ![p] = @ + n] /\ m = n /\ m # 0
        /\ phase' = phase /\ cmd' = cmd /\ currentPos' = currentPos
        /\ fd' = fd /\ stream' = stream /\ cut' = cut
    BY <1>2, <1>4 DEF StoreTurn, ctl
  <2>2. /\ fd[p] \in Inodes /\ currentPos[p] \in Nat /\ currentPos[p] <= off[p]
        /\ off[p] \in Nat /\ off'[p] = off[p] + n
    BY <1>1, <2>1 DEF Good, ProcOK, TypeOK
  <2>3. Taken(p)' = Taken(p) + n /\ Taken(p) \in Nat
    BY <2>1, <2>2, <1>2 DEF Taken
  <2>4. ProcOK(p)'
    <3>1. phase[p] = "xfer"
      BY DEF Running
    <3>2. currentPos[p] <= off[p] + n
      BY <1>2, <2>2
    <3>3. QED
      BY <1>2, <2>1, <2>2, <2>3, <3>1, <3>2 DEF ProcOK, Busy
  <2>5. SoleOK(p)'
    BY <1>1, <1>2, <2>1, SoleStays DEF Good
  <2>6. Sent(p)'
    BY <1>1, <2>1 DEF Sent, Running
  <2>7. Stored(p)'
    <3> SUFFICES ASSUME sole[p]
                 PROVE  data'[fd[p]] = Zeros(currentPos[p]) \o SubSeq(stream[p], 1, Taken(p) + n)
      <4>1. Taken(p) + n # 0
        BY <1>2, <2>3
      <4>2. QED
        BY <2>1, <2>3, <4>1 DEF Stored
    <3>1. PICK e : e = PutAt(data[fd[p]], off[p],
                             SubSeq(stream[p], Taken(p) + 1, Taken(p) + n))
      OBVIOUS
    <3>2. e = Zeros(currentPos[p]) \o SubSeq(stream[p], 1, Taken(p) + n)
      BY <1>2, <3>1, StoreGrows
    <3>3. data'[fd[p]] = e
      BY <1>1, <2>1, <2>2, <3>1 DEF StoreTurn, TypeOK
    <3>4. QED
      BY <3>2, <3>3
  <2>8. QED
    BY <2>4, <2>5, <2>6, <2>7 DEF Good
<1>5. QED
  BY <1>3, <1>4

\* One turn of an upload.
LEMMA StoreKeeps ==
  ASSUME IInv, NEW p \in Procs, StoreChunk(p)
  PROVE  IInv'
<1>1. Running(p, "STOR") /\ dir' = dir /\ sole' = sole
  BY DEF StoreChunk
<1>2. PICK n, m : StoreTurn(p, n, m)
  BY DEF StoreChunk, StoreTurn
<1>3. TypeOK'
  BY <1>1, <1>2, StoreTypes
<1>4. \A q \in Procs : Good(q)'
  BY <1>1, <1>2, StoreOthers, StoreSelf
<1>5. QED
  BY <1>3, <1>4 DEF IInv

-----------------------------------------------------------------------------
(* The theorems *)

\* Every step keeps the invariant.
LEMMA NextKeeps ==
  ASSUME IInv, Next
  PROVE  IInv'
<1>1. PICK p \in Procs :
        \/ cmd_rest(p) \/ SelectMode(p)
        \/ \E n \in Names : \/ cmd_dele(p, n) \/ cmd_rnfr(p, n) \/ cmd_rnto(p, n)
                            \/ cmd_retr(p, n) \/ cmd_stor(p, n)
        \/ DialFails(p) \/ DialWorks(p)
        \/ RetrieveChunk(p) \/ EndRetrieve(p)
        \/ StoreChunk(p) \/ EndStore(p)
        \/ TransferFails(p) \/ Die(p) \/ Start(p)
  BY DEF Next
<1>2. TRUE \in BOOLEAN /\ FALSE \in BOOLEAN
  OBVIOUS
<1>3. CASE \/ cmd_rest(p) \/ SelectMode(p)
           \/ \E n \in Names : cmd_dele(p, n) \/ cmd_rnfr(p, n) \/ cmd_rnto(p, n)
  BY <1>3, PlainKeeps
<1>4. ASSUME NEW n \in Names, cmd_retr(p, n)
      PROVE  IInv'
  <2>1. CASE Over(p, FALSE)
    BY <1>2, <2>1, OverKeeps
  <2>2. CASE /\ dir[n] # NoIno /\ currentPos[p] >= 0
             /\ SeekTo(p, dir[n], "RETR")
             /\ sole' = [sole EXCEPT ![p] = \A q \in Writers(dir[n]) : sole[q]]
             /\ UNCHANGED fs
    <3>1. Selected(p)
      BY <1>4 DEF cmd_retr
    <3>2. QED
      BY <2>2, <3>1, OpenKeeps
  <2>3. QED
    BY <1>4, <2>1, <2>2 DEF cmd_retr
<1>5. ASSUME NEW n \in Names, cmd_stor(p, n)
      PROVE  IInv'
  <2>1. CASE Over(p, FALSE)
    BY <1>2, <2>1, OverKeeps
  <2>2. CASE \E i \in IF dir[n] = NoIno THEN Unused ELSE {dir[n]} :
               /\ dir' = [dir EXCEPT ![n] = i]
               /\ Emptied(i)
               /\ IF currentPos[p] < 0 THEN Leave(p, FALSE) ELSE SeekTo(p, i, "STOR")
               /\ sole' = [q \in Procs |-> IF q = p THEN Writers(i) = {}
                                           ELSE sole[q] /\ q \notin Users(i)]
    <3>1. PICK i \in Inodes :
               /\ dir' = [dir EXCEPT ![n] = i]
               /\ Emptied(i)
               /\ IF currentPos[p] < 0 THEN Leave(p, FALSE) ELSE SeekTo(p, i, "STOR")
               /\ sole' = [q \in Procs |-> IF q = p THEN Writers(i) = {}
                                           ELSE sole[q] /\ q \notin Users(i)]
      <4>1. (IF dir[n] = NoIno THEN Unused ELSE {dir[n]}) \subseteq Inodes
        BY DEF IInv, TypeOK, Unused
      <4>2. QED
        BY <2>2, <4>1
    <3>2. Selected(p)
      BY <1>5 DEF cmd_stor
    <3>3. QED
      BY <3>1, <3>2, CreateKeeps
  <2>3. QED
    BY <1>5, <2>1, <2>2 DEF cmd_stor
<1>6. CASE DialFails(p)
  BY <1>2, <1>6, OverKeeps DEF DialFails
<1>7. CASE EndRetrieve(p) \/ EndStore(p) \/ TransferFails(p)
  BY <1>2, <1>7, OverKeeps DEF EndRetrieve, EndStore, TransferFails
<1>8. QED
  BY <1>1, <1>3, <1>4, <1>5, <1>6, <1>7,
     DialKeeps, RetrieveKeeps, StoreKeeps, DieKeeps, StartKeeps

\* So does a step of nobody.
LEMMA StutterKeeps ==
  ASSUME IInv, UNCHANGED vars
  PROVE  IInv'
<1>1. TypeOK'
  BY DEF vars, fs, ctl, loc, hist, IInv, TypeOK
<1>2. ASSUME NEW q \in Procs
      PROVE  Good(q)'
  <2>1. Good(q) /\ Apart(q) /\ sole' = sole /\ data' = data
    BY DEF vars, fs, ctl, loc, hist, IInv, Apart
  <2>2. NoNewWriter(q)
    BY DEF vars, fs, ctl, loc, hist, NoNewWriter, Writers, Users, Busy
  <2>3. QED
    BY <2>1, <2>2, ApartGood
<1>3. QED
  BY <1>1, <1>2 DEF IInv

\* It holds at the start.
LEMMA InitGood ==
  Init => IInv
<1> SUFFICES ASSUME Init PROVE IInv
  OBVIOUS
<1>1. TypeOK
  BY InitTypes
<1>2. ASSUME NEW q \in Procs
      PROVE  Good(q)
  <2>1. phase[q] = "ready" /\ stream[q] = <<>>
    BY DEF Init
  <2>2. QED
    BY <2>1 DEF Good, ProcOK, SoleOK, Sent, Stored, Busy, Running
<1>3. QED
  BY <1>1, <1>2 DEF IInv

\* The inductive invariant holds in every state.
THEOREM Invariance == Spec => []IInv
<1>1. Init => IInv
  BY InitGood
<1>2. IInv /\ [Next]_vars => IInv'
  BY NextKeeps, StutterKeeps
<1>3. QED
  BY <1>1, <1>2, PTL DEF Spec

\* Every variable keeps its type: positions are never negative, and a transfer
\* that is under way has a file.
THEOREM TypeCorrect == Spec => []TypeOK
<1>1. IInv => TypeOK
  BY DEF IInv
<1>2. QED
  BY <1>1, Invariance, PTL

\* A download has sent the file from the offset on, as far as it has come.
THEOREM RetrieveCorrect == Spec => []RetrieveFaithful
<1>1. IInv => RetrieveFaithful
  BY DEF IInv, Good, Sent, RetrieveFaithful
<1>2. QED
  BY <1>1, Invariance, PTL

\* An upload has written all that the file holds.
THEOREM StoreCorrect == Spec => []StoreFaithful
<1>1. IInv => StoreFaithful
  BY DEF IInv, Good, Stored, StoreFaithful
<1>2. QED
  BY <1>1, Invariance, PTL

\* A download that is reported complete has sent the whole rest of the file.
THEOREM DownloadCorrect == Spec => DownloadsExact
<1>1. ASSUME IInv, NEW p \in Procs, EndRetrieve(p), sole[p], ~cut[p]
      PROVE  stream[p] = Slice(data[fd[p]], currentPos[p], Len(data[fd[p]]))
  <2>1. Good(p) /\ Busy(p) /\ TypeOK /\ Running(p, "RETR")
    BY <1>1 DEF IInv, EndRetrieve, Running, Busy
  <2>2. /\ fd[p] \in Inodes /\ currentPos[p] \in Nat /\ currentPos[p] <= off[p]
        /\ off[p] \in Nat /\ data[fd[p]] \in Seq(Byte)
    BY <2>1 DEF Good, ProcOK, TypeOK
  <2>3. PICK c \in Nat, o \in Nat, s \in Seq(Byte) :
          c = currentPos[p] /\ o = off[p] /\ s = data[fd[p]] /\ Len(s) \in Nat
    BY <2>2, LenProperties
  <2>4. /\ c <= o /\ Len(s) <= o /\ (o = c \/ o <= Len(s))
        /\ stream[p] = Slice(s, c, o - c)
    BY <1>1, <2>1, <2>2, <2>3 DEF EndRetrieve, Good, Sent
  <2>5. Slice(s, c, o - c) = Slice(s, c, Len(s))
    BY <2>4, DownloadEnds
  <2>6. QED
    BY <2>3, <2>4, <2>5
<1>2. ASSUME IInv
      PROVE  \A p \in Procs : EndRetrieve(p) /\ sole[p] /\ ~cut[p] =>
               LET d == data[fd[p]] IN stream[p] = Slice(d, currentPos[p], Len(d))
  BY <1>1, <1>2
<1>3. QED
  BY <1>2, Invariance, PTL DEF DownloadsExact

\* An upload that is reported complete has stored all that the client had.
THEOREM UploadCorrect == Spec => UploadsExact
<1>1. ASSUME IInv, NEW p \in Procs, EndStore(p), sole[p]
      PROVE  data[fd[p]] = IF stream[p] = <<>> THEN <<>>
                           ELSE Zeros(currentPos[p]) \o stream[p]
  <2>1. Good(p) /\ Busy(p) /\ TypeOK /\ Running(p, "STOR") /\ cmd[p] = "STOR"
    BY <1>1 DEF IInv, EndStore, Running, Busy
  <2>2. PICK s \in Seq(Byte) : s = stream[p] /\ Taken(p) = Len(s)
    BY <1>1, <2>1 DEF EndStore, TypeOK
  <2>3. data[fd[p]] = IF Len(s) = 0 THEN <<>>
                      ELSE Zeros(currentPos[p]) \o SubSeq(s, 1, Len(s))
    BY <1>1, <2>1, <2>2 DEF Good, Stored
  <2>4. SubSeq(s, 1, Len(s)) = s
    BY SubSeqFull
  <2>5. Len(s) = 0 <=> s = <<>>
    BY EmptySeq
  <2>6. QED
    BY <2>2, <2>3, <2>4, <2>5
<1>2. ASSUME IInv
      PROVE  \A p \in Procs : EndStore(p) /\ sole[p] =>
               data[fd[p]] = IF stream[p] = <<>> THEN <<>>
                             ELSE Zeros(currentPos[p]) \o stream[p]
  BY <1>1, <1>2
<1>3. QED
  BY <1>2, Invariance, PTL DEF UploadsExact
=============================================================================
