----------------------------- MODULE FileSinkProofs -----------------------------
(***************************************************************************)
(* Proofs about FileSink, for lines of any number of pieces, any number of *)
(* entries, and a device that fills up and is freed at any time.           *)
(***************************************************************************)
EXTENDS FileSink, SequenceTheorems, TLAPS

USE DEF sink

\* A piece is the number of its entry and its place in the line.
Piece == Nat \X Nat

SinkType ==
  /\ file \in Seq(Piece) /\ held \in Seq(Piece)
  /\ full \in BOOLEAN
  /\ pc \in {"idle", "body", "newline", "flush", "closed"}
  /\ entry \in Nat
  /\ failed \subseteq Nat

Out == file \o held

Ordered(s) == \A i, j \in 1 .. Len(s) : i < j => Before(s[i], s[j])

\* How far the write under way has come: an entry that was handed over and not
\* begun has nothing out yet, one without its newline no newline.
NotYet(x) ==
  /\ x[1] <= entry
  /\ pc = "body" => x[1] < entry
  /\ pc = "newline" /\ x[1] = entry => x[2] <= Pieces

\* What FILE's buffer may hold: rests of failed entries, and pieces of the one
\* that is being written.
MayWait(x) ==
  x[1] \in failed \cup (IF pc \in {"newline", "flush"} THEN {entry} ELSE {})

SinkInv ==
  /\ SinkType
  /\ Ordered(Out)
  /\ \A i \in 1 .. Len(Out) : NotYet(Out[i])
  /\ pc # "closed" => \A i \in 1 .. Len(held) : MayWait(held[i])

-------------------------------------------------------------------------------
(* Sequences.                                                              *)

\* ConcatAssociative, element by element.
LEMMA JoinAssociates ==
  ASSUME NEW S, NEW s \in Seq(S), NEW t \in Seq(S), NEW u \in Seq(S)
  PROVE  (s \o t) \o u = s \o (t \o u)
<1>1. s \o t \in Seq(S) /\ t \o u \in Seq(S)
  BY ConcatProperties
<1>2. (s \o t) \o u \in Seq(S) /\ s \o (t \o u) \in Seq(S)
  BY <1>1, ConcatProperties
<1>3. Len((s \o t) \o u) = Len(s \o (t \o u))
  OBVIOUS
<1>4. \A i \in 1 .. Len((s \o t) \o u) :
        ((s \o t) \o u)[i] = (s \o (t \o u))[i]
  OBVIOUS
<1> QED
  BY <1>2, <1>3, <1>4, SeqEqual

\* What is parted and put together again is what it was.
LEMMA PartAndJoin ==
  ASSUME NEW S, NEW s \in Seq(S), NEW t \in Seq(S), NEW n \in 0 .. Len(t)
  PROVE  /\ SubSeq(t, 1, n) \in Seq(S) /\ SubSeq(t, n + 1, Len(t)) \in Seq(S)
         /\ (s \o SubSeq(t, 1, n)) \o SubSeq(t, n + 1, Len(t)) = s \o t
<1>0. Len(t) \in Nat
  BY LenProperties
<1>1. /\ SubSeq(t, 1, n) \in Seq(S) /\ SubSeq(t, n + 1, Len(t)) \in Seq(S)
  <2>1. \A i \in 1 .. Len(t) : t[i] \in S
    BY ElementOfSeq
  <2>2. \A i \in 1 .. n : t[i] \in S
    BY <1>0, <2>1
  <2>3. \A i \in n + 1 .. Len(t) : t[i] \in S
    BY <1>0, <2>1
  <2>4. n \in Int /\ n + 1 \in Int /\ Len(t) \in Int /\ 1 \in Int
    BY <1>0
  <2> QED
    BY <2>2, <2>3, <2>4, SubSeqProperties
<1>2. SubSeq(t, 1, n) \o SubSeq(t, n + 1, Len(t)) = t
  <2>1. 1 \in 1 .. Len(t) + 1 /\ n \in 1 - 1 .. Len(t) /\ Len(t) \in n .. Len(t)
    BY <1>0
  <2>2. SubSeq(t, 1, n) \o SubSeq(t, n + 1, Len(t)) = SubSeq(t, 1, Len(t))
    BY <2>1, ConcatAdjacentSubSeq
  <2> QED
    BY <2>2, SubSeqFull
<1> DEFINE u == SubSeq(t, 1, n)
           v == SubSeq(t, n + 1, Len(t))
<1> HIDE DEF u, v
<1>3. u \in Seq(S) /\ v \in Seq(S)
  BY <1>1 DEF u, v
<1>4. (s \o u) \o v = s \o (u \o v)
  BY <1>3, SMTT(30)
<1> QED
  BY <1>1, <1>2, <1>4 DEF u, v

\* The elements of a prefix and of the rest are elements of the whole.
LEMMA PartsOf ==
  ASSUME NEW S, NEW t \in Seq(S), NEW n \in 0 .. Len(t)
  PROVE  /\ Len(SubSeq(t, 1, n)) = n
         /\ \A i \in 1 .. n : SubSeq(t, 1, n)[i] = t[i]
         /\ Len(SubSeq(t, n + 1, Len(t))) = Len(t) - n
         /\ \A i \in 1 .. Len(t) - n :
              SubSeq(t, n + 1, Len(t))[i] = t[n + i]
<1>0. Len(t) \in Nat
  BY LenProperties
<1>1. \A i \in 1 .. Len(t) : t[i] \in S
  BY ElementOfSeq
<1>2. /\ Len(SubSeq(t, 1, n)) = (IF 1 <= n THEN n - 1 + 1 ELSE 0)
      /\ \A i \in 1 .. n - 1 + 1 : SubSeq(t, 1, n)[i] = t[1 + i - 1]
  <2>1. \A i \in 1 .. n : t[i] \in S
    BY <1>0, <1>1
  <2> QED
    BY <1>0, <2>1, SubSeqProperties
<1>3. /\ Len(SubSeq(t, n + 1, Len(t))) =
           (IF n + 1 <= Len(t) THEN Len(t) - (n + 1) + 1 ELSE 0)
      /\ \A i \in 1 .. Len(t) - (n + 1) + 1 :
           SubSeq(t, n + 1, Len(t))[i] = t[(n + 1) + i - 1]
  <2>1. \A i \in n + 1 .. Len(t) : t[i] \in S
    BY <1>0, <1>1
  <2> QED
    BY <1>0, <2>1, SubSeqProperties
<1>4. /\ Len(SubSeq(t, 1, n)) = n /\ Len(SubSeq(t, n + 1, Len(t))) = Len(t) - n
  BY <1>0, <1>2, <1>3
<1>5. \A i \in 1 .. n : SubSeq(t, 1, n)[i] = t[i]
  <2> SUFFICES ASSUME NEW i \in 1 .. n PROVE SubSeq(t, 1, n)[i] = t[i]
    OBVIOUS
  <2>1. i \in 1 .. n - 1 + 1 /\ 1 + i - 1 = i
    BY <1>0
  <2> QED
    BY <1>2, <2>1
<1>6. \A i \in 1 .. Len(t) - n : SubSeq(t, n + 1, Len(t))[i] = t[n + i]
  <2> SUFFICES ASSUME NEW i \in 1 .. Len(t) - n
               PROVE  SubSeq(t, n + 1, Len(t))[i] = t[n + i]
    OBVIOUS
  <2>1. i \in 1 .. Len(t) - (n + 1) + 1 /\ (n + 1) + i - 1 = n + i
    BY <1>0
  <2> QED
    BY <1>3, <2>1
<1> QED
  BY <1>4, <1>5, <1>6

\* A prefix of an ordered sequence is ordered, and so are two ordered sequences
\* one behind the other, if the first ends before the second begins.
LEMMA OrderedPrefix ==
  ASSUME NEW s \in Seq(Piece), NEW t \in Seq(Piece), Ordered(s),
         Len(t) <= Len(s), \A i \in 1 .. Len(t) : t[i] = s[i]
  PROVE  Ordered(t)
<1>1. Len(s) \in Nat /\ Len(t) \in Nat
  BY LenProperties
<1>2. \A i \in 1 .. Len(t) : i \in 1 .. Len(s)
  BY <1>1
<1> QED
  BY <1>1, <1>2 DEF Ordered

LEMMA OrderedJoin ==
  ASSUME NEW s \in Seq(Piece), NEW t \in Seq(Piece),
         Ordered(s), Ordered(t),
         \A i \in 1 .. Len(s), j \in 1 .. Len(t) : Before(s[i], t[j])
  PROVE  Ordered(s \o t)
<1>1. /\ Len(s) \in Nat /\ Len(t) \in Nat
      /\ Len(s \o t) = Len(s) + Len(t)
      /\ \A i \in 1 .. Len(s) + Len(t) :
           (s \o t)[i] = IF i <= Len(s) THEN s[i] ELSE t[i - Len(s)]
  BY LenProperties, ConcatProperties
<1> SUFFICES ASSUME NEW i \in 1 .. Len(s) + Len(t),
                    NEW j \in 1 .. Len(s) + Len(t), i < j
             PROVE  Before((s \o t)[i], (s \o t)[j])
  BY <1>1 DEF Ordered
<1>2. CASE j <= Len(s)
  <2>1. i \in 1 .. Len(s) /\ j \in 1 .. Len(s)
    BY <1>1, <1>2
  <2>2. (s \o t)[i] = s[i] /\ (s \o t)[j] = s[j]
    BY <1>1, <2>1
  <2> QED
    BY <2>1, <2>2 DEF Ordered
<1>3. CASE i <= Len(s) /\ Len(s) < j
  <2>1. i \in 1 .. Len(s) /\ j - Len(s) \in 1 .. Len(t)
    BY <1>1, <1>3
  <2>2. (s \o t)[i] = s[i] /\ (s \o t)[j] = t[j - Len(s)]
    BY <1>1, <1>3
  <2> QED
    BY <2>1, <2>2
<1>4. CASE Len(s) < i
  <2>1. /\ i - Len(s) \in 1 .. Len(t) /\ j - Len(s) \in 1 .. Len(t)
        /\ i - Len(s) < j - Len(s)
    BY <1>1, <1>4
  <2>2. (s \o t)[i] = t[i - Len(s)] /\ (s \o t)[j] = t[j - Len(s)]
    BY <1>1, <1>4
  <2> QED
    BY <2>1, <2>2 DEF Ordered
<1> QED
  BY <1>1, <1>2, <1>3, <1>4

-------------------------------------------------------------------------------
(* stdio.                                                                  *)

\* Whatever part of a buffer goes out, file and buffer hold what they held,
\* and nothing waits that was not in the buffer.
LEMMA GoesOutKeeps ==
  ASSUME file \in Seq(Piece), NEW b \in Seq(Piece), GoesOut(b)
  PROVE  /\ file' \in Seq(Piece) /\ held' \in Seq(Piece)
         /\ Out' = file \o b
         /\ \A i \in 1 .. Len(held') : \E j \in 1 .. Len(b) : held'[i] = b[j]
<1>1. PICK n \in 0 .. Len(b) : /\ file' = file \o SubSeq(b, 1, n)
                              /\ held' = SubSeq(b, n + 1, Len(b))
  BY DEF GoesOut
<1>2. /\ SubSeq(b, 1, n) \in Seq(Piece) /\ held' \in Seq(Piece)
      /\ Out' = file \o b
  BY <1>1, PartAndJoin, ZenonT(60) DEF Out
<1>3. file' \in Seq(Piece)
  BY <1>1, <1>2, ConcatProperties
<1>4. ASSUME NEW i \in 1 .. Len(held')
      PROVE  \E j \in 1 .. Len(b) : held'[i] = b[j]
  <2>1. Len(b) \in Nat
    BY LenProperties
  <2>2. Len(held') = Len(b) - n /\ held'[i] = b[n + i]
    BY <1>1, PartsOf
  <2>3. n + i \in 1 .. Len(b)
    BY <2>1, <2>2
  <2> QED
    BY <2>2, <2>3
<1> QED
  BY <1>2, <1>3, <1>4

\* fwrite adds a prefix of what it is given to what file and buffer hold.
LEMMA FwriteKeeps ==
  ASSUME file \in Seq(Piece), held \in Seq(Piece),
         NEW pieces \in Seq(Piece), Fwrite(pieces)
  PROVE  \E p \in Seq(Piece) :
           /\ Len(p) <= Len(pieces)
           /\ \A i \in 1 .. Len(p) : p[i] = pieces[i]
           /\ file' \in Seq(Piece) /\ held' \in Seq(Piece)
           /\ Out' = Out \o p
           /\ \A i \in 1 .. Len(held') :
                \/ \E j \in 1 .. Len(held) : held'[i] = held[j]
                \/ \E j \in 1 .. Len(p) : held'[i] = p[j]
<1>1. PICK n \in 0 .. Len(pieces) : GoesOut(held \o SubSeq(pieces, 1, n))
  BY DEF Fwrite
<1> DEFINE p == SubSeq(pieces, 1, n)
<1>2. Len(pieces) \in Nat /\ Len(held) \in Nat
  BY LenProperties
<1>3. p \in Seq(Piece)
  BY PartAndJoin
<1>4. Len(p) = n /\ \A i \in 1 .. n : p[i] = pieces[i]
  BY PartsOf
<1> HIDE DEF p
<1>5. GoesOut(held \o p)
  BY <1>1 DEF p
<1>6. /\ held \o p \in Seq(Piece) /\ Len(held \o p) = Len(held) + Len(p)
      /\ \A i \in 1 .. Len(held) + Len(p) :
           (held \o p)[i] = IF i <= Len(held) THEN held[i]
                                             ELSE p[i - Len(held)]
  BY <1>3, ConcatProperties
<1>7. /\ file' \in Seq(Piece) /\ held' \in Seq(Piece)
      /\ Out' = file \o (held \o p)
      /\ \A i \in 1 .. Len(held') :
           \E j \in 1 .. Len(held \o p) : held'[i] = (held \o p)[j]
  BY <1>5, <1>6, GoesOutKeeps
<1>8. Out' = Out \o p
  <2>1. (file \o held) \o p = file \o (held \o p)
    BY <1>3 DEF SinkType
  <2> QED
    BY <1>7, <2>1 DEF Out
<1>9. ASSUME NEW i \in 1 .. Len(held')
      PROVE  \/ \E j \in 1 .. Len(held) : held'[i] = held[j]
             \/ \E j \in 1 .. Len(p) : held'[i] = p[j]
  <2>1. PICK j \in 1 .. Len(held) + Len(p) : held'[i] = (held \o p)[j]
    BY <1>6, <1>7
  <2>2. CASE j <= Len(held)
    <3>1. j \in 1 .. Len(held) /\ held'[i] = held[j]
      BY <1>2, <1>6, <2>1, <2>2
    <3> QED
      BY <3>1
  <2>3. CASE ~(j <= Len(held))
    <3>1. j - Len(held) \in 1 .. Len(p) /\ held'[i] = p[j - Len(held)]
      BY <1>2, <1>4, <1>6, <2>1, <2>3
    <3> QED
      BY <3>1
  <2> QED
    BY <2>2, <2>3
<1>10. /\ Len(p) <= Len(pieces)
       /\ \A i \in 1 .. Len(p) : p[i] = pieces[i]
  BY <1>2, <1>4
<1> QED
  BY <1>3, <1>7, <1>8, <1>9, <1>10

\* So what is written behind everything else leaves the whole in order.
LEMMA FwriteInOrder ==
  ASSUME SinkType, Ordered(Out), NEW pieces \in Seq(Piece), Ordered(pieces),
         \A i \in 1 .. Len(Out), j \in 1 .. Len(pieces) :
           Before(Out[i], pieces[j]),
         Fwrite(pieces)
  PROVE  /\ file' \in Seq(Piece) /\ held' \in Seq(Piece)
         /\ Ordered(Out)'
         /\ \A i \in 1 .. Len(Out') :
              \/ \E j \in 1 .. Len(Out) : Out'[i] = Out[j]
              \/ \E j \in 1 .. Len(pieces) : Out'[i] = pieces[j]
         /\ \A i \in 1 .. Len(held') :
              \/ \E j \in 1 .. Len(held) : held'[i] = held[j]
              \/ \E j \in 1 .. Len(pieces) : held'[i] = pieces[j]
<1>1. PICK p \in Seq(Piece) :
        /\ Len(p) <= Len(pieces)
        /\ \A i \in 1 .. Len(p) : p[i] = pieces[i]
        /\ file' \in Seq(Piece) /\ held' \in Seq(Piece)
        /\ Out' = Out \o p
        /\ \A i \in 1 .. Len(held') :
             \/ \E j \in 1 .. Len(held) : held'[i] = held[j]
             \/ \E j \in 1 .. Len(p) : held'[i] = p[j]
  BY FwriteKeeps DEF SinkType
<1>2. Out \in Seq(Piece)
  BY ConcatProperties DEF Out, SinkType
<1>3. /\ Len(p) \in Nat /\ Len(pieces) \in Nat /\ Len(Out) \in Nat
      /\ \A j \in 1 .. Len(p) : j \in 1 .. Len(pieces)
  <2>1. Len(p) \in Nat /\ Len(pieces) \in Nat /\ Len(Out) \in Nat
    BY <1>2, LenProperties
  <2> QED
    BY <1>1, <2>1
<1>4. Ordered(p)
  BY <1>1, OrderedPrefix
<1>5. \A i \in 1 .. Len(Out), j \in 1 .. Len(p) : Before(Out[i], p[j])
  BY <1>1, <1>3
<1>6. Ordered(Out \o p)
  BY <1>2, <1>4, <1>5, OrderedJoin
<1>7. Ordered(Out)'
  BY <1>1, <1>6 DEF Ordered
<1>8. ASSUME NEW i \in 1 .. Len(Out')
      PROVE  \/ \E j \in 1 .. Len(Out) : Out'[i] = Out[j]
             \/ \E j \in 1 .. Len(pieces) : Out'[i] = pieces[j]
  <2>1. /\ Len(Out \o p) = Len(Out) + Len(p)
        /\ \A k \in 1 .. Len(Out) + Len(p) :
             (Out \o p)[k] = IF k <= Len(Out) THEN Out[k] ELSE p[k - Len(Out)]
    BY <1>2, ConcatProperties
  <2>2. i \in 1 .. Len(Out) + Len(p) /\ Out'[i] = (Out \o p)[i]
    BY <1>1, <2>1
  <2>3. CASE i <= Len(Out)
    <3>1. i \in 1 .. Len(Out) /\ Out'[i] = Out[i]
      BY <1>3, <2>1, <2>2, <2>3
    <3> QED
      BY <3>1
  <2>4. CASE ~(i <= Len(Out))
    <3>1. i - Len(Out) \in 1 .. Len(p) /\ Out'[i] = p[i - Len(Out)]
      BY <1>3, <2>1, <2>2, <2>4
    <3>2. /\ i - Len(Out) \in 1 .. Len(pieces)
          /\ p[i - Len(Out)] = pieces[i - Len(Out)]
      BY <1>1, <1>3, <3>1
    <3> QED
      BY <3>1, <3>2
  <2> QED
    BY <2>3, <2>4
<1>9. ASSUME NEW i \in 1 .. Len(held')
      PROVE  \/ \E j \in 1 .. Len(held) : held'[i] = held[j]
             \/ \E j \in 1 .. Len(pieces) : held'[i] = pieces[j]
  <2>1. CASE \E j \in 1 .. Len(held) : held'[i] = held[j]
    BY <2>1
  <2>2. CASE \E j \in 1 .. Len(p) : held'[i] = p[j]
    <3>1. PICK j \in 1 .. Len(p) : held'[i] = p[j]
      BY <2>2
    <3>2. j \in 1 .. Len(pieces) /\ p[j] = pieces[j]
      BY <1>1, <1>3
    <3> QED
      BY <3>1, <3>2
  <2> QED
    BY <1>1, <2>1, <2>2
<1> QED
  BY <1>1, <1>7, <1>8, <1>9

\* A line without its newline, and the newline: ordered pieces of the entry.
LEMMA LinePieces ==
  ASSUME SinkType
  PROVE  /\ Body \in Seq(Piece) /\ Len(Body) = Pieces /\ Ordered(Body)
         /\ \A j \in 1 .. Len(Body) : Body[j] = <<entry, j>> /\ j <= Pieces
         /\ Newline \in Seq(Piece) /\ Len(Newline) = 1 /\ Ordered(Newline)
         /\ \A j \in 1 .. Len(Newline) : Newline[j] = <<entry, Pieces + 1>>
<1>1. Pieces \in Nat /\ entry \in Nat
  BY SinkAssumption DEF SinkType
<1>2. Body \in [1 .. Pieces -> Piece]
  BY <1>1 DEF Body, Piece
<1>3. Body \in Seq(Piece) /\ Len(Body) = Pieces
  BY <1>1, <1>2
<1>4. \A j \in 1 .. Len(Body) : Body[j] = <<entry, j>> /\ j <= Pieces
  BY <1>1, <1>3 DEF Body
<1>5. Ordered(Body)
  BY <1>1, <1>3, <1>4 DEF Ordered, Before
<1>6. /\ Newline \in Seq(Piece) /\ Len(Newline) = 1
      /\ \A j \in 1 .. Len(Newline) : Newline[j] = <<entry, Pieces + 1>>
  BY <1>1 DEF Newline, Piece
<1>7. Ordered(Newline)
  BY <1>6 DEF Ordered
<1> QED
  BY <1>3, <1>4, <1>5, <1>6, <1>7

-------------------------------------------------------------------------------
(* The invariant.                                                          *)

LEMMA SinkInvInit == Init => SinkInv
<1> SUFFICES ASSUME Init PROVE SinkInv
  OBVIOUS
<1>1. file = << >> /\ held = << >> /\ entry = 0 /\ failed = {} /\ pc = "idle"
        /\ full \in BOOLEAN
  BY DEF Init
<1>2. SinkType
  BY <1>1 DEF SinkType
<1>3. Len(Out) = 0 /\ Len(held) = 0
  BY <1>1 DEF Out
<1> QED
  BY <1>2, <1>3 DEF SinkInv, Ordered

\* The two writes: the body stands behind everything, the newline behind the
\* body, whatever of it was taken.
LEMMA WriteBodyStep == SinkInv /\ WriteBody => SinkInv'
<1> SUFFICES ASSUME SinkInv, WriteBody PROVE SinkInv'
  OBVIOUS
<1>1. /\ SinkType /\ Ordered(Out) /\ pc = "body" /\ pc' = "newline"
      /\ Fwrite(Body) /\ full' = full /\ entry' = entry /\ failed' = failed
      /\ entry \in Nat /\ Pieces \in Nat
  BY SinkAssumption DEF SinkInv, SinkType, WriteBody, Moves
<1>2. \A i \in 1 .. Len(Out) : Out[i][1] < entry
  BY <1>1 DEF SinkInv, NotYet
<1>3. \A i \in 1 .. Len(Out), j \in 1 .. Len(Body) : Before(Out[i], Body[j])
  BY <1>1, <1>2, LinePieces DEF Before
<1>4. /\ file' \in Seq(Piece) /\ held' \in Seq(Piece)
      /\ Ordered(Out)'
      /\ \A i \in 1 .. Len(Out') :
           \/ \E j \in 1 .. Len(Out) : Out'[i] = Out[j]
           \/ \E j \in 1 .. Len(Body) : Out'[i] = Body[j]
      /\ \A i \in 1 .. Len(held') :
           \/ \E j \in 1 .. Len(held) : held'[i] = held[j]
           \/ \E j \in 1 .. Len(Body) : held'[i] = Body[j]
  BY <1>1, <1>3, LinePieces, FwriteInOrder
<1>5. SinkType'
  BY <1>1, <1>4 DEF SinkType
<1>6. ASSUME NEW i \in 1 .. Len(Out') PROVE NotYet(Out[i])'
  <2>1. CASE \E j \in 1 .. Len(Out) : Out'[i] = Out[j]
    BY <1>1, <1>2, <2>1 DEF SinkInv, NotYet
  <2>2. CASE \E j \in 1 .. Len(Body) : Out'[i] = Body[j]
    BY <1>1, <2>2, LinePieces DEF NotYet
  <2> QED
    BY <1>4, <2>1, <2>2
<1>7. ASSUME NEW i \in 1 .. Len(held') PROVE MayWait(held[i])'
  <2>1. CASE \E j \in 1 .. Len(held) : held'[i] = held[j]
    BY <1>1, <2>1 DEF SinkInv, MayWait
  <2>2. CASE \E j \in 1 .. Len(Body) : held'[i] = Body[j]
    BY <1>1, <2>2, LinePieces DEF MayWait
  <2> QED
    BY <1>4, <2>1, <2>2
<1> QED
  BY <1>4, <1>5, <1>6, <1>7 DEF SinkInv

LEMMA WriteNewlineStep == SinkInv /\ WriteNewline => SinkInv'
<1> SUFFICES ASSUME SinkInv, WriteNewline PROVE SinkInv'
  OBVIOUS
<1>1. /\ SinkType /\ Ordered(Out) /\ pc = "newline" /\ pc' = "flush"
      /\ Fwrite(Newline) /\ full' = full /\ entry' = entry
      /\ failed' = failed /\ entry \in Nat /\ Pieces \in Nat
  BY SinkAssumption DEF SinkInv, SinkType, WriteNewline, Moves
<1>2. \A i \in 1 .. Len(Out) :
        Out[i][1] <= entry /\ (Out[i][1] = entry => Out[i][2] <= Pieces)
  BY <1>1 DEF SinkInv, NotYet
<1>3. \A i \in 1 .. Len(Out) : Out[i] \in Piece
  <2>1. Out \in Seq(Piece)
    BY <1>1, ConcatProperties DEF SinkType, Out
  <2> QED
    BY <2>1, ElementOfSeq
<1>4. \A i \in 1 .. Len(Out), j \in 1 .. Len(Newline) :
        Before(Out[i], Newline[j])
  <2> SUFFICES ASSUME NEW i \in 1 .. Len(Out), NEW j \in 1 .. Len(Newline)
               PROVE  Before(Out[i], Newline[j])
    OBVIOUS
  <2>1. Newline[j] = <<entry, Pieces + 1>>
    BY <1>1, LinePieces
  <2>2. /\ Out[i][1] <= entry /\ (Out[i][1] = entry => Out[i][2] <= Pieces)
        /\ Out[i] \in Piece
    BY <1>2, <1>3
  <2> QED
    BY <1>1, <2>1, <2>2 DEF Before, Piece
<1>5. /\ file' \in Seq(Piece) /\ held' \in Seq(Piece)
      /\ Ordered(Out)'
      /\ \A i \in 1 .. Len(Out') :
           \/ \E j \in 1 .. Len(Out) : Out'[i] = Out[j]
           \/ \E j \in 1 .. Len(Newline) : Out'[i] = Newline[j]
      /\ \A i \in 1 .. Len(held') :
           \/ \E j \in 1 .. Len(held) : held'[i] = held[j]
           \/ \E j \in 1 .. Len(Newline) : held'[i] = Newline[j]
  BY <1>1, <1>4, LinePieces, FwriteInOrder
<1>6. SinkType'
  BY <1>1, <1>5 DEF SinkType
<1>7. ASSUME NEW i \in 1 .. Len(Out') PROVE NotYet(Out[i])'
  <2>1. CASE \E j \in 1 .. Len(Out) : Out'[i] = Out[j]
    BY <1>1, <1>2, <2>1 DEF NotYet
  <2>2. CASE \E j \in 1 .. Len(Newline) : Out'[i] = Newline[j]
    BY <1>1, <2>2, LinePieces DEF NotYet
  <2> QED
    BY <1>5, <2>1, <2>2
<1>8. ASSUME NEW i \in 1 .. Len(held') PROVE MayWait(held[i])'
  <2>1. CASE \E j \in 1 .. Len(held) : held'[i] = held[j]
    BY <1>1, <2>1 DEF SinkInv, MayWait
  <2>2. CASE \E j \in 1 .. Len(Newline) : held'[i] = Newline[j]
    BY <1>1, <2>2, LinePieces DEF MayWait
  <2> QED
    BY <1>5, <2>1, <2>2
<1> QED
  BY <1>5, <1>6, <1>7, <1>8 DEF SinkInv

\* A flush, of all or of some, only moves pieces from the buffer to the file.
LEMMA FlushStep == SinkInv /\ (Flush \/ FlushFails) => SinkInv'
<1> SUFFICES ASSUME SinkInv, Flush \/ FlushFails PROVE SinkInv'
  OBVIOUS
<1>1. /\ SinkType /\ pc = "flush" /\ pc' = "idle" /\ full' = full
      /\ entry' = entry /\ entry \in Nat
      /\ failed \subseteq failed' /\ failed' \subseteq Nat
  BY DEF SinkInv, SinkType, Flush, FlushFails, Moves
<1>2. /\ file' \in Seq(Piece) /\ held' \in Seq(Piece) /\ Out' = Out
      /\ \A i \in 1 .. Len(held') : MayWait(held[i])'
  <2>1. CASE Flush
    <3>1. file' = Out /\ held' = << >>
      BY <2>1 DEF Flush, Out
    <3>2. Out \in Seq(Piece)
      BY <1>1, ConcatProperties DEF SinkType, Out
    <3>3. Out \o << >> = Out
      BY <3>2, ConcatEmptySeq
    <3> QED
      BY <3>1, <3>2, <3>3 DEF Out
  <2>2. CASE FlushFails
    <3>1. GoesOut(held) /\ failed' = failed \cup {entry}
      BY <2>2 DEF FlushFails
    <3>2. /\ file' \in Seq(Piece) /\ held' \in Seq(Piece)
          /\ Out' = file \o held
          /\ \A i \in 1 .. Len(held') :
               \E j \in 1 .. Len(held) : held'[i] = held[j]
      BY <1>1, <3>1, GoesOutKeeps DEF SinkType
    <3>3. \A j \in 1 .. Len(held) : held[j][1] \in failed \cup {entry}
      BY <1>1 DEF SinkInv, MayWait
    <3> QED
      BY <1>1, <3>1, <3>2, <3>3 DEF Out, MayWait
  <2> QED
    BY <2>1, <2>2
<1>3. SinkType'
  BY <1>1, <1>2 DEF SinkType
<1>4. Ordered(Out)' /\ \A i \in 1 .. Len(Out') : NotYet(Out[i])'
  BY <1>1, <1>2 DEF SinkInv, Ordered, NotYet
<1> QED
  BY <1>2, <1>3, <1>4 DEF SinkInv

\* What a last write or the death of the process leaves is a prefix.
LEMMA EndStep == SinkInv /\ (Destroy \/ Crash) => SinkInv'
<1> SUFFICES ASSUME SinkInv, Destroy \/ Crash PROVE SinkInv'
  OBVIOUS
<1>1. /\ SinkType /\ pc' = "closed" /\ held' = << >> /\ full' = full
      /\ entry' = entry /\ failed' = failed /\ entry \in Nat
      /\ Len(held) \in Nat /\ Len(file) \in Nat
  BY LenProperties DEF SinkInv, SinkType, Destroy, Crash, Moves
<1>2. PICK n \in 0 .. Len(held) : file' = file \o SubSeq(held, 1, n)
  <2>1. CASE Destroy
    BY <2>1 DEF Destroy
  <2>2. CASE Crash
    <3>1. SubSeq(held, 1, 0) = << >> /\ file \o << >> = file
      BY <1>1, SubSeqEmpty, ConcatEmptySeq DEF SinkType
    <3>2. file' = file
      BY <2>2 DEF Crash
    <3>3. file \o SubSeq(held, 1, 0) = file \o << >>
      BY <3>1
    <3>4. 0 \in 0 .. Len(held)
      BY <1>1
    <3> QED
      BY <3>1, <3>2, <3>3, <3>4
  <2> QED
    BY <2>1, <2>2
<1> DEFINE p == SubSeq(held, 1, n)
<1>3. p \in Seq(Piece) /\ Len(p) = n /\ \A i \in 1 .. n : p[i] = held[i]
  BY <1>1, PartAndJoin, PartsOf DEF SinkType
<1> HIDE DEF p
<1>4. file' = file \o p
  BY <1>2 DEF p
<1>5. /\ file' \in Seq(Piece) /\ Out' = file'
      /\ Len(file') = Len(file) + n
      /\ \A i \in 1 .. Len(file) + n :
           file'[i] = IF i <= Len(file) THEN file[i] ELSE held[i - Len(file)]
  <2>1. /\ file \o p \in Seq(Piece) /\ Len(file \o p) = Len(file) + n
        /\ \A i \in 1 .. Len(file) + n :
             (file \o p)[i] = IF i <= Len(file) THEN file[i]
                                               ELSE p[i - Len(file)]
    BY <1>1, <1>3, ConcatProperties DEF SinkType
  <2>2. \A i \in 1 .. Len(file) + n :
          ~(i <= Len(file)) => i - Len(file) \in 1 .. n
    BY <1>1
  <2>3. (file \o p) \o << >> = file \o p
    BY <2>1, ConcatEmptySeq
  <2> QED
    BY <1>1, <1>3, <1>4, <2>1, <2>2, <2>3 DEF Out
<1>6. /\ Out \in Seq(Piece) /\ Len(Out) = Len(file) + Len(held)
      /\ \A i \in 1 .. Len(file) + Len(held) :
           Out[i] = IF i <= Len(file) THEN file[i] ELSE held[i - Len(file)]
  BY <1>1, ConcatProperties DEF SinkType, Out
<1>7. /\ Len(Out') <= Len(Out)
      /\ \A i \in 1 .. Len(Out') : i \in 1 .. Len(Out) /\ Out'[i] = Out[i]
  <2>1. Len(Out') = Len(file) + n /\ n <= Len(held)
    BY <1>1, <1>5
  <2>2. ASSUME NEW i \in 1 .. Len(Out')
        PROVE  i \in 1 .. Len(Out) /\ Out'[i] = Out[i]
    <3>1. /\ i \in 1 .. Len(file) + n
          /\ i \in 1 .. Len(file) + Len(held)
      BY <1>1, <2>1
    <3>2. Out'[i] = IF i <= Len(file) THEN file[i] ELSE held[i - Len(file)]
      BY <1>5, <3>1
    <3> QED
      BY <1>6, <3>1, <3>2
  <2> QED
    BY <1>1, <1>6, <2>1, <2>2
<1>8. SinkType'
  BY <1>1, <1>5 DEF SinkType
<1>9. Ordered(Out)'
  <2>1. Out' \in Seq(Piece) /\ Ordered(Out)
    BY <1>5 DEF SinkInv
  <2>2. ASSUME NEW t \in Seq(Piece), Len(t) <= Len(Out),
               \A i \in 1 .. Len(t) : t[i] = Out[i]
        PROVE  Ordered(t)
    BY <1>6, <2>1, <2>2, OrderedPrefix
  <2> QED
    BY <1>7, <2>1, <2>2 DEF Ordered
<1>10. \A i \in 1 .. Len(Out') : NotYet(Out[i])'
  BY <1>1, <1>7 DEF SinkInv, NotYet
<1> QED
  BY <1>1, <1>8, <1>9, <1>10 DEF SinkInv

\* No piece moves, and a new entry has none out.
LEMMA OtherStep ==
  SinkInv /\ (HandOver \/ Device \/ UNCHANGED vars) => SinkInv'
<1> SUFFICES ASSUME SinkInv, HandOver \/ Device \/ UNCHANGED vars
             PROVE  SinkInv'
  OBVIOUS
<1>1. file' = file /\ held' = held /\ failed' = failed /\ SinkType
  BY DEF SinkInv, HandOver, Device, vars
<1>2. Out' = Out /\ Out \in Seq(Piece)
  BY <1>1, ConcatProperties DEF Out, SinkType
<1>3. SinkType'
  <2>1. CASE HandOver
    BY <1>1, <2>1 DEF SinkType, HandOver, Moves
  <2>2. CASE Device
    BY <1>1, <2>2 DEF SinkType, Device
  <2>3. CASE UNCHANGED vars
    BY <1>1, <2>3 DEF SinkType, vars
  <2> QED
    BY <2>1, <2>2, <2>3
<1>4. Ordered(Out)'
  BY <1>2 DEF SinkInv, Ordered
<1>5. \A i \in 1 .. Len(Out) : Out[i] \in Piece
  BY <1>2, ElementOfSeq
<1>6. CASE HandOver
  <2>1. /\ pc = "idle" /\ pc' = "body" /\ entry' = entry + 1
        /\ entry \in Nat
    BY <1>1, <1>6 DEF HandOver, Moves, SinkType
  <2>2. \A i \in 1 .. Len(Out') : NotYet(Out[i])'
    <3>1. \A i \in 1 .. Len(Out) : Out[i][1] \in Nat /\ Out[i][1] <= entry
      BY <1>5 DEF SinkInv, NotYet, Piece
    <3>2. \A i \in 1 .. Len(Out) : Out[i][1] < entry + 1
      BY <2>1, <3>1
    <3> QED
      BY <1>2, <2>1, <3>1, <3>2 DEF NotYet
  <2>3. \A i \in 1 .. Len(held') : MayWait(held[i])'
    BY <1>1, <2>1 DEF SinkInv, MayWait
  <2> QED
    BY <1>3, <1>4, <2>2, <2>3 DEF SinkInv
<1>7. CASE Device \/ UNCHANGED vars
  <2>1. pc' = pc /\ entry' = entry
    BY <1>7 DEF Device, vars
  <2> QED
    BY <1>1, <1>2, <1>3, <1>4, <2>1 DEF SinkInv, NotYet, MayWait
<1> QED
  BY <1>6, <1>7

\* The sink's file and buffer, between any two of its calls.
THEOREM SinkInvariance == Spec => []SinkInv
<1>1. SinkInv /\ [Next]_vars => SinkInv'
  BY WriteBodyStep, WriteNewlineStep, FlushStep, EndStep, OtherStep DEF Next
<1> QED
  BY <1>1, SinkInvInit, PTL DEF Spec

-------------------------------------------------------------------------------
(* The properties that the run checks.                                     *)

\* Whatever the device refuses, and when, nothing comes out twice and no entry
\* within or before an earlier one (mp_logger_streams.c:307-317).
THEOREM EntriesInOrder == Spec => []InOrder
<1>1. SinkInv => InOrder
  BY DEF SinkInv, InOrder, Ordered, Out
<1> QED
  BY <1>1, SinkInvariance, PTL

\* Between two writes the buffer holds nothing but of entries that the worker
\* was told of (mp_logger_streams.c:313-316).
THEOREM OnlyFailedWait == Spec => []CrashLosesOnlyFailed
<1>1. SinkInv => CrashLosesOnlyFailed
  BY DEF SinkInv, CrashLosesOnlyFailed, MayWait
<1> QED
  BY <1>1, SinkInvariance, PTL
===============================================================================
