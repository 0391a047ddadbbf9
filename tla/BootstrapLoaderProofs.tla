-------------------------- MODULE BootstrapLoaderProofs --------------------------
(***************************************************************************)
(* Proofs about BootstrapLoader, for any sections and keys and for files   *)
(* of any length: MaxLines bounds the runs only, nothing here uses it.     *)
(***************************************************************************)
EXTENDS BootstrapLoader, SequenceTheorems, WellFoundedInduction, TLAPS

\* The loader's own copy is a whole configuration from the first line on.
LoaderType ==
  /\ lpc \in {"open", "reading", "OK", "error"}
  /\ config \in [Setting -> Stored]
  /\ read \in Seq(Line)
  /\ cut \in BOOLEAN

\* Until a line is misread, the loader is in the section in which the next line
\* stands, and what it has stored is what the lines say.
Follows ==
  /\ section = SectionAt(Len(read) + 1)
  /\ \A i \in 1 .. Len(read) : Good(i)
  /\ \A x \in Setting : Says(x[1], x[2]) = {config[x]}

LoaderInv ==
  /\ LoaderType
  /\ lpc = "open" => read = << >> /\ section = Root /\ config = Defaults
  /\ lpc \in {"reading", "OK"} =>
       /\ Parted(Len(read)) \/ Follows
       /\ \A i \in 1 .. Len(read) : Good(i) \/ Parted(i)
  /\ out_config = IF lpc = "OK" THEN config ELSE << >>
  /\ lpc = "error" =>
       \A i \in 1 .. Len(read) : (Good(i) <=> i < Len(read)) \/ Parted(i)

-------------------------------------------------------------------------------
(* Lines and the nearest of them.                                          *)

\* Lines have a last one among any of them.
LEMMA LastExists ==
  ASSUME NEW n \in Nat, NEW S \in SUBSET (1 .. n), S # {}
  PROVE  Max(S) \in S /\ \A y \in S : Max(S) >= y
<1> DEFINE R == OpToRel(<, Nat)
           T == {n - y : y \in S}
<1>2. IsWellFoundedOn(R, Nat)
  BY NatLessThanWellFounded
<1> HIDE DEF R
<1>1. T \subseteq Nat /\ T # {}
  <2>1. \A y \in S : y \in 1 .. n /\ n - y \in Nat
    OBVIOUS
  <2> QED
    BY <2>1
<1>3. PICK x \in T : \A y \in T : ~(<<y, x>> \in R)
  <2> HIDE DEF T
  <2> QED
    BY <1>1, <1>2, WFMin
<1>4. PICK m \in S : x = n - m
  OBVIOUS
<1>5. ASSUME NEW y \in S PROVE m >= y
  <2>1. n - y \in T /\ n - y \in Nat /\ n - m \in Nat
    BY <1>1
  <2>2. ~(<<n - y, n - m>> \in R)
    BY <1>3, <1>4, <2>1
  <2>3. ~(n - y < n - m)
    BY <2>1, <2>2 DEF R, OpToRel
  <2> QED
    BY <2>3
<1> QED
  BY <1>5 DEF Max

\* A last line that is behind all the others is the last.
LEMMA LastIsNew ==
  ASSUME NEW n \in Nat, NEW S \in SUBSET (1 .. n), n \in S
  PROVE  Max(S) = n
<1>1. Max(S) \in S /\ Max(S) >= n
  BY LastExists
<1>2. Max(S) \in 1 .. n
  BY <1>1
<1> QED
  BY <1>1, <1>2

\* A value becomes one thing, if it is taken at all.
LEMMA OneResult ==
  ASSUME NEW s, NEW k, NEW value,
         NEW v \in Results(s, k, value), NEW w \in Results(s, k, value)
  PROVE  v = w
BY LoaderAssumption DEF Results

LEMMA ResultIsStored ==
  ASSUME NEW s, NEW k, NEW value, NEW v \in Results(s, k, value)
  PROVE  v \in Stored /\ <<s, k>> \in Setting
BY DEF Results, Setting, Keys, KeysOf

\* A value that is not misread becomes what it says, or is refused by both.
LEMMA ResultIsMeant ==
  ASSUME NEW s \in Sections, NEW k, NEW value \in Values, value # "empty",
         ~(value = "negative" /\ k \in SizeKeys[s]),
         ~(value = "nested" /\ k \in TextKeys[s])
  PROVE  Results(s, k, value) = Means(s, k, value)
<1>1. Values \subseteq Stored
  BY DEF Stored
<1>2. value \in Values /\ "number" \in Values /\ "large" \in Values
      /\ "word" \in Values
  BY DEF Values
<1>3. Results(s, k, value) =
        {v \in Stored :
           \/ k \in TextKeys[s] /\ v = value
           \/ k \in ChoiceKeys[s] /\ value = "word" /\ v = "word"
           \/ k \in SizeKeys[s] /\ value \in {"number", "large"} /\ v = value
           \/ k \in PortKeys[s] /\ value = "number" /\ v = "number"}
  BY DEF Results
<1>4. ASSUME NEW v
      PROVE  v \in Results(s, k, value) <=> v \in Means(s, k, value)
  BY <1>1, <1>2, <1>3 DEF Means
<1> QED
  BY <1>4

-------------------------------------------------------------------------------
(* One more line.                                                          *)

\* The lines before it read as they did.
LEMMA LinesStay ==
  ASSUME read \in Seq(Line), NEW line \in Line, read' = Append(read, line)
  PROVE  /\ Len(read) \in Nat /\ Len(read') = Len(read) + 1
         /\ read' \in Seq(Line)
         /\ \A i \in 1 .. Len(read) : read'[i] = read[i]
         /\ read'[Len(read) + 1] = line
         /\ \A i \in 1 .. Len(read) + 1 : SectionAt(i)' = SectionAt(i)
         /\ \A i \in 1 .. Len(read) :
              /\ IsSetting(i)' <=> IsSetting(i)
              /\ Good(i)' <=> Good(i)
              /\ Parted(i)' <=> Parted(i)
<1>1. /\ Len(read) \in Nat /\ Len(read') = Len(read) + 1
      /\ read' \in Seq(Line)
      /\ \A i \in 1 .. Len(read) : read'[i] = read[i]
      /\ read'[Len(read) + 1] = line
  BY AppendProperties, LenProperties
<1>2. \A i \in 1 .. Len(read) :
        /\ IsHeader(i)' <=> IsHeader(i)
        /\ IsSetting(i)' <=> IsSetting(i)
  BY <1>1 DEF IsHeader, IsSetting
<1>3. ASSUME NEW i \in 1 .. Len(read) + 1
      PROVE  SectionAt(i)' = SectionAt(i)
  <2> DEFINE H == {j \in 1 .. i - 1 : IsHeader(j)}
  <2>1. \A j \in 1 .. i - 1 : j \in 1 .. Len(read)
    BY <1>1
  <2>2. H' = H
    BY <1>2, <2>1
  <2>3. CASE H = {}
    BY <2>2, <2>3 DEF SectionAt
  <2>4. CASE H # {}
    <3>1. i - 1 \in Nat /\ H \in SUBSET (1 .. i - 1)
      BY <1>1
    <3>2. Max(H) \in H
      <4> HIDE DEF H
      <4> QED
        BY <2>4, <3>1, LastExists
    <3>3. read'[Max(H)] = read[Max(H)]
      BY <1>1, <2>1, <3>2
    <3> QED
      BY <2>2, <2>4, <3>3 DEF SectionAt
  <2> QED
    BY <2>3, <2>4
<1>4. ASSUME NEW i \in 1 .. Len(read)
      PROVE  (Good(i)' <=> Good(i)) /\ (Misread(i)' <=> Misread(i))
  <2>1. i \in 1 .. Len(read) + 1
    BY <1>1
  <2>2. SectionAt(i)' = SectionAt(i)
    BY <1>3, <2>1
  <2>3. MeansAt(i)' = MeansAt(i)
    BY <1>1, <2>2 DEF MeansAt, Means
  <2> QED
    BY <1>1, <1>2, <2>2, <2>3 DEF Good, Misread
<1>5. ASSUME NEW i \in 1 .. Len(read) PROVE Parted(i)' <=> Parted(i)
  <2>1. \A j \in 1 .. i : j \in 1 .. Len(read)
    BY <1>1
  <2> QED
    BY <1>4, <2>1 DEF Parted
<1> QED
  BY <1>1, <1>2, <1>3, <1>4, <1>5

\* Lines stand in sections that are known.
LEMMA SectionIsKnown ==
  ASSUME NEW i \in Nat, i # 0
  PROVE  SectionAt(i) \in Sections
<1> DEFINE H == {j \in 1 .. i - 1 : IsHeader(j)}
<1>1. i - 1 \in Nat /\ H \in SUBSET (1 .. i - 1)
  OBVIOUS
<1>2. H # {} => Max(H) \in H
  <2> HIDE DEF H
  <2> QED
    BY <1>1, LastExists
<1>3. H # {} => IsHeader(Max(H))
  BY <1>2
<1>4. SectionAt(i) = IF H = {} THEN Root ELSE read[Max(H)].key
  BY DEF SectionAt
<1> HIDE DEF H
<1> QED
  BY <1>3, <1>4, LoaderAssumption DEF IsHeader

\* The new line is where the loader and the documents part, or they have before.
LEMMA PartedBehind ==
  ASSUME read \in Seq(Line), NEW line \in Line, read' = Append(read, line),
         NEW n \in Nat, n = Len(read)
  PROVE  Parted(n + 1)' <=> Parted(n) \/ Misread(n + 1)'
<1>1. \A j \in 1 .. n + 1 : j \in 1 .. n \/ j = n + 1
  OBVIOUS
<1>2. n = 0 \/ n \in 1 .. n
  OBVIOUS
<1>3. CASE n = 0
  <2>1. ~Parted(n)
    BY <1>3 DEF Parted
  <2>2. Parted(n + 1)' <=> Misread(n + 1)'
    BY <1>1, <1>3 DEF Parted
  <2> QED
    BY <2>1, <2>2
<1>4. CASE n \in 1 .. n
  <2>1. Parted(n)' <=> Parted(n)
    BY <1>4, LinesStay
  <2>2. Parted(n + 1)' <=> Parted(n)' \/ Misread(n + 1)'
    BY <1>1 DEF Parted
  <2> QED
    BY <2>1, <2>2
<1> QED
  BY <1>2, <1>3, <1>4

\* The section behind it.
LEMMA SectionBehind ==
  ASSUME read \in Seq(Line), NEW line \in Line, read' = Append(read, line),
         NEW n \in Nat, n = Len(read)
  PROVE  SectionAt(n + 2)' =
           IF /\ line.form = "pair" /\ line.value = "empty"
              /\ line.key \in Sections \ {Root}
           THEN line.key ELSE SectionAt(n + 1)
<1> DEFINE H == {j \in 1 .. n : IsHeader(j)}
           G == {j \in 1 .. n + 1 : IsHeader(j)'}
<1>1. /\ n \in Nat /\ read'[n + 1] = line
      /\ \A i \in 1 .. n : read'[i] = read[i]
  BY LinesStay
<1>2. (n + 2) - 1 = n + 1 /\ (n + 1) - 1 = n
  BY <1>1
<1>3. SectionAt(n + 2)' = IF G = {} THEN Root ELSE read'[Max(G)].key
  BY <1>2 DEF SectionAt
<1>4. SectionAt(n + 1) = IF H = {} THEN Root ELSE read[Max(H)].key
  BY <1>2 DEF SectionAt
<1>5. \A j \in 1 .. n : IsHeader(j)' <=> IsHeader(j)
  BY <1>1 DEF IsHeader
<1>6. IsHeader(n + 1)' <=> /\ line.form = "pair" /\ line.value = "empty"
                           /\ line.key \in Sections \ {Root}
  BY <1>1 DEF IsHeader
<1>7. CASE IsHeader(n + 1)'
  <2>1. G \in SUBSET (1 .. n + 1) /\ n + 1 \in G /\ n + 1 \in Nat
    BY <1>1, <1>7
  <2>2. Max(G) = n + 1
    <3> HIDE DEF G
    <3> QED
      BY <2>1, LastIsNew
  <2> QED
    BY <1>1, <1>3, <1>6, <1>7, <2>1, <2>2
<1>8. CASE ~(IsHeader(n + 1)')
  <2>1. G = H
    BY <1>1, <1>5, <1>8
  <2>2. H # {} => Max(H) \in 1 .. n
    <3>1. H \in SUBSET (1 .. n)
      OBVIOUS
    <3> HIDE DEF H
    <3> QED
      BY <1>1, <3>1, LastExists
  <2> QED
    BY <1>1, <1>3, <1>4, <1>6, <1>8, <2>1, <2>2
<1> QED
  BY <1>7, <1>8

\* The line is refused exactly if it is not good where it stands.
LEMMA GoodBehind ==
  ASSUME read \in Seq(Line), NEW line \in Line, read' = Append(read, line),
         NEW n \in Nat, n = Len(read), section = SectionAt(n + 1),
         ~(Misread(n + 1)')
  PROVE  Good(n + 1)' <=> ~Refused(line)
<1>1. read'[n + 1] = line /\ SectionAt(n + 1)' = section
  BY LinesStay
<1>2. \/ line.form \in {"blank", "noColon"} /\ line.value = "empty"
      \/ line.form = "pair" /\ line.value \in Values
  BY DEF Line
<1>3. section \in Sections
  BY SectionIsKnown
<1>4. MeansAt(n + 1)' = Means(section, line.key, line.value)
  BY <1>1 DEF MeansAt, Means
<1>5. CASE line.form # "pair" \/ line.value = "empty"
  BY <1>1, <1>2, <1>5 DEF Good, IsHeader, IsSetting, Refused, Misread
<1>6. CASE line.form = "pair" /\ line.value # "empty"
  <2>1. (IsSetting(n + 1))'
    BY <1>1, <1>6 DEF IsSetting, IsHeader
  <2>2. Results(section, line.key, line.value)
          = Means(section, line.key, line.value)
    BY <1>1, <1>2, <1>3, <1>6, <2>1, ResultIsMeant DEF Misread
  <2>3. line.key = "" => Means(section, line.key, line.value) = {}
    BY <1>3, KeyAssumption DEF Means, KeysOf
  <2> QED
    BY <1>1, <1>4, <1>6, <2>1, <2>2, <2>3 DEF Good, IsHeader, IsSetting, Refused
<1> QED
  BY <1>5, <1>6

\* What the lines say of a key: the new line decides, if it sets the key.
LEMMA SaysBehind ==
  ASSUME read \in Seq(Line), NEW line \in Line, read' = Append(read, line),
         NEW n \in Nat, n = Len(read), section = SectionAt(n + 1),
         NEW s, NEW k
  PROVE  Says(s, k)' =
           IF IsSetting(n + 1)' /\ section = s /\ line.key = k
           THEN Means(s, k, line.value) ELSE Says(s, k)
<1> DEFINE L == {i \in 1 .. n : IsSetting(i) /\ SectionAt(i) = s
                                 /\ read[i].key = k}
           M == {i \in 1 .. n + 1 : IsSetting(i)' /\ SectionAt(i)' = s
                                     /\ read'[i].key = k}
<1>1. /\ read'[n + 1] = line /\ SectionAt(n + 1)' = section
      /\ Len(read') = n + 1
      /\ \A i \in 1 .. n : i \in 1 .. n + 1 /\ read'[i] = read[i]
  <2>1. \A i \in 1 .. n : i \in 1 .. n + 1
    OBVIOUS
  <2> QED
    BY <2>1, LinesStay
<1>2. Says(s, k)' = IF M = {} THEN {"default"}
                    ELSE Means(s, k, read'[Max(M)].value)
  BY <1>1 DEF Says, Means
<1>3. Says(s, k) = IF L = {} THEN {"default"}
                   ELSE Means(s, k, read[Max(L)].value)
  BY DEF Says
<1>5. ASSUME NEW i \in 1 .. n PROVE SectionAt(i)' = SectionAt(i)
  <2>1. i \in 1 .. Len(read) + 1
    BY LinesStay
  <2> QED
    BY <2>1, LinesStay
<1> DEFINE sets == IsSetting(n + 1)' /\ section = s /\ line.key = k
<1>6. CASE sets
  <2>1. M \in SUBSET (1 .. n + 1) /\ n + 1 \in M /\ n + 1 \in Nat
    BY <1>1, <1>6
  <2>2. Max(M) = n + 1
    <3> HIDE DEF M
    <3> QED
      BY <2>1, LastIsNew
  <2> QED
    BY <1>1, <1>2, <1>6, <2>1, <2>2
<1>7. CASE ~sets
  <2>1. n + 1 \notin M
    BY <1>1, <1>7
  <2>2. M = L
    <3>1. \A i \in 1 .. n + 1 : i # n + 1 => i \in 1 .. n
      OBVIOUS
    <3>2. ASSUME NEW i \in 1 .. n PROVE i \in M <=> i \in L
      <4>1. IsSetting(i)' <=> IsSetting(i)
        BY LinesStay
      <4>2. SectionAt(i)' = SectionAt(i)
        BY <1>5
      <4>3. read'[i] = read[i] /\ i \in 1 .. n + 1
        BY <1>1
      <4> QED
        BY <4>1, <4>2, <4>3
    <3>3. M \subseteq 1 .. n /\ L \subseteq 1 .. n
      BY <2>1, <3>1
    <3> HIDE DEF M, L
    <3> QED
      BY <3>2, <3>3
  <2>3. L # {} => Max(L) \in 1 .. n
    <3>1. L \in SUBSET (1 .. n)
      OBVIOUS
    <3> HIDE DEF L
    <3> QED
      BY <3>1, LastExists
  <2> QED
    BY <1>1, <1>2, <1>3, <1>7, <2>2, <2>3
<1> QED
  BY <1>6, <1>7

-------------------------------------------------------------------------------
(* The invariant.                                                          *)

LEMMA LoaderInvInit == LoadInit => LoaderInv
<1> SUFFICES ASSUME LoadInit PROVE LoaderInv
  OBVIOUS
<1>1. config = Defaults /\ "default" \in Stored
  BY DEF LoadInit, Stored
<1>2. config \in [Setting -> Stored]
  BY <1>1 DEF Defaults
<1>3. LoaderType
  <2>1. << >> \in Seq(Line) /\ FALSE \in BOOLEAN
    OBVIOUS
  <2> QED
    BY <1>2, <2>1 DEF LoadInit, LoaderType
<1>4. lpc = "open" /\ read = << >> /\ section = Root /\ out_config = << >>
  BY DEF LoadInit
<1> QED
  BY <1>1, <1>3, <1>4 DEF LoaderInv

\* An empty file says nothing.
LEMMA OpenStep == LoaderInv /\ (Open \/ OpenFails) => LoaderInv'
<1> SUFFICES ASSUME LoaderInv, Open \/ OpenFails PROVE LoaderInv'
  OBVIOUS
<1>1. /\ lpc = "open" /\ read = << >> /\ section = Root /\ config = Defaults
      /\ read' = read /\ section' = section /\ config' = config
      /\ lpc' \in {"reading", "error"} /\ out_config' = << >>
      /\ Len(read) = 0 /\ cut' = cut
  BY DEF LoaderInv, Open, OpenFails
<1>2. LoaderType'
  BY <1>1 DEF LoaderInv, LoaderType
<1>3. (section = SectionAt(Len(read) + 1))'
  BY <1>1 DEF SectionAt
<1>4. \A x \in Setting : Says(x[1], x[2])' = {config'[x]}
  BY <1>1 DEF Says, Defaults
<1>5. Follows'
  BY <1>1, <1>3, <1>4 DEF Follows
<1> QED
  BY <1>1, <1>2, <1>5 DEF LoaderInv

\* Whatever a line that is taken does to the loader's copy, it stays one.
LEMMA LineKeepsType ==
  ASSUME LoaderInv, NEW line \in Line,
         SkipLine(line) \/ EnterSection(line) \/ ApplyValue(line)
  PROVE  LoaderType'
<1>1. /\ lpc' = "reading" /\ read \in Seq(Line) /\ read' = Append(read, line)
      /\ config \in [Setting -> Stored] /\ cut' = cut /\ cut \in BOOLEAN
  BY DEF LoaderInv, LoaderType, SkipLine, EnterSection, ApplyValue, Reads
<1>2. read' \in Seq(Line)
  BY <1>1, LinesStay
<1>3. config' \in [Setting -> Stored]
  <2>1. CASE SkipLine(line) \/ EnterSection(line)
    BY <1>1, <2>1 DEF SkipLine, EnterSection
  <2>2. CASE ApplyValue(line)
    <3>1. PICK v \in Results(section, line.key, line.value) :
            config' = [config EXCEPT ![<<section, line.key>>] = v]
      BY <2>2 DEF ApplyValue
    <3>2. v \in Stored
      BY <3>1, ResultIsStored
    <3> QED
      BY <1>1, <3>1, <3>2
  <2> QED
    BY <2>1, <2>2
<1> QED
  BY <1>1, <1>2, <1>3 DEF LoaderType

\* A line that is taken and not misread: the loader does what it says.
LEMMA LineFollows ==
  ASSUME LoaderInv, NEW line \in Line, Follows,
         SkipLine(line) \/ EnterSection(line) \/ ApplyValue(line),
         NEW m \in Nat, m = Len(read), ~(Misread(m + 1)')
  PROVE  Follows'
<1>1. /\ read \in Seq(Line) /\ read' = Append(read, line)
      /\ section = SectionAt(m + 1) /\ config \in [Setting -> Stored]
      /\ \A i \in 1 .. m : Good(i)
      /\ \A x \in Setting : Says(x[1], x[2]) = {config[x]}
  BY DEF Follows, LoaderInv, LoaderType, SkipLine, EnterSection, ApplyValue, Reads
<1>2. /\ Len(read') = m + 1 /\ read'[m + 1] = line
      /\ \A i \in 1 .. m : Good(i)' <=> Good(i)
      /\ SectionAt(m + 1)' = section
      /\ SectionAt(m + 2)' = IF /\ line.form = "pair" /\ line.value = "empty"
                                /\ line.key \in Sections \ {Root}
                             THEN line.key ELSE SectionAt(m + 1)
      /\ Good(m + 1)' <=> ~Refused(line)
  BY <1>1, LinesStay, SectionBehind, GoodBehind
<1>3. ~Refused(line)
  BY DEF SkipLine, EnterSection, ApplyValue, Refused
<1>4. /\ IsHeader(m + 1)' <=> line.form = "pair" /\ line.value = "empty"
      /\ IsHeader(m + 1)' => line.key \in Sections \ {Root}
      /\ IsSetting(m + 1)' <=> line.form = "pair" /\ line.value # "empty"
  BY <1>2 DEF Misread, IsSetting, IsHeader
<1>5. section' = SectionAt(m + 2)'
  BY <1>1, <1>2, <1>4 DEF SkipLine, EnterSection, ApplyValue, IsHeader
<1>6. (section = SectionAt(Len(read) + 1))'
  BY <1>2, <1>5
<1>7. \A i \in 1 .. Len(read') : Good(i)'
  <2>1. \A i \in 1 .. m + 1 : i # m + 1 => i \in 1 .. m
    OBVIOUS
  <2> QED
    BY <1>1, <1>2, <1>3, <2>1
<1>8. \A x \in Setting : Says(x[1], x[2])' = {config'[x]}
  <2>1. ASSUME NEW s, NEW k
        PROVE  Says(s, k)' =
                 IF IsSetting(m + 1)' /\ section = s /\ line.key = k
                 THEN Means(s, k, line.value) ELSE Says(s, k)
    BY <1>1, SaysBehind
  <2>2. CASE SkipLine(line) \/ EnterSection(line)
    <3>1. config' = config /\ ~(line.form = "pair" /\ line.value # "empty")
      BY <2>2 DEF SkipLine, EnterSection
    <3> QED
      BY <1>1, <1>4, <2>1, <3>1
  <2>3. CASE ApplyValue(line)
    <3>1. PICK v \in Results(section, line.key, line.value) :
            config' = [config EXCEPT ![<<section, line.key>>] = v]
      BY <2>3 DEF ApplyValue
    <3>2. line.form = "pair" /\ line.value # "empty" /\ line.value \in Values
      BY <2>3 DEF ApplyValue, Line
    <3>3. Means(section, line.key, line.value) = {v}
      <4>1. section \in Sections
        BY <1>1, SectionIsKnown
      <4>2. Results(section, line.key, line.value) = {v}
        BY <3>1, OneResult
      <4>3. /\ ~(line.value = "negative" /\ line.key \in SizeKeys[section])
            /\ ~(line.value = "nested" /\ line.key \in TextKeys[section])
        BY <1>2, <1>4, <3>2 DEF Misread
      <4> QED
        BY <3>2, <4>1, <4>2, <4>3, ResultIsMeant
    <3>4. ASSUME NEW x \in Setting PROVE Says(x[1], x[2])' = {config'[x]}
      <4>1. x = <<x[1], x[2]>>
        BY DEF Setting
      <4>2. CASE section = x[1] /\ line.key = x[2]
        <5>1. Says(x[1], x[2])' = Means(x[1], x[2], line.value)
          BY <1>4, <2>1, <3>2, <4>2
        <5>2. config'[x] = v
          BY <1>1, <3>1, <4>1, <4>2
        <5> QED
          BY <3>3, <4>2, <5>1, <5>2
      <4>3. CASE ~(section = x[1] /\ line.key = x[2])
        <5>1. Says(x[1], x[2])' = Says(x[1], x[2])
          BY <2>1, <4>3
        <5>2. config'[x] = config[x]
          BY <1>1, <3>1, <4>1, <4>3
        <5> QED
          BY <1>1, <5>1, <5>2
      <4> QED
        BY <4>2, <4>3
    <3> QED
      BY <3>4
  <2> QED
    BY <2>2, <2>3
<1> QED
  BY <1>6, <1>7, <1>8 DEF Follows

\* The lines before a new one are as good as they were.
LEMMA EarlierLines ==
  ASSUME LoaderInv, lpc = "reading", NEW line \in Line,
         read' = Append(read, line), NEW m \in Nat, m = Len(read)
  PROVE  /\ Len(read') = m + 1 /\ read \in Seq(Line)
         /\ Parted(m + 1)' <=> Parted(m) \/ Misread(m + 1)'
         /\ Parted(m) \/ Follows
         /\ \A i \in 1 .. m : Good(i)' \/ Parted(i)'
         /\ \A i \in 1 .. m + 1 : i = m + 1 \/ i \in 1 .. m
<1>1. read \in Seq(Line) /\ \A i \in 1 .. m : Good(i) \/ Parted(i)
  BY DEF LoaderInv, LoaderType
<1>2. \A i \in 1 .. m : (Good(i)' <=> Good(i)) /\ (Parted(i)' <=> Parted(i))
  BY <1>1, LinesStay
<1>3. Len(read') = m + 1 /\ (Parted(m + 1)' <=> Parted(m) \/ Misread(m + 1)')
  BY <1>1, LinesStay, PartedBehind
<1> QED
  BY <1>1, <1>2, <1>3 DEF LoaderInv

\* A line that is taken is misread, or the loader follows it.
LEMMA LineStep ==
  ASSUME LoaderInv, NEW line \in Line,
         SkipLine(line) \/ EnterSection(line) \/ ApplyValue(line)
  PROVE  LoaderInv'
<1>1. /\ lpc = "reading" /\ lpc' = "reading" /\ out_config' = << >>
      /\ read' = Append(read, line) /\ Len(read) \in Nat
  BY LenProperties DEF LoaderInv, LoaderType, SkipLine, EnterSection, ApplyValue,
     Reads
<1> SUFFICES ASSUME NEW m \in Nat, m = Len(read) PROVE LoaderInv'
  BY <1>1
<1>2. /\ Len(read') = m + 1
      /\ Parted(m + 1)' <=> Parted(m) \/ Misread(m + 1)'
      /\ Parted(m) \/ Follows
      /\ \A i \in 1 .. m : Good(i)' \/ Parted(i)'
      /\ \A i \in 1 .. m + 1 : i = m + 1 \/ i \in 1 .. m
  BY <1>1, EarlierLines
<1>3. Parted(m + 1)' \/ Follows'
  BY <1>2, LineFollows
<1>4. Follows' => Good(m + 1)'
  BY <1>2 DEF Follows
<1>5. \A i \in 1 .. m + 1 : Good(i)' \/ Parted(i)'
  BY <1>2, <1>3, <1>4
<1>6. (Parted(Len(read)) \/ Follows)'
  BY <1>2, <1>3
<1>7. LoaderType'
  BY LineKeepsType
<1> QED
  BY <1>1, <1>2, <1>5, <1>6, <1>7 DEF LoaderInv

\* The first line that is not good ends it.
LEMMA RefuseStep ==
  ASSUME LoaderInv, NEW line \in Line, RefuseLine(line)
  PROVE  LoaderInv'
<1>1. /\ lpc = "reading" /\ lpc' = "error" /\ read \in Seq(Line)
      /\ read' = Append(read, line) /\ out_config' = << >> /\ Len(read) \in Nat
      /\ config' = config /\ cut' = cut /\ Refused(line)
  BY LenProperties DEF LoaderInv, LoaderType, RefuseLine, Reads
<1> SUFFICES ASSUME NEW m \in Nat, m = Len(read) PROVE LoaderInv'
  BY <1>1
<1>2. /\ Len(read') = m + 1 /\ read' \in Seq(Line)
      /\ Parted(m + 1)' <=> Parted(m) \/ Misread(m + 1)'
      /\ Parted(m) \/ Follows
      /\ \A i \in 1 .. m : Good(i)' \/ Parted(i)'
      /\ \A i \in 1 .. m + 1 : i = m + 1 \/ i \in 1 .. m
  BY <1>1, EarlierLines, LinesStay
<1>3. ~(Good(m + 1)') \/ Parted(m + 1)'
  <2> SUFFICES ASSUME ~(Parted(m + 1)') PROVE ~(Good(m + 1)')
    OBVIOUS
  <2>1. section = SectionAt(m + 1) /\ ~(Misread(m + 1)')
    BY <1>2 DEF Follows
  <2> QED
    BY <1>1, <2>1, GoodBehind
<1>4. \A i \in 1 .. m + 1 : (Good(i)' <=> i < m + 1) \/ Parted(i)'
  <2>1. \A i \in 1 .. m : i < m + 1
    OBVIOUS
  <2>2. ~(m + 1 < m + 1)
    OBVIOUS
  <2> QED
    BY <1>2, <1>3, <2>1, <2>2
<1>5. LoaderType'
  BY <1>1, <1>2 DEF LoaderInv, LoaderType
<1> QED
  BY <1>1, <1>2, <1>4, <1>5 DEF LoaderInv

LEMMA EndStep ==
  LoaderInv /\ (EndOfFile \/ ReadError \/ UNCHANGED loadVars) => LoaderInv'
<1> SUFFICES ASSUME LoaderInv, EndOfFile \/ ReadError \/ UNCHANGED loadVars
             PROVE  LoaderInv'
  OBVIOUS
<1>1. read' = read /\ section' = section /\ config' = config
  BY DEF EndOfFile, ReadError, loadVars
<1>2. LoaderType'
  BY <1>1 DEF LoaderInv, LoaderType, EndOfFile, ReadError, loadVars
<1>3. /\ Follows' <=> Follows
      /\ \A i : (Good(i)' <=> Good(i)) /\ (Parted(i)' <=> Parted(i))
  BY <1>1 DEF Follows, SectionAt, Good, Says, IsHeader, IsSetting, Means, MeansAt,
     Misread, Parted
<1>4. CASE EndOfFile \/ ReadError
  <2>1. lpc = "reading" /\ lpc' = "OK" /\ out_config' = config
    BY <1>4 DEF EndOfFile, ReadError
  <2> QED
    BY <1>1, <1>2, <1>3, <2>1 DEF LoaderInv
<1>5. CASE UNCHANGED loadVars
  <2>1. lpc' = lpc /\ out_config' = out_config
    BY <1>5 DEF loadVars
  <2> QED
    BY <1>1, <1>2, <1>3, <2>1 DEF LoaderInv
<1> QED
  BY <1>4, <1>5

\* After every line the loader's copy is what the lines so far say, until one
\* of them is Misread.
THEOREM LoaderInvariance == LoadSpec => []LoaderInv
<1>1. LoaderInv /\ [LoadNext]_loadVars => LoaderInv'
  BY OpenStep, LineStep, RefuseStep, EndStep DEF LoadNext
<1> QED
  BY <1>1, LoaderInvInit, PTL DEF LoadSpec

-------------------------------------------------------------------------------
(* The properties that the run checks.                                     *)

\* A configuration that is handed out is what the lines read say, however many,
\* unless one is Misread (mp_logger_bootstrap.c:513-517).
THEOREM LoadsWhatFileSays == LoadSpec => []LoadedIsWhatFileSays
<1>1. LoaderInv => LoadedIsWhatFileSays
  BY DEF LoaderInv, LoaderType, Follows, LoadedIsWhatFileSays
<1> QED
  BY <1>1, LoaderInvariance, PTL

\* A file is refused at its first bad line, whole, and only then, unless a line
\* up to there is Misread (mp_logger_bootstrap.c:515-516, 560-566).
THEOREM LoadsAllOrNothing == LoadSpec => []AllOrNothing
<1>1. LoaderInv => AllOrNothing
  BY DEF LoaderInv, AllOrNothing
<1> QED
  BY <1>1, LoaderInvariance, PTL
===============================================================================
