-------------------------- MODULE CloudConfigProofs --------------------------
(***************************************************************************)
(* What the reader of the bootstrap data makes of any data, by induction   *)
(* over its lines and files.  The induction is over sets of numbers, which *)
(* have least elements; the recursive functions of CloudConfig are shown   *)
(* to exist first.                                                         *)
(***************************************************************************)
EXTENDS CloudConfig, SequenceTheorems, WellFoundedInduction, TLAPS

(* Every nonempty set of natural numbers has a least element. *)
LEMMA LeastNatural ==
    ASSUME NEW T \in SUBSET Nat, T # {}
    PROVE  \E x \in T : \A y \in T : x <= y
<1> DEFINE R == OpToRel(<, Nat)
<1>1. PICK x \in T : \A y \in T : ~ (<<y, x>> \in R)
  BY NatLessThanWellFounded, WFMin
<1>2. ASSUME NEW y \in T PROVE x <= y
  <2>1. ~ (y < x)
    BY <1>1 DEF OpToRel
  <2> QED BY <2>1
<1> QED BY <1>2

(* Induction from N down to 1, for the sets of numbers the proofs build:   *)
(* what the reader makes of a line follows from the lines after it.        *)
LEMMA Downwards ==
    ASSUME NEW N \in Nat, NEW T,
           \A i \in 1 .. N : (\A k \in (i + 1) .. N : k \in T) => i \in T
    PROVE  1 .. N \subseteq T
<1> DEFINE Left == {n \in 0 .. N : N - n \in 1 .. N /\ N - n \notin T}
<1>1. SUFFICES ASSUME Left # {} PROVE FALSE
  <2>1. ASSUME NEW i \in 1 .. N, i \notin T PROVE N - i \in Left
    <3>1. N - (N - i) = i /\ N - i \in 0 .. N
      OBVIOUS
    <3> QED BY <2>1, <3>1
  <2> HIDE DEF Left
  <2> QED BY <2>1
<1>2. PICK x \in Left : \A y \in Left : x <= y
  <2>1. Left \in SUBSET Nat
    OBVIOUS
  <2> HIDE DEF Left
  <2> QED BY <1>1, <2>1, LeastNatural
<1>3. ASSUME NEW k \in (N - x + 1) .. N PROVE k \in T
  <2>1. CASE N - k \in Left
    BY <2>1, <1>2
  <2> QED BY <2>1
<1> QED BY <1>2, <1>3

(* Induction from 1 up to N. *)
LEMMA Upwards ==
    ASSUME NEW N \in Nat, NEW T,
           \A i \in 1 .. N : (\A k \in 1 .. (i - 1) : k \in T) => i \in T
    PROVE  1 .. N \subseteq T
<1> DEFINE Left == {n \in 1 .. N : n \notin T}
<1>1. SUFFICES ASSUME Left # {} PROVE FALSE
  OBVIOUS
<1>2. PICK x \in Left : \A y \in Left : x <= y
  <2>1. Left \in SUBSET Nat
    OBVIOUS
  <2> HIDE DEF Left
  <2> QED BY <1>1, <2>1, LeastNatural
<1>3. ASSUME NEW k \in 1 .. (x - 1) PROVE k \in T
  <2>1. CASE k \in Left
    BY <2>1, <1>2
  <2> QED BY <2>1
<1> QED BY <1>2, <1>3

-----------------------------------------------------------------------------
(* The types of lines and of what is read from them.  Line("short", "") is *)
(* read past the end of any data, and the provers do not know that "" is a *)
(* string.                                                                 *)
Texts == STRING \cup {""}
AnyLine == [kind : LineKinds, of : Texts]
ReadFile == [path : Texts, contents : Seq(AnyLine)]
ReadData == [panics : BOOLEAN, files : Seq(ReadFile), cmds : Seq(Texts)]

(* Within the data, LineAt is the line. *)
LEMMA LineWithin ==
    ASSUME NEW lines \in Seq(AnyLine), NEW i \in 1 .. Len(lines)
    PROVE  /\ LineAt(lines, i) = lines[i]
           /\ lines[i].kind \in LineKinds /\ lines[i].of \in Texts
<1>1. i \in DOMAIN lines /\ lines[i] \in AnyLine
  BY LenProperties, ElementOfSeq
<1> QED BY <1>1 DEF LineAt, AnyLine

(* The loop over the lines of a file ends, at the first line that ends it: *)
(* past the last line of the data Text() is too short.                     *)
LEMMA StopFound ==
    ASSUME NEW lines \in Seq(AnyLine), NEW i \in 1 .. Len(lines)
    PROVE  /\ StopOf(lines, i) \in (i + 4) .. (Len(lines) + 4)
           /\ LineAt(lines, StopOf(lines, i)).kind \in Stops
           /\ \A k \in (i + 4) .. (StopOf(lines, i) - 1) :
                 LineAt(lines, k).kind \notin Stops
<1> DEFINE At == {j \in (i + 4) .. (Len(lines) + 4) :
                    LineAt(lines, j).kind \in Stops}
<1>1. Len(lines) + 4 \in At
  BY DEF LineAt, Line, Stops
<1>2. At \in SUBSET Nat /\ At # {}
  BY <1>1
<1> HIDE DEF At
<1>3. PICK j \in At : \A k \in At : j <= k
  BY <1>2, LeastNatural
<1>4. /\ j \in (i + 4) .. (Len(lines) + 4)
      /\ LineAt(lines, j).kind \in Stops
  BY DEF At
<1>5. ASSUME NEW k \in (i + 4) .. (j - 1)
      PROVE  LineAt(lines, k).kind \notin Stops
  <2>1. k \in (i + 4) .. (Len(lines) + 4) /\ ~(j <= k)
    BY <1>4
  <2>2. k \notin At
    BY <2>1, <1>3
  <2> QED BY <2>1, <2>2 DEF At
<1> QED BY <1>4, <1>5 DEF StopOf

-----------------------------------------------------------------------------
(* One step of the recursion in FromBytes, and the function it defines. *)
ReadAt(lines, g, i) ==
          IF i > Len(lines) THEN Nothing
          ELSE IF lines[i].kind # "path" THEN g[i + 1]
          ELSE IF ~Headed(lines, i) THEN Panic
          ELSE LET j == StopOf(lines, i)
                   file == [path |-> lines[i].of,
                            contents |-> Contents(lines, i, j)]
               IN  CASE LineAt(lines, j).kind = "short" -> Panic
                     [] LineAt(lines, j).kind = "end" ->
                          Prepend(<<file>>, <<>>, g[j + 1])
                     [] OTHER ->
                          Prepend(<<file>>, FirstCommand(lines, j + 1),
                                  g[j + 2])

Reader(lines) == CHOOSE g : g = [i \in 1 .. Len(lines) + 6 |-> ReadAt(lines, g, i)]

(* FromBytes is the result of its recursion at the first line. *)
LEMMA FromBytesIsReader ==
  ASSUME NEW lines PROVE FromBytes(lines) = Reader(lines)[1]
BY DEF FromBytes, Reader, ReadAt

(* One step of the reader uses only what is read from the lines after it. *)
LEMMA ReadAtLocal ==
    ASSUME NEW lines \in Seq(AnyLine), NEW g, NEW h,
           NEW i \in 1 .. Len(lines) + 6,
           \A k \in (i + 1) .. (Len(lines) + 6) : g[k] = h[k]
    PROVE  ReadAt(lines, g, i) = ReadAt(lines, h, i)
<1>1. CASE i > Len(lines)
  BY <1>1 DEF ReadAt
<1>2. CASE i <= Len(lines)
  <2> DEFINE j == StopOf(lines, i)
  <2>1. j \in (i + 4) .. (Len(lines) + 4)
    BY <1>2, StopFound
  <2>2. g[i + 1] = h[i + 1] /\ g[j + 1] = h[j + 1] /\ g[j + 2] = h[j + 2]
    BY <2>1, <1>2
  <2> QED BY <2>2 DEF ReadAt
<1> QED BY <1>1, <1>2

(* The recursion of FromBytes is well founded: for any lines there is a    *)
(* function that satisfies it.                                             *)
LEMMA ReaderReads ==
    ASSUME NEW lines \in Seq(AnyLine)
    PROVE  Reader(lines) = [i \in 1 .. Len(lines) + 6 |->
                              ReadAt(lines, Reader(lines), i)]
<1> DEFINE N == Len(lines) + 6
           From == {i \in 1 .. N : \E g : g = [k \in i .. N |-> ReadAt(lines, g, k)]}
<1>0. N \in Nat /\ N >= 1
  OBVIOUS
<1>1. ASSUME NEW i \in 1 .. N, \A k \in (i + 1) .. N : k \in From
      PROVE  i \in From
  <2>1. PICK g : g = [k \in (i + 1) .. N |-> ReadAt(lines, g, k)]
    <3>1. CASE i = N
      <4>1. [k \in {} |-> 0] = [k \in (i + 1) .. N |-> ReadAt(lines, [l \in {} |-> 0], k)]
        BY <3>1
      <4> QED BY <4>1, <3>1
    <3>2. CASE i < N
      BY <3>2, <1>1
    <3> QED BY <3>1, <3>2
  <2> DEFINE h == [k \in i .. N |-> IF k = i THEN ReadAt(lines, g, i) ELSE g[k]]
  <2>2. \A k \in (i + 1) .. N : g[k] = h[k]
    OBVIOUS
  <2>3. ASSUME NEW k \in i .. N PROVE h[k] = ReadAt(lines, h, k)
    <3>1. ReadAt(lines, g, k) = ReadAt(lines, h, k)
      <4>1. \A l \in (k + 1) .. (Len(lines) + 6) : g[l] = h[l]
        BY <2>2
      <4> HIDE DEF h
      <4> QED BY <4>1, ReadAtLocal
    <3> QED BY <3>1, <2>1
  <2>4. h = [k \in i .. N |-> ReadAt(lines, h, k)]
    BY <2>3
  <2> QED BY <2>4
<1> HIDE DEF From
<1>2. 1 \in From
  <2>1. 1 .. N \subseteq From
    <3> HIDE DEF N
    <3> QED BY <1>0, <1>1, Downwards
  <2> QED BY <1>0, <2>1
<1>3. \E g : g = [i \in 1 .. Len(lines) + 6 |-> ReadAt(lines, g, i)]
  BY <1>2 DEF From
<1> QED BY <1>3, Zenon DEF Reader

(* A file before what was read gives something read. *)
LEMMA PrependTyped ==
    ASSUME NEW fs \in Seq(ReadFile), NEW cs \in Seq(Texts),
           NEW rest \in ReadData
    PROVE  Prepend(fs, cs, rest) \in ReadData
<1>1. CASE rest.panics
  BY <1>1 DEF Prepend, Panic, ReadData
<1>2. CASE ~rest.panics
  <2>1. rest.files \in Seq(ReadFile) /\ rest.cmds \in Seq(Texts)
    BY DEF ReadData
  <2>2. fs \o rest.files \in Seq(ReadFile) /\ cs \o rest.cmds \in Seq(Texts)
    BY <2>1, ConcatProperties
  <2> QED BY <1>2, <2>2 DEF Prepend, ReadData
<1> QED BY <1>1, <1>2

(* The contents of a file are lines of the data. *)
LEMMA ContentsTyped ==
    ASSUME NEW lines \in Seq(AnyLine), NEW i \in 1 .. Len(lines),
           NEW j \in (i + 4) .. Len(lines)
    PROVE  Contents(lines, i, j) \in Seq(AnyLine)
<1>1. \A e \in {j - 1, j} : SubSeq(lines, i + 4, e) \in Seq(AnyLine)
  <2> TAKE e \in {j - 1, j}
  <2>1. e \in Int /\ e <= Len(lines)
    OBVIOUS
  <2>2. \A k \in (i + 4) .. e : lines[k] \in AnyLine
    BY <2>1
  <2> QED BY <2>1, <2>2, SubSeqProperties
<1> QED BY <1>1 DEF Contents

(* One step of the reader gives something read, or panics. *)
LEMMA ReadAtTyped ==
    ASSUME NEW lines \in Seq(AnyLine), NEW g,
           NEW i \in 1 .. Len(lines) + 6,
           \A k \in (i + 1) .. (Len(lines) + 6) : g[k] \in ReadData
    PROVE  ReadAt(lines, g, i) \in ReadData
<1>1. Nothing \in ReadData /\ Panic \in ReadData
  BY DEF Nothing, Panic, ReadData
<1>2. CASE i > Len(lines)
  BY <1>1, <1>2 DEF ReadAt
<1>3. CASE i <= Len(lines)
  <2> DEFINE j == StopOf(lines, i)
             file == [path |-> lines[i].of, contents |-> Contents(lines, i, j)]
  <2>1. /\ j \in (i + 4) .. (Len(lines) + 4)
        /\ LineAt(lines, j).kind \in Stops
    BY <1>3, StopFound
  <2>2. g[i + 1] \in ReadData /\ g[j + 1] \in ReadData /\ g[j + 2] \in ReadData
    BY <1>3, <2>1
  <2>3. CASE LineAt(lines, j).kind = "short"
    BY <1>1, <1>3, <2>2, <2>3 DEF ReadAt
  <2>4. CASE LineAt(lines, j).kind # "short"
    <3>1. j \in (i + 4) .. Len(lines)
      BY <2>1, <2>4 DEF LineAt, Line
    <3>2. lines[i].of \in Texts
      BY <1>3, LineWithin
    <3> HIDE DEF j
    <3>3. <<file>> \in Seq(ReadFile)
      BY <1>3, <3>1, <3>2, ContentsTyped DEF ReadFile
    <3>4. FirstCommand(lines, j + 1) \in Seq(Texts) /\ <<>> \in Seq(Texts)
      <4>1. CASE j + 1 \in DOMAIN lines
        <5>1. lines[j + 1].of \in Texts
          <6>1. j + 1 \in 1 .. Len(lines)
            BY <4>1, LenProperties
          <6> QED BY <6>1, LineWithin
        <5> QED BY <5>1 DEF FirstCommand
      <4>2. CASE j + 1 \notin DOMAIN lines
        BY <4>2 DEF FirstCommand, LineAt, Line
      <4> QED BY <4>1, <4>2
    <3> HIDE DEF file
    <3>5. /\ Prepend(<<file>>, <<>>, g[j + 1]) \in ReadData
          /\ Prepend(<<file>>, FirstCommand(lines, j + 1), g[j + 2])
                \in ReadData
      BY <2>2, <3>3, <3>4, PrependTyped
    <3> USE DEF file, j
    <3> QED BY <1>1, <1>3, <2>2, <2>4, <3>5 DEF ReadAt
  <2> QED BY <2>3, <2>4
<1> QED BY <1>2, <1>3

(* Whatever the lines are, what is read is files with lines and commands. *)
LEMMA ReaderTyped ==
    ASSUME NEW lines \in Seq(AnyLine)
    PROVE  \A i \in 1 .. Len(lines) + 6 : Reader(lines)[i] \in ReadData
<1> DEFINE N == Len(lines) + 6
           Typed == {i \in 1 .. N : Reader(lines)[i] \in ReadData}
<1>1. ASSUME NEW i \in 1 .. N, \A k \in (i + 1) .. N : k \in Typed
      PROVE  i \in Typed
  <2>1. Reader(lines)[i] = ReadAt(lines, Reader(lines), i)
    BY ReaderReads
  <2>2. ReadAt(lines, Reader(lines), i) \in ReadData
    BY <1>1, ReadAtTyped
  <2> QED BY <2>1, <2>2
<1>2. N \in Nat
  OBVIOUS
<1>3. 1 .. N \subseteq Typed
  <2> HIDE DEF N, Typed
  <2> QED BY <1>1, <1>2, Downwards
<1> QED BY <1>3

(* FromBytes gives files with lines and commands, or panics. *)
LEMMA FromBytesTyped ==
    ASSUME NEW lines \in Seq(AnyLine)
    PROVE  FromBytes(lines) \in ReadData
BY ReaderTyped, FromBytesIsReader

-----------------------------------------------------------------------------
(* Data with one command, in the last line, whose headers are complete and *)
(* whose last file, with its header at line last, has no END line.         *)
Commanded(lines, last, cmd) ==
    /\ lines \in Seq(AnyLine) /\ last \in 1 .. Len(lines)
    /\ lines[last].kind = "path"
    /\ \A i \in 1 .. Len(lines) :
          /\ lines[i].kind # "short"
          /\ lines[i].kind = "path" =>
                i <= last /\ i + 4 < Len(lines) /\ Headed(lines, i)
          /\ lines[i].kind = "end" => i < last
          /\ lines[i].kind = "runcmd" <=> i = Len(lines) - 1
    /\ lines[Len(lines)] = Line("cmd", cmd)

(* The reader finds the command of such data, and does not panic: from any *)
(* line up to the last file's header it reaches "runcmd" inside a file.    *)
LEMMA CommandRead ==
    ASSUME NEW lines, NEW last, NEW cmd \in Texts, Commanded(lines, last, cmd)
    PROVE  ~FromBytes(lines).panics /\ FromBytes(lines).cmds = <<cmd>>
<1> DEFINE N == Len(lines)
           Reads(i) == /\ ~Reader(lines)[i].panics
                       /\ Reader(lines)[i].cmds = <<cmd>>
           Found == {i \in 1 .. last : Reads(i)}
<1>1. /\ lines \in Seq(AnyLine) /\ last \in 1 .. N /\ N \in Nat
      /\ lines[last].kind = "path" /\ last + 4 < N
  BY DEF Commanded
<1>2. \A i \in 1 .. N + 6 : /\ Reader(lines)[i] = ReadAt(lines, Reader(lines), i)
                            /\ Reader(lines)[i] \in ReadData
  BY <1>1, ReaderReads, ReaderTyped
<1>3. ASSUME NEW i \in 1 .. last, \A k \in (i + 1) .. last : k \in Found
      PROVE  i \in Found
  <2>1. i <= N /\ Reader(lines)[i] = ReadAt(lines, Reader(lines), i)
    BY <1>1, <1>2
  <2>2. CASE lines[i].kind # "path"
    <3>1. i + 1 \in Found
      BY <1>1, <1>3, <2>2
    <3> QED BY <1>1, <2>1, <2>2, <3>1 DEF ReadAt
  <2>3. CASE lines[i].kind = "path"
    <3> DEFINE j == StopOf(lines, i)
               file == [path |-> lines[i].of,
                        contents |-> Contents(lines, i, j)]
    <3>1. Headed(lines, i) /\ i + 4 < N
      BY <1>1, <2>3 DEF Commanded
    <3>2. /\ j \in (i + 4) .. (N + 4)
          /\ LineAt(lines, j).kind \in Stops
          /\ \A k \in (i + 4) .. (j - 1) : LineAt(lines, k).kind \notin Stops
      BY <1>1, StopFound
    <3> HIDE DEF j
    <3>3. j <= N - 1
      <4>1. N - 1 \in (i + 4) .. N /\ LineAt(lines, N - 1).kind = "runcmd"
        <5>1. N - 1 \in (i + 4) .. N /\ N - 1 \in 1 .. N
          BY <1>1, <3>1
        <5>2. LineAt(lines, N - 1) = lines[N - 1]
          BY <1>1, <5>1, LineWithin
        <5>3. lines[N - 1].kind = "runcmd"
          BY <5>1 DEF Commanded
        <5> QED BY <5>1, <5>2, <5>3
      <4> QED BY <1>1, <3>2, <4>1 DEF Stops
    <3>4. j \in 1 .. N /\ LineAt(lines, j) = lines[j]
      <4>1. j \in 1 .. N
        BY <1>1, <3>2, <3>3
      <4> QED BY <1>1, <4>1, LineWithin
    <3>5. lines[j].kind \in {"end", "runcmd"}
      BY <3>2, <3>4 DEF Commanded, Stops
    <3>6. Reader(lines)[i] = IF lines[j].kind = "end"
             THEN Prepend(<<file>>, <<>>, Reader(lines)[j + 1])
             ELSE Prepend(<<file>>, FirstCommand(lines, j + 1),
                          Reader(lines)[j + 2])
      BY <1>1, <2>1, <2>3, <3>1, <3>4, <3>5 DEF ReadAt, j
    <3>7. CASE lines[j].kind = "end"
      <4>1. j + 1 \in Found
        BY SMTT(30), <1>1, <1>3, <3>2, <3>4, <3>7 DEF Commanded
      <4>2. <<>> \o <<cmd>> = <<cmd>>
        BY ConcatEmptySeq
      <4> QED BY <3>6, <3>7, <4>1, <4>2 DEF Prepend
    <3>8. CASE lines[j].kind = "runcmd"
      <4>1. j = N - 1
        BY <3>4, <3>8 DEF Commanded
      <4>2. LineAt(lines, j + 1) = Line("cmd", cmd) /\ lines[j + 1] = Line("cmd", cmd)
        <5>1. j + 1 = N /\ N \in 1 .. N
          BY <1>1, <4>1
        <5>2. LineAt(lines, N) = lines[N]
          BY <1>1, <5>1, LineWithin
        <5>3. lines[N] = Line("cmd", cmd)
          BY DEF Commanded
        <5> QED BY <5>1, <5>2, <5>3
      <4>3. FirstCommand(lines, j + 1) = <<cmd>>
        BY <4>2 DEF FirstCommand, Line
      <4>4. Reader(lines)[j + 2] = Nothing
        <5>1. j + 2 = N + 1 /\ j + 2 \in 1 .. N + 6 /\ j + 2 > N
          BY <1>1, <4>1
        <5>2. Reader(lines)[j + 2] = ReadAt(lines, Reader(lines), j + 2)
          BY <1>2, <5>1
        <5> QED BY <5>1, <5>2 DEF ReadAt
      <4>5. <<cmd>> \o <<>> = <<cmd>>
        BY ConcatEmptySeq
      <4> QED BY <3>6, <3>8, <4>3, <4>4, <4>5 DEF Prepend, Nothing
    <3> QED BY <3>5, <3>7, <3>8
  <2> QED BY <2>2, <2>3
<1>4. 1 \in Found
  <2>1. 1 .. last \subseteq Found
    <3>1. last \in Nat
      BY <1>1
    <3> HIDE DEF Found
    <3> QED BY <1>3, <3>1, Downwards
  <2> QED BY <1>1, <2>1
<1> QED BY <1>4, FromBytesIsReader

-----------------------------------------------------------------------------
(* Lines of files: none is too short or ends the list of files, and every  *)
(* header is complete.                                                     *)
InFiles(s) ==
    /\ s \in Seq(AnyLine)
    /\ \A i \in 1 .. Len(s) :
          /\ s[i].kind \notin {"short", "runcmd"}
          /\ s[i].kind = "path" => i + 3 <= Len(s) /\ Headed(s, i)

(* Lines of files followed by lines of files are lines of files. *)
LEMMA FilesJoin ==
    ASSUME NEW s, NEW t, InFiles(s), InFiles(t)
    PROVE  InFiles(s \o t)
<1>1. /\ s \in Seq(AnyLine) /\ t \in Seq(AnyLine)
      /\ Len(s) \in Nat /\ Len(t) \in Nat
  BY DEF InFiles
<1>2. /\ s \o t \in Seq(AnyLine) /\ Len(s \o t) = Len(s) + Len(t)
      /\ \A i \in 1 .. Len(s) : (s \o t)[i] = s[i]
      /\ \A i \in Len(s) + 1 .. Len(s) + Len(t) : (s \o t)[i] = t[i - Len(s)]
  BY <1>1, ConcatProperties
<1>3. ASSUME NEW i \in 1 .. Len(s \o t)
      PROVE  /\ (s \o t)[i].kind \notin {"short", "runcmd"}
             /\ (s \o t)[i].kind = "path" =>
                  i + 3 <= Len(s \o t) /\ Headed(s \o t, i)
  <2>1. CASE i <= Len(s)
    <3>1. i \in 1 .. Len(s) /\ (s \o t)[i] = s[i]
      BY <1>1, <1>2, <2>1
    <3>2. CASE s[i].kind = "path"
      <4>1. i + 3 <= Len(s) /\ Headed(s, i)
        BY <3>1, <3>2 DEF InFiles
      <4>2. \A k \in {i + 1, i + 2} :
               LineAt(s \o t, k) = (s \o t)[k] /\ LineAt(s, k) = s[k]
        <5>1. \A k \in {i + 1, i + 2} :
                 k \in 1 .. Len(s \o t) /\ k \in 1 .. Len(s)
          BY <1>1, <1>2, <3>1, <4>1
        <5> QED BY <1>1, <1>2, <5>1, LineWithin
      <4>3. \A k \in {i + 1, i + 2} : (s \o t)[k] = s[k]
        BY <1>1, <1>2, <3>1, <4>1
      <4> QED BY <1>1, <1>2, <3>1, <3>2, <4>1, <4>2, <4>3
                DEF InFiles, Headed
    <3> QED BY <3>1, <3>2 DEF InFiles
  <2>2. CASE i > Len(s)
    <3> DEFINE l == i - Len(s)
    <3>1. l \in 1 .. Len(t) /\ i = l + Len(s) /\ (s \o t)[i] = t[l]
      BY <1>1, <1>2, <2>2
    <3> HIDE DEF l
    <3>2. CASE t[l].kind = "path"
      <4>1. l + 3 <= Len(t) /\ Headed(t, l)
        BY <3>1, <3>2 DEF InFiles
      <4>2. \A k \in {1, 2} : /\ LineAt(s \o t, i + k) = (s \o t)[i + k]
                              /\ LineAt(t, l + k) = t[l + k]
        <5>1. \A k \in {1, 2} :
                 i + k \in 1 .. Len(s \o t) /\ l + k \in 1 .. Len(t)
          BY <1>1, <1>2, <3>1, <4>1
        <5> QED BY <1>1, <1>2, <5>1, LineWithin
      <4>3. \A k \in {1, 2} : (s \o t)[i + k] = t[l + k]
        BY <1>1, <1>2, <3>1, <4>1
      <4> QED BY SMTT(30), <1>1, <1>2, <3>1, <3>2, <4>1, <4>2, <4>3
                DEF InFiles, Headed
    <3> QED BY <3>1, <3>2 DEF InFiles
  <2> QED BY <2>1, <2>2, <1>1, <1>2
<1> QED BY <1>2, <1>3 DEF InFiles

(* Two lines, one after the other, are a sequence of two. *)
LEMMA TwoInOrder ==
    ASSUME NEW S, NEW a \in S, NEW b \in S
    PROVE  <<a>> \o <<b>> = <<a, b>>
<1>1. PICK u, v, w, z : u = <<a>> /\ v = <<b>> /\ w = <<a, b>> /\ z = u \o v
  OBVIOUS
<1>2. /\ u \in Seq(S) /\ v \in Seq(S) /\ w \in Seq(S)
      /\ Len(u) = 1 /\ Len(v) = 1 /\ Len(w) = 2
      /\ u[1] = w[1] /\ v[1] = w[2]
  BY <1>1
<1>3. /\ z \in Seq(S) /\ Len(z) = Len(u) + Len(v)
      /\ \A i \in 1 .. Len(u) + Len(v) : z[i] =
            IF i <= Len(u) THEN u[i] ELSE v[i - Len(u)]
  BY <1>1, <1>2, ConcatProperties
<1>4. Len(z) = 2 /\ \A i \in 1 .. Len(z) : z[i] = w[i]
  BY <1>2, <1>3
<1>5. z = w
  BY <1>2, <1>3, <1>4, SeqEqual
<1> QED BY <1>1, <1>5

(* The header of a file is four lines. *)
LEMMA FourInOrder ==
    ASSUME NEW S, NEW a \in S, NEW b \in S, NEW c \in S, NEW d \in S
    PROVE  /\ <<a>> \o <<b>> \o <<c, d>> = <<a, b, c, d>>
           /\ <<a, b, c, d>> \in Seq(S) /\ Len(<<a, b, c, d>>) = 4
<1>1. PICK w, x, y : w = <<a, b>> /\ x = <<c, d>> /\ y = <<a, b, c, d>>
  OBVIOUS
<1>2. /\ w \in Seq(S) /\ x \in Seq(S) /\ y \in Seq(S)
      /\ Len(w) = 2 /\ Len(x) = 2 /\ Len(y) = 4
  BY <1>1
<1>3. /\ w \o x \in Seq(S) /\ Len(w \o x) = Len(w) + Len(x)
      /\ \A i \in 1 .. Len(w) + Len(x) : (w \o x)[i] =
            IF i <= Len(w) THEN w[i] ELSE x[i - Len(w)]
  BY <1>2, ConcatProperties
<1>4. /\ Len(w \o x) = 4 /\ (w \o x)[1] = w[1] /\ (w \o x)[2] = w[2]
      /\ (w \o x)[3] = x[1] /\ (w \o x)[4] = x[2]
  BY <1>2, <1>3
<1>5. \A i \in 1 .. Len(w \o x) : (w \o x)[i] = y[i]
  BY <1>1, <1>4
<1>6. w \o x = y
  BY <1>2, <1>3, <1>4, <1>5, SeqEqual
<1> QED BY <1>1, <1>2, <1>6, TwoInOrder

(* The lines of a file whose owner is given: a header, the body, no other  *)
(* header; an END line only if the body has one.                           *)
LEMMA FileWritten ==
    ASSUME NEW file \in DataFile, file.owned, ~Has(file, "short")
    PROVE  /\ InFiles(FileLines(file)) /\ Len(FileLines(file)) >= 4
           /\ FileLines(file)[1].kind = "path"
           /\ FileLines(file)[1].of = file.path
           /\ \A i \in 2 .. Len(FileLines(file)) :
                 FileLines(file)[i].kind \notin {"path", "cmd"}
           /\ ~Has(file, "end") =>
                 \A i \in 1 .. Len(FileLines(file)) :
                    FileLines(file)[i].kind # "end"
           /\ file.body \in Seq(AnyLine) /\ Len(file.body) \in Nat
           /\ Len(FileLines(file)) = 4 + Len(file.body)
           /\ \A q \in 1 .. Len(file.body) :
                 /\ FileLines(file)[4 + q] = file.body[q]
                 /\ file.body[q].kind \in BodyKinds \ {"short"}
<1>1. PICK a, b, c, d : /\ a = Line("path", file.path) /\ b = Line("owner", "")
                        /\ c = Line("permissions", "") /\ d = Line("marker", "")
  OBVIOUS
<1>2. PICK body, s : body = file.body /\ s = FileLines(file)
  OBVIOUS
<1>3. /\ a \in AnyLine /\ b \in AnyLine /\ c \in AnyLine /\ d \in AnyLine
      /\ a.kind = "path" /\ b.kind = "owner"
      /\ c.kind = "permissions" /\ d.kind = "marker"
  <2>1. file.path \in Texts /\ "" \in Texts
    BY DEF DataFile, Texts
  <2>2. {"path", "owner", "permissions", "marker"} \subseteq LineKinds
    BY DEF LineKinds
  <2> QED BY <1>1, <2>1, <2>2 DEF Line, AnyLine
<1>4. /\ body \in Seq(AnyLine) /\ Len(body) \in Nat
      /\ \A i \in 1 .. Len(body) : body[i].kind \in BodyKinds
  <2>1. body \in Seq([kind : BodyKinds, of : STRING])
    BY <1>2 DEF DataFile
  <2>2. [kind : BodyKinds, of : STRING] \subseteq AnyLine
    <3>1. BodyKinds \subseteq LineKinds
      BY DEF BodyKinds, LineKinds
    <3> QED BY <3>1 DEF AnyLine, Texts
  <2>3. body \in Seq(AnyLine)
    BY <2>1, <2>2, SeqMonotonic
  <2>4. \A i \in 1 .. Len(body) : body[i] \in [kind : BodyKinds, of : STRING]
    BY <2>1, ElementOfSeq
  <2> QED BY <2>3, <2>4
<1>5. s = <<a, b, c, d>> \o body
  <2>1. <<a>> \o <<b>> \o <<c, d>> = <<a, b, c, d>>
    BY <1>3, FourInOrder
  <2> QED BY <1>1, <1>2, <2>1 DEF FileLines
<1>6. /\ s \in Seq(AnyLine) /\ Len(s) = 4 + Len(body)
      /\ s[1] = a /\ s[2] = b /\ s[3] = c /\ s[4] = d
      /\ \A i \in 5 .. Len(s) : s[i] = body[i - 4] /\ i - 4 \in 1 .. Len(body)
  <2>1. PICK top : top = <<a, b, c, d>>
    OBVIOUS
  <2>2. top \in Seq(AnyLine) /\ Len(top) = 4 /\ s = top \o body
    BY <1>3, <1>5, <2>1, FourInOrder
  <2>3. /\ s \in Seq(AnyLine) /\ Len(s) = 4 + Len(body)
        /\ \A i \in 1 .. 4 : s[i] = top[i]
        /\ \A i \in 5 .. Len(s) : s[i] = body[i - 4]
    <3>1. /\ top \o body \in Seq(AnyLine)
          /\ Len(top \o body) = Len(top) + Len(body)
          /\ \A i \in 1 .. Len(top) + Len(body) : (top \o body)[i] =
                IF i <= Len(top) THEN top[i] ELSE body[i - Len(top)]
      BY <1>4, <2>2, ConcatProperties
    <3> QED BY <1>4, <2>2, <3>1
  <2>4. top[1] = a /\ top[2] = b /\ top[3] = c /\ top[4] = d
    BY <2>1
  <2> QED BY <1>4, <2>3, <2>4
<1>7. ASSUME NEW i \in 5 .. Len(s)
      PROVE  /\ s[i].kind \in BodyKinds \ {"short"}
             /\ ~Has(file, "end") => s[i].kind # "end"
  <2>1. PICK k \in 1 .. Len(body) : s[i] = body[k]
    BY <1>6
  <2>2. k \in DOMAIN file.body
    BY <1>2, <1>4, <2>1, LenProperties
  <2> QED BY <1>2, <1>4, <2>1, <2>2 DEF Has
<1>8. Headed(s, 1)
  <2>1. LineAt(s, 2) = b /\ LineAt(s, 3) = c
    <3>1. 2 \in 1 .. Len(s) /\ 3 \in 1 .. Len(s)
      BY <1>4, <1>6
    <3> QED BY <1>6, <3>1, LineWithin
  <2> QED BY <1>3, <2>1 DEF Headed
<1>9. \A i \in 1 .. Len(s) : i \in {1, 2, 3, 4} \/ i \in 5 .. Len(s)
  BY <1>4, <1>6
<1>13. \A i \in 1 .. Len(s) :
          /\ s[i].kind \notin {"short", "runcmd", "cmd"}
          /\ s[i].kind = "path" => i = 1
  <2> TAKE i \in 1 .. Len(s)
  <2>1. CASE i \in {1, 2, 3, 4}
    BY <1>3, <1>6, <2>1
  <2>2. CASE i \in 5 .. Len(s)
    BY <1>7, <2>2 DEF BodyKinds
  <2> QED BY <1>9, <2>1, <2>2
<1>10. InFiles(s)
  BY <1>4, <1>6, <1>8, <1>13 DEF InFiles
<1>11. \A i \in 2 .. Len(s) : s[i].kind \notin {"path", "cmd"}
  BY <1>13
<1>12. ~Has(file, "end") => \A i \in 1 .. Len(s) : s[i].kind # "end"
  BY <1>3, <1>4, <1>6, <1>7, <1>9
<1>14. \A q \in 1 .. Len(body) :
          s[4 + q] = body[q] /\ body[q].kind \in BodyKinds \ {"short"}
  <2> TAKE q \in 1 .. Len(body)
  <2>1. 4 + q \in 5 .. Len(s) /\ 4 + q - 4 = q
    BY <1>4, <1>6
  <2>2. s[4 + q] = body[q]
    BY <1>6, <2>1
  <2> QED BY <1>7, <2>1, <2>2
<1>15. /\ InFiles(s) /\ Len(s) >= 4 /\ s[1].kind = "path"
       /\ s[1].of = file.path
  <2>1. s[1] = a /\ Len(s) = 4 + Len(body) /\ Len(body) \in Nat
    BY <1>4, <1>6
  <2>2. s[1].kind = "path" /\ s[1].of = file.path
    <3>1. a.kind = "path" /\ a.of = file.path
      BY <1>1 DEF Line
    <3> QED BY <2>1, <3>1
  <2>3. Len(s) >= 4
    BY <2>1
  <2> QED BY <1>10, <2>2, <2>3
<1>16. /\ body \in Seq(AnyLine) /\ Len(body) \in Nat
       /\ Len(s) = 4 + Len(body)
  BY <1>4, <1>6
<1> QED BY <1>2, <1>11, <1>12, <1>14, <1>15, <1>16

-----------------------------------------------------------------------------
(* One step of the recursion in FlattenSeq, and the function it defines. *)
JoinAt(seqs, f, i) == IF i = 1 THEN seqs[i] ELSE f[i - 1] \o seqs[i]

Joined(seqs) == CHOOSE f : f = [i \in 1 .. Len(seqs) |-> JoinAt(seqs, f, i)]

(* FlattenSeq is the last element of its recursion. *)
LEMMA FlattenSeqIsJoined ==
    ASSUME NEW seqs, Len(seqs) # 0
    PROVE  FlattenSeq(seqs) = Joined(seqs)[Len(seqs)]
BY DEF FlattenSeq, Joined, JoinAt

(* The recursion of FlattenSeq is well founded. *)
LEMMA JoinedJoins ==
    ASSUME NEW seqs, Len(seqs) \in Nat
    PROVE  Joined(seqs) = [i \in 1 .. Len(seqs) |->
                             JoinAt(seqs, Joined(seqs), i)]
<1> DEFINE N == Len(seqs)
           To == {i \in 1 .. N :
                    \E f : f = [k \in 1 .. i |-> JoinAt(seqs, f, k)]}
<1>1. ASSUME NEW i \in 1 .. N, \A k \in 1 .. (i - 1) : k \in To
      PROVE  i \in To
  <2>1. PICK f : i # 1 => f = [k \in 1 .. (i - 1) |-> JoinAt(seqs, f, k)]
    <3>1. CASE i = 1
      BY <3>1
    <3>2. CASE i # 1
      <4>1. i - 1 \in To
        BY <1>1, <3>2
      <4> QED BY <4>1
    <3> QED BY <3>1, <3>2
  <2>2. PICK h : h = [k \in 1 .. i |-> IF k = i THEN JoinAt(seqs, f, i)
                                                 ELSE f[k]]
    OBVIOUS
  <2>3. ASSUME NEW k \in 1 .. i PROVE h[k] = JoinAt(seqs, h, k)
    <3>1. k = 1 \/ f[k - 1] = h[k - 1]
      BY <2>2
    <3>2. JoinAt(seqs, f, k) = JoinAt(seqs, h, k)
      BY <3>1 DEF JoinAt
    <3>3. CASE k = i
      BY <2>2, <3>2, <3>3
    <3>4. CASE k # i
      <4>1. i # 1 /\ k \in 1 .. (i - 1)
        BY <3>4
      <4> QED BY <2>1, <2>2, <3>2, <3>4, <4>1
    <3> QED BY <3>3, <3>4
  <2>4. h = [k \in 1 .. i |-> JoinAt(seqs, h, k)]
    BY <2>2, <2>3
  <2> QED BY <2>4
<1>2. 1 .. N \subseteq To
  <2> HIDE DEF To
  <2> QED BY <1>1, Upwards
<1>3. \E f : f = [i \in 1 .. Len(seqs) |-> JoinAt(seqs, f, i)]
  <2>1. CASE N = 0
    <3>1. [k \in {} |-> 0] = [k \in 1 .. N |->
                                JoinAt(seqs, [l \in {} |-> 0], k)]
      BY <2>1
    <3> QED BY <3>1, <2>1
  <2>2. CASE N # 0
    <3>1. N \in To
      BY <1>2, <2>2
    <3> QED BY <3>1
  <2> QED BY <2>1, <2>2
<1> QED BY <1>3, Zenon DEF Joined

(* The files of the data, one after the other, are lines of files. *)
LEMMA JoinedInFiles ==
    ASSUME NEW seqs, Len(seqs) \in Nat, \A i \in 1 .. Len(seqs) : InFiles(seqs[i])
    PROVE  \A i \in 1 .. Len(seqs) :
              InFiles(Joined(seqs)[i])
              /\ Joined(seqs)[i] = JoinAt(seqs, Joined(seqs), i)
<1> DEFINE In == {i \in 1 .. Len(seqs) : InFiles(Joined(seqs)[i])}
<1>1. \A i \in 1 .. Len(seqs) :
         Joined(seqs)[i] = JoinAt(seqs, Joined(seqs), i)
  BY JoinedJoins
<1>2. ASSUME NEW i \in 1 .. Len(seqs), \A k \in 1 .. (i - 1) : k \in In
      PROVE  i \in In
  <2>1. CASE i = 1
    BY <1>1, <2>1 DEF JoinAt
  <2>2. CASE i # 1
    <3>1. InFiles(Joined(seqs)[i - 1]) /\ InFiles(seqs[i])
      BY <1>2, <2>2
    <3> QED BY <1>1, <2>2, <3>1, FilesJoin DEF JoinAt
  <2> QED BY <2>1, <2>2
<1>3. 1 .. Len(seqs) \subseteq In
  <2> HIDE DEF In
  <2> QED BY <1>2, Upwards
<1> QED BY <1>1, <1>3

(* The last file's lines come last. *)
LEMMA FilesRendered ==
    ASSUME NEW d \in BootstrapData, Runnable(d)
    PROVE  \E before : /\ InFiles(before)
                       /\ FlattenSeq([i \in DOMAIN d.files |-> FileLines(d.files[i])])
                            = before \o FileLines(Last(d.files))
<1>1. PICK seqs, n : /\ seqs = [i \in DOMAIN d.files |-> FileLines(d.files[i])]
                     /\ n = Len(d.files)
  OBVIOUS
<1>2. n \in Nat \ {0} /\ DOMAIN d.files = 1 .. n /\ d.files \in Seq(DataFile)
  BY <1>1, LenProperties, EmptySeq DEF BootstrapData, Runnable
<1>3. /\ DOMAIN seqs = 1 .. n /\ Len(seqs) = n
      /\ \A i \in 1 .. n : seqs[i] = FileLines(d.files[i])
  BY <1>1, <1>2
<1>4. \A i \in 1 .. n : InFiles(seqs[i])
  <2> TAKE i \in 1 .. n
  <2>1. /\ d.files[i] \in DataFile /\ d.files[i].owned
        /\ ~Has(d.files[i], "short")
    BY <1>1, <1>2, ElementOfSeq DEF Runnable
  <2> QED BY <1>3, <2>1, FileWritten
<1>5. /\ FlattenSeq(seqs) = Joined(seqs)[n]
      /\ Joined(seqs)[n] = JoinAt(seqs, Joined(seqs), n)
      /\ \A i \in 1 .. n : InFiles(Joined(seqs)[i])
  BY <1>2, <1>3, <1>4, FlattenSeqIsJoined, JoinedInFiles
<1>6. seqs[n] = FileLines(Last(d.files))
  BY <1>1, <1>2, <1>3 DEF Last
<1>7. CASE n = 1
  <2>1. InFiles(<<>>) /\ <<>> \o seqs[n] = seqs[n]
    BY <1>2, <1>4, ConcatEmptySeq DEF InFiles
  <2>2. FlattenSeq(seqs) = seqs[n]
    BY <1>5, <1>7 DEF JoinAt
  <2> QED BY <1>1, <1>6, <2>1, <2>2
<1>8. CASE n # 1
  <2>1. n - 1 \in 1 .. n
    BY <1>2, <1>8
  <2>2. FlattenSeq(seqs) = Joined(seqs)[n - 1] \o seqs[n]
    BY <1>5, <1>8 DEF JoinAt
  <2> QED BY <1>1, <1>5, <1>6, <2>1, <2>2
<1> QED BY <1>7, <1>8

(* Data whose commands the reader reaches, as it is written. *)
LEMMA RenderCommanded ==
    ASSUME NEW d \in BootstrapData, Runnable(d)
    PROVE  /\ d.cmds = <<d.cmds[1]>> /\ d.cmds[1] \in Texts
           /\ \E last : Commanded(Render(d), last, d.cmds[1])
<1>1. /\ d.cmds \in Seq(STRING) /\ DOMAIN d.cmds = 1 .. 1
      /\ d.cmds[1] \in STRING /\ d.cmds = <<d.cmds[1]>>
  <2>1. d.cmds \in Seq(STRING) /\ Len(d.cmds) = 1
    BY DEF BootstrapData, Runnable
  <2> QED BY <2>1
<1>2. PICK before : /\ InFiles(before)
                    /\ FlattenSeq([i \in DOMAIN d.files |-> FileLines(d.files[i])])
                          = before \o FileLines(Last(d.files))
  BY FilesRendered
<1>3. PICK o, r, c, w, s, t :
         /\ o = Line("other", "") /\ r = Line("runcmd", "")
         /\ c = Line("cmd", d.cmds[1]) /\ w = FileLines(Last(d.files))
         /\ s = (<<o>> \o before) \o w /\ t = <<r, c>>
  OBVIOUS
<1>4. /\ o \in AnyLine /\ r \in AnyLine /\ c \in AnyLine
      /\ o.kind = "other" /\ r.kind = "runcmd" /\ c.kind = "cmd"
  <2>1. {"other", "runcmd", "cmd"} \subseteq LineKinds
    BY DEF LineKinds
  <2> QED BY <1>1, <1>3, <2>1 DEF Line, AnyLine, Texts
<1>5. /\ InFiles(w) /\ Len(w) >= 4 /\ w[1].kind = "path"
      /\ \A i \in 2 .. Len(w) : w[i].kind \notin {"path", "cmd"}
      /\ \A i \in 1 .. Len(w) : w[i].kind # "end"
  <2>1. d.files \in Seq(DataFile) /\ Len(d.files) \in 1 .. Len(d.files)
    BY EmptySeq, LenProperties DEF BootstrapData, Runnable
  <2>2. /\ Last(d.files) \in DataFile /\ Last(d.files).owned
        /\ ~Has(Last(d.files), "short") /\ ~Has(Last(d.files), "end")
    BY <2>1, ElementOfSeq, LenProperties DEF Runnable, Last
  <2> QED BY <1>3, <2>2, FileWritten
<1>6. /\ InFiles(<<o>> \o before) /\ InFiles(s)
      /\ Len(before) \in Nat /\ Len(w) \in Nat
      /\ Len(s) = 1 + Len(before) + Len(w)
      /\ \A i \in 1 .. Len(w) : s[i + 1 + Len(before)] = w[i]
  <2>1. <<o>> \in Seq(AnyLine) /\ Len(<<o>>) = 1 /\ <<o>>[1] = o
    BY <1>4
  <2>2. InFiles(<<o>>)
    BY <1>4, <2>1 DEF InFiles
  <2>3. InFiles(<<o>> \o before) /\ InFiles(s)
    BY <1>2, <1>3, <1>5, <2>2, FilesJoin
  <2>4. before \in Seq(AnyLine) /\ w \in Seq(AnyLine)
    BY <1>2, <1>5 DEF InFiles
  <2>5. Len(before) \in Nat /\ Len(w) \in Nat
    BY <2>4
  <2>6. /\ <<o>> \o before \in Seq(AnyLine)
        /\ Len(<<o>> \o before) = 1 + Len(before)
    BY <2>1, <2>4, ConcatProperties
  <2>7. PICK u : u = <<o>> \o before
    OBVIOUS
  <2>8. /\ Len(u \o w) = Len(u) + Len(w)
        /\ \A i \in 1 .. Len(u) + Len(w) : (u \o w)[i] =
              IF i <= Len(u) THEN u[i] ELSE w[i - Len(u)]
    BY <2>4, <2>6, <2>7, ConcatProperties
  <2>9. Len(u) = 1 + Len(before) /\ s = u \o w
    BY <1>3, <2>6, <2>7
  <2>10. \A i \in 1 .. Len(w) : s[i + 1 + Len(before)] = w[i]
    BY <2>5, <2>8, <2>9
  <2> QED BY <2>3, <2>5, <2>8, <2>9, <2>10
<1>7. Render(d) = s \o t
  <2>1. PICK f : f = before \o w
    OBVIOUS
  <2>2. /\ <<o>> \in Seq(AnyLine) /\ <<r>> \in Seq(AnyLine) /\ <<c>> \in Seq(AnyLine)
        /\ before \in Seq(AnyLine) /\ w \in Seq(AnyLine) /\ s \in Seq(AnyLine)
    BY <1>2, <1>4, <1>5, <1>6 DEF InFiles
  <2>3. [i \in DOMAIN d.cmds |-> Line("cmd", d.cmds[i])] = <<c>>
    <3>1. PICK f1, f2 : f1 = [i \in DOMAIN d.cmds |-> Line("cmd", d.cmds[i])]
                        /\ f2 = <<c>>
      OBVIOUS
    <3>2. f1 \in Seq(AnyLine) /\ Len(f1) = 1 /\ f1[1] = c
      <4>1. f1 = [i \in 1 .. 1 |-> Line("cmd", d.cmds[i])]
        BY <1>1, <3>1
      <4>2. \A i \in 1 .. 1 : Line("cmd", d.cmds[i]) = c
        <5>1. \A i \in 1 .. 1 : i = 1
          OBVIOUS
        <5> QED BY <1>3, <5>1
      <4>3. f1[1] = c
        BY <4>1, <4>2
      <4>4. f1 = [i \in 1 .. 1 |-> c]
        BY <4>1, <4>2
      <4>5. f1 \in Seq(AnyLine)
        BY <4>4, <1>4
      <4>6. Len(f1) = 1
        BY <4>4
      <4> QED BY <4>3, <4>5, <4>6
    <3>3. f2 \in Seq(AnyLine) /\ Len(f2) = 1 /\ f2[1] = c
      BY <1>4, <3>1
    <3>4. f1 = f2
      BY <3>2, <3>3, SeqEqual
    <3> QED BY <3>1, <3>4
  <2>4. Render(d) = <<o>> \o f \o <<r>> \o <<c>>
    BY <1>2, <1>3, <2>1, <2>3 DEF Render
  <2>5. <<o>> \o f = s
    <3>1. (<<o>> \o before) \o w = <<o>> \o (before \o w)
      BY <2>2, ConcatAssociative
    <3> QED BY <1>3, <2>1, <3>1
  <2>6. (s \o <<r>>) \o <<c>> = s \o (<<r>> \o <<c>>)
    BY <2>2, ConcatAssociative
  <2>7. <<r>> \o <<c>> = <<r, c>>
    BY <1>4, TwoInOrder
  <2> QED BY <1>3, <2>4, <2>5, <2>6, <2>7
<1>8. PICK lines, last : lines = s \o t /\ last = 2 + Len(before)
  OBVIOUS
<1>9. /\ s \in Seq(AnyLine) /\ t \in Seq(AnyLine) /\ Len(t) = 2
      /\ lines \in Seq(AnyLine) /\ Len(lines) = Len(s) + 2
      /\ \A i \in 1 .. Len(s) : lines[i] = s[i]
      /\ lines[Len(s) + 1] = r /\ lines[Len(s) + 2] = c
  <2>1. s \in Seq(AnyLine) /\ t \in Seq(AnyLine) /\ Len(t) = 2
    <3>1. <<r, c>> \in Seq(AnyLine) /\ Len(<<r, c>>) = 2
      BY <1>4
    <3> QED BY <1>3, <1>6, <3>1 DEF InFiles
  <2>2. /\ lines \in Seq(AnyLine) /\ Len(lines) = Len(s) + Len(t)
        /\ \A i \in 1 .. Len(s) + Len(t) : lines[i] =
              IF i <= Len(s) THEN s[i] ELSE t[i - Len(s)]
    BY <1>8, <2>1, ConcatProperties
  <2>3. t[1] = r /\ t[2] = c
    BY <1>3
  <2>4. Len(s) \in Nat
    BY <1>6
  <2>5. Len(lines) = Len(s) + 2 /\ \A i \in 1 .. Len(s) : lines[i] = s[i]
    BY <2>1, <2>2, <2>4
  <2>6. lines[Len(s) + 1] = t[1] /\ lines[Len(s) + 2] = t[2]
    BY <2>1, <2>2, <2>4
  <2> QED BY <2>1, <2>2, <2>3, <2>5, <2>6
<1>10. last \in 1 .. Len(s) /\ lines[last].kind = "path" /\ last + 3 <= Len(s)
  <2>1. s[1 + 1 + Len(before)] = w[1]
    BY <1>5, <1>6
  <2>2. last = 1 + 1 + Len(before) /\ last \in 1 .. Len(s) /\ last + 3 <= Len(s)
    BY <1>5, <1>6, <1>8
  <2> QED BY <1>5, <1>9, <2>1, <2>2
<1>11. ASSUME NEW i \in 1 .. Len(s)
       PROVE  /\ lines[i].kind \notin {"short", "runcmd"}
              /\ lines[i].kind = "path" =>
                   i <= last /\ i + 4 < Len(lines) /\ Headed(lines, i)
              /\ lines[i].kind = "end" => i < last
  <2>1. /\ lines[i] = s[i] /\ s[i].kind \notin {"short", "runcmd"}
        /\ s[i].kind = "path" => i + 3 <= Len(s) /\ Headed(s, i)
    BY <1>6, <1>9 DEF InFiles
  <2>2. i >= last => /\ s[i].kind # "end"
                     /\ s[i].kind = "path" => i = last
    <3>1. ASSUME i >= last
          PROVE  /\ s[i].kind # "end"
                 /\ s[i].kind = "path" => i = last
      <4>1. PICK k \in 1 .. Len(w) : k = i - 1 - Len(before)
        <5>1. i - 1 - Len(before) \in 1 .. Len(w)
          BY <1>6, <1>8, <3>1
        <5> QED BY <5>1
      <4>2. s[i] = w[k] /\ (k = 1 => i = last)
        BY <1>6, <1>8, <4>1
      <4> QED BY <1>5, <1>6, <4>2
    <3> QED BY <3>1
  <2>3. ASSUME s[i].kind = "path" PROVE Headed(lines, i)
    <3>1. \A k \in {i + 1, i + 2} : k \in 1 .. Len(s) /\ k \in 1 .. Len(lines)
      BY <1>6, <1>9, <2>1, <2>3
    <3>2. \A k \in {i + 1, i + 2} : LineAt(lines, k) = LineAt(s, k)
      BY <1>9, <3>1, LineWithin
    <3> QED BY <2>1, <2>3, <3>2 DEF Headed
  <2> QED BY <1>6, <1>9, <1>10, <2>1, <2>2, <2>3
<1>12. Commanded(lines, last, d.cmds[1])
  <2>1. \A i \in 1 .. Len(lines) :
           i \in 1 .. Len(s) \/ i = Len(s) + 1 \/ i = Len(s) + 2
    <3>1. Len(s) \in Nat /\ Len(lines) = Len(s) + 2
      BY <1>9
    <3> QED BY <3>1
  <2>2. Len(lines) - 1 = Len(s) + 1 /\ Len(s) \in Nat
    BY <1>6, <1>9
  <2>3. \A i \in 1 .. Len(lines) :
          /\ lines[i].kind # "short"
          /\ lines[i].kind = "path" =>
                i <= last /\ i + 4 < Len(lines) /\ Headed(lines, i)
          /\ lines[i].kind = "end" => i < last
          /\ lines[i].kind = "runcmd" <=> i = Len(lines) - 1
    BY <1>4, <1>9, <1>11, <2>1, <2>2
  <2>4. last \in 1 .. Len(lines) /\ lines[Len(lines)] = c
    BY <1>6, <1>9, <1>10
  <2> QED BY <1>3, <1>9, <1>10, <2>3, <2>4 DEF Commanded
<1> QED BY <1>1, <1>7, <1>8, <1>12 DEF Texts

(* Half of ReadsBack, for all data: the reader stays within the lines and  *)
(* finds the command, whatever files are among the others.                 *)
LEMMA CommandIsRead ==
    ASSUME NEW d \in BootstrapData, Runnable(d)
    PROVE  /\ ~FromBytes(Render(d)).panics
           /\ FromBytes(Render(d)).cmds = d.cmds
BY RenderCommanded, CommandRead

-----------------------------------------------------------------------------
(* Induction from 0 up to N. *)
LEMMA FromZero ==
    ASSUME NEW N \in Nat, NEW T, 0 \in T,
           \A i \in 1 .. N : i - 1 \in T => i \in T
    PROVE  0 .. N \subseteq T
<1> DEFINE Left == {n \in 0 .. N : n \notin T}
<1>1. SUFFICES ASSUME Left # {} PROVE FALSE
  OBVIOUS
<1>2. PICK x \in Left : \A y \in Left : x <= y
  <2>1. Left \in SUBSET Nat
    OBVIOUS
  <2> HIDE DEF Left
  <2> QED BY <1>1, <2>1, LeastNatural
<1>3. x \in 1 .. N /\ x - 1 \in 0 .. N /\ ~(x <= x - 1)
  OBVIOUS
<1>4. x - 1 \in T
  BY <1>2, <1>3
<1> QED BY <1>3, <1>4

-----------------------------------------------------------------------------
(* One step of the recursion in Solid, and the function it defines. *)
KeptAt(body, f, i) ==
    IF i = 0 THEN <<>>
    ELSE IF body[i].kind = "blank" THEN f[i - 1]
    ELSE Append(f[i - 1], body[i])

KeptOf(body) == CHOOSE f : f = [i \in 0 .. Len(body) |-> KeptAt(body, f, i)]

(* Solid is the last element of its recursion. *)
LEMMA SolidIsKept ==
    ASSUME NEW body
    PROVE  Solid(body) = KeptOf(body)[Len(body)]
BY DEF Solid, KeptOf, KeptAt

(* The recursion of Solid is well founded, and gives lines. *)
LEMMA KeptKeeps ==
    ASSUME NEW body \in Seq(AnyLine)
    PROVE  \A i \in 0 .. Len(body) :
              /\ KeptOf(body)[i] = KeptAt(body, KeptOf(body), i)
              /\ KeptOf(body)[i] \in Seq(AnyLine)
<1> DEFINE N == Len(body)
           To == {i \in 0 .. N :
                    \E f : f = [k \in 0 .. i |-> KeptAt(body, f, k)]}
           Typed == {i \in 0 .. N : KeptOf(body)[i] \in Seq(AnyLine)}
<1>1. 0 \in To
  <2>1. PICK f : f = [k \in 0 .. 0 |-> <<>>]
    OBVIOUS
  <2>2. f = [k \in 0 .. 0 |-> KeptAt(body, f, k)]
    BY <2>1 DEF KeptAt
  <2> QED BY <2>2
<1>2. ASSUME NEW i \in 1 .. N, i - 1 \in To PROVE i \in To
  <2>1. PICK f : f = [k \in 0 .. (i - 1) |-> KeptAt(body, f, k)]
    BY <1>2
  <2>2. PICK h : h = [k \in 0 .. i |-> IF k = i THEN KeptAt(body, f, i)
                                                 ELSE f[k]]
    OBVIOUS
  <2>3. ASSUME NEW k \in 0 .. i PROVE h[k] = KeptAt(body, h, k)
    <3>1. k = 0 \/ f[k - 1] = h[k - 1]
      BY <2>2
    <3>2. KeptAt(body, f, k) = KeptAt(body, h, k)
      BY <3>1 DEF KeptAt
    <3>3. CASE k = i
      BY <2>2, <3>2, <3>3
    <3>4. CASE k # i
      BY <2>1, <2>2, <3>2, <3>4
    <3> QED BY <3>3, <3>4
  <2>4. h = [k \in 0 .. i |-> KeptAt(body, h, k)]
    BY <2>2, <2>3
  <2> QED BY <2>4
<1>3. N \in Nat
  OBVIOUS
<1>4. N \in To
  <2>1. 0 .. N \subseteq To
    <3> HIDE DEF N, To
    <3> QED BY <1>1, <1>2, <1>3, FromZero
  <2> QED BY <1>3, <2>1
<1>5. \E f : f = [i \in 0 .. Len(body) |-> KeptAt(body, f, i)]
  BY <1>4
<1>6. KeptOf(body) = [i \in 0 .. Len(body) |-> KeptAt(body, KeptOf(body), i)]
  BY <1>5, Zenon DEF KeptOf
<1>7. \A i \in 0 .. N : KeptOf(body)[i] = KeptAt(body, KeptOf(body), i)
  BY <1>6
<1>8. 0 \in Typed
  <2>1. 0 \in 0 .. N /\ KeptOf(body)[0] = <<>>
    BY <1>3, <1>7 DEF KeptAt
  <2>2. <<>> \in Seq(AnyLine)
    OBVIOUS
  <2> QED BY <2>1, <2>2
<1>9. ASSUME NEW i \in 1 .. N, i - 1 \in Typed PROVE i \in Typed
  <2>1. KeptOf(body)[i - 1] \in Seq(AnyLine) /\ body[i] \in AnyLine
    BY <1>9
  <2>2. Append(KeptOf(body)[i - 1], body[i]) \in Seq(AnyLine)
    BY <2>1, AppendProperties
  <2>3. i \in 0 .. N /\ i # 0
    OBVIOUS
  <2>4. KeptOf(body)[i] \in Seq(AnyLine)
    BY <1>7, <2>1, <2>2, <2>3 DEF KeptAt
  <2> QED BY <2>3, <2>4
<1>10. 0 .. N \subseteq Typed
  <2> HIDE DEF N, Typed
  <2> QED BY <1>3, <1>8, <1>9, FromZero
<1> QED BY <1>7, <1>10

(* What is kept of the first lines stays. *)
LEMMA KeptStays ==
    ASSUME NEW body \in Seq(AnyLine), NEW e \in 0 .. Len(body),
           NEW l \in e .. Len(body)
    PROVE  /\ Len(KeptOf(body)[e]) <= Len(KeptOf(body)[l])
           /\ \A q \in 1 .. Len(KeptOf(body)[e]) :
                 KeptOf(body)[l][q] = KeptOf(body)[e][q]
           /\ (\A k \in (e + 1) .. l : body[k].kind = "blank") <=>
                 KeptOf(body)[l] = KeptOf(body)[e]
           /\ (\E k \in (e + 1) .. l : body[k].kind # "blank") =>
                 Len(KeptOf(body)[e]) < Len(KeptOf(body)[l])
<1> DEFINE K(i) == KeptOf(body)[i]
           Stays(i) ==
             /\ Len(K(e)) <= Len(K(i))
             /\ \A q \in 1 .. Len(K(e)) : K(i)[q] = K(e)[q]
             /\ (\A k \in (e + 1) .. i : body[k].kind = "blank") => K(i) = K(e)
             /\ (\E k \in (e + 1) .. i : body[k].kind # "blank")
                  => Len(K(e)) < Len(K(i))
           Steps == {n \in 0 .. (l - e) : Stays(e + n)}
<1>1. \A i \in 0 .. Len(body) : /\ K(i) = KeptAt(body, KeptOf(body), i)
                                /\ K(i) \in Seq(AnyLine) /\ Len(K(i)) \in Nat
  BY KeptKeeps
<1>2. 0 \in Steps
  BY <1>1
<1>3. ASSUME NEW n \in 1 .. (l - e), n - 1 \in Steps PROVE n \in Steps
  <2>1. PICK i \in (e + 1) .. l : i = e + n
    OBVIOUS
  <2>2. Stays(i - 1)
    BY <1>3, <2>1
  <2>3. i \in 1 .. Len(body) /\ i - 1 \in 0 .. Len(body) /\ body[i] \in AnyLine
    BY <2>1
  <2>4. /\ K(i) = KeptAt(body, KeptOf(body), i)
        /\ K(i - 1) \in Seq(AnyLine) /\ Len(K(i - 1)) \in Nat
        /\ Len(K(e)) \in Nat
    BY <1>1, <2>3
  <2>5. \A k \in (e + 1) .. i : k \in (e + 1) .. (i - 1) \/ k = i
    OBVIOUS
  <2>6. (e + 1) .. (i - 1) \subseteq (e + 1) .. i /\ i \in (e + 1) .. i
    BY <2>1
  <2> HIDE DEF K
  <2>7. Stays(i)
    <3>1. CASE body[i].kind = "blank"
      <4>1. K(i) = K(i - 1)
        BY <2>3, <2>4, <3>1 DEF KeptAt, K
      <4> QED BY <2>2, <2>5, <2>6, <3>1, <4>1
    <3>2. CASE body[i].kind # "blank"
      <4>1. K(i) = Append(K(i - 1), body[i])
        BY <2>3, <2>4, <3>2 DEF KeptAt, K
      <4>2. /\ Len(K(i)) = Len(K(i - 1)) + 1
            /\ \A q \in 1 .. Len(K(i - 1)) : K(i)[q] = K(i - 1)[q]
        BY <2>3, <2>4, <4>1, AppendProperties
      <4>3. \A q \in 1 .. Len(K(e)) : q \in 1 .. Len(K(i - 1))
        BY <2>2, <2>4
      <4>4. Len(K(e)) < Len(K(i))
        BY <2>2, <2>4, <4>2
      <4> QED BY <2>2, <2>4, <2>6, <3>2, <4>2, <4>3, <4>4
    <3> QED BY <3>1, <3>2
  <2> QED BY <2>1, <2>7
<1>4. l - e \in Steps
  <2>1. l - e \in Nat
    OBVIOUS
  <2>2. 0 .. (l - e) \subseteq Steps
    <3> HIDE DEF Steps
    <3> QED BY <1>2, <1>3, <2>1, FromZero
  <2>3. l - e \in 0 .. (l - e)
    BY <2>1
  <2> HIDE DEF Steps
  <2> QED BY <2>2, <2>3
<1>5. Stays(l)
  <2>1. e + (l - e) = l
    OBVIOUS
  <2> HIDE DEF Stays
  <2> QED BY <1>4, <2>1
<1>6. (\E k \in (e + 1) .. l : body[k].kind # "blank") => K(l) # K(e)
  BY <1>1, <1>5
<1> QED BY <1>5, <1>6

(* Files with the same first lines keep the same of them. *)
LEMMA KeptSame ==
    ASSUME NEW a \in Seq(AnyLine), NEW b \in Seq(AnyLine),
           NEW e \in 0 .. Len(a), e <= Len(b),
           \A i \in 1 .. e : a[i] = b[i]
    PROVE  KeptOf(a)[e] = KeptOf(b)[e]
<1> DEFINE Same == {i \in 0 .. e : KeptOf(a)[i] = KeptOf(b)[i]}
<1>1. \A i \in 0 .. e : /\ KeptOf(a)[i] = KeptAt(a, KeptOf(a), i)
                        /\ KeptOf(b)[i] = KeptAt(b, KeptOf(b), i)
  BY KeptKeeps
<1>2. 0 \in Same
  BY <1>1 DEF KeptAt
<1>3. ASSUME NEW i \in 1 .. e, i - 1 \in Same PROVE i \in Same
  BY <1>1, <1>3 DEF KeptAt
<1>4. e \in Same
  <2>1. 0 .. e \subseteq Same
    <3>1. e \in Nat
      OBVIOUS
    <3> HIDE DEF Same
    <3> QED BY <1>2, <1>3, <3>1, FromZero
  <2> QED BY <2>1
<1> QED BY <1>4

(* Without the blank lines after line e the solid lines are the same. *)
LEMMA SolidPrefix ==
    ASSUME NEW body \in Seq(AnyLine), NEW e \in 0 .. Len(body),
           \A k \in (e + 1) .. Len(body) : body[k].kind = "blank"
    PROVE  Solid(SubSeq(body, 1, e)) = Solid(body)
<1>1. PICK s : s = SubSeq(body, 1, e)
  OBVIOUS
<1>2. s \in Seq(AnyLine) /\ Len(s) = e /\ \A i \in 1 .. e : s[i] = body[i]
  <2>1. \A i \in 1 .. e : body[i] \in AnyLine
    OBVIOUS
  <2>2. /\ s \in Seq(AnyLine) /\ Len(s) = IF 1 <= e THEN e - 1 + 1 ELSE 0
        /\ \A i \in 1 .. e - 1 + 1 : s[i] = body[1 + i - 1]
    BY <1>1, <2>1, SubSeqProperties
  <2> QED BY <2>2
<1>3. KeptOf(s)[e] = KeptOf(body)[e]
  BY <1>2, KeptSame
<1>4. KeptOf(body)[Len(body)] = KeptOf(body)[e]
  <2>1. Len(body) \in e .. Len(body)
    OBVIOUS
  <2> QED BY <2>1, KeptStays
<1> QED BY <1>1, <1>2, <1>3, <1>4, SolidIsKept

(* Of a kind that only the last solid line may have, a line is followed by *)
(* blank lines only.                                                       *)
LEMMA OnlyBlankAfter ==
    ASSUME NEW file, file.body \in Seq(AnyLine), NEW kind,
           OnlyLast(file, kind), kind # "blank",
           NEW e \in 1 .. Len(file.body), file.body[e].kind = kind
    PROVE  \A k \in (e + 1) .. Len(file.body) : file.body[k].kind = "blank"
<1>1. PICK body, n : body = file.body /\ n = Len(file.body)
  OBVIOUS
<1>2. body \in Seq(AnyLine) /\ n = Len(body) /\ e \in 1 .. n /\ n \in Nat
  BY <1>1
<1> DEFINE K(i) == KeptOf(body)[i]
<1>3. /\ K(e) = KeptAt(body, KeptOf(body), e)
      /\ \A i \in 0 .. n : K(i) \in Seq(AnyLine) /\ Len(K(i)) \in Nat
  BY <1>2, KeptKeeps
<1>4. Len(K(e)) = Len(K(e - 1)) + 1 /\ K(e)[Len(K(e))] = body[e]
  <2>1. K(e) = Append(K(e - 1), body[e]) /\ body[e] \in AnyLine
    BY <1>1, <1>2, <1>3 DEF KeptAt
  <2> HIDE DEF K
  <2> QED BY <1>2, <1>3, <2>1, AppendProperties
<1>5. /\ Len(K(e)) <= Len(K(n))
      /\ \A q \in 1 .. Len(K(e)) : K(n)[q] = K(e)[q]
      /\ (\E k \in (e + 1) .. n : body[k].kind # "blank")
            => Len(K(e)) < Len(K(n))
  <2>1. e \in 0 .. n /\ n \in e .. n
    BY <1>2
  <2> QED BY <1>2, <2>1, KeptStays
<1>6. Solid(file.body) = K(n)
  BY <1>1, <1>2, SolidIsKept
<1>7. Len(K(e)) \in DOMAIN K(n) /\ K(n)[Len(K(e))].kind = kind
  <2>1. Len(K(e)) \in 1 .. Len(K(e)) /\ Len(K(e)) \in 1 .. Len(K(n))
    BY <1>2, <1>3, <1>4, <1>5
  <2>2. n \in 0 .. n
    BY <1>2
  <2> HIDE DEF K
  <2>3. K(n) \in Seq(AnyLine)
    BY <1>3, <2>2
  <2>4. DOMAIN K(n) = 1 .. Len(K(n))
    BY <2>3, LenProperties
  <2>5. K(n)[Len(K(e))] = body[e]
    BY <1>4, <1>5, <2>1
  <2> QED BY <1>1, <2>1, <2>4, <2>5
<1>8. Len(K(e)) = Len(K(n))
  BY <1>6, <1>7 DEF OnlyLast
<1> QED BY <1>1, <1>2, <1>3, <1>5, <1>8

-----------------------------------------------------------------------------

(* Lines followed by lines, each at its place. *)
LEMMA LinesJoin ==
    ASSUME NEW s \in Seq(AnyLine), NEW t \in Seq(AnyLine), NEW z, z = s \o t
    PROVE  /\ z \in Seq(AnyLine) /\ Len(z) = Len(s) + Len(t)
           /\ Len(s) \in Nat /\ Len(t) \in Nat
           /\ \A q \in 1 .. Len(s) : z[q] = s[q]
           /\ \A q \in 1 .. Len(t) : z[Len(s) + q] = t[q]
<1>1. Len(s) \in Nat /\ Len(t) \in Nat
  OBVIOUS
<1>2. /\ z \in Seq(AnyLine) /\ Len(z) = Len(s) + Len(t)
      /\ \A i \in 1 .. Len(s) + Len(t) : z[i] =
            IF i <= Len(s) THEN s[i] ELSE t[i - Len(s)]
  BY ConcatProperties
<1> QED BY <1>1, <1>2

(* The data as it is written, around the lines of its files. *)
LEMMA RenderedLines ==
    ASSUME NEW d \in BootstrapData, Len(d.cmds) = 1,
           NEW flat \in Seq(AnyLine), NEW lines, lines = Render(d),
           flat = FlattenSeq([i \in DOMAIN d.files |-> FileLines(d.files[i])])
    PROVE  /\ lines \in Seq(AnyLine) /\ Len(lines) = Len(flat) + 3
           /\ lines[1].kind = "other"
           /\ \A q \in 1 .. Len(flat) : lines[1 + q] = flat[q]
           /\ lines[Len(flat) + 2].kind = "runcmd"
           /\ lines[Len(flat) + 3].kind = "cmd"
           /\ lines[Len(flat) + 3].of = d.cmds[1]
<1>1. PICK o, r, c : /\ o = Line("other", "") /\ r = Line("runcmd", "")
                     /\ c = Line("cmd", d.cmds[1])
  OBVIOUS
<1>2. d.cmds \in Seq(STRING) /\ DOMAIN d.cmds = 1 .. 1 /\ d.cmds[1] \in STRING
  <2>1. d.cmds \in Seq(STRING)
    BY DEF BootstrapData
  <2> QED BY <2>1
<1>3. o \in AnyLine /\ r \in AnyLine /\ c \in AnyLine
  <2>1. {"other", "runcmd", "cmd"} \subseteq LineKinds
    BY DEF LineKinds
  <2> QED BY <1>1, <1>2, <2>1 DEF Line, AnyLine, Texts
<1>4. PICK x, y, z, u, v : /\ x = <<o>> /\ y = <<r>>
                           /\ z = [i \in DOMAIN d.cmds |-> Line("cmd", d.cmds[i])]
                           /\ u = x \o flat /\ v = u \o y
  OBVIOUS
<1>5. /\ x \in Seq(AnyLine) /\ Len(x) = 1 /\ x[1] = o
      /\ y \in Seq(AnyLine) /\ Len(y) = 1 /\ y[1] = r
  BY <1>3, <1>4
<1>6. z \in Seq(AnyLine) /\ Len(z) = 1 /\ z[1] = c
  <2>1. \A i \in 1 .. 1 : i = 1
    OBVIOUS
  <2>2. z = [i \in 1 .. 1 |-> c]
    BY <1>1, <1>2, <1>4, <2>1
  <2> QED BY <1>3, <2>2
<1>7. lines = v \o z
  BY <1>1, <1>4 DEF Render
<1>8. PICK n \in Nat : n = Len(flat)
  OBVIOUS
<1>9. /\ u \in Seq(AnyLine) /\ Len(u) = 1 + n
      /\ u[1] = o /\ \A q \in 1 .. n : u[1 + q] = flat[q]
  <2>1. /\ u \in Seq(AnyLine) /\ Len(u) = Len(x) + Len(flat)
        /\ \A q \in 1 .. Len(x) : u[q] = x[q]
        /\ \A q \in 1 .. Len(flat) : u[Len(x) + q] = flat[q]
    BY <1>4, <1>5, LinesJoin
  <2> QED BY <1>5, <1>8, <2>1
<1>10. /\ v \in Seq(AnyLine) /\ Len(v) = n + 2
       /\ \A q \in 1 .. n + 1 : v[q] = u[q]
       /\ v[n + 2] = r
  <2>1. /\ v \in Seq(AnyLine) /\ Len(v) = Len(u) + Len(y)
        /\ \A q \in 1 .. Len(u) : v[q] = u[q]
        /\ \A q \in 1 .. Len(y) : v[Len(u) + q] = y[q]
    BY <1>4, <1>5, <1>9, LinesJoin
  <2>2. Len(u) = n + 1 /\ Len(y) = 1 /\ y[1] = r
    BY <1>5, <1>9
  <2>3. Len(v) = n + 2 /\ \A q \in 1 .. n + 1 : v[q] = u[q]
    BY <2>1, <2>2
  <2>4. v[(n + 1) + 1] = r /\ (n + 1) + 1 = n + 2
    BY <2>1, <2>2
  <2> QED BY <2>1, <2>3, <2>4
<1>11. /\ lines \in Seq(AnyLine) /\ Len(lines) = n + 3
       /\ \A q \in 1 .. n + 2 : lines[q] = v[q]
       /\ lines[n + 3] = c
  <2>1. /\ lines \in Seq(AnyLine) /\ Len(lines) = Len(v) + Len(z)
        /\ \A q \in 1 .. Len(v) : lines[q] = v[q]
        /\ \A q \in 1 .. Len(z) : lines[Len(v) + q] = z[q]
    <3>1. v \in Seq(AnyLine) /\ z \in Seq(AnyLine) /\ lines = v \o z
      BY <1>6, <1>7, <1>10
    <3> QED BY <3>1, LinesJoin
  <2>2. Len(v) = n + 2 /\ Len(z) = 1 /\ z[1] = c
    BY <1>6, <1>10
  <2>3. Len(lines) = n + 3 /\ \A q \in 1 .. n + 2 : lines[q] = v[q]
    BY <2>1, <2>2
  <2>4. lines[(n + 2) + 1] = c /\ (n + 2) + 1 = n + 3
    BY <2>1, <2>2
  <2> QED BY <2>1, <2>3, <2>4
<1>12. \A q \in 1 .. n : lines[1 + q] = flat[q]
  <2> TAKE q \in 1 .. n
  <2>1. 1 + q \in 1 .. n + 1 /\ 1 + q \in 1 .. n + 2
    OBVIOUS
  <2> QED BY <1>9, <1>10, <1>11, <2>1
<1>13. lines[1] = o /\ lines[n + 2] = r
  <2>1. 1 \in 1 .. n + 1 /\ 1 \in 1 .. n + 2 /\ n + 2 \in 1 .. n + 2
    OBVIOUS
  <2> QED BY <1>9, <1>10, <1>11, <2>1
<1>14. /\ o.kind = "other" /\ r.kind = "runcmd"
       /\ c.kind = "cmd" /\ c.of = d.cmds[1]
  BY <1>1 DEF Line
<1> QED BY <1>8, <1>11, <1>12, <1>13, <1>14

(* The lines before those of file k. *)
Base(seqs, k) == IF k = 1 THEN 0 ELSE Len(Joined(seqs)[k - 1])

(* File k is whole after the lines before it, whatever is joined to it. *)
InPlace(seqs, k, base) ==
    /\ base \in Nat /\ Len(Joined(seqs)[k]) = base + Len(seqs[k])
    /\ \A m \in k .. Len(seqs) :
          /\ Len(Joined(seqs)[k]) <= Len(Joined(seqs)[m])
          /\ \A q \in 1 .. Len(seqs[k]) :
                Joined(seqs)[m][base + q] = seqs[k][q]

(* The files of the data, one after the other: file k follows the first    *)
(* k - 1, and what comes after it changes nothing.                         *)
LEMMA JoinedPlaces ==
    ASSUME NEW seqs, Len(seqs) \in Nat,
           \A i \in 1 .. Len(seqs) : InFiles(seqs[i]),
           NEW k \in 1 .. Len(seqs)
    PROVE  InPlace(seqs, k, Base(seqs, k))
<1> PICK base : base = Base(seqs, k)
  OBVIOUS
<1> PICK N \in Nat : N = Len(seqs)
  OBVIOUS
<1>0. PICK J : J = Joined(seqs) /\ N = Len(seqs)
  OBVIOUS
<1>1. ASSUME NEW i \in 1 .. N
      PROVE  /\ J[i] \in Seq(AnyLine) /\ seqs[i] \in Seq(AnyLine)
             /\ Len(J[i]) \in Nat /\ Len(seqs[i]) \in Nat
             /\ i = 1 => J[i] = seqs[i]
             /\ i # 1 => J[i] = J[i - 1] \o seqs[i]
  <2>1. InFiles(J[i]) /\ J[i] = JoinAt(seqs, J, i) /\ InFiles(seqs[i])
    BY <1>0, JoinedInFiles
  <2>2. J[i] \in Seq(AnyLine) /\ seqs[i] \in Seq(AnyLine)
    BY <2>1 DEF InFiles
  <2>3. Len(J[i]) \in Nat /\ Len(seqs[i]) \in Nat
    BY <2>2
  <2> QED BY <2>1, <2>2, <2>3 DEF JoinAt
<1>2. PICK len \in Nat : len = Len(seqs[k])
  BY <1>0, <1>1
<1>3. /\ base \in Nat /\ Len(J[k]) = base + len
      /\ \A q \in 1 .. len : J[k][base + q] = seqs[k][q]
  <2>1. CASE k = 1
    <3>1. J[k] = seqs[k] /\ base = 0
      BY <1>0, <1>1, <2>1 DEF Base
    <3>2. \A q \in 1 .. len : base + q = q
      BY <3>1
    <3>3. base \in Nat
      BY <3>1
    <3>5. Len(J[k]) = len
      BY <1>2, <3>1
    <3>6. len = base + len
      BY <3>1
    <3>4. \A q \in 1 .. len : J[k][base + q] = seqs[k][q]
      BY <3>1, <3>2
    <3> QED BY <3>3, <3>4, <3>5, <3>6
  <2>2. CASE k # 1
    <3>1. k - 1 \in 1 .. N /\ base = Len(J[k - 1])
      BY <1>0, <2>2 DEF Base
    <3>2. PICK a, b, c : a = J[k - 1] /\ b = seqs[k] /\ c = J[k]
      OBVIOUS
    <3>3. a \in Seq(AnyLine) /\ b \in Seq(AnyLine) /\ c = a \o b
      BY <1>0, <1>1, <2>2, <3>1, <3>2
    <3>4. /\ Len(a) \in Nat /\ Len(c) = Len(a) + Len(b)
          /\ \A q \in 1 .. Len(b) : c[Len(a) + q] = b[q]
      BY <3>3, LinesJoin
    <3> QED BY <1>2, <3>1, <3>2, <3>4
  <2> QED BY <2>1, <2>2
<1> DEFINE At(m) == /\ Len(J[k]) <= Len(J[m])
                    /\ \A q \in 1 .. len : J[m][base + q] = seqs[k][q]
           Kept == {n \in 0 .. (N - k) : At(k + n)}
<1>4. 0 \in Kept
  <2>1. At(k)
    BY <1>0, <1>1, <1>3
  <2>2. 0 \in 0 .. (N - k) /\ k + 0 = k
    BY <1>0
  <2> HIDE DEF At
  <2> QED BY <2>1, <2>2
<1>5. ASSUME NEW n \in 1 .. (N - k), n - 1 \in Kept PROVE n \in Kept
  <2>1. PICK m \in (k + 1) .. N : m = k + n
    BY <1>0
  <2>2. At(m - 1)
    <3>1. k + (n - 1) = m - 1
      BY <2>1
    <3> HIDE DEF At
    <3> QED BY <1>5, <3>1
  <2>3. m \in 1 .. N /\ m - 1 \in 1 .. N /\ m # 1
    BY <1>0, <2>1
  <2>4. PICK a, b, c : a = J[m - 1] /\ b = seqs[m] /\ c = J[m]
    OBVIOUS
  <2>5. a \in Seq(AnyLine) /\ b \in Seq(AnyLine) /\ c = a \o b
    BY <1>1, <2>3, <2>4
  <2>6. /\ Len(a) \in Nat /\ Len(b) \in Nat /\ Len(c) = Len(a) + Len(b)
        /\ \A q \in 1 .. Len(a) : c[q] = a[q]
    BY <2>5, LinesJoin
  <2>7. /\ Len(J[k]) <= Len(a)
        /\ \A q \in 1 .. len : a[base + q] = seqs[k][q]
    BY <2>2, <2>4
  <2>8. \A q \in 1 .. len : base + q \in 1 .. Len(a)
    <3>1. PICK la, lk : la = Len(a) /\ lk = Len(J[k])
      OBVIOUS
    <3>2. /\ la \in Nat /\ lk <= la
          /\ base \in Nat /\ len \in Nat /\ lk = base + len
      BY <1>3, <2>6, <2>7, <3>1
    <3>3. \A q \in 1 .. len : base + q \in 1 .. la
      BY <3>2
    <3> QED BY <3>1, <3>3
  <2>9. At(m)
    <3>1. Len(J[k]) <= Len(c)
      BY <1>3, <2>6, <2>7
    <3>2. \A q \in 1 .. len : c[base + q] = seqs[k][q]
      BY <2>6, <2>7, <2>8
    <3> QED BY <2>4, <3>1, <3>2
  <2> HIDE DEF At
  <2> QED BY <2>1, <2>9
<1>6. ASSUME NEW m \in k .. N PROVE At(m)
  <2>1. N - k \in Nat /\ m - k \in 0 .. (N - k) /\ k + (m - k) = m
    BY <1>0
  <2>2. 0 .. (N - k) \subseteq Kept
    <3> HIDE DEF Kept
    <3> QED BY <1>4, <1>5, <2>1, FromZero
  <2> HIDE DEF At
  <2> QED BY <2>1, <2>2
<1> QED BY <1>0, <1>2, <1>3, <1>6 DEF InPlace

(* Where the files of the data are: file k begins at line at[k], and file  *)
(* k + 1, or "runcmd", follows its last line.                              *)
Placed(d, lines, at) ==
    /\ lines \in Seq(AnyLine) /\ d.files \in Seq(DataFile)
    /\ Len(lines) \in Nat /\ Len(d.files) \in Nat \ {0}
    /\ Len(lines) > 2 /\ lines[1].kind = "other"
    /\ lines[Len(lines) - 1].kind = "runcmd"
    /\ at[1] = 2
    /\ \A k \in 1 .. Len(d.files) :
          /\ at[k] \in Nat /\ at[k] >= 2
          /\ d.files[k].body \in Seq(AnyLine) /\ Len(d.files[k].body) \in Nat
          /\ at[k] + 4 + Len(d.files[k].body)
                = IF k < Len(d.files) THEN at[k + 1] ELSE Len(lines) - 1
          /\ at[k] + 4 + Len(d.files[k].body) < Len(lines)
          /\ lines[at[k]].kind = "path" /\ lines[at[k]].of = d.files[k].path
          /\ Headed(lines, at[k])
          /\ \A q \in 1 .. Len(d.files[k].body) :
                /\ lines[at[k] + 3 + q] = d.files[k].body[q]
                /\ d.files[k].body[q].kind \in BodyKinds \ {"short"}

(* The text of runnable data has its files one after the other; the first  *)
(* starts in the second line.                                              *)
LEMMA FilesPlaced ==
    ASSUME NEW d \in BootstrapData, Runnable(d)
    PROVE  \E at : Placed(d, Render(d), at)
<1> PICK n \in Nat \ {0} : n = Len(d.files)
  BY EmptySeq, LenProperties DEF BootstrapData, Runnable
<1>1. d.files \in Seq(DataFile) /\ DOMAIN d.files = 1 .. n
  BY LenProperties DEF BootstrapData
<1>2. PICK seqs, J, lines :
         /\ seqs = [i \in DOMAIN d.files |-> FileLines(d.files[i])]
         /\ J = Joined(seqs) /\ lines = Render(d)
  OBVIOUS
<1>3. /\ DOMAIN seqs = 1 .. n /\ Len(seqs) = n
      /\ \A i \in 1 .. n : seqs[i] = FileLines(d.files[i])
  BY <1>1, <1>2
<1>4. ASSUME NEW i \in 1 .. n
      PROVE  /\ d.files[i] \in DataFile /\ d.files[i].owned
             /\ ~Has(d.files[i], "short")
             /\ d.files[i].body \in Seq(AnyLine) /\ Len(d.files[i].body) \in Nat
             /\ InFiles(seqs[i]) /\ Len(seqs[i]) = 4 + Len(d.files[i].body)
             /\ seqs[i][1].kind = "path" /\ seqs[i][1].of = d.files[i].path
             /\ \A q \in 1 .. Len(d.files[i].body) :
                   /\ seqs[i][4 + q] = d.files[i].body[q]
                   /\ d.files[i].body[q].kind \in BodyKinds \ {"short"}
  <2>1. /\ d.files[i] \in DataFile /\ d.files[i].owned
        /\ ~Has(d.files[i], "short")
    BY <1>1, ElementOfSeq DEF Runnable
  <2>2. seqs[i] = FileLines(d.files[i])
    BY <1>3
  <2>3. PICK f, s : f = d.files[i] /\ s = FileLines(f)
    OBVIOUS
  <2>4. f \in DataFile /\ f.owned /\ ~Has(f, "short")
    BY <2>1, <2>3
  <2>5. /\ f.body \in Seq(AnyLine) /\ Len(f.body) \in Nat
        /\ InFiles(s) /\ Len(s) = 4 + Len(f.body)
        /\ s[1].kind = "path" /\ s[1].of = f.path
        /\ \A q \in 1 .. Len(f.body) :
              /\ s[4 + q] = f.body[q]
              /\ f.body[q].kind \in BodyKinds \ {"short"}
    BY Zenon, <2>3, <2>4, FileWritten
  <2>6. d.files[i] = f /\ seqs[i] = s
    BY <2>2, <2>3
  <2> QED BY <2>4, <2>5, <2>6
<1>5. PICK flat : flat = J[n]
  OBVIOUS
<1>6. /\ flat = FlattenSeq(seqs) /\ InFiles(flat)
      /\ flat \in Seq(AnyLine) /\ Len(flat) \in Nat
  <2>1. Len(seqs) = n /\ n \in Nat /\ n # 0 /\ n \in 1 .. n
    BY <1>3
  <2>2. flat = FlattenSeq(seqs)
    BY <1>2, <1>5, <2>1, FlattenSeqIsJoined
  <2>3. \A i \in 1 .. Len(seqs) : InFiles(seqs[i])
    BY <1>4, <2>1
  <2>4. InFiles(flat)
    BY <1>2, <1>5, <2>1, <2>3, JoinedInFiles
  <2>5. flat \in Seq(AnyLine)
    BY <2>4 DEF InFiles
  <2> QED BY <2>2, <2>4, <2>5
<1>7. /\ lines \in Seq(AnyLine) /\ Len(lines) = Len(flat) + 3
      /\ lines[1].kind = "other"
      /\ \A q \in 1 .. Len(flat) : lines[1 + q] = flat[q]
      /\ lines[Len(flat) + 2].kind = "runcmd"
  BY <1>2, <1>6, RenderedLines DEF Runnable
<1>8. PICK base, at : /\ base = [k \in 1 .. n |-> IF k = 1 THEN 0 ELSE Len(J[k - 1])]
                      /\ at = [k \in 1 .. n |-> 2 + base[k]]
  OBVIOUS
<1>9. PICK m \in Nat : m = Len(flat) /\ Len(lines) = m + 3
  BY <1>6, <1>7
<1>10. ASSUME NEW k \in 1 .. n
       PROVE  \E b \in Nat, l \in Nat :
                 /\ b = base[k] /\ l = Len(d.files[k].body)
                 /\ Len(J[k]) = b + (4 + l) /\ b + (4 + l) <= m
                 /\ \A q \in 1 .. 4 + l : flat[b + q] = seqs[k][q]
  <2>1. PICK b : b = base[k]
    OBVIOUS
  <2>2. PICK l \in Nat : l = Len(d.files[k].body) /\ Len(seqs[k]) = 4 + l
    BY <1>4
  <2>3. b = Base(seqs, k)
    BY <1>2, <1>8, <2>1 DEF Base
  <2>4. /\ Len(seqs) \in Nat /\ k \in 1 .. Len(seqs)
        /\ n \in k .. Len(seqs)
        /\ \A i \in 1 .. Len(seqs) : InFiles(seqs[i])
    <3>1. Len(seqs) = n
      BY <1>3
    <3>2. \A i \in 1 .. n : InFiles(seqs[i])
      BY <1>4
    <3> QED BY <3>1, <3>2
  <2>5. /\ b \in Nat /\ Len(J[k]) = b + Len(seqs[k])
        /\ Len(J[k]) <= Len(flat)
        /\ \A q \in 1 .. Len(seqs[k]) : flat[b + q] = seqs[k][q]
    <3>1. InPlace(seqs, k, b)
      BY <2>3, <2>4, JoinedPlaces
    <3>2. n \in k .. Len(seqs)
      BY <2>4
    <3>3. /\ b \in Nat /\ Len(J[k]) = b + Len(seqs[k])
          /\ Len(J[k]) <= Len(J[n])
          /\ \A q \in 1 .. Len(seqs[k]) : J[n][b + q] = seqs[k][q]
      BY <1>2, <3>1, <3>2 DEF InPlace
    <3> QED BY <1>5, <3>3
  <2>6. Len(J[k]) = b + (4 + l) /\ b + (4 + l) <= m
    BY <1>9, <2>2, <2>5
  <2>7. \A q \in 1 .. 4 + l : flat[b + q] = seqs[k][q]
    BY <2>2, <2>5
  <2> QED BY <2>1, <2>2, <2>5, <2>6, <2>7
<1>11. ASSUME NEW k \in 1 .. n
       PROVE  /\ at[k] \in Nat /\ at[k] >= 2
              /\ at[k] + 4 + Len(d.files[k].body)
                    = IF k < n THEN at[k + 1] ELSE Len(lines) - 1
              /\ at[k] + 4 + Len(d.files[k].body) < Len(lines)
              /\ lines[at[k]].kind = "path"
              /\ lines[at[k]].of = d.files[k].path
              /\ Headed(lines, at[k])
              /\ \A q \in 1 .. Len(d.files[k].body) :
                    lines[at[k] + 3 + q] = d.files[k].body[q]
  <2>1. PICK b \in Nat, l \in Nat :
                 /\ b = base[k] /\ l = Len(d.files[k].body)
                 /\ Len(J[k]) = b + (4 + l) /\ b + (4 + l) <= m
                 /\ \A q \in 1 .. 4 + l : flat[b + q] = seqs[k][q]
    BY <1>10
  <2>2. PICK a : a = at[k]
    OBVIOUS
  <2>3. a = 2 + b
    BY <1>8, <2>1, <2>2
  <2>4. b + (4 + l) <= m
    BY <2>1
  <2>5. a \in Nat /\ a >= 2 /\ a + 4 + l < m + 3
    BY <2>3, <2>4
  <2>6. a + 4 + l = IF k < n THEN at[k + 1] ELSE m + 3 - 1
    <3>1. PICK e : e = Len(J[k]) /\ e = b + (4 + l)
      BY <2>1
    <3>2. e = b + (4 + l)
      BY <3>1
    <3>3. a + 4 + l = 2 + e
      BY <2>3, <3>2
    <3>4. CASE k < n
      <4>1. k + 1 \in 1 .. n /\ (k + 1) - 1 = k /\ k + 1 # 1
        BY <3>4
      <4>2. at[k + 1] = 2 + base[k + 1] /\ base[k + 1] = Len(J[k])
        BY <1>8, <4>1
      <4>3. at[k + 1] = 2 + e
        BY <3>1, <4>2
      <4> QED BY <3>3, <3>4, <4>3
    <3>5. CASE ~(k < n)
      <4>1. k = n
        BY <3>5
      <4>2. e = m
        BY <1>5, <1>9, <3>1, <4>1
      <4>3. a + 4 + l = m + 3 - 1
        BY <3>3, <4>2
      <4> QED BY <3>5, <4>3
    <3> QED BY <3>4, <3>5
  <2>7. \A q \in 1 .. 4 + l : lines[1 + (b + q)] = seqs[k][q]
    <3> TAKE q \in 1 .. 4 + l
    <3>1. b + q \in 1 .. m
      BY <2>4
    <3>2. lines[1 + (b + q)] = flat[b + q]
      BY <1>7, <1>9, <3>1
    <3>3. flat[b + q] = seqs[k][q]
      BY <2>1
    <3> QED BY <3>2, <3>3
  <2>8. lines[a].kind = "path" /\ lines[a].of = d.files[k].path
    <3>1. a = 1 + (b + 1) /\ 1 \in 1 .. 4 + l
      BY <2>3
    <3>2. lines[a] = seqs[k][1]
      BY <2>7, <3>1
    <3> QED BY <1>4, <3>2
  <2>9. \A q \in 1 .. l : lines[a + 3 + q] = d.files[k].body[q]
    <3> TAKE q \in 1 .. l
    <3>1. a + 3 + q = 1 + (b + (4 + q)) /\ 4 + q \in 1 .. 4 + l
      BY <2>3
    <3>2. lines[a + 3 + q] = seqs[k][4 + q]
      BY <2>7, <3>1
    <3>3. seqs[k][4 + q] = d.files[k].body[q]
      BY <1>4, <2>1
    <3> QED BY <3>2, <3>3
  <2>10. Headed(lines, a)
    <3>1. PICK s : s = seqs[k]
      OBVIOUS
    <3>2. /\ InFiles(s) /\ s \in Seq(AnyLine)
          /\ Len(s) = 4 + l /\ s[1].kind = "path"
      <4>1. InFiles(s) /\ Len(s) = 4 + l /\ s[1].kind = "path"
        BY <1>4, <2>1, <3>1
      <4> QED BY <4>1 DEF InFiles
    <3>3. Headed(s, 1)
      <4>1. 1 \in 1 .. Len(s)
        BY <3>2
      <4> QED BY <3>2, <4>1 DEF InFiles
    <3>4. /\ a + 1 = 1 + (b + 2) /\ a + 2 = 1 + (b + 3)
          /\ 2 \in 1 .. 4 + l /\ 3 \in 1 .. 4 + l
      BY <2>3
    <3>5. lines[a + 1] = s[2] /\ lines[a + 2] = s[3]
      BY <2>7, <3>1, <3>4
    <3>6. a + 1 \in 1 .. m + 3 /\ a + 2 \in 1 .. m + 3
      BY <2>5
    <3>7. LineAt(s, 2) = s[2] /\ LineAt(s, 3) = s[3]
      BY <3>2, <3>4, LineWithin
    <3>8. /\ LineAt(lines, a + 1) = lines[a + 1]
          /\ LineAt(lines, a + 2) = lines[a + 2]
      BY <1>7, <1>9, <3>6, LineWithin
    <3>9. 1 + 1 = 2 /\ 1 + 2 = 3
      OBVIOUS
    <3> QED BY <3>3, <3>5, <3>7, <3>8, <3>9 DEF Headed
  <2>11. /\ a + 4 + l = IF k < n THEN at[k + 1] ELSE Len(lines) - 1
         /\ a + 4 + l < Len(lines)
    BY <1>9, <2>5, <2>6
  <2> QED BY <2>1, <2>2, <2>5, <2>8, <2>9, <2>10, <2>11
<1>12. /\ Len(lines) \in Nat /\ Len(lines) > 2 /\ lines[1].kind = "other"
       /\ lines[Len(lines) - 1].kind = "runcmd"
  <2>1. Len(lines) - 1 = Len(flat) + 2
    BY <1>9
  <2> QED BY <1>7, <1>9, <2>1
<1>13. at[1] = 2
  BY <1>8
<1>14. Placed(d, lines, at)
  BY <1>1, <1>4, <1>7, <1>11, <1>12, <1>13 DEF Placed
<1> QED BY <1>2, <1>14

(* The reader passes over the lines up to the next header. *)
LEMMA PassesOver ==
    ASSUME NEW lines \in Seq(AnyLine), NEW i \in 1 .. Len(lines),
           NEW l \in i .. Len(lines),
           \A k \in i .. (l - 1) : lines[k].kind # "path"
    PROVE  Reader(lines)[i] = Reader(lines)[l]
<1> DEFINE Same == {n \in 0 .. (l - i) : Reader(lines)[l - n] = Reader(lines)[l]}
<1>1. 0 \in Same
  OBVIOUS
<1>2. ASSUME NEW n \in 1 .. (l - i), n - 1 \in Same PROVE n \in Same
  <2>1. PICK k \in i .. (l - 1) : k = l - n
    OBVIOUS
  <2>2. k \in 1 .. Len(lines) + 6 /\ k <= Len(lines)
    BY <2>1
  <2>3. Reader(lines)[k] = ReadAt(lines, Reader(lines), k)
    BY <2>2, ReaderReads
  <2>4. Reader(lines)[k] = Reader(lines)[k + 1]
    BY <2>1, <2>2, <2>3 DEF ReadAt
  <2>5. k + 1 = l - (n - 1)
    BY <2>1
  <2> QED BY <1>2, <2>1, <2>4, <2>5
<1>3. l - i \in Nat /\ l - (l - i) = i
  OBVIOUS
<1>4. 0 .. (l - i) \subseteq Same
  <2> HIDE DEF Same
  <2> QED BY <1>1, <1>2, <1>3, FromZero
<1> QED BY <1>3, <1>4

-----------------------------------------------------------------------------
(* Lines of a file, none of them too short, after the header at line a.    *)
BodyAt(lines, a, body) ==
    /\ lines \in Seq(AnyLine) /\ a \in 1 .. Len(lines)
    /\ body \in Seq(AnyLine)
    /\ a + 4 + Len(body) < Len(lines)
    /\ \A q \in 1 .. Len(body) :
          /\ lines[a + 3 + q] = body[q]
          /\ body[q].kind \in BodyKinds \ {"short"}

(* A file whose header is line a of the data, complete.                    *)
FileAt(lines, a, file) ==
    /\ BodyAt(lines, a, file.body)
    /\ lines[a].kind = "path" /\ lines[a].of = file.path /\ Headed(lines, a)

(* The files end at line z: "runcmd" is there, with the command after it.  *)
FilesEnd(lines, z) == z = Len(lines) - 1 /\ lines[z].kind = "runcmd"

(* The lines of the file are within the data. *)
LEMMA BodyWithin ==
    ASSUME NEW lines, NEW a, NEW body, BodyAt(lines, a, body),
           NEW N, NEW n, N = Len(lines), n = Len(body)
    PROVE  /\ lines \in Seq(AnyLine) /\ N \in Nat
           /\ body \in Seq(AnyLine) /\ n \in Nat
           /\ a \in 1 .. N /\ a + 4 + n < N
           /\ \A q \in 1 .. n : /\ lines[a + 3 + q] = body[q]
                                /\ body[q].kind \in BodyKinds \ {"short"}
BY DEF BodyAt

(* What is read between the header and an end within the file. *)
LEMMA BodyRead ==
    ASSUME NEW lines, NEW a, NEW body, BodyAt(lines, a, body),
           NEW e \in 0 .. Len(body)
    PROVE  SubSeq(lines, a + 4, a + 3 + e) = SubSeq(body, 1, e)
<1>1. PICK N, n : N = Len(lines) /\ n = Len(body)
  OBVIOUS
<1>2. /\ lines \in Seq(AnyLine) /\ N = Len(lines) /\ N \in Nat
      /\ body \in Seq(AnyLine) /\ n = Len(body) /\ n \in Nat
      /\ a \in 1 .. N /\ a + 4 + n < N /\ e \in 0 .. n
      /\ \A q \in 1 .. n : lines[a + 3 + q] = body[q]
  BY <1>1 DEF BodyAt
<1>3. PICK s, t : s = SubSeq(lines, a + 4, a + 3 + e) /\ t = SubSeq(body, 1, e)
  OBVIOUS
<1>4. /\ t \in Seq(AnyLine) /\ Len(t) = e
      /\ \A q \in 1 .. e : t[q] = body[q]
  <2>1. \A i \in 1 .. e : body[i] \in AnyLine
    BY <1>2
  <2>2. /\ t \in Seq(AnyLine) /\ Len(t) = IF 1 <= e THEN e - 1 + 1 ELSE 0
        /\ \A i \in 1 .. e - 1 + 1 : t[i] = body[1 + i - 1]
    BY <1>2, <1>3, <2>1, SubSeqProperties
  <2> QED BY <1>2, <2>2
<1>5. /\ s \in Seq(AnyLine) /\ Len(s) = e
      /\ \A q \in 1 .. e : s[q] = lines[a + 3 + q]
  <2>1. PICK from, to : from = a + 4 /\ to = a + 3 + e
    OBVIOUS
  <2>2. from \in Nat /\ to \in Nat /\ from \in Int /\ to \in Int
    BY <1>2, <2>1
  <2>3. \A i \in from .. to : lines[i] \in AnyLine
    <3> TAKE i \in from .. to
    <3>1. i \in 1 .. N
      BY <1>2, <2>1
    <3> QED BY <1>2, <3>1
  <2>4. /\ s \in Seq(AnyLine)
        /\ Len(s) = IF from <= to THEN to - from + 1 ELSE 0
        /\ \A i \in 1 .. to - from + 1 : s[i] = lines[from + i - 1]
    BY <1>2, <1>3, <2>1, <2>2, <2>3, SubSeqProperties
  <2>5. to - from + 1 = e /\ (from <= to <=> e # 0)
    BY <1>2, <2>1
  <2>6. \A q \in 1 .. e : from + q - 1 = a + 3 + q
    BY <1>2, <2>1
  <2> QED BY <2>4, <2>5, <2>6
<1>6. \A q \in 1 .. Len(s) : s[q] = t[q]
  <2> TAKE q \in 1 .. Len(s)
  <2>1. q \in 1 .. e /\ q \in 1 .. n
    BY <1>2, <1>5
  <2> QED BY <1>2, <1>4, <1>5, <2>1
<1>7. s = t
  BY <1>4, <1>5, <1>6, SeqEqual
<1> QED BY <1>3, <1>7

(* The end of a file: its first END line, or the line after it if that     *)
(* ends it.                                                                *)
LEMMA StopWithin ==
    ASSUME NEW lines, NEW a, NEW body, BodyAt(lines, a, body)
    PROVE  /\ (\E q \in 1 .. Len(body) : body[q].kind = "end") =>
                 \E e \in 1 .. Len(body) :
                    /\ body[e].kind = "end"
                    /\ StopOf(lines, a) = a + 3 + e
           /\ (/\ \A q \in 1 .. Len(body) : body[q].kind # "end"
               /\ FilesEnd(lines, a + 4 + Len(body)))
                 => StopOf(lines, a) = a + 4 + Len(body)
<1>1. PICK N, n : N = Len(lines) /\ n = Len(body)
  OBVIOUS
<1>0. PICK j : j = StopOf(lines, a)
  OBVIOUS
<1>2. /\ lines \in Seq(AnyLine) /\ N = Len(lines) /\ N \in Nat
      /\ body \in Seq(AnyLine) /\ n = Len(body) /\ n \in Nat
      /\ a \in 1 .. N /\ a + 4 + n < N
      /\ \A q \in 1 .. n : /\ lines[a + 3 + q] = body[q]
                           /\ body[q].kind \in BodyKinds \ {"short"}
  BY <1>1, BodyWithin
<1>3. /\ j \in (a + 4) .. (N + 4) /\ LineAt(lines, j).kind \in Stops
      /\ \A k \in (a + 4) .. (j - 1) : LineAt(lines, k).kind \notin Stops
  BY <1>0, <1>1, <1>2, StopFound
<1>4. \A k \in (a + 4) .. (a + 4 + n) : LineAt(lines, k) = lines[k]
  <2> TAKE k \in (a + 4) .. (a + 4 + n)
  <2>1. k \in 1 .. N
    BY <1>2
  <2> QED BY <1>2, <2>1, LineWithin
<1>5. \A k \in (a + 4) .. (a + 4 + n) : lines[k].kind \in Stops => j <= k
  <2> SUFFICES ASSUME NEW k \in (a + 4) .. (a + 4 + n),
                      lines[k].kind \in Stops, ~(j <= k)
               PROVE  FALSE
    BY <1>2, <1>3
  <2>1. k \in (a + 4) .. (j - 1)
    BY <1>2, <1>3
  <2> QED BY <1>3, <1>4, <2>1
<1>6. \A k \in (a + 4) .. (a + 3 + n) :
         j = k => body[k - a - 3].kind = "end" /\ k - a - 3 \in 1 .. n
  <2> SUFFICES ASSUME NEW k \in (a + 4) .. (a + 3 + n), j = k
               PROVE  body[k - a - 3].kind = "end" /\ k - a - 3 \in 1 .. n
    OBVIOUS
  <2>1. PICK q \in 1 .. n : q = k - a - 3 /\ a + 3 + q = k
    <3>1. k - a - 3 \in 1 .. n /\ a + 3 + (k - a - 3) = k
      BY <1>2
    <3> QED BY <3>1
  <2>2. k \in (a + 4) .. (a + 4 + n)
    BY <1>2
  <2>3. lines[k].kind \in Stops
    BY <1>3, <1>4, <2>2
  <2>4. lines[k] = body[q] /\ body[q].kind \in BodyKinds \ {"short"}
    BY <1>2, <2>1
  <2>5. body[q].kind = "end"
    BY <2>3, <2>4 DEF Stops, BodyKinds
  <2> QED BY <2>1, <2>5
<1>8. ASSUME NEW q \in 1 .. n, body[q].kind = "end"
      PROVE  \E e \in 1 .. n : body[e].kind = "end" /\ j = a + 3 + e
  <2>1. a + 3 + q \in (a + 4) .. (a + 4 + n)
    BY <1>2
  <2>2. lines[a + 3 + q].kind \in Stops
    BY <1>2, <1>8 DEF Stops
  <2>3. j <= a + 3 + q
    BY <1>5, <2>1, <2>2
  <2>4. PICK e \in 1 .. n : e = j - a - 3
    BY <1>2, <1>3, <2>3
  <2>5. j \in (a + 4) .. (a + 3 + n) /\ j = a + 3 + e
    BY <1>2, <1>3, <2>4
  <2> QED BY <1>6, <2>4, <2>5
<1>9. ASSUME \A q \in 1 .. n : body[q].kind # "end", FilesEnd(lines, a + 4 + n)
      PROVE  j = a + 4 + n
  <2>1. PICK z : z = a + 4 + n
    OBVIOUS
  <2>2. lines[z].kind \in Stops
    BY <1>9, <2>1 DEF Stops, FilesEnd
  <2>3. z \in (a + 4) .. (a + 4 + n) /\ z \in Int
    BY <1>2, <2>1
  <2>4. j <= z
    <3>1. lines[z].kind \in Stops => j <= z
      BY <1>5, <2>3
    <3> QED BY <2>2, <3>1
  <2>5. j \notin (a + 4) .. (a + 3 + n)
    <3> SUFFICES ASSUME j \in (a + 4) .. (a + 3 + n) PROVE FALSE
      OBVIOUS
    <3>1. body[j - a - 3].kind = "end" /\ j - a - 3 \in 1 .. n
      BY <1>6
    <3> QED BY <1>9, <3>1
  <2>6. j \in Int /\ j >= a + 4
    BY <1>2, <1>3
  <2>7. a \in Int /\ n \in Nat
    BY <1>2
  <2> QED BY <2>1, <2>3, <2>4, <2>5, <2>6, <2>7
<1>10. (\E q \in 1 .. n : body[q].kind = "end") =>
          \E e \in 1 .. n : body[e].kind = "end" /\ j = a + 3 + e
  BY <1>8
<1> QED BY <1>0, <1>1, <1>9, <1>10

(* What a file should have been read as. *)
ReadOf(f, file) == /\ f \in ReadFile /\ f.path = file.path
                   /\ Solid(f.contents) = Solid(file.body)

(* A certificate is read whole, and the reader is after it. *)
LEMMA CertificateRead ==
    ASSUME NEW lines, NEW a, NEW file, FileAt(lines, a, file),
           Has(file, "end"), OnlyLast(file, "end"),
           NEW z, z = a + 4 + Len(file.body)
    PROVE  \E f : /\ ReadOf(f, file)
                  /\ Reader(lines)[a] = Prepend(<<f>>, <<>>, Reader(lines)[z])
<1>1. PICK body, N, n : /\ body = file.body /\ N = Len(lines)
                        /\ n = Len(body)
  OBVIOUS
<1>0. PICK j : j = StopOf(lines, a)
  OBVIOUS
<1>a. BodyAt(lines, a, body)
  BY <1>1 DEF FileAt
<1>b. lines[a].kind = "path" /\ lines[a].of = file.path /\ Headed(lines, a)
  BY DEF FileAt
<1>2. /\ lines \in Seq(AnyLine) /\ N = Len(lines) /\ N \in Nat
      /\ body \in Seq(AnyLine) /\ n = Len(body) /\ n \in Nat
      /\ a \in 1 .. N /\ a + 4 + n < N
      /\ \A q \in 1 .. n : /\ lines[a + 3 + q] = body[q]
                           /\ body[q].kind \in BodyKinds \ {"short"}
  <2>1. N = Len(lines) /\ n = Len(body)
    BY <1>1
  <2> QED BY <1>a, <2>1, BodyWithin
<1>3. PICK e \in 1 .. n : body[e].kind = "end" /\ j = a + 3 + e
  <2>1. DOMAIN body = 1 .. Len(body)
    BY <1>2, LenProperties
  <2>2. \E q \in 1 .. Len(body) : body[q].kind = "end"
    BY <1>1, <2>1 DEF Has
  <2> QED BY <1>0, <1>1, <1>a, <2>2, StopWithin
<1>4. PICK f : f = [path |-> lines[a].of, contents |-> SubSeq(body, 1, e)]
  OBVIOUS
<1>5. f \in ReadFile /\ f.path = file.path /\ f.contents = SubSeq(body, 1, e)
  <2>1. lines[a].of \in Texts
    BY <1>2, LineWithin
  <2>2. SubSeq(body, 1, e) \in Seq(AnyLine)
    <3>1. \A i \in 1 .. e : body[i] \in AnyLine
      BY <1>2
    <3> QED BY <1>2, <3>1, SubSeqProperties
  <2> QED BY <1>4, <1>b, <2>1, <2>2 DEF ReadFile
<1>6. Solid(f.contents) = Solid(file.body)
  <2>1. \A k \in (e + 1) .. n : body[k].kind = "blank"
    <3>1. /\ file.body \in Seq(AnyLine) /\ e \in 1 .. Len(file.body)
          /\ file.body[e].kind = "end" /\ "end" # "blank"
      BY <1>1, <1>2, <1>3
    <3>2. \A k \in (e + 1) .. Len(file.body) : file.body[k].kind = "blank"
      BY <3>1, OnlyBlankAfter
    <3> QED BY <1>1, <3>2
  <2>2. e \in 0 .. Len(body)
    BY <1>2
  <2>3. Solid(SubSeq(body, 1, e)) = Solid(body)
    BY <1>2, <2>1, <2>2, SolidPrefix
  <2> QED BY <1>1, <1>5, <2>3
<1>7. Reader(lines)[a] = Prepend(<<f>>, <<>>, Reader(lines)[j + 1])
  <2>1. LineAt(lines, j) = lines[j] /\ lines[j] = body[e] /\ j \in 1 .. N
    <3>1. j \in 1 .. N
      BY <1>2, <1>3
    <3>2. lines[j] = body[e]
      BY <1>2, <1>3
    <3> QED BY <1>2, <3>1, <3>2, LineWithin
  <2>2. lines[j].kind = "end"
    BY <1>3, <2>1
  <2>3. Contents(lines, a, j) = SubSeq(body, 1, e)
    <3>1. Contents(lines, a, j) = SubSeq(lines, a + 4, a + 3 + e)
      BY <1>3, <2>2 DEF Contents
    <3>2. e \in 0 .. Len(body)
      BY <1>1, <1>2
    <3> QED BY ZenonT(30), <1>a, <3>1, <3>2, BodyRead
  <2>4. /\ a \in 1 .. Len(lines) + 6 /\ ~(a > Len(lines))
    BY <1>2
  <2>5. Reader(lines)[a] = ReadAt(lines, Reader(lines), a)
    BY <1>2, <2>4, ReaderReads
  <2>6. ReadAt(lines, Reader(lines), a)
           = Prepend(<<f>>, <<>>, Reader(lines)[j + 1])
    BY <1>0, <1>b, <1>4, <2>1, <2>2, <2>3, <2>4 DEF ReadAt
  <2> QED BY <2>5, <2>6
<1>8. Reader(lines)[j + 1] = Reader(lines)[a + 4 + n]
  <2>1. PICK i, l : i = j + 1 /\ l = a + 4 + n
    OBVIOUS
  <2>2. i \in 1 .. Len(lines) /\ l \in i .. Len(lines)
    <3>1. /\ N \in Nat /\ n \in Nat /\ a \in Nat /\ e \in Nat
          /\ 1 <= a /\ a + 4 + n < N /\ e <= n
      BY <1>2
    <3>2. i = a + 3 + e + 1 /\ l = a + 4 + n
      BY <1>3, <2>1
    <3>3. i \in 1 .. N /\ l \in i .. N
      BY <3>1, <3>2
    <3> QED BY <1>2, <3>3
  <2>3. \A k \in i .. (l - 1) : lines[k].kind # "path"
    <3> TAKE k \in i .. (l - 1)
    <3>1. PICK q \in 1 .. n : a + 3 + q = k
      <4>1. i = a + 3 + e + 1 /\ l = a + 4 + n
        BY <1>3, <2>1
      <4>2. a \in Nat /\ n \in Nat
        BY <1>2
      <4>3. k - a - 3 \in 1 .. n /\ a + 3 + (k - a - 3) = k
        BY <4>1, <4>2
      <4> QED BY <4>3
    <3> QED BY <1>2, <3>1 DEF BodyKinds
  <2> QED BY <1>2, <2>1, <2>2, <2>3, PassesOver
<1> QED BY <1>1, <1>5, <1>6, <1>7, <1>8 DEF ReadOf

(* The last file is read whole, and nothing after its command. *)
LEMMA LastRead ==
    ASSUME NEW lines, NEW a, NEW file, FileAt(lines, a, file),
           ~Has(file, "end"), FilesEnd(lines, a + 4 + Len(file.body))
    PROVE  \E f : /\ ReadOf(f, file)
                  /\ Reader(lines)[a] = Prepend(<<f>>,
                        FirstCommand(lines, Len(lines)), Nothing)
<1>1. PICK body, N, n : /\ body = file.body /\ N = Len(lines)
                        /\ n = Len(body)
  OBVIOUS
<1>0. PICK j : j = StopOf(lines, a)
  OBVIOUS
<1>a. BodyAt(lines, a, body)
  BY <1>1 DEF FileAt
<1>b. lines[a].kind = "path" /\ lines[a].of = file.path /\ Headed(lines, a)
  BY DEF FileAt
<1>2. /\ lines \in Seq(AnyLine) /\ N = Len(lines) /\ N \in Nat
      /\ body \in Seq(AnyLine) /\ n = Len(body) /\ n \in Nat
      /\ a \in 1 .. N /\ a + 4 + n < N
  BY <1>1, <1>a, BodyWithin
<1>3. j = a + 4 + n /\ j = N - 1 /\ lines[j].kind = "runcmd"
  <2>1. DOMAIN body = 1 .. Len(body)
    BY <1>2, LenProperties
  <2>2. \A q \in 1 .. Len(body) : body[q].kind # "end"
    BY <1>1, <2>1 DEF Has
  <2>3. FilesEnd(lines, a + 4 + Len(body))
    BY <1>1
  <2>4. j = a + 4 + Len(body)
    BY <1>0, <1>a, <2>2, <2>3, StopWithin
  <2>5. FilesEnd(lines, j)
    BY <2>3, <2>4
  <2> QED BY <1>1, <2>4, <2>5 DEF FilesEnd
<1>4. PICK f : f = [path |-> lines[a].of, contents |-> SubSeq(body, 1, n)]
  OBVIOUS
<1>5. f \in ReadFile /\ f.path = file.path /\ f.contents = SubSeq(body, 1, n)
  <2>1. lines[a].of \in Texts
    BY <1>2, LineWithin
  <2>2. SubSeq(body, 1, n) \in Seq(AnyLine)
    <3>1. \A i \in 1 .. n : body[i] \in AnyLine
      BY <1>2
    <3> QED BY <1>2, <3>1, SubSeqProperties
  <2> QED BY <1>4, <1>b, <2>1, <2>2 DEF ReadFile
<1>6. Solid(f.contents) = Solid(file.body)
  <2>1. n \in 0 .. Len(body) /\ (n + 1) .. Len(body) = {}
    BY <1>2
  <2>2. Solid(SubSeq(body, 1, n)) = Solid(body)
    BY <1>2, <2>1, SolidPrefix
  <2> QED BY <1>1, <1>5, <2>2
<1>7. Reader(lines)[a] = ReadAt(lines, Reader(lines), a)
  <2>1. a \in 1 .. Len(lines) + 6
    BY <1>2
  <2> QED BY <1>2, <2>1, ReaderReads
<1>8. Contents(lines, a, j) = SubSeq(body, 1, n)
  <2>1. j - 1 = a + 3 + n
    BY <1>2, <1>3
  <2>2. Contents(lines, a, j) = SubSeq(lines, a + 4, a + 3 + n)
    BY <1>3, <2>1 DEF Contents
  <2>3. n \in 0 .. Len(body)
    BY <1>1, <1>2
  <2> QED BY ZenonT(30), <1>a, <2>2, <2>3, BodyRead
<1>9. Reader(lines)[j + 2] = Nothing
  <2>1. PICK i : i = j + 2
    OBVIOUS
  <2>2. i \in 1 .. Len(lines) + 6 /\ i > Len(lines)
    BY <1>2, <1>3, <2>1
  <2>3. Reader(lines)[i] = ReadAt(lines, Reader(lines), i)
    BY <1>2, <2>2, ReaderReads
  <2> QED BY <2>1, <2>2, <2>3 DEF ReadAt
<1>10. Reader(lines)[a]
          = Prepend(<<f>>, FirstCommand(lines, j + 1), Reader(lines)[j + 2])
  <2>1. LineAt(lines, j) = lines[j] /\ ~(a > Len(lines))
    <3>1. j \in 1 .. N
      BY <1>2, <1>3
    <3> QED BY <1>2, <3>1, LineWithin
  <2>2. LineAt(lines, j).kind # "short" /\ LineAt(lines, j).kind # "end"
    BY <1>3, <2>1
  <2> QED BY <1>0, <1>b, <1>4, <1>7, <1>8, <2>1, <2>2 DEF ReadAt
<1>11. j + 1 = Len(lines)
  <2>1. j = N - 1
    BY <1>3
  <2>2. N \in Nat /\ N = Len(lines)
    BY <1>2
  <2>3. j + 1 = N
    BY <2>1, <2>2
  <2> QED BY <2>2, <2>3
<1> QED BY <1>5, <1>6, <1>9, <1>10, <1>11 DEF ReadOf

-----------------------------------------------------------------------------
(* A file read before the others is the first of them. *)
LEMMA PrependOne ==
    ASSUME NEW f \in ReadFile, NEW cs, NEW rest, ~rest.panics,
           rest.files \in Seq(ReadFile), NEW p, p = Prepend(<<f>>, cs, rest)
    PROVE  /\ ~p.panics /\ p.files \in Seq(ReadFile)
           /\ Len(p.files) = Len(rest.files) + 1
           /\ p.files[1] = f
           /\ \A i \in 1 .. Len(rest.files) : p.files[i + 1] = rest.files[i]
<1>1. ~p.panics /\ p.files = <<f>> \o rest.files
  BY DEF Prepend
<1>2. PICK s, t, u : s = <<f>> /\ t = rest.files /\ u = p.files
  OBVIOUS
<1>3. s \in Seq(ReadFile) /\ Len(s) = 1 /\ s[1] = f /\ t \in Seq(ReadFile)
  BY <1>2
<1>4. /\ u \in Seq(ReadFile) /\ Len(u) = Len(s) + Len(t)
      /\ \A i \in 1 .. Len(s) + Len(t) : u[i] =
            IF i <= Len(s) THEN s[i] ELSE t[i - Len(s)]
  <2>1. u = s \o t
    BY <1>1, <1>2
  <2> QED BY <1>3, <2>1, ConcatProperties
<1>5. PICK m \in Nat : m = Len(t)
  BY <1>3
<1>6. /\ Len(u) = m + 1 /\ u[1] = f
      /\ \A i \in 1 .. m : u[i + 1] = t[i]
  BY <1>3, <1>4, <1>5
<1> QED BY <1>1, <1>2, <1>4, <1>5, <1>6

(* Files read one before the other, from the first on. *)
LEMMA FilesInOrder ==
    ASSUME NEW n \in Nat \ {0}, NEW files, NEW r,
           \A k \in 1 .. n - 1 : \E f :
              ReadOf(f, files[k]) /\ r[k] = Prepend(<<f>>, <<>>, r[k + 1]),
           \E f, cs : ReadOf(f, files[n]) /\ r[n] = Prepend(<<f>>, cs, Nothing)
    PROVE  /\ Len(r[1].files) = n
           /\ \A i \in 1 .. n : ReadOf(r[1].files[i], files[i])
<1> DEFINE From(k) ==
             /\ ~r[k].panics /\ r[k].files \in Seq(ReadFile)
             /\ Len(r[k].files) = n - k + 1
             /\ \A i \in 1 .. n - k + 1 :
                   ReadOf(r[k].files[i], files[k + i - 1])
           Right == {k \in 1 .. n : From(k)}
<1>1. ASSUME NEW k \in 1 .. n, NEW f, NEW cs, NEW rest,
             ReadOf(f, files[k]), r[k] = Prepend(<<f>>, cs, rest),
             ~rest.panics, rest.files \in Seq(ReadFile),
             Len(rest.files) = n - k,
             \A i \in 1 .. n - k : ReadOf(rest.files[i], files[k + 1 + i - 1])
      PROVE  From(k)
  <2>1. PICK p : p = r[k]
    OBVIOUS
  <2>2. f \in ReadFile /\ p = Prepend(<<f>>, cs, rest)
    BY <1>1, <2>1 DEF ReadOf
  <2>3. /\ ~p.panics /\ p.files \in Seq(ReadFile)
        /\ Len(p.files) = Len(rest.files) + 1
        /\ p.files[1] = f
        /\ \A i \in 1 .. Len(rest.files) : p.files[i + 1] = rest.files[i]
    <3>1. ~rest.panics
      BY <1>1
    <3>2. rest.files \in Seq(ReadFile)
      BY <1>1
    <3>3. f \in ReadFile
      BY <2>2
    <3>4. p = Prepend(<<f>>, cs, rest)
      BY <2>2
    <3> QED BY <3>1, <3>2, <3>3, <3>4, PrependOne
  <2>4. Len(p.files) = n - k + 1
    BY <1>1, <2>3
  <2>5. \A i \in 1 .. n - k + 1 : ReadOf(p.files[i], files[k + i - 1])
    <3> TAKE i \in 1 .. n - k + 1
    <3>1. CASE i = 1
      <4>1. k + i - 1 = k
        BY <3>1
      <4> QED BY <1>1, <2>3, <3>1, <4>1
    <3>2. CASE i # 1
      <4>1. PICK h \in 1 .. n - k : h = i - 1
        BY <3>2
      <4>2. h + 1 = i /\ k + 1 + h - 1 = k + i - 1
        BY <4>1
      <4>3. p.files[h + 1] = rest.files[h]
        BY <1>1, <2>3, <4>1
      <4>4. ReadOf(rest.files[h], files[k + 1 + h - 1])
        BY <1>1
      <4> QED BY <4>2, <4>3, <4>4
    <3> QED BY <3>1, <3>2
  <2> QED BY <2>1, <2>3, <2>4, <2>5
<1>2. ASSUME NEW k \in 1 .. n, \A l \in (k + 1) .. n : l \in Right
      PROVE  k \in Right
  <2>1. CASE k = n
    <3>1. PICK f, cs : ReadOf(f, files[n]) /\ r[n] = Prepend(<<f>>, cs, Nothing)
      OBVIOUS
    <3>2. /\ ~Nothing.panics /\ Nothing.files \in Seq(ReadFile)
          /\ Len(Nothing.files) = 0
      BY DEF Nothing
    <3>3. Len(Nothing.files) = n - k /\ 1 .. n - k = {}
      BY <2>1, <3>2
    <3>4. ReadOf(f, files[k]) /\ r[k] = Prepend(<<f>>, cs, Nothing)
      BY <2>1, <3>1
    <3> HIDE DEF From
    <3>5. From(k)
      BY <1>1, <3>2, <3>3, <3>4
    <3> QED BY <3>5
  <2>2. CASE k # n
    <3>1. k \in 1 .. n - 1 /\ k + 1 \in (k + 1) .. n
      BY <2>2
    <3>2. PICK f : ReadOf(f, files[k]) /\ r[k] = Prepend(<<f>>, <<>>, r[k + 1])
      BY <3>1
    <3>3. From(k + 1)
      BY <1>2, <3>1
    <3>4. n - (k + 1) + 1 = n - k
      OBVIOUS
    <3>5. /\ ~r[k + 1].panics /\ r[k + 1].files \in Seq(ReadFile)
          /\ Len(r[k + 1].files) = n - k
          /\ \A i \in 1 .. n - k :
                ReadOf(r[k + 1].files[i], files[k + 1 + i - 1])
      BY <3>3, <3>4
    <3> HIDE DEF From
    <3>6. From(k)
      BY <1>1, <3>2, <3>5
    <3> QED BY <3>6
  <2> QED BY <2>1, <2>2
<1>3. 1 \in Right
  <2>1. n \in Nat /\ 1 \in 1 .. n
    OBVIOUS
  <2>2. 1 .. n \subseteq Right
    <3> HIDE DEF Right
    <3> QED BY <1>2, <2>1, Downwards
  <2> QED BY <2>1, <2>2
<1>4. From(1)
  BY <1>3
<1>5. n - 1 + 1 = n /\ \A i \in 1 .. n : 1 + i - 1 = i
  OBVIOUS
<1> QED BY <1>4, <1>5

(* Placed, a file at a time. *)
LEMMA PlacedFile ==
    ASSUME NEW d, NEW lines, NEW at, Placed(d, lines, at),
           NEW k \in 1 .. Len(d.files)
    PROVE  /\ FileAt(lines, at[k], d.files[k])
           /\ k < Len(d.files) =>
                 at[k] + 4 + Len(d.files[k].body) = at[k + 1]
           /\ k = Len(d.files) =>
                 FilesEnd(lines, at[k] + 4 + Len(d.files[k].body))
<1>1. PICK n, a, file, body, l :
         /\ n \in Nat /\ n = Len(d.files) /\ a = at[k] /\ file = d.files[k]
         /\ body = file.body /\ l = Len(body)
  BY DEF Placed
<1>2. /\ lines \in Seq(AnyLine) /\ Len(lines) \in Nat
      /\ lines[Len(lines) - 1].kind = "runcmd"
  BY DEF Placed
<1>3. /\ a \in Nat /\ a >= 2 /\ body \in Seq(AnyLine) /\ l \in Nat
  BY <1>1 DEF Placed
<1>4. a + 4 + l = IF k < n THEN at[k + 1] ELSE Len(lines) - 1
  BY <1>1 DEF Placed
<1>5. a + 4 + l < Len(lines)
  BY <1>1 DEF Placed
<1>6. lines[a].kind = "path" /\ lines[a].of = file.path /\ Headed(lines, a)
  BY <1>1 DEF Placed
<1>7. \A q \in 1 .. l : /\ lines[a + 3 + q] = body[q]
                        /\ body[q].kind \in BodyKinds \ {"short"}
  BY <1>1 DEF Placed
<1>8. a \in 1 .. Len(lines)
  BY <1>2, <1>3, <1>5
<1>9. BodyAt(lines, a, body)
  BY <1>1, <1>2, <1>3, <1>5, <1>7, <1>8 DEF BodyAt
<1>10. FileAt(lines, a, file)
  BY <1>1, <1>6, <1>9 DEF FileAt
<1>11. k < n => a + 4 + l = at[k + 1]
  BY <1>4
<1>12. k = n => FilesEnd(lines, a + 4 + l)
  <2>1. k = n => a + 4 + l = Len(lines) - 1
    BY <1>4
  <2> QED BY <1>2, <2>1 DEF FilesEnd
<1> QED BY <1>1, <1>10, <1>11, <1>12

(* Of data as kubeadm makes it, the reader gives back every file with its  *)
(* path and its lines, up to blank ones.                                   *)
LEMMA FilesAreRead ==
    ASSUME NEW d \in BootstrapData, KubeadmShaped(d)
    PROVE  /\ Len(FromBytes(Render(d)).files) = Len(d.files)
           /\ \A i \in DOMAIN d.files :
                 ReadOf(FromBytes(Render(d)).files[i], d.files[i])
<1>1. Runnable(d)
  BY DEF KubeadmShaped
<1>2. PICK lines, at : lines = Render(d) /\ Placed(d, lines, at)
  BY <1>1, FilesPlaced
<1>3. PICK files, n : files = d.files /\ n = Len(d.files)
  OBVIOUS
<1>4. /\ lines \in Seq(AnyLine) /\ n \in Nat \ {0} /\ at[1] = 2
      /\ lines[1].kind = "other" /\ DOMAIN d.files = 1 .. n
  BY <1>2, <1>3, LenProperties DEF Placed
<1>5. PICK r : r = [k \in 1 .. n |-> Reader(lines)[at[k]]]
  OBVIOUS
<1>6. ASSUME NEW k \in 1 .. n - 1
      PROVE  \E f : /\ ReadOf(f, files[k])
                    /\ r[k] = Prepend(<<f>>, <<>>, r[k + 1])
  <2>1. k \in 1 .. n /\ k + 1 \in 1 .. n /\ k < n
    BY <1>4
  <2>2. Has(files[k], "end") /\ OnlyLast(files[k], "end")
    BY <1>3 DEF KubeadmShaped
  <2>3. /\ FileAt(lines, at[k], files[k])
        /\ at[k] + 4 + Len(files[k].body) = at[k + 1]
    BY <1>2, <1>3, <2>1, PlacedFile
  <2>4. r[k] = Reader(lines)[at[k]] /\ r[k + 1] = Reader(lines)[at[k + 1]]
    BY <1>5, <2>1
  <2>5. PICK a, z, file : a = at[k] /\ z = at[k + 1] /\ file = files[k]
    OBVIOUS
  <2>6. FileAt(lines, a, file) /\ Has(file, "end") /\ OnlyLast(file, "end")
    BY <2>2, <2>3, <2>5
  <2>7. z = a + 4 + Len(file.body)
    BY <2>3, <2>5
  <2>8. \E f : /\ ReadOf(f, file)
               /\ Reader(lines)[a] = Prepend(<<f>>, <<>>, Reader(lines)[z])
    BY <2>6, <2>7, CertificateRead
  <2> QED BY <2>4, <2>5, <2>8
<1>7. \E f, cs : /\ ReadOf(f, files[n])
                 /\ r[n] = Prepend(<<f>>, cs, Nothing)
  <2>1. n \in 1 .. n
    BY <1>4
  <2>2. ~Has(files[n], "end")
    BY <1>1, <1>3 DEF Runnable, Last
  <2>3. /\ FileAt(lines, at[n], files[n])
        /\ FilesEnd(lines, at[n] + 4 + Len(files[n].body))
    BY <1>2, <1>3, <2>1, PlacedFile
  <2>4. \E f : /\ ReadOf(f, files[n])
               /\ Reader(lines)[at[n]] = Prepend(<<f>>,
                     FirstCommand(lines, Len(lines)), Nothing)
    BY <2>2, <2>3, LastRead
  <2> QED BY <1>5, <2>1, <2>4
<1>8. /\ Len(r[1].files) = n
      /\ \A i \in 1 .. n : ReadOf(r[1].files[i], files[i])
  BY <1>4, <1>6, <1>7, FilesInOrder
<1>9. Reader(lines)[1] = r[1]
  <2>1. r[1] = Reader(lines)[2]
    BY <1>4, <1>5
  <2>2. 1 \in 1 .. Len(lines) /\ 2 \in 1 .. Len(lines)
    BY <1>2 DEF Placed
  <2>3. \A k \in 1 .. 2 - 1 : lines[k].kind # "path"
    <3>1. \A k \in 1 .. 2 - 1 : k = 1
      OBVIOUS
    <3> QED BY <1>4, <3>1
  <2>4. 2 \in 1 .. Len(lines) /\ 1 \in 1 .. Len(lines)
    BY <2>2
  <2>5. Reader(lines)[1] = Reader(lines)[2]
    <3>1. PICK i, l : i = 1 /\ l = 2
      OBVIOUS
    <3>2. i \in 1 .. Len(lines) /\ l \in i .. Len(lines)
      BY <2>2, <3>1
    <3>3. \A k \in i .. (l - 1) : lines[k].kind # "path"
      BY <2>3, <3>1
    <3>4. Reader(lines)[i] = Reader(lines)[l]
      BY <1>4, <3>2, <3>3, PassesOver
    <3> QED BY <3>1, <3>4
  <2> QED BY <2>1, <2>5
<1> QED BY <1>2, <1>3, <1>4, <1>8, <1>9, FromBytesIsReader

(* Whatever the files and the command of the bootstrap data: the reader,   *)
(* which goes by the form of the lines, stays within them and finds the    *)
(* command, and of data as kubeadm makes it gives back every file.         *)
THEOREM WhatIsWrittenIsRead ==
    ASSUME NEW d \in BootstrapData
    PROVE  ReadsBack(d)
<1>1. Runnable(d) => /\ ~FromBytes(Render(d)).panics
                     /\ FromBytes(Render(d)).cmds = d.cmds
  BY CommandIsRead
<1>2. KubeadmShaped(d) =>
         /\ Len(FromBytes(Render(d)).files) = Len(d.files)
         /\ \A i \in DOMAIN d.files :
               /\ FromBytes(Render(d)).files[i].path = d.files[i].path
               /\ Solid(FromBytes(Render(d)).files[i].contents)
                     = Solid(d.files[i].body)
  BY FilesAreRead DEF ReadOf
<1> QED BY <1>1, <1>2 DEF ReadsBack
=============================================================================
