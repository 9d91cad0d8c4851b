------------------------- MODULE RolloutTail_proofs -------------------------
(***************************************************************************)
(* Proofs about the scans of one rollout file, for any scanners, any sizes of *)
(* head, tail, hash and read, and any number of rewrites: the offset a scan   *)
(* saves covers what was ingested, fits the unfinished line saved with it,    *)
(* and a line read again gets the id it had.                                *)
(*                                                                         *)
(* The first byte of a head hash names the generation the head goes back to,   *)
(* and an empty hash is of an empty file: with a row that is not of another    *)
(* file with the same head, that is how the row is known to be about the file  *)
(* there is.                                                                *)
(***************************************************************************)
EXTENDS RolloutTail, SequenceTheorems, TLAPS

Byte == Nat \X Nat
Files == [inode : Nat, gen : Nat, size : Nat, head : Nat]
Unended == {p \in Seq(Byte) : Ends(p) = {}}

\* The first bytes of the whole lines among the first n bytes of generation g,
\* and the line those bytes leave unfinished.
Whole(g, n) == {byte \in {g} \X (1..n) : ~EndsLine(byte) /\ byte[2] < n}
Rest(g, n) == IF n % 2 = 0 THEN <<>> ELSE << <<g, n>> >>

\* What a row of the file "of", not torn, says beside the file f there is: its head is
\* that of its file, and when that is f the offset covers what is done, and fits the
\* unfinished line.
Fit(f, done, head, torn, of, offset, partial) ==
    torn \/ /\ head = <<>> => offset = 0 /\ partial = <<>>
            /\ head # <<>> => head[1][1] = of.head
            /\ of.gen <= f.gen
            /\ of.gen = f.gen =>
                  partial = Rest(f.gen, offset) /\ Whole(f.gen, offset) \subseteq done

Rows == [inode : Nat, offset : Nat, partial : Unended, head : Seq(Byte),
         of : [gen : Nat, head : Nat], torn : BOOLEAN]
Froms == [reset : BOOLEAN, offset : Nat, partial : Unended]
Places == {Idle}
    \cup [at : {"stat"}, file : Files]
    \cup [at : {"hashed"}, file : Files, head : Seq(Byte), torn : BOOLEAN]
    \cup [at : {"loaded"}, file : Files, head : Seq(Byte), from : Froms, torn : BOOLEAN]
    \cup [at : {"read"}, row : Rows]

RowFits(f, done, r) == Fit(f, done, r.head, r.torn, r.of, r.offset, r.partial)

\* The file a scan has seen is not newer than the one there is.
SeenFits(f, s) ==
    /\ s.file.gen <= f.gen
    /\ s.file.gen = f.gen => s.file.size <= f.size /\ s.file.head = f.head

\* The hash was taken of the file of the stat, unless torn.
HeadFits(s) ==
    s.torn \/ /\ s.head = <<>> => s.file.size = 0
              /\ s.head # <<>> => s.head[1][1] = s.file.head

FromFits(f, done, s) ==
    /\ s.from.offset <= s.file.size
    /\ s.from.reset => s.from.offset = 0 /\ s.from.partial = <<>>
    /\ Fit(f, done, s.head, s.torn, s.file, s.from.offset, s.from.partial)

ScanFits(f, done, s) ==
    /\ s.at \in {"stat", "hashed", "loaded"} => SeenFits(f, s)
    /\ s.at \in {"hashed", "loaded"} => HeadFits(s)
    /\ s.at = "loaded" => FromFits(f, done, s)
    /\ s.at = "read" => RowFits(f, done, s.row)

Done == {id[3] : id \in stored} \cup skipped

\* A line of an incremental read is known by the position of its first byte.
Ids == {"line", "head", "tail"} \X Int \X Byte
IdFits(id) == id[1] = "line" => id[2] = id[3][2] - 1

TailTypes == file \in Files /\ saved \in {None} \cup Rows /\ scan \in [Scanners -> Places]

TailInv ==
    /\ TailTypes
    /\ saved # None => RowFits(file, Done, saved)
    /\ \A t \in Scanners : ScanFits(file, Done, scan[t])
    /\ stored \subseteq Ids /\ \A id \in stored : IdFits(id)

----------------------------------------------------------------------------
(* Extrema, reads and runs of bytes.                                       *)

LEMMA MinOfTwo ==
    ASSUME NEW a \in Int, NEW b \in Int
    PROVE  Min({a, b}) = IF a <= b THEN a ELSE b
<1>1. \E x \in {a, b} : \A y \in {a, b} : x <= y
  OBVIOUS
<1>2. Min({a, b}) \in {a, b} /\ \A y \in {a, b} : Min({a, b}) <= y
  BY <1>1 DEF Min
<1> QED
  BY <1>2

LEMMA MaxOfTwo ==
    ASSUME NEW a \in Int, NEW b \in Int
    PROVE  Max({a, b}) = IF a <= b THEN b ELSE a
<1>1. \E x \in {a, b} : \A y \in {a, b} : x >= y
  OBVIOUS
<1>2. Max({a, b}) \in {a, b} /\ \A y \in {a, b} : Max({a, b}) >= y
  BY <1>1 DEF Max
<1> QED
  BY <1>2

\* The bytes of generation g after the first base ones.
IsRun(data, g, base) ==
    /\ data \in Seq(Byte)
    /\ \A i \in 1..Len(data) : data[i] = <<g, base + i>>

\* The last newline of data whose first k bytes end no line and whose other bytes
\* follow each other.
LastEnd(data) == Max(Ends(data) \cup {0})

Follows(data, k, base) ==
    /\ data \in Seq(Byte) /\ k \in 0..Len(data)
    /\ \A i \in 1..k : ~EndsLine(data[i])
    /\ \A i \in k + 1..Len(data) : data[i][2] = base + i

LEMMA LastEndIsLast ==
    ASSUME NEW data, NEW k, NEW base \in Int, Follows(data, k, base), base + k >= 0
    PROVE  /\ LastEnd(data) \in 0..Len(data)
           /\ LastEnd(data) \in Ends(data) \cup {0}
           /\ \A e \in Ends(data) : e <= LastEnd(data)
<1> DEFINE n == Len(data)
           S == Ends(data) \cup {0}
<1>1. n \in Nat /\ k \in 0..n
  BY DEF Follows
<1>2. S \subseteq 0..n
  BY <1>1 DEF Ends
<1>3. \A i \in 1..n : i \in S <=> (k < i /\ (base + i) % 2 = 0)
  <2> SUFFICES ASSUME NEW i \in 1..n
               PROVE  i \in S <=> (k < i /\ (base + i) % 2 = 0)
    OBVIOUS
  <2>1. i \in S <=> data[i][2] % 2 = 0
    BY <1>1 DEF Ends, EndsLine
  <2>2. CASE i <= k
    BY <1>1, <2>1, <2>2 DEF Follows, EndsLine
  <2>3. CASE k < i
    <3>1. data[i][2] = base + i
      BY <1>1, <2>3 DEF Follows
    <3> QED
      BY <2>1, <2>3, <3>1
  <2> QED
    BY <1>1, <2>2, <2>3
<1>4. \E x \in S : \A y \in S : x >= y
  <2>1. CASE n > k /\ (base + n) % 2 = 0
    <3>1. n \in S
      BY <1>1, <1>3, <2>1
    <3> QED
      BY <1>1, <1>2, <3>1
  <2>2. CASE n > k + 1 /\ (base + n) % 2 # 0
    <3>1. (base + (n - 1)) % 2 = 0 /\ n - 1 \in 1..n /\ n - 1 > k
      BY <1>1, <2>2
    <3>2. n - 1 \in S
      BY <1>3, <3>1
    <3>3. n \notin S
      BY <1>1, <1>3, <2>2
    <3> HIDE DEF S, n
    <3>4. \A y \in S : n - 1 >= y
      BY <1>1, <1>2, <3>3
    <3> QED
      BY <3>2, <3>4
  <2>3. CASE n <= k \/ (n <= k + 1 /\ (base + n) % 2 # 0)
    <3>1. \A y \in S : y = 0
      BY <1>1, <1>2, <1>3, <2>3
    <3> QED
      BY <3>1
  <2> QED
    BY <1>1, <2>1, <2>2, <2>3
<1>5. LastEnd(data) \in S /\ \A y \in S : LastEnd(data) >= y
  BY <1>4 DEF LastEnd, Max
<1> QED
  BY <1>1, <1>2, <1>5

\* What is split off a read ends no line.
LEMMA PartialIsUnended ==
    ASSUME NEW data, NEW k, NEW base \in Int, Follows(data, k, base), base + k >= 0
    PROVE  Partial(data) \in Unended
<1> DEFINE n == Len(data)
           m == LastEnd(data)
           p == SubSeq(data, m + 1, n)
<1>1. n \in Nat /\ m \in 0..n /\ \A e \in Ends(data) : e <= m
  <2>1. n \in Nat
    BY DEF Follows
  <2> QED
    BY <2>1, LastEndIsLast
<1>2. \A i \in 1..n : data[i] \in Byte
  BY ElementOfSeq DEF Follows
<1>3. /\ p \in Seq(Byte)
      /\ Len(p) = n - m
      /\ \A i \in 1..(n - m) : p[i] = data[m + i]
  <2> HIDE DEF m, n
  <2>1. \A i \in m + 1 .. n : data[i] \in Byte
    BY <1>1, <1>2
  <2>2. p \in Seq(Byte) /\ Len(p) = (IF m + 1 <= n THEN n - (m + 1) + 1 ELSE 0)
        /\ \A i \in 1 .. n - (m + 1) + 1 : p[i] = data[(m + 1) + i - 1]
    BY <1>1, <2>1, SubSeqProperties
  <2> QED
    BY <1>1, <2>2
<1>4. Ends(p) = {}
  <2> SUFFICES ASSUME NEW j \in 1..Len(p), EndsLine(p[j])
               PROVE  FALSE
    BY DEF Ends
  <2>1. m + j \in 1..n /\ p[j] = data[m + j]
    <3> HIDE DEF m, n, p
    <3> QED
      BY <1>1, <1>3
  <2>2. m + j \in Ends(data)
    BY <2>1 DEF Ends
  <2> HIDE DEF m, n, p
  <2> QED
    BY <1>1, <1>3, <2>1, <2>2
<1> QED
  BY <1>3, <1>4 DEF Partial, LastEnd, Unended

LEMMA RunFollows ==
    ASSUME NEW data, NEW g \in Nat, NEW base \in Nat, IsRun(data, g, base)
    PROVE  Follows(data, 0, base)
<1>1. data \in Seq(Byte) /\ Len(data) \in Nat
  BY DEF IsRun
<1>2. \A i \in 1..Len(data) : data[i][2] = base + i
  BY DEF IsRun
<1> QED
  BY <1>1, <1>2 DEF Follows

LEMMA CompleteIsPrefix ==
    ASSUME NEW data, NEW k, NEW base \in Int, Follows(data, k, base), base + k >= 0
    PROVE  /\ Complete(data) \in Seq(Byte)
           /\ Len(Complete(data)) = LastEnd(data)
           /\ \A i \in 1..LastEnd(data) : Complete(data)[i] = data[i]
<1> DEFINE n == Len(data)
           m == LastEnd(data)
           c == SubSeq(data, 1, m)
<1>1. n \in Nat /\ m \in 0..n
  <2>1. n \in Nat
    BY DEF Follows
  <2> QED
    BY <2>1, LastEndIsLast
<1>2. \A i \in 1..n : data[i] \in Byte
  BY ElementOfSeq DEF Follows
<1>3. c \in Seq(Byte) /\ Len(c) = m /\ \A i \in 1..m : c[i] = data[i]
  <2> HIDE DEF m, n
  <2>1. \A i \in 1..m : data[i] \in Byte
    BY <1>1, <1>2
  <2>2. c \in Seq(Byte) /\ Len(c) = (IF 1 <= m THEN m - 1 + 1 ELSE 0)
        /\ \A i \in 1 .. m - 1 + 1 : c[i] = data[1 + i - 1]
    BY <1>1, <2>1, SubSeqProperties
  <2> QED
    BY <1>1, <2>2
<1> QED
  BY <1>3 DEF Complete, LastEnd

\* A run of whole lines and the rest of one.
LEMMA RunSplits ==
    ASSUME NEW data, NEW g \in Nat, NEW base \in Nat, IsRun(data, g, base), base % 2 = 0
    PROVE  /\ Partial(data) = Rest(g, base + Len(data))
           /\ IsRun(Complete(data), g, base)
           /\ Len(Complete(data)) = Len(data) - (Len(data) % 2)
<1> DEFINE n == Len(data)
           m == LastEnd(data)
<1>1. data \in Seq(Byte) /\ n \in Nat /\ Follows(data, 0, base)
  BY RunFollows DEF IsRun
<1>2. \A i \in 1..n : data[i] = <<g, base + i>>
  BY DEF IsRun
<1>3. \A i \in 1..n : i \in Ends(data) <=> i % 2 = 0
  <2> SUFFICES ASSUME NEW i \in 1..n
               PROVE  i \in Ends(data) <=> i % 2 = 0
    OBVIOUS
  <2>1. data[i][2] = base + i
    BY <1>2
  <2>2. i \in Ends(data) <=> (base + i) % 2 = 0
    BY <2>1 DEF Ends, EndsLine
  <2> QED
    BY <1>1, <2>2
<1>4. m \in 0..n /\ m \in Ends(data) \cup {0} /\ \A e \in Ends(data) : e <= m
  BY <1>1, LastEndIsLast
<1>5. m = n - (n % 2)
  <2> HIDE DEF m, n
  <2>1. CASE n % 2 = 0 /\ n # 0
    <3>1. n \in Ends(data)
      BY <1>1, <1>3, <2>1
    <3> QED
      BY <1>1, <1>4, <2>1, <3>1
  <2>2. CASE n = 0
    BY <1>4, <2>2
  <2>3. CASE n % 2 = 1
    <3>1. n - 1 = 0 \/ n - 1 \in Ends(data)
      <4>1. n # 1 => n - 1 \in 1..n /\ (n - 1) % 2 = 0
        BY <1>1, <2>3
      <4> QED
        BY <1>1, <1>3, <4>1
    <3>2. n \notin Ends(data) /\ n # 0
      BY <1>1, <1>3, <2>3
    <3>3. n - 1 <= m
      BY <1>1, <1>4, <3>1
    <3>4. m # n
      BY <1>4, <3>2
    <3> QED
      BY <1>1, <1>4, <2>3, <3>3, <3>4
  <2> QED
    BY <1>1, <2>1, <2>2, <2>3
<1>6. IsRun(Complete(data), g, base) /\ Len(Complete(data)) = m
  <2>1. /\ Complete(data) \in Seq(Byte)
        /\ Len(Complete(data)) = m
        /\ \A i \in 1..m : Complete(data)[i] = data[i]
    BY <1>1, CompleteIsPrefix
  <2>2. \A i \in 1..m : Complete(data)[i] = <<g, base + i>>
    <3> HIDE DEF m, n
    <3>1. 1..m \subseteq 1..n
      BY <1>1, <1>4
    <3> QED
      BY <1>2, <2>1, <3>1
  <2> QED
    BY <2>1, <2>2 DEF IsRun
<1>7. Partial(data) = Rest(g, base + n)
  <2>1. Partial(data) = SubSeq(data, m + 1, n)
    BY DEF Partial, LastEnd
  <2> HIDE DEF m, n
  <2>2. CASE n % 2 = 0
    <3>1. m = n /\ (base + n) % 2 = 0
      BY <1>1, <1>5, <2>2
    <3>2. SubSeq(data, n + 1, n) = <<>>
      BY <1>1, SubSeqEmpty
    <3> QED
      BY <2>1, <3>1, <3>2 DEF Rest
  <2>3. CASE n % 2 = 1
    <3>1. m + 1 = n /\ (base + n) % 2 = 1 /\ n \in 1..n
      BY <1>1, <1>5, <2>3
    <3>2. SubSeq(data, n, n) = << data[n] >>
      <4>1. \A i \in n..n : data[i] \in Byte
        <5>1. data[n] \in Byte
          BY <1>1, <3>1, ElementOfSeq DEF n
        <5> QED
          BY <1>1, <5>1
      <4>2. /\ SubSeq(data, n, n) \in Seq(Byte)
            /\ Len(SubSeq(data, n, n)) = 1
            /\ SubSeq(data, n, n)[1] = data[n]
        <5>1. /\ SubSeq(data, n, n) \in Seq(Byte)
              /\ Len(SubSeq(data, n, n)) = (IF n <= n THEN n - n + 1 ELSE 0)
              /\ \A i \in 1 .. n - n + 1 : SubSeq(data, n, n)[i] = data[n + i - 1]
          BY <1>1, <4>1, SubSeqProperties
        <5> QED
          BY <1>1, <5>1
      <4>3. /\ << data[n] >> \in Seq(Byte) /\ Len(<< data[n] >>) = 1
            /\ << data[n] >>[1] = data[n]
        <5>1. data[n] \in Byte
          BY <3>1, <4>1
        <5> QED
          BY <5>1
      <4>4. \A i \in 1..Len(SubSeq(data, n, n)) : SubSeq(data, n, n)[i] = << data[n] >>[i]
        BY <4>2, <4>3
      <4> QED
        BY <4>2, <4>3, <4>4, SeqEqual
    <3>3. SubSeq(data, m + 1, n) = << <<g, base + n>> >>
      BY <1>2, <3>1, <3>2
    <3>4. (base + n) % 2 # 0
      BY <3>1
    <3>5. Rest(g, base + n) = << <<g, base + n>> >>
      BY <3>4 DEF Rest
    <3> QED
      BY <2>1, <3>3, <3>5
  <2> QED
    BY <1>1, <2>2, <2>3
<1> QED
  BY <1>5, <1>6, <1>7

\* Every whole line of a run is among its lines.
LEMMA RunLines ==
    ASSUME NEW data, NEW g \in Nat, NEW base \in Nat, IsRun(data, g, base), base % 2 = 0,
           NEW prefix, NEW start \in Int,
           NEW i \in Nat, i % 2 = 1, base < i, i < base + Len(data)
    PROVE  <<g, i>> \in {id[3] : id \in Lines(data, prefix, start)}
<1> DEFINE n == Len(data)
           j == i - base + 1
           id == <<prefix, start + j - 2, data[j - 1]>>
<1>1. n \in Nat /\ \A x \in 1..n : data[x] = <<g, base + x>>
  BY DEF IsRun
<1>2. j \in 1..n /\ j - 1 \in 1..n /\ j > 1 /\ j \in Nat /\ base + j = i + 1 /\ base + (j - 1) = i
  <2>1. n \in Nat /\ i < base + n
    BY <1>1
  <2> HIDE DEF n
  <2> QED
    BY <2>1
<1>3. data[j] = <<g, i + 1>> /\ data[j - 1] = <<g, i>>
  <2> HIDE DEF j, n
  <2> QED
    BY <1>1, <1>2
<1>4. (i + 1) % 2 = 0
  OBVIOUS
<1>5. j \in Ends(data)
  <2> HIDE DEF j
  <2>1. j \in 1..Len(data)
    BY <1>2
  <2> QED
    BY <2>1, <1>3, <1>4 DEF Ends, EndsLine
<1>6. data[j - 1] = <<data[j][1], data[j][2] - 1>>
  <2> HIDE DEF j
  <2>1. data[j][1] = g /\ data[j][2] = i + 1 /\ (i + 1) - 1 = i
    BY <1>3
  <2> QED
    BY <1>3, <2>1
<1>7. j > 2 => EndsLine(data[j - 2])
  <2> SUFFICES ASSUME j > 2 PROVE EndsLine(data[j - 2])
    OBVIOUS
  <2>1. j - 2 \in 1..n /\ base + (j - 2) = i - 1
    <3> HIDE DEF n
    <3> QED
      BY <1>1, <1>2
  <2>3. (i - 1) % 2 = 0
    OBVIOUS
  <2>2. data[j - 2] = <<g, i - 1>>
    <3> HIDE DEF j, n
    <3> QED
      BY <1>1, <2>1
  <2> HIDE DEF j
  <2> QED
    BY <2>2, <2>3 DEF EndsLine
<1>8. id \in Lines(data, prefix, start)
  <2> HIDE DEF j
  <2> QED
    BY <1>2, <1>5, <1>6, <1>7 DEF Lines
<1>9. id[3] = <<g, i>>
  <2> HIDE DEF j
  <2> QED
    BY <1>3
<1> HIDE DEF id
<1> QED
  BY <1>8, <1>9

\* Every id's position is that of its line's first byte, in an incremental read.
LEMMA LinesAreIds ==
    ASSUME NEW data \in Seq(Byte), NEW prefix \in {"line", "head", "tail"}, NEW start \in Int,
           prefix = "line" => \E k \in Nat : Follows(data, k, start)
    PROVE  Lines(data, prefix, start) \subseteq {id \in Ids : IdFits(id)}
<1> SUFFICES ASSUME NEW id \in Lines(data, prefix, start)
             PROVE  id \in Ids /\ IdFits(id)
  OBVIOUS
<1>1. PICK j \in Ends(data) :
         /\ j > 1 /\ data[j - 1] = <<data[j][1], data[j][2] - 1>>
         /\ id = <<prefix, start + j - 2, data[j - 1]>>
  BY DEF Lines
<1>2. j \in 1..Len(data) /\ j - 1 \in 1..Len(data) /\ EndsLine(data[j]) /\ j \in Nat
  BY <1>1 DEF Ends
<1>3. data[j] \in Byte /\ data[j - 1] \in Byte
  BY <1>2, ElementOfSeq
<1>4. id \in Ids /\ id[1] = prefix /\ id[2] = start + j - 2 /\ id[3] = data[j - 1]
  <2>1. start + j - 2 \in Int
    BY <1>2
  <2> QED
    BY <1>1, <1>3, <2>1 DEF Ids
<1>5. ASSUME prefix = "line"
      PROVE  id[2] = id[3][2] - 1
  <2>1. PICK k \in Nat : Follows(data, k, start)
    BY <1>5
  <2>2. j > k
    BY <1>2, <2>1 DEF Follows
  <2>3. data[j][2] = start + j
    BY <1>2, <2>1, <2>2 DEF Follows
  <2>4. data[j - 1][2] = start + j - 1
    <3>1. data[j - 1][2] = data[j][2] - 1
      BY <1>1
    <3>2. j \in Int
      BY <1>2
    <3> QED
      BY <2>3, <3>1, <3>2
  <2> QED
    BY <1>2, <1>4, <2>4
<1> QED
  BY <1>4, <1>5 DEF IdFits

\* The lines up to the last newline are lines of the whole.
LEMMA CompleteLines ==
    ASSUME NEW data, NEW k, NEW base \in Int, Follows(data, k, base), base + k >= 0,
           NEW prefix, NEW start \in Int
    PROVE  Lines(Complete(data), prefix, start) \subseteq Lines(data, prefix, start)
<1> DEFINE c == Complete(data)
           m == LastEnd(data)
<1>1. /\ Len(c) = m /\ \A i \in 1..m : c[i] = data[i]
      /\ m \in 0..Len(data) /\ Len(data) \in Nat
  BY CompleteIsPrefix, LastEndIsLast, LenProperties DEF Follows
<1> SUFFICES ASSUME NEW id \in Lines(c, prefix, start)
             PROVE  id \in Lines(data, prefix, start)
  OBVIOUS
<1>2. PICK j \in Ends(c) :
         /\ j > 1 /\ c[j - 1] = <<c[j][1], c[j][2] - 1>>
         /\ j > 2 => EndsLine(c[j - 2])
         /\ id = <<prefix, start + j - 2, c[j - 1]>>
  BY DEF Lines
<1>3. j \in 1..m /\ j \in 1..Len(data) /\ EndsLine(c[j])
  BY <1>1, <1>2 DEF Ends
<1>4. c[j] = data[j] /\ c[j - 1] = data[j - 1] /\ (j > 2 => c[j - 2] = data[j - 2])
  <2> HIDE DEF c, m
  <2>1. j - 1 \in 1..m /\ (j > 2 => j - 2 \in 1..m)
    BY <1>1, <1>2, <1>3
  <2> QED
    BY <1>1, <1>3, <2>1
<1>5. j \in Ends(data)
  BY <1>3, <1>4 DEF Ends
<1> QED
  BY <1>2, <1>4, <1>5 DEF Lines

LEMMA ReadIsRun ==
    ASSUME file \in Files, NEW from \in Nat, NEW n \in Nat
    PROVE  /\ IsRun(Read(from, n), file.gen, from)
           /\ Len(Read(from, n)) \in Nat /\ Len(Read(from, n)) <= n
           /\ from + n <= file.size => Len(Read(from, n)) = n
           /\ from <= file.size /\ from + n > file.size => Len(Read(from, n)) = file.size - from
<1> DEFINE m == IF from + n <= file.size THEN from + n ELSE file.size
           r == SubSeq(Bytes(file.size), from + 1, m)
<1>1. file.gen \in Nat /\ file.size \in Nat
  BY DEF Files
<1>2. m \in Nat /\ m <= file.size /\ m <= from + n
  BY <1>1
<1>3. Read(from, n) = r
  BY <1>1, MinOfTwo DEF Read
<1>4. \A i \in 1..file.size : Bytes(file.size)[i] = <<file.gen, i>>
  BY DEF Bytes
<1>5. /\ r \in Seq(Byte) /\ Len(r) = (IF from + 1 <= m THEN m - from ELSE 0)
      /\ \A i \in 1..(m - from) : r[i] = <<file.gen, from + i>>
  <2> HIDE DEF m
  <2>1. \A i \in from + 1 .. m : i \in 1..file.size /\ Bytes(file.size)[i] \in Byte
    <3>1. \A i \in from + 1 .. m : i \in 1..file.size
      BY <1>1, <1>2
    <3> QED
      BY <1>1, <1>4, <3>1 DEF Byte
  <2>2. /\ r \in Seq(Byte)
        /\ Len(r) = (IF from + 1 <= m THEN m - (from + 1) + 1 ELSE 0)
        /\ \A i \in 1 .. m - (from + 1) + 1 : r[i] = Bytes(file.size)[(from + 1) + i - 1]
    BY <1>2, <2>1, SubSeqProperties
  <2>3. m - (from + 1) + 1 = m - from
    BY <1>2
  <2>4. \A i \in 1..(m - from) : from + i \in 1..file.size /\ (from + 1) + i - 1 = from + i
    BY <1>1, <1>2
  <2>5. \A i \in 1..(m - from) : r[i] = <<file.gen, from + i>>
    BY <1>4, <2>2, <2>3, <2>4
  <2> QED
    BY <2>2, <2>3, <2>5
<1>6. IsRun(r, file.gen, from)
  <2> HIDE DEF r, m
  <2>1. 1..Len(r) \subseteq 1..(m - from)
    BY <1>2, <1>5
  <2> QED
    BY <1>5, <2>1 DEF IsRun
<1>7. /\ Len(r) \in Nat /\ Len(r) <= n
      /\ from + n <= file.size => Len(r) = n
      /\ from <= file.size /\ from + n > file.size => Len(r) = file.size - from
  <2>1. Len(r) = IF from + 1 <= m THEN m - from ELSE 0
    BY <1>5
  <2> HIDE DEF r
  <2> QED
    BY <1>1, <2>1
<1> QED
  BY <1>3, <1>6, <1>7

LEMMA BytesAreRun ==
    ASSUME file \in Files, NEW n \in Nat
    PROVE  IsRun(Bytes(n), file.gen, 0) /\ Len(Bytes(n)) = n
<1>1. \A i \in 1..n : <<file.gen, i>> \in Byte /\ 0 + i = i
  BY DEF Files, Byte
<1>2. Bytes(n) \in [1..n -> Byte]
  BY <1>1 DEF Bytes
<1>3. Bytes(n) \in Seq(Byte) /\ Len(Bytes(n)) = n
  BY <1>2, LenProperties
<1>4. \A i \in 1..n : Bytes(n)[i] = <<file.gen, 0 + i>>
  BY <1>1 DEF Bytes
<1> QED
  BY <1>3, <1>4 DEF IsRun

----------------------------------------------------------------------------
(* What a read of the file yields.                                         *)

\* An unfinished line and what follows it.
LEMMA Continues ==
    ASSUME file \in Files, NEW from \in Froms, NEW n \in Nat
    PROVE  LET data == from.partial \o Read(from.offset, n) IN
           /\ Follows(data, Len(from.partial), from.offset - Len(from.partial))
           /\ Len(data) = Len(from.partial) + Len(Read(from.offset, n))
           /\ from.partial = Rest(file.gen, from.offset) =>
                 IsRun(data, file.gen, from.offset - (from.offset % 2))
<1> DEFINE p == from.partial
           o == from.offset
           c == Read(o, n)
           k == Len(p)
           data == p \o c
<1>1. p \in Seq(Byte) /\ Ends(p) = {} /\ o \in Nat /\ k \in Nat
  BY DEF Froms, Unended
<1>2. c \in Seq(Byte) /\ Len(c) \in Nat /\ \A i \in 1..Len(c) : c[i] = <<file.gen, o + i>>
  BY <1>1, ReadIsRun DEF IsRun
<1>3. /\ data \in Seq(Byte) /\ Len(data) = k + Len(c)
      /\ \A i \in 1..k + Len(c) : data[i] = IF i <= k THEN p[i] ELSE c[i - k]
  <2> HIDE DEF p, c
  <2> QED
    BY <1>1, <1>2, ConcatProperties
<1>4. \A i \in 1..k : data[i] = p[i] /\ ~EndsLine(p[i])
  <2>1. \A i \in 1..k : ~EndsLine(p[i])
    BY <1>1 DEF Ends
  <2>2. \A i \in 1..k : data[i] = p[i]
    <3> HIDE DEF k, data, p, c
    <3>1. \A i \in 1..k : i \in 1..k + Len(c) /\ i <= k
      BY <1>1, <1>2
    <3> QED
      BY <1>3, <3>1
  <2> QED
    BY <2>1, <2>2
<1>5. \A i \in k + 1..Len(data) : data[i] = <<file.gen, o + (i - k)>>
  <2> HIDE DEF k, data, p, c, o
  <2>1. \A i \in k + 1..Len(data) : i \in 1..k + Len(c) /\ ~(i <= k) /\ i - k \in 1..Len(c)
    BY <1>1, <1>2, <1>3
  <2> QED
    BY <1>2, <1>3, <2>1
<1>6. Follows(data, k, o - k)
  <2> HIDE DEF k, data, p, c, o
  <2>1. \A i \in k + 1..Len(data) : data[i][2] = (o - k) + i
    <3>1. \A i \in k + 1..Len(data) : o + (i - k) = (o - k) + i
      BY <1>1, <1>2, <1>3
    <3> QED
      BY <1>5, <3>1
  <2>2. k \in 0..Len(data)
    BY <1>1, <1>2, <1>3
  <2> QED
    BY <1>3, <1>4, <2>1, <2>2 DEF Follows
<1>7. ASSUME p = Rest(file.gen, o)
      PROVE  IsRun(data, file.gen, o - (o % 2))
  <2>1. CASE o % 2 = 0
    <3>1. p = <<>> /\ k = 0 /\ o - (o % 2) = o
      BY <1>1, <1>7, <2>1 DEF Rest
    <3>2. \A i \in 1..Len(data) : data[i] = <<file.gen, o + i>>
      <4> HIDE DEF k, data, p, c, o
      <4>1. \A i \in 1..Len(data) : i \in k + 1..Len(data) /\ i - k = i
        BY <3>1
      <4> QED
        BY <1>5, <4>1
    <3> HIDE DEF k, data, p, c, o
    <3> QED
      BY <1>3, <3>1, <3>2 DEF IsRun
  <2>2. CASE o % 2 = 1
    <3>1. p = << <<file.gen, o>> >>
      BY <1>1, <1>7, <2>2 DEF Rest
    <3>2. k = 1 /\ p[1] = <<file.gen, o>>
      BY <3>1
    <3>3. o - (o % 2) = o - 1 /\ o - 1 \in Nat
      BY <1>1, <2>2
    <3>4. \A i \in 1..Len(data) : data[i] = <<file.gen, (o - 1) + i>>
      <4> HIDE DEF k, data, p, c, o
      <4> SUFFICES ASSUME NEW i \in 1..Len(data)
                   PROVE  data[i] = <<file.gen, (o - 1) + i>>
        OBVIOUS
      <4>1. CASE i = 1
        <5>1. (o - 1) + 1 = o
          BY <1>1
        <5> QED
          BY <1>4, <3>2, <4>1, <5>1
      <4>2. CASE i # 1
        <5>1. i \in k + 1..Len(data) /\ o + (i - k) = (o - 1) + i
          BY <1>1, <1>2, <1>3, <3>2, <4>2
        <5> QED
          BY <1>5, <5>1
      <4> QED
        BY <4>1, <4>2
    <3> HIDE DEF k, data, p, c, o
    <3> QED
      BY <1>3, <3>3, <3>4 DEF IsRun
  <2> QED
    BY <1>1, <2>1, <2>2
<1> QED
  BY <1>3, <1>6, <1>7

\* What a scan has seen and goes on from.
Seen(s) == s.file \in Files /\ s.from \in Froms /\ s.from.offset <= s.file.size

Amount(s) == Min({MaxRead, s.file.size - s.from.offset})

LEMMA AmountFits ==
    ASSUME NEW s, Seen(s)
    PROVE  /\ Amount(s) \in Nat /\ s.from.offset + Amount(s) <= s.file.size
           /\ s.file.size = 0 => Amount(s) = 0
<1>1. s.from.offset \in Nat /\ s.file.size \in Nat /\ s.from.offset <= s.file.size
  BY DEF Seen, Files, Froms
<1>2. MaxRead \in Nat
  BY SizesAssumption
<1>3. s.file.size - s.from.offset \in Int
  BY <1>1
<1>4. Amount(s) = IF MaxRead <= s.file.size - s.from.offset
                  THEN MaxRead ELSE s.file.size - s.from.offset
  BY <1>2, <1>3, MinOfTwo DEF Amount
<1> QED
  BY <1>1, <1>2, <1>4

LEMMA SmallReadFits ==
    ASSUME file \in Files, NEW s, Seen(s)
    PROVE  /\ SmallRead(s).ids \subseteq {id \in Ids : IdFits(id)}
           /\ SmallRead(s).offset \in Nat /\ SmallRead(s).partial \in Unended
           /\ s.file.size = 0 /\ s.from.partial = <<>> =>
                 SmallRead(s).offset = 0 /\ SmallRead(s).partial = <<>>
<1> DEFINE chunk == Read(s.from.offset, Amount(s))
           data == s.from.partial \o chunk
           k == Len(s.from.partial)
           base == s.from.offset - k
<1>1. /\ s.from \in Froms /\ s.from.offset \in Nat /\ k \in Nat /\ s.from.partial \in Seq(Byte)
      /\ base \in Int /\ base + k >= 0
  <2>1. /\ s.from \in Froms /\ s.from.offset \in Nat /\ s.from.partial \in Seq(Byte)
    BY DEF Seen, Froms, Unended
  <2>2. k \in Nat
    BY <2>1, LenProperties
  <2> HIDE DEF k
  <2> QED
    BY <2>1, <2>2
<1>2. SmallRead(s) = [ids |-> Lines(Complete(data), "line", base),
                      offset |-> s.from.offset + Len(chunk), partial |-> Partial(data)]
  BY DEF SmallRead, Amount
<1>3. Amount(s) \in Nat
  BY AmountFits
<1>4. Follows(data, k, base)
  BY <1>1, <1>3, Continues
<1>5. Len(chunk) \in Nat /\ Len(chunk) <= Amount(s)
  BY <1>1, <1>3, ReadIsRun
<1>6. data \in Seq(Byte) /\ Lines(data, "line", base) \subseteq {id \in Ids : IdFits(id)}
  <2>1. data \in Seq(Byte)
    BY <1>4 DEF Follows
  <2> HIDE DEF data, base, k
  <2> QED
    BY <2>1, <1>1, <1>4, LinesAreIds
<1>7. Lines(Complete(data), "line", base) \subseteq Lines(data, "line", base)
  <2> HIDE DEF data, base, k
  <2> QED
    BY <1>1, <1>4, CompleteLines
<1>8. Partial(data) \in Unended
  <2> HIDE DEF data, base, k
  <2> QED
    BY <1>1, <1>4, PartialIsUnended
<1>9. ASSUME s.file.size = 0, s.from.partial = <<>>
      PROVE  s.from.offset + Len(chunk) = 0 /\ Partial(data) = <<>>
  <2>1. s.from.offset = 0
    BY <1>1, <1>9 DEF Seen, Files
  <2>2. Len(chunk) = 0
    <3>1. Amount(s) = 0
      BY <1>9, AmountFits
    <3> HIDE DEF chunk
    <3> QED
      BY <1>5, <3>1
  <2>3. file.gen \in Nat
    BY DEF Files
  <2>4. s.from.partial = Rest(file.gen, 0)
    BY <1>9 DEF Rest
  <2>5. IsRun(data, file.gen, 0) /\ Len(data) = 0
    <3>1. Len(s.from.partial) = 0
      BY <1>9
    <3> QED
      BY <1>1, <1>3, <2>1, <2>2, <2>4, <3>1, Continues
  <2>6. Partial(data) = Rest(file.gen, 0 + 0)
    <3> HIDE DEF data
    <3> QED
      BY <2>3, <2>5, RunSplits
  <2> QED
    BY <2>1, <2>2, <2>6 DEF Rest
<1> QED
  <2> HIDE DEF data, base, k, chunk
  <2> QED
    BY <1>1, <1>2, <1>5, <1>6, <1>7, <1>8, <1>9

\* With the file it is about, an incremental read covers what it goes over.
LEMMA SmallReadCovers ==
    ASSUME file \in Files, NEW s, Seen(s), NEW done,
           s.file.size <= file.size, s.from.partial = Rest(file.gen, s.from.offset),
           Whole(file.gen, s.from.offset) \subseteq done
    PROVE  /\ SmallRead(s).partial = Rest(file.gen, SmallRead(s).offset)
           /\ Whole(file.gen, SmallRead(s).offset)
                 \subseteq done \cup {id[3] : id \in SmallRead(s).ids}
<1> DEFINE o == s.from.offset
           g == file.gen
           chunk == Read(o, Amount(s))
           data == s.from.partial \o chunk
           base == o - (o % 2)
           to == o + Len(chunk)
           start == o - Len(s.from.partial)
<1>1. /\ s.from \in Froms /\ o \in Nat /\ g \in Nat /\ base \in Nat /\ base % 2 = 0 /\ base <= o
      /\ base >= o - 1
  BY DEF Seen, Froms, Files
<1>2. SmallRead(s) = [ids |-> Lines(Complete(data), "line", start), offset |-> to,
                      partial |-> Partial(data)]
  BY DEF SmallRead, Amount
<1>3. Amount(s) \in Nat /\ Len(chunk) \in Nat
  BY <1>1, AmountFits, ReadIsRun
<1>4. IsRun(data, g, base) /\ Len(data) = Len(s.from.partial) + Len(chunk)
  BY <1>1, <1>3, Continues
<1>5. Len(s.from.partial) = o % 2
  <2>1. CASE o % 2 = 0
    BY <2>1 DEF Rest
  <2>2. CASE o % 2 # 0
    <3>1. s.from.partial = << <<g, o>> >>
      BY <2>2 DEF Rest
    <3>2. Len(s.from.partial) = 1
      BY <3>1
    <3> QED
      BY <1>1, <2>2, <3>2
  <2> QED
    BY <2>1, <2>2
<1>6. base + Len(data) = to /\ to \in Nat /\ start \in Int
  <2>1. o % 2 \in Nat
    BY <1>1
  <2>2. base = o - (o % 2) /\ to = o + Len(chunk) /\ start = o - (o % 2)
    BY <1>5
  <2> HIDE DEF chunk, data, base, to, start, o
  <2> QED
    BY <1>1, <1>3, <1>4, <1>5, <2>1, <2>2
<1>7. /\ Partial(data) = Rest(g, to)
      /\ IsRun(Complete(data), g, base)
      /\ Len(Complete(data)) = Len(data) - (Len(data) % 2)
  <2> HIDE DEF data, base, to
  <2> QED
    BY <1>1, <1>4, <1>6, RunSplits
<1>8. Whole(g, to) \subseteq done \cup {id[3] : id \in Lines(Complete(data), "line", start)}
  <2> SUFFICES ASSUME NEW i \in 1..to, i % 2 # 0, i < to
               PROVE  <<g, i>> \in done \cup {id[3] : id \in Lines(Complete(data), "line", start)}
    <3> HIDE DEF g, to, data, start
    <3> QED
      BY DEF Whole, EndsLine
  <2>1. i \in Nat /\ i % 2 = 1
    OBVIOUS
  <2>2. CASE i < o
    <3>1. <<g, i>> \in Whole(g, o)
      BY <1>1, <2>1, <2>2 DEF Whole, EndsLine
    <3> QED
      BY <3>1
  <2>3. CASE i >= o
    <3>1. base < i
      BY <1>1, <2>1, <2>3
    <3>2. i < base + Len(Complete(data))
      <4> HIDE DEF base, data, to
      <4>1. Len(data) \in Nat
        BY <1>4 DEF IsRun
      <4>2. to \in Nat
        BY <1>6
      <4> QED
        BY <1>1, <1>6, <1>7, <2>1, <4>1, <4>2
    <3> HIDE DEF base, data, start, to, g
    <3> QED
      BY <1>1, <1>6, <1>7, <2>1, <3>1, <3>2, RunLines
  <2> QED
    BY <1>1, <2>1, <2>2, <2>3
<1> QED
  BY <1>2, <1>7, <1>8

Cut(piece) == IF Ends(piece) = {} THEN 0 ELSE Min(Ends(piece))

\* The first newline of a piece is its first or second byte.
LEMMA CutFits ==
    ASSUME NEW piece, NEW g \in Nat, NEW base \in Nat, IsRun(piece, g, base)
    PROVE  /\ Cut(piece) \in 0..Len(piece) /\ Cut(piece) <= 2
           /\ Cut(piece) = 2 => base % 2 = 0
           /\ Len(piece) > 0 => (base + Cut(piece)) % 2 = 0
<1> DEFINE n == Len(piece)
           S == Ends(piece)
<1>1. n \in Nat
  BY LenProperties DEF IsRun
<1>2. S \subseteq 1..n /\ \A i \in 1..n : i \in S <=> (base + i) % 2 = 0
  <2>1. \A i \in 1..n : piece[i][2] = base + i
    BY DEF IsRun
  <2> QED
    BY <2>1 DEF Ends, EndsLine
<1>3. CASE base % 2 = 1 /\ n > 0
  <2> HIDE DEF S, n
  <2>1. 1 \in S
    <3>1. (base + 1) % 2 = 0 /\ 1 \in 1..n
      BY <1>1, <1>3
    <3> QED
      BY <1>2, <3>1
  <2>2. \A y \in S : 1 <= y
    BY <1>1, <1>2
  <2>3. Min(S) \in S /\ \A y \in S : Min(S) <= y
    BY <2>1, <2>2 DEF Min
  <2>4. Min(S) = 1
    <3>1. Min(S) \in Nat
      <4>1. Min(S) \in 1..n
        BY <1>2, <2>3
      <4> QED
        BY <1>1, <4>1
    <3>2. Min(S) <= 1 /\ 1 <= Min(S)
      BY <2>1, <2>2, <2>3
    <3> QED
      BY <3>1, <3>2
  <2>5. Cut(piece) = 1
    BY <2>1, <2>4 DEF Cut, S
  <2> QED
    BY <1>1, <1>3, <2>5 DEF n
<1>4. CASE base % 2 = 0 /\ n > 1
  <2> HIDE DEF S, n
  <2>1. 2 \in S
    <3>1. (base + 2) % 2 = 0 /\ 2 \in 1..n
      BY <1>1, <1>4
    <3> QED
      BY <1>2, <3>1
  <2>2. \A y \in S : 2 <= y
    <3>1. (base + 1) % 2 # 0
      BY <1>4
    <3>2. 1 \notin S
      BY <1>1, <1>2, <3>1
    <3> QED
      BY <1>1, <1>2, <3>2
  <2>3. Min(S) \in S /\ \A y \in S : Min(S) <= y
    BY <2>1, <2>2 DEF Min
  <2>4. Min(S) = 2
    <3>1. Min(S) \in Nat
      <4>1. Min(S) \in 1..n
        BY <1>2, <2>3
      <4> QED
        BY <1>1, <4>1
    <3>2. Min(S) <= 2 /\ 2 <= Min(S)
      BY <2>1, <2>2, <2>3
    <3> QED
      BY <3>1, <3>2
  <2>5. Cut(piece) = 2
    BY <2>1, <2>4 DEF Cut, S
  <2>6. (base + 2) % 2 = 0
    BY <1>4
  <2> QED
    BY <1>1, <1>4, <2>5, <2>6 DEF n
<1>5. CASE n = 0 \/ (base % 2 = 0 /\ n = 1)
  <2>1. S = {}
    <3> HIDE DEF S, n
    <3> SUFFICES ASSUME NEW i \in S
                 PROVE  FALSE
      OBVIOUS
    <3>1. i \in 1..n /\ (base + i) % 2 = 0
      BY <1>2
    <3>2. i = 1 /\ base % 2 = 0
      BY <1>1, <1>5, <3>1
    <3> QED
      BY <3>1, <3>2
  <2>2. Cut(piece) = 0
    BY <2>1 DEF Cut
  <2> QED
    BY <1>1, <1>5, <2>2
<1>6. (base % 2 = 1 \/ base % 2 = 0) /\ (n > 1 \/ n = 1 \/ n = 0)
  <2> HIDE DEF n
  <2> QED
    BY <1>1
<1> QED
  BY <1>3, <1>4, <1>5, <1>6

LEMMA SuffixIsRun ==
    ASSUME NEW piece, NEW g \in Nat, NEW base \in Nat, IsRun(piece, g, base),
           NEW cut \in 0..Len(piece)
    PROVE  /\ IsRun(SubSeq(piece, cut + 1, Len(piece)), g, base + cut)
           /\ Len(SubSeq(piece, cut + 1, Len(piece))) = Len(piece) - cut
<1> DEFINE n == Len(piece)
           r == SubSeq(piece, cut + 1, n)
<1>1. /\ piece \in Seq(Byte) /\ n \in Nat /\ cut \in Nat /\ cut <= n
      /\ \A i \in 1..n : piece[i] = <<g, base + i>> /\ piece[i] \in Byte
  <2>1. piece \in Seq(Byte) /\ n \in Nat /\ \A i \in 1..n : piece[i] = <<g, base + i>>
    BY LenProperties DEF IsRun
  <2>2. \A i \in 1..n : piece[i] \in Byte
    BY <2>1, ElementOfSeq
  <2> QED
    BY <2>1, <2>2
<1>2. /\ r \in Seq(Byte) /\ Len(r) = (IF cut + 1 <= n THEN n - (cut + 1) + 1 ELSE 0)
      /\ \A i \in 1 .. n - (cut + 1) + 1 : r[i] = piece[(cut + 1) + i - 1]
  <2> HIDE DEF n
  <2>1. \A i \in cut + 1 .. n : piece[i] \in Byte
    BY <1>1
  <2> QED
    BY <1>1, <2>1, SubSeqProperties
<1>3. Len(r) = n - cut
  <2> HIDE DEF n, r
  <2> QED
    BY <1>1, <1>2
<1>4. \A i \in 1..Len(r) : r[i] = <<g, (base + cut) + i>>
  <2> HIDE DEF n, r
  <2>1. \A i \in 1..Len(r) : /\ i \in 1 .. n - (cut + 1) + 1 /\ (cut + 1) + i - 1 = cut + i
                             /\ cut + i \in 1..n /\ base + (cut + i) = (base + cut) + i
    BY <1>1, <1>3
  <2> QED
    BY <1>1, <1>2, <2>1
<1> QED
  BY <1>2, <1>3, <1>4 DEF IsRun

\* The parts of a large read.
LargeHead == Read(0, HeadBytes)
LargeStart(s) == Max({Len(LargeHead), s.file.size - TailBytes})
LargePiece(s) == Read(LargeStart(s), TailBytes)
LargeCut(s) == LargeStart(s) + Cut(LargePiece(s))
LargeTail(s) == SubSeq(LargePiece(s), Cut(LargePiece(s)) + 1, Len(LargePiece(s)))

LEMMA LargeReadIs ==
    ASSUME NEW s
    PROVE  LargeRead(s) =
              [ids |-> Lines(LargeHead, "head", 0)
                       \cup Lines(Complete(LargeTail(s)), "tail", LargeCut(s)),
               offset |-> s.file.size, partial |-> Partial(LargeTail(s))]
BY DEF LargeRead, LargeHead, LargeStart, LargePiece, LargeCut, LargeTail, Cut

LEMMA LargePartsFit ==
    ASSUME file \in Files, NEW s, Seen(s), s.file.size > HeadBytes + TailBytes
    PROVE  /\ IsRun(LargeHead, file.gen, 0) /\ Len(LargeHead) <= HeadBytes
           /\ LargeStart(s) = s.file.size - TailBytes /\ LargeStart(s) \in Nat
           /\ IsRun(LargePiece(s), file.gen, LargeStart(s))
           /\ Cut(LargePiece(s)) \in 0..Len(LargePiece(s)) /\ LargeCut(s) \in Nat
           /\ IsRun(LargeTail(s), file.gen, LargeCut(s))
           /\ Len(LargeTail(s)) = Len(LargePiece(s)) - Cut(LargePiece(s))
           /\ s.file.size <= file.size =>
                 Len(LargeHead) = HeadBytes /\ Len(LargePiece(s)) = TailBytes
<1>1. /\ file.gen \in Nat /\ file.size \in Nat /\ s.file.size \in Nat
      /\ HeadBytes \in Nat \ {0} /\ TailBytes \in Nat \ {0}
  BY SizesAssumption DEF Files, Seen
<1>2. /\ IsRun(LargeHead, file.gen, 0)
      /\ Len(LargeHead) \in Nat /\ Len(LargeHead) <= HeadBytes
      /\ 0 + HeadBytes <= file.size => Len(LargeHead) = HeadBytes
  BY <1>1, ReadIsRun DEF LargeHead
<1>3. LargeStart(s) = s.file.size - TailBytes /\ LargeStart(s) \in Nat
  <2>1. s.file.size - TailBytes \in Nat /\ Len(LargeHead) <= s.file.size - TailBytes
    BY <1>1, <1>2
  <2> QED
    BY <1>2, <2>1, MaxOfTwo DEF LargeStart
<1>4. /\ IsRun(LargePiece(s), file.gen, LargeStart(s))
      /\ LargeStart(s) + TailBytes <= file.size => Len(LargePiece(s)) = TailBytes
  BY <1>1, <1>3, ReadIsRun DEF LargePiece
<1>5. Cut(LargePiece(s)) \in 0..Len(LargePiece(s))
  BY <1>1, <1>3, <1>4, CutFits
<1>6. /\ IsRun(LargeTail(s), file.gen, LargeCut(s))
      /\ Len(LargeTail(s)) = Len(LargePiece(s)) - Cut(LargePiece(s))
  BY <1>1, <1>3, <1>4, <1>5, SuffixIsRun DEF LargeTail, LargeCut
<1>7. LargeCut(s) \in Nat
  <2>1. Len(LargePiece(s)) \in Nat
    BY <1>4, LenProperties DEF IsRun
  <2> QED
    BY <1>3, <1>5, <2>1 DEF LargeCut
<1>8. ASSUME s.file.size <= file.size
      PROVE  Len(LargeHead) = HeadBytes /\ Len(LargePiece(s)) = TailBytes
  <2>1. 0 + HeadBytes <= file.size /\ LargeStart(s) + TailBytes <= file.size
    BY <1>1, <1>3, <1>8
  <2> QED
    BY <1>2, <1>4, <2>1
<1> QED
  BY <1>2, <1>3, <1>4, <1>5, <1>6, <1>7, <1>8

LEMMA LargeReadFits ==
    ASSUME file \in Files, NEW s, Seen(s), s.file.size > HeadBytes + TailBytes
    PROVE  /\ LargeRead(s).ids \subseteq {id \in Ids : IdFits(id)}
           /\ LargeRead(s).offset \in Nat /\ LargeRead(s).partial \in Unended
<1> DEFINE tail == LargeTail(s)
           cut == LargeCut(s)
<1>1. /\ IsRun(LargeHead, file.gen, 0) /\ IsRun(tail, file.gen, cut) /\ cut \in Nat
      /\ file.gen \in Nat /\ s.file.size \in Nat
  BY LargePartsFit DEF Files, Seen
<1> HIDE DEF tail, cut
<1>2. Follows(tail, 0, cut)
  BY <1>1, RunFollows
<1>3. Partial(tail) \in Unended
  BY <1>1, <1>2, PartialIsUnended
<1>4. Lines(LargeHead, "head", 0) \subseteq {id \in Ids : IdFits(id)}
  BY <1>1, LinesAreIds DEF IsRun
<1>5. Lines(Complete(tail), "tail", cut) \subseteq {id \in Ids : IdFits(id)}
  <2>1. Complete(tail) \in Seq(Byte)
    BY <1>1, <1>2, CompleteIsPrefix
  <2> QED
    BY <1>1, <2>1, LinesAreIds
<1> QED
  BY <1>1, <1>3, <1>4, <1>5, LargeReadIs DEF tail, cut

\* With the file it is about, a large read covers all but the middle.
LEMMA LargeReadCovers ==
    ASSUME file \in Files, NEW s, Seen(s), s.file.size > HeadBytes + TailBytes,
           s.file.size <= file.size
    PROVE  /\ LargeRead(s).partial = Rest(file.gen, LargeRead(s).offset)
           /\ Whole(file.gen, LargeRead(s).offset)
                 \subseteq {id[3] : id \in LargeRead(s).ids}
                           \cup ({file.gen} \X Middle(s.file.size))
<1> DEFINE g == file.gen
           n == s.file.size
           start == LargeStart(s)
           piece == LargePiece(s)
           tail == LargeTail(s)
           cut == LargeCut(s)
           ids == LargeRead(s).ids
<1>1. g \in Nat /\ n \in Nat /\ HeadBytes \in Nat \ {0} /\ TailBytes \in Nat \ {0}
  BY SizesAssumption DEF Files, Seen
<1>2. /\ IsRun(LargeHead, g, 0) /\ Len(LargeHead) = HeadBytes
      /\ start = n - TailBytes /\ start \in Nat
      /\ IsRun(piece, g, start) /\ Len(piece) = TailBytes
      /\ IsRun(tail, g, cut) /\ cut \in Nat /\ Len(tail) = TailBytes - Cut(piece)
      /\ Cut(piece) \in 0..TailBytes /\ cut = start + Cut(piece)
  BY <1>1, LargePartsFit DEF LargeCut
<1> HIDE DEF start, piece, tail, cut, g, n, ids
<1>3. cut % 2 = 0 /\ Cut(piece) <= 2 /\ (Cut(piece) = 2 => start % 2 = 0)
  <2>1. Len(piece) > 0
    BY <1>1, <1>2
  <2>2. Cut(piece) <= 2 /\ (Cut(piece) = 2 => start % 2 = 0) /\ (start + Cut(piece)) % 2 = 0
    BY <1>1, <1>2, <2>1, CutFits
  <2> QED
    BY <1>2, <2>2
<1>4. cut + Len(tail) = n
  <2>1. Cut(piece) \in Nat
    BY <1>1, <1>2
  <2> QED
    BY <1>1, <1>2, <2>1
<1>5. /\ Partial(tail) = Rest(g, n)
      /\ IsRun(Complete(tail), g, cut)
      /\ Len(Complete(tail)) = Len(tail) - (Len(tail) % 2)
  <2>1. cut % 2 = 0 /\ cut \in Nat /\ IsRun(tail, g, cut)
    BY <1>2, <1>3
  <2>2. /\ Partial(tail) = Rest(g, cut + Len(tail))
        /\ IsRun(Complete(tail), g, cut)
        /\ Len(Complete(tail)) = Len(tail) - (Len(tail) % 2)
    BY <1>1, <2>1, RunSplits
  <2> QED
    BY <1>4, <2>2
<1>6. /\ LargeRead(s).partial = Partial(tail) /\ LargeRead(s).offset = n
      /\ ids = Lines(LargeHead, "head", 0) \cup Lines(Complete(tail), "tail", cut)
  BY LargeReadIs DEF tail, cut, ids, n
<1>7. ASSUME NEW i \in 1..n, i % 2 # 0, i < n
      PROVE  <<g, i>> \in {id[3] : id \in ids} \cup ({g} \X Middle(n))
  <2>1. i \in Nat /\ i % 2 = 1
    BY <1>1, <1>7
  <2> HIDE DEF g, n, ids
  <2>2. CASE i + 1 <= HeadBytes
    <3>1. 0 % 2 = 0 /\ 0 < i /\ i < 0 + Len(LargeHead) /\ 0 \in Int /\ 0 \in Nat
      BY <1>1, <1>2, <2>1, <2>2
    <3>2. <<g, i>> \in {id[3] : id \in Lines(LargeHead, "head", 0)}
      BY <1>1, <1>2, <2>1, <3>1, RunLines
    <3> QED
      BY <1>6, <3>2
  <2>3. CASE i + 1 > HeadBytes /\ i <= n - TailBytes + 1
    BY <1>7, <2>1, <2>3 DEF Middle
  <2>4. CASE i > n - TailBytes + 1
    <3>1. cut < i
      <4>1. Cut(piece) \in Nat /\ start + 1 < i
        BY <1>1, <1>2, <2>1, <2>4
      <4>2. CASE Cut(piece) = 2
        <5>1. start + 2 # i
          BY <1>2, <1>3, <2>1, <4>2
        <5> QED
          BY <1>2, <2>1, <4>1, <4>2, <5>1
      <4>3. CASE Cut(piece) <= 1
        BY <1>2, <2>1, <4>1, <4>3
      <4>4. Cut(piece) <= 1 \/ Cut(piece) = 2
        BY <1>3, <4>1
      <4> QED
        BY <4>2, <4>3, <4>4
    <3>2. i < cut + Len(Complete(tail))
      <4>1. Len(tail) \in Nat
        BY <1>1, <1>2
      <4>2. i < n
        BY <1>7
      <4>3. cut \in Nat /\ Len(Complete(tail)) = Len(tail) - (Len(tail) % 2)
        BY <1>2, <1>5
      <4>4. cut % 2 = 0 /\ cut + Len(tail) = n
        BY <1>3, <1>4
      <4> QED
        BY <2>1, <4>1, <4>2, <4>3, <4>4
    <3>3. <<g, i>> \in {id[3] : id \in Lines(Complete(tail), "tail", cut)}
      <4>1. cut % 2 = 0 /\ cut \in Nat /\ cut \in Int /\ IsRun(Complete(tail), g, cut)
        BY <1>2, <1>3, <1>5
      <4> QED
        BY <1>1, <2>1, <3>1, <3>2, <4>1, RunLines
    <3> QED
      BY <1>6, <3>3
  <2> QED
    BY <1>1, <2>1, <2>2, <2>3, <2>4
<1>8. Whole(g, n) \subseteq {id[3] : id \in ids} \cup ({g} \X Middle(n))
  <2> HIDE DEF g, n, ids
  <2> QED
    BY <1>7 DEF Whole, EndsLine
<1> QED
  BY <1>5, <1>6, <1>8 DEF g, n, ids

----------------------------------------------------------------------------
(* The invariant.                                                          *)

Later(f, f2) == \/ f2.gen = f.gen /\ f2.head = f.head /\ f.size <= f2.size
                \/ f.gen < f2.gen

\* What a row says stays true while the file grows or is rewritten and more is
\* ingested.
LEMMA FitStays ==
    ASSUME NEW f \in Files, NEW f2 \in Files, Later(f, f2),
           NEW done, NEW done2, done \subseteq done2,
           NEW head, NEW torn, NEW of, of.gen \in Nat, NEW offset, NEW partial,
           Fit(f, done, head, torn, of, offset, partial)
    PROVE  Fit(f2, done2, head, torn, of, offset, partial)
<1>1. f.gen \in Nat /\ f2.gen \in Nat
  BY DEF Files
<1> QED
  BY <1>1 DEF Fit, Later

LEMMA ScanStays ==
    ASSUME NEW f \in Files, NEW f2 \in Files, Later(f, f2),
           NEW done, NEW done2, done \subseteq done2,
           NEW s \in Places, ScanFits(f, done, s)
    PROVE  ScanFits(f2, done2, s)
<1>1. /\ s.at \in {"stat", "hashed", "loaded"} => s.file \in Files
      /\ s.at \in {"hashed", "loaded"} => s.head \in Seq(Byte)
      /\ s.at = "read" => s.row \in Rows
  BY DEF Places, Idle
<1>2. s.at \in {"stat", "hashed", "loaded"} => SeenFits(f2, s)
  BY <1>1 DEF ScanFits, SeenFits, Later, Files
<1>3. s.at = "loaded" => FromFits(f2, done2, s)
  BY <1>1, FitStays DEF ScanFits, FromFits, Files
<1>4. s.at = "read" => RowFits(f2, done2, s.row)
  BY <1>1, FitStays DEF ScanFits, RowFits, Rows
<1> QED
  BY <1>2, <1>3, <1>4 DEF ScanFits

\* The scans and the row a step leaves alone still fit.
LEMMA OthersFit ==
    ASSUME TailInv, file' \in Files, Later(file, file'), Done \subseteq Done'
    PROVE  /\ \A t \in Scanners : ScanFits(file', Done', scan[t])
           /\ saved # None => RowFits(file', Done', saved)
<1>1. \A t \in Scanners : ScanFits(file', Done', scan[t])
  BY ScanStays DEF TailInv, TailTypes
<1>2. saved # None => RowFits(file', Done', saved)
  BY FitStays DEF TailInv, TailTypes, RowFits, Rows
<1> QED
  BY <1>1, <1>2

LEMMA LaterRefl ==
    ASSUME TailInv
    PROVE  file \in Files /\ Later(file, file)
BY DEF TailInv, TailTypes, Files, Later

\* A step that only moves scan t on.
LEMMA ScanMoves ==
    ASSUME TailInv, NEW t \in Scanners, NEW s \in Places, ScanFits(file, Done, s),
           scan' = [scan EXCEPT ![t] = s], UNCHANGED <<file, saved, stored, skipped>>
    PROVE  TailInv'
<1>1. TailTypes'
  BY DEF TailInv, TailTypes
<1>2. Done' = Done
  BY DEF Done
<1>3. \A u \in Scanners : ScanFits(file, Done, scan'[u])
  BY DEF TailInv, TailTypes
<1>4. (saved # None => RowFits(file, Done, saved))'
  BY <1>2 DEF TailInv
<1> QED
  BY <1>1, <1>2, <1>3, <1>4 DEF TailInv

LEMMA IdleFits == Idle \in Places /\ \A f, done : ScanFits(f, done, Idle)
BY DEF Idle, Places, ScanFits

LEMMA InitTail ==
    Init => TailInv
<1> SUFFICES ASSUME Init PROVE TailInv
  OBVIOUS
<1>1. TailTypes
  BY IdleFits DEF Init, TailTypes, Files
<1> QED
  BY <1>1, IdleFits DEF Init, TailInv

LEMMA GrowTail ==
    TailInv /\ Grow => TailInv'
<1> SUFFICES ASSUME TailInv, Grow PROVE TailInv'
  OBVIOUS
<1>1. file \in Files /\ file' \in Files /\ Later(file, file')
  BY DEF TailInv, TailTypes, Grow, Files, Later
<1>2. Done' = Done
  BY DEF Grow, Done
<1>3. TailTypes'
  BY <1>1 DEF Grow, TailInv, TailTypes
<1> QED
  BY <1>1, <1>2, <1>3, OthersFit DEF Grow, TailInv

LEMMA RewriteTail ==
    TailInv /\ Rewrite => TailInv'
<1> SUFFICES ASSUME TailInv, Rewrite PROVE TailInv'
  OBVIOUS
<1>1. file \in Files /\ file' \in Files /\ Later(file, file')
  BY SizesAssumption DEF TailInv, TailTypes, Rewrite, Files, Later
<1>2. Done' = Done
  BY DEF Rewrite, Done
<1>3. TailTypes'
  BY <1>1 DEF Rewrite, TailInv, TailTypes
<1> QED
  BY <1>1, <1>2, <1>3, OthersFit DEF Rewrite, TailInv

LEMMA StatTail ==
    ASSUME TailInv, NEW t \in Scanners, Stat(t)
    PROVE  TailInv'
<1> DEFINE s == [at |-> "stat", file |-> file]
<1>1. s \in Places /\ ScanFits(file, Done, s)
  BY LaterRefl DEF Places, ScanFits, SeenFits, Files
<1>2. scan' = [scan EXCEPT ![t] = s] /\ UNCHANGED <<file, saved, stored, skipped>>
  BY DEF Stat
<1> HIDE DEF s
<1> QED
  BY <1>1, <1>2, ScanMoves

LEMMA HeadOfFile ==
    ASSUME file \in Files
    PROVE  /\ HeadHash \in Seq(Byte)
           /\ HeadHash = <<>> => file.size = 0
           /\ HeadHash # <<>> => HeadHash[1][1] = file.head
<1> DEFINE n == Min({HashedBytes, file.size})
<1>1. HashedBytes \in Nat \ {0} /\ file.size \in Nat /\ file.head \in Nat
  BY SizesAssumption DEF Files
<1>2. n \in Nat /\ (n = 0 => file.size = 0)
  BY <1>1, MinOfTwo
<1>3. HeadHash = [i \in 1..n |-> <<file.head, i>>]
  BY DEF HeadHash
<1> HIDE DEF n
<1>4. HeadHash \in Seq(Byte) /\ Len(HeadHash) = n
  <2>1. \A i \in 1..n : <<file.head, i>> \in Byte
    BY <1>1, <1>2 DEF Byte
  <2> QED
    BY <1>2, <1>3, <2>1
<1>5. HeadHash = <<>> => n = 0
  BY <1>4
<1>6. HeadHash # <<>> => HeadHash[1][1] = file.head
  <2>1. HeadHash # <<>> => 1 \in 1..n
    BY <1>4, EmptySeq
  <2> QED
    BY <1>3, <2>1
<1> QED
  BY <1>2, <1>4, <1>5, <1>6

LEMMA HashTail ==
    ASSUME TailInv, NEW t \in Scanners, Hash(t)
    PROVE  TailInv'
<1> DEFINE old == scan[t]
           torn == file.gen # old.file.gen
           s == [at |-> "hashed", file |-> old.file, head |-> HeadHash, torn |-> torn]
<1>1. /\ old \in Places /\ old.at = "stat" /\ old.file \in Files /\ SeenFits(file, old)
      /\ file \in Files
  BY DEF Hash, TailInv, TailTypes, Places, Idle, ScanFits
<1>2. torn \in BOOLEAN
  OBVIOUS
<1>3. s \in Places
  <2> HIDE DEF torn, old
  <2> QED
    BY <1>1, <1>2, HeadOfFile DEF Places
<1>4. HeadFits(s)
  <2> SUFFICES ASSUME ~torn
               PROVE  /\ HeadHash = <<>> => old.file.size = 0
                      /\ HeadHash # <<>> => HeadHash[1][1] = old.file.head
    BY DEF HeadFits
  <2>1. old.file.head = file.head /\ old.file.size <= file.size
    BY <1>1 DEF SeenFits
  <2>2. old.file.size \in Nat
    BY <1>1 DEF Files
  <2> QED
    BY <1>1, <2>1, <2>2, HeadOfFile
<1>5. ScanFits(file, Done, s)
  <2>1. SeenFits(file, s)
    BY <1>1 DEF SeenFits
  <2> QED
    BY <1>4, <2>1 DEF ScanFits
<1>6. scan' = [scan EXCEPT ![t] = s] /\ UNCHANGED <<file, saved, stored, skipped>>
  BY DEF Hash
<1> HIDE DEF s
<1> QED
  BY <1>3, <1>5, <1>6, ScanMoves

LEMMA LoadTail ==
    ASSUME TailInv, NEW t \in Scanners, Load(t)
    PROVE  TailInv'
<1> DEFINE old == scan[t]
           reset == MustReset(old)
           from == Resume(old)
           torn == old.torn \/ (~reset /\ (saved.torn \/ Alike(saved.of, old.file)))
           s == [at |-> "loaded", file |-> old.file, head |-> old.head, from |-> from,
                 torn |-> torn]
<1>1. /\ old \in Places /\ old.at = "hashed" /\ old.file \in Files /\ old.head \in Seq(Byte)
      /\ old.torn \in BOOLEAN /\ SeenFits(file, old) /\ HeadFits(old) /\ file \in Files
  BY DEF Load, TailInv, TailTypes, Places, Idle, ScanFits
<1>2. ~reset => /\ saved \in Rows /\ saved.head = old.head /\ saved.offset <= old.file.size
                /\ RowFits(file, Done, saved)
  <2> SUFFICES ASSUME ~reset
               PROVE  /\ saved \in Rows /\ saved.head = old.head
                      /\ saved.offset <= old.file.size /\ RowFits(file, Done, saved)
    OBVIOUS
  <2>1. saved # None /\ saved.head = old.head /\ ~(old.file.size < saved.offset)
    BY DEF MustReset
  <2>2. saved \in Rows /\ RowFits(file, Done, saved)
    BY <2>1 DEF TailInv, TailTypes
  <2>3. saved.offset \in Nat /\ old.file.size \in Nat
    BY <1>1, <2>2 DEF Rows, Files
  <2> QED
    BY <2>1, <2>2, <2>3
<1>3. torn \in BOOLEAN
  <2>1. CASE reset
    BY <1>1, <2>1
  <2>2. CASE ~reset
    BY <1>1, <1>2, <2>2 DEF Rows, Alike
  <2> QED
    BY <2>1, <2>2
<1>4. <<>> \in Unended
  BY DEF Unended, Ends
<1>5. from \in Froms /\ from.offset <= old.file.size
      /\ (from.reset => from.offset = 0 /\ from.partial = <<>>)
  <2>1. CASE reset
    <3>1. from = [reset |-> TRUE, offset |-> 0, partial |-> <<>>]
      BY <2>1 DEF Resume
    <3> HIDE DEF from
    <3> QED
      BY <1>1, <1>4, <3>1 DEF Froms, Files
  <2>2. CASE ~reset
    <3>1. from = [reset |-> FALSE, offset |-> saved.offset, partial |-> saved.partial]
      BY <2>2 DEF Resume
    <3> HIDE DEF from
    <3> QED
      BY <1>2, <2>2, <3>1 DEF Froms, Rows
  <2> QED
    BY <2>1, <2>2
<1>6. Fit(file, Done, old.head, torn, old.file, from.offset, from.partial)
  <2> SUFFICES ASSUME ~torn
               PROVE  Fit(file, Done, old.head, FALSE, old.file, from.offset, from.partial)
    BY DEF Fit
  <2>1. /\ old.head # <<>> => old.head[1][1] = old.file.head
        /\ old.file.gen <= file.gen
    BY <1>1 DEF HeadFits, SeenFits
  <2>2. Whole(file.gen, 0) = {} /\ Rest(file.gen, 0) = <<>>
    BY DEF Whole, Rest
  <2>3. CASE reset
    <3>1. from.offset = 0 /\ from.partial = <<>>
      BY <2>3 DEF Resume
    <3> HIDE DEF from
    <3> QED
      BY <2>1, <2>2, <3>1 DEF Fit
  <2>4. CASE ~reset
    <3>1. from.offset = saved.offset /\ from.partial = saved.partial /\ ~saved.torn
          /\ ~Alike(saved.of, old.file)
      BY <2>4 DEF Resume
    <3>2. saved.head = old.head /\ RowFits(file, Done, saved)
      BY <1>2, <2>4
    <3> HIDE DEF from
    <3>3. CASE old.head = <<>>
      <4>1. from.offset = 0 /\ from.partial = <<>>
        BY <3>1, <3>2, <3>3 DEF RowFits, Fit
      <4> QED
        BY <2>1, <2>2, <4>1 DEF Fit
    <3>4. CASE old.head # <<>>
      <4>1. saved.of.gen = old.file.gen
        BY <2>1, <3>1, <3>2, <3>4 DEF RowFits, Fit, Alike
      <4> QED
        BY <2>1, <3>1, <3>2, <3>4, <4>1 DEF RowFits, Fit
    <3> QED
      BY <3>3, <3>4
  <2> QED
    BY <2>3, <2>4
<1>7. s \in Places
  <2> HIDE DEF from, torn, old
  <2> QED
    BY <1>1, <1>3, <1>5 DEF Places
<1>8. ScanFits(file, Done, s)
  <2> HIDE DEF from, old
  <2>1. SeenFits(file, s)
    BY <1>1 DEF SeenFits
  <2>2. HeadFits(s)
    BY <1>1 DEF HeadFits
  <2>3. FromFits(file, Done, s)
    BY <1>5, <1>6 DEF FromFits
  <2> QED
    BY <2>1, <2>2, <2>3 DEF ScanFits
<1>9. scan' = [scan EXCEPT ![t] = s] /\ UNCHANGED <<file, saved, stored, skipped>>
  BY DEF Load
<1> HIDE DEF s
<1> QED
  BY <1>7, <1>8, <1>9, ScanMoves

\* A read yields lines of the file under their ids and, with what a large file
\* leaves out, covers its offset.
Left(s) == IF IsLarge(s) THEN {s.file.gen} \X Middle(s.file.size) ELSE {}

LEMMA FileReadFits ==
    ASSUME TailInv, NEW s \in Places, s.at = "loaded", ScanFits(file, Done, s)
    PROVE  /\ FileRead(s).ids \subseteq {id \in Ids : IdFits(id)}
           /\ FileRead(s).offset \in Nat /\ FileRead(s).partial \in Unended
           /\ Fit(file, Done \cup {id[3] : id \in FileRead(s).ids} \cup Left(s),
                  s.head, s.torn, s.file, FileRead(s).offset, FileRead(s).partial)
<1> DEFINE read == FileRead(s)
           done == Done \cup {id[3] : id \in read.ids} \cup Left(s)
<1>1. /\ file \in Files /\ s.file \in Files /\ s.from \in Froms /\ s.head \in Seq(Byte)
      /\ SeenFits(file, s) /\ HeadFits(s) /\ FromFits(file, Done, s)
  BY DEF TailInv, TailTypes, ScanFits, Places, Idle
<1>2. Seen(s)
  <2>1. s.from.offset <= s.file.size
    BY <1>1 DEF FromFits
  <2> QED
    BY <1>1, <2>1 DEF Seen
<1>3. HeadBytes + TailBytes \in Nat /\ HeadBytes + TailBytes > 0 /\ s.file.size \in Nat
  <2>1. HeadBytes \in Nat \ {0} /\ TailBytes \in Nat \ {0}
    BY SizesAssumption
  <2>2. s.file.size \in Nat
    BY <1>1 DEF Files
  <2> QED
    BY <2>1, <2>2
<1>4. IsLarge(s) => s.file.size > HeadBytes + TailBytes /\ s.from.reset
  BY DEF IsLarge
<1>5. read = IF IsLarge(s) THEN LargeRead(s) ELSE SmallRead(s)
  BY DEF FileRead
<1>6. /\ read.ids \subseteq {id \in Ids : IdFits(id)}
      /\ read.offset \in Nat /\ read.partial \in Unended
  <2> HIDE DEF read
  <2> QED
    BY <1>1, <1>2, <1>4, <1>5, LargeReadFits, SmallReadFits
<1>7. Fit(file, done, s.head, s.torn, s.file, read.offset, read.partial)
  <2> SUFFICES ASSUME ~s.torn
               PROVE  Fit(file, done, s.head, FALSE, s.file, read.offset, read.partial)
    BY DEF Fit
  <2>1. /\ s.head = <<>> => s.file.size = 0 /\ s.from.partial = <<>>
        /\ s.head # <<>> => s.head[1][1] = s.file.head
        /\ s.file.gen <= file.gen
    BY <1>1 DEF HeadFits, FromFits, Fit
  <2>2. ASSUME s.head = <<>>
        PROVE  read.offset = 0 /\ read.partial = <<>>
    <3>1. ~IsLarge(s)
      BY <1>3, <1>4, <2>1, <2>2
    <3> QED
      BY <1>1, <1>2, <1>5, <2>1, <2>2, <3>1, SmallReadFits
  <2>3. ASSUME s.file.gen = file.gen
        PROVE  /\ read.partial = Rest(file.gen, read.offset)
               /\ Whole(file.gen, read.offset) \subseteq done
    <3>1. s.file.gen = file.gen /\ s.file.size <= file.size
      BY <1>1, <2>1, <2>3 DEF SeenFits
    <3>2. s.from.partial = Rest(file.gen, s.from.offset) /\ Whole(file.gen, s.from.offset) \subseteq Done
      BY <1>1, <2>3 DEF FromFits, Fit
    <3>3. CASE IsLarge(s)
      <4>1. /\ read.partial = Rest(file.gen, read.offset)
            /\ Whole(file.gen, read.offset) \subseteq
                  {id[3] : id \in read.ids} \cup ({file.gen} \X Middle(s.file.size))
        <5> HIDE DEF read
        <5> QED
          BY <1>1, <1>2, <1>4, <1>5, <3>1, <3>3, LargeReadCovers
      <4>2. Left(s) = {file.gen} \X Middle(s.file.size)
        BY <3>1, <3>3 DEF Left
      <4> HIDE DEF read
      <4> QED
        BY <4>1, <4>2
    <3>4. CASE ~IsLarge(s)
      <4>1. /\ read.partial = Rest(file.gen, read.offset)
            /\ Whole(file.gen, read.offset) \subseteq Done \cup {id[3] : id \in read.ids}
        <5> HIDE DEF read
        <5> QED
          BY <1>1, <1>2, <1>5, <3>1, <3>2, <3>4, SmallReadCovers
      <4> HIDE DEF read
      <4> QED
        BY <4>1
    <3> QED
      BY <3>3, <3>4
  <2> HIDE DEF read, done
  <2> QED
    BY <2>1, <2>2, <2>3 DEF Fit
<1> QED
  BY <1>6, <1>7

LEMMA ConsumeTail ==
    ASSUME TailInv, NEW t \in Scanners, Consume(t)
    PROVE  TailInv'
<1>1. PICK old : old = scan[t]
  OBVIOUS
<1>2. PICK read : read = FileRead(old)
  OBVIOUS
<1>3. PICK row : row = [inode |-> old.file.inode, offset |-> read.offset,
                        partial |-> read.partial, head |-> old.head,
                        of |-> [gen |-> old.file.gen, head |-> old.file.head],
                        torn |-> old.torn]
  OBVIOUS
<1>4. PICK s : s = [at |-> "read", row |-> row]
  OBVIOUS
<1>5. /\ stored' = stored \cup read.ids
      /\ skipped' = skipped \cup Left(old)
      /\ scan' = [scan EXCEPT ![t] = s]
      /\ UNCHANGED <<file, saved>>
      /\ old.at = "loaded"
  BY <1>1, <1>2, <1>3, <1>4 DEF Consume, Left
<1>6. /\ old \in Places /\ ScanFits(file, Done, old) /\ old.file \in Files
      /\ old.head \in Seq(Byte) /\ old.torn \in BOOLEAN
  BY <1>1, <1>5 DEF TailInv, TailTypes, Places, Idle
<1>7. /\ read.ids \subseteq {id \in Ids : IdFits(id)}
      /\ read.offset \in Nat /\ read.partial \in Unended
      /\ Fit(file, Done \cup {id[3] : id \in read.ids} \cup Left(old),
             old.head, old.torn, old.file, read.offset, read.partial)
  BY <1>2, <1>5, <1>6, FileReadFits
<1>8. Done' = Done \cup {id[3] : id \in read.ids} \cup Left(old)
  BY <1>5 DEF Done
<1>9. row \in Rows /\ s \in Places /\ s.at = "read" /\ s.row = row
  BY <1>3, <1>4, <1>6, <1>7 DEF Rows, Places, Files
<1>10. ScanFits(file, Done', s)
  <2>1. RowFits(file, Done', row)
    BY <1>3, <1>7, <1>8 DEF RowFits, Fit
  <2> QED
    BY <1>9, <2>1 DEF ScanFits
<1>11. /\ \A u \in Scanners : ScanFits(file, Done', scan[u])
       /\ saved # None => RowFits(file, Done', saved)
  BY <1>5, <1>8, LaterRefl, OthersFit
<1>12. TailTypes'
  BY <1>5, <1>9 DEF TailInv, TailTypes
<1>13. (\A u \in Scanners : ScanFits(file, Done, scan[u]))'
  BY <1>5, <1>10, <1>11 DEF TailInv, TailTypes
<1>14. stored' \subseteq Ids /\ \A id \in stored' : IdFits(id)
  BY <1>5, <1>7 DEF TailInv
<1> QED
  BY <1>5, <1>11, <1>12, <1>13, <1>14 DEF TailInv

LEMMA SaveTail ==
    ASSUME TailInv, NEW t \in Scanners, Save(t)
    PROVE  TailInv'
<1>1. /\ saved' = scan[t].row /\ scan' = [scan EXCEPT ![t] = Idle]
      /\ UNCHANGED <<file, stored, skipped>> /\ scan[t].at = "read"
  BY DEF Save
<1>2. scan[t].row \in Rows /\ RowFits(file, Done, scan[t].row)
  BY <1>1 DEF TailInv, TailTypes, Places, Idle, ScanFits
<1>3. Done' = Done
  BY <1>1 DEF Done
<1>4. TailTypes'
  BY <1>1, <1>2, IdleFits DEF TailInv, TailTypes
<1>5. \A u \in Scanners : ScanFits(file, Done, scan'[u])
  BY <1>1, IdleFits DEF TailInv, TailTypes
<1>6. RowFits(file, Done, saved')
  BY <1>1, <1>2
<1> QED
  BY <1>1, <1>3, <1>4, <1>5, <1>6 DEF TailInv

LEMMA FailTail ==
    ASSUME TailInv, NEW t \in Scanners, Fail(t)
    PROVE  TailInv'
<1>1. PICK ids \in IF scan[t].at = "loaded" THEN SUBSET FileRead(scan[t]).ids ELSE {{}} :
         stored' = stored \cup ids
  BY DEF Fail
<1>2. scan' = [scan EXCEPT ![t] = Idle] /\ UNCHANGED <<file, saved, skipped>>
  BY DEF Fail
<1>3. ids \subseteq {id \in Ids : IdFits(id)}
  <2>1. CASE scan[t].at = "loaded"
    <3>1. FileRead(scan[t]).ids \subseteq {id \in Ids : IdFits(id)}
      BY <2>1, FileReadFits DEF TailInv, TailTypes
    <3> QED
      BY <1>1, <2>1, <3>1
  <2>2. CASE scan[t].at # "loaded"
    BY <1>1, <2>2
  <2> QED
    BY <2>1, <2>2
<1>4. Done \subseteq Done'
  BY <1>1, <1>2 DEF Done
<1>5. /\ \A u \in Scanners : ScanFits(file, Done', scan[u])
      /\ saved # None => RowFits(file, Done', saved)
  BY <1>2, <1>4, LaterRefl, OthersFit
<1>6. TailTypes'
  BY <1>2, IdleFits DEF TailInv, TailTypes
<1>7. \A u \in Scanners : ScanFits(file, Done', scan'[u])
  BY <1>2, <1>5, IdleFits DEF TailInv, TailTypes
<1>8. stored' \subseteq Ids /\ \A id \in stored' : IdFits(id)
  BY <1>1, <1>3 DEF TailInv
<1> QED
  BY <1>2, <1>5, <1>6, <1>7, <1>8 DEF TailInv

LEMMA NextTail ==
    TailInv /\ [Next]_vars => TailInv'
<1> SUFFICES ASSUME TailInv, [Next]_vars PROVE TailInv'
  OBVIOUS
<1>1. CASE Grow \/ Rewrite
  BY <1>1, GrowTail, RewriteTail
<1>2. ASSUME NEW t \in Scanners, ScanStep(t) \/ Fail(t)
      PROVE  TailInv'
  BY <1>2, StatTail, HashTail, LoadTail, ConsumeTail, SaveTail, FailTail DEF ScanStep
<1>3. CASE UNCHANGED vars
  <2>1. Done' = Done
    BY <1>3 DEF vars, Done
  <2> QED
    BY <1>3, <2>1 DEF vars, TailInv, TailTypes
<1> QED
  BY <1>1, <1>2, <1>3 DEF Next

----------------------------------------------------------------------------
\* Scans keep their invariant, for any number of scanners, any sizes and any
\* rewrites, those that keep the hashed head included: a row that speaks of one file
\* alone covers what was ingested of it and fits its unfinished line as long as that
\* file is there (collector.py:159-248).
THEOREM TailIsSound ==
    Spec => []TailInv
<1> QED
  BY InitTail, NextTail, PTL DEF Spec

\* A row a scan resumes from is about the file there is, or about an empty file.
LEMMA RowOfThisFile ==
    ASSUME TailInv, Resumes
    PROVE  /\ saved.offset \in Nat
           /\ saved.partial = Rest(file.gen, saved.offset)
           /\ Whole(file.gen, saved.offset) \subseteq Done
<1>1. saved # None /\ saved.head = HeadHash /\ ~saved.torn /\ ~Alike(saved.of, file)
  BY DEF Resumes, MustReset
<1>2. saved \in Rows /\ RowFits(file, Done, saved) /\ file \in Files
  BY <1>1 DEF TailInv, TailTypes
<1>3. CASE saved.head = <<>>
  <2>1. saved.offset = 0 /\ saved.partial = <<>>
    BY <1>1, <1>2, <1>3 DEF RowFits, Fit
  <2> QED
    BY <2>1 DEF Rest, Whole
<1>4. CASE saved.head # <<>>
  <2>1. saved.of.head = saved.head[1][1] /\ HeadHash[1][1] = file.head
    BY <1>1, <1>2, <1>4, HeadOfFile DEF RowFits, Fit
  <2>2. saved.of.gen = file.gen
    BY <1>1, <2>1 DEF Alike
  <2> QED
    BY <1>1, <1>2, <2>2 DEF RowFits, Fit, Rows
<1> QED
  BY <1>3, <1>4

\* No line is passed over, but for rewrites the hash of the first bytes does not show:
\* what lies before the offset the next scan resumes from has been ingested or is the
\* middle of a large file, whatever the file did between hash, read and save and
\* whichever scanner saved last (collector.py:164-219).
THEOREM OffsetCovered ==
    Spec => []OffsetIsCovered
<1>1. TailInv => OffsetIsCovered
  <2> SUFFICES ASSUME TailInv, Resumes
               PROVE  Firsts(saved.offset) \subseteq {id[3] : id \in stored} \cup skipped
    BY DEF OffsetIsCovered, Covered
  <2>1. Firsts(saved.offset) = Whole(file.gen, saved.offset)
    BY DEF Firsts, Whole
  <2> QED
    BY <2>1, RowOfThisFile DEF Done
<1> QED
  BY <1>1, TailIsSound, PTL

\* The unfinished line is the one the offset leaves, but for rewrites the hash of the
\* first bytes does not show, although scanners save over each other.
THEOREM PartialFits ==
    Spec => []PartialFitsOffset
<1>1. TailInv => PartialFitsOffset
  <2> SUFFICES ASSUME TailInv, Resumes
               PROVE  saved.partial = Partial(Bytes(saved.offset))
    BY DEF PartialFitsOffset
  <2>1. /\ saved.offset \in Nat /\ saved.partial = Rest(file.gen, saved.offset)
        /\ file \in Files /\ file.gen \in Nat
    BY RowOfThisFile DEF TailInv, TailTypes, Files
  <2>2. IsRun(Bytes(saved.offset), file.gen, 0) /\ Len(Bytes(saved.offset)) = saved.offset
    BY <2>1, BytesAreRun
  <2>3. Partial(Bytes(saved.offset)) = Rest(file.gen, 0 + saved.offset)
    BY <2>1, <2>2, RunSplits
  <2> QED
    BY <2>1, <2>3
<1> QED
  BY <1>1, TailIsSound, PTL

\* However often incremental reads go over the file again, and although it was
\* rewritten meanwhile, a line has one id.
THEOREM IncrementsIdempotent ==
    Spec => []IncrementsAreIdempotent
<1>1. TailInv => IncrementsAreIdempotent
  <2> SUFFICES ASSUME TailInv, NEW a \in stored, NEW b \in stored,
                      a[1] = "line", b[1] = "line", a[3] = b[3]
               PROVE  a = b
    BY DEF IncrementsAreIdempotent
  <2>1. a \in Ids /\ b \in Ids /\ a[2] = a[3][2] - 1 /\ b[2] = b[3][2] - 1
    BY DEF TailInv, IdFits
  <2>2. a = <<a[1], a[2], a[3]>> /\ b = <<b[1], b[2], b[3]>>
    BY <2>1 DEF Ids
  <2> QED
    BY <2>1, <2>2
<1> QED
  BY <1>1, TailIsSound, PTL

=============================================================================
