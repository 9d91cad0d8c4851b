---------------------------- MODULE RolloutTail ----------------------------
(***************************************************************************)
(* collector.py's scan_file on one rollout file: which lines a scan reads,   *)
(* under which source ids it ingests them, and what it saves for the next    *)
(* one, while Codex appends to the file, the file may be rewritten, and the  *)
(* HTTP action "scan" scans it too.                                         *)
(*                                                                         *)
(* A line is two bytes: its first part, and the rest with the newline.  Byte *)
(* i of a file's generation g is <<g, i>>, so a line put together of parts   *)
(* of different lines or generations can be told from a real one: it is not  *)
(* JSON, and is dropped.  No line exceeds max_event_bytes, and no read ends  *)
(* just before a newline.  One open of the file is one step.                 *)
(*                                                                         *)
(* The head hash covers the first HashedBytes only (4096 in the code), and a *)
(* rewritten file may begin with those of the file before: its head names    *)
(* the generation that wrote them first.  Its lines are other lines even so. *)
(***************************************************************************)
EXTENDS Naturals, Sequences, FiniteSets, FiniteSetsExt

CONSTANTS
    Scanners,       \* the threads that scan: the collector's, and those of HTTP actions
    HashedBytes,    \* what _head_hash reads
    HeadBytes,      \* config.initial_head_bytes
    TailBytes,      \* config.initial_tail_bytes
    MaxRead,        \* config.max_incremental_bytes
    MaxSize,        \* bounds the size of the file
    MaxRewrites     \* bounds the rewrites of the file

ASSUME SizesAssumption ==
    /\ {HashedBytes, HeadBytes, TailBytes, MaxRead} \subseteq Nat \ {0}
    /\ {MaxSize, MaxRewrites} \subseteq Nat

VARIABLES
    file,       \* its inode, generation, size, and the generation its head goes back to
    saved,      \* the row of table offsets, or None
    scan,       \* what each thread's scan has found out so far
    stored,     \* the source ids in table events: <<prefix, position, first byte>>
    skipped     \* history: first bytes of the lines in the middle of a large file

vars == <<file, saved, scan, stored, skipped>>

None == [offset |-> 0, torn |-> FALSE]      \* no row
Idle == [at |-> "idle"]

Bytes(n) == [i \in 1..n |-> <<file.gen, i>>]
Read(from, n) == SubSeq(Bytes(file.size), from + 1, Min({from + n, file.size}))

\* _head_hash
HeadHash == [i \in 1..Min({HashedBytes, file.size}) |-> <<file.head, i>>]

EndsLine(byte) == byte[2] % 2 = 0
Ends(data) == {j \in 1..Len(data) : EndsLine(data[j])}

\* _split_complete
Complete(data) == SubSeq(data, 1, Max(Ends(data) \cup {0}))
Partial(data) == SubSeq(data, Max(Ends(data) \cup {0}) + 1, Len(data))

\* _consume_complete_lines: the ids of the lines of data that are JSON.
Lines(data, prefix, start) ==
    {<<prefix, start + j - 2, data[j - 1]>> :
        j \in {e \in Ends(data) : /\ e > 1 /\ data[e - 1] = <<data[e][1], data[e][2] - 1>>
                                  /\ e > 2 => EndsLine(data[e - 2])}}

----------------------------------------------------------------------------
Init ==
    /\ file = [inode |-> 0, gen |-> 0, size |-> 0, head |-> 0]
    /\ saved = None
    /\ scan = [t \in Scanners |-> Idle]
    /\ stored = {} /\ skipped = {}

\* Codex writes some more of a line.
Grow ==
    /\ file.size < MaxSize
    /\ file' = [file EXCEPT !.size = @ + 1]
    /\ UNCHANGED <<saved, scan, stored, skipped>>

\* The file is written anew, in place or under its name, with the head it had or
\* with another one.
Rewrite ==
    /\ file.gen < MaxRewrites
    /\ \E size \in 0..MaxSize, inode \in {file.inode, file.inode + 1},
          head \in {file.head, file.gen + 1} :
          file' = [inode |-> inode, gen |-> file.gen + 1, size |-> size, head |-> head]
    /\ UNCHANGED <<saved, scan, stored, skipped>>

\* A scan takes the file's inode and size first,
Stat(t) ==
    /\ scan[t].at = "idle"
    /\ scan' = [scan EXCEPT ![t] = [at |-> "stat", file |-> file]]
    /\ UNCHANGED <<file, saved, stored, skipped>>

\* and opens it for the head hash after that (torn: not the same file any more).
Hash(t) ==
    /\ scan[t].at = "stat"
    /\ scan' = [scan EXCEPT ![t] = [at |-> "hashed", file |-> @.file, head |-> HeadHash,
                                    torn |-> file.gen # @.file.gen]]
    /\ UNCHANGED <<file, saved, stored, skipped>>

MustReset(s) ==
    \/ saved = None
    \/ saved.inode # s.file.inode
    \/ s.file.size < saved.offset
    \/ saved.head # s.head

\* Mutant of Resume: a reset keeps the unfinished line.
ResumeWithPartial(s) ==
    IF MustReset(s)
    THEN [reset |-> TRUE, offset |-> 0, partial |-> IF saved = None THEN <<>> ELSE saved.partial]
    ELSE [reset |-> FALSE, offset |-> saved.offset, partial |-> saved.partial]

Resume(s) ==
    IF MustReset(s) THEN [reset |-> TRUE, offset |-> 0, partial |-> <<>>]
    ELSE [reset |-> FALSE, offset |-> saved.offset, partial |-> saved.partial]

\* Another file with the same head: the scan cannot tell the two apart by it.
Alike(f, g) == f.gen # g.gen /\ f.head = g.head

\* get_offset, and the decision to go on or to start over (torn: what the scan
\* goes on from, and what it reads, is not all of one file).
Load(t) ==
    /\ scan[t].at = "hashed"
    /\ scan' = [scan EXCEPT ![t] = [at |-> "loaded", file |-> @.file, head |-> @.head,
                                    from |-> Resume(@),
                                    torn |-> \/ @.torn
                                             \/ /\ ~MustReset(@)
                                                /\ saved.torn \/ Alike(saved.of, @.file)]]
    /\ UNCHANGED <<file, saved, stored, skipped>>

IsLarge(s) == s.from.reset /\ s.file.size > HeadBytes + TailBytes

\* The read of a large file's head and tail; the tail starts in the middle of
\* a line, which is discarded.
LargeRead(s) ==
    LET head == Read(0, HeadBytes)
        start == Max({Len(head), s.file.size - TailBytes})
        piece == Read(start, TailBytes)
        cut == IF Ends(piece) = {} THEN 0 ELSE Min(Ends(piece))
        tail == SubSeq(piece, cut + 1, Len(piece))
    IN  [ids |-> Lines(head, "head", 0) \cup Lines(Complete(tail), "tail", start + cut),
         offset |-> s.file.size, partial |-> Partial(tail)]

\* Mutant of SmallRead: the offset saved is the size the file had.
SmallReadToSize(s) ==
    LET chunk == Read(s.from.offset, Min({MaxRead, s.file.size - s.from.offset}))
        data == s.from.partial \o chunk
    IN  [ids |-> Lines(Complete(data), "line", s.from.offset - Len(s.from.partial)),
         offset |-> s.file.size, partial |-> Partial(data)]

\* Mutant of SmallRead: the unfinished line's length is not taken off.
SmallReadFromOffset(s) ==
    LET chunk == Read(s.from.offset, Min({MaxRead, s.file.size - s.from.offset}))
        data == s.from.partial \o chunk
    IN  [ids |-> Lines(Complete(data), "line", s.from.offset),
         offset |-> s.from.offset + Len(chunk), partial |-> Partial(data)]

\* The read of what was appended, after the unfinished line.
SmallRead(s) ==
    LET chunk == Read(s.from.offset, Min({MaxRead, s.file.size - s.from.offset}))
        data == s.from.partial \o chunk
    IN  [ids |-> Lines(Complete(data), "line", s.from.offset - Len(s.from.partial)),
         offset |-> s.from.offset + Len(chunk), partial |-> Partial(data)]

\* What a large read leaves out: the lines that are not wholly in the head and
\* begin before the tail or with it.
Middle(n) == {i \in 1..n : i % 2 = 1 /\ i + 1 > HeadBytes /\ i <= n - TailBytes + 1}

FileRead(s) == IF IsLarge(s) THEN LargeRead(s) ELSE SmallRead(s)

\* A scan reads the file and ingests the lines it has read.
Consume(t) ==
    /\ scan[t].at = "loaded"
    /\ LET s == scan[t]
           read == FileRead(s)
       IN  /\ stored' = stored \cup read.ids
           /\ skipped' = IF IsLarge(s) THEN skipped \cup ({s.file.gen} \X Middle(s.file.size)) ELSE skipped
           /\ scan' = [scan EXCEPT ![t] = [at |-> "read",
                           row |-> [inode |-> s.file.inode, offset |-> read.offset,
                                    partial |-> read.partial, head |-> s.head,
                                    of |-> [gen |-> s.file.gen, head |-> s.file.head],
                                    torn |-> s.torn]]]
    /\ UNCHANGED <<file, saved>>

\* set_offset
Save(t) ==
    /\ scan[t].at = "read"
    /\ saved' = scan[t].row
    /\ scan' = [scan EXCEPT ![t] = Idle]
    /\ UNCHANGED <<file, stored, skipped>>

\* An error of the file system or the database ends the scan, or the dashboard
\* dies and is started again: some of the lines read may have been ingested.
Fail(t) ==
    /\ scan[t].at # "idle"
    /\ scan' = [scan EXCEPT ![t] = Idle]
    /\ \E ids \in IF scan[t].at = "loaded" THEN SUBSET FileRead(scan[t]).ids ELSE {{}} :
          stored' = stored \cup ids
    /\ UNCHANGED <<file, saved, skipped>>

ScanStep(t) == Stat(t) \/ Hash(t) \/ Load(t) \/ Consume(t) \/ Save(t)

Next ==
    \/ Grow
    \/ Rewrite
    \/ \E t \in Scanners : ScanStep(t) \/ Fail(t)

Spec == Init /\ [][Next]_vars

----------------------------------------------------------------------------
\* A scan that starts now goes on where the saved offset says, and the row is about
\* the file there is.  Left out: a row that goes back to a scan between whose stat
\* and head hash the file was rewritten (a large file's offset is then the old size
\* beside the new hash), and a row of a file that has since been rewritten in place,
\* no shorter than the offset, with the same first 4096 bytes.  In both cases the
\* code resumes, passes over the new file's lines below the offset and puts the old
\* unfinished line before what it reads.
Resumes ==
    /\ ~MustReset([file |-> file, head |-> HeadHash])
    /\ ~saved.torn
    /\ ~Alike(saved.of, file)

\* The first bytes of the whole lines among the first n bytes.
Firsts(n) == {byte \in {file.gen} \X (1..n) : ~EndsLine(byte) /\ byte[2] < n}

Covered == Firsts(saved.offset) \subseteq {id[3] : id \in stored} \cup skipped

\* No line is passed over, but for rewrites the head hash does not show: every line
\* before the offset the next scan resumes from has been ingested, or lies in the
\* middle of a large file, whatever the file did between hash, read and save, and
\* whichever scanner saved last (collector.py:164-219).
OffsetIsCovered == Resumes => Covered

\* Offset and unfinished line stay a pair, but for rewrites the head hash does not
\* show: the next scan puts the line together from the two, although two scanners
\* save over each other (collector.py:179-219).
PartialFitsOffset == Resumes => saved.partial = Partial(Bytes(saved.offset))

\* Incremental reads are idempotent: however often the file is read again, from
\* its start, from an older offset or across an unfinished line, a line has one
\* id.
IncrementsAreIdempotent ==
    \A a, b \in stored : (a[1] = "line" /\ b[1] = "line" /\ a[3] = b[3]) => a = b

=============================================================================
