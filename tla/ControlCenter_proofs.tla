------------------------ MODULE ControlCenter_proofs ------------------------
(***************************************************************************)
(* Proofs about the control center as a whole, for any hosts, operators,     *)
(* pages, rollouts, any size of a read and any bounds.                       *)
(*                                                                         *)
(* First the collector: no sync takes a cursor back, and no cursor passes a  *)
(* line that is not in the database.  Both need that a sync that reads holds *)
(* the host's lock, and so resumes where the cursor still is; and that a     *)
(* cursor without its partial line is always at the start of a line.         *)
(*                                                                         *)
(* Then that an event that is stored is in its session's row but for one of  *)
(* each crash; that the control center implements its event bus, so what is  *)
(* proved of the bus on its own (EventBus_proofs) holds of the whole; and,   *)
(* from these and AppServer_proofs, that every variable keeps its type.      *)
(***************************************************************************)
EXTENDS AppServer_proofs, EventBus_proofs, FiniteSetTheorems

Cursors == [offset : Nat, partial : Nat]

CollectorTypes ==
    /\ content \in Contents
    /\ size \in [Sources -> Nat]
    /\ cursor \in [Sources -> Cursors]
    /\ stored \in [Sources -> SUBSET Nat]
    /\ sync \in [Tasks -> [Hosts -> SyncStates]]

Start(at) == at.offset - at.partial

\* A cursor within its rollout, at the start of a line.
CursorFits(s) ==
    /\ cursor[s].partial <= cursor[s].offset
    /\ Start(cursor[s]) % 2 = 0
    /\ cursor[s].offset <= size[s]

Covered(s) ==
    \A i \in Whole(s, 0, Start(cursor[s])) : content[s][i] = "skip" \/ i \in stored[s]

\* A sync that reads has the lock, and started at the cursor.
Reads(t, h) ==
    sync[t][h].at = "reading" =>
        /\ sync[t][h].from = cursor[h]
        /\ sync[t][h].amount \in Nat
        /\ cursor[h].offset + sync[t][h].amount <= size[h]

Exclusive(h) ==
    \A t, u \in Tasks : sync[t][h] # Idle /\ sync[u][h] # Idle => t = u

CollectorInv ==
    /\ CollectorTypes
    /\ \A s \in Sources : CursorFits(s) /\ Covered(s)
    /\ \A h \in Hosts : Exclusive(h) /\ \A t \in Tasks : Reads(t, h)

----------------------------------------------------------------------------
(* Reads and lines.                                                        *)

\* What follows the last newline is less than a line, and does not reach back
\* behind the start of the first line.
LEMMA TailIsShort ==
    ASSUME NEW from \in Nat, NEW to \in Nat, from <= to, from % 2 = 0
    PROVE  /\ TailLength(from, to) \in Nat
           /\ from <= to - TailLength(from, to)
           /\ (to - TailLength(from, to)) % 2 = 0
<1> DEFINE ends == {from} \cup {e \in from + 1 .. to : e % 2 = 0}
           last == to - (to % 2)
<1>1. last \in ends /\ \A e \in ends : last >= e
  <2>1. to % 2 \in {0, 1} /\ last \in Nat /\ last <= to /\ last % 2 = 0
    OBVIOUS
  <2>2. ASSUME NEW e \in Nat, e <= to, e % 2 = 0
        PROVE  e <= last
    <3>1. CASE to % 2 = 0
      BY <2>2, <3>1
    <3>2. CASE to % 2 = 1
      <4>1. e # to
        BY <2>2, <3>2
      <4>2. last = to - 1
        BY <3>2
      <4> HIDE DEF last
      <4> QED
        BY <2>2, <4>1, <4>2
    <3> QED
      BY <2>1, <3>1, <3>2
  <2>3. from <= last
    BY <2>2
  <2>4. \A e \in from + 1 .. to : e \in Nat
    OBVIOUS
  <2>5. \A e \in ends : last >= e
    <3> HIDE DEF last
    <3> QED
      BY <2>1, <2>2, <2>3, <2>4
  <2>6. last \in ends
    <3> HIDE DEF last
    <3>1. last = from \/ last \in from + 1 .. to
      BY <2>1, <2>3
    <3> QED
      BY <2>1, <3>1
  <2> QED
    BY <2>5, <2>6
<1>2. Max(ends) \in ends /\ \A e \in ends : Max(ends) >= e
  BY <1>1 DEF Max
<1>3. Max(ends) \in Nat /\ from <= Max(ends) /\ Max(ends) <= to /\ Max(ends) % 2 = 0
  BY <1>2
<1>4. TailLength(from, to) = to - Max(ends)
  BY DEF TailLength
<1> QED
  BY <1>3, <1>4

\* A read stays within the rollout and starts at the cursor.
LEMMA AmountFits ==
    ASSUME CollectorInv, NEW s \in Sources
    PROVE  /\ Resume(s, size[s]) = cursor[s]
           /\ Amount(s, size[s]) \in Nat
           /\ cursor[s].offset + Amount(s, size[s]) <= size[s]
<1> DEFINE left == size[s] - cursor[s].offset
<1>1. size[s] \in Nat /\ cursor[s].offset \in Nat /\ cursor[s].offset <= size[s]
  BY DEF CollectorInv, CollectorTypes, CursorFits, Cursors
<1>2. Resume(s, size[s]) = cursor[s]
  BY <1>1 DEF Resume
<1>3. MaxRead \in Nat /\ left \in Nat
  BY <1>1, ContentsAssumption
<1>4. \E x \in {left, MaxRead} : \A y \in {left, MaxRead} : x <= y
  BY <1>3
<1>5. Min({left, MaxRead}) \in {left, MaxRead} /\ Min({left, MaxRead}) <= left
  BY <1>3, <1>4 DEF Min
<1>6. Amount(s, size[s]) = Min({left, MaxRead})
  BY <1>2 DEF Amount
<1> QED
  BY <1>1, <1>2, <1>3, <1>5, <1>6

\* Consuming a read moves the cursor to its end or, if a line raises, not at all;
\* every line it moves over is stored or is no event.
LEMMA StoreFits ==
    ASSUME CollectorInv, NEW s \in Sources, NEW amount \in Nat,
           cursor[s].offset + amount <= size[s],
           NEW taken, taken = Taken(s, cursor[s], amount), Store(s, taken),
           UNCHANGED <<content, size>>
    PROVE  /\ cursor' \in [Sources -> Cursors] /\ stored' \in [Sources -> SUBSET Nat]
           /\ \A r \in Sources : r # s => cursor'[r] = cursor[r] /\ stored'[r] = stored[r]
           /\ cursor[s].offset <= cursor'[s].offset
           /\ CursorFits(s)' /\ Covered(s)'
<1> DEFINE from == Start(cursor[s])
           to == cursor[s].offset + amount
           lines == Whole(s, from, to)
           bad == {i \in lines : Raises(s, i)}
<1>1. /\ cursor[s] \in Cursors /\ from \in Nat /\ to \in Nat /\ from <= to /\ from % 2 = 0
      /\ to <= size[s] /\ size[s] \in Nat /\ cursor[s].offset \in Nat
  BY DEF CollectorInv, CollectorTypes, CursorFits, Cursors, Start
<1>2. /\ stored' = [stored EXCEPT ![s] = @ \cup taken.new \cup taken.stuck]
      /\ cursor' = [cursor EXCEPT ![s] = taken.cursor]
  BY DEF Store
<1>3. /\ taken.new \subseteq lines /\ taken.stuck \subseteq lines
      /\ taken.cursor = NextCursor(s, from, to, bad # {})
      /\ bad = {} => taken.new = {i \in lines \ stored[s] : content[s][i] # "skip"}
  BY DEF Taken, Start
<1>4. lines \subseteq Nat
  BY DEF Whole, Lines
<1>5. /\ stored' \in [Sources -> SUBSET Nat]
      /\ stored'[s] = stored[s] \cup taken.new \cup taken.stuck
      /\ \A r \in Sources : r # s => cursor'[r] = cursor[r] /\ stored'[r] = stored[r]
      /\ cursor'[s] = taken.cursor
  BY <1>2, <1>3, <1>4 DEF CollectorInv, CollectorTypes
<1>6. CASE bad # {}
  <2>1. cursor'[s] = cursor[s] /\ cursor' \in [Sources -> Cursors]
    BY <1>1, <1>2, <1>3, <1>5, <1>6 DEF NextCursor, CollectorInv, CollectorTypes
  <2>2. CursorFits(s)' /\ Covered(s)'
    BY <1>5, <2>1 DEF CollectorInv, CursorFits, Covered, Whole, Lines
  <2> QED
    BY <1>1, <1>5, <2>1, <2>2
<1>7. CASE bad = {}
  <2>1. taken.cursor = [offset |-> to, partial |-> TailLength(from, to)]
    BY <1>3, <1>7 DEF NextCursor
  <2>2. /\ TailLength(from, to) \in Nat /\ from <= to - TailLength(from, to)
        /\ (to - TailLength(from, to)) % 2 = 0
    BY <1>1, TailIsShort
  <2>3. /\ taken.cursor \in Cursors /\ cursor' \in [Sources -> Cursors]
        /\ cursor'[s].offset = to /\ cursor'[s].partial = TailLength(from, to)
    BY <1>1, <1>2, <1>5, <2>1, <2>2 DEF Cursors, CollectorInv, CollectorTypes
  <2>4. CursorFits(s)'
    BY <1>1, <2>2, <2>3 DEF CursorFits, Start
  <2>5. ASSUME NEW i \in Lines(s), 2 * i <= to - TailLength(from, to)
        PROVE  content[s][i] = "skip" \/ i \in stored'[s]
    <3>1. i \in Nat /\ 1 <= i
      BY DEF Lines
    <3>2. CASE 2 * i <= from
      <4>1. i \in Whole(s, 0, from)
        BY <3>1, <3>2 DEF Whole
      <4>2. Covered(s)
        BY DEF CollectorInv
      <4> QED
        BY <1>5, <4>1, <4>2 DEF Covered
    <3>3. CASE 2 * i > from
      <4>1. 2 * (i - 1) >= from /\ 2 * i <= to
        BY <1>1, <2>2, <2>5, <3>1, <3>3
      <4>2. i \in lines
        BY <4>1 DEF Whole
      <4> QED
        BY <1>3, <1>5, <1>7, <4>2
    <3> QED
      BY <1>1, <3>1, <3>2, <3>3
  <2>6. Covered(s)'
    BY <2>3, <2>5 DEF Covered, Whole, Lines, Start
  <2> QED
    BY <1>1, <1>5, <2>3, <2>4, <2>6
<1> QED
  BY <1>6, <1>7

----------------------------------------------------------------------------
(* The steps.                                                              *)

Forward == \A s \in Sources : cursor[s].offset <= cursor'[s].offset

LEMMA CollectorUntouched ==
    ASSUME CollectorInv, UNCHANGED <<content, size, cursor, stored, sync>>
    PROVE  CollectorInv' /\ Forward
<1>1. Forward
  BY DEF CollectorInv, CollectorTypes, Cursors, Forward
<1>2. CollectorTypes'
  BY DEF CollectorInv, CollectorTypes
<1>3. \A s \in Sources : CursorFits(s)' /\ Covered(s)'
  BY DEF CollectorInv, CursorFits, Covered, Whole, Lines
<1>4. \A h \in Hosts : Exclusive(h)' /\ \A t \in Tasks : Reads(t, h)'
  BY DEF CollectorInv, Exclusive, Reads
<1> QED
  BY <1>1, <1>2, <1>3, <1>4 DEF CollectorInv

\* A task that has the host's lock, or takes it, goes on; it may have moved the
\* cursor of this host, and of no other source.
LEMMA SyncGoesOn ==
    ASSUME CollectorInv, NEW t \in Tasks, NEW h \in Hosts, NEW where \in SyncStates,
           sync[t][h] # Idle \/ ~Locked(h), SyncAt(t, h, where),
           UNCHANGED <<content, size>>,
           cursor' \in [Sources -> Cursors], stored' \in [Sources -> SUBSET Nat],
           \A s \in Sources : s # h => cursor'[s] = cursor[s],
           \A s \in Sources : CursorFits(s)' /\ Covered(s)',
           where.at = "reading" =>
               /\ where.from = cursor'[h] /\ where.amount \in Nat
               /\ cursor'[h].offset + where.amount <= size[h]
    PROVE  CollectorInv'
<1>1. /\ sync' = [sync EXCEPT ![t][h] = where]
      /\ sync' \in [Tasks -> [Hosts -> SyncStates]]
      /\ sync'[t][h] = where
      /\ \A u \in Tasks, g \in Hosts : u # t \/ g # h => sync'[u][g] = sync[u][g]
  BY DEF SyncAt, CollectorInv, CollectorTypes
<1>2. \A u \in Tasks : u # t => sync[u][h] = Idle
  BY DEF CollectorInv, Exclusive, Locked
<1>3. CollectorTypes'
  BY <1>1 DEF CollectorInv, CollectorTypes
<1>4. ASSUME NEW g \in Hosts
      PROVE  Exclusive(g)'
  <2>1. CASE g = h
    BY <1>1, <1>2, <2>1 DEF Exclusive
  <2>2. CASE g # h
    BY <1>1, <2>2 DEF Exclusive, CollectorInv
  <2> QED
    BY <2>1, <2>2
<1>5. ASSUME NEW g \in Hosts, NEW u \in Tasks
      PROVE  Reads(u, g)'
  <2>0. g \in Sources /\ h \in Sources
    BY DEF Sources
  <2>1. CASE g # h
    BY <1>1, <2>0, <2>1 DEF Reads, CollectorInv
  <2>2. CASE g = h /\ u = t
    BY <1>1, <2>2 DEF Reads
  <2>3. CASE g = h /\ u # t
    <3>1. sync'[u][g].at = "idle"
      BY <1>1, <1>2, <2>3 DEF Idle
    <3> QED
      BY <3>1 DEF Reads
  <2> QED
    BY <2>1, <2>2, <2>3
<1> QED
  BY <1>3, <1>4, <1>5 DEF CollectorInv

\* The same without a read.
LEMMA SyncGoesOnUnread ==
    ASSUME CollectorInv, NEW t \in Tasks, NEW h \in Hosts,
           NEW where \in {Idle, [at |-> "listing"], [at |-> "probing"]},
           sync[t][h] # Idle \/ ~Locked(h), SyncAt(t, h, where),
           UNCHANGED <<content, size, cursor, stored>>
    PROVE  CollectorInv' /\ Forward
<1>1. where \in SyncStates /\ where.at # "reading"
  BY DEF SyncStates, Idle
<1>2. cursor' \in [Sources -> Cursors] /\ stored' \in [Sources -> SUBSET Nat]
  BY DEF CollectorInv, CollectorTypes
<1>3. \A s \in Sources : CursorFits(s)' /\ Covered(s)'
  BY DEF CollectorInv, CursorFits, Covered, Whole, Lines
<1>4. CollectorInv'
  BY <1>1, <1>2, <1>3, SyncGoesOn
<1>5. Forward
  BY DEF CollectorInv, CollectorTypes, Cursors, Forward
<1> QED
  BY <1>4, <1>5

LEMMA ListedKeeps ==
    ASSUME CollectorInv, NEW t \in Tasks, NEW h \in Hosts, Listed(t, h)
    PROVE  CollectorInv' /\ Forward
<1>1. /\ sync[t][h].at = "listing" /\ h \in Sources
      /\ UNCHANGED <<content, size, cursor, stored>>
  BY DEF Listed, world, Sources
<1>2. sync[t][h] # Idle
  BY <1>1 DEF Idle
<1>3. CASE Amount(h, size[h]) > 0
  <2> DEFINE where == [at |-> "reading", from |-> Resume(h, size[h]),
                       amount |-> Amount(h, size[h])]
  <2>1. SyncAt(t, h, where)
    BY <1>3 DEF Listed
  <2>2. /\ Resume(h, size[h]) = cursor[h] /\ Amount(h, size[h]) \in Nat
        /\ cursor[h].offset + Amount(h, size[h]) <= size[h]
        /\ cursor[h] \in [offset : Nat, partial : Nat]
    BY <1>1, AmountFits DEF CollectorInv, CollectorTypes, Cursors
  <2>3. where \in SyncStates
    BY <2>2 DEF SyncStates
  <2>4. /\ where.from = cursor'[h] /\ where.amount \in Nat
        /\ cursor'[h].offset + where.amount <= size[h]
    BY <1>1, <2>2
  <2>5. cursor' \in [Sources -> Cursors] /\ stored' \in [Sources -> SUBSET Nat]
    BY <1>1 DEF CollectorInv, CollectorTypes
  <2>6. \A s \in Sources : CursorFits(s)' /\ Covered(s)'
    BY <1>1 DEF CollectorInv, CursorFits, Covered, Whole, Lines
  <2>7. CollectorInv'
    <3> HIDE DEF where
    <3> QED
      BY <1>1, <1>2, <2>1, <2>3, <2>4, <2>5, <2>6, SyncGoesOn
  <2>8. Forward
    BY <1>1 DEF CollectorInv, CollectorTypes, Cursors, Forward
  <2> QED
    BY <2>7, <2>8
<1>4. CASE ~(Amount(h, size[h]) > 0)
  BY <1>1, <1>2, <1>4, SyncGoesOnUnread DEF Listed, Reached
<1> QED
  BY <1>3, <1>4

LEMMA FetchedKeeps ==
    ASSUME CollectorInv, NEW t \in Tasks, NEW h \in Hosts, Fetched(t, h)
    PROVE  CollectorInv' /\ Forward
<1>1. /\ sync[t][h].at = "reading" /\ h \in Sources
      /\ UNCHANGED <<content, size>>
  BY DEF Fetched, world, Sources
<1>2. sync[t][h] # Idle
  BY <1>1 DEF Idle
<1>3. /\ sync[t][h].from = cursor[h] /\ sync[t][h].amount \in Nat
      /\ cursor[h].offset + sync[t][h].amount <= size[h]
  BY <1>1 DEF CollectorInv, Reads
<1>4. PICK taken \in {Taken(h, sync[t][h].from, sync[t][h].amount)} :
          /\ Store(h, taken)
          /\ IF taken.raised THEN Offline(t, h, taken.new \cup taken.stuck # {})
             ELSE Reached(t, h)
  BY DEF Fetched
<1>5. PICK where \in {Idle, [at |-> "probing"]} : SyncAt(t, h, where)
  BY <1>4 DEF Offline, Reached
<1>6. where \in SyncStates /\ where.at # "reading"
  BY <1>5 DEF SyncStates, Idle
<1>7. /\ cursor' \in [Sources -> Cursors] /\ stored' \in [Sources -> SUBSET Nat]
      /\ \A r \in Sources : r # h => cursor'[r] = cursor[r] /\ stored'[r] = stored[r]
      /\ cursor[h].offset <= cursor'[h].offset
      /\ CursorFits(h)' /\ Covered(h)'
  <2>1. taken = Taken(h, cursor[h], sync[t][h].amount)
    BY <1>3, <1>4
  <2> QED
    BY <1>1, <1>3, <1>4, <2>1, StoreFits
<1>8. \A s \in Sources : CursorFits(s)' /\ Covered(s)'
  <2> SUFFICES ASSUME NEW s \in Sources, s # h PROVE CursorFits(s)' /\ Covered(s)'
    BY <1>7
  <2>1. cursor'[s] = cursor[s] /\ stored'[s] = stored[s]
    BY <1>7
  <2> QED
    BY <1>1, <2>1 DEF CollectorInv, CursorFits, Covered, Whole, Lines
<1>9. Forward
  BY <1>7 DEF CollectorInv, CollectorTypes, Cursors, Forward
<1>10. CollectorInv'
  BY <1>1, <1>2, <1>5, <1>6, <1>7, <1>8, SyncGoesOn
<1> QED
  BY <1>9, <1>10

LEMMA SyncKeeps ==
    ASSUME CollectorInv, NEW t \in Tasks, NEW h \in Hosts, SyncStep(t, h)
    PROVE  CollectorInv' /\ Forward
<1>1. CASE Probed(t, h)
  <2>1. sync[t][h] # Idle
    BY <1>1 DEF Probed, Idle
  <2> QED
    BY <1>1, <2>1, SyncGoesOnUnread DEF Probed, world
<1>2. CASE SyncFails(t, h)
  <2>1. sync[t][h] # Idle
    BY <1>2 DEF SyncFails, Idle
  <2> QED
    BY <1>2, <2>1, SyncGoesOnUnread DEF SyncFails, Offline, world
<1> QED
  BY <1>1, <1>2, ListedKeeps, FetchedKeeps DEF SyncStep

LEMMA PollKeeps ==
    ASSUME CollectorInv, Poll
    PROVE  CollectorInv' /\ Forward
<1>1. PICK taken \in {Taken(Local, Resume(Local, size[Local]), Amount(Local, size[Local]))} :
          /\ IF taken.raised THEN UNCHANGED <<sync, loop>> ELSE StartSyncs
          /\ Store(Local, taken)
  BY DEF Poll
<1>2. /\ UNCHANGED <<content, size>> /\ Local \in Sources /\ Local \notin Hosts
  BY ContentsAssumption DEF Poll, world, Sources
<1>3. /\ cursor' \in [Sources -> Cursors] /\ stored' \in [Sources -> SUBSET Nat]
      /\ \A r \in Sources : r # Local => cursor'[r] = cursor[r] /\ stored'[r] = stored[r]
      /\ cursor[Local].offset <= cursor'[Local].offset
      /\ CursorFits(Local)' /\ Covered(Local)'
  <2>1. /\ taken = Taken(Local, cursor[Local], Amount(Local, size[Local]))
        /\ Amount(Local, size[Local]) \in Nat
        /\ cursor[Local].offset + Amount(Local, size[Local]) <= size[Local]
    BY <1>1, <1>2, AmountFits
  <2> QED
    BY <1>1, <1>2, <2>1, StoreFits
<1>4. \A s \in Sources : CursorFits(s)' /\ Covered(s)'
  <2> SUFFICES ASSUME NEW s \in Sources, s # Local PROVE CursorFits(s)' /\ Covered(s)'
    BY <1>3
  <2>1. cursor'[s] = cursor[s] /\ stored'[s] = stored[s]
    BY <1>3
  <2> QED
    BY <1>2, <2>1 DEF CollectorInv, CursorFits, Covered, Whole, Lines
<1>5. Forward
  BY <1>3 DEF CollectorInv, CollectorTypes, Cursors, Forward
<1>6. \A h \in Hosts : h \in Sources /\ cursor'[h] = cursor[h]
  BY <1>2, <1>3 DEF Sources
<1>7. CASE sync' = sync
  <2>1. CollectorTypes'
    BY <1>2, <1>3, <1>7 DEF CollectorInv, CollectorTypes
  <2>2. \A h \in Hosts : Exclusive(h)' /\ \A t \in Tasks : Reads(t, h)'
    BY <1>2, <1>6, <1>7 DEF CollectorInv, Exclusive, Reads
  <2> QED
    BY <1>4, <1>5, <2>1, <2>2 DEF CollectorInv
<1>8. CASE StartSyncs
  <2>1. /\ sync' \in [Tasks -> [Hosts -> SyncStates]]
        /\ \A h \in Hosts : sync'["api"][h] = sync["api"][h]
        /\ \A h \in Hosts : \/ sync'["loop"][h] = sync["loop"][h]
                            \/ ~Locked(h) /\ sync'["loop"][h] = [at |-> "listing"]
    <3>1. "loop" \in Tasks /\ "api" \in Tasks /\ [at |-> "listing"] \in SyncStates
      BY DEF Tasks, SyncStates
    <3>2. sync \in [Tasks -> [Hosts -> SyncStates]]
      BY DEF CollectorInv, CollectorTypes
    <3> QED
      BY <1>8, <3>1, <3>2 DEF StartSyncs
  <2>2. CollectorTypes'
    BY <1>2, <1>3, <2>1 DEF CollectorInv, CollectorTypes
  <2>3. ASSUME NEW h \in Hosts
        PROVE  Exclusive(h)' /\ \A t \in Tasks : Reads(t, h)'
    <3>1. Exclusive(h) /\ \A t \in Tasks : Reads(t, h)
      BY DEF CollectorInv
    <3>2. CASE sync'["loop"][h] = sync["loop"][h]
      BY <1>2, <1>6, <2>1, <3>1, <3>2 DEF Exclusive, Reads, Tasks
    <3>3. CASE ~Locked(h) /\ sync'["loop"][h] = [at |-> "listing"]
      <4>1. sync'["api"][h] = Idle
        BY <2>1, <3>3 DEF Locked, Tasks
      <4>2. Exclusive(h)'
        BY <4>1 DEF Exclusive, Tasks
      <4>3. \A t \in Tasks : sync'[t][h].at # "reading"
        BY <3>3, <4>1 DEF Tasks, Idle
      <4> QED
        BY <4>2, <4>3 DEF Reads
    <3> QED
      BY <2>1, <3>2, <3>3
  <2> QED
    BY <1>4, <1>5, <2>2, <2>3 DEF CollectorInv
<1> QED
  BY <1>1, <1>7, <1>8

\* A crash leaves the cursors where they are, with some lines more behind them,
\* and ends every sync.
LEMMA CollectorCrash ==
    ASSUME CollectorInv, Crash
    PROVE  CollectorInv' /\ Forward
<1>1. /\ UNCHANGED <<content, size, cursor>>
      /\ sync' = [t \in Tasks |-> [h \in Hosts |-> Idle]]
  BY DEF Crash
<1>2. ASSUME NEW s \in Sources, NEW at, NEW amount, Torn(s, Taken(s, at, amount))
      PROVE  /\ stored' \in [Sources -> SUBSET Nat]
             /\ \A r \in Sources : stored[r] \subseteq stored'[r]
  <2> DEFINE taken == Taken(s, at, amount)
  <2>1. taken.new \subseteq Nat /\ taken.stuck \subseteq Nat
    BY DEF Taken, Whole, Lines
  <2> HIDE DEF taken
  <2>2. PICK stop \in Lines(s) \cup {0} :
            stored' = [stored EXCEPT ![s] = @ \cup {i \in taken.new \cup taken.stuck : i <= stop}]
    BY <1>2 DEF Torn, taken
  <2>3. stored \in [Sources -> SUBSET Nat]
    BY DEF CollectorInv, CollectorTypes
  <2> QED
    BY <2>1, <2>2, <2>3
<1>3. /\ stored' \in [Sources -> SUBSET Nat]
      /\ \A r \in Sources : stored[r] \subseteq stored'[r]
  <2>1. CASE UNCHANGED stored
    BY <2>1 DEF CollectorInv, CollectorTypes
  <2>2. \A h \in Hosts : h \in Sources
    BY DEF Sources
  <2> QED
    BY <1>2, <2>1, <2>2 DEF Crash, Sources
<1>4. CollectorTypes'
  BY <1>1, <1>3 DEF CollectorInv, CollectorTypes, SyncStates
<1>5. \A s \in Sources : CursorFits(s)' /\ Covered(s)'
  BY <1>1, <1>3 DEF CollectorInv, CursorFits, Covered, Whole, Lines
<1>6. \A h \in Hosts, t \in Tasks : sync'[t][h] = Idle
  BY <1>1
<1>7. \A h \in Hosts : Exclusive(h)' /\ \A t \in Tasks : Reads(t, h)'
  BY <1>6 DEF Exclusive, Reads, Idle
<1>8. Forward
  BY <1>1 DEF CollectorInv, CollectorTypes, Cursors, Forward
<1> QED
  BY <1>4, <1>5, <1>7, <1>8 DEF CollectorInv

LEMMA GrowKeeps ==
    ASSUME CollectorInv, NEW s \in Sources, Grow(s)
    PROVE  CollectorInv' /\ Forward
<1>1. /\ UNCHANGED <<content, cursor, stored, sync>>
      /\ size' \in [Sources -> Nat]
      /\ \A r \in Sources : size[r] \in Nat /\ size'[r] \in Nat /\ size[r] <= size'[r]
  BY DEF Grow, syncVars, CollectorInv, CollectorTypes
<1>2. CollectorTypes'
  BY <1>1 DEF CollectorInv, CollectorTypes
<1>3. \A r \in Sources : CursorFits(r)' /\ Covered(r)'
  BY <1>1 DEF CollectorInv, CollectorTypes, Cursors, CursorFits, Covered, Whole, Lines
<1>4. ASSUME NEW h \in Hosts
      PROVE  Exclusive(h)' /\ \A t \in Tasks : Reads(t, h)'
  <2>1. h \in Sources
    BY DEF Sources
  <2>2. Exclusive(h)'
    BY <1>1 DEF CollectorInv, Exclusive
  <2>3. \A t \in Tasks : Reads(t, h)'
    BY <1>1, <2>1 DEF CollectorInv, CollectorTypes, Cursors, Reads
  <2> QED
    BY <2>2, <2>3
<1>5. Forward
  BY <1>1 DEF CollectorInv, CollectorTypes, Cursors, Forward
<1> QED
  BY <1>2, <1>3, <1>4, <1>5 DEF CollectorInv

LEMMA CollectorRequest ==
    ASSUME CollectorInv, Request
    PROVE  CollectorInv' /\ Forward
<1>1. ASSUME NEW h \in Hosts, SyncHost(h)
      PROVE  CollectorInv' /\ Forward
  <2>1. UNCHANGED <<content, size, cursor, stored>>
    BY <1>1 DEF SyncHost
  <2>2. CASE host[h].enabled /\ ~Locked(h)
    <3>1. SyncAt("api", h, [at |-> "listing"]) /\ "api" \in Tasks
      BY <1>1, <2>2 DEF SyncHost, Tasks
    <3> QED
      BY <2>1, <2>2, <3>1, SyncGoesOnUnread
  <2>3. CASE ~(host[h].enabled /\ ~Locked(h))
    BY <1>1, <2>1, <2>3, CollectorUntouched DEF SyncHost
  <2> QED
    BY <2>2, <2>3
<1>2. \A h \in Hosts : AddHost(h) \/ UpdateHost(h) \/ ServerEnds(h)
          => UNCHANGED <<content, size, cursor, stored, sync>>
  BY DEF AddHost, UpdateHost, ServerEnds, quiet
<1>3. \A o \in Operators, h \in Hosts, at \in {"start", "stop", "delete", "test"} :
          Call(o, h, at) => UNCHANGED <<content, size, cursor, stored, sync>>
  BY DEF Call, quiet
<1>4. \A f \in Fingerprints : Resolve(f) => UNCHANGED <<content, size, cursor, stored, sync>>
  BY DEF Resolve, quiet
<1>5. PutSettings => UNCHANGED <<content, size, cursor, stored, sync>>
  BY DEF PutSettings, quiet
<1> QED
  BY <1>1, <1>2, <1>3, <1>4, <1>5, CollectorUntouched DEF Request

LEMMA CollectorNext ==
    ASSUME CollectorInv, [Next]_vars
    PROVE  CollectorInv' /\ Forward
<1>1. ASSUME NEW t \in Tasks, NEW h \in Hosts, CollectorStep(t, h)
      PROVE  CollectorInv' /\ Forward
  BY <1>1, SyncKeeps DEF CollectorStep
<1>2. CASE LoopStep
  <2>1. EndPoll => UNCHANGED <<content, size, cursor, stored, sync>>
    BY DEF EndPoll, world
  <2> QED
    BY <1>2, <2>1, PollKeeps, CollectorUntouched DEF LoopStep
<1>3. CASE World
  <2>1. \A h \in Hosts : Network(h) => UNCHANGED <<content, size, cursor, stored, sync>>
    BY DEF Network, syncVars
  <2> QED
    BY <1>3, <2>1, GrowKeeps, CollectorUntouched DEF World
<1>4. CASE ServerCrash
  BY <1>4, CollectorCrash DEF ServerCrash
<1>5. ASSUME NEW o \in Operators, CallStep(o)
      PROVE  CollectorInv' /\ Forward
  <2>1. UNCHANGED <<content, size, cursor, stored, sync>>
    BY <1>5 DEF CallStep, Command, Launch, Return, CallFails, quiet
  <2> QED
    BY <2>1, CollectorUntouched
<1>6. ASSUME NEW c \in Clients, Stream(c) \/ Deliver(c) \/ Fetch(c) \/ Arrive(c) \/ Fail(c)
      PROVE  CollectorInv' /\ Forward
  <2>1. UNCHANGED <<content, size, cursor, stored, sync>>
    BY <1>6 DEF Stream, Deliver, Fetch, Arrive, Fail, others, quiet
  <2> QED
    BY <2>1, CollectorUntouched
<1>7. CASE UNCHANGED vars
  <2>1. UNCHANGED <<content, size, cursor, stored, sync>>
    BY <1>7 DEF vars, hostVars
  <2> QED
    BY <2>1, CollectorUntouched
<1> QED
  BY <1>1, <1>2, <1>3, <1>4, <1>5, <1>6, <1>7, CollectorRequest DEF Next

LEMMA CollectorInitInv ==
    Init => CollectorInv
<1> SUFFICES ASSUME Init PROVE CollectorInv
  OBVIOUS
<1>1. size \in [Sources -> Nat]
  <2>1. \A s \in Sources : Len(content[s]) \in Nat
    BY ContentsAssumption DEF Init
  <2>2. UNION {0..2 * Len(content[s]) : s \in Sources} \subseteq Nat
    BY <2>1
  <2> QED
    BY <2>2 DEF Init
<1>2. CollectorTypes
  BY <1>1 DEF Init, CollectorTypes, Cursors, SyncStates
<1>3. ASSUME NEW s \in Sources
      PROVE  CursorFits(s) /\ Covered(s)
  <2>1. cursor[s] = [offset |-> 0, partial |-> 0] /\ size[s] \in Nat
    BY <1>1 DEF Init
  <2>2. CursorFits(s)
    BY <2>1 DEF CursorFits, Start
  <2>3. Covered(s)
    BY <2>1 DEF Covered, Whole, Lines, Start
  <2> QED
    BY <2>2, <2>3
<1>4. \A h \in Hosts : Exclusive(h) /\ \A t \in Tasks : Reads(t, h)
  BY DEF Init, Exclusive, Reads, Idle
<1> QED
  BY <1>2, <1>3, <1>4 DEF CollectorInv

----------------------------------------------------------------------------
\* What the collector relies on, whatever the server, the operators and the
\* hosts do in between (collector.py:150-273).
THEOREM CollectorIsSound ==
    Spec => []CollectorInv
<1>1. CollectorInv /\ [Next]_vars => CollectorInv'
  BY CollectorNext
<1> QED
  BY <1>1, CollectorInitInv, PTL DEF Spec

\* No line is passed over: what a cursor has left behind is in the database
\* (collector.py:190-208, 246-263).
THEOREM NothingIsPassedOver ==
    Spec => []NoLinePassedOver
<1>1. CollectorInv => NoLinePassedOver
  BY DEF CollectorInv, Covered, Start, NoLinePassedOver
<1> QED
  BY <1>1, CollectorIsSound, PTL

\* No step takes a cursor back (collector.py:232-235, 207).
THEOREM CursorsAdvance ==
    Spec => CursorAdvances
<1>1. CollectorInv /\ [Next]_vars
          => [\A s \in Sources : cursor[s].offset <= cursor'[s].offset]_vars
  BY CollectorNext DEF Forward
<1> QED
  BY <1>1, CollectorIsSound, PTL DEF Spec, CursorAdvances

----------------------------------------------------------------------------
(* Events and rows.                                                        *)

\* Stored events whose projection neither happened nor raised.
Unprojected(s) == {i \in stored[s] \ projected[s] : content[s][i] # "raise"}
AllUnprojected == UNION {{s} \X Unprojected(s) : s \in Sources}

RowsInv ==
    /\ stored \in [Sources -> SUBSET Nat] /\ projected \in [Sources -> SUBSET Nat]
    /\ \A s \in Sources : stored[s] \subseteq Lines(s) /\ projected[s] \subseteq stored[s]
    /\ crashes \in Nat
    /\ IsFiniteSet(AllUnprojected) /\ Cardinality(AllUnprojected) <= crashes

LEMMA RowsUntouched ==
    ASSUME RowsInv, UNCHANGED <<content, stored, projected, crashes>>
    PROVE  RowsInv'
<1>1. AllUnprojected' = AllUnprojected
  BY DEF AllUnprojected, Unprojected
<1> QED
  BY <1>1 DEF RowsInv, Lines

\* What a read takes are lines of its source.
LEMMA TakenAreLines ==
    ASSUME NEW s \in Sources, NEW at, NEW amount, NEW taken, taken = Taken(s, at, amount)
    PROVE  /\ taken.new \subseteq Lines(s) /\ taken.stuck \subseteq Lines(s)
           /\ \A i \in taken.stuck : content[s][i] = "raise"
           /\ Lines(s) \subseteq Nat
BY DEF Taken, Whole, Lines

\* A read that is consumed leaves nothing behind but a line that raises.
LEMMA StoreKeepsRows ==
    ASSUME RowsInv, NEW s \in Sources, NEW at, NEW amount,
           NEW taken, taken = Taken(s, at, amount), Store(s, taken),
           UNCHANGED <<content, crashes>>
    PROVE  RowsInv'
<1>1. /\ taken.new \subseteq Lines(s) /\ taken.stuck \subseteq Lines(s)
      /\ \A i \in taken.stuck : content[s][i] = "raise"
      /\ Lines(s) \subseteq Nat
  BY TakenAreLines
<1>2. /\ stored' = [stored EXCEPT ![s] = @ \cup taken.new \cup taken.stuck]
      /\ projected' = [projected EXCEPT ![s] = @ \cup taken.new]
  BY DEF Store
<1>3. /\ stored' \in [Sources -> SUBSET Nat] /\ projected' \in [Sources -> SUBSET Nat]
      /\ stored'[s] = stored[s] \cup taken.new \cup taken.stuck
      /\ projected'[s] = projected[s] \cup taken.new
      /\ \A r \in Sources : r # s => stored'[r] = stored[r] /\ projected'[r] = projected[r]
  BY <1>1, <1>2 DEF RowsInv
<1>4. \A r \in Sources : stored'[r] \subseteq Lines(r)' /\ projected'[r] \subseteq stored'[r]
  BY <1>1, <1>3 DEF RowsInv, Lines
<1>5. \A r \in Sources : Unprojected(r)' \subseteq Unprojected(r)
  BY <1>1, <1>3 DEF Unprojected
<1>6. AllUnprojected' \in SUBSET AllUnprojected
  BY <1>5 DEF AllUnprojected
<1>7. /\ IsFiniteSet(AllUnprojected') /\ Cardinality(AllUnprojected') \in Nat
      /\ Cardinality(AllUnprojected) \in Nat
      /\ Cardinality(AllUnprojected') <= Cardinality(AllUnprojected)
  BY <1>6, FS_Subset, FS_CardinalityType DEF RowsInv
<1> QED
  BY <1>3, <1>4, <1>7 DEF RowsInv

\* A crash within a read leaves behind the one line it was at.
LEMMA TornKeepsRows ==
    ASSUME RowsInv, NEW s \in Sources, NEW at, NEW amount, Torn(s, Taken(s, at, amount)),
           UNCHANGED content, crashes' = crashes + 1
    PROVE  RowsInv'
<1>0. PICK taken : taken = Taken(s, at, amount)
  OBVIOUS
<1>1. /\ taken.new \subseteq Lines(s) /\ taken.stuck \subseteq Lines(s)
      /\ \A i \in taken.stuck : content[s][i] = "raise"
      /\ Lines(s) \subseteq Nat
  BY <1>0, TakenAreLines
<1>2. PICK stop \in Lines(s) \cup {0}, whole \in BOOLEAN :
          /\ stored' = [stored EXCEPT ![s] = @ \cup {i \in taken.new \cup taken.stuck : i <= stop}]
          /\ projected' = [projected EXCEPT
                ![s] = @ \cup {i \in taken.new : i < stop \/ (whole /\ i = stop)}]
  BY <1>0 DEF Torn
<1>3. /\ stored' \in [Sources -> SUBSET Nat] /\ projected' \in [Sources -> SUBSET Nat]
      /\ stored'[s] = stored[s] \cup {i \in taken.new \cup taken.stuck : i <= stop}
      /\ projected'[s] = projected[s] \cup {i \in taken.new : i < stop \/ (whole /\ i = stop)}
      /\ \A r \in Sources : r # s => stored'[r] = stored[r] /\ projected'[r] = projected[r]
  BY <1>1, <1>2 DEF RowsInv
<1>4. stop \in Nat
  BY <1>1
<1>5. \A r \in Sources : stored'[r] \subseteq Lines(r)' /\ projected'[r] \subseteq stored'[r]
  <2>1. \A i \in taken.new : i < stop \/ (whole /\ i = stop) => i <= stop
    BY <1>1, <1>4
  <2> QED
    BY <1>1, <1>3, <2>1 DEF RowsInv, Lines
<1>6. \A r \in Sources : Unprojected(r)' \subseteq Unprojected(r) \cup IF r = s THEN {stop} ELSE {}
  <2>1. \A i \in taken.new : i <= stop => i < stop \/ i = stop
    BY <1>1, <1>4
  <2>2. Unprojected(s)' \subseteq Unprojected(s) \cup {stop}
    BY <1>1, <1>3, <2>1 DEF Unprojected
  <2>3. \A r \in Sources : r # s => Unprojected(r)' = Unprojected(r)
    BY <1>3 DEF Unprojected
  <2> QED
    BY <2>2, <2>3
<1>7. AllUnprojected' \in SUBSET (AllUnprojected \cup {<<s, stop>>})
  BY <1>6 DEF AllUnprojected
<1>8. /\ IsFiniteSet(AllUnprojected \cup {<<s, stop>>})
      /\ Cardinality(AllUnprojected) \in Nat
      /\ Cardinality(AllUnprojected \cup {<<s, stop>>}) \in Nat
      /\ Cardinality(AllUnprojected \cup {<<s, stop>>}) <= Cardinality(AllUnprojected) + 1
  <2>1. IsFiniteSet(AllUnprojected) /\ Cardinality(AllUnprojected) \in Nat
    BY FS_CardinalityType DEF RowsInv
  <2>2. /\ IsFiniteSet(AllUnprojected \cup {<<s, stop>>})
        /\ Cardinality(AllUnprojected \cup {<<s, stop>>}) =
              IF <<s, stop>> \in AllUnprojected THEN Cardinality(AllUnprojected)
              ELSE Cardinality(AllUnprojected) + 1
    BY <2>1, FS_AddElement, Zenon
  <2> QED
    BY <2>1, <2>2
<1>9. /\ IsFiniteSet(AllUnprojected') /\ Cardinality(AllUnprojected') \in Nat
      /\ Cardinality(AllUnprojected') <= Cardinality(AllUnprojected \cup {<<s, stop>>})
  BY <1>7, <1>8, FS_Subset, FS_CardinalityType
<1>10. crashes' \in Nat /\ Cardinality(AllUnprojected') <= crashes'
  BY <1>8, <1>9 DEF RowsInv
<1> QED
  BY <1>3, <1>5, <1>9, <1>10 DEF RowsInv

LEMMA RowsNext ==
    ASSUME RowsInv, [Next]_vars
    PROVE  RowsInv'
<1>s. Local \in Sources /\ \A h \in Hosts : h \in Sources
  BY DEF Sources
<1>1. ASSUME NEW t \in Tasks, NEW h \in Hosts, CollectorStep(t, h)
      PROVE  RowsInv'
  <2>1. CASE Fetched(t, h)
    <3>1. PICK taken \in {Taken(h, sync[t][h].from, sync[t][h].amount)} : Store(h, taken)
      BY <2>1 DEF Fetched
    <3>2. UNCHANGED <<content, crashes>>
      BY <2>1 DEF Fetched
    <3> QED
      BY <1>s, <3>1, <3>2, StoreKeepsRows
  <2>2. CASE Listed(t, h) \/ Probed(t, h) \/ SyncFails(t, h)
    BY <2>2, RowsUntouched DEF Listed, Probed, SyncFails
  <2> QED
    BY <1>1, <2>1, <2>2 DEF CollectorStep, SyncStep
<1>2. CASE Poll
  <2>1. PICK taken \in {Taken(Local, Resume(Local, size[Local]), Amount(Local, size[Local]))} :
            Store(Local, taken)
    BY <1>2 DEF Poll
  <2>2. UNCHANGED <<content, crashes>>
    BY <1>2 DEF Poll
  <2> QED
    BY <1>s, <2>1, <2>2, StoreKeepsRows
<1>3. CASE Crash
  <2>1. UNCHANGED content /\ crashes' = crashes + 1
    BY <1>3 DEF Crash
  <2>2. CASE UNCHANGED <<stored, projected>>
    <3>1. AllUnprojected' = AllUnprojected
      BY <2>1, <2>2 DEF AllUnprojected, Unprojected
    <3>2. Cardinality(AllUnprojected) \in Nat
      BY FS_CardinalityType DEF RowsInv
    <3> QED
      BY <2>1, <2>2, <3>1, <3>2 DEF RowsInv, Lines
  <2>3. CASE Torn(Local, Taken(Local, Resume(Local, size[Local]), Amount(Local, size[Local])))
    BY <1>s, <2>1, <2>3, TornKeepsRows
  <2>4. ASSUME NEW t \in Tasks, NEW h \in Hosts,
               Torn(h, Taken(h, sync[t][h].from, sync[t][h].amount))
        PROVE  RowsInv'
    BY <1>s, <2>1, <2>4, TornKeepsRows
  <2> QED
    BY <1>3, <2>2, <2>3, <2>4 DEF Crash
<1>4. CASE EndPoll \/ World \/ Request
  <2>1. UNCHANGED <<content, stored, projected, crashes>>
    BY <1>4 DEF EndPoll, World, Grow, Network, syncVars, Request, AddHost, UpdateHost, SyncHost,
                ServerEnds, Call, Resolve, PutSettings, quiet
  <2> QED
    BY <2>1, RowsUntouched
<1>5. ASSUME NEW o \in Operators, CallStep(o)
      PROVE  RowsInv'
  BY <1>5, RowsUntouched DEF CallStep, Command, Launch, Return, CallFails, quiet
<1>6. ASSUME NEW c \in Clients, Stream(c) \/ Deliver(c) \/ Fetch(c) \/ Arrive(c) \/ Fail(c)
      PROVE  RowsInv'
  BY <1>6, RowsUntouched DEF Stream, Deliver, Fetch, Arrive, Fail, others, quiet
<1>7. CASE UNCHANGED vars
  BY <1>7, RowsUntouched DEF vars, hostVars
<1> QED
  BY <1>1, <1>2, <1>3, <1>4, <1>5, <1>6, <1>7 DEF Next, LoopStep, ServerCrash

LEMMA RowsInitInv ==
    Init => RowsInv
<1> SUFFICES ASSUME Init PROVE RowsInv
  OBVIOUS
<1>1. AllUnprojected = {}
  BY DEF Init, AllUnprojected, Unprojected
<1> QED
  BY <1>1, FS_EmptySet DEF Init, RowsInv

\* An event that is stored is in its session's row, but for those whose projection
\* raised and one of each crash, for any number of hosts and crashes.
THEOREM StoredAreProjected ==
    Spec => []StoredIsProjected
<1>1. RowsInv => StoredIsProjected
  BY DEF RowsInv, AllUnprojected, Unprojected, StoredIsProjected
<1>2. RowsInv /\ [Next]_vars => RowsInv'
  BY RowsNext
<1> QED
  BY <1>1, <1>2, RowsInitInv, PTL DEF Spec

----------------------------------------------------------------------------
(* The event bus.                                                          *)

\* Every source may write.
LEMMA SourcesWrite ==
    Local \in Writers /\ Hosts \subseteq Writers
<1> QED
  BY ContentsAssumption DEF Sources

\* A sync changes data, announces it, does both, or neither.
LEMMA SyncIsBusStep ==
    ASSUME NEW t \in Tasks, NEW h \in Hosts, SyncStep(t, h)
    PROVE  BusNext \/ UNCHANGED busVars
<1>w. h \in Writers
  BY SourcesWrite
<1>1. ASSUME NEW news \in BOOLEAN, Offline(t, h, news)
      PROVE  BusNext
  BY <1>w, <1>1 DEF Offline, BusNext
<1>2. CASE Listed(t, h)
  BY <1>2 DEF Listed
<1>3. CASE Fetched(t, h)
  <2>1. PICK taken \in {Taken(h, sync[t][h].from, sync[t][h].amount)} :
            IF taken.raised
            THEN Offline(t, h, taken.new \cup taken.stuck # {})
            ELSE IF taken.new # {} THEN Change(h) ELSE UNCHANGED busVars
    BY <1>3 DEF Fetched
  <2> QED
    BY <1>w, <1>1, <2>1 DEF BusNext
<1>4. CASE Probed(t, h)
  BY <1>w, <1>4 DEF Probed, BusNext
<1>5. CASE SyncFails(t, h)
  BY <1>1, <1>5 DEF SyncFails
<1> QED
  BY <1>2, <1>3, <1>4, <1>5 DEF SyncStep

\* So does a poll, for this machine's rollout.
LEMMA LoopIsBusStep ==
    ASSUME Poll \/ EndPoll
    PROVE  BusNext \/ UNCHANGED busVars
<1>1. CASE Poll
  <2>1. PICK taken \in {Taken(Local, Resume(Local, size[Local]), Amount(Local, size[Local]))} :
            IF taken.new \cup taken.stuck # {} THEN ChangeAndAnnounce(Local)
            ELSE IF taken.raised THEN Announce(Local) ELSE UNCHANGED busVars
    BY <1>1 DEF Poll
  <2> QED
    BY <2>1, SourcesWrite DEF BusNext
<1>2. CASE EndPoll
  BY <1>2 DEF EndPoll
<1> QED
  BY <1>1, <1>2

\* A request saves what it changes and publishes it at once, or changes nothing.
LEMMA RequestIsBusStep ==
    ASSUME Request
    PROVE  BusNext \/ UNCHANGED busVars
<1>s. Save => BusNext
  BY SourcesWrite DEF Save, BusNext
<1>1. ASSUME NEW h \in Hosts, AddHost(h) \/ UpdateHost(h) \/ SyncHost(h) \/ ServerEnds(h)
      PROVE  BusNext \/ UNCHANGED busVars
  BY <1>s, <1>1 DEF AddHost, UpdateHost, SyncHost, ServerEnds
<1>2. ASSUME NEW o \in Operators, NEW h \in Hosts,
             NEW at \in {"start", "stop", "delete", "test"}, Call(o, h, at)
      PROVE  BusNext \/ UNCHANGED busVars
  BY <1>s, <1>2 DEF Call
<1>3. ASSUME NEW f \in Fingerprints, Resolve(f)
      PROVE  BusNext
  BY <1>s, <1>3 DEF Resolve
<1>4. CASE PutSettings
  BY <1>4, SourcesWrite DEF PutSettings, BusNext
<1> QED
  BY <1>1, <1>2, <1>3, <1>4 DEF Request

LEMMA CallStepIsBusStep ==
    ASSUME NEW o \in Operators, CallStep(o)
    PROVE  BusNext \/ UNCHANGED busVars
<1>s. Save => BusNext
  BY SourcesWrite DEF Save, BusNext
<1>1. CASE Command(o)
  BY <1>1 DEF Command
<1>2. CASE Launch(o)
  BY <1>2 DEF Launch
<1>3. CASE Return(o)
  BY <1>s, <1>3 DEF Return
<1>4. CASE CallFails(o)
  BY <1>s, <1>4 DEF CallFails
<1> QED
  BY <1>1, <1>2, <1>3, <1>4 DEF CallStep

\* Every step of the control center is a step of the bus, or leaves it alone.
LEMMA StepIsBusStep ==
    [Next]_vars => [BusNext]_busVars
<1> SUFFICES ASSUME [Next]_vars
             PROVE  BusNext \/ UNCHANGED busVars
  OBVIOUS
<1>1. ASSUME NEW t \in Tasks, NEW h \in Hosts, CollectorStep(t, h)
      PROVE  BusNext \/ UNCHANGED busVars
  BY <1>1, SyncIsBusStep DEF CollectorStep
<1>2. CASE LoopStep
  BY <1>2, LoopIsBusStep DEF LoopStep
<1>3. CASE World
  BY <1>3 DEF World, Grow, Network
<1>4. CASE ServerCrash
  BY <1>4 DEF ServerCrash, Crash, BusNext
<1>5. CASE Request
  BY <1>5, RequestIsBusStep
<1>6. ASSUME NEW o \in Operators, CallStep(o)
      PROVE  BusNext \/ UNCHANGED busVars
  BY <1>6, CallStepIsBusStep
<1>7. ASSUME NEW c \in Clients, Stream(c) \/ Deliver(c) \/ Fetch(c) \/ Arrive(c) \/ Fail(c)
      PROVE  BusNext
  BY <1>7 DEF Stream, Deliver, Fetch, Arrive, Fail, BusNext, PageStep
<1>8. CASE UNCHANGED vars
  BY <1>8 DEF vars
<1> QED
  BY <1>1, <1>2, <1>3, <1>4, <1>5, <1>6, <1>7, <1>8 DEF Next

\* Refinement: the control center, with everything it does, is an event bus.
THEOREM ImplementsBus ==
    Spec => BusSpec
<1>1. Init => BusInit
  BY DEF Init
<1> QED
  BY <1>1, StepIsBusStep, PTL DEF Spec, BusSpec

\* The control center forgets no page that is behind, unless its last fetch, its
\* connection or an overtaken answer left it behind, for any hosts, operators,
\* pages and capacity.
THEOREM ControlCenterServesPages ==
    Spec => []NoPageForgotten
<1> QED
  BY ImplementsBus, PagesAreServed, PTL

\* No page of the control center loses a message without a notice of it.
THEOREM ControlCenterMarksLosses ==
    Spec => []LossIsMarked
<1> QED
  BY ImplementsBus, LossesAreMarked, PTL

----------------------------------------------------------------------------
(* Types.                                                                  *)

\* What no other invariant says of the variables.
WorldInv ==
    /\ alert \in [Fingerprints -> {"none", "open", "closed"}]
    /\ up \subseteq Hosts /\ loop \in {"waiting", "gathering"}
    /\ moves \in Nat /\ crashes \in Nat /\ moves + crashes <= MaxMoves
    /\ \A h \in Hosts : told[h] \subseteq alive[h] /\ alive[h] \subseteq 1..launched[h]

\* A step that takes a move, or none.
LEMMA WorldMoves ==
    ASSUME WorldInv, crashes' = crashes, Move \/ moves' = moves
    PROVE  moves' \in Nat /\ crashes' \in Nat /\ moves' + crashes' <= MaxMoves
BY ContentsAssumption DEF WorldInv, Move

LEMMA RaisedTypes ==
    ASSUME WorldInv, NEW fingerprints, alert' = Raised(fingerprints)
    PROVE  alert' \in [Fingerprints -> {"none", "open", "closed"}]
BY DEF WorldInv, Raised

LEMMA WorldUntouched ==
    ASSUME WorldInv, UNCHANGED <<alert, up, loop, crashes, alive, told, launched>>,
           Move \/ moves' = moves
    PROVE  WorldInv'
BY WorldMoves DEF WorldInv

LEMMA CollectorWorld ==
    ASSUME WorldInv, \/ \E t \in Tasks, h \in Hosts : CollectorStep(t, h)
                     \/ LoopStep
    PROVE  WorldInv'
<1>1. UNCHANGED <<up, moves, crashes, alive, told, launched>>
  BY DEF CollectorStep, SyncStep, Listed, Fetched, Probed, SyncFails, LoopStep, Poll, EndPoll,
         world, serverVars
<1>2. ASSUME NEW t \in Tasks, NEW h \in Hosts, SyncStep(t, h)
      PROVE  /\ loop' = loop
             /\ alert' = alert \/ \E fingerprints : alert' = Raised(fingerprints)
  <2>1. loop' = loop
    BY <1>2 DEF SyncStep, Listed, Fetched, Probed, SyncFails
  <2>2. ASSUME NEW news, Offline(t, h, news)
        PROVE  \E fingerprints : alert' = Raised(fingerprints)
    BY <2>2 DEF Offline
  <2>3. CASE Fetched(t, h)
    <3>1. \/ alert' = alert
          \/ \E news : Offline(t, h, news)
      BY <2>3 DEF Fetched
    <3> QED
      BY <2>1, <2>2, <3>1
  <2> QED
    BY <1>2, <2>1, <2>2, <2>3 DEF SyncStep, Listed, Probed, SyncFails
<1>3. Poll => alert' = alert /\ loop' \in {loop, "gathering"}
  BY DEF Poll
<1>4. EndPoll => loop' = "waiting" /\ alert' = Raised(Causes)
  BY DEF EndPoll, Evaluate
<1> QED
  BY <1>1, <1>2, <1>3, <1>4, RaisedTypes DEF CollectorStep, LoopStep, WorldInv

LEMMA RequestWorld ==
    ASSUME WorldInv, ServerTypes, Request
    PROVE  WorldInv'
<1>1. ASSUME NEW h \in Hosts, AddHost(h) \/ UpdateHost(h)
      PROVE  WorldInv'
  BY <1>1, WorldUntouched DEF AddHost, UpdateHost, quiet, serverVars
<1>2. ASSUME NEW h \in Hosts, SyncHost(h)
      PROVE  WorldInv'
  BY <1>2, WorldMoves, RaisedTypes DEF SyncHost, Evaluate, serverVars, WorldInv
<1>3. ASSUME NEW h \in Hosts, ServerEnds(h)
      PROVE  WorldInv'
  <2>1. \A g \in Hosts : told'[g] \subseteq alive'[g] /\ alive'[g] \subseteq alive[g]
    BY <1>3 DEF ServerEnds, ServerTypes, WorldInv
  <2> QED
    BY <1>3, <2>1, WorldMoves DEF ServerEnds, quiet, WorldInv
<1>4. ASSUME NEW o \in Operators, NEW h \in Hosts,
             NEW at \in {"start", "stop", "delete", "test"}, Call(o, h, at)
      PROVE  WorldInv'
  BY <1>4, WorldUntouched DEF Call, quiet, serverVars
<1>5. ASSUME NEW f \in Fingerprints, Resolve(f)
      PROVE  WorldInv'
  <2>1. alert' \in [Fingerprints -> {"none", "open", "closed"}]
    BY <1>5 DEF Resolve, WorldInv
  <2> QED
    BY <1>5, <2>1, WorldMoves DEF Resolve, quiet, serverVars, WorldInv
<1>6. CASE PutSettings
  BY <1>6, WorldUntouched DEF PutSettings, quiet, serverVars
<1> QED
  BY <1>1, <1>2, <1>3, <1>4, <1>5, <1>6 DEF Request

LEMMA CallWorld ==
    ASSUME WorldInv, ServerTypes, NEW o \in Operators, CallStep(o)
    PROVE  WorldInv'
<1>1. UNCHANGED <<alert, up, loop, moves, crashes>>
  BY DEF CallStep, Command, Launch, Return, CallFails, quiet
<1>2. PICK h \in Hosts : h = call[o].host
  <2>1. call[o] # Unused
    BY DEF CallStep, Command, Launch, Return, CallFails, Unused
  <2> QED
    BY <2>1, CallShape
<1>3. CASE Launch(o)
  <2>1. /\ launched' = [launched EXCEPT ![h] = launched[h] + 1]
        /\ alive' = [alive EXCEPT ![h] = @ \cup {launched[h] + 1}] /\ told' = told
    BY <1>2, <1>3 DEF Launch
  <2>2. launched[h] \in Nat /\ 1..launched[h] \cup {launched[h] + 1} \subseteq 1..(launched[h] + 1)
    BY DEF ServerTypes
  <2>3. \A g \in Hosts : told'[g] \subseteq alive'[g] /\ alive'[g] \subseteq 1..launched'[g]
    BY <2>1, <2>2 DEF ServerTypes, WorldInv
  <2> QED
    BY <1>1, <2>3 DEF WorldInv
<1>4. CASE Command(o)
  <2>1. /\ launched' = launched /\ alive' = alive
        /\ \/ told' = told
           \/ told' = [told EXCEPT ![h] = @ \cup ({pidfile[h]} \cap alive[h])]
    BY <1>2, <1>4 DEF Command
  <2>2. \A g \in Hosts : told'[g] \subseteq alive[g]
    BY <2>1 DEF ServerTypes, WorldInv
  <2> QED
    BY <1>1, <2>1, <2>2 DEF WorldInv
<1>5. CASE Return(o) \/ CallFails(o)
  BY <1>1, <1>5 DEF Return, CallFails, serverVars, WorldInv
<1> QED
  BY <1>3, <1>4, <1>5 DEF CallStep

LEMMA WorldNext ==
    ASSUME WorldInv, ServerTypes, [Next]_vars
    PROVE  WorldInv'
<1>1. CASE World
  <2>1. UNCHANGED <<alert, loop, crashes, alive, told, launched>> /\ Move
    BY <1>1 DEF World, Grow, Network, syncVars, serverVars
  <2>2. up' \subseteq Hosts
    BY <1>1 DEF World, Grow, Network, WorldInv
  <2> QED
    BY <2>1, <2>2, WorldMoves DEF WorldInv
<1>2. CASE ServerCrash
  <2>1. UNCHANGED <<alert, up, alive, told, launched>> /\ loop' = "waiting"
    BY <1>2 DEF ServerCrash, Crash, serverVars
  <2>2. moves' \in Nat /\ crashes' \in Nat /\ moves' + crashes' <= MaxMoves
    BY <1>2, ContentsAssumption DEF ServerCrash, Crash, Move, WorldInv
  <2> QED
    BY <2>1, <2>2 DEF WorldInv
<1>3. ASSUME NEW c \in Clients, Stream(c) \/ Deliver(c) \/ Arrive(c) \/ Fail(c)
      PROVE  WorldInv'
  BY <1>3, WorldUntouched DEF Stream, Deliver, Arrive, Fail, others, quiet, serverVars
<1>4. ASSUME NEW c \in Clients, Fetch(c)
      PROVE  WorldInv'
  BY <1>4, RaisedTypes DEF Fetch, Evaluate, quiet, serverVars, WorldInv
<1>5. CASE UNCHANGED vars
  BY <1>5, WorldUntouched DEF vars, hostVars, serverVars
<1> QED
  BY <1>1, <1>2, <1>3, <1>4, <1>5, CollectorWorld, RequestWorld, CallWorld DEF Next

LEMMA WorldInitInv ==
    Init => WorldInv
BY ContentsAssumption DEF Init, WorldInv

\* Every variable of the control center keeps its type: the queues stay within
\* their capacity, the rows are of lines that exist and the app servers that run
\* are ones it has launched (db.py:30-114, api.py:33-34).
THEOREM ControlCenterTypeCorrect ==
    Spec => []TypeOK
<1>1. CollectorInv /\ RowsInv /\ ServerInv /\ WorldInv /\ [Next]_vars
          => CollectorInv' /\ RowsInv' /\ ServerInv' /\ WorldInv'
  BY CollectorNext, RowsNext, ServerStepKeepsInv, WorldNext DEF ServerInv
<1>2. CollectorInv /\ RowsInv /\ ServerInv /\ WorldInv /\ BusTypeOK => TypeOK
  <2> SUFFICES ASSUME CollectorInv, RowsInv, ServerInv, WorldInv, BusTypeOK
               PROVE  TypeOK
    OBVIOUS
  <2>1. /\ content \in Contents /\ size \in [Sources -> Nat]
        /\ cursor \in [Sources -> [offset : Nat, partial : Nat]]
        /\ \A t \in Tasks : sync[t] \in [Hosts -> SyncStates]
    BY DEF CollectorInv, CollectorTypes, Cursors
  <2>2. \A s \in Sources : stored[s] \subseteq Lines(s) /\ projected[s] \subseteq stored[s]
    BY DEF RowsInv
  <2>3. /\ host \in [Hosts -> [row : {"absent", "present", "deleted"}, enabled : BOOLEAN,
                                status : {"unknown", "online", "offline"}, pid : Nat]]
        /\ pidfile \in [Hosts -> Nat] /\ launched \in [Hosts -> Nat]
    BY DEF ServerInv, ServerTypes, HostRows
  <2>4. moves \in 0..MaxMoves /\ crashes \in 0..MaxMoves
    BY ContentsAssumption DEF WorldInv
  <2> QED
    BY <2>1, <2>2, <2>3, <2>4 DEF TypeOK, WorldInv
<1> QED
  BY <1>1, <1>2, CollectorInitInv, RowsInitInv, ServerInitInv, WorldInitInv,
     ImplementsBus, BusTypeCorrect, PTL DEF Spec

=============================================================================
