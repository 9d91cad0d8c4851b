------------------------ MODULE IngestThreads_proofs ------------------------
(***************************************************************************)
(* Proofs about the threads that ingest, for any threads, logs, calls and     *)
(* bounds: no line is passed over; with one collector beside the reader of a   *)
(* managed process, a completed task is shown completed and keeps no demand;   *)
(* and calls that do not overlap implement the abstract engine.              *)
(*                                                                         *)
(* A call that is entering has still to insert its line's source id; after    *)
(* that its operations are plain.  The last line's call is followed place by  *)
(* place, because each thread does it in the middle of the other's.         *)
(***************************************************************************)
EXTENDS IngestThreads, FiniteSetTheorems, SequenceTheorems, TLAPS

Lags == 0..MaxAge
CommandStates == {"ABSENT", "RUNNING", "ENDED"}

PlainWrites ==
    [write : {"upsert", "resolve"}, arg : AlertKeys]
    \cup [write : {"status"}, arg : Statuses]
    \cup [write : {"attention"}, arg : AlertKeys \cup {NoAlert}]
    \cup [write : {"test"}, arg : {"PASSED", "FAILED"}]
    \cup [write : {"started"}, arg : {0}]
    \cup [write : {"command"}, arg : Calls, to : CommandStates, lag : Lags]

Asks ==
    [ask : {"metadata", "started", "turn-completed", "user-message", "command-good",
            "tests", "operational", "refresh", "verdict", "commands"}]
    \cup [ask : {"set-status"}, to : Statuses]
    \cup [ask : {"output"}, call : Calls, lag : Lags]
    \cup [ask : {"exit"}, how : {"cancelled", "success", "failure"}]

PlainOps == PlainWrites \cup Asks

EnsureOp(lag) == [write |-> "ensure", lag |-> lag]
InsertOp(t, n, lag) == [write |-> "insert", lag |-> lag, id |-> SourceId(t, n)]

\* What a call for line n of thread t has to do after ensure_session, and before.
Ensured(t, n, Rests) == {<<InsertOp(t, n, lag)>> \o rest : lag \in Lags, rest \in Rests}
Begun(t, n, Rests) == {<<EnsureOp(lag)>> \o rest : lag \in Lags, rest \in Ensured(t, n, Rests)}
Entering(t, n) == Begun(t, n, Seq(PlainOps)) \cup Ensured(t, n, Seq(PlainOps))

ThreadTypes ==
    /\ log \in Logs
    /\ session \in Session
    /\ stored \subseteq {"count", "position"} \X Nat
    /\ taken \in [Threads -> Nat] /\ \A t \in Threads : taken[t] <= Len(log)
    /\ DOMAIN todo = Threads
    /\ \A t \in Threads : todo[t] \in Seq(PlainOps) \cup Entering(t, taken[t])
    /\ crashes \in Nat

\* What a thread has taken up is stored, but for the line it is entering.
LinesStored ==
    \A t \in Threads \ {Reader} : \A n \in 1..taken[t] :
        SourceId(t, n) \in stored \/ (n = taken[t] /\ todo[t] \in Entering(t, n))

ThreadsInv == ThreadTypes /\ LinesStored

----------------------------------------------------------------------------
(* The transactions keep a row a row.                                      *)

\* Some open alert is worst.
LEMMA TopIsKey ==
    ASSUME NEW s \in Session
    PROVE  Top(s) \in AlertKeys \cup {NoAlert}
<1>1. CASE OpenAlerts(s) = {}
  BY <1>1 DEF Top
<1>2. CASE OpenAlerts(s) # {}
  <2>1. \A k \in OpenAlerts(s) : k \in AlertKeys /\ Rank(s, k) \in {2, 3, 4}
    BY DEF OpenAlerts, Rank
  <2>2. \E k \in OpenAlerts(s) : \A j \in OpenAlerts(s) : Rank(s, j) <= Rank(s, k)
    <3>1. CASE \E k \in OpenAlerts(s) : Rank(s, k) = 4
      BY <2>1, <3>1
    <3>2. CASE /\ \A k \in OpenAlerts(s) : Rank(s, k) # 4
               /\ \E k \in OpenAlerts(s) : Rank(s, k) = 3
      BY <2>1, <3>2
    <3>3. CASE \A k \in OpenAlerts(s) : Rank(s, k) = 2
      BY <1>2, <3>3
    <3> QED
      BY <2>1, <3>1, <3>2, <3>3
  <2> QED
    BY <1>2, <2>1, <2>2 DEF Top
<1> QED
  BY <1>1, <1>2

\* resolve_alert closes its alert, opens none and leaves the status.
LEMMA ResolveRow ==
    ASSUME NEW s \in Session, NEW k \in AlertKeys
    PROVE  /\ Resolve(s, k) \in Session /\ Resolve(s, k).status = s.status
           /\ OpenAlerts(Resolve(s, k)) = OpenAlerts(s) \ {k}
<1> DEFINE m == [s EXCEPT !.alerts = [j \in AlertKeys |->
                    IF j \in {k} /\ @[j] # "ABSENT" THEN "RESOLVED" ELSE @[j]]]
<1>1. /\ m \in Session /\ m.status = s.status
      /\ \A j \in AlertKeys : m.alerts[j] =
            IF j \in {k} /\ s.alerts[j] # "ABSENT" THEN "RESOLVED" ELSE s.alerts[j]
  BY DEF Session, AlertStates
<1>2. Resolve(s, k) = [m EXCEPT !.attention = Top(m)]
  BY DEF Resolve, ResolveAll
<1> HIDE DEF m
<1>3. /\ Resolve(s, k) \in Session /\ Resolve(s, k).status = s.status
      /\ Resolve(s, k).alerts = m.alerts
  BY <1>1, <1>2, TopIsKey DEF Session
<1> QED
  BY <1>1, <1>3 DEF OpenAlerts

LEMMA UpsertRow ==
    ASSUME NEW s \in Session, NEW k \in AlertKeys
    PROVE  /\ Upsert(s, k) \in Session /\ Upsert(s, k).status = s.status
           /\ OpenAlerts(Upsert(s, k)) = OpenAlerts(s) \cup {k}
BY DEF Upsert, Session, AlertStates, OpenAlerts

LEMMA OtherWrites ==
    ASSUME NEW s \in Session, NEW op \in PlainWrites,
           op.write \in {"attention", "test", "command"}
    PROVE  /\ Apply(op, s) \in Session /\ Apply(op, s).status = s.status
           /\ OpenAlerts(Apply(op, s)) = OpenAlerts(s)
<1>1. CASE op.write = "attention"
  <2>1. Apply(op, s) = [s EXCEPT !.attention = op.arg] /\ op.arg \in AlertKeys \cup {NoAlert}
    BY <1>1 DEF Apply, PlainWrites
  <2> QED
    BY <2>1 DEF Session, OpenAlerts
<1>2. CASE op.write = "test"
  <2>1. Apply(op, s) = AddTestRun(s, op.arg)
    BY <1>2 DEF Apply
  <2> QED
    BY <2>1 DEF Session, OpenAlerts, AddTestRun
<1>3. CASE op.write = "command"
  <2>1. Apply(op, s) = UpsertCommand(s, op.arg, op.to, op.lag)
    BY <1>3 DEF Apply
  <2>2. op.arg \in Calls /\ op.to \in CommandStates /\ op.lag \in Lags
    BY <1>3 DEF PlainWrites
  <2>3. ASSUME NEW c \in Calls, NEW to \in CommandStates, NEW lag \in Lags
        PROVE  LET r == UpsertCommand(s, c, to, lag)
               IN  r \in Session /\ r.status = s.status /\ r.alerts = s.alerts
    BY DEF UpsertCommand, Session, CommandStates, Lags
  <2> QED
    BY <2>1, <2>2, <2>3 DEF OpenAlerts
<1> QED
  BY <1>1, <1>2, <1>3

LEMMA StatusWrite ==
    ASSUME NEW s \in Session, NEW op \in PlainWrites, op.write = "status"
    PROVE  /\ Apply(op, s) \in Session /\ Apply(op, s).status = op.arg
           /\ OpenAlerts(Apply(op, s)) = OpenAlerts(s)
<1>1. Apply(op, s) = [s EXCEPT !.status = op.arg] /\ op.arg \in Statuses
  BY DEF Apply, PlainWrites
<1> QED
  BY <1>1 DEF Session, OpenAlerts

LEMMA EntryWrite ==
    ASSUME NEW s \in Session, NEW op, op.write \in {"ensure", "insert"}, op.lag \in Lags
    PROVE  /\ Apply(op, s) \in Session /\ Apply(op, s).status = s.status
           /\ OpenAlerts(Apply(op, s)) = OpenAlerts(s)
<1>1. Apply(op, s) = [s EXCEPT !.age = op.lag]
  BY DEF Apply, Seen
<1> QED
  BY <1>1 DEF Session, OpenAlerts, Lags

LEMMA WritesKeepRow ==
    ASSUME NEW s \in Session, NEW op \in PlainWrites
    PROVE  Apply(op, s) \in Session
<1>1. CASE op.write \in {"attention", "test", "command"}
  BY <1>1, OtherWrites
<1>2. CASE op.write = "status"
  BY <1>2, StatusWrite
<1>3. CASE op.write \in {"upsert", "resolve"}
  <2>1. op.arg \in AlertKeys
    BY <1>3 DEF PlainWrites
  <2>2. Apply(op, s) \in {Upsert(s, op.arg), Resolve(s, op.arg)}
    BY <1>3 DEF Apply
  <2> QED
    BY <2>1, <2>2, UpsertRow, ResolveRow
<1>4. CASE op.write = "started"
  <2>1. Apply(op, s) = [s EXCEPT !.status = "RUNNING", !.age = 0]
    BY <1>4 DEF Apply, ProcessStarted
  <2>2. 0 \in 0..MaxAge /\ "RUNNING" \in Statuses
    BY ThresholdAssumption DEF Statuses
  <2> QED
    BY <2>1, <2>2 DEF Session
<1> QED
  BY <1>1, <1>2, <1>3, <1>4 DEF PlainWrites

----------------------------------------------------------------------------
(* Sequences of operations.                                                *)

\* A queue of one operation and what follows it.
LEMMA OneThenRest ==
    ASSUME NEW S, NEW op \in S, NEW rest \in Seq(S)
    PROVE  /\ <<op>> \o rest \in Seq(S) /\ <<op>> \o rest # <<>>
           /\ Head(<<op>> \o rest) = op /\ Tail(<<op>> \o rest) = rest
           /\ Len(<<op>> \o rest) = Len(rest) + 1
           /\ (<<op>> \o rest)[1] = op
           /\ \A i \in 1..Len(rest) : (<<op>> \o rest)[i + 1] = rest[i]
<1> DEFINE q == <<op>> \o rest
<1>1. <<op>> \in Seq(S) /\ Len(<<op>>) = 1 /\ <<op>>[1] = op /\ Len(rest) \in Nat
  BY LenProperties
<1>2. /\ q \in Seq(S) /\ Len(q) = 1 + Len(rest)
      /\ \A i \in 1..1 + Len(rest) : q[i] = IF i <= 1 THEN <<op>>[i] ELSE rest[i - 1]
  BY <1>1, ConcatProperties
<1>3. /\ Len(q) = Len(rest) + 1 /\ q[1] = op /\ q # <<>>
      /\ \A i \in 1..Len(rest) : q[i + 1] = rest[i]
  <2> HIDE DEF q
  <2>1. q[1] = op
    BY <1>1, <1>2
  <2>2. q # <<>>
    BY <1>1, <1>2, EmptySeq
  <2>3. \A i \in 1..Len(rest) : q[i + 1] = rest[i]
    <3>1. \A i \in 1..Len(rest) : i + 1 \in 1..1 + Len(rest) /\ ~(i + 1 <= 1) /\ (i + 1) - 1 = i
      BY <1>1
    <3> QED
      BY <1>2, <3>1
  <2> QED
    BY <1>1, <1>2, <2>1, <2>2, <2>3
<1>4. Tail(q) \in Seq(S) /\ Len(Tail(q)) = Len(rest) /\ \A i \in 1..Len(rest) : Tail(q)[i] = rest[i]
  <2> HIDE DEF q
  <2>1. /\ Tail(q) \in Seq(S) /\ Len(Tail(q)) = Len(q) - 1
        /\ \A i \in 1..Len(Tail(q)) : Tail(q)[i] = q[i + 1]
    BY <1>2, <1>3, HeadTailProperties
  <2> QED
    BY <1>1, <1>3, <2>1
<1>5. Tail(q) = rest
  <2> HIDE DEF q
  <2> QED
    BY <1>4, SeqEqual
<1>6. Head(q) = op
  <2> HIDE DEF q
  <2> QED
    BY <1>2, <1>3
<1> QED
  BY <1>2, <1>3, <1>5, <1>6

LEMMA PairOfOnes ==
    ASSUME NEW S, NEW a \in S, NEW b \in S
    PROVE  /\ <<a>> \in Seq(S) /\ <<b>> \in Seq(S)
           /\ <<a, b>> = <<a>> \o <<b>>
<1>1. /\ <<a>> \in Seq(S) /\ <<b>> \in Seq(S) /\ <<a, b>> \in Seq(S)
      /\ Len(<<b>>) = 1 /\ Len(<<a, b>>) = 2 /\ <<b>>[1] = b
      /\ <<a, b>>[1] = a /\ <<a, b>>[2] = b
  OBVIOUS
<1> DEFINE q == <<a>> \o <<b>>
<1>2. q \in Seq(S) /\ Len(q) = 2 /\ q[1] = a /\ q[2] = b
  <2>1. /\ q \in Seq(S) /\ q[1] = a /\ Len(q) = Len(<<b>>) + 1
        /\ \A i \in 1..Len(<<b>>) : q[i + 1] = <<b>>[i]
    BY <1>1, OneThenRest
  <2> HIDE DEF q
  <2> QED
    BY <1>1, <2>1
<1> HIDE DEF q
<1>3. \A i \in 1..Len(q) : q[i] = <<a, b>>[i]
  BY <1>1, <1>2
<1>4. q = <<a, b>>
  BY <1>1, <1>2, <1>3, SeqEqual
<1> QED
  BY <1>1, <1>4 DEF q

\* The first operation of a queue.
LEMMA HeadAndTail ==
    ASSUME NEW S, NEW q \in Seq(S), q # <<>>
    PROVE  /\ Head(q) \in S /\ Head(q) = q[1] /\ Tail(q) \in Seq(S)
           /\ Len(q) \in Nat \ {0} /\ Len(Tail(q)) = Len(q) - 1
           /\ \A i \in 1..Len(q) - 1 : Tail(q)[i] = q[i + 1]
<1>1. /\ Head(q) \in S /\ Tail(q) \in Seq(S) /\ Len(Tail(q)) = Len(q) - 1
      /\ \A i \in 1..Len(Tail(q)) : Tail(q)[i] = q[i + 1]
  BY HeadTailProperties
<1>2. Len(q) \in Nat \ {0}
  BY EmptySeq
<1>3. Head(q) = q[1]
  OBVIOUS
<1> QED
  BY <1>1, <1>2, <1>3

\* Plain operations insert nothing, and either write or ask.
LEMMA PlainOpsWriteOrAsk ==
    ASSUME NEW op \in PlainOps
    PROVE  /\ "id" \notin DOMAIN op
           /\ "write" \in DOMAIN op => op \in PlainWrites
           /\ "ask" \in DOMAIN op => op \in Asks
BY DEF PlainOps, PlainWrites, Asks

LEMMA EnsuredForm ==
    ASSUME NEW t, NEW n, NEW Rests, NEW q \in Ensured(t, n, Rests)
    PROVE  \E lag \in Lags, rest \in Rests : q = <<InsertOp(t, n, lag)>> \o rest
BY SMT DEF Ensured

LEMMA BegunForm ==
    ASSUME NEW t, NEW n, NEW Rests, NEW q \in Begun(t, n, Rests)
    PROVE  \E lag \in Lags, rest \in Ensured(t, n, Rests) : q = <<EnsureOp(lag)>> \o rest
BY SMT DEF Begun

LEMMA EnsuredOps ==
    ASSUME NEW t, NEW n, NEW Rests \in SUBSET Seq(PlainOps), NEW q \in Ensured(t, n, Rests)
    PROVE  /\ q # <<>> /\ Tail(q) \in Rests
           /\ \E lag \in Lags : /\ Head(q) = InsertOp(t, n, lag)
                                /\ q \in Seq(PlainOps \cup {InsertOp(t, n, lag)})
<1>1. PICK lag \in Lags, rest \in Rests : q = <<InsertOp(t, n, lag)>> \o rest
  BY EnsuredForm
<1> DEFINE S == PlainOps \cup {InsertOp(t, n, lag)}
<1>2. rest \in Seq(S) /\ InsertOp(t, n, lag) \in S
  OBVIOUS
<1> HIDE DEF S
<1>3. q # <<>> /\ Head(q) = InsertOp(t, n, lag) /\ Tail(q) = rest /\ q \in Seq(S)
  BY <1>1, <1>2, OneThenRest
<1> QED
  BY <1>3 DEF S

LEMMA BegunOps ==
    ASSUME NEW t, NEW n, NEW Rests \in SUBSET Seq(PlainOps), NEW q \in Begun(t, n, Rests)
    PROVE  /\ q # <<>> /\ \E lag \in Lags : Head(q) = EnsureOp(lag)
           /\ Tail(q) \in Ensured(t, n, Rests)
<1>1. PICK lag \in Lags, rest \in Ensured(t, n, Rests) : q = <<EnsureOp(lag)>> \o rest
  BY BegunForm
<1>2. PICK other \in Lags : rest \in Seq(PlainOps \cup {InsertOp(t, n, other)})
  BY EnsuredOps
<1> DEFINE S == PlainOps \cup {InsertOp(t, n, other), EnsureOp(lag)}
<1>3. rest \in Seq(S) /\ EnsureOp(lag) \in S
  BY <1>2
<1> HIDE DEF S
<1>4. q # <<>> /\ Head(q) = EnsureOp(lag) /\ Tail(q) = rest
  BY <1>1, <1>3, OneThenRest
<1> QED
  BY <1>4

\* Operations on each element of a finite set, each of them once.
LEMMA ForEachIsOnto ==
    ASSUME NEW S, IsFiniteSet(S)
    PROVE  /\ Cardinality(S) \in Nat
           /\ \A i \in 1..Cardinality(S) : SetToSeq(S)[i] \in S
           /\ \A x \in S : \E i \in 1..Cardinality(S) : SetToSeq(S)[i] = x
<1> DEFINE n == Cardinality(S)
           f == SetToSeq(S)
<1>1. n \in Nat /\ ExistsBijection(1..n, S)
  BY FS_CardinalityType
<1>2. \E g \in [1..n -> S] : IsInjective(g)
  BY <1>1 DEF ExistsBijection, Bijection, Injection
<1>3. f \in [1..n -> S] /\ IsInjective(f)
  BY <1>2 DEF SetToSeq
<1>4. f \in Injection(1..n, S)
  BY <1>3 DEF Injection
<1>5. Cardinality(1..n) = n
  BY <1>1, FS_Interval
<1>6. f \in Surjection(1..n, S)
  <2> HIDE DEF f
  <2> QED
    BY <1>4, <1>5, FS_Injection
<1> QED
  BY <1>1, <1>3, <1>6 DEF Surjection

LEMMA KeysAreKeys ==
    /\ \A cause \in SessionCauses : Key(cause) \in AlertKeys
    /\ \A cause \in CallCauses, c \in Calls : <<cause, c>> \in AlertKeys
BY DEF AlertKeys, Key

LEMMA AsksArePlain ==
    /\ \A what \in {"metadata", "started", "turn-completed", "user-message", "command-good",
                    "tests", "operational", "refresh", "verdict", "commands"} :
          Ask(what) \in PlainOps
    /\ \A to \in Statuses : AskStatus(to) \in PlainOps
    /\ \A c \in Calls, lag \in Lags : [ask |-> "output", call |-> c, lag |-> lag] \in PlainOps
    /\ \A how \in {"cancelled", "success", "failure"} : [ask |-> "exit", how |-> how] \in PlainOps
BY DEF PlainOps, Asks, Ask, AskStatus

LEMMA WritesArePlain ==
    /\ \A k \in AlertKeys : UpsertOp(k) \in PlainOps /\ ResolveOp(k) \in PlainOps
    /\ \A to \in Statuses : StatusOp(to) \in PlainOps
    /\ \A k \in AlertKeys \cup {NoAlert} : Write("attention", k) \in PlainOps
    /\ \A result \in {"PASSED", "FAILED"} : Write("test", result) \in PlainOps
    /\ Write("started", 0) \in PlainOps
    /\ \A c \in Calls, to \in CommandStates, lag \in Lags : CommandOp(c, to, lag) \in PlainOps
BY DEF PlainOps, PlainWrites, UpsertOp, ResolveOp, StatusOp, Write, CommandOp

\* The parts of an event that its kind gives it.
LEMMA EventFields ==
    ASSUME NEW e \in Events
    PROVE  /\ e.kind \in {"command.started", "command.output", "tool.started", "tool.completed",
                          "command.completed"} => e.call \in Calls
           /\ e.kind = "command.completed" => e.test \in {"NONE", "PASSED", "FAILED"}
BY DEF Events, PlainKinds

\* Sequences of up to four operations.
LEMMA ShortSeqs ==
    ASSUME NEW S, NEW a \in S, NEW b \in S, NEW c \in S, NEW d \in S
    PROVE  <<>> \in Seq(S) /\ <<a>> \in Seq(S) /\ <<a, b>> \in Seq(S) /\ <<a, b, c>> \in Seq(S)
           /\ <<a, b, c, d>> \in Seq(S)
OBVIOUS

LEMMA CommandCompletedOpsArePlain ==
    ASSUME NEW e \in Events, e.kind = "command.completed", NEW lag \in Lags
    PROVE  CommandCompletedOps(e, lag) \in Seq(PlainOps)
<1> DEFINE judged == IF e.failed THEN <<UpsertOp(<<"command-failed", e.call>>)>>
                     ELSE <<ResolveOp(<<"command-failed", e.call>>), Ask("command-good")>>
           tests == IF e.test = "NONE" THEN <<>> ELSE <<Write("test", e.test), Ask("tests")>>
           ended == <<CommandOp(e.call, "ENDED", lag), ResolveOp(<<"command-hung", e.call>>)>>
<1>1. e.call \in Calls /\ e.test \in {"NONE", "PASSED", "FAILED"}
  BY EventFields
<1>2. /\ <<"command-failed", e.call>> \in AlertKeys /\ <<"command-hung", e.call>> \in AlertKeys
  BY <1>1, KeysAreKeys DEF CallCauses
<1>3. judged \in Seq(PlainOps)
  <2>1. /\ UpsertOp(<<"command-failed", e.call>>) \in PlainOps
        /\ ResolveOp(<<"command-failed", e.call>>) \in PlainOps /\ Ask("command-good") \in PlainOps
    BY <1>2, AsksArePlain, WritesArePlain
  <2> QED
    BY <2>1, ShortSeqs
<1>4. tests \in Seq(PlainOps)
  <2>1. e.test # "NONE" => Write("test", e.test) \in PlainOps /\ Ask("tests") \in PlainOps
    BY <1>1, AsksArePlain, WritesArePlain
  <2> QED
    BY <2>1, ShortSeqs
<1>5. ended \in Seq(PlainOps)
  <2>1. CommandOp(e.call, "ENDED", lag) \in PlainOps /\ ResolveOp(<<"command-hung", e.call>>) \in PlainOps
    BY <1>1, <1>2, WritesArePlain DEF CommandStates
  <2> QED
    BY <2>1, ShortSeqs
<1>6. CommandCompletedOps(e, lag) = ended \o judged \o tests
  BY DEF CommandCompletedOps
<1> HIDE DEF judged, tests, ended
<1>7. ended \o judged \in Seq(PlainOps)
  BY <1>3, <1>5, ConcatProperties
<1> QED
  BY <1>4, <1>6, <1>7, ConcatProperties

LEMMA HandlerOpsArePlain ==
    ASSUME NEW e \in Events, NEW lag \in Lags
    PROVE  HandlerOps(e, lag) \in Seq(PlainOps)
<1>1. CASE e.kind \in {"session.meta", "session.started", "turn.completed"}
  <2>1. \E what \in {"metadata", "started", "turn-completed"} : HandlerOps(e, lag) = <<Ask(what)>>
    BY <1>1 DEF HandlerOps
  <2>2. \A what \in {"metadata", "started", "turn-completed"} : Ask(what) \in PlainOps
    BY AsksArePlain
  <2> QED
    BY <2>1, <2>2, ShortSeqs
<1>2. CASE e.kind \in {"turn.started", "message.user"}
  <2>1. PICK first \in {AskStatus("RUNNING"), Ask("user-message")} :
           HandlerOps(e, lag) = <<first>> \o WaitingOps
    BY <1>2 DEF HandlerOps
  <2>2. first \in PlainOps
    BY <2>1, AsksArePlain DEF Statuses
  <2>3. WaitingOps \in Seq(PlainOps)
    <3>1. \A cause \in {"input-required", "approval-required", "stale"} :
             ResolveOp(Key(cause)) \in PlainOps
      BY KeysAreKeys, WritesArePlain DEF SessionCauses
    <3> QED
      BY <3>1, ShortSeqs DEF WaitingOps
  <2> QED
    BY <2>1, <2>2, <2>3, OneThenRest
<1>3. CASE e.kind \in {"turn.failed", "input.required", "approval.required"}
  <2>1. \E to \in Statuses, cause \in SessionCauses :
           HandlerOps(e, lag) = <<AskStatus(to), UpsertOp(Key(cause))>>
    BY <1>3 DEF HandlerOps, Statuses, TerminalStates, WaitingStates, SessionCauses
  <2>2. \A to \in Statuses, cause \in SessionCauses :
           AskStatus(to) \in PlainOps /\ UpsertOp(Key(cause)) \in PlainOps
    BY KeysAreKeys, AsksArePlain, WritesArePlain
  <2> QED
    BY <2>1, <2>2, ShortSeqs
<1>4. CASE e.kind = "session.completed"
  <2>1. AskStatus("COMPLETED") \in PlainOps /\ Ask("operational") \in PlainOps
    BY AsksArePlain DEF Statuses, TerminalStates
  <2>2. HandlerOps(e, lag) = <<AskStatus("COMPLETED"), Ask("operational")>>
    BY <1>4 DEF HandlerOps
  <2> QED
    BY <2>1, <2>2, ShortSeqs
<1>5. CASE e.kind = "command.started"
  <2>1. e.call \in Calls /\ <<"command-failed", e.call>> \in AlertKeys
    BY <1>5, EventFields, KeysAreKeys DEF CallCauses
  <2>2. /\ CommandOp(e.call, "RUNNING", lag) \in PlainOps /\ AskStatus("RUNNING") \in PlainOps
        /\ ResolveOp(<<"command-failed", e.call>>) \in PlainOps
    BY <2>1, AsksArePlain, WritesArePlain DEF CommandStates, Statuses
  <2>3. HandlerOps(e, lag) = <<CommandOp(e.call, "RUNNING", lag), AskStatus("RUNNING"),
                               ResolveOp(<<"command-failed", e.call>>)>>
    BY <1>5 DEF HandlerOps
  <2> QED
    BY <2>2, <2>3, ShortSeqs
<1>6. CASE e.kind = "command.output"
  <2>1. e.call \in Calls /\ <<"command-hung", e.call>> \in AlertKeys
    BY <1>6, EventFields, KeysAreKeys DEF CallCauses
  <2>2. /\ [ask |-> "output", call |-> e.call, lag |-> lag] \in PlainOps
        /\ ResolveOp(<<"command-hung", e.call>>) \in PlainOps
    BY <2>1, AsksArePlain, WritesArePlain
  <2>3. HandlerOps(e, lag) = <<[ask |-> "output", call |-> e.call, lag |-> lag],
                               ResolveOp(<<"command-hung", e.call>>)>>
    BY <1>6 DEF HandlerOps
  <2> QED
    BY <2>2, <2>3, ShortSeqs
<1>7. CASE e.kind = "command.completed"
  BY <1>7, CommandCompletedOpsArePlain DEF HandlerOps
<1>8. CASE e.kind = "tool.started"
  <2>1. AskStatus("RUNNING") \in PlainOps
    BY AsksArePlain DEF Statuses
  <2>2. HandlerOps(e, lag) = <<AskStatus("RUNNING")>>
    BY <1>8 DEF HandlerOps
  <2> QED
    BY <2>1, <2>2, ShortSeqs
<1>9. CASE e.kind = "tool.completed"
  <2>1. e.call \in Calls /\ <<"tool-failed", e.call>> \in AlertKeys
    BY <1>9, EventFields, KeysAreKeys DEF CallCauses
  <2>2. /\ UpsertOp(<<"tool-failed", e.call>>) \in PlainOps
        /\ ResolveOp(<<"tool-failed", e.call>>) \in PlainOps
    BY <2>1, WritesArePlain
  <2>3. HandlerOps(e, lag) = <<IF e.failed THEN UpsertOp(<<"tool-failed", e.call>>)
                               ELSE ResolveOp(<<"tool-failed", e.call>>)>>
    BY <1>9 DEF HandlerOps
  <2> QED
    BY <2>2, <2>3, ShortSeqs
<1>10. CASE e.kind = "error"
  <2>1. UpsertOp(Key("runtime-error")) \in PlainOps
    BY KeysAreKeys, WritesArePlain DEF SessionCauses
  <2>2. HandlerOps(e, lag) = <<UpsertOp(Key("runtime-error"))>>
    BY <1>10 DEF HandlerOps
  <2> QED
    BY <2>1, <2>2, ShortSeqs
<1>11. CASE e.kind \in {"message.agent", "file.changed", "plan.updated", "reasoning"}
  BY <1>11, ShortSeqs DEF HandlerOps
<1>12. e.kind \in PlainKinds \cup {"command.started", "command.output", "tool.started",
                                   "tool.completed", "command.completed"}
  BY DEF Events
<1> QED
  BY <1>1, <1>2, <1>3, <1>4, <1>5, <1>6, <1>7, <1>8, <1>9, <1>10, <1>11, <1>12 DEF PlainKinds

----------------------------------------------------------------------------
(* What a read decides, and what a call begins with.                       *)

LEMMA KeysAreFinite == IsFiniteSet(AlertKeys)
<1>1. IsFiniteSet(SessionCauses) /\ IsFiniteSet(CallCauses) /\ IsFiniteSet({NoCall})
  <2>0. \A S, T : IsFiniteSet(S) /\ IsFiniteSet(T) => IsFiniteSet(S \cup T)
    BY FS_Union
  <2>1. \A x : IsFiniteSet({x})
    BY FS_Singleton
  <2>2. \A x, y : IsFiniteSet({x, y})
    <3> TAKE x, y
    <3>1. {x, y} = {x} \cup {y}
      OBVIOUS
    <3>2. IsFiniteSet({x} \cup {y})
      BY <2>0, <2>1
    <3> QED
      BY <3>1, <3>2, Zenon
  <2>3. \A w, x, y, z : IsFiniteSet({w, x, y, z})
    <3> TAKE w, x, y, z
    <3>1. {w, x, y, z} = {w, x} \cup {y, z}
      OBVIOUS
    <3>2. IsFiniteSet({w, x} \cup {y, z})
      BY <2>0, <2>2
    <3> QED
      BY <3>1, <3>2, Zenon
  <2>4. SessionCauses = {"input-required", "approval-required", "turn-failed", "runtime-error"}
                        \cup {"stale", "test-failure", "repeated-test-failure", "process-exit"}
    BY DEF SessionCauses
  <2>5. CallCauses = {"command-failed", "command-hung", "tool-failed", "tool-failed"}
    BY DEF CallCauses
  <2>6. IsFiniteSet(SessionCauses)
    BY <2>0, <2>3, <2>4
  <2> QED
    BY <2>1, <2>3, <2>5, <2>6
<1>2. IsFiniteSet(SessionCauses \X {NoCall}) /\ IsFiniteSet(CallCauses \X Calls)
  BY <1>1, FS_Product, CallsAssumption
<1> QED
  BY <1>2, FS_Union DEF AlertKeys

\* The questions a completion asks last: every open alert but two is resolved.
LEMMA OperationalOps ==
    ASSUME NEW s \in Session
    PROVE  /\ ForEach(ResolveOp, OperationalKeys(s)) \in Seq({ResolveOp(k) : k \in AlertKeys})
           /\ \A k \in OperationalKeys(s) :
                 \E i \in 1..Len(ForEach(ResolveOp, OperationalKeys(s))) :
                    ForEach(ResolveOp, OperationalKeys(s))[i] = ResolveOp(k)
<1> DEFINE S == OperationalKeys(s)
           n == Cardinality(S)
           f == SetToSeq(S)
           q == ForEach(ResolveOp, S)
<1>1. S \subseteq AlertKeys /\ IsFiniteSet(S)
  <2>1. S \subseteq AlertKeys
    BY DEF OperationalKeys, OpenAlerts
  <2> QED
    BY <2>1, KeysAreFinite, FS_Subset
<1>2. q = [i \in 1..n |-> ResolveOp(f[i])]
  BY DEF ForEach
<1> HIDE DEF S, q
<1>3. /\ n \in Nat /\ \A i \in 1..n : f[i] \in S
      /\ \A x \in S : \E i \in 1..n : f[i] = x
  BY <1>1, ForEachIsOnto
<1> HIDE DEF n, f
<1>4. q \in [1..n -> {ResolveOp(k) : k \in AlertKeys}]
  BY <1>1, <1>2, <1>3
<1>5. q \in Seq({ResolveOp(k) : k \in AlertKeys}) /\ Len(q) = n
  BY <1>3, <1>4, SeqDef
<1>6. \A k \in S : \E i \in 1..Len(q) : q[i] = ResolveOp(k)
  BY <1>2, <1>3, <1>5
<1> QED
  BY <1>5, <1>6 DEF S, q

\* reconcile raises or resolves the hung alerts, and no others.
LEMMA CommandVerdictOps ==
    ASSUME NEW s \in Session
    PROVE  CommandVerdicts(s) \in Seq({UpsertOp(<<"command-hung", c>>) : c \in Calls}
                                      \cup {ResolveOp(<<"command-hung", c>>) : c \in Calls})
<1> DEFINE S == RunningCommands(s)
           n == Cardinality(S)
           f == SetToSeq(S)
           Verdicts == {UpsertOp(<<"command-hung", c>>) : c \in Calls}
                       \cup {ResolveOp(<<"command-hung", c>>) : c \in Calls}
           q == [i \in 1..n |-> IF s.quiet[f[i]] >= Hung THEN UpsertOp(<<"command-hung", f[i]>>)
                                ELSE ResolveOp(<<"command-hung", f[i]>>)]
<1>1. S \subseteq Calls /\ IsFiniteSet(S)
  <2>1. S \subseteq Calls
    BY DEF RunningCommands
  <2> QED
    BY <2>1, CallsAssumption, FS_Subset
<1>2. CommandVerdicts(s) = q
  BY DEF CommandVerdicts, ForEach
<1> HIDE DEF S
<1>3. n \in Nat /\ \A i \in 1..n : f[i] \in S
  BY <1>1, ForEachIsOnto
<1> HIDE DEF n, f
<1>4. q \in [1..n -> Verdicts]
  BY <1>1, <1>3
<1> HIDE DEF q, Verdicts
<1>5. q \in Seq(Verdicts)
  BY <1>3, <1>4, SeqDef
<1> QED
  BY <1>2, <1>5 DEF Verdicts

LEMMA WiderSeq ==
    ASSUME NEW S, NEW T, S \subseteq T, NEW q \in Seq(S)
    PROVE  q \in Seq(T)
OBVIOUS

LEMMA DecidedOpsArePlain ==
    ASSUME NEW op \in Asks, NEW s \in Session
    PROVE  Decide(op, s) \in Seq(PlainOps)
<1> USE DEF Asks
<1>1. CASE op.ask \in {"set-status", "metadata", "started", "turn-completed", "user-message",
                       "command-good"}
  <2>1. /\ s.status \in Statuses
        /\ ProjectMetadata(s, "session.started").status \in Statuses
    BY DEF Session, ProjectMetadata, Statuses
  <2>2. op.ask = "set-status" => op.to \in Statuses
    OBVIOUS
  <2>3. \/ Decide(op, s) = <<>> \/ Decide(op, s) = <<AskStatus("IDLE")>>
        \/ \E to \in Statuses : Decide(op, s) = <<StatusOp(to)>>
    <3>1. "RUNNING" \in Statuses
      BY DEF Statuses
    <3> QED
      BY <1>1, <2>1, <2>2, <3>1 DEF Decide
  <2>4. /\ AskStatus("IDLE") \in PlainOps
        /\ \A to \in Statuses : StatusOp(to) \in PlainOps
    BY AsksArePlain, WritesArePlain DEF Statuses
  <2>5. /\ <<>> \in Seq(PlainOps) /\ <<AskStatus("IDLE")>> \in Seq(PlainOps)
        /\ \A to \in Statuses : <<StatusOp(to)>> \in Seq(PlainOps)
    BY <2>4, ShortSeqs
  <2> QED
    BY <2>3, <2>5
<1>2. CASE op.ask = "output"
  <2>1. op.call \in Calls /\ op.lag \in Lags /\ s.command[op.call] \in CommandStates
    BY <1>2 DEF Session, CommandStates
  <2>2. \E to \in CommandStates : Decide(op, s) = <<CommandOp(op.call, to, op.lag)>>
    BY <1>2, <2>1 DEF Decide, CommandStates
  <2>3. \A to \in CommandStates : CommandOp(op.call, to, op.lag) \in PlainOps
    BY <2>1, WritesArePlain
  <2> QED
    BY <2>2, <2>3, ShortSeqs
<1>3. CASE op.ask = "tests"
  <2>1. /\ Decide(op, s) = TestAlertOps(s.streak)
        /\ UpsertOp(Key("repeated-test-failure")) \in PlainOps
        /\ UpsertOp(Key("test-failure")) \in PlainOps
        /\ ResolveOp(Key("repeated-test-failure")) \in PlainOps
        /\ ResolveOp(Key("test-failure")) \in PlainOps
    BY <1>3, KeysAreKeys, WritesArePlain DEF Decide, SessionCauses
  <2> QED
    BY <2>1, ShortSeqs DEF TestAlertOps
<1>4. CASE op.ask = "operational"
  <2>1. {ResolveOp(k) : k \in AlertKeys} \subseteq PlainOps
    BY WritesArePlain
  <2>2. Decide(op, s) = ForEach(ResolveOp, OperationalKeys(s))
    BY <1>4 DEF Decide
  <2> QED
    BY <2>1, <2>2, OperationalOps, WiderSeq
<1>5. CASE op.ask = "refresh"
  <2>1. Decide(op, s) = <<Write("attention", Top(s))>>
    BY <1>5 DEF Decide
  <2>2. Write("attention", Top(s)) \in PlainOps
    BY TopIsKey, WritesArePlain
  <2> QED
    BY <2>1, <2>2, ShortSeqs
<1>6. CASE op.ask = "verdict"
  <2>1. /\ Decide(op, s) = VerdictOps(s)
        /\ ResolveOp(Key("stale")) \in PlainOps /\ UpsertOp(Key("stale")) \in PlainOps
        /\ StatusOp("BLOCKED") \in PlainOps
    BY <1>6, KeysAreKeys, WritesArePlain DEF Decide, SessionCauses, Statuses
  <2> QED
    BY <2>1, ShortSeqs DEF VerdictOps
<1>7. CASE op.ask = "commands"
  <2> DEFINE Verdicts == {UpsertOp(<<"command-hung", c>>) : c \in Calls}
                         \cup {ResolveOp(<<"command-hung", c>>) : c \in Calls}
  <2>1. Verdicts \subseteq PlainOps
    BY KeysAreKeys, WritesArePlain DEF CallCauses
  <2>2. Decide(op, s) = CommandVerdicts(s)
    BY <1>7 DEF Decide
  <2>3. CommandVerdicts(s) \in Seq(Verdicts)
    BY CommandVerdictOps
  <2> QED
    BY <2>1, <2>2, <2>3, WiderSeq
<1>8. CASE op.ask = "exit"
  <2>1. op.how \in {"cancelled", "success", "failure"}
    BY <1>8
  <2>2. \/ \E to \in Statuses : Decide(op, s) = <<StatusOp(to)>>
        \/ Decide(op, s) = <<StatusOp("FAILED"), UpsertOp(Key("process-exit"))>>
    BY <1>8, <2>1 DEF Decide, ExitOps, Statuses, TerminalStates
  <2>3. /\ \A to \in Statuses : StatusOp(to) \in PlainOps
        /\ UpsertOp(Key("process-exit")) \in PlainOps /\ StatusOp("FAILED") \in PlainOps
    BY KeysAreKeys, WritesArePlain DEF SessionCauses, Statuses, TerminalStates
  <2>4. \A to \in Statuses : <<StatusOp(to)>> \in Seq(PlainOps)
    BY <2>3, ShortSeqs
  <2>5. <<StatusOp("FAILED"), UpsertOp(Key("process-exit"))>> \in Seq(PlainOps)
    BY <2>3, ShortSeqs
  <2> QED
    BY <2>2, <2>4, <2>5
<1> QED
  BY <1>1, <1>2, <1>3, <1>4, <1>5, <1>6, <1>7, <1>8

\* What a call for a line still has to do once the line is inserted.
LineOps(e, lag) == HandlerOps(e, lag) \o <<Ask("refresh")>>

LEMMA LineOpsArePlain ==
    ASSUME NEW e \in Events, NEW lag \in Lags
    PROVE  LineOps(e, lag) \in Seq(PlainOps)
<1>1. <<Ask("refresh")>> \in Seq(PlainOps)
  BY AsksArePlain, ShortSeqs
<1> QED
  BY <1>1, HandlerOpsArePlain, ConcatProperties DEF LineOps

\* What a call for a new line has to do, before and after ensure_session.
EntryOps(t, n, e, lag) == <<InsertOp(t, n, lag)>> \o LineOps(e, lag)
CallOps(t, n, e, lag) == <<EnsureOp(lag)>> \o EntryOps(t, n, e, lag)

LEMMA IngestForm ==
    ASSUME NEW t, NEW n, NEW lag \in Lags, log[n] \in Events
    PROVE  IngestOps(t, n, lag) = CallOps(t, n, log[n], lag)
<1> DEFINE S == PlainOps \cup {EnsureOp(lag), InsertOp(t, n, lag)}
           en == EnsureOp(lag)
           ins == InsertOp(t, n, lag)
           h == HandlerOps(log[n], lag)
           last == <<Ask("refresh")>>
<1>1. IngestOps(t, n, lag) = <<en, ins>> \o h \o last
  BY DEF IngestOps, EnsureOp, InsertOp
<1>2. en \in S /\ ins \in S /\ h \in Seq(S) /\ last \in Seq(S)
  <2>1. h \in Seq(PlainOps) /\ last \in Seq(PlainOps)
    BY HandlerOpsArePlain, AsksArePlain, ShortSeqs
  <2> QED
    BY <2>1, WiderSeq
<1>3. CallOps(t, n, log[n], lag) = <<en>> \o (<<ins>> \o (h \o last))
  BY DEF CallOps, EntryOps, LineOps
<1> HIDE DEF S, en, ins, h, last
<1>4. <<en>> \in Seq(S) /\ <<ins>> \in Seq(S) /\ <<en, ins>> = <<en>> \o <<ins>>
  BY <1>2, PairOfOnes
<1>5. h \o last \in Seq(S) /\ <<en>> \o <<ins>> \in Seq(S)
  BY <1>2, <1>4, ConcatProperties
<1>6. (<<en>> \o <<ins>>) \o h \o last = (<<en>> \o <<ins>>) \o (h \o last)
  BY <1>2, <1>5, ConcatAssociative
<1>7. (<<en>> \o <<ins>>) \o (h \o last) = <<en>> \o (<<ins>> \o (h \o last))
  BY <1>4, <1>5, ConcatAssociative
<1> QED
  BY <1>1, <1>3, <1>4, <1>6, <1>7

\* A call for a line begins with the two transactions of its entry.
LEMMA IngestBegins ==
    ASSUME NEW t, NEW n, NEW lag \in Lags, log[n] \in Events,
           NEW Rests \in SUBSET Seq(PlainOps), LineOps(log[n], lag) \in Rests
    PROVE  IngestOps(t, n, lag) \in Begun(t, n, Rests)
<1> DEFINE entry == EntryOps(t, n, log[n], lag)
<1>1. IngestOps(t, n, lag) = <<EnsureOp(lag)>> \o entry
  BY IngestForm DEF CallOps
<1>2. entry \in Ensured(t, n, Rests)
  BY DEF EntryOps, Ensured
<1>3. \A q \in Ensured(t, n, Rests) : <<EnsureOp(lag)>> \o q \in Begun(t, n, Rests)
  BY DEF Begun
<1> HIDE DEF entry
<1> QED
  BY <1>1, <1>2, <1>3

----------------------------------------------------------------------------
(* One step of a call, by what the call is in.                             *)

\* Thread t has q still to do, the others what they had.
Left(t, q) == todo' = [todo EXCEPT ![t] = q]

LEMMA LeftOnly ==
    ASSUME DOMAIN todo = Threads, NEW t \in Threads, NEW q, Left(t, q)
    PROVE  /\ DOMAIN todo' = Threads /\ todo'[t] = q
           /\ \A u \in Threads : u # t => todo'[u] = todo[u]
BY DEF Left

LEMMA PlainStep ==
    ASSUME DOMAIN todo = Threads, NEW t \in Threads, Step(t), todo[t] \in Seq(PlainOps)
    PROVE  /\ todo[t] # <<>> /\ Tail(todo[t]) \in Seq(PlainOps) /\ stored' = stored
           /\ \/ /\ Head(todo[t]) \in PlainWrites /\ session' = Apply(Head(todo[t]), session)
                 /\ Left(t, Tail(todo[t]))
              \/ /\ Head(todo[t]) \in Asks /\ session' = session
                 /\ Left(t, Decide(Head(todo[t]), session) \o Tail(todo[t]))
<1>1. todo[t] # <<>>
  BY DEF Step, Idle
<1>2. Head(todo[t]) \in PlainOps /\ Tail(todo[t]) \in Seq(PlainOps)
  BY <1>1, HeadAndTail
<1>3. /\ "id" \notin DOMAIN Head(todo[t])
      /\ "write" \in DOMAIN Head(todo[t]) => Head(todo[t]) \in PlainWrites
      /\ "ask" \in DOMAIN Head(todo[t]) => Head(todo[t]) \in Asks
  BY <1>2, PlainOpsWriteOrAsk
<1>4. CASE DoWrite(t)
  BY <1>1, <1>2, <1>3, <1>4 DEF DoWrite, Left
<1>5. CASE DoAsk(t)
  BY <1>1, <1>2, <1>3, <1>5 DEF DoAsk, Left
<1> QED
  BY <1>3, <1>4, <1>5 DEF Step, DropDuplicate

LEMMA BegunStep ==
    ASSUME DOMAIN todo = Threads, session \in Session, NEW t \in Threads, Step(t),
           NEW n, NEW Rests \in SUBSET Seq(PlainOps), todo[t] \in Begun(t, n, Rests)
    PROVE  /\ session' \in Session /\ session'.status = session.status
           /\ OpenAlerts(session') = OpenAlerts(session) /\ stored' = stored
           /\ \E q \in Ensured(t, n, Rests) : Left(t, q)
<1>1. /\ todo[t] # <<>> /\ Tail(todo[t]) \in Ensured(t, n, Rests)
  BY BegunOps
<1>2. PICK lag \in Lags : Head(todo[t]) = EnsureOp(lag)
  BY BegunOps
<1>3. /\ "id" \notin DOMAIN EnsureOp(lag) /\ "ask" \notin DOMAIN EnsureOp(lag)
      /\ EnsureOp(lag).write = "ensure" /\ EnsureOp(lag).lag = lag
  BY DEF EnsureOp
<1>4. DoWrite(t)
  BY <1>2, <1>3 DEF Step, DropDuplicate, DoAsk
<1>5. /\ session' = Apply(EnsureOp(lag), session) /\ stored' = stored
      /\ Left(t, Tail(todo[t]))
  BY <1>2, <1>3, <1>4 DEF DoWrite, Left
<1>6. /\ Apply(EnsureOp(lag), session) \in Session
      /\ Apply(EnsureOp(lag), session).status = session.status
      /\ OpenAlerts(Apply(EnsureOp(lag), session)) = OpenAlerts(session)
  BY <1>3, EntryWrite
<1> QED
  BY <1>1, <1>5, <1>6

LEMMA EnsuredStep ==
    ASSUME DOMAIN todo = Threads, session \in Session, NEW t \in Threads, Step(t),
           NEW n, NEW Rests \in SUBSET Seq(PlainOps), todo[t] \in Ensured(t, n, Rests)
    PROVE  /\ session' \in Session /\ session'.status = session.status
           /\ OpenAlerts(session') = OpenAlerts(session)
           /\ stored' = stored \cup {SourceId(t, n)}
           /\ \/ SourceId(t, n) \in stored /\ Left(t, <<>>)
              \/ SourceId(t, n) \notin stored /\ \E q \in Rests : Left(t, q)
<1>1. PICK lag \in Lags : Head(todo[t]) = InsertOp(t, n, lag)
  BY EnsuredOps
<1>2. todo[t] # <<>> /\ Tail(todo[t]) \in Rests
  BY EnsuredOps
<1>3. /\ "id" \in DOMAIN InsertOp(t, n, lag) /\ "ask" \notin DOMAIN InsertOp(t, n, lag)
      /\ InsertOp(t, n, lag).write = "insert" /\ InsertOp(t, n, lag).lag = lag
      /\ InsertOp(t, n, lag).id = SourceId(t, n)
  BY DEF InsertOp
<1>4. CASE DropDuplicate(t)
  BY <1>1, <1>2, <1>3, <1>4 DEF DropDuplicate, Left
<1>5. CASE DoWrite(t)
  <2>1. /\ session' = Apply(InsertOp(t, n, lag), session)
        /\ stored' = stored \cup {SourceId(t, n)} /\ SourceId(t, n) \notin stored
        /\ Left(t, Tail(todo[t]))
    BY <1>1, <1>2, <1>3, <1>5 DEF DoWrite, Left
  <2>2. /\ Apply(InsertOp(t, n, lag), session) \in Session
        /\ Apply(InsertOp(t, n, lag), session).status = session.status
        /\ OpenAlerts(Apply(InsertOp(t, n, lag), session)) = OpenAlerts(session)
    BY <1>3, EntryWrite
  <2> QED
    BY <1>2, <2>1, <2>2
<1> QED
  BY <1>1, <1>2, <1>3, <1>4, <1>5 DEF Step, DoAsk

\* No call is both entering and past the insertion of its line.
LEMMA EnteringIsNotPlain ==
    ASSUME NEW t, NEW n, NEW q \in Entering(t, n)
    PROVE  q \notin Seq(PlainOps) /\ q # <<>>
<1>1. q # <<>> /\ \E lag \in Lags : Head(q) \in {EnsureOp(lag), InsertOp(t, n, lag)}
  <2>1. CASE q \in Begun(t, n, Seq(PlainOps))
    BY <2>1, BegunOps
  <2>2. CASE q \in Ensured(t, n, Seq(PlainOps))
    <3>1. Seq(PlainOps) \in SUBSET Seq(PlainOps)
      OBVIOUS
    <3> QED
      BY <2>2, <3>1, EnsuredOps
  <2> QED
    BY <2>1, <2>2 DEF Entering
<1>2. \A lag \in Lags : EnsureOp(lag) \notin PlainOps /\ InsertOp(t, n, lag) \notin PlainOps
  BY DEF PlainOps, PlainWrites, Asks, EnsureOp, InsertOp
<1>3. q \in Seq(PlainOps) => Head(q) \in PlainOps
  BY <1>1, HeadAndTail
<1> QED
  BY <1>1, <1>2, <1>3

----------------------------------------------------------------------------
(* No line is passed over.                                                 *)

LEMMA InitIsSound == Init => ThreadsInv
<1> SUFFICES ASSUME Init PROVE ThreadsInv
  OBVIOUS
<1>1. log \in Seq(Events) /\ Len(log) \in Nat
  BY LogsAssumption DEF Init
<1>2. session \in Session
  <2>1. 0 \in 0..MaxAge /\ "DISCOVERED" \in Statuses
    BY ThresholdAssumption DEF Statuses
  <2> QED
    BY <2>1 DEF Init, NewSession, Session, AlertStates
<1>3. taken = [t \in Threads |-> 0] /\ stored = {} /\ crashes = 0 /\ log \in Logs
  BY DEF Init
<1>4. DOMAIN todo = Threads /\ \A t \in Threads : todo[t] \in Seq(PlainOps)
  <2>1. Write("started", 0) \in PlainOps
    BY WritesArePlain
  <2>2. <<Write("started", 0)>> \in Seq(PlainOps) /\ <<>> \in Seq(PlainOps)
    BY <2>1, ShortSeqs
  <2> QED
    BY <2>2 DEF Init
<1> QED
  BY <1>1, <1>2, <1>3, <1>4 DEF ThreadsInv, ThreadTypes, LinesStored

LEMMA LogLines ==
    ASSUME log \in Logs
    PROVE  /\ log \in Seq(Events) /\ Len(log) \in Nat \ {0}
           /\ \A n \in 1..Len(log) : log[n] \in Events
<1>1. log \in Seq(Events) /\ log # <<>>
  BY LogsAssumption
<1> QED
  BY <1>1, EmptySeq

LEMMA TakeLineIsSound ==
    ASSUME ThreadsInv, NEW t \in Threads, TakeLine(t)
    PROVE  ThreadsInv'
<1> DEFINE n == taken[t] + 1
<1>1. /\ log \in Logs /\ session \in Session /\ stored \subseteq {"count", "position"} \X Nat
      /\ taken \in [Threads -> Nat] /\ DOMAIN todo = Threads /\ crashes \in Nat
      /\ \A u \in Threads : taken[u] <= Len(log)
      /\ \A u \in Threads : todo[u] \in Seq(PlainOps) \cup Entering(u, taken[u])
  BY DEF ThreadsInv, ThreadTypes
<1>2. /\ todo[t] = <<>> /\ taken[t] < Len(log)
      /\ taken' = [taken EXCEPT ![t] = taken[t] + 1]
      /\ log' = log /\ session' = session /\ stored' = stored /\ crashes' = crashes
  BY DEF TakeLine, MayBegin, AllIdle, Idle
<1>3. n \in 1..Len(log) /\ log[n] \in Events
  BY <1>1, <1>2, LogLines
<1>4. PICK lag \in Lags : Left(t, IngestOps(t, n, lag))
  BY DEF TakeLine, Lags, Left
<1>5. IngestOps(t, n, lag) \in Entering(t, n)
  <2>1. LineOps(log[n], lag) \in Seq(PlainOps) /\ Seq(PlainOps) \in SUBSET Seq(PlainOps)
    BY <1>3, LineOpsArePlain
  <2>2. IngestOps(t, n, lag) \in Begun(t, n, Seq(PlainOps))
    BY <1>3, <2>1, IngestBegins
  <2> QED
    BY <2>2 DEF Entering
<1>6. /\ DOMAIN todo' = Threads /\ todo'[t] \in Entering(t, n)
      /\ \A u \in Threads : u # t => todo'[u] = todo[u]
  BY <1>1, <1>4, <1>5, LeftOnly
<1>7. /\ taken' \in [Threads -> Nat] /\ taken'[t] = n
      /\ \A u \in Threads : taken'[u] <= Len(log) /\ (u # t => taken'[u] = taken[u])
  BY <1>1, <1>2, <1>3
<1> HIDE DEF n
<1>8. ThreadTypes'
  BY <1>1, <1>2, <1>6, <1>7 DEF ThreadTypes
<1>9. LinesStored'
  <2> SUFFICES ASSUME NEW u \in Threads \ {Reader}, NEW m \in 1..taken'[u]
               PROVE  SourceId(u, m) \in stored' \/ (m = taken'[u] /\ todo'[u] \in Entering(u, m))
    BY DEF LinesStored
  <2>1. SourceId(u, m) \in stored \/ (m = taken[u] /\ todo[u] \in Entering(u, m)) \/ m \notin 1..taken[u]
    BY DEF ThreadsInv, LinesStored
  <2>2. CASE u # t
    BY <1>2, <1>6, <1>7, <2>1, <2>2
  <2>3. CASE u = t
    <3>1. m = n \/ m \in 1..taken[t]
      BY <1>1, <1>7, <2>3 DEF n
    <3>2. todo[t] \notin Entering(t, m)
      BY <1>2, EnteringIsNotPlain
    <3> QED
      BY <1>2, <1>6, <1>7, <2>1, <2>3, <3>1, <3>2
  <2> QED
    BY <2>2, <2>3
<1> QED
  BY <1>8, <1>9 DEF ThreadsInv

\* A call that leaves the lines alone begins on an idle thread.
LEMMA OtherCallIsSound ==
    ASSUME ThreadsInv, NEW t \in Threads, todo[t] = <<>>, NEW q \in Seq(PlainOps), Left(t, q),
           UNCHANGED <<log, session, stored, taken, crashes>>
    PROVE  ThreadsInv'
<1>1. DOMAIN todo = Threads
  BY DEF ThreadsInv, ThreadTypes
<1>2. /\ DOMAIN todo' = Threads /\ todo'[t] = q
      /\ \A u \in Threads : u # t => todo'[u] = todo[u]
  BY <1>1, LeftOnly
<1>3. ThreadTypes'
  BY <1>2 DEF ThreadsInv, ThreadTypes
<1>4. LinesStored'
  <2>1. \A m : todo[t] \notin Entering(t, m)
    BY EnteringIsNotPlain
  <2> QED
    BY <1>2, <2>1 DEF ThreadsInv, LinesStored
<1> QED
  BY <1>3, <1>4 DEF ThreadsInv

LEMMA ReconcileOpsArePlain == ReconcileOps \in Seq(PlainOps)
<1>1. Ask("verdict") \in PlainOps /\ Ask("commands") \in PlainOps
  BY AsksArePlain
<1> QED
  BY <1>1, ShortSeqs DEF ReconcileOps

LEMMA BeginReconcileIsSound ==
    ASSUME ThreadsInv, NEW t \in Threads, BeginReconcile(t)
    PROVE  ThreadsInv'
<1>1. /\ todo[t] = <<>> /\ Left(t, ReconcileOps)
      /\ UNCHANGED <<log, session, stored, taken, crashes>>
  BY DEF BeginReconcile, MayBegin, AllIdle, Idle, Left
<1> QED
  BY <1>1, ReconcileOpsArePlain, OtherCallIsSound

LEMMA BeginExitIsSound ==
    ASSUME ThreadsInv, NEW how \in {"cancelled", "success", "failure"}, BeginExit(how)
    PROVE  ThreadsInv'
<1>1. /\ Reader \in Threads /\ todo[Reader] = <<>> /\ Left(Reader, <<[ask |-> "exit", how |-> how]>>)
      /\ UNCHANGED <<log, session, stored, taken, crashes>>
  BY DEF BeginExit, MayBegin, AllIdle, Idle, Left
<1>2. <<[ask |-> "exit", how |-> how]>> \in Seq(PlainOps)
  BY AsksArePlain, ShortSeqs
<1> QED
  BY <1>1, <1>2, OtherCallIsSound

LEMMA StepShape ==
    ASSUME ThreadTypes, NEW t \in Threads, Step(t)
    PROVE  \E q \in Seq(PlainOps) \cup Entering(t, taken[t]) :
              /\ Left(t, q) /\ session' \in Session
              /\ \/ todo[t] \in Seq(PlainOps) /\ q \in Seq(PlainOps) /\ stored' = stored
                 \/ /\ todo[t] \in Entering(t, taken[t]) /\ q \in Entering(t, taken[t])
                    /\ stored' = stored
                 \/ /\ todo[t] \in Entering(t, taken[t]) /\ q \in Seq(PlainOps)
                    /\ stored' = stored \cup {SourceId(t, taken[t])}
<1> DEFINE n == taken[t]
<1>1. /\ session \in Session /\ DOMAIN todo = Threads
      /\ todo[t] \in Seq(PlainOps) \cup Entering(t, n)
  BY DEF ThreadTypes
<1>2. Seq(PlainOps) \in SUBSET Seq(PlainOps) /\ <<>> \in Seq(PlainOps)
  OBVIOUS
<1>3. CASE todo[t] \in Seq(PlainOps)
  <2>1. Tail(todo[t]) \in Seq(PlainOps) /\ stored' = stored
    BY <1>1, <1>3, PlainStep
  <2>2. CASE /\ Head(todo[t]) \in PlainWrites /\ session' = Apply(Head(todo[t]), session)
             /\ Left(t, Tail(todo[t]))
    BY <1>1, <1>3, <2>1, <2>2, WritesKeepRow
  <2>3. CASE /\ Head(todo[t]) \in Asks /\ session' = session
             /\ Left(t, Decide(Head(todo[t]), session) \o Tail(todo[t]))
    <3>1. Decide(Head(todo[t]), session) \in Seq(PlainOps)
      BY <1>1, <2>3, DecidedOpsArePlain
    <3>2. Decide(Head(todo[t]), session) \o Tail(todo[t]) \in Seq(PlainOps)
      BY <2>1, <3>1, ConcatProperties
    <3> QED
      BY <1>1, <1>3, <2>1, <2>3, <3>2
  <2> QED
    BY <1>1, <1>3, <2>2, <2>3, PlainStep
<1>4. CASE todo[t] \in Begun(t, n, Seq(PlainOps))
  <2>1. /\ session' \in Session /\ stored' = stored
        /\ \E q \in Ensured(t, n, Seq(PlainOps)) : Left(t, q)
    BY <1>1, <1>2, <1>4, BegunStep
  <2> QED
    BY <1>4, <2>1 DEF Entering
<1>5. CASE todo[t] \in Ensured(t, n, Seq(PlainOps))
  <2>1. /\ session' \in Session /\ stored' = stored \cup {SourceId(t, n)}
        /\ \/ Left(t, <<>>)
           \/ \E q \in Seq(PlainOps) : Left(t, q)
    BY <1>1, <1>2, <1>5, EnsuredStep
  <2> QED
    BY <1>2, <1>5, <2>1 DEF Entering
<1> QED
  BY <1>1, <1>3, <1>4, <1>5 DEF Entering

LEMMA StepIsSound ==
    ASSUME ThreadsInv, NEW t \in Threads, Step(t)
    PROVE  ThreadsInv'
<1> DEFINE n == taken[t]
<1>1. /\ log \in Logs /\ session \in Session /\ stored \subseteq {"count", "position"} \X Nat
      /\ taken \in [Threads -> Nat] /\ DOMAIN todo = Threads /\ crashes \in Nat
      /\ \A u \in Threads : taken[u] <= Len(log)
      /\ \A u \in Threads : todo[u] \in Seq(PlainOps) \cup Entering(u, taken[u])
  BY DEF ThreadsInv, ThreadTypes
<1>2. log' = log /\ taken' = taken /\ crashes' = crashes
  BY DEF Step
<1>3. SourceId(t, n) \in {"count", "position"} \X Nat
  BY <1>1 DEF SourceId
<1>4. PICK q \in Seq(PlainOps) \cup Entering(t, n) :
         /\ Left(t, q) /\ session' \in Session
         /\ \/ todo[t] \in Seq(PlainOps) /\ q \in Seq(PlainOps) /\ stored' = stored
            \/ q \in Entering(t, n) /\ stored' = stored
            \/ stored' = stored \cup {SourceId(t, n)}
  BY StepShape DEF ThreadsInv
<1>5. SourceId(t, n) \in stored' \/ q \in Entering(t, n) \/ todo[t] \in Seq(PlainOps)
  BY <1>4
<1>6. /\ DOMAIN todo' = Threads /\ todo'[t] = q
      /\ \A u \in Threads : u # t => todo'[u] = todo[u]
  BY <1>1, <1>4, LeftOnly
<1>7. ThreadTypes'
  BY <1>1, <1>2, <1>3, <1>4, <1>6 DEF ThreadTypes
<1>8. LinesStored'
  <2> SUFFICES ASSUME NEW u \in Threads \ {Reader}, NEW m \in 1..taken[u]
               PROVE  SourceId(u, m) \in stored' \/ (m = taken[u] /\ todo'[u] \in Entering(u, m))
    BY <1>2 DEF LinesStored
  <2>1. SourceId(u, m) \in stored \/ (m = taken[u] /\ todo[u] \in Entering(u, m))
    BY DEF ThreadsInv, LinesStored
  <2>2. CASE SourceId(u, m) \in stored
    BY <1>4, <2>2
  <2>3. CASE u # t
    BY <1>4, <1>6, <2>1, <2>3
  <2>4. CASE u = t /\ m = taken[u] /\ todo[u] \in Entering(u, m)
    <3>1. todo[t] \notin Seq(PlainOps)
      BY <2>4, EnteringIsNotPlain
    <3> QED
      BY <1>5, <1>6, <2>4, <3>1
  <2> QED
    BY <2>1, <2>2, <2>3, <2>4
<1> QED
  BY <1>7, <1>8 DEF ThreadsInv

\* A clock that ticks leaves the row a row.
LEMMA TickRow ==
    ASSUME session \in Session, Tick
    PROVE  /\ session' \in Session /\ session'.status = session.status
           /\ OpenAlerts(session') = OpenAlerts(session)
<1>1. \A age \in 0..MaxAge : Older(age) \in 0..MaxAge
  BY ThresholdAssumption DEF Older
<1>2. session' = [session EXCEPT !.age = Older(@), !.quiet = [c \in Calls |-> Older(@[c])]]
  BY DEF Tick
<1> HIDE DEF Older
<1>3. session' \in Session /\ session'.status = session.status /\ session'.alerts = session.alerts
  BY <1>1, <1>2 DEF Session
<1> QED
  BY <1>3 DEF OpenAlerts

LEMMA CrashIsSound ==
    ASSUME ThreadsInv, Crash
    PROVE  ThreadsInv'
<1>1. /\ log \in Logs /\ session \in Session /\ stored \subseteq {"count", "position"} \X Nat
      /\ taken \in [Threads -> Nat] /\ crashes \in Nat
      /\ \A u \in Threads : taken[u] <= Len(log)
  BY DEF ThreadsInv, ThreadTypes
<1>2. /\ log' = log /\ session' = session /\ stored' = stored /\ crashes' = crashes + 1
      /\ todo' = [t \in Threads |-> <<>>] /\ taken' \in [Threads -> 0..Len(log)]
      /\ \A t \in Threads : t # Reader => taken'[t] <= SavedOffset(t)
  BY DEF Crash
<1>3. Len(log) \in Nat
  BY <1>1, LogLines
<1>4. ThreadTypes'
  <2>1. /\ taken' \in [Threads -> Nat] /\ \A u \in Threads : taken'[u] <= Len(log)
    BY <1>2, <1>3
  <2>2. DOMAIN todo' = Threads /\ \A u \in Threads : todo'[u] \in Seq(PlainOps)
    BY <1>2, ShortSeqs
  <2> QED
    BY <1>1, <1>2, <2>1, <2>2 DEF ThreadTypes
<1>5. LinesStored'
  <2> SUFFICES ASSUME NEW u \in Threads \ {Reader}, NEW m \in 1..taken'[u]
               PROVE  SourceId(u, m) \in stored
    BY <1>2 DEF LinesStored
  <2>1. taken'[u] \in Nat /\ taken[u] \in Nat /\ taken'[u] <= SavedOffset(u)
    BY <1>1, <1>2, <1>3
  <2>2. CASE todo[u] = <<>>
    <3>1. m \in 1..taken[u] /\ todo[u] \notin Entering(u, m)
      BY <2>1, <2>2, EnteringIsNotPlain DEF SavedOffset, Idle
    <3> QED
      BY <3>1 DEF ThreadsInv, LinesStored
  <2>3. CASE todo[u] # <<>>
    <3>1. m \in 1..taken[u] /\ m # taken[u]
      BY <2>1, <2>3 DEF SavedOffset, Idle
    <3> QED
      BY <3>1 DEF ThreadsInv, LinesStored
  <2> QED
    BY <2>2, <2>3
<1> QED
  BY <1>4, <1>5 DEF ThreadsInv

LEMMA NextIsSound == ThreadsInv /\ [Next]_vars => ThreadsInv'
<1> SUFFICES ASSUME ThreadsInv, [Next]_vars PROVE ThreadsInv'
  OBVIOUS
<1>1. ASSUME NEW t \in Threads, TakeLine(t) PROVE ThreadsInv'
  BY <1>1, TakeLineIsSound
<1>2. ASSUME NEW t \in Threads, BeginReconcile(t) PROVE ThreadsInv'
  BY <1>2, BeginReconcileIsSound
<1>3. ASSUME NEW t \in Threads, Step(t) PROVE ThreadsInv'
  BY <1>3, StepIsSound
<1>4. ASSUME NEW how \in {"cancelled", "success", "failure"}, BeginExit(how) PROVE ThreadsInv'
  BY <1>4, BeginExitIsSound
<1>5. CASE Tick
  <2>1. session' \in Session
    BY <1>5, TickRow DEF ThreadsInv, ThreadTypes
  <2>2. UNCHANGED <<log, stored, taken, todo, crashes>>
    BY <1>5 DEF Tick
  <2> QED
    BY <2>1, <2>2 DEF ThreadsInv, ThreadTypes, LinesStored
<1>6. CASE Crash
  BY <1>6, CrashIsSound
<1>7. CASE UNCHANGED vars
  BY <1>7 DEF vars, ThreadsInv, ThreadTypes, LinesStored
<1> QED
  BY <1>1, <1>2, <1>3, <1>4, <1>5, <1>6, <1>7 DEF Next

\* The threads keep their types, and what a thread has taken up is stored, but
\* for the line whose call has still to insert it (engine.py, ingest;
\* collector.py, _scan_file), whatever the log, the threads and the crashes.
THEOREM ThreadsAreSound == Spec => []ThreadsInv
BY InitIsSound, NextIsSound, PTL DEF Spec

\* Neither a crash, nor another scan, nor the reader of the process makes a
\* thread pass over a line: set_offset follows the lines it counts.
THEOREM NoLinesSkipped == Spec => []NoLineSkipped
<1>1. ThreadsInv => NoLineSkipped
  <2> SUFFICES ASSUME ThreadsInv, NEW t \in Threads, NEW n \in 1..Len(log),
                      t # Reader, n <= taken[t], Idle(t)
               PROVE  SourceId(t, n) \in stored
    BY DEF NoLineSkipped
  <2>1. taken[t] \in Nat /\ n \in Nat /\ n >= 1
    BY LogLines DEF ThreadsInv, ThreadTypes
  <2>2. n \in 1..taken[t] /\ todo[t] \notin Entering(t, n)
    BY <2>1, EnteringIsNotPlain DEF Idle
  <2> QED
    BY <2>2 DEF ThreadsInv, LinesStored
<1> QED
  BY <1>1, ThreadsAreSound, PTL

----------------------------------------------------------------------------
(* The line that completes the task.  Its handler asks for the status, writes *)
(* it, resolves the open alerts and refreshes the headline.                 *)

DoneOps == <<Ask("operational"), Ask("refresh")>>
LastOps == <<AskStatus("COMPLETED"), Ask("operational"), Ask("refresh")>>
SetOps == <<StatusOp("COMPLETED"), Ask("operational"), Ask("refresh")>>

\* What is left of a call that can only withdraw alerts, and what a poll that
\* finds the session completed may still do besides.
QuietOps ==
    {ResolveOp(k) : k \in AlertKeys}
    \cup {Write("attention", k) : k \in AlertKeys \cup {NoAlert}} \cup {Ask("refresh")}
HungOps == {UpsertOp(<<"command-hung", c>>) : c \in Calls}
AfterOps == QuietOps \cup HungOps \cup {Ask("verdict"), Ask("commands")}

\* The alerts a completed session may keep.
Tolerated == {"runtime-error", "turn-failed", "stale", "command-hung"}

\* A call for the last line that has not yet written the status.
Opening(t) ==
    Begun(t, Len(log), {LastOps}) \cup Ensured(t, Len(log), {LastOps}) \cup {LastOps, SetOps}

CompletingLog == log[Len(log)].kind = "session.completed"

ReaderAtEnd ==
    (Reader \in Threads /\ taken[Reader] = Len(log)) =>
        todo[Reader] \in Opening(Reader) \cup {DoneOps} \cup Seq(QuietOps)

\* Each open alert is tolerated or about to be resolved by queue q.
InHand(q, open) ==
    \A k \in open : k[1] \in Tolerated \/ \E i \in 1..Len(q) : q[i] = ResolveOp(k)

AfterEnd(q, s) == q \in Seq(AfterOps) /\ InHand(q, OpenAlerts(s))

CollectorAtEnd(c) ==
    taken[c] = Len(log) =>
        \/ todo[c] \in Opening(c)
        \/ session.status = "COMPLETED" /\ (todo[c] = DoneOps \/ AfterEnd(todo[c], session))

\* The collector's ids are those of the lines it has taken up, without the one
\* it is entering.
StoredInOrder(c) ==
    \A n \in Nat : SourceId(c, n) \in stored =>
        n <= taken[c] /\ (n = taken[c] => todo[c] \notin Entering(c, n))

ReaderIsAhead(c) == Reader \in Threads => taken[c] <= taken[Reader]

CompletionInv(c) ==
    crashes = 0 =>
        /\ StoredInOrder(c) /\ ReaderIsAhead(c)
        /\ exit = "no" /\ CompletingLog => ReaderAtEnd /\ CollectorAtEnd(c)

LEMMA LastLineOps ==
    ASSUME NEW e, e.kind = "session.completed", NEW lag
    PROVE  LineOps(e, lag) = LastOps
<1> DEFINE a == AskStatus("COMPLETED")
           b == Ask("operational")
           r == Ask("refresh")
           S == {a, b, r}
<1>1. LineOps(e, lag) = <<a, b>> \o <<r>>
  BY DEF LineOps, HandlerOps
<1>2. LastOps = <<a, b, r>>
  BY DEF LastOps
<1>3. a \in S /\ b \in S /\ r \in S
  OBVIOUS
<1> HIDE DEF a, b, r, S
<1>4. /\ <<a, b>> \in Seq(S) /\ <<r>> \in Seq(S) /\ Len(<<a, b>>) = 2 /\ Len(<<r>>) = 1
      /\ <<a, b>>[1] = a /\ <<a, b>>[2] = b /\ <<r>>[1] = r
      /\ <<a, b, r>> \in Seq(S) /\ Len(<<a, b, r>>) = 3
      /\ <<a, b, r>>[1] = a /\ <<a, b, r>>[2] = b /\ <<a, b, r>>[3] = r
  BY <1>3
<1> DEFINE q == <<a, b>> \o <<r>>
<1>5. /\ q \in Seq(S) /\ Len(q) = 3
      /\ \A i \in 1..3 : q[i] = IF i <= 2 THEN <<a, b>>[i] ELSE <<r>>[i - 2]
  BY <1>4, ConcatProperties
<1> HIDE DEF q
<1>6. q[1] = a /\ q[2] = b /\ q[3] = r
  BY <1>4, <1>5
<1>7. \A i \in 1..Len(q) : q[i] = <<a, b, r>>[i]
  BY <1>4, <1>5, <1>6
<1>8. q = <<a, b, r>>
  BY <1>4, <1>5, <1>7, SeqEqual
<1> QED
  BY <1>1, <1>2, <1>8 DEF q

LEMMA LastOpsArePlain ==
    /\ LastOps \in Seq(PlainOps) /\ SetOps \in Seq(PlainOps) /\ DoneOps \in Seq(PlainOps)
    /\ QuietOps \subseteq PlainOps /\ AfterOps \subseteq PlainOps
    /\ Head(LastOps) = AskStatus("COMPLETED") /\ Tail(LastOps) = DoneOps
    /\ Head(SetOps) = StatusOp("COMPLETED") /\ Tail(SetOps) = DoneOps
    /\ Head(DoneOps) = Ask("operational") /\ Tail(DoneOps) = <<Ask("refresh")>>
<1>1. /\ AskStatus("COMPLETED") \in PlainOps /\ StatusOp("COMPLETED") \in PlainOps
      /\ Ask("operational") \in PlainOps /\ Ask("refresh") \in PlainOps
      /\ Ask("verdict") \in PlainOps /\ Ask("commands") \in PlainOps
  BY AsksArePlain, WritesArePlain DEF Statuses, TerminalStates
<1>2. LastOps \in Seq(PlainOps) /\ SetOps \in Seq(PlainOps) /\ DoneOps \in Seq(PlainOps)
  BY <1>1, ShortSeqs DEF LastOps, SetOps, DoneOps
<1>3. QuietOps \subseteq PlainOps /\ AfterOps \subseteq PlainOps
  BY <1>1, KeysAreKeys, WritesArePlain DEF QuietOps, HungOps, AfterOps, CallCauses
<1>4. \A a, b, r : Head(<<a, b, r>>) = a /\ Tail(<<a, b, r>>) = <<b, r>>
  OBVIOUS
<1>5. \A a, b : Head(<<a, b>>) = a /\ Tail(<<a, b>>) = <<b>>
  OBVIOUS
<1> QED
  BY <1>2, <1>3, <1>4, <1>5 DEF LastOps, SetOps, DoneOps

\* What comes after the head of a queue is still there once the head has given
\* way to other operations.
LEMMA TailKeeps ==
    ASSUME NEW S, NEW q \in Seq(S), q # <<>>, NEW i \in 1..Len(q), i # 1
    PROVE  \E j \in 1..Len(Tail(q)) : Tail(q)[j] = q[i]
<1>1. /\ Len(q) \in Nat \ {0} /\ Len(Tail(q)) = Len(q) - 1
      /\ \A j \in 1..Len(q) - 1 : Tail(q)[j] = q[j + 1]
  BY HeadAndTail
<1>2. i - 1 \in 1..Len(Tail(q)) /\ Tail(q)[i - 1] = q[i]
  BY <1>1
<1> QED
  BY <1>2

LEMMA LaterStay ==
    ASSUME NEW S, NEW q \in Seq(S), q # <<>>, NEW d \in Seq(S), NEW i \in 1..Len(q), i # 1
    PROVE  \E j \in 1..Len(d \o Tail(q)) : (d \o Tail(q))[j] = q[i]
<1> DEFINE rest == Tail(q)
           both == d \o rest
<1>1. /\ rest \in Seq(S) /\ Len(q) \in Nat \ {0} /\ Len(rest) = Len(q) - 1
      /\ \A j \in 1..Len(q) - 1 : rest[j] = q[j + 1]
  BY HeadAndTail
<1> HIDE DEF rest
<1>2. i - 1 \in 1..Len(rest) /\ rest[i - 1] = q[i]
  BY <1>1
<1>3. /\ Len(both) = Len(d) + Len(rest) /\ Len(d) \in Nat /\ Len(rest) \in Nat
      /\ \A j \in 1..Len(d) + Len(rest) : both[j] = IF j <= Len(d) THEN d[j] ELSE rest[j - Len(d)]
  <2>1. Len(d) \in Nat /\ Len(rest) \in Nat
    BY <1>1, LenProperties
  <2>2. /\ Len(both) = Len(d) + Len(rest)
        /\ \A j \in 1..Len(d) + Len(rest) : both[j] = IF j <= Len(d) THEN d[j] ELSE rest[j - Len(d)]
    BY <1>1, ConcatProperties
  <2> QED
    BY <2>1, <2>2
<1> HIDE DEF both
<1>4. PICK n \in Nat : n = Len(d)
  BY <1>3
<1>5. PICK m \in Nat : m = Len(rest)
  BY <1>3
<1>6. n + (i - 1) \in 1..n + m /\ ~(n + (i - 1) <= n) /\ (n + (i - 1)) - n = i - 1
  BY <1>1, <1>2, <1>4, <1>5
<1>7. both[n + (i - 1)] = q[i]
  BY <1>2, <1>3, <1>4, <1>5, <1>6
<1>8. \E j \in 1..Len(both) : both[j] = q[i]
  BY <1>3, <1>4, <1>5, <1>6, <1>7
<1> QED
  BY <1>8 DEF rest, both

\* The operations of AfterOps, by whether they write or ask.
LEMMA AfterKinds ==
    ASSUME NEW op \in AfterOps
    PROVE  /\ op \in PlainWrites =>
                 \/ \E k \in AlertKeys : op = ResolveOp(k)
                 \/ op.write = "attention" /\ op \notin HungOps
                 \/ \E x \in Calls : op = UpsertOp(<<"command-hung", x>>)
           /\ op \in Asks => op \in {Ask("refresh"), Ask("verdict"), Ask("commands")}
           /\ op \in Asks /\ op \in QuietOps => op = Ask("refresh")
           /\ op \in PlainWrites /\ op \in QuietOps => op \notin HungOps
BY DEF AfterOps, QuietOps, HungOps, PlainWrites, Asks, ResolveOp, UpsertOp, Write, Ask

\* What a write of AfterOps does to the status and to the open alerts.
LEMMA AfterWrite ==
    ASSUME NEW s \in Session, NEW op \in AfterOps, op \in PlainWrites
    PROVE  /\ Apply(op, s).status = s.status
           /\ \A k \in OpenAlerts(Apply(op, s)) :
                 /\ k \in OpenAlerts(s) \/ (k[1] \in Tolerated /\ op \in HungOps)
                 /\ op # ResolveOp(k)
<1>1. ASSUME NEW k \in AlertKeys, op = ResolveOp(k)
      PROVE  /\ Apply(op, s) = Resolve(s, k) /\ op \notin HungOps
             /\ \A j \in AlertKeys : j # k => op # ResolveOp(j)
  BY <1>1 DEF Apply, ResolveOp, HungOps, UpsertOp, Write
<1>2. CASE \E k \in AlertKeys : op = ResolveOp(k)
  <2>1. PICK k \in AlertKeys : op = ResolveOp(k)
    BY <1>2
  <2>2. /\ Apply(op, s).status = s.status /\ OpenAlerts(Apply(op, s)) = OpenAlerts(s) \ {k}
    BY <1>1, <2>1, ResolveRow
  <2>3. OpenAlerts(s) \subseteq AlertKeys
    BY DEF OpenAlerts
  <2> QED
    BY <1>1, <2>1, <2>2, <2>3
<1>3. CASE op.write = "attention" /\ op \notin HungOps
  <2>1. Apply(op, s).status = s.status /\ OpenAlerts(Apply(op, s)) = OpenAlerts(s)
    BY <1>3, OtherWrites
  <2>2. \A k : op # ResolveOp(k)
    BY <1>3 DEF ResolveOp, Write
  <2> QED
    BY <2>1, <2>2
<1>4. CASE \E x \in Calls : op = UpsertOp(<<"command-hung", x>>)
  <2>1. PICK x \in Calls : op = UpsertOp(<<"command-hung", x>>)
    BY <1>4
  <2>2. <<"command-hung", x>> \in AlertKeys
    BY KeysAreKeys DEF CallCauses
  <2>3. Apply(op, s) = Upsert(s, <<"command-hung", x>>)
    BY <2>1 DEF Apply, UpsertOp, Write
  <2>4. /\ Apply(op, s).status = s.status
        /\ OpenAlerts(Apply(op, s)) = OpenAlerts(s) \cup {<<"command-hung", x>>}
    BY <2>2, <2>3, UpsertRow
  <2>5. op \in HungOps /\ \A k : op # ResolveOp(k)
    BY <2>1 DEF HungOps, UpsertOp, ResolveOp, Write
  <2> QED
    BY <2>4, <2>5 DEF Tolerated
<1> QED
  BY <1>2, <1>3, <1>4, AfterKinds

\* A thread that only withdraws alerts goes on doing so.
LEMMA QuietStep ==
    ASSUME DOMAIN todo = Threads, session \in Session, NEW t \in Threads, Step(t),
           todo[t] \in Seq(QuietOps)
    PROVE  /\ session'.status = session.status /\ OpenAlerts(session') \subseteq OpenAlerts(session)
           /\ \E q \in Seq(QuietOps) : Left(t, q)
<1>1. QuietOps \subseteq AfterOps
  BY DEF AfterOps
<1>2. todo[t] \in Seq(PlainOps)
  BY LastOpsArePlain, WiderSeq
<1>3. todo[t] # <<>>
  BY <1>2, PlainStep
<1>4. Head(todo[t]) \in QuietOps /\ Tail(todo[t]) \in Seq(QuietOps)
  BY <1>3, HeadAndTail
<1>5. CASE /\ Head(todo[t]) \in PlainWrites /\ session' = Apply(Head(todo[t]), session)
           /\ Left(t, Tail(todo[t]))
  <2>1. Head(todo[t]) \notin HungOps
    BY <1>1, <1>4, <1>5, AfterKinds
  <2>2. /\ Apply(Head(todo[t]), session).status = session.status
        /\ \A k \in OpenAlerts(Apply(Head(todo[t]), session)) : k \in OpenAlerts(session)
    BY <1>1, <1>4, <1>5, <2>1, AfterWrite
  <2>3. /\ session'.status = session.status /\ OpenAlerts(session') \subseteq OpenAlerts(session)
    <3>1. session' = Apply(Head(todo[t]), session)
      BY <1>5
    <3>2. \A k \in OpenAlerts(session') : k \in OpenAlerts(session)
      BY <2>2, <3>1, Zenon
    <3>3. session'.status = session.status
      BY <2>2, <3>1, Zenon
    <3> QED
      BY <3>2, <3>3
  <2> QED
    BY <1>4, <1>5, <2>3, Zenon
<1>6. CASE /\ Head(todo[t]) \in Asks /\ session' = session
           /\ Left(t, Decide(Head(todo[t]), session) \o Tail(todo[t]))
  <2>1. Head(todo[t]) = Ask("refresh")
    BY <1>1, <1>4, <1>6, AfterKinds
  <2>2. Decide(Head(todo[t]), session) = <<Write("attention", Top(session))>>
    <3>1. \A s : Decide(Ask("refresh"), s) = <<Write("attention", Top(s))>>
      BY DEF Decide, Ask
    <3> QED
      BY <2>1, <3>1, Zenon
  <2>3. Write("attention", Top(session)) \in QuietOps
    BY TopIsKey DEF QuietOps
  <2>4. Decide(Head(todo[t]), session) \o Tail(todo[t]) \in Seq(QuietOps)
    BY <1>4, <2>2, <2>3, OneThenRest
  <2> QED
    BY <1>6, <2>4
<1> QED
  BY <1>2, <1>5, <1>6, PlainStep

\* What a read at the end decides: to withdraw, or to raise a hung alert.
LEMMA AfterDecides ==
    ASSUME NEW s \in Session, s.status = "COMPLETED", NEW op \in AfterOps, op \in Asks
    PROVE  Decide(op, s) \in Seq(AfterOps)
<1>1. CASE op = Ask("refresh")
  <2>1. Decide(op, s) = <<Write("attention", Top(s))>>
    BY <1>1 DEF Decide, Ask
  <2>2. Write("attention", Top(s)) \in AfterOps
    BY TopIsKey DEF AfterOps, QuietOps
  <2> QED
    BY <2>1, <2>2, ShortSeqs
<1>2. CASE op = Ask("verdict")
  <2>1. Decide(op, s) = <<ResolveOp(Key("stale"))>>
    BY <1>2 DEF Decide, Ask, VerdictOps, TerminalStates
  <2>2. ResolveOp(Key("stale")) \in AfterOps
    BY KeysAreKeys DEF AfterOps, QuietOps, SessionCauses
  <2> QED
    BY <2>1, <2>2, ShortSeqs
<1>3. CASE op = Ask("commands")
  <2> DEFINE Verdicts == {UpsertOp(<<"command-hung", c>>) : c \in Calls}
                         \cup {ResolveOp(<<"command-hung", c>>) : c \in Calls}
  <2>1. Verdicts \subseteq AfterOps
    BY KeysAreKeys DEF AfterOps, QuietOps, HungOps, CallCauses
  <2>2. Decide(op, s) = CommandVerdicts(s)
    BY <1>3 DEF Decide, Ask
  <2>3. CommandVerdicts(s) \in Seq(Verdicts)
    BY CommandVerdictOps
  <2> QED
    BY <2>1, <2>2, <2>3, WiderSeq
<1> QED
  BY <1>1, <1>2, <1>3, AfterKinds

\* A thread that has completed the session stays at the end.
LEMMA AfterStep ==
    ASSUME DOMAIN todo = Threads, session \in Session, session.status = "COMPLETED",
           NEW t \in Threads, Step(t), AfterEnd(todo[t], session)
    PROVE  session'.status = "COMPLETED" /\ \E q : Left(t, q) /\ AfterEnd(q, session')
<1> DEFINE a == todo[t]
<1>1. a \in Seq(AfterOps) /\ InHand(a, OpenAlerts(session))
  BY DEF AfterEnd
<1>2. todo[t] \in Seq(PlainOps)
  BY <1>1, LastOpsArePlain, WiderSeq
<1>3. a # <<>>
  BY <1>2, PlainStep
<1>4. Head(a) \in AfterOps /\ Head(a) = a[1] /\ Tail(a) \in Seq(AfterOps)
  BY <1>1, <1>3, HeadAndTail
<1>5. CASE /\ Head(a) \in PlainWrites /\ session' = Apply(Head(a), session) /\ Left(t, Tail(a))
  <2>1. /\ session'.status = "COMPLETED"
        /\ \A k \in OpenAlerts(session') : /\ k \in OpenAlerts(session) \/ k[1] \in Tolerated
                                           /\ Head(a) # ResolveOp(k)
    BY <1>4, <1>5, AfterWrite
  <2>2. ASSUME NEW k \in OpenAlerts(session'), k[1] \notin Tolerated
        PROVE  \E j \in 1..Len(Tail(a)) : Tail(a)[j] = ResolveOp(k)
    <3>1. PICK i \in 1..Len(a) : a[i] = ResolveOp(k)
      BY <1>1, <2>1, <2>2 DEF InHand
    <3>2. i # 1
      BY <1>4, <2>1, <3>1
    <3>3. \E j \in 1..Len(Tail(a)) : Tail(a)[j] = a[i]
      BY <1>1, <1>3, <3>2, TailKeeps
    <3> QED
      BY <3>1, <3>3
  <2>3. AfterEnd(Tail(a), session')
    BY <1>4, <2>2 DEF AfterEnd, InHand
  <2> QED
    BY <1>5, <2>1, <2>3
<1>6. CASE /\ Head(a) \in Asks /\ session' = session
           /\ Left(t, Decide(Head(a), session) \o Tail(a))
  <2> DEFINE d == Decide(Head(a), session)
  <2>1. d \in Seq(AfterOps)
    BY <1>4, <1>6, AfterDecides
  <2>2. d \o Tail(a) \in Seq(AfterOps)
    BY <1>4, <2>1, ConcatProperties
  <2> HIDE DEF d
  <2>3. ASSUME NEW k \in OpenAlerts(session), k[1] \notin Tolerated
        PROVE  \E j \in 1..Len(d \o Tail(a)) : (d \o Tail(a))[j] = ResolveOp(k)
    <3>1. PICK i \in 1..Len(a) : a[i] = ResolveOp(k)
      BY <1>1, <2>3 DEF InHand
    <3>2. i # 1
      <4>1. Head(a) # ResolveOp(k)
        BY <1>6 DEF Asks, ResolveOp, Write
      <4> QED
        BY <1>4, <3>1, <4>1
    <3>3. \E j \in 1..Len(d \o Tail(a)) : (d \o Tail(a))[j] = a[i]
      <4>1. \A x, y \in Seq(AfterOps) : \A m : (x # <<>> /\ m \in 1..Len(x) /\ m # 1) =>
                \E j \in 1..Len(y \o Tail(x)) : (y \o Tail(x))[j] = x[m]
        BY LaterStay
      <4> HIDE DEF a
      <4> QED
        BY <1>1, <1>3, <2>1, <3>2, <4>1, Zenon
    <3> QED
      BY <3>1, <3>3
  <2>4. AfterEnd(d \o Tail(a), session)
    BY <2>2, <2>3 DEF AfterEnd, InHand
  <2> QED
    BY <1>6, <2>4 DEF d
<1> QED
  BY <1>2, <1>5, <1>6, PlainStep

\* The completion's last read leaves every alert of its log in hand.
LEMMA DoneStep ==
    ASSUME DOMAIN todo = Threads, session \in Session, NEW t \in Threads, Step(t),
           todo[t] = DoneOps
    PROVE  /\ session' = session
           /\ \E q \in Seq(QuietOps) : Left(t, q) /\ InHand(q, OpenAlerts(session))
<1> DEFINE d == ForEach(ResolveOp, OperationalKeys(session))
           Resolving == {ResolveOp(k) : k \in AlertKeys}
           q == d \o <<Ask("refresh")>>
<1>1. /\ todo[t] \in Seq(PlainOps) /\ Head(todo[t]) = Ask("operational")
      /\ Tail(todo[t]) = <<Ask("refresh")>>
  BY LastOpsArePlain
<1>2. Ask("operational") \notin PlainWrites
  BY DEF Ask, PlainWrites
<1>3. Decide(Ask("operational"), session) = d
  BY DEF Decide, Ask
<1>4. session' = session /\ Left(t, q)
  <2>1. session' = session /\ Left(t, Decide(Head(todo[t]), session) \o Tail(todo[t]))
    BY <1>1, <1>2, PlainStep
  <2> QED
    BY <1>1, <1>3, <2>1
<1>5. /\ d \in Seq(Resolving)
      /\ \A k \in OperationalKeys(session) : \E i \in 1..Len(d) : d[i] = ResolveOp(k)
  BY OperationalOps
<1>6. d \in Seq(QuietOps) /\ <<Ask("refresh")>> \in Seq(QuietOps) /\ Len(<<Ask("refresh")>>) = 1
  <2>1. Resolving \subseteq QuietOps /\ Ask("refresh") \in QuietOps
    BY DEF QuietOps
  <2>2. d \in Seq(QuietOps)
    <3> HIDE DEF d, Resolving
    <3> QED
      BY <1>5, <2>1, WiderSeq
  <2> QED
    BY <2>1, <2>2
<1> HIDE DEF d
<1>7. /\ q \in Seq(QuietOps) /\ Len(q) = Len(d) + 1 /\ Len(d) \in Nat
      /\ \A i \in 1..Len(d) : q[i] = d[i]
  <2>1. Len(d) \in Nat
    BY <1>6, LenProperties
  <2>2. /\ q \in Seq(QuietOps) /\ Len(q) = Len(d) + 1
        /\ \A i \in 1..Len(d) + 1 : q[i] = IF i <= Len(d) THEN d[i]
                                           ELSE <<Ask("refresh")>>[i - Len(d)]
    BY <1>6, ConcatProperties
  <2> HIDE DEF q
  <2> QED
    BY <2>1, <2>2
<1> HIDE DEF q
<1>8. InHand(q, OpenAlerts(session))
  <2> SUFFICES ASSUME NEW k \in OpenAlerts(session), k[1] \notin Tolerated
               PROVE  \E i \in 1..Len(q) : q[i] = ResolveOp(k)
    BY DEF InHand
  <2>1. k \in OperationalKeys(session)
    BY DEF OperationalKeys, Tolerated, Key
  <2>2. PICK i \in 1..Len(d) : d[i] = ResolveOp(k)
    BY <1>5, <2>1
  <2>3. i \in 1..Len(q)
    BY <1>7
  <2> QED
    BY <1>7, <2>2, <2>3
<1> QED
  BY <1>4, <1>7, <1>8

\* A call for the last line, up to the write of the status.
LEMMA OpeningStep ==
    ASSUME DOMAIN todo = Threads, session \in Session, NEW t \in Threads, Step(t),
           todo[t] \in Opening(t)
    PROVE  /\ session'.status \in {session.status, "COMPLETED"}
           /\ OpenAlerts(session') = OpenAlerts(session)
           /\ \/ \E q \in Opening(t) : Left(t, q)
              \/ Left(t, DoneOps) /\ session'.status = "COMPLETED"
              \/ /\ Left(t, <<>>) /\ SourceId(t, Len(log)) \in stored
                 /\ todo[t] \in Entering(t, Len(log))
<1> DEFINE n == Len(log)
<1>1. {LastOps} \in SUBSET Seq(PlainOps)
  BY LastOpsArePlain
<1>2. CASE todo[t] \in Begun(t, n, {LastOps})
  <2>1. /\ session'.status = session.status /\ OpenAlerts(session') = OpenAlerts(session)
        /\ \E q \in Ensured(t, n, {LastOps}) : Left(t, q)
    BY <1>1, <1>2, BegunStep
  <2> QED
    BY <2>1 DEF Opening
<1>3. CASE todo[t] \in Ensured(t, n, {LastOps})
  <2>1. /\ session'.status = session.status /\ OpenAlerts(session') = OpenAlerts(session)
        /\ \/ SourceId(t, n) \in stored /\ Left(t, <<>>)
           \/ Left(t, LastOps)
    BY <1>1, <1>3, EnsuredStep
  <2>2. todo[t] \in Entering(t, n)
    BY <1>1, <1>3 DEF Ensured, Entering
  <2> QED
    BY <2>1, <2>2 DEF Opening
<1>4. CASE todo[t] = LastOps
  <2>1. AskStatus("COMPLETED") \notin PlainWrites
    BY DEF AskStatus, PlainWrites
  <2>2. /\ session' = session
        /\ Left(t, Decide(AskStatus("COMPLETED"), session) \o DoneOps)
    BY <1>4, <2>1, LastOpsArePlain, PlainStep
  <2>3. Decide(AskStatus("COMPLETED"), session) = <<StatusOp("COMPLETED")>>
    BY DEF Decide, AskStatus, StickyStates
  <2>4. <<StatusOp("COMPLETED")>> \o DoneOps = SetOps
    <3>1. \A x, y, z : <<x>> \o <<y, z>> = <<x, y, z>>
      <4> TAKE x, y, z
      <4> DEFINE S == {x, y, z}
      <4>1. /\ <<y, z>> \in Seq(S) /\ x \in S /\ <<x, y, z>> \in Seq(S) /\ Len(<<y, z>>) = 2
            /\ <<y, z>>[1] = y /\ <<y, z>>[2] = z /\ Len(<<x, y, z>>) = 3
            /\ <<x, y, z>>[1] = x /\ <<x, y, z>>[2] = y /\ <<x, y, z>>[3] = z
        OBVIOUS
      <4> HIDE DEF S
      <4> DEFINE q == <<x>> \o <<y, z>>
      <4>2. /\ q \in Seq(S) /\ Len(q) = 3 /\ q[1] = x
            /\ \A i \in 1..2 : q[i + 1] = <<y, z>>[i]
        BY <4>1, OneThenRest
      <4> HIDE DEF q
      <4>3. q[1] = x /\ q[2] = y /\ q[3] = z
        BY <4>1, <4>2
      <4>4. \A i \in 1..Len(q) : q[i] = <<x, y, z>>[i]
        BY <4>1, <4>2, <4>3
      <4>5. q = <<x, y, z>>
        BY <4>1, <4>2, <4>4, SeqEqual
      <4> QED
        BY <4>5 DEF q
    <3> QED
      BY <3>1 DEF DoneOps, SetOps
  <2> QED
    BY <2>2, <2>3, <2>4 DEF Opening
<1>5. CASE todo[t] = SetOps
  <2>1. StatusOp("COMPLETED") \notin Asks
    BY DEF StatusOp, Write, Asks
  <2>2. /\ StatusOp("COMPLETED") \in PlainWrites /\ session' = Apply(StatusOp("COMPLETED"), session)
        /\ Left(t, DoneOps)
    BY <1>5, <2>1, LastOpsArePlain, PlainStep
  <2>3. StatusOp("COMPLETED").write = "status" /\ StatusOp("COMPLETED").arg = "COMPLETED"
    BY DEF StatusOp, Write
  <2>4. session'.status = "COMPLETED" /\ OpenAlerts(session') = OpenAlerts(session)
    BY <2>2, <2>3, StatusWrite
  <2> QED
    BY <2>2, <2>4
<1> QED
  BY <1>2, <1>3, <1>4, <1>5 DEF Opening

----------------------------------------------------------------------------
(* One collector, alone or beside the reader of a managed process.         *)

OneCollector(c) == c # Reader /\ Threads \in {{c}, {c, Reader}}

LEMMA OpeningIsNotEmpty ==
    ASSUME NEW t, NEW q \in Opening(t)
    PROVE  q # <<>>
<1>1. {LastOps} \in SUBSET Seq(PlainOps)
  BY LastOpsArePlain
<1>2. LastOps # <<>> /\ SetOps # <<>>
  BY DEF LastOps, SetOps
<1>3. CASE q \in Begun(t, Len(log), {LastOps})
  BY <1>1, <1>3, BegunOps
<1>4. CASE q \in Ensured(t, Len(log), {LastOps})
  BY <1>1, <1>4, EnsuredOps
<1> QED
  BY <1>2, <1>3, <1>4 DEF Opening

\* A collector between calls that has taken up the completion has shown it.
LEMMA IdleAtEnd ==
    ASSUME NEW c, CollectorAtEnd(c), taken[c] = Len(log), todo[c] = <<>>
    PROVE  session.status = "COMPLETED" /\ \A k \in OpenAlerts(session) : k[1] \in Tolerated
<1>1. <<>> \notin Opening(c) /\ <<>> # DoneOps
  BY OpeningIsNotEmpty DEF DoneOps
<1>2. session.status = "COMPLETED" /\ InHand(<<>>, OpenAlerts(session))
  BY <1>1 DEF CollectorAtEnd, AfterEnd
<1>3. \A i \in 1..Len(<<>>) : FALSE
  OBVIOUS
<1> QED
  BY <1>2, <1>3 DEF InHand

LEMMA InitCompletes ==
    ASSUME NEW c, OneCollector(c), Init
    PROVE  CompletionInv(c)
<1>1. Len(log) \in Nat \ {0}
  BY LogLines DEF Init
<1>2. taken = [t \in Threads |-> 0] /\ stored = {} /\ c \in Threads
  BY DEF Init, OneCollector
<1>3. \A t \in Threads : taken[t] = 0 /\ taken[t] # Len(log)
  BY <1>1, <1>2
<1> QED
  BY <1>2, <1>3 DEF CompletionInv, StoredInOrder, ReaderIsAhead, ReaderAtEnd, CollectorAtEnd

\* The call for the last line begins with the completion's operations to do.
LEMMA LastLineOpens ==
    ASSUME ThreadsInv, CompletingLog, NEW t, NEW lag \in Lags
    PROVE  IngestOps(t, Len(log), lag) \in Opening(t)
<1>1. Len(log) \in 1..Len(log) /\ log[Len(log)] \in Events
  BY LogLines DEF ThreadsInv, ThreadTypes
<1>2. LineOps(log[Len(log)], lag) \in {LastOps} /\ {LastOps} \in SUBSET Seq(PlainOps)
  BY LastLineOps, LastOpsArePlain DEF CompletingLog
<1>3. IngestOps(t, Len(log), lag) \in Begun(t, Len(log), {LastOps})
  BY <1>1, <1>2, IngestBegins
<1> QED
  BY <1>3 DEF Opening

LEMMA TakeLineCompletes ==
    ASSUME NEW c, OneCollector(c), ThreadsInv, CompletionInv(c), NEW t \in Threads, TakeLine(t)
    PROVE  CompletionInv(c)'
<1> SUFFICES ASSUME crashes = 0 PROVE CompletionInv(c)'
  BY DEF CompletionInv, TakeLine
<1> DEFINE n == taken[t] + 1
<1>1. /\ taken \in [Threads -> Nat] /\ DOMAIN todo = Threads /\ Len(log) \in Nat
      /\ \A u \in Threads : taken[u] <= Len(log)
      /\ c \in Threads /\ c # Reader /\ (t = c \/ t = Reader)
  BY LogLines DEF ThreadsInv, ThreadTypes, OneCollector
<1>2. /\ todo[t] = <<>> /\ taken[t] < Len(log)
      /\ taken' = [taken EXCEPT ![t] = taken[t] + 1]
      /\ log' = log /\ session' = session /\ stored' = stored /\ crashes' = crashes /\ exit' = exit
  BY DEF TakeLine, MayBegin, AllIdle, Idle
<1>3. PICK lag \in Lags : Left(t, IngestOps(t, n, lag))
  BY DEF TakeLine, Lags, Left
<1>4. /\ taken'[t] = n /\ todo'[t] = IngestOps(t, n, lag)
      /\ \A u \in Threads : u # t => taken'[u] = taken[u] /\ todo'[u] = todo[u]
  BY <1>1, <1>2, <1>3, LeftOnly
<1>5. CompletingLog /\ n = Len(log) => todo'[t] \in Opening(t)
  BY <1>4, LastLineOpens
<1> HIDE DEF n
<1>6. n \in Nat /\ taken[t] < n /\ n <= Len(log)
  BY <1>1, <1>2 DEF n
<1>7. StoredInOrder(c)'
  <2>1. StoredInOrder(c)
    BY DEF CompletionInv
  <2>2. CASE t = c
    <3>1. \A m \in Nat : m <= taken[c] => m <= n /\ m # n
      BY <1>1, <1>6, <2>2
    <3> QED
      BY <1>2, <1>4, <2>1, <2>2, <3>1 DEF StoredInOrder, SourceId
  <2>3. CASE t # c
    BY <1>1, <1>2, <1>4, <2>1, <2>3 DEF StoredInOrder
  <2> QED
    BY <2>2, <2>3
<1>8. ReaderIsAhead(c)'
  <2> SUFFICES ASSUME Reader \in Threads PROVE taken'[c] <= taken'[Reader]
    BY DEF ReaderIsAhead
  <2>1. taken[c] <= taken[Reader] /\ taken[c] \in Nat /\ taken[Reader] \in Nat
    BY <1>1 DEF CompletionInv, ReaderIsAhead
  <2>2. CASE t = c
    <3>1. taken[c] < taken[Reader]
      BY <1>1, <2>2 DEF TakeLine
    <3> QED
      BY <1>1, <1>4, <2>1, <2>2, <3>1 DEF n
  <2>3. CASE t = Reader
    BY <1>1, <1>4, <1>6, <2>1, <2>3
  <2> QED
    BY <1>1, <2>2, <2>3
<1>9. ASSUME exit = "no", CompletingLog PROVE ReaderAtEnd' /\ CollectorAtEnd(c)'
  <2>1. ReaderAtEnd /\ CollectorAtEnd(c)
    BY <1>9 DEF CompletionInv
  <2>2. \A u : Opening(u)' = Opening(u)
    BY <1>2 DEF Opening, Ensured, Begun, InsertOp, EnsureOp, SourceId
  <2>3. ReaderAtEnd'
    <3> SUFFICES ASSUME Reader \in Threads, taken'[Reader] = Len(log)
                 PROVE  todo'[Reader] \in Opening(Reader) \cup {DoneOps} \cup Seq(QuietOps)
      BY <1>2, <2>2 DEF ReaderAtEnd
    <3> QED
      BY <1>4, <1>5, <1>9, <2>1 DEF ReaderAtEnd
  <2>4. CollectorAtEnd(c)'
    <3> SUFFICES ASSUME taken'[c] = Len(log)
                 PROVE  \/ todo'[c] \in Opening(c)
                        \/ /\ session.status = "COMPLETED"
                           /\ todo'[c] = DoneOps \/ AfterEnd(todo'[c], session)
      BY <1>2, <2>2 DEF CollectorAtEnd
    <3> QED
      BY <1>1, <1>4, <1>5, <1>9, <2>1 DEF CollectorAtEnd
  <2> QED
    BY <2>3, <2>4
<1> QED
  BY <1>2, <1>7, <1>8, <1>9 DEF CompletionInv, CompletingLog

\* Only taken, the stored ids and the collector's own call matter to its order.
LEMMA OrderKept ==
    ASSUME NEW c, StoredInOrder(c), taken' = taken,
           \A n \in Nat : SourceId(c, n) \in stored' => SourceId(c, n) \in stored,
           \A n \in Nat : todo'[c] \in Entering(c, n) => todo[c] \in Entering(c, n)
    PROVE  StoredInOrder(c)'
BY DEF StoredInOrder

LEMMA BeginReconcileCompletes ==
    ASSUME NEW c, OneCollector(c), ThreadsInv, CompletionInv(c), NEW t \in Threads,
           BeginReconcile(t)
    PROVE  CompletionInv(c)'
<1> SUFFICES ASSUME crashes = 0 PROVE CompletionInv(c)'
  BY DEF CompletionInv, BeginReconcile
<1>1. t = c /\ c # Reader /\ DOMAIN todo = Threads /\ todo[c] = <<>>
  BY DEF BeginReconcile, OneCollector, ThreadsInv, ThreadTypes, MayBegin, AllIdle, Idle
<1>2. Left(c, ReconcileOps) /\ UNCHANGED <<log, session, stored, taken, exit, crashes>>
  BY <1>1 DEF BeginReconcile, Left
<1>3. /\ todo'[c] = ReconcileOps
      /\ \A u \in Threads : u # c => todo'[u] = todo[u]
  BY <1>1, <1>2, LeftOnly
<1>4. StoredInOrder(c)'
  <2>1. \A n : ReconcileOps \notin Entering(c, n)
    BY ReconcileOpsArePlain, EnteringIsNotPlain
  <2> QED
    BY <1>2, <1>3, <2>1, OrderKept DEF CompletionInv
<1>5. ASSUME exit = "no", CompletingLog PROVE ReaderAtEnd' /\ CollectorAtEnd(c)'
  <2>1. ReaderAtEnd /\ CollectorAtEnd(c)
    BY <1>5 DEF CompletionInv
  <2>2. \A u : Opening(u)' = Opening(u)
    BY <1>2 DEF Opening
  <2>3. ReaderAtEnd'
    BY <1>1, <1>2, <1>3, <2>1, <2>2 DEF ReaderAtEnd
  <2>4. ASSUME taken[c] = Len(log)
        PROVE  session.status = "COMPLETED" /\ AfterEnd(ReconcileOps, session)
    <3>1. session.status = "COMPLETED" /\ \A k \in OpenAlerts(session) : k[1] \in Tolerated
      BY <1>1, <2>1, <2>4, IdleAtEnd
    <3>2. ReconcileOps \in Seq(AfterOps)
      <4>1. Ask("verdict") \in AfterOps /\ Ask("commands") \in AfterOps
        BY DEF AfterOps
      <4> QED
        BY <4>1, ShortSeqs DEF ReconcileOps
    <3> QED
      BY <3>1, <3>2 DEF AfterEnd, InHand
  <2>5. CollectorAtEnd(c)'
    BY <1>2, <1>3, <2>4 DEF CollectorAtEnd
  <2> QED
    BY <2>3, <2>5
<1>6. ReaderIsAhead(c)'
  BY <1>2 DEF CompletionInv, ReaderIsAhead
<1> QED
  BY <1>2, <1>4, <1>5, <1>6 DEF CompletionInv, CompletingLog

LEMMA BeginExitCompletes ==
    ASSUME NEW c, OneCollector(c), ThreadsInv, CompletionInv(c),
           NEW how \in {"cancelled", "success", "failure"}, BeginExit(how)
    PROVE  CompletionInv(c)'
<1> SUFFICES ASSUME crashes = 0 PROVE CompletionInv(c)'
  BY DEF CompletionInv, BeginExit
<1>1. /\ c # Reader /\ c \in Threads /\ Reader \in Threads /\ DOMAIN todo = Threads
      /\ exit' = how /\ UNCHANGED <<log, session, stored, taken, crashes>>
      /\ Left(Reader, <<[ask |-> "exit", how |-> how]>>)
  BY DEF BeginExit, OneCollector, ThreadsInv, ThreadTypes, Left
<1>2. todo'[c] = todo[c]
  BY <1>1, LeftOnly
<1>3. StoredInOrder(c)'
  BY <1>1, <1>2, OrderKept DEF CompletionInv
<1>4. ReaderIsAhead(c)' /\ exit' # "no"
  BY <1>1 DEF CompletionInv, ReaderIsAhead
<1> QED
  BY <1>3, <1>4 DEF CompletionInv

\* The reader's own steps at the end complete the session or withdraw alerts.
LEMMA ReaderStep ==
    ASSUME DOMAIN todo = Threads, session \in Session, Reader \in Threads, Step(Reader),
           todo[Reader] \in Opening(Reader) \cup {DoneOps} \cup Seq(QuietOps)
    PROVE  /\ session'.status \in {session.status, "COMPLETED"}
           /\ OpenAlerts(session') \subseteq OpenAlerts(session)
           /\ todo'[Reader] \in Opening(Reader) \cup {DoneOps} \cup Seq(QuietOps)
<1>1. <<>> \in Seq(QuietOps)
  OBVIOUS
<1>2. CASE todo[Reader] \in Opening(Reader)
  <2>1. /\ session'.status \in {session.status, "COMPLETED"}
        /\ OpenAlerts(session') = OpenAlerts(session)
        /\ \/ \E q \in Opening(Reader) : Left(Reader, q)
           \/ Left(Reader, DoneOps)
           \/ Left(Reader, <<>>)
    BY <1>2, OpeningStep
  <2>2. PICK q \in Opening(Reader) \cup {DoneOps} \cup Seq(QuietOps) : Left(Reader, q)
    BY <1>1, <2>1
  <2>3. todo'[Reader] = q
    BY <2>2, LeftOnly
  <2> QED
    BY <2>1, <2>2, <2>3
<1>3. CASE todo[Reader] = DoneOps
  BY <1>3, DoneStep, LeftOnly
<1>4. CASE todo[Reader] \in Seq(QuietOps)
  BY <1>4, QuietStep, LeftOnly
<1> QED
  BY <1>2, <1>3, <1>4

LEMMA ReaderStepCompletes ==
    ASSUME NEW c, OneCollector(c), ThreadsInv, CompletionInv(c), Reader \in Threads, Step(Reader)
    PROVE  CompletionInv(c)'
<1> SUFFICES ASSUME crashes = 0 PROVE CompletionInv(c)'
  BY DEF CompletionInv, Step
<1>1. /\ c # Reader /\ c \in Threads /\ DOMAIN todo = Threads /\ session \in Session
      /\ UNCHANGED <<log, taken, exit, crashes>>
  BY DEF Step, OneCollector, ThreadsInv, ThreadTypes
<1>2. todo'[c] = todo[c] /\ stored' \subseteq stored \cup {SourceId(Reader, taken[Reader])}
  BY <1>1, StepShape, LeftOnly DEF ThreadsInv
<1>3. StoredInOrder(c)'
  <2>1. \A n : SourceId(c, n) # SourceId(Reader, taken[Reader])
    BY <1>1 DEF SourceId
  <2> QED
    BY <1>1, <1>2, <2>1, OrderKept DEF CompletionInv
<1>4. ASSUME exit = "no", CompletingLog PROVE ReaderAtEnd' /\ CollectorAtEnd(c)'
  <2>1. ReaderAtEnd /\ CollectorAtEnd(c)
    BY <1>4 DEF CompletionInv
  <2>2. \A u : Opening(u)' = Opening(u)
    BY <1>1 DEF Opening
  <2>3. ReaderAtEnd'
    BY <1>1, <2>1, <2>2, ReaderStep DEF ReaderAtEnd
  <2>4. ASSUME taken[c] = Len(log)
        PROVE  /\ session'.status \in {session.status, "COMPLETED"}
               /\ OpenAlerts(session') \subseteq OpenAlerts(session)
    <3>1. taken[Reader] = Len(log)
      <4>1. taken[Reader] \in Nat /\ taken[Reader] <= Len(log) /\ taken[c] <= taken[Reader]
            /\ Len(log) \in Nat
        BY LogLines DEF ThreadsInv, ThreadTypes, CompletionInv, ReaderIsAhead
      <4> QED
        BY <2>4, <4>1
    <3>2. todo[Reader] \in Opening(Reader) \cup {DoneOps} \cup Seq(QuietOps)
      BY <2>1, <3>1 DEF ReaderAtEnd
    <3> QED
      BY <1>1, <3>2, ReaderStep
  <2>5. CollectorAtEnd(c)'
    <3>1. \A q : taken[c] = Len(log) /\ AfterEnd(q, session) => AfterEnd(q, session')
      BY <2>4 DEF AfterEnd, InHand
    <3> QED
      BY <1>1, <1>2, <2>1, <2>2, <2>4, <3>1 DEF CollectorAtEnd
  <2> QED
    BY <2>3, <2>5
<1>5. ReaderIsAhead(c)'
  BY <1>1 DEF CompletionInv, ReaderIsAhead
<1> QED
  BY <1>1, <1>3, <1>4, <1>5 DEF CompletionInv, CompletingLog

LEMMA CollectorStepKeepsOrder ==
    ASSUME NEW c, c \in Threads, ThreadsInv, StoredInOrder(c), Step(c)
    PROVE  StoredInOrder(c)'
<1>1. DOMAIN todo = Threads /\ taken[c] \in Nat /\ taken' = taken
  BY DEF ThreadsInv, ThreadTypes, Step
<1>2. PICK q :
         /\ Left(c, q)
         /\ \/ q \in Seq(PlainOps) /\ stored' = stored
            \/ todo[c] \in Entering(c, taken[c]) /\ stored' = stored
            \/ q \in Seq(PlainOps) /\ stored' = stored \cup {SourceId(c, taken[c])}
  BY StepShape DEF ThreadsInv
<1>3. todo'[c] = q
  BY <1>1, <1>2, LeftOnly
<1>4. \A n : q \in Seq(PlainOps) => q \notin Entering(c, n)
  BY EnteringIsNotPlain
<1>5. \A n : SourceId(c, n) = SourceId(c, taken[c]) => n = taken[c]
  BY DEF SourceId
<1> QED
  BY <1>1, <1>2, <1>3, <1>4, <1>5 DEF StoredInOrder

\* The collector's own steps at the end: its line is new, so it is projected.
LEMMA CollectorStep ==
    ASSUME NEW c, c \in Threads, ThreadsInv, StoredInOrder(c), Step(c), CollectorAtEnd(c),
           taken[c] = Len(log)
    PROVE  \/ todo'[c] \in Opening(c)
           \/ session'.status = "COMPLETED" /\ (todo'[c] = DoneOps \/ AfterEnd(todo'[c], session'))
<1>1. DOMAIN todo = Threads /\ session \in Session /\ Len(log) \in Nat
  BY LogLines DEF ThreadsInv, ThreadTypes
<1>2. CASE todo[c] \in Opening(c)
  <2>1. ~(SourceId(c, Len(log)) \in stored /\ todo[c] \in Entering(c, Len(log)))
    BY <1>1 DEF StoredInOrder
  <2>2. \/ \E q \in Opening(c) : Left(c, q)
        \/ Left(c, DoneOps) /\ session'.status = "COMPLETED"
    BY <1>1, <1>2, <2>1, OpeningStep
  <2>3. CASE \E q \in Opening(c) : Left(c, q)
    <3>1. PICK q \in Opening(c) : Left(c, q)
      BY <2>3
    <3>2. todo'[c] = q
      BY <1>1, <3>1, LeftOnly
    <3> QED
      BY <3>2
  <2>4. CASE Left(c, DoneOps) /\ session'.status = "COMPLETED"
    <3>1. todo'[c] = DoneOps
      BY <1>1, <2>4, LeftOnly
    <3> QED
      BY <2>4, <3>1
  <2> QED
    BY <2>2, <2>3, <2>4
<1>3. CASE session.status = "COMPLETED" /\ todo[c] = DoneOps
  <2>1. session' = session
    BY <1>1, <1>3, DoneStep
  <2>2. PICK q \in Seq(QuietOps) : Left(c, q) /\ InHand(q, OpenAlerts(session))
    BY <1>1, <1>3, DoneStep
  <2>3. todo'[c] = q
    BY <1>1, <2>2, LeftOnly
  <2>4. q \in Seq(AfterOps)
    <3>1. QuietOps \subseteq AfterOps
      BY DEF AfterOps
    <3> QED
      BY <3>1, WiderSeq
  <2> QED
    BY <1>3, <2>1, <2>2, <2>3, <2>4 DEF AfterEnd
<1>4. CASE session.status = "COMPLETED" /\ AfterEnd(todo[c], session)
  <2>1. PICK q : session'.status = "COMPLETED" /\ Left(c, q) /\ AfterEnd(q, session')
    BY <1>1, <1>4, AfterStep
  <2>2. todo'[c] = q
    BY <1>1, <2>1, LeftOnly
  <2> QED
    BY <2>1, <2>2
<1> QED
  BY <1>2, <1>3, <1>4 DEF CollectorAtEnd

LEMMA CollectorStepCompletes ==
    ASSUME NEW c, OneCollector(c), ThreadsInv, CompletionInv(c), Step(c)
    PROVE  CompletionInv(c)'
<1> SUFFICES ASSUME crashes = 0 PROVE CompletionInv(c)'
  BY DEF CompletionInv, Step
<1>1. /\ c # Reader /\ c \in Threads /\ DOMAIN todo = Threads
      /\ UNCHANGED <<log, taken, exit, crashes>>
  BY DEF Step, OneCollector, ThreadsInv, ThreadTypes
<1>2. \A u \in Threads : u # c => todo'[u] = todo[u]
  BY <1>1, StepShape, LeftOnly DEF ThreadsInv
<1>3. StoredInOrder(c)'
  BY <1>1, CollectorStepKeepsOrder DEF CompletionInv
<1>4. ASSUME exit = "no", CompletingLog PROVE ReaderAtEnd' /\ CollectorAtEnd(c)'
  <2>1. ReaderAtEnd /\ CollectorAtEnd(c) /\ StoredInOrder(c)
    BY <1>4 DEF CompletionInv
  <2>2. \A u : Opening(u)' = Opening(u)
    BY <1>1 DEF Opening
  <2>3. ReaderAtEnd'
    BY <1>1, <1>2, <2>1, <2>2 DEF ReaderAtEnd
  <2>4. CollectorAtEnd(c)'
    BY <1>1, <2>1, <2>2, CollectorStep DEF CollectorAtEnd
  <2> QED
    BY <2>3, <2>4
<1>5. ReaderIsAhead(c)'
  BY <1>1 DEF CompletionInv, ReaderIsAhead
<1> QED
  BY <1>1, <1>3, <1>4, <1>5 DEF CompletionInv, CompletingLog

\* Neither the clock nor a stutter is part of a call.
LEMMA ApartCompletes ==
    ASSUME NEW c, CompletionInv(c), UNCHANGED <<log, stored, taken, todo, exit, crashes>>,
           session'.status = session.status, OpenAlerts(session') = OpenAlerts(session)
    PROVE  CompletionInv(c)'
<1>1. StoredInOrder(c) => StoredInOrder(c)'
  BY DEF StoredInOrder
<1>2. \A u : Opening(u)' = Opening(u)
  BY DEF Opening
<1>3. ReaderAtEnd => ReaderAtEnd'
  BY <1>2 DEF ReaderAtEnd
<1>4. CollectorAtEnd(c) => CollectorAtEnd(c)'
  <2>1. \A q : AfterEnd(q, session) => AfterEnd(q, session')
    BY DEF AfterEnd
  <2> QED
    BY <1>2, <2>1 DEF CollectorAtEnd
<1>5. ReaderIsAhead(c) => ReaderIsAhead(c)'
  BY DEF ReaderIsAhead
<1> QED
  BY <1>1, <1>3, <1>4, <1>5 DEF CompletionInv, CompletingLog

LEMMA NextCompletes ==
    ASSUME NEW c, OneCollector(c), ThreadsInv, CompletionInv(c), [Next]_vars
    PROVE  CompletionInv(c)'
<1>1. ASSUME NEW t \in Threads, TakeLine(t) PROVE CompletionInv(c)'
  BY <1>1, TakeLineCompletes
<1>2. ASSUME NEW t \in Threads, BeginReconcile(t) PROVE CompletionInv(c)'
  BY <1>2, BeginReconcileCompletes
<1>3. ASSUME NEW t \in Threads, Step(t) PROVE CompletionInv(c)'
  <2>1. t = c \/ t = Reader
    BY DEF OneCollector
  <2>2. CASE t = c
    BY <1>3, <2>2, CollectorStepCompletes
  <2>3. CASE t = Reader
    BY <1>3, <2>3, ReaderStepCompletes
  <2> QED
    BY <2>1, <2>2, <2>3
<1>4. ASSUME NEW how \in {"cancelled", "success", "failure"}, BeginExit(how)
      PROVE  CompletionInv(c)'
  BY <1>4, BeginExitCompletes
<1>5. CASE Tick
  <2>1. session'.status = session.status /\ OpenAlerts(session') = OpenAlerts(session)
    BY <1>5, TickRow DEF ThreadsInv, ThreadTypes
  <2>2. UNCHANGED <<log, stored, taken, todo, exit, crashes>>
    BY <1>5 DEF Tick
  <2> QED
    BY <2>1, <2>2, ApartCompletes
<1>6. CASE Crash
  <2>1. crashes' # 0
    BY <1>6 DEF Crash, ThreadsInv, ThreadTypes
  <2> QED
    BY <2>1 DEF CompletionInv
<1>7. CASE UNCHANGED vars
  <2>1. session' = session /\ UNCHANGED <<log, stored, taken, todo, exit, crashes>>
    BY <1>7 DEF vars
  <2> QED
    BY <2>1, ApartCompletes
<1> QED
  BY <1>1, <1>2, <1>3, <1>4, <1>5, <1>6, <1>7 DEF Next

\* One collector, alone or beside the reader: until a crash or the process's
\* exit, whoever has taken up the completion is on its way to COMPLETED, the
\* collector last (engine.py:89, the handler of session.completed).
THEOREM CompletionIsFollowed ==
    ASSUME NEW c, OneCollector(c)
    PROVE  Spec => [](ThreadsInv /\ CompletionInv(c))
<1>1. Init => ThreadsInv /\ CompletionInv(c)
  BY InitIsSound, InitCompletes
<1>2. ThreadsInv /\ CompletionInv(c) /\ [Next]_vars => (ThreadsInv /\ CompletionInv(c))'
  BY NextIsSound, NextCompletes
<1> QED
  BY <1>1, <1>2, PTL DEF Spec

LEMMA CaughtUpIsDone ==
    ASSUME NEW c, OneCollector(c), CompletionInv(c), CaughtUp, crashes = 0, exit = "no",
           CompletingLog
    PROVE  session.status = "COMPLETED" /\ \A k \in OpenAlerts(session) : k[1] \in Tolerated
<1>1. taken[c] = Len(log) /\ todo[c] = <<>>
  BY DEF CaughtUp, AllIdle, Idle, OneCollector
<1>2. CollectorAtEnd(c)
  BY DEF CompletionInv
<1> QED
  BY <1>1, <1>2, IdleAtEnd

\* A log that ends in the completion is shown COMPLETED once it has been read,
\* whatever a poll or the reader wrote in the middle of the collector's calls.
THEOREM CompletionRestored ==
    ASSUME NEW c, OneCollector(c)
    PROVE  Spec => []CompletionIsRestored
<1>1. ThreadsInv /\ CompletionInv(c) => CompletionIsRestored
  BY CaughtUpIsDone DEF CompletionIsRestored, CompletionIsShown, CompletingLog
<1> QED
  BY <1>1, CompletionIsFollowed, PTL

\* Nor is an alert of its log left open, other than those the engine keeps
\* (_resolve_all_operational_alerts reads its list before it resolves).
THEOREM DemandsWithdrawn ==
    ASSUME NEW c, OneCollector(c)
    PROVE  Spec => []DemandsAreWithdrawn
<1>1. ThreadsInv /\ CompletionInv(c) => DemandsAreWithdrawn
  BY CaughtUpIsDone DEF DemandsAreWithdrawn, CompletingLog, Tolerated
<1> QED
  BY <1>1, CompletionIsFollowed, PTL

----------------------------------------------------------------------------
(* The abstract engine is SessionState's too: an instance has its own copies *)
(* of the operators, which are the same.                                    *)

LEMMA SameNames ==
    /\ Abstract!TerminalStates = TerminalStates /\ Abstract!StickyStates = StickyStates
    /\ Abstract!WaitingStates = WaitingStates /\ Abstract!Statuses = Statuses
    /\ Abstract!AlertKeys = AlertKeys /\ \A cause : Abstract!Key(cause) = Key(cause)
    /\ Abstract!WaitingKeys = WaitingKeys /\ Abstract!Events = Events
BY DEF TerminalStates, Abstract!TerminalStates, StickyStates, Abstract!StickyStates,
       WaitingStates, Abstract!WaitingStates, Statuses, Abstract!Statuses,
       SessionCauses, Abstract!SessionCauses, CallCauses, Abstract!CallCauses,
       AlertKeys, Abstract!AlertKeys, Key, Abstract!Key, WaitingKeys, Abstract!WaitingKeys,
       PlainKinds, Abstract!PlainKinds, Events, Abstract!Events

LEMMA SameTransactions ==
    /\ \A s : Abstract!OpenAlerts(s) = OpenAlerts(s) /\ Abstract!Top(s) = Top(s)
    /\ \A s, k : Abstract!Upsert(s, k) = Upsert(s, k) /\ Abstract!Resolve(s, k) = Resolve(s, k)
    /\ \A s, K : Abstract!ResolveAll(s, K) = ResolveAll(s, K)
    /\ \A s, c, to, lag : Abstract!UpsertCommand(s, c, to, lag) = UpsertCommand(s, c, to, lag)
    /\ \A s : Abstract!RefreshAttention(s) = RefreshAttention(s)
    /\ \A s, to : Abstract!SetStatus(s, to) = SetStatus(s, to)
    /\ \A s, test : Abstract!AddTestRun(s, test) = AddTestRun(s, test)
    /\ \A s, lag : Abstract!Seen(s, lag) = Seen(s, lag)
<1>1. \A s : Abstract!OpenAlerts(s) = OpenAlerts(s)
  BY SameNames DEF OpenAlerts, Abstract!OpenAlerts
<1>2. \A s, k : Abstract!Rank(s, k) = Rank(s, k)
  BY DEF Rank, Abstract!Rank
<1>3. \A s : Abstract!Top(s) = Top(s)
  BY <1>1, <1>2 DEF Top, Abstract!Top, OpenAlerts, Abstract!OpenAlerts, Rank, Abstract!Rank,
     AlertKeys, Abstract!AlertKeys, SessionCauses, Abstract!SessionCauses, CallCauses, Abstract!CallCauses
<1>4. \A s, K : Abstract!ResolveAll(s, K) = ResolveAll(s, K)
  BY <1>3, SameNames DEF ResolveAll, Abstract!ResolveAll
<1>5. \A s, k : Abstract!Resolve(s, k) = Resolve(s, k)
  BY <1>4 DEF Resolve, Abstract!Resolve
<1>6. \A s : Abstract!RefreshAttention(s) = RefreshAttention(s)
  BY <1>3 DEF RefreshAttention, Abstract!RefreshAttention
<1>7. \A s, k : Abstract!Upsert(s, k) = Upsert(s, k)
  BY DEF Upsert, Abstract!Upsert
<1>8. \A s, c, to, lag : Abstract!UpsertCommand(s, c, to, lag) = UpsertCommand(s, c, to, lag)
  BY DEF UpsertCommand, Abstract!UpsertCommand
<1>9. \A s, to : Abstract!SetStatus(s, to) = SetStatus(s, to)
  BY SameNames DEF SetStatus, Abstract!SetStatus
<1>10. /\ \A s, test : Abstract!AddTestRun(s, test) = AddTestRun(s, test)
       /\ \A s, lag : Abstract!Seen(s, lag) = Seen(s, lag)
  BY DEF AddTestRun, Abstract!AddTestRun, Seen, Abstract!Seen
<1> QED
  BY <1>1, <1>3, <1>4, <1>5, <1>6, <1>7, <1>8, <1>9, <1>10

LEMMA SameHandlers ==
    \A s, e, lag : Abstract!Project(s, e, lag) = Project(s, e, lag)
<1>1. \A s : Abstract!ResolveWaiting(s) = ResolveWaiting(s)
  BY SameNames, SameTransactions DEF ResolveWaiting, Abstract!ResolveWaiting
<1>2. \A s : Abstract!ResolveOperational(s) = ResolveOperational(s)
  <2>1. \A s : Abstract!OperationalKeys(s) = OperationalKeys(s)
    BY SameNames, SameTransactions DEF OperationalKeys, Abstract!OperationalKeys
  <2> QED
    BY <2>1, SameTransactions DEF ResolveOperational, Abstract!ResolveOperational
<1>3. \A s, kind : Abstract!ProjectMetadata(s, kind) = ProjectMetadata(s, kind)
  BY DEF ProjectMetadata, Abstract!ProjectMetadata
<1>4. \A s : Abstract!ProjectTurnCompleted(s) = ProjectTurnCompleted(s)
  BY SameNames, SameTransactions DEF ProjectTurnCompleted, Abstract!ProjectTurnCompleted
<1>5. \A s : Abstract!ProjectUserMessage(s) = ProjectUserMessage(s)
  BY <1>1, SameNames DEF ProjectUserMessage, Abstract!ProjectUserMessage
<1>6. /\ \A s, c, lag : Abstract!CommandStarted(s, c, lag) = CommandStarted(s, c, lag)
      /\ \A s, c, lag : Abstract!CommandOutput(s, c, lag) = CommandOutput(s, c, lag)
  BY SameTransactions DEF CommandStarted, Abstract!CommandStarted, CommandOutput, Abstract!CommandOutput
<1>7. \A s : Abstract!UpdateTestAlert(s) = UpdateTestAlert(s)
  BY SameNames, SameTransactions DEF UpdateTestAlert, Abstract!UpdateTestAlert
<1>8. \A s, c, lag, failed, test :
         Abstract!CommandCompleted(s, c, lag, failed, test) = CommandCompleted(s, c, lag, failed, test)
  BY <1>7, SameNames, SameTransactions DEF CommandCompleted, Abstract!CommandCompleted
<1>9. \A s, c, failed : Abstract!ToolCompleted(s, c, failed) = ToolCompleted(s, c, failed)
  BY SameTransactions DEF ToolCompleted, Abstract!ToolCompleted
<1> QED
  BY <1>1, <1>2, <1>3, <1>4, <1>5, <1>6, <1>8, <1>9, SameNames, SameTransactions
  DEF Project, Abstract!Project

LEMMA SameSteps ==
    /\ \A s, e, lag : Abstract!IngestNew(s, e, lag) = IngestNew(s, e, lag)
    /\ \A s : Abstract!Reconciled(s) = Reconciled(s)
    /\ \A s : Abstract!ProcessStarted(s) = ProcessStarted(s)
    /\ \A s, how : Abstract!ProcessExited(s, how) = ProcessExited(s, how)
    /\ \A age : Abstract!Older(age) = Older(age) /\ Abstract!NewSession(age) = NewSession(age)
<1>1. \A s, e, lag : Abstract!IngestNew(s, e, lag) = IngestNew(s, e, lag)
  BY SameTransactions, SameHandlers DEF IngestNew, Abstract!IngestNew
<1>2. \A s : Abstract!RunningCommands(s) = RunningCommands(s)
  BY DEF RunningCommands, Abstract!RunningCommands
<1>3. \A s : Abstract!ReconcileSession(s) = ReconcileSession(s)
  BY SameNames, SameTransactions DEF ReconcileSession, Abstract!ReconcileSession
<1>4. \A s : Abstract!JudgeCommands(s) = JudgeCommands(s)
  BY <1>2, SameNames DEF JudgeCommands, Abstract!JudgeCommands
<1>5. \A s : Abstract!Reconciled(s) = Reconciled(s)
  BY <1>2, <1>3, <1>4, SameTransactions DEF Reconciled, Abstract!Reconciled
<1>6. /\ \A s : Abstract!ProcessStarted(s) = ProcessStarted(s)
      /\ \A age : Abstract!Older(age) = Older(age) /\ Abstract!NewSession(age) = NewSession(age)
  BY SameNames DEF ProcessStarted, Abstract!ProcessStarted, Older, Abstract!Older,
                   NewSession, Abstract!NewSession
<1>7. \A s, how : Abstract!ProcessExited(s, how) = ProcessExited(s, how)
  BY SameNames, SameTransactions DEF ProcessExited, Abstract!ProcessExited
<1> QED
  BY <1>1, <1>5, <1>6, <1>7
----------------------------------------------------------------------------
(* Where a queue of operations leads when nothing else touches the row.     *)

Places == Seq(PlainOps) \X Session

\* What one transaction, or one read, makes of a queue and a row.
Following(q, s) ==
    IF Head(q) \in PlainWrites THEN <<Tail(q), Apply(Head(q), s)>>
    ELSE <<Decide(Head(q), s) \o Tail(q), s>>

\* A set of places that is closed under Following and ends in row r only.
Path(P, r) == \A p \in P : IF p[1] = <<>> THEN p[2] = r ELSE Following(p[1], p[2]) \in P

Leads(q, s, r) == \E P \in SUBSET Places : <<q, s>> \in P /\ Path(P, r)

\* Operations w make row u of row s, whatever is to be done after them.
Does(w, s, u) ==
    /\ w \in Seq(PlainOps) /\ u \in Session
    /\ \A rest \in Seq(PlainOps) : \A r : Leads(rest, u, r) => Leads(w \o rest, s, r)

LEMMA WritesAreNoAsks ==
    /\ \A op \in PlainWrites : op \in PlainOps
    /\ \A op \in Asks : op \in PlainOps /\ op \notin PlainWrites
<1>1. \A op \in PlainWrites : "write" \in DOMAIN op
  BY DEF PlainWrites
<1>2. \A op \in Asks : "write" \notin DOMAIN op
  BY DEF Asks
<1> QED
  BY <1>1, <1>2 DEF PlainOps

LEMMA FollowingIsPlace ==
    ASSUME NEW q \in Seq(PlainOps), q # <<>>, NEW s \in Session
    PROVE  Following(q, s) \in Places
<1>1. Head(q) \in PlainOps /\ Tail(q) \in Seq(PlainOps)
  BY HeadAndTail
<1>2. CASE Head(q) \in PlainWrites
  BY <1>1, <1>2, WritesKeepRow DEF Following, Places
<1>3. CASE Head(q) \notin PlainWrites
  <2>1. Decide(Head(q), s) \in Seq(PlainOps)
    BY <1>1, <1>3, DecidedOpsArePlain DEF PlainOps
  <2>2. Decide(Head(q), s) \o Tail(q) \in Seq(PlainOps)
    BY <1>1, <2>1, ConcatProperties
  <2> QED
    BY <1>3, <2>2 DEF Following, Places
<1> QED
  BY <1>2, <1>3

LEMMA LeadsEnds ==
    ASSUME NEW s, NEW r, Leads(<<>>, s, r)
    PROVE  s = r
BY DEF Leads, Path

LEMMA LeadsOn ==
    ASSUME NEW q, q # <<>>, NEW s, NEW r, Leads(q, s, r)
    PROVE  Leads(Following(q, s)[1], Following(q, s)[2], r)
<1>1. PICK P \in SUBSET Places : <<q, s>> \in P /\ Path(P, r)
  BY DEF Leads
<1>2. Following(q, s) \in P
  BY <1>1 DEF Path
<1>3. Following(q, s) = <<Following(q, s)[1], Following(q, s)[2]>>
  BY DEF Following
<1> QED
  BY <1>1, <1>2, <1>3, Zenon DEF Leads

LEMMA LeadsBack ==
    ASSUME NEW q \in Seq(PlainOps), q # <<>>, NEW s \in Session, NEW r,
           Leads(Following(q, s)[1], Following(q, s)[2], r)
    PROVE  Leads(q, s, r)
<1>1. PICK P \in SUBSET Places :
         <<Following(q, s)[1], Following(q, s)[2]>> \in P /\ Path(P, r)
  BY DEF Leads
<1>2. Following(q, s) = <<Following(q, s)[1], Following(q, s)[2]>>
  BY DEF Following
<1> DEFINE R == P \cup {<<q, s>>}
<1>3. R \in SUBSET Places /\ <<q, s>> \in R
  BY DEF Places
<1>4. Path(R, r)
  <2> SUFFICES ASSUME NEW p \in R
               PROVE  IF p[1] = <<>> THEN p[2] = r ELSE Following(p[1], p[2]) \in R
    BY DEF Path
  <2>1. CASE p \in P
    BY <1>1, <2>1 DEF Path
  <2>2. CASE p = <<q, s>>
    <3>1. Following(q, s) \in R
      BY <1>1, <1>2
    <3>2. p[1] = q /\ p[2] = s
      BY <2>2
    <3> HIDE DEF R
    <3> QED
      BY <3>1, <3>2
  <2> QED
    BY <2>1, <2>2
<1> HIDE DEF R
<1> QED
  BY <1>3, <1>4 DEF Leads

LEMMA LeadsNowhere ==
    ASSUME NEW s \in Session
    PROVE  Leads(<<>>, s, s)
<1> DEFINE P == {<<<<>>, s>>}
<1>1. P \in SUBSET Places /\ <<<<>>, s>> \in P
  <2>1. <<>> \in Seq(PlainOps)
    OBVIOUS
  <2>2. \A q \in Seq(PlainOps) : {<<q, s>>} \in SUBSET Places /\ <<q, s>> \in {<<q, s>>}
    BY DEF Places
  <2> QED
    BY <2>1, <2>2, Zenon
<1>2. Path(P, s)
  BY DEF Path
<1> QED
  BY <1>1, <1>2 DEF Leads

\* A place of a path is a place.
LEMMA LeadsFromPlace ==
    ASSUME NEW q, NEW s, NEW r, Leads(q, s, r)
    PROVE  q \in Seq(PlainOps) /\ s \in Session
BY DEF Leads, Places

----------------------------------------------------------------------------
(* Writes, reads and sequences of them.                                    *)

LEMMA DoesNothing ==
    ASSUME NEW s \in Session
    PROVE  Does(<<>>, s, s)
<1>1. <<>> \in Seq(PlainOps) /\ \A rest \in Seq(PlainOps) : <<>> \o rest = rest
  BY ShortSeqs, ConcatEmptySeq
<1> QED
  BY <1>1 DEF Does

LEMMA DoesWrite ==
    ASSUME NEW op \in PlainWrites, NEW s \in Session
    PROVE  Does(<<op>>, s, Apply(op, s))
<1>1. op \in PlainOps /\ <<op>> \in Seq(PlainOps) /\ Apply(op, s) \in Session
  BY WritesKeepRow, WritesAreNoAsks, ShortSeqs
<1>2. ASSUME NEW rest \in Seq(PlainOps), NEW r, Leads(rest, Apply(op, s), r)
      PROVE  Leads(<<op>> \o rest, s, r)
  <2> DEFINE q == <<op>> \o rest
  <2>1. q \in Seq(PlainOps) /\ q # <<>> /\ Head(q) = op /\ Tail(q) = rest
    BY <1>1, OneThenRest
  <2> HIDE DEF q
  <2>2. Following(q, s) = <<rest, Apply(op, s)>>
    BY <2>1 DEF Following
  <2>3. Following(q, s)[1] = rest /\ Following(q, s)[2] = Apply(op, s)
    BY <2>2
  <2>4. Leads(q, s, r)
    BY <1>2, <2>1, <2>3, LeadsBack
  <2> QED
    BY <2>4 DEF q
<1> QED
  BY <1>1, <1>2 DEF Does

LEMMA DoesAsk ==
    ASSUME NEW op \in Asks, NEW s \in Session, NEW u, Does(Decide(op, s), s, u)
    PROVE  Does(<<op>>, s, u)
<1>1. op \in PlainOps /\ op \notin PlainWrites /\ <<op>> \in Seq(PlainOps) /\ u \in Session
  BY WritesAreNoAsks, ShortSeqs DEF Does
<1>2. ASSUME NEW rest \in Seq(PlainOps), NEW r, Leads(rest, u, r)
      PROVE  Leads(<<op>> \o rest, s, r)
  <2> DEFINE q == <<op>> \o rest
  <2>1. q \in Seq(PlainOps) /\ q # <<>> /\ Head(q) = op /\ Tail(q) = rest
    BY <1>1, OneThenRest
  <2> HIDE DEF q
  <2>2. Following(q, s) = <<Decide(op, s) \o rest, s>>
    BY <1>1, <2>1 DEF Following
  <2>3. Leads(Decide(op, s) \o rest, s, r)
    BY <1>2 DEF Does
  <2>4. Following(q, s)[1] = Decide(op, s) \o rest /\ Following(q, s)[2] = s
    BY <2>2
  <2>5. Leads(Following(q, s)[1], Following(q, s)[2], r)
    BY <2>3, <2>4, Zenon
  <2>6. Leads(q, s, r)
    BY <2>1, <2>5, LeadsBack
  <2> QED
    BY <2>6 DEF q
<1> QED
  BY <1>1, <1>2 DEF Does

LEMMA DoesBoth ==
    ASSUME NEW v, NEW w, NEW s, NEW t, NEW u, Does(v, s, t), Does(w, t, u)
    PROVE  Does(v \o w, s, u)
<1>1. v \in Seq(PlainOps) /\ w \in Seq(PlainOps) /\ u \in Session /\ v \o w \in Seq(PlainOps)
  BY ConcatProperties DEF Does
<1>2. ASSUME NEW rest \in Seq(PlainOps), NEW r, Leads(rest, u, r)
      PROVE  Leads((v \o w) \o rest, s, r)
  <2>1. Leads(w \o rest, t, r) /\ w \o rest \in Seq(PlainOps)
    BY <1>1, <1>2, ConcatProperties DEF Does
  <2>2. Leads(v \o (w \o rest), s, r)
    BY <2>1 DEF Does
  <2>3. (v \o w) \o rest = v \o (w \o rest)
    BY <1>1, ConcatAssociative
  <2> QED
    BY <2>2, <2>3, Zenon
<1> QED
  BY <1>1, <1>2 DEF Does

LEMMA DoesTwo ==
    ASSUME NEW a \in PlainOps, NEW b \in PlainOps, NEW s, NEW t, NEW u,
           Does(<<a>>, s, t), Does(<<b>>, t, u)
    PROVE  Does(<<a, b>>, s, u)
<1>1. <<a, b>> = <<a>> \o <<b>>
  BY PairOfOnes
<1>2. Does(<<a>> \o <<b>>, s, u)
  BY DoesBoth
<1> QED
  BY <1>1, <1>2, Zenon

LEMMA DoesThree ==
    ASSUME NEW a \in PlainOps, NEW b \in PlainOps, NEW c \in PlainOps,
           NEW s, NEW t, NEW u, NEW v,
           Does(<<a>>, s, t), Does(<<b>>, t, u), Does(<<c>>, u, v)
    PROVE  Does(<<a, b, c>>, s, v)
<1> DEFINE q == <<a>> \o <<b, c>>
<1>1. Does(q, s, v)
  BY DoesTwo, DoesBoth
<1>2. /\ <<b, c>> \in Seq(PlainOps) /\ <<a, b, c>> \in Seq(PlainOps)
      /\ Len(<<b, c>>) = 2 /\ <<b, c>>[1] = b /\ <<b, c>>[2] = c
      /\ Len(<<a, b, c>>) = 3 /\ <<a, b, c>>[1] = a /\ <<a, b, c>>[2] = b /\ <<a, b, c>>[3] = c
  OBVIOUS
<1>3. q \in Seq(PlainOps) /\ Len(q) = 3 /\ q[1] = a /\ q[2] = b /\ q[3] = c
  <2>1. /\ q \in Seq(PlainOps) /\ Len(q) = Len(<<b, c>>) + 1 /\ q[1] = a
        /\ \A i \in 1..Len(<<b, c>>) : q[i + 1] = <<b, c>>[i]
    BY <1>2, OneThenRest
  <2> HIDE DEF q
  <2> QED
    BY <1>2, <2>1
<1> HIDE DEF q
<1>4. \A i \in 1..3 : q[i] = <<a, b, c>>[i]
  BY <1>2, <1>3
<1>5. q = <<a, b, c>>
  BY <1>2, <1>3, <1>4, SeqEqual
<1> QED
  BY <1>1, <1>5, Zenon

----------------------------------------------------------------------------
(* The writes a loop does one after the other.                             *)

\* What is left of a queue after i operations.
After(q, i) == SubSeq(q, i + 1, Len(q))

LEMMA AfterRest ==
    ASSUME NEW S, NEW q \in Seq(S), NEW i \in 0..Len(q)
    PROVE  /\ After(q, i) \in Seq(S) /\ Len(After(q, i)) = Len(q) - i
           /\ \A j \in 1..Len(q) - i : After(q, i)[j] = q[i + j]
<1> DEFINE a == SubSeq(q, i + 1, Len(q))
<1>1. /\ Len(q) \in Nat /\ i + 1 \in Int /\ Len(q) \in Int
      /\ \A j \in i + 1..Len(q) : q[j] \in S
  OBVIOUS
<1>2. /\ a \in Seq(S) /\ Len(a) = IF i + 1 <= Len(q) THEN Len(q) - (i + 1) + 1 ELSE 0
      /\ \A j \in 1..Len(q) - (i + 1) + 1 : a[j] = q[(i + 1) + j - 1]
  BY <1>1, SubSeqProperties
<1> HIDE DEF a
<1>3. Len(a) = Len(q) - i
  BY <1>1, <1>2
<1>4. \A j \in 1..Len(q) - i : a[j] = q[i + j]
  <2>1. /\ Len(q) - (i + 1) + 1 = Len(q) - i
        /\ \A j \in 1..Len(q) - i : (i + 1) + j - 1 = i + j
    BY <1>1
  <2> QED
    BY <1>2, <2>1
<1> QED
  BY <1>2, <1>3, <1>4 DEF a, After

LEMMA AfterNext ==
    ASSUME NEW S, NEW q \in Seq(S), NEW i \in 0..Len(q) - 1
    PROVE  /\ After(q, i) # <<>> /\ Head(After(q, i)) = q[i + 1]
           /\ Tail(After(q, i)) = After(q, i + 1)
<1> DEFINE a == After(q, i)
           b == After(q, i + 1)
<1>1. i \in 0..Len(q) /\ i + 1 \in 0..Len(q) /\ Len(q) \in Nat
  OBVIOUS
<1>2. /\ a \in Seq(S) /\ Len(a) = Len(q) - i
      /\ \A j \in 1..Len(q) - i : a[j] = q[i + j]
  BY <1>1, AfterRest
<1>3. /\ b \in Seq(S) /\ Len(b) = Len(q) - (i + 1)
      /\ \A j \in 1..Len(q) - (i + 1) : b[j] = q[(i + 1) + j]
  BY <1>1, AfterRest
<1> HIDE DEF a, b
<1>4. a # <<>>
  BY <1>1, <1>2
<1>5. /\ Head(a) = a[1] /\ Tail(a) \in Seq(S) /\ Len(Tail(a)) = Len(a) - 1
      /\ \A j \in 1..Len(a) - 1 : Tail(a)[j] = a[j + 1]
  BY <1>2, <1>4, HeadAndTail
<1>6. Head(a) = q[i + 1]
  BY <1>1, <1>2, <1>5
<1>7. Len(Tail(a)) = Len(b)
  BY <1>1, <1>2, <1>3, <1>5
<1>8. \A j \in 1..Len(Tail(a)) : Tail(a)[j] = b[j]
  <2> SUFFICES ASSUME NEW j \in 1..Len(Tail(a)) PROVE Tail(a)[j] = b[j]
    OBVIOUS
  <2>1. /\ j \in 1..Len(a) - 1 /\ j + 1 \in 1..Len(q) - i /\ j \in 1..Len(q) - (i + 1)
        /\ i + (j + 1) = (i + 1) + j
    BY <1>1, <1>2, <1>5
  <2>2. Tail(a)[j] = a[j + 1] /\ a[j + 1] = q[i + (j + 1)]
    BY <1>2, <1>5, <2>1
  <2>3. b[j] = q[(i + 1) + j]
    BY <1>3, <2>1
  <2> QED
    BY <2>1, <2>2, <2>3
<1>9. Tail(a) = b
  BY <1>3, <1>5, <1>7, <1>8, SeqEqual
<1> QED
  BY <1>4, <1>6, <1>9 DEF a, b

\* row is the row before and after each of the writes w.
LEMMA DoesRun ==
    ASSUME NEW w \in Seq(PlainWrites), NEW row \in [0..Len(w) -> Session],
           \A i \in 0..Len(w) - 1 : row[i + 1] = Apply(w[i + 1], row[i])
    PROVE  Does(w, row[0], row[Len(w)])
<1> DEFINE n == Len(w)
<1>1. n \in Nat /\ w \in Seq(PlainOps) /\ row[n] \in Session
  <2>1. PlainWrites \subseteq PlainOps
    BY WritesAreNoAsks
  <2> QED
    BY <2>1, WiderSeq
<1>2. ASSUME NEW rest \in Seq(PlainOps), NEW r, Leads(rest, row[n], r)
      PROVE  Leads(w \o rest, row[0], r)
  <2> DEFINE q == w \o rest
             m == Len(rest)
             place(i) == <<After(q, i), row[i]>>
  <2>1. /\ m \in Nat /\ q \in Seq(PlainOps) /\ Len(q) = n + m
        /\ \A i \in 1..n : q[i] = w[i] /\ q[i] \in PlainWrites
        /\ \A i \in 1..m : q[n + i] = rest[i]
    <3>1. m \in Nat
      OBVIOUS
    <3>2. /\ q \in Seq(PlainOps) /\ Len(q) = n + m
          /\ \A i \in 1..n + m : q[i] = IF i <= n THEN w[i] ELSE rest[i - n]
      BY <1>1, ConcatProperties
    <3>3. \A i \in 1..n : w[i] \in PlainWrites
      OBVIOUS
    <3> HIDE DEF q, n, m
    <3>4. \A i \in 1..n : q[i] = w[i] /\ q[i] \in PlainWrites
      BY <1>1, <3>1, <3>2, <3>3
    <3>5. \A i \in 1..m : q[n + i] = rest[i]
      <4>1. \A i \in 1..m : n + i \in 1..n + m /\ ~(n + i <= n) /\ (n + i) - n = i
        BY <1>1, <3>1
      <4> QED
        BY <3>2, <4>1
    <3> QED
      BY <3>1, <3>2, <3>4, <3>5
  <2> HIDE DEF q, m
  <2>2. \A i \in 0..n : After(q, i) \in Seq(PlainOps)
    <3>1. \A i \in 0..n : i \in 0..Len(q)
      BY <1>1, <2>1
    <3> QED
      BY <2>1, <3>1, AfterRest
  <2>3. After(q, 0) = q
    <3>1. 0 \in 0..Len(q) /\ Len(q) - 0 = Len(q)
      BY <1>1, <2>1
    <3>2. After(q, 0) \in Seq(PlainOps) /\ Len(After(q, 0)) = Len(q)
      BY <2>1, <3>1, AfterRest
    <3>3. \A j \in 1..Len(q) : After(q, 0)[j] = q[j]
      <4>1. \A j \in 1..Len(q) - 0 : After(q, 0)[j] = q[0 + j]
        BY <2>1, <3>1, AfterRest
      <4>2. \A j \in 1..Len(q) : 0 + j = j
        OBVIOUS
      <4> QED
        BY <3>1, <4>1, <4>2
    <3> QED
      BY <2>1, <3>2, <3>3, SeqEqual
  <2>4. After(q, n) = rest
    <3>1. n \in 0..Len(q) /\ Len(q) - n = m
      BY <1>1, <2>1
    <3>2. After(q, n) \in Seq(PlainOps) /\ Len(After(q, n)) = m
      BY <2>1, <3>1, AfterRest
    <3>3. \A j \in 1..m : After(q, n)[j] = rest[j]
      <4>1. \A j \in 1..Len(q) - n : After(q, n)[j] = q[n + j]
        BY <2>1, <3>1, AfterRest
      <4> QED
        BY <2>1, <3>1, <4>1
    <3> QED
      BY <3>2, <3>3, SeqEqual DEF m
  <2>5. ASSUME NEW i \in 0..n - 1
        PROVE  place(i)[1] # <<>> /\ Following(place(i)[1], place(i)[2]) = place(i + 1)
    <3>1. i \in 0..Len(q) - 1 /\ i + 1 \in 1..n
      BY <1>1, <2>1
    <3>2. /\ After(q, i) # <<>> /\ Head(After(q, i)) = q[i + 1]
          /\ Tail(After(q, i)) = After(q, i + 1)
      BY <2>1, <3>1, AfterNext
    <3>3. q[i + 1] \in PlainWrites /\ row[i + 1] = Apply(q[i + 1], row[i])
      BY <2>1, <3>1
    <3>4. Following(After(q, i), row[i]) = <<After(q, i + 1), row[i + 1]>>
      BY <3>2, <3>3 DEF Following
    <3> QED
      BY <3>2, <3>4
  <2>6. PICK P \in SUBSET Places : place(n) \in P /\ Path(P, r)
    BY <1>2, <2>4 DEF Leads
  <2> DEFINE R == P \cup {place(i) : i \in 0..n}
  <2>7. R \in SUBSET Places /\ place(0) \in R
    <3>1. \A i \in 0..n : place(i) \in Places
      BY <2>2 DEF Places
    <3> HIDE DEF place
    <3> QED
      BY <1>1, <3>1
  <2>8. Path(R, r)
    <3> SUFFICES ASSUME NEW p \in R
                 PROVE  IF p[1] = <<>> THEN p[2] = r ELSE Following(p[1], p[2]) \in R
      BY DEF Path
    <3> HIDE DEF place
    <3>1. CASE p \in P
      BY <2>6, <3>1 DEF Path
    <3>2. CASE \E i \in 0..n - 1 : p = place(i)
      <4>1. \A i \in 0..n - 1 : i + 1 \in 0..n
        BY <1>1
      <4> QED
        BY <2>5, <3>2, <4>1
    <3>3. p \in P \/ p = place(n) \/ \E i \in 0..n - 1 : p = place(i)
      BY <1>1
    <3> QED
      BY <2>6, <3>1, <3>2, <3>3
  <2>9. Leads(q, row[0], r)
    <3>1. <<q, row[0]>> \in R
      BY <2>3, <2>7
    <3> HIDE DEF R
    <3> QED
      BY <2>7, <2>8, <3>1 DEF Leads
  <2> QED
    BY <2>9 DEF q
<1> QED
  BY <1>1, <1>2 DEF Does

----------------------------------------------------------------------------
(* Alerts resolved one after the other, and all the running commands judged. *)

\* The worst open alert depends on the alerts and the streak alone.
TopOf(alerts, streak) ==
    IF {k \in AlertKeys : alerts[k] = "OPEN"} = {} THEN NoAlert
    ELSE CHOOSE k \in {open \in AlertKeys : alerts[open] = "OPEN"} :
            \A j \in {open \in AlertKeys : alerts[open] = "OPEN"} :
                Rank([streak |-> streak], j) <= Rank([streak |-> streak], k)

LEMMA TopSame ==
    ASSUME NEW s, NEW u, s.alerts = u.alerts, s.streak = u.streak
    PROVE  Top(s) = Top(u)
<1>1. \A v : Top(v) = TopOf(v.alerts, v.streak)
  BY DEF Top, TopOf, OpenAlerts, Rank
<1> QED
  BY <1>1

\* resolve_alert but for the headline.
Closed(s, K) ==
    [s EXCEPT !.alerts = [k \in AlertKeys |->
        IF k \in K /\ @[k] # "ABSENT" THEN "RESOLVED" ELSE @[k]]]

LEMMA ResolveAllRow ==
    ASSUME NEW s \in Session, NEW K
    PROVE  /\ ResolveAll(s, K) = [Closed(s, K) EXCEPT !.attention = Top(Closed(s, K))]
           /\ Closed(s, K) \in Session /\ ResolveAll(s, K) \in Session
           /\ ResolveAll(s, K).status = s.status /\ ResolveAll(s, K).streak = s.streak
<1> DEFINE m == Closed(s, K)
<1>1. m \in Session /\ m.status = s.status /\ m.streak = s.streak
  BY DEF Session, AlertStates, Closed
<1>2. ResolveAll(s, K) = [m EXCEPT !.attention = Top(m)]
  BY DEF ResolveAll, Closed
<1> HIDE DEF m
<1>3. Top(m) \in AlertKeys \cup {NoAlert}
  BY <1>1, TopIsKey
<1>4. [m EXCEPT !.attention = Top(m)] \in Session
  BY <1>1, <1>3 DEF Session
<1>5. /\ [m EXCEPT !.attention = Top(m)].status = m.status
      /\ [m EXCEPT !.attention = Top(m)].streak = m.streak
  BY <1>1 DEF Session
<1> QED
  BY <1>1, <1>2, <1>4, <1>5 DEF m

LEMMA ResolveTwice ==
    ASSUME NEW s \in Session, NEW K, NEW k
    PROVE  Resolve(ResolveAll(s, K), k) = ResolveAll(s, K \cup {k})
<1> DEFINE m == Closed(s, K)
           top == Top(m)
           a == [m EXCEPT !.attention = top]
           c == Closed(a, {k})
           d == Closed(s, K \cup {k})
<1>1. /\ m \in Session /\ ResolveAll(s, K) = a /\ a \in Session
      /\ d \in Session /\ ResolveAll(s, K \cup {k}) = [d EXCEPT !.attention = Top(d)]
  BY ResolveAllRow
<1>2. Resolve(ResolveAll(s, K), k) = [c EXCEPT !.attention = Top(c)] /\ c \in Session
  <2> HIDE DEF a
  <2>1. Resolve(ResolveAll(s, K), k) = ResolveAll(a, {k})
    BY <1>1 DEF Resolve
  <2>2. ResolveAll(a, {k}) = [c EXCEPT !.attention = Top(c)] /\ c \in Session
    BY <1>1, ResolveAllRow
  <2> QED
    BY <2>1, <2>2, Zenon
<1> HIDE DEF top
<1>3. d = [c EXCEPT !.attention = s.attention]
  <2>1. d = [s EXCEPT !.alerts = [j \in AlertKeys |->
                IF j \in K \cup {k} /\ s.alerts[j] # "ABSENT" THEN "RESOLVED" ELSE s.alerts[j]]]
    BY DEF Closed
  <2>2. c.alerts = [j \in AlertKeys |->
                IF j \in K \cup {k} /\ s.alerts[j] # "ABSENT" THEN "RESOLVED" ELSE s.alerts[j]]
    BY <1>1 DEF Closed, Session
  <2>3. /\ c.status = s.status /\ c.command = s.command /\ c.streak = s.streak
        /\ c.age = s.age /\ c.quiet = s.quiet
    BY <1>1 DEF Closed, Session
  <2> HIDE DEF c
  <2> DEFINE al == [j \in AlertKeys |->
                IF j \in K \cup {k} /\ s.alerts[j] # "ABSENT" THEN "RESOLVED" ELSE s.alerts[j]]
  <2>4. d = [s EXCEPT !.alerts = al] /\ c.alerts = al
    BY <2>1, <2>2, Zenon
  <2> HIDE DEF al, d
  <2> QED
    BY <1>2, <2>3, <2>4 DEF Session
<1> HIDE DEF c, d
<1>4. Top(c) = Top(d)
  <2>1. c.alerts = d.alerts /\ c.streak = d.streak
    BY <1>2, <1>3 DEF Session
  <2> QED
    BY <2>1, TopSame
<1>5. [c EXCEPT !.attention = Top(c)] = [d EXCEPT !.attention = Top(c)]
  <2> DEFINE x == Top(c)
  <2> HIDE DEF x
  <2>1. [c EXCEPT !.attention = x] = [d EXCEPT !.attention = x]
    BY <1>2, <1>3 DEF Session
  <2> QED
    BY <2>1 DEF x
<1> QED
  BY <1>1, <1>2, <1>4, <1>5, Zenon

LEMMA KeyWrites ==
    ASSUME NEW k \in AlertKeys, NEW s
    PROVE  /\ UpsertOp(k) \in PlainWrites /\ Apply(UpsertOp(k), s) = Upsert(s, k)
           /\ ResolveOp(k) \in PlainWrites /\ Apply(ResolveOp(k), s) = Resolve(s, k)
BY DEF UpsertOp, ResolveOp, Write, PlainWrites, Apply

LEMMA RowsEqual ==
    ASSUME NEW x \in Session, NEW y \in Session,
           x.status = y.status, x.attention = y.attention, x.command = y.command,
           x.streak = y.streak, x.age = y.age, x.quiet = y.quiet,
           \A k \in AlertKeys : x.alerts[k] = y.alerts[k]
    PROVE  x = y
<1>1. x.alerts = y.alerts
  BY DEF Session
<1> QED
  BY <1>1 DEF Session

\* _resolve_all_operational_alerts, one resolve_alert after the other.
LEMMA DoesOperational ==
    ASSUME NEW s \in Session
    PROVE  Does(ForEach(ResolveOp, OperationalKeys(s)), s, ResolveOperational(s))
<1> DEFINE S == OperationalKeys(s)
           n == Cardinality(S)
           f == SetToSeq(S)
           q == [i \in 1..n |-> ResolveOp(f[i])]
           Upto(i) == {f[j] : j \in 1..i}
           row == [i \in 0..n |-> IF i = 0 THEN s ELSE ResolveAll(s, Upto(i))]
<1>1. S \subseteq AlertKeys /\ IsFiniteSet(S)
  <2>1. S \subseteq AlertKeys
    BY DEF OperationalKeys, OpenAlerts
  <2> QED
    BY <2>1, KeysAreFinite, FS_Subset
<1>2. ForEach(ResolveOp, S) = q
  BY DEF ForEach
<1>3. ResolveOperational(s) = IF S = {} THEN s ELSE ResolveAll(s, S)
  BY DEF ResolveOperational
<1> HIDE DEF S
<1>4. /\ n \in Nat /\ \A i \in 1..n : f[i] \in S
      /\ \A x \in S : \E i \in 1..n : f[i] = x
  BY <1>1, ForEachIsOnto
<1> HIDE DEF n, f
<1>5. /\ q \in Seq(PlainWrites) /\ Len(q) = n /\ \A i \in 1..n : q[i] = ResolveOp(f[i])
  <2>1. \A i \in 1..n : ResolveOp(f[i]) \in PlainWrites
    BY <1>1, <1>4, KeyWrites
  <2>2. q \in [1..n -> PlainWrites] /\ \A i \in 1..n : q[i] = ResolveOp(f[i])
    BY <2>1
  <2> HIDE DEF q
  <2> QED
    BY <1>4, <2>2, SeqDef
<1>6. row \in [0..n -> Session]
  <2>1. \A K : ResolveAll(s, K) \in Session
    BY ResolveAllRow
  <2> HIDE DEF Upto
  <2> QED
    BY <2>1
<1>7. \A i \in 0..n - 1 : row[i + 1] = Apply(q[i + 1], row[i])
  <2> SUFFICES ASSUME NEW i \in 0..n - 1 PROVE row[i + 1] = Apply(q[i + 1], row[i])
    OBVIOUS
  <2>1. /\ i \in 0..n /\ i + 1 \in 1..n /\ i + 1 \in 0..n /\ i + 1 # 0
        /\ Upto(i + 1) = Upto(i) \cup {f[i + 1]}
    BY <1>4
  <2>2. row[i + 1] = ResolveAll(s, Upto(i) \cup {f[i + 1]})
    BY <2>1
  <2>3. Apply(q[i + 1], row[i]) = Resolve(row[i], f[i + 1])
    BY <1>1, <1>4, <1>5, <2>1, KeyWrites
  <2>4. CASE i = 0
    <3>1. row[i] = s
      BY <2>1, <2>4
    <3>2. Upto(i) \cup {f[i + 1]} = {f[i + 1]}
      BY <2>4
    <3> QED
      BY <2>2, <2>3, <3>1, <3>2 DEF Resolve
  <2>5. CASE i # 0
    <3>1. row[i] = ResolveAll(s, Upto(i))
      BY <2>1, <2>5
    <3> QED
      BY <2>2, <2>3, <3>1, ResolveTwice
  <2> QED
    BY <2>4, <2>5
<1>8. row[0] = s /\ row[n] = IF S = {} THEN s ELSE ResolveAll(s, S)
  <2>1. 0 \in 0..n /\ n \in 0..n
    BY <1>4
  <2>2. n = 0 <=> S = {}
    BY <1>4
  <2>3. Upto(n) = S
    BY <1>4
  <2> QED
    BY <2>1, <2>2, <2>3
<1> HIDE DEF q, row
<1>9. Does(q, row[0], row[n])
  BY <1>5, <1>6, <1>7, DoesRun
<1> QED
  BY <1>2, <1>3, <1>8, <1>9 DEF S

\* reconcile's loop once it has judged the commands D, c the last of them.
JudgedSome(s, D) ==
    [s EXCEPT !.alerts = [k \in AlertKeys |->
        IF k[1] = "command-hung" /\ k[2] \in D
        THEN IF s.quiet[k[2]] >= Hung THEN "OPEN"
             ELSE IF @[k] = "ABSENT" THEN "ABSENT" ELSE "RESOLVED"
        ELSE @[k]]]
JudgedUpTo(s, D, c) ==
    [JudgedSome(s, D) EXCEPT !.attention = IF s.quiet[c] >= Hung THEN <<"command-hung", c>>
                                           ELSE Top(JudgedSome(s, D))]
VerdictOp(s, c) ==
    IF s.quiet[c] >= Hung THEN UpsertOp(<<"command-hung", c>>) ELSE ResolveOp(<<"command-hung", c>>)

LEMMA JudgedRow ==
    ASSUME NEW s \in Session, NEW D
    PROVE  LET m == JudgedSome(s, D) IN
           /\ m \in Session /\ m.status = s.status /\ m.command = s.command
           /\ m.streak = s.streak /\ m.age = s.age /\ m.quiet = s.quiet
           /\ m.attention = s.attention
           /\ \A k \in AlertKeys :
                 m.alerts[k] = IF k[1] = "command-hung" /\ k[2] \in D
                               THEN IF s.quiet[k[2]] >= Hung THEN "OPEN"
                                    ELSE IF s.alerts[k] = "ABSENT" THEN "ABSENT" ELSE "RESOLVED"
                               ELSE s.alerts[k]
BY DEF JudgedSome, Session, AlertStates

LEMMA AttentionRow ==
    ASSUME NEW s \in Session, NEW a \in AlertKeys \cup {NoAlert}
    PROVE  LET m == [s EXCEPT !.attention = a] IN
           /\ m \in Session /\ m.status = s.status /\ m.command = s.command
           /\ m.streak = s.streak /\ m.age = s.age /\ m.quiet = s.quiet
           /\ m.attention = a /\ m.alerts = s.alerts
BY DEF Session

LEMMA JudgeOne ==
    ASSUME NEW s \in Session, NEW D, NEW c \in Calls, NEW a \in AlertKeys \cup {NoAlert}
    PROVE  /\ VerdictOp(s, c) \in PlainWrites
           /\ Apply(VerdictOp(s, c), [JudgedSome(s, D) EXCEPT !.attention = a])
                  = JudgedUpTo(s, D \cup {c}, c)
           /\ JudgedUpTo(s, D, c) \in Session
<1> DEFINE key == <<"command-hung", c>>
           b == [JudgedSome(s, D) EXCEPT !.attention = a]
           m == JudgedSome(s, D \cup {c})
           t == Top(m)
<1>1. key \in AlertKeys /\ \A k \in AlertKeys : (k[1] = "command-hung" /\ k[2] = c) <=> k = key
  <2>1. key \in AlertKeys
    BY KeysAreKeys DEF CallCauses
  <2>2. \A k \in AlertKeys : k = <<k[1], k[2]>>
    BY DEF AlertKeys
  <2>3. key[1] = "command-hung" /\ key[2] = c
    OBVIOUS
  <2> QED
    BY <2>1, <2>2, <2>3
<1>2. /\ UpsertOp(key) \in PlainWrites /\ Apply(UpsertOp(key), b) = Upsert(b, key)
      /\ ResolveOp(key) \in PlainWrites /\ Apply(ResolveOp(key), b) = Resolve(b, key)
  BY <1>1, KeyWrites
<1>3. /\ b \in Session /\ b.status = s.status /\ b.command = s.command
      /\ b.streak = s.streak /\ b.age = s.age /\ b.quiet = s.quiet
      /\ \A k \in AlertKeys :
            b.alerts[k] = IF k[1] = "command-hung" /\ k[2] \in D
                          THEN IF s.quiet[k[2]] >= Hung THEN "OPEN"
                               ELSE IF s.alerts[k] = "ABSENT" THEN "ABSENT" ELSE "RESOLVED"
                          ELSE s.alerts[k]
  <2> DEFINE m0 == JudgedSome(s, D)
  <2>1. /\ m0 \in Session /\ m0.status = s.status /\ m0.command = s.command
        /\ m0.streak = s.streak /\ m0.age = s.age /\ m0.quiet = s.quiet
        /\ \A k \in AlertKeys :
              m0.alerts[k] = IF k[1] = "command-hung" /\ k[2] \in D
                             THEN IF s.quiet[k[2]] >= Hung THEN "OPEN"
                                  ELSE IF s.alerts[k] = "ABSENT" THEN "ABSENT" ELSE "RESOLVED"
                             ELSE s.alerts[k]
    BY JudgedRow
  <2> HIDE DEF m0
  <2>2. /\ b \in Session /\ b.status = m0.status /\ b.command = m0.command
        /\ b.streak = m0.streak /\ b.age = m0.age /\ b.quiet = m0.quiet /\ b.alerts = m0.alerts
    BY <2>1, AttentionRow DEF m0
  <2> QED
    BY <2>1, <2>2
<1>4. /\ m \in Session /\ m.status = s.status /\ m.command = s.command
      /\ m.streak = s.streak /\ m.age = s.age /\ m.quiet = s.quiet
      /\ \A k \in AlertKeys :
            m.alerts[k] = IF k[1] = "command-hung" /\ k[2] \in D \cup {c}
                          THEN IF s.quiet[k[2]] >= Hung THEN "OPEN"
                               ELSE IF s.alerts[k] = "ABSENT" THEN "ABSENT" ELSE "RESOLVED"
                          ELSE s.alerts[k]
  BY JudgedRow
<1>5. t \in AlertKeys \cup {NoAlert}
  BY <1>4, TopIsKey
<1>6. JudgedUpTo(s, D \cup {c}, c) = [m EXCEPT !.attention = IF s.quiet[c] >= Hung THEN key ELSE t]
  BY DEF JudgedUpTo
<1>7. JudgedUpTo(s, D, c) \in Session
  <2> DEFINE m0 == JudgedSome(s, D)
             at == IF s.quiet[c] >= Hung THEN key ELSE Top(m0)
  <2>1. m0 \in Session
    BY JudgedRow
  <2>2. at \in AlertKeys \cup {NoAlert}
    BY <1>1, <2>1, TopIsKey
  <2>3. JudgedUpTo(s, D, c) = [m0 EXCEPT !.attention = at]
    BY DEF JudgedUpTo
  <2> HIDE DEF m0, at
  <2> QED
    BY <2>1, <2>2, <2>3, AttentionRow
<1>8. CASE s.quiet[c] >= Hung
  <2> DEFINE x == Upsert(b, key)
             y == [m EXCEPT !.attention = key]
  <2>1. VerdictOp(s, c) = UpsertOp(key)
    BY <1>8 DEF VerdictOp
  <2>2. y = JudgedUpTo(s, D \cup {c}, c)
    BY <1>6, <1>8
  <2> HIDE DEF b, m
  <2>3. /\ y \in Session /\ y.status = m.status /\ y.command = m.command
        /\ y.streak = m.streak /\ y.age = m.age /\ y.quiet = m.quiet
        /\ y.attention = key /\ y.alerts = m.alerts
    BY <1>1, <1>4, AttentionRow
  <2> HIDE DEF key
  <2>4. /\ x \in Session /\ x.status = b.status /\ x.command = b.command
        /\ x.streak = b.streak /\ x.age = b.age /\ x.quiet = b.quiet /\ x.attention = key
        /\ \A k \in AlertKeys : x.alerts[k] = IF k = key THEN "OPEN" ELSE b.alerts[k]
    BY <1>1, <1>3 DEF Upsert, Session, AlertStates
  <2>5. \A k \in AlertKeys : x.alerts[k] = y.alerts[k]
    <3> SUFFICES ASSUME NEW k \in AlertKeys PROVE x.alerts[k] = y.alerts[k]
      OBVIOUS
    <3> HIDE DEF x, y
    <3>1. CASE k = key
      BY <1>1, <1>4, <1>8, <2>3, <2>4, <3>1
    <3>2. CASE k # key
      BY <1>1, <1>3, <1>4, <2>3, <2>4, <3>2
    <3> QED
      BY <3>1, <3>2
  <2> HIDE DEF x, y
  <2>6. x = y
    BY <1>3, <1>4, <2>3, <2>4, <2>5, RowsEqual
  <2> QED
    BY <1>2, <1>7, <2>1, <2>2, <2>6 DEF x, b
<1>9. CASE ~(s.quiet[c] >= Hung)
  <2> DEFINE z == Closed(b, {key})
             x == [z EXCEPT !.attention = Top(z)]
             y == [m EXCEPT !.attention = t]
  <2>1. VerdictOp(s, c) = ResolveOp(key)
    BY <1>9 DEF VerdictOp
  <2>2. y = JudgedUpTo(s, D \cup {c}, c)
    BY <1>6, <1>9
  <2>3. Resolve(b, key) = x /\ z \in Session
    BY <1>3, ResolveAllRow DEF Resolve
  <2> HIDE DEF b, m, t
  <2>4. /\ y \in Session /\ y.status = m.status /\ y.command = m.command
        /\ y.streak = m.streak /\ y.age = m.age /\ y.quiet = m.quiet
        /\ y.attention = t /\ y.alerts = m.alerts
    BY <1>4, <1>5, AttentionRow
  <2> HIDE DEF key
  <2>5. /\ z.status = b.status /\ z.command = b.command
        /\ z.streak = b.streak /\ z.age = b.age /\ z.quiet = b.quiet
        /\ \A k \in AlertKeys : z.alerts[k] = IF k \in {key} /\ b.alerts[k] # "ABSENT"
                                              THEN "RESOLVED" ELSE b.alerts[k]
    BY <1>3 DEF Closed, Session
  <2> HIDE DEF z, y
  <2>6. \A k \in AlertKeys : z.alerts[k] = m.alerts[k]
    <3> SUFFICES ASSUME NEW k \in AlertKeys PROVE z.alerts[k] = m.alerts[k]
      OBVIOUS
    <3>1. CASE k = key
      BY <1>1, <1>3, <1>4, <1>9, <2>5, <3>1
    <3>2. CASE k # key
      BY <1>1, <1>3, <1>4, <2>5, <3>2
    <3> QED
      BY <3>1, <3>2
  <2>7. Top(z) = t
    <3>1. z.alerts = m.alerts
      BY <1>4, <2>3, <2>6 DEF Session
    <3> QED
      BY <1>3, <1>4, <2>5, <3>1, TopSame DEF t
  <2>8. /\ x \in Session /\ x.status = z.status /\ x.command = z.command
        /\ x.streak = z.streak /\ x.age = z.age /\ x.quiet = z.quiet
        /\ x.attention = t /\ x.alerts = z.alerts
    BY <1>5, <2>3, <2>7, AttentionRow
  <2> HIDE DEF x
  <2>9. x = y
    <3>1. \A k \in AlertKeys : x.alerts[k] = y.alerts[k]
      BY <2>4, <2>6, <2>8
    <3> QED
      BY <1>3, <1>4, <2>4, <2>5, <2>8, <3>1, RowsEqual
  <2> QED
    BY <1>2, <1>7, <2>1, <2>2, <2>3, <2>9 DEF b
<1> QED
  BY <1>8, <1>9

\* reconcile's loop over the running commands.
LEMMA DoesVerdicts ==
    ASSUME NEW s \in Session
    PROVE  \E u \in (IF RunningCommands(s) = {} THEN {s}
                     ELSE {JudgedUpTo(s, RunningCommands(s), last) : last \in RunningCommands(s)}) :
              Does(CommandVerdicts(s), s, u)
<1> DEFINE S == RunningCommands(s)
           n == Cardinality(S)
           f == SetToSeq(S)
           q == [i \in 1..n |-> VerdictOp(s, f[i])]
           Upto(i) == {f[j] : j \in 1..i}
           row == [i \in 0..n |-> IF i = 0 THEN s ELSE JudgedUpTo(s, Upto(i), f[i])]
<1>1. S \subseteq Calls /\ IsFiniteSet(S)
  <2>1. S \subseteq Calls
    BY DEF RunningCommands
  <2> QED
    BY <2>1, CallsAssumption, FS_Subset
<1>2. CommandVerdicts(s) = q
  BY DEF CommandVerdicts, ForEach, VerdictOp
<1> HIDE DEF S
<1>3. /\ n \in Nat /\ \A i \in 1..n : f[i] \in S
      /\ \A x \in S : \E i \in 1..n : f[i] = x
  BY <1>1, ForEachIsOnto
<1> HIDE DEF n, f
<1>4. NoAlert \in AlertKeys \cup {NoAlert}
  OBVIOUS
<1>5. /\ q \in Seq(PlainWrites) /\ Len(q) = n /\ \A i \in 1..n : q[i] = VerdictOp(s, f[i])
  <2>1. \A i \in 1..n : VerdictOp(s, f[i]) \in PlainWrites
    BY <1>1, <1>3, <1>4, JudgeOne
  <2>2. q \in [1..n -> PlainWrites] /\ \A i \in 1..n : q[i] = VerdictOp(s, f[i])
    BY <2>1
  <2> HIDE DEF q
  <2> QED
    BY <1>3, <2>2, SeqDef
<1>6. row \in [0..n -> Session]
  <2>1. \A D : \A i \in 1..n : JudgedUpTo(s, D, f[i]) \in Session
    BY <1>1, <1>3, <1>4, JudgeOne
  <2>2. \A i \in 0..n : i # 0 => i \in 1..n
    BY <1>3
  <2> HIDE DEF Upto
  <2> QED
    BY <2>1, <2>2
<1>7. \A i \in 0..n - 1 : row[i + 1] = Apply(q[i + 1], row[i])
  <2> SUFFICES ASSUME NEW i \in 0..n - 1 PROVE row[i + 1] = Apply(q[i + 1], row[i])
    OBVIOUS
  <2>1. /\ i \in 0..n /\ i + 1 \in 1..n /\ i + 1 \in 0..n /\ i + 1 # 0
        /\ Upto(i + 1) = Upto(i) \cup {f[i + 1]} /\ f[i + 1] \in Calls
    BY <1>1, <1>3
  <2>2. row[i + 1] = JudgedUpTo(s, Upto(i) \cup {f[i + 1]}, f[i + 1])
    BY <2>1
  <2>3. q[i + 1] = VerdictOp(s, f[i + 1])
    BY <1>5, <2>1
  <2>4. \E a \in AlertKeys \cup {NoAlert} : row[i] = [JudgedSome(s, Upto(i)) EXCEPT !.attention = a]
    <3>1. CASE i = 0
      <4>1. row[i] = s /\ s.attention \in AlertKeys \cup {NoAlert}
        BY <2>1, <3>1 DEF Session
      <4>2. Upto(i) = {}
        BY <3>1
      <4> DEFINE m == JudgedSome(s, {})
                 b == [m EXCEPT !.attention = s.attention]
      <4>3. /\ m \in Session /\ m.status = s.status /\ m.command = s.command
            /\ m.streak = s.streak /\ m.age = s.age /\ m.quiet = s.quiet
            /\ \A k \in AlertKeys : m.alerts[k] = s.alerts[k]
        BY JudgedRow
      <4> HIDE DEF m
      <4>4. /\ b \in Session /\ b.status = m.status /\ b.command = m.command
            /\ b.streak = m.streak /\ b.age = m.age /\ b.quiet = m.quiet
            /\ b.attention = s.attention /\ b.alerts = m.alerts
        BY <4>1, <4>3, AttentionRow
      <4> HIDE DEF b
      <4>5. b = s
        BY <4>3, <4>4, RowsEqual
      <4>6. row[i] = [JudgedSome(s, Upto(i)) EXCEPT !.attention = s.attention]
        BY <4>1, <4>2, <4>5, Zenon DEF b, m
      <4> QED
        BY <4>1, <4>6
    <3>2. CASE i # 0
      <4> DEFINE m == JudgedSome(s, Upto(i))
                 a == IF s.quiet[f[i]] >= Hung THEN <<"command-hung", f[i]>> ELSE Top(m)
      <4>1. row[i] = JudgedUpTo(s, Upto(i), f[i]) /\ f[i] \in Calls
        BY <1>1, <1>3, <2>1, <3>2
      <4>2. JudgedUpTo(s, Upto(i), f[i]) = [m EXCEPT !.attention = a]
        BY DEF JudgedUpTo
      <4>3. a \in AlertKeys \cup {NoAlert}
        <5>1. m \in Session
          BY JudgedRow
        <5>2. <<"command-hung", f[i]>> \in AlertKeys
          BY <4>1, KeysAreKeys DEF CallCauses
        <5> HIDE DEF m
        <5> QED
          BY <5>1, <5>2, TopIsKey
      <4> HIDE DEF a, row, Upto
      <4> QED
        BY <4>1, <4>2, <4>3, Zenon
    <3> QED
      BY <3>1, <3>2
  <2> HIDE DEF row, q, Upto
  <2>5. PICK a \in AlertKeys \cup {NoAlert} : row[i] = [JudgedSome(s, Upto(i)) EXCEPT !.attention = a]
    BY <2>4
  <2>6. Apply(VerdictOp(s, f[i + 1]), [JudgedSome(s, Upto(i)) EXCEPT !.attention = a])
            = JudgedUpTo(s, Upto(i) \cup {f[i + 1]}, f[i + 1])
    <3>1. \A D, c : c \in Calls =>
             Apply(VerdictOp(s, c), [JudgedSome(s, D) EXCEPT !.attention = a]) = JudgedUpTo(s, D \cup {c}, c)
      BY JudgeOne
    <3> QED
      BY <2>1, <3>1, Zenon
  <2> QED
    BY <2>2, <2>3, <2>5, <2>6, Zenon
<1>8. row[0] = s /\ row[n] \in IF S = {} THEN {s} ELSE {JudgedUpTo(s, S, last) : last \in S}
  <2>1. 0 \in 0..n /\ n \in 0..n /\ (n # 0 => n \in 1..n)
    BY <1>3
  <2>2. n = 0 <=> S = {}
    BY <1>3
  <2>3. Upto(n) = S
    BY <1>3
  <2>4. n # 0 => f[n] \in S
    BY <1>3, <2>1
  <2> HIDE DEF Upto
  <2> QED
    BY <2>1, <2>2, <2>3, <2>4
<1> HIDE DEF q, row
<1>9. Does(q, row[0], row[n])
  BY <1>5, <1>6, <1>7, DoesRun
<1>10. \E u \in (IF S = {} THEN {s} ELSE {JudgedUpTo(s, S, last) : last \in S}) :
          Does(CommandVerdicts(s), s, u)
  BY <1>2, <1>8, <1>9, Zenon
<1> QED
  BY <1>10 DEF S

----------------------------------------------------------------------------
(* What each call does.                                                    *)

LEMMA DoesUpsert ==
    ASSUME NEW s \in Session, NEW k \in AlertKeys
    PROVE  Does(<<UpsertOp(k)>>, s, Upsert(s, k))
BY KeyWrites, DoesWrite

LEMMA DoesResolve ==
    ASSUME NEW s \in Session, NEW k \in AlertKeys
    PROVE  Does(<<ResolveOp(k)>>, s, Resolve(s, k))
BY KeyWrites, DoesWrite

LEMMA DoesStatus ==
    ASSUME NEW s \in Session, NEW to \in Statuses
    PROVE  Does(<<StatusOp(to)>>, s, [s EXCEPT !.status = to])
<1>1. StatusOp(to) \in PlainWrites /\ Apply(StatusOp(to), s) = [s EXCEPT !.status = to]
  BY DEF StatusOp, Write, PlainWrites, Apply
<1> QED
  BY <1>1, DoesWrite

LEMMA DoesKeep ==
    ASSUME NEW s \in Session
    PROVE  Does(<<StatusOp(s.status)>>, s, s)
<1>1. s.status \in Statuses /\ [s EXCEPT !.status = s.status] = s
  BY DEF Session
<1>2. Does(<<StatusOp(s.status)>>, s, [s EXCEPT !.status = s.status])
  BY <1>1, DoesStatus
<1> QED
  BY <1>1, <1>2

LEMMA DoesCommand ==
    ASSUME NEW s \in Session, NEW c \in Calls, NEW to \in CommandStates, NEW lag \in Lags
    PROVE  Does(<<CommandOp(c, to, lag)>>, s, UpsertCommand(s, c, to, lag))
<1>1. /\ CommandOp(c, to, lag) \in PlainWrites
      /\ Apply(CommandOp(c, to, lag), s) = UpsertCommand(s, c, to, lag)
  BY DEF CommandOp, PlainWrites, Apply
<1> QED
  BY <1>1, DoesWrite

LEMMA DoesSetStatus ==
    ASSUME NEW s \in Session, NEW to \in Statuses
    PROVE  Does(<<AskStatus(to)>>, s, SetStatus(s, to))
<1>1. /\ AskStatus(to) \in Asks
      /\ Decide(AskStatus(to), s) = IF s.status \in StickyStates /\ to \notin StickyStates
                                    THEN <<>> ELSE <<StatusOp(to)>>
  BY DEF AskStatus, Asks, Decide
<1>2. SetStatus(s, to) = IF s.status \in StickyStates /\ to \notin StickyStates
                         THEN s ELSE [s EXCEPT !.status = to]
  BY DEF SetStatus
<1>3. Does(<<>>, s, s) /\ Does(<<StatusOp(to)>>, s, [s EXCEPT !.status = to])
  BY DoesNothing, DoesStatus
<1>4. Does(Decide(AskStatus(to), s), s, SetStatus(s, to))
  BY <1>1, <1>2, <1>3
<1> QED
  BY <1>1, <1>4, DoesAsk

LEMMA DoesRefresh ==
    ASSUME NEW s \in Session
    PROVE  Does(<<Ask("refresh")>>, s, RefreshAttention(s))
<1> DEFINE t == Top(s)
<1>1. Ask("refresh") \in Asks /\ Decide(Ask("refresh"), s) = <<Write("attention", t)>>
  BY DEF Ask, Asks, Decide
<1>2. RefreshAttention(s) = [s EXCEPT !.attention = t]
  BY DEF RefreshAttention
<1>3. t \in AlertKeys \cup {NoAlert}
  BY TopIsKey
<1> HIDE DEF t
<1>4. /\ Write("attention", t) \in PlainWrites
      /\ Apply(Write("attention", t), s) = [s EXCEPT !.attention = t]
  BY <1>3 DEF Write, PlainWrites, Apply
<1>5. Does(Decide(Ask("refresh"), s), s, RefreshAttention(s))
  BY <1>1, <1>2, <1>4, DoesWrite
<1> QED
  BY <1>1, <1>5, DoesAsk

\* Once reconcile has read the row, and then its running commands.
LEMMA DoesReconcile ==
    ASSUME NEW s \in Session
    PROVE  \E u \in Reconciled(s) : Does(ReconcileOps, s, u)
<1> DEFINE r == ReconcileSession(s)
           stale == Key("stale")
<1>1. stale \in AlertKeys
  BY KeysAreKeys DEF SessionCauses
<1>2. Does(VerdictOps(s), s, r)
  <2> DEFINE up == Upsert(s, stale)
  <2>1. /\ Does(<<ResolveOp(stale)>>, s, Resolve(s, stale)) /\ Does(<<>>, s, s)
        /\ Does(<<UpsertOp(stale)>>, s, up)
    BY <1>1, DoesResolve, DoesUpsert, DoesNothing
  <2>2. Does(<<UpsertOp(stale), StatusOp("BLOCKED")>>, s, [up EXCEPT !.status = "BLOCKED"])
    <3>1. up \in Session /\ "BLOCKED" \in Statuses
      BY <1>1, UpsertRow DEF Statuses
    <3>2. UpsertOp(stale) \in PlainOps /\ StatusOp("BLOCKED") \in PlainOps
      BY <1>1, <3>1, WritesArePlain
    <3> HIDE DEF up, stale
    <3> QED
      BY <2>1, <3>1, <3>2, DoesStatus, DoesTwo
  <2>3. s.status \in Statuses /\ s.age \in 0..MaxAge /\ MaxAge \in Nat /\ Stale \in 1..MaxAge
    BY ThresholdAssumption DEF Session
  <2>4. CASE s.status \in TerminalStates \/ s.age < Stale
    <3>1. VerdictOps(s) = <<ResolveOp(stale)>>
      BY <2>4 DEF VerdictOps
    <3>2. r = Resolve(s, stale)
      BY <2>3, <2>4 DEF ReconcileSession
    <3> QED
      BY <2>1, <3>1, <3>2
  <2>5. CASE ~(s.status \in TerminalStates \/ s.age < Stale) /\ s.status = "RUNNING"
    <3>1. VerdictOps(s) = <<UpsertOp(stale), StatusOp("BLOCKED")>>
      BY <2>5 DEF VerdictOps
    <3>2. r = [up EXCEPT !.status = "BLOCKED"]
      BY <2>3, <2>5 DEF ReconcileSession
    <3> QED
      BY <2>2, <3>1, <3>2
  <2>6. CASE ~(s.status \in TerminalStates \/ s.age < Stale) /\ s.status = "DISCOVERED"
    <3>1. VerdictOps(s) = <<UpsertOp(stale)>>
      BY <2>6 DEF VerdictOps
    <3>2. r = up
      BY <2>3, <2>6 DEF ReconcileSession
    <3> QED
      BY <2>1, <3>1, <3>2
  <2>7. CASE /\ ~(s.status \in TerminalStates \/ s.age < Stale)
             /\ s.status \notin {"RUNNING", "DISCOVERED"}
    <3>1. VerdictOps(s) = <<>>
      BY <2>7 DEF VerdictOps
    <3>2. r = s
      BY <2>3, <2>7 DEF ReconcileSession
    <3> QED
      BY <2>1, <3>1, <3>2
  <2> QED
    BY <2>4, <2>5, <2>6, <2>7
<1> HIDE DEF r
<1>3. Ask("verdict") \in Asks /\ Decide(Ask("verdict"), s) = VerdictOps(s)
  BY DEF Ask, Asks, Decide
<1>4. Does(<<Ask("verdict")>>, s, r) /\ r \in Session
  BY <1>2, <1>3, DoesAsk DEF Does
<1>5. Ask("commands") \in Asks /\ Decide(Ask("commands"), r) = CommandVerdicts(r)
  BY DEF Ask, Asks, Decide
<1>6. PICK u \in (IF RunningCommands(r) = {} THEN {r}
                  ELSE {JudgedUpTo(r, RunningCommands(r), last) : last \in RunningCommands(r)}) :
         Does(CommandVerdicts(r), r, u)
  BY <1>4, DoesVerdicts
<1>7. Does(<<Ask("commands")>>, r, u)
  BY <1>4, <1>5, <1>6, DoesAsk
<1>8. Does(ReconcileOps, s, u)
  <2>1. Ask("verdict") \in PlainOps /\ Ask("commands") \in PlainOps
    BY AsksArePlain
  <2> QED
    BY <1>4, <1>7, <2>1, DoesTwo DEF ReconcileOps
<1>9. u \in Reconciled(s)
  <2>1. JudgeCommands(r) = JudgedSome(r, RunningCommands(r))
    BY DEF JudgeCommands, JudgedSome
  <2>2. Reconciled(s) = IF RunningCommands(r) = {} THEN {r}
                        ELSE {[JudgeCommands(r) EXCEPT !.attention =
                                  IF r.quiet[last] >= Hung THEN <<"command-hung", last>>
                                  ELSE Top(JudgeCommands(r))] : last \in RunningCommands(r)}
    BY DEF Reconciled, r
  <2> QED
    BY <1>6, <2>1, <2>2 DEF JudgedUpTo
<1> QED
  BY <1>8, <1>9

----------------------------------------------------------------------------
(* What each event's handler does.                                         *)

LEMMA DoesWaiting ==
    ASSUME NEW s \in Session
    PROVE  Does(WaitingOps, s, ResolveWaiting(s))
<1> DEFINE input == Key("input-required")
           approval == Key("approval-required")
           stale == Key("stale")
<1>1. input \in AlertKeys /\ approval \in AlertKeys /\ stale \in AlertKeys
  BY KeysAreKeys DEF SessionCauses
<1>2. /\ ResolveOp(input) \in PlainOps /\ ResolveOp(approval) \in PlainOps
      /\ ResolveOp(stale) \in PlainOps
  BY <1>1, WritesArePlain
<1>3. WaitingOps = <<ResolveOp(input), ResolveOp(approval), ResolveOp(stale)>>
  BY DEF WaitingOps
<1>4. WaitingKeys = ({input} \cup {approval}) \cup {stale}
  BY DEF WaitingKeys
<1> HIDE DEF input, approval, stale
<1> DEFINE t == ResolveAll(s, {input})
           u == ResolveAll(s, {input} \cup {approval})
           v == ResolveAll(s, ({input} \cup {approval}) \cup {stale})
<1>5. t \in Session /\ u \in Session
  BY ResolveAllRow
<1>6. Resolve(s, input) = t /\ Resolve(t, approval) = u /\ Resolve(u, stale) = v
  BY ResolveTwice DEF Resolve
<1> HIDE DEF t, u, v
<1>7. /\ Does(<<ResolveOp(input)>>, s, t) /\ Does(<<ResolveOp(approval)>>, t, u)
      /\ Does(<<ResolveOp(stale)>>, u, v)
  <2>1. Does(<<ResolveOp(input)>>, s, Resolve(s, input))
    BY <1>1, DoesResolve
  <2>2. Does(<<ResolveOp(approval)>>, t, Resolve(t, approval))
    BY <1>1, <1>5, DoesResolve
  <2>3. Does(<<ResolveOp(stale)>>, u, Resolve(u, stale))
    BY <1>1, <1>5, DoesResolve
  <2> QED
    BY <1>6, <2>1, <2>2, <2>3, Zenon
<1>8. Does(WaitingOps, s, v)
  BY <1>2, <1>3, <1>7, DoesThree
<1>9. ResolveWaiting(s) = v
  BY <1>4 DEF ResolveWaiting, v
<1> QED
  BY <1>8, <1>9, Zenon

LEMMA StatusRow ==
    ASSUME NEW s \in Session, NEW to \in Statuses
    PROVE  [s EXCEPT !.status = to] \in Session /\ SetStatus(s, to) \in Session
BY DEF SetStatus, Session

\* A read of the status alone, from which at most one write of it follows.
LEMMA DoesMetadata ==
    ASSUME NEW s \in Session
    PROVE  /\ Does(<<Ask("metadata")>>, s, ProjectMetadata(s, "session.meta"))
           /\ Does(<<Ask("started")>>, s, ProjectMetadata(s, "session.started"))
<1>1. /\ Ask("metadata") \in Asks /\ Decide(Ask("metadata"), s) = <<StatusOp(s.status)>>
      /\ Ask("started") \in Asks
      /\ Decide(Ask("started"), s) = <<StatusOp(ProjectMetadata(s, "session.started").status)>>
  BY DEF Ask, Asks, Decide
<1>2. Does(<<StatusOp(s.status)>>, s, s)
  BY DoesKeep
<1>3. ProjectMetadata(s, "session.meta") = s
  BY DEF ProjectMetadata
<1>4. Does(<<Ask("metadata")>>, s, s)
  BY <1>1, <1>2, DoesAsk
<1>5. CASE s.status = "DISCOVERED"
  <2>1. /\ ProjectMetadata(s, "session.started") = [s EXCEPT !.status = "RUNNING"]
        /\ ProjectMetadata(s, "session.started").status = "RUNNING"
    BY <1>5 DEF ProjectMetadata, Session
  <2>2. Does(<<StatusOp("RUNNING")>>, s, [s EXCEPT !.status = "RUNNING"])
    <3>1. "RUNNING" \in Statuses
      BY DEF Statuses
    <3> QED
      BY <3>1, DoesStatus
  <2>3. Does(Decide(Ask("started"), s), s, ProjectMetadata(s, "session.started"))
    BY <1>1, <2>1, <2>2
  <2> QED
    BY <1>1, <1>3, <1>4, <2>3, DoesAsk
<1>6. CASE s.status # "DISCOVERED"
  <2>1. ProjectMetadata(s, "session.started") = s
    BY <1>6 DEF ProjectMetadata
  <2>2. Does(Decide(Ask("started"), s), s, s)
    BY <1>1, <1>2, <2>1
  <2> QED
    BY <1>1, <1>3, <1>4, <2>1, <2>2, DoesAsk
<1> QED
  BY <1>5, <1>6

LEMMA DoesTurnCompleted ==
    ASSUME NEW s \in Session
    PROVE  Does(<<Ask("turn-completed")>>, s, ProjectTurnCompleted(s))
<1>1. /\ Ask("turn-completed") \in Asks
      /\ Decide(Ask("turn-completed"), s) = IF s.status \in TerminalStates THEN <<>> ELSE <<AskStatus("IDLE")>>
  BY DEF Ask, Asks, Decide
<1>2. ProjectTurnCompleted(s) = IF s.status \in TerminalStates THEN s ELSE SetStatus(s, "IDLE")
  BY DEF ProjectTurnCompleted
<1>3. Does(<<>>, s, s) /\ Does(<<AskStatus("IDLE")>>, s, SetStatus(s, "IDLE"))
  <2>1. "IDLE" \in Statuses
    BY DEF Statuses
  <2> QED
    BY <2>1, DoesNothing, DoesSetStatus
<1>4. Does(Decide(Ask("turn-completed"), s), s, ProjectTurnCompleted(s))
  BY <1>1, <1>2, <1>3
<1> QED
  BY <1>1, <1>4, DoesAsk

LEMMA DoesUserMessage ==
    ASSUME NEW s \in Session
    PROVE  Does(<<Ask("user-message")>> \o WaitingOps, s, ProjectUserMessage(s))
<1> DEFINE answered == s.status \in WaitingStates \cup {"BLOCKED", "IDLE", "DISCOVERED"}
           t == IF answered THEN [s EXCEPT !.status = "RUNNING"] ELSE s
<1>1. /\ Ask("user-message") \in Asks
      /\ Decide(Ask("user-message"), s) = IF answered THEN <<StatusOp("RUNNING")>> ELSE <<>>
  BY DEF Ask, Asks, Decide
<1>2. ProjectUserMessage(s) = ResolveWaiting(t)
  BY DEF ProjectUserMessage
<1> HIDE DEF answered
<1>3. Does(<<>>, s, s) /\ Does(<<StatusOp("RUNNING")>>, s, [s EXCEPT !.status = "RUNNING"])
  <2>1. "RUNNING" \in Statuses
    BY DEF Statuses
  <2> QED
    BY <2>1, DoesNothing, DoesStatus
<1>4. Does(Decide(Ask("user-message"), s), s, t)
  BY <1>1, <1>3
<1>5. t \in Session
  BY <1>4 DEF Does
<1> HIDE DEF t
<1>6. Does(<<Ask("user-message")>>, s, t) /\ Does(WaitingOps, t, ResolveWaiting(t))
  BY <1>1, <1>4, <1>5, DoesAsk, DoesWaiting
<1>7. Does(<<Ask("user-message")>> \o WaitingOps, s, ResolveWaiting(t))
  BY <1>6, DoesBoth
<1> QED
  BY <1>2, <1>7, Zenon

\* _set_status, and then an alert that says why.
LEMMA DoesDemand ==
    ASSUME NEW s \in Session, NEW to \in Statuses, NEW k \in AlertKeys
    PROVE  Does(<<AskStatus(to), UpsertOp(k)>>, s, Upsert(SetStatus(s, to), k))
<1> DEFINE t == SetStatus(s, to)
<1>1. Does(<<AskStatus(to)>>, s, t) /\ t \in Session
  BY DoesSetStatus, StatusRow
<1> HIDE DEF t
<1>2. Does(<<UpsertOp(k)>>, t, Upsert(t, k))
  BY <1>1, DoesUpsert
<1>3. AskStatus(to) \in PlainOps /\ UpsertOp(k) \in PlainOps
  BY AsksArePlain, WritesArePlain
<1>4. Does(<<AskStatus(to), UpsertOp(k)>>, s, Upsert(t, k))
  BY <1>1, <1>2, <1>3, DoesTwo
<1> QED
  BY <1>4 DEF t

LEMMA DoesSessionCompleted ==
    ASSUME NEW s \in Session
    PROVE  Does(<<AskStatus("COMPLETED"), Ask("operational")>>, s,
                ResolveOperational(SetStatus(s, "COMPLETED")))
<1> DEFINE t == SetStatus(s, "COMPLETED")
<1>1. Does(<<AskStatus("COMPLETED")>>, s, t) /\ t \in Session /\ "COMPLETED" \in Statuses
  <2>1. "COMPLETED" \in Statuses
    BY DEF Statuses, TerminalStates
  <2> QED
    BY <2>1, DoesSetStatus, StatusRow
<1> HIDE DEF t
<1>2. Ask("operational") \in Asks /\ Decide(Ask("operational"), t) = ForEach(ResolveOp, OperationalKeys(t))
  BY DEF Ask, Asks, Decide
<1>3. Does(Decide(Ask("operational"), t), t, ResolveOperational(t))
  BY <1>1, <1>2, DoesOperational
<1>4. Does(<<Ask("operational")>>, t, ResolveOperational(t))
  BY <1>1, <1>2, <1>3, DoesAsk
<1>5. AskStatus("COMPLETED") \in PlainOps /\ Ask("operational") \in PlainOps
  BY <1>1, AsksArePlain
<1>6. Does(<<AskStatus("COMPLETED"), Ask("operational")>>, s, ResolveOperational(t))
  BY <1>1, <1>4, <1>5, DoesTwo
<1> QED
  BY <1>6 DEF t

LEMMA DoesCommandStarted ==
    ASSUME NEW s \in Session, NEW c \in Calls, NEW lag \in Lags
    PROVE  Does(<<CommandOp(c, "RUNNING", lag), AskStatus("RUNNING"), ResolveOp(<<"command-failed", c>>)>>,
                s, CommandStarted(s, c, lag))
<1> DEFINE k == <<"command-failed", c>>
           t == UpsertCommand(s, c, "RUNNING", lag)
           u == SetStatus(t, "RUNNING")
<1>1. k \in AlertKeys /\ "RUNNING" \in Statuses /\ "RUNNING" \in CommandStates
  BY KeysAreKeys DEF CallCauses, Statuses, CommandStates
<1>2. Does(<<CommandOp(c, "RUNNING", lag)>>, s, t)
  BY <1>1, DoesCommand
<1>3. t \in Session
  BY <1>2 DEF Does
<1>4. CommandStarted(s, c, lag) = Resolve(u, k)
  BY DEF CommandStarted
<1>5. /\ CommandOp(c, "RUNNING", lag) \in PlainOps /\ AskStatus("RUNNING") \in PlainOps
      /\ ResolveOp(k) \in PlainOps
  BY <1>1, WritesArePlain, AsksArePlain
<1> HIDE DEF k, t
<1>6. Does(<<AskStatus("RUNNING")>>, t, u)
  BY <1>1, <1>3, DoesSetStatus
<1>7. u \in Session
  BY <1>6 DEF Does
<1> HIDE DEF u
<1>8. Does(<<ResolveOp(k)>>, u, Resolve(u, k))
  BY <1>1, <1>7, DoesResolve
<1>9. Does(<<CommandOp(c, "RUNNING", lag), AskStatus("RUNNING"), ResolveOp(k)>>, s, Resolve(u, k))
  BY <1>2, <1>5, <1>6, <1>8, DoesThree
<1> QED
  BY <1>4, <1>9 DEF k

LEMMA DoesCommandOutput ==
    ASSUME NEW s \in Session, NEW c \in Calls, NEW lag \in Lags
    PROVE  Does(<<[ask |-> "output", call |-> c, lag |-> lag], ResolveOp(<<"command-hung", c>>)>>,
                s, CommandOutput(s, c, lag))
<1> DEFINE k == <<"command-hung", c>>
           op == [ask |-> "output", call |-> c, lag |-> lag]
           to == IF s.command[c] = "ABSENT" THEN "RUNNING" ELSE s.command[c]
           t == UpsertCommand(s, c, to, lag)
<1>1. k \in AlertKeys /\ to \in CommandStates
  BY KeysAreKeys DEF CallCauses, CommandStates, Session
<1>2. op \in Asks /\ Decide(op, s) = <<CommandOp(c, to, lag)>>
  BY DEF Asks, Decide
<1>3. CommandOutput(s, c, lag) = Resolve(t, k)
  BY DEF CommandOutput
<1>4. op \in PlainOps /\ ResolveOp(k) \in PlainOps
  BY <1>1, <1>2, WritesArePlain, WritesAreNoAsks
<1> HIDE DEF op, to, k
<1>5. Does(<<op>>, s, t)
  BY <1>1, <1>2, DoesCommand, DoesAsk
<1>6. t \in Session
  BY <1>5 DEF Does
<1> HIDE DEF t
<1>7. Does(<<ResolveOp(k)>>, t, Resolve(t, k))
  BY <1>1, <1>6, DoesResolve
<1>8. Does(<<op, ResolveOp(k)>>, s, Resolve(t, k))
  BY <1>4, <1>5, <1>7, DoesTwo
<1> QED
  BY <1>3, <1>8 DEF op, k

\* _update_test_alert.
LEMMA DoesTests ==
    ASSUME NEW s \in Session
    PROVE  Does(<<Ask("tests")>>, s, UpdateTestAlert(s))
<1> DEFINE plain == Key("test-failure")
           repeated == Key("repeated-test-failure")
<1>1. plain \in AlertKeys /\ repeated \in AlertKeys
  BY KeysAreKeys DEF SessionCauses
<1>2. Ask("tests") \in Asks /\ Decide(Ask("tests"), s) = TestAlertOps(s.streak)
  BY DEF Ask, Asks, Decide
<1>3. TestAlertOps(s.streak) = IF s.streak >= 3 THEN <<UpsertOp(repeated)>>
                               ELSE IF s.streak > 0 THEN <<UpsertOp(plain), ResolveOp(repeated)>>
                               ELSE <<ResolveOp(plain), ResolveOp(repeated)>>
  BY DEF TestAlertOps
<1>4. UpdateTestAlert(s) = IF s.streak >= 3 THEN Upsert(s, repeated)
                           ELSE IF s.streak > 0 THEN Resolve(Upsert(s, plain), repeated)
                           ELSE ResolveAll(s, {plain, repeated})
  BY DEF UpdateTestAlert
<1>5. UpsertOp(plain) \in PlainOps /\ ResolveOp(plain) \in PlainOps /\ ResolveOp(repeated) \in PlainOps
  BY <1>1, WritesArePlain
<1> HIDE DEF plain, repeated
<1>6. Does(<<UpsertOp(repeated)>>, s, Upsert(s, repeated))
  BY <1>1, DoesUpsert
<1>7. Does(<<UpsertOp(plain), ResolveOp(repeated)>>, s, Resolve(Upsert(s, plain), repeated))
  <2> DEFINE t == Upsert(s, plain)
  <2>1. Does(<<UpsertOp(plain)>>, s, t)
    BY <1>1, DoesUpsert
  <2>2. t \in Session
    BY <2>1 DEF Does
  <2> HIDE DEF t
  <2>3. Does(<<ResolveOp(repeated)>>, t, Resolve(t, repeated))
    BY <1>1, <2>2, DoesResolve
  <2>4. Does(<<UpsertOp(plain), ResolveOp(repeated)>>, s, Resolve(t, repeated))
    BY <1>5, <2>1, <2>3, DoesTwo
  <2> QED
    BY <2>4 DEF t
<1>8. Does(<<ResolveOp(plain), ResolveOp(repeated)>>, s, ResolveAll(s, {plain, repeated}))
  <2> DEFINE t == ResolveAll(s, {plain})
             u == ResolveAll(s, {plain} \cup {repeated})
  <2>1. t \in Session /\ t = Resolve(s, plain) /\ Resolve(t, repeated) = u
    <3>1. t \in Session
      BY ResolveAllRow
    <3>2. t = Resolve(s, plain)
      BY DEF Resolve
    <3>3. Resolve(t, repeated) = u
      BY ResolveTwice
    <3> QED
      BY <3>1, <3>2, <3>3
  <2>2. u = ResolveAll(s, {plain, repeated})
    <3>1. {plain} \cup {repeated} = {plain, repeated}
      OBVIOUS
    <3> QED
      BY <3>1, Zenon
  <2> HIDE DEF t, u
  <2>3. Does(<<ResolveOp(plain)>>, s, t)
    BY <1>1, <2>1, DoesResolve
  <2>4. Does(<<ResolveOp(repeated)>>, t, Resolve(t, repeated))
    BY <1>1, <2>1, DoesResolve
  <2>5. Does(<<ResolveOp(plain), ResolveOp(repeated)>>, s, u)
    BY <1>5, <2>1, <2>3, <2>4, DoesTwo
  <2> QED
    BY <2>2, <2>5, Zenon
<1>9. Does(Decide(Ask("tests"), s), s, UpdateTestAlert(s))
  BY <1>2, <1>3, <1>4, <1>6, <1>7, <1>8
<1> QED
  BY <1>2, <1>9, DoesAsk

LEMMA DoesGood ==
    ASSUME NEW s \in Session
    PROVE  Does(<<Ask("command-good")>>, s,
                IF s.status \in TerminalStates \cup WaitingStates THEN s
                ELSE [s EXCEPT !.status = "RUNNING"])
<1>1. /\ Ask("command-good") \in Asks
      /\ Decide(Ask("command-good"), s) = IF s.status \in TerminalStates \cup WaitingStates THEN <<>>
                                          ELSE <<StatusOp("RUNNING")>>
  BY DEF Ask, Asks, Decide
<1>2. Does(<<>>, s, s) /\ Does(<<StatusOp("RUNNING")>>, s, [s EXCEPT !.status = "RUNNING"])
  <2>1. "RUNNING" \in Statuses
    BY DEF Statuses
  <2> QED
    BY <2>1, DoesNothing, DoesStatus
<1>3. Does(Decide(Ask("command-good"), s), s,
           IF s.status \in TerminalStates \cup WaitingStates THEN s ELSE [s EXCEPT !.status = "RUNNING"])
  BY <1>1, <1>2
<1> QED
  BY <1>1, <1>3, DoesAsk

\* The three parts of the handler of a command's end.
Ended(s, c, lag) == Resolve(UpsertCommand(s, c, "ENDED", lag), <<"command-hung", c>>)
JudgedEnd(s, c, failed) ==
    LET good == Resolve(s, <<"command-failed", c>>)
    IN  IF failed THEN Upsert(s, <<"command-failed", c>>)
        ELSE IF good.status \in TerminalStates \cup WaitingStates THEN good
             ELSE [good EXCEPT !.status = "RUNNING"]
EndOps(c, lag) == <<CommandOp(c, "ENDED", lag), ResolveOp(<<"command-hung", c>>)>>
JudgeOps(c, failed) ==
    IF failed THEN <<UpsertOp(<<"command-failed", c>>)>>
    ELSE <<ResolveOp(<<"command-failed", c>>), Ask("command-good")>>
TestOps(test) == IF test = "NONE" THEN <<>> ELSE <<Write("test", test), Ask("tests")>>

LEMMA DoesEnd ==
    ASSUME NEW s \in Session, NEW c \in Calls, NEW lag \in Lags
    PROVE  Does(EndOps(c, lag), s, Ended(s, c, lag))
<1> DEFINE k == <<"command-hung", c>>
           t == UpsertCommand(s, c, "ENDED", lag)
<1>1. k \in AlertKeys /\ "ENDED" \in CommandStates
  BY KeysAreKeys DEF CallCauses, CommandStates
<1>2. Does(<<CommandOp(c, "ENDED", lag)>>, s, t)
  BY <1>1, DoesCommand
<1>3. t \in Session
  BY <1>2 DEF Does
<1>4. Ended(s, c, lag) = Resolve(t, k) /\ EndOps(c, lag) = <<CommandOp(c, "ENDED", lag), ResolveOp(k)>>
  BY DEF Ended, EndOps
<1>5. CommandOp(c, "ENDED", lag) \in PlainOps /\ ResolveOp(k) \in PlainOps
  BY <1>1, WritesArePlain
<1> HIDE DEF k, t
<1>6. Does(<<ResolveOp(k)>>, t, Resolve(t, k))
  BY <1>1, <1>3, DoesResolve
<1>7. Does(<<CommandOp(c, "ENDED", lag), ResolveOp(k)>>, s, Resolve(t, k))
  BY <1>2, <1>5, <1>6, DoesTwo
<1> QED
  BY <1>4, <1>7, Zenon

LEMMA DoesJudgedEnd ==
    ASSUME NEW s \in Session, NEW c \in Calls, NEW failed \in BOOLEAN
    PROVE  Does(JudgeOps(c, failed), s, JudgedEnd(s, c, failed))
<1> DEFINE k == <<"command-failed", c>>
           good == Resolve(s, k)
           u == IF good.status \in TerminalStates \cup WaitingStates THEN good
                ELSE [good EXCEPT !.status = "RUNNING"]
<1>1. k \in AlertKeys
  BY KeysAreKeys DEF CallCauses
<1>2. /\ JudgedEnd(s, c, failed) = IF failed THEN Upsert(s, k) ELSE u
      /\ JudgeOps(c, failed) = IF failed THEN <<UpsertOp(k)>> ELSE <<ResolveOp(k), Ask("command-good")>>
  BY DEF JudgedEnd, JudgeOps
<1>3. ResolveOp(k) \in PlainOps /\ Ask("command-good") \in PlainOps
  BY <1>1, WritesArePlain, AsksArePlain
<1> HIDE DEF k
<1>4. Does(<<UpsertOp(k)>>, s, Upsert(s, k)) /\ Does(<<ResolveOp(k)>>, s, good)
  BY <1>1, DoesUpsert, DoesResolve
<1>5. good \in Session
  BY <1>4 DEF Does
<1> HIDE DEF good
<1>6. Does(<<Ask("command-good")>>, good, u)
  BY <1>5, DoesGood
<1> HIDE DEF u
<1>7. Does(<<ResolveOp(k), Ask("command-good")>>, s, u)
  BY <1>3, <1>4, <1>6, DoesTwo
<1>8. CASE failed
  BY <1>2, <1>4, <1>8
<1>9. CASE ~failed
  BY <1>2, <1>7, <1>9
<1> QED
  BY <1>8, <1>9

LEMMA DoesTestRun ==
    ASSUME NEW s \in Session, NEW test \in {"NONE", "PASSED", "FAILED"}
    PROVE  Does(TestOps(test), s, IF test = "NONE" THEN s ELSE UpdateTestAlert(AddTestRun(s, test)))
<1>1. CASE test = "NONE"
  BY <1>1, DoesNothing DEF TestOps
<1>2. CASE test # "NONE"
  <2> DEFINE t == AddTestRun(s, test)
             op == Write("test", test)
  <2>1. test \in {"PASSED", "FAILED"} /\ TestOps(test) = <<op, Ask("tests")>>
    BY <1>2 DEF TestOps
  <2>2. op \in PlainWrites /\ Apply(op, s) = t /\ op \in PlainOps /\ Ask("tests") \in PlainOps
    <3>1. op \in PlainWrites /\ Apply(op, s) = t
      BY <2>1 DEF Write, PlainWrites, Apply
    <3> QED
      BY <3>1, WritesAreNoAsks, AsksArePlain
  <2> HIDE DEF t, op
  <2>3. Does(<<op>>, s, t)
    BY <2>2, DoesWrite
  <2>4. Does(<<Ask("tests")>>, t, UpdateTestAlert(t))
    BY <2>3, DoesTests DEF Does
  <2>5. Does(<<op, Ask("tests")>>, s, UpdateTestAlert(t))
    BY <2>2, <2>3, <2>4, DoesTwo
  <2> QED
    BY <1>2, <2>1, <2>5 DEF t
<1> QED
  BY <1>1, <1>2

LEMMA DoesCommandCompleted ==
    ASSUME NEW s \in Session, NEW e \in Events, e.kind = "command.completed", NEW lag \in Lags
    PROVE  Does(CommandCompletedOps(e, lag), s, CommandCompleted(s, e.call, lag, e.failed, e.test))
<1> DEFINE c == e.call
           t == Ended(s, c, lag)
           u == JudgedEnd(t, c, e.failed)
           v == IF e.test = "NONE" THEN u ELSE UpdateTestAlert(AddTestRun(u, e.test))
<1>1. c \in Calls /\ e.failed \in BOOLEAN /\ e.test \in {"NONE", "PASSED", "FAILED"}
  BY DEF Events, PlainKinds
<1>2. CommandCompletedOps(e, lag) = EndOps(c, lag) \o JudgeOps(c, e.failed) \o TestOps(e.test)
  BY DEF CommandCompletedOps, EndOps, JudgeOps, TestOps
<1>3. CommandCompleted(s, e.call, lag, e.failed, e.test) = v
  BY DEF CommandCompleted, Ended, JudgedEnd
<1> HIDE DEF c
<1>4. Does(EndOps(c, lag), s, t)
  BY <1>1, DoesEnd
<1>5. t \in Session
  BY <1>4 DEF Does
<1> HIDE DEF t
<1>6. Does(JudgeOps(c, e.failed), t, u)
  BY <1>1, <1>5, DoesJudgedEnd
<1>7. u \in Session
  BY <1>6 DEF Does
<1> HIDE DEF u
<1>8. Does(TestOps(e.test), u, v)
  BY <1>1, <1>7, DoesTestRun
<1> HIDE DEF v
<1>9. Does(EndOps(c, lag) \o JudgeOps(c, e.failed), s, u)
  BY <1>4, <1>6, DoesBoth
<1>10. Does(EndOps(c, lag) \o JudgeOps(c, e.failed) \o TestOps(e.test), s, v)
  BY <1>8, <1>9, DoesBoth
<1> QED
  BY <1>2, <1>3, <1>10, Zenon

LEMMA DoesToolCompleted ==
    ASSUME NEW s \in Session, NEW c \in Calls, NEW failed \in BOOLEAN
    PROVE  Does(<<IF failed THEN UpsertOp(<<"tool-failed", c>>) ELSE ResolveOp(<<"tool-failed", c>>)>>,
                s, ToolCompleted(s, c, failed))
<1> DEFINE k == <<"tool-failed", c>>
<1>1. k \in AlertKeys
  BY KeysAreKeys DEF CallCauses
<1>2. ToolCompleted(s, c, failed) = IF failed THEN Upsert(s, k) ELSE Resolve(s, k)
  BY DEF ToolCompleted
<1> HIDE DEF k
<1>3. Does(<<UpsertOp(k)>>, s, Upsert(s, k)) /\ Does(<<ResolveOp(k)>>, s, Resolve(s, k))
  BY <1>1, DoesUpsert, DoesResolve
<1>4. Does(<<IF failed THEN UpsertOp(k) ELSE ResolveOp(k)>>, s, ToolCompleted(s, c, failed))
  BY <1>2, <1>3
<1> QED
  BY <1>4 DEF k

\* Every handler does what Project says of its kind.
LEMMA DoesHandler ==
    ASSUME NEW s \in Session, NEW e \in Events, NEW lag \in Lags
    PROVE  Does(HandlerOps(e, lag), s, Project(s, e, lag))
<1>1. CASE e.kind \in {"session.meta", "session.started"}
  <2>1. CASE e.kind = "session.meta"
    <3>1. HandlerOps(e, lag) = <<Ask("metadata")>> /\ Project(s, e, lag) = ProjectMetadata(s, "session.meta")
      BY <2>1 DEF HandlerOps, Project
    <3> QED
      BY <3>1, DoesMetadata
  <2>2. CASE e.kind = "session.started"
    <3>1. HandlerOps(e, lag) = <<Ask("started")>> /\ Project(s, e, lag) = ProjectMetadata(s, "session.started")
      BY <2>2 DEF HandlerOps, Project
    <3> QED
      BY <3>1, DoesMetadata
  <2> QED
    BY <1>1, <2>1, <2>2
<1>2. CASE e.kind = "turn.started"
  <2> DEFINE t == SetStatus(s, "RUNNING")
  <2>1. /\ HandlerOps(e, lag) = <<AskStatus("RUNNING")>> \o WaitingOps
        /\ Project(s, e, lag) = ResolveWaiting(t)
    BY <1>2 DEF HandlerOps, Project
  <2>2. "RUNNING" \in Statuses
    BY DEF Statuses
  <2>3. Does(<<AskStatus("RUNNING")>>, s, t)
    BY <2>2, DoesSetStatus
  <2>4. t \in Session
    BY <2>3 DEF Does
  <2> HIDE DEF t
  <2>5. Does(WaitingOps, t, ResolveWaiting(t))
    BY <2>4, DoesWaiting
  <2>6. Does(<<AskStatus("RUNNING")>> \o WaitingOps, s, ResolveWaiting(t))
    BY <2>3, <2>5, DoesBoth
  <2> QED
    BY <2>1, <2>6, Zenon
<1>3. CASE e.kind = "turn.completed"
  <2>1. HandlerOps(e, lag) = <<Ask("turn-completed")>> /\ Project(s, e, lag) = ProjectTurnCompleted(s)
    BY <1>3 DEF HandlerOps, Project
  <2> QED
    BY <2>1, DoesTurnCompleted
<1>4. CASE e.kind = "turn.failed"
  <2>1. /\ HandlerOps(e, lag) = <<AskStatus("FAILED"), UpsertOp(Key("turn-failed"))>>
        /\ Project(s, e, lag) = Upsert(SetStatus(s, "FAILED"), Key("turn-failed"))
    BY <1>4 DEF HandlerOps, Project
  <2>2. "FAILED" \in Statuses /\ Key("turn-failed") \in AlertKeys
    BY KeysAreKeys DEF Statuses, TerminalStates, SessionCauses
  <2> QED
    BY <2>1, <2>2, DoesDemand
<1>5. CASE e.kind = "session.completed"
  <2>1. /\ HandlerOps(e, lag) = <<AskStatus("COMPLETED"), Ask("operational")>>
        /\ Project(s, e, lag) = ResolveOperational(SetStatus(s, "COMPLETED"))
    BY <1>5 DEF HandlerOps, Project
  <2> QED
    BY <2>1, DoesSessionCompleted
<1>6. CASE e.kind = "message.user"
  <2>1. /\ HandlerOps(e, lag) = <<Ask("user-message")>> \o WaitingOps
        /\ Project(s, e, lag) = ProjectUserMessage(s)
    BY <1>6 DEF HandlerOps, Project
  <2> QED
    BY <2>1, DoesUserMessage
<1>7. CASE e.kind = "input.required"
  <2>1. /\ HandlerOps(e, lag) = <<AskStatus("WAITING_INPUT"), UpsertOp(Key("input-required"))>>
        /\ Project(s, e, lag) = Upsert(SetStatus(s, "WAITING_INPUT"), Key("input-required"))
    BY <1>7 DEF HandlerOps, Project
  <2>2. "WAITING_INPUT" \in Statuses /\ Key("input-required") \in AlertKeys
    BY KeysAreKeys DEF Statuses, WaitingStates, SessionCauses
  <2> QED
    BY <2>1, <2>2, DoesDemand
<1>8. CASE e.kind = "approval.required"
  <2>1. /\ HandlerOps(e, lag) = <<AskStatus("WAITING_APPROVAL"), UpsertOp(Key("approval-required"))>>
        /\ Project(s, e, lag) = Upsert(SetStatus(s, "WAITING_APPROVAL"), Key("approval-required"))
    BY <1>8 DEF HandlerOps, Project
  <2>2. "WAITING_APPROVAL" \in Statuses /\ Key("approval-required") \in AlertKeys
    BY KeysAreKeys DEF Statuses, WaitingStates, SessionCauses
  <2> QED
    BY <2>1, <2>2, DoesDemand
<1>9. CASE e.kind = "command.started"
  <2>1. /\ HandlerOps(e, lag) = <<CommandOp(e.call, "RUNNING", lag), AskStatus("RUNNING"),
                                  ResolveOp(<<"command-failed", e.call>>)>>
        /\ Project(s, e, lag) = CommandStarted(s, e.call, lag) /\ e.call \in Calls
    BY <1>9, EventFields DEF HandlerOps, Project
  <2> QED
    BY <2>1, DoesCommandStarted
<1>10. CASE e.kind = "command.output"
  <2>1. /\ HandlerOps(e, lag) = <<[ask |-> "output", call |-> e.call, lag |-> lag],
                                  ResolveOp(<<"command-hung", e.call>>)>>
        /\ Project(s, e, lag) = CommandOutput(s, e.call, lag) /\ e.call \in Calls
    BY <1>10, EventFields DEF HandlerOps, Project
  <2> QED
    BY <2>1, DoesCommandOutput
<1>11. CASE e.kind = "command.completed"
  <2>1. /\ HandlerOps(e, lag) = CommandCompletedOps(e, lag)
        /\ Project(s, e, lag) = CommandCompleted(s, e.call, lag, e.failed, e.test)
    BY <1>11 DEF HandlerOps, Project
  <2> QED
    BY <1>11, <2>1, DoesCommandCompleted
<1>12. CASE e.kind = "tool.started"
  <2>1. /\ HandlerOps(e, lag) = <<AskStatus("RUNNING")>> /\ Project(s, e, lag) = SetStatus(s, "RUNNING")
        /\ "RUNNING" \in Statuses
    BY <1>12 DEF HandlerOps, Project, Statuses
  <2> QED
    BY <2>1, DoesSetStatus
<1>13. CASE e.kind = "tool.completed"
  <2>1. /\ HandlerOps(e, lag) = <<IF e.failed THEN UpsertOp(<<"tool-failed", e.call>>)
                                  ELSE ResolveOp(<<"tool-failed", e.call>>)>>
        /\ Project(s, e, lag) = ToolCompleted(s, e.call, e.failed)
    BY <1>13 DEF HandlerOps, Project
  <2>2. e.call \in Calls /\ e.failed \in BOOLEAN
    BY <1>13 DEF Events, PlainKinds
  <2> QED
    BY <2>1, <2>2, DoesToolCompleted
<1>14. CASE e.kind = "error"
  <2>1. /\ HandlerOps(e, lag) = <<UpsertOp(Key("runtime-error"))>>
        /\ Project(s, e, lag) = Upsert(s, Key("runtime-error")) /\ Key("runtime-error") \in AlertKeys
    BY <1>14, KeysAreKeys DEF HandlerOps, Project, SessionCauses
  <2> QED
    BY <2>1, DoesUpsert
<1>15. CASE e.kind \notin {"session.meta", "session.started", "turn.started", "turn.completed",
                          "turn.failed", "session.completed", "message.user", "input.required",
                          "approval.required", "command.started", "command.output",
                          "command.completed", "tool.started", "tool.completed", "error"}
  <2>1. HandlerOps(e, lag) = <<>> /\ Project(s, e, lag) = s
    BY <1>15 DEF HandlerOps, Project
  <2> QED
    BY <2>1, DoesNothing
<1> QED
  BY <1>1, <1>2, <1>3, <1>4, <1>5, <1>6, <1>7, <1>8, <1>9, <1>10, <1>11, <1>12, <1>13, <1>14, <1>15

----------------------------------------------------------------------------
(* Where the calls lead.                                                    *)

LEMMA DoesLeads ==
    ASSUME NEW w, NEW s, NEW u, Does(w, s, u)
    PROVE  Leads(w, s, u)
<1>1. w \in Seq(PlainOps) /\ u \in Session /\ <<>> \in Seq(PlainOps)
  BY DEF Does
<1>2. Leads(<<>>, u, u)
  BY <1>1, LeadsNowhere
<1>3. Leads(w \o <<>>, s, u)
  BY <1>1, <1>2 DEF Does
<1>4. w \o <<>> = w
  BY <1>1, ConcatEmptySeq
<1> QED
  BY <1>3, <1>4, Zenon

LEMMA ExitLeads ==
    ASSUME NEW s \in Session, NEW how \in {"cancelled", "success", "failure"}
    PROVE  Leads(<<[ask |-> "exit", how |-> how]>>, s, ProcessExited(s, how))
<1> DEFINE op == [ask |-> "exit", how |-> how]
           k == Key("process-exit")
<1>1. op \in Asks /\ Decide(op, s) = ExitOps(s, how)
  BY DEF Asks, Decide
<1>2. k \in AlertKeys /\ {"CANCELLED", "COMPLETED", "IDLE", "FAILED"} \subseteq Statuses
  BY KeysAreKeys DEF SessionCauses, Statuses, TerminalStates
<1>3. Does(ExitOps(s, how), s, ProcessExited(s, how))
  <2>1. CASE how = "cancelled"
    <3>1. /\ ExitOps(s, how) = <<StatusOp("CANCELLED")>>
          /\ ProcessExited(s, how) = [s EXCEPT !.status = "CANCELLED"]
      BY <2>1 DEF ExitOps, ProcessExited
    <3> QED
      BY <1>2, <3>1, DoesStatus
  <2>2. CASE how = "success"
    <3> DEFINE to == IF s.status = "COMPLETED" THEN "COMPLETED" ELSE "IDLE"
    <3>1. ExitOps(s, how) = <<StatusOp(to)>> /\ ProcessExited(s, how) = [s EXCEPT !.status = to]
      BY <2>2 DEF ExitOps, ProcessExited
    <3>2. to \in Statuses
      BY <1>2
    <3> HIDE DEF to
    <3> QED
      BY <3>1, <3>2, DoesStatus
  <2>3. CASE how = "failure"
    <3> DEFINE t == [s EXCEPT !.status = "FAILED"]
    <3>1. /\ ExitOps(s, how) = <<StatusOp("FAILED"), UpsertOp(k)>>
          /\ ProcessExited(s, how) = Upsert(t, k)
      BY <2>3 DEF ExitOps, ProcessExited
    <3>2. Does(<<StatusOp("FAILED")>>, s, t) /\ t \in Session
      BY <1>2, DoesStatus DEF Does
    <3>3. StatusOp("FAILED") \in PlainOps /\ UpsertOp(k) \in PlainOps
      BY <1>2, WritesArePlain
    <3> HIDE DEF t, k
    <3>4. Does(<<UpsertOp(k)>>, t, Upsert(t, k))
      BY <1>2, <3>2, DoesUpsert
    <3>5. Does(<<StatusOp("FAILED"), UpsertOp(k)>>, s, Upsert(t, k))
      BY <3>2, <3>3, <3>4, DoesTwo
    <3> QED
      BY <3>1, <3>5, Zenon
  <2> QED
    BY <2>1, <2>2, <2>3
<1> HIDE DEF op
<1>4. Does(<<op>>, s, ProcessExited(s, how))
  BY <1>1, <1>3, DoesAsk
<1>5. Leads(<<op>>, s, ProcessExited(s, how))
  BY <1>4, DoesLeads
<1> QED
  BY <1>5 DEF op

LEMMA StartedLeads ==
    ASSUME NEW s \in Session
    PROVE  Leads(<<Write("started", 0)>>, s, ProcessStarted(s))
<1>1. Write("started", 0) \in PlainWrites /\ Apply(Write("started", 0), s) = ProcessStarted(s)
  BY DEF Write, PlainWrites, Apply
<1>2. Does(<<Write("started", 0)>>, s, ProcessStarted(s))
  BY <1>1, DoesWrite
<1> QED
  BY <1>2, DoesLeads

LEMMA ReconcileLeads ==
    ASSUME NEW s \in Session
    PROVE  \E u \in Reconciled(s) : Leads(ReconcileOps, s, u)
<1>1. PICK u \in Reconciled(s) : Does(ReconcileOps, s, u)
  BY DoesReconcile
<1> QED
  BY <1>1, DoesLeads

\* What is left of a new line's call once its event is in the table leads to
\* the row that ingest makes of it.
LEMMA LineLeads ==
    ASSUME NEW s \in Session, NEW e \in Events, NEW lag \in Lags
    PROVE  Leads(LineOps(e, lag), Seen(s, lag), IngestNew(s, e, lag))
<1> DEFINE t == Seen(s, lag)
           u == Project(t, e, lag)
           v == RefreshAttention(u)
<1>1. t \in Session
  BY DEF Seen, Session, Lags
<1>2. IngestNew(s, e, lag) = v
  BY DEF IngestNew
<1> HIDE DEF t
<1>3. Does(HandlerOps(e, lag), t, u)
  BY <1>1, DoesHandler
<1>4. u \in Session
  BY <1>3 DEF Does
<1> HIDE DEF u
<1>5. Does(<<Ask("refresh")>>, u, v)
  BY <1>4, DoesRefresh
<1> HIDE DEF v
<1>6. Does(LineOps(e, lag), t, v)
  BY <1>3, <1>5, DoesBoth DEF LineOps
<1>7. Leads(LineOps(e, lag), t, v)
  BY <1>6, DoesLeads
<1> QED
  BY <1>2, <1>7 DEF t

----------------------------------------------------------------------------
(* Calls that do not overlap: while one is under way, settled is the row it *)
(* began with, and what it has still to do leads to a row that one step of  *)
(* the abstract engine makes of it.                                        *)

Lines == UNION {DOMAIN lines : lines \in Logs}
Ids == {"count", "position"} \X Lines

IsSettled ==
    settled = [session |-> session, events |-> Cardinality(stored), process |-> ProcessState(exit)]

\* The row is what it was when the call began, but for the time of its last event.
Since(s) ==
    /\ session = s
    /\ settled.events = Cardinality(stored) /\ settled.process = ProcessState(exit)

\* Row r, with so many events and the process in state p, is what a step of the
\* abstract engine makes of settled.
Outcome(r, events, p) ==
    \/ /\ \E e \in Events, lag \in Lags : r = IngestNew(settled.session, e, lag)
       /\ events = settled.events + 1 /\ p = settled.process
    \/ r \in Reconciled(settled.session) /\ events = settled.events /\ p = settled.process
    \/ /\ r = ProcessStarted(settled.session) /\ events = 0 /\ settled.events = 0
       /\ settled.process = "none" /\ p = "live"
    \/ /\ \E how \in {"cancelled", "success", "failure"} : r = ProcessExited(settled.session, how)
       /\ events = settled.events /\ settled.process = "live" /\ p = "exited"

Called(t) ==
    /\ taken[t] \in 1..Len(log)
    /\ \E lag \in Lags : todo[t] = CallOps(t, taken[t], log[taken[t]], lag)
    /\ Since(settled.session)
EnteredWith(t, lag) ==
    /\ taken[t] \in 1..Len(log)
    /\ todo[t] = EntryOps(t, taken[t], log[taken[t]], lag)
    /\ Since(Seen(settled.session, lag))
Decided(t) ==
    \E r : Leads(todo[t], session, r) /\ Outcome(r, Cardinality(stored), ProcessState(exit))
InCall(t) == Called(t) \/ (\E lag \in Lags : EnteredWith(t, lag)) \/ Decided(t)

SerialInv ==
    /\ ThreadsInv
    /\ stored \subseteq Ids /\ settled.session \in Session /\ settled.events \in Nat
    /\ \A t, u \in Threads : todo[t] # <<>> /\ todo[u] # <<>> => t = u
    /\ AllIdle => IsSettled
    /\ \A t \in Threads : todo[t] # <<>> => InCall(t)

LEMMA CallOpsForm ==
    ASSUME NEW t, NEW n, NEW lag \in Lags, NEW e \in Events
    PROVE  /\ CallOps(t, n, e, lag) # <<>> /\ Head(CallOps(t, n, e, lag)) = EnsureOp(lag)
           /\ Tail(CallOps(t, n, e, lag)) = EntryOps(t, n, e, lag)
           /\ EntryOps(t, n, e, lag) # <<>> /\ Head(EntryOps(t, n, e, lag)) = InsertOp(t, n, lag)
           /\ Tail(EntryOps(t, n, e, lag)) = LineOps(e, lag)
           /\ LineOps(e, lag) # <<>> /\ LineOps(e, lag) \in Seq(PlainOps)
<1> DEFINE S == PlainOps \cup {EnsureOp(lag), InsertOp(t, n, lag)}
           en == EnsureOp(lag)
           ins == InsertOp(t, n, lag)
           line == LineOps(e, lag)
<1>1. en \in S /\ ins \in S /\ line \in Seq(S) /\ line \in Seq(PlainOps)
  BY LineOpsArePlain, WiderSeq
<1>2. line # <<>>
  <2> DEFINE h == HandlerOps(e, lag)
             last == <<Ask("refresh")>>
  <2>1. line = h \o last
    BY DEF LineOps
  <2>2. h \in Seq(PlainOps) /\ last \in Seq(PlainOps) /\ Len(last) = 1
    BY HandlerOpsArePlain, AsksArePlain, ShortSeqs
  <2> HIDE DEF h, last, line
  <2>3. Len(h) \in Nat
    BY <2>2
  <2>4. Len(line) = Len(h) + 1
    <3>1. Len(h \o last) = Len(h) + Len(last)
      BY <2>2, ConcatProperties
    <3> QED
      BY <2>1, <2>2, <3>1
  <2> QED
    BY <1>1, <2>3, <2>4, EmptySeq
<1>3. EntryOps(t, n, e, lag) = <<ins>> \o line /\ CallOps(t, n, e, lag) = <<en>> \o EntryOps(t, n, e, lag)
  BY DEF EntryOps, CallOps
<1> HIDE DEF S, en, ins, line
<1>4. /\ EntryOps(t, n, e, lag) # <<>> /\ Head(EntryOps(t, n, e, lag)) = ins
      /\ Tail(EntryOps(t, n, e, lag)) = line /\ EntryOps(t, n, e, lag) \in Seq(S)
  BY <1>1, <1>3, OneThenRest
<1>5. /\ CallOps(t, n, e, lag) # <<>> /\ Head(CallOps(t, n, e, lag)) = en
      /\ Tail(CallOps(t, n, e, lag)) = EntryOps(t, n, e, lag)
  BY <1>1, <1>3, <1>4, OneThenRest
<1> QED
  BY <1>1, <1>2, <1>4, <1>5 DEF en, ins, line

LEMMA LineIds ==
    ASSUME log \in Logs, NEW n \in 1..Len(log), NEW t
    PROVE  n \in Lines /\ SourceId(t, n) \in Ids
<1>1. log \in Seq(Events)
  BY LogsAssumption
<1>2. DOMAIN log = 1..Len(log)
  BY <1>1
<1>3. n \in Lines
  BY <1>2 DEF Lines
<1> QED
  BY <1>3 DEF Ids, SourceId

LEMMA IdsAreBounded ==
    ASSUME IsFiniteSet(Lines), NEW S \in SUBSET Ids
    PROVE  /\ IsFiniteSet(S) /\ Cardinality(S) \in Nat
           /\ Cardinality(Lines) \in Nat /\ Cardinality(S) <= 2 * Cardinality(Lines)
<1> DEFINE two == {"count", "position"}
<1>1. IsFiniteSet(two) /\ Cardinality(two) = 2
  <2>1. IsFiniteSet({}) /\ Cardinality({}) = 0
    BY FS_EmptySet
  <2>2. IsFiniteSet({} \cup {"count"}) /\ Cardinality({} \cup {"count"}) = 0 + 1
    BY <2>1, FS_AddElement
  <2>5. "position" \notin {} \cup {"count"}
    OBVIOUS
  <2>3. /\ IsFiniteSet(({} \cup {"count"}) \cup {"position"})
        /\ Cardinality(({} \cup {"count"}) \cup {"position"}) = (0 + 1) + 1
    BY <2>2, <2>5, FS_AddElement
  <2>4. ({} \cup {"count"}) \cup {"position"} = two
    OBVIOUS
  <2> HIDE DEF two
  <2> QED
    BY <2>3, <2>4
<1> HIDE DEF two
<1>2. IsFiniteSet(two \X Lines) /\ Cardinality(two \X Lines) = Cardinality(two) * Cardinality(Lines)
  BY <1>1, FS_Product
<1>3. S \subseteq two \X Lines
  BY DEF Ids, two
<1>4. IsFiniteSet(S) /\ Cardinality(S) <= Cardinality(two \X Lines)
  BY <1>2, <1>3, FS_Subset
<1>5. Cardinality(S) \in Nat /\ Cardinality(Lines) \in Nat
  BY <1>4, FS_CardinalityType
<1> QED
  BY <1>1, <1>2, <1>4, <1>5

\* The steps that the abstract engine sees.
LEMMA Unseen ==
    ASSUME settled' = settled
    PROVE  UNCHANGED Abstract!vars
BY DEF Abstract!vars

LEMMA OutcomeIsStep ==
    ASSUME IsFiniteSet(Lines), stored' \subseteq Ids, settled.events \in Nat,
           NEW r, NEW n, NEW p, n = Cardinality(stored'), Outcome(r, n, p),
           settled' = [session |-> r, events |-> n, process |-> p]
    PROVE  Abstract!Next
<1>1. settled'.session = r /\ settled'.events = n /\ settled'.process = p
  OBVIOUS
<1>2. n \in Nat /\ n <= 2 * Cardinality(Lines) /\ Cardinality(Lines) \in Nat
  <2>1. \A S \in SUBSET Ids : /\ Cardinality(S) \in Nat /\ Cardinality(Lines) \in Nat
                              /\ Cardinality(S) <= 2 * Cardinality(Lines)
    BY IdsAreBounded
  <2> QED
    BY <2>1
<1>3. ASSUME NEW e \in Events, NEW lag \in Lags, r = IngestNew(settled.session, e, lag),
             n = settled.events + 1, p = settled.process
      PROVE  Abstract!Next
  <2>1. settled.events < 2 * Cardinality(Lines)
    BY <1>2, <1>3
  <2>2. r = Abstract!IngestNew(settled.session, e, lag) /\ e \in Abstract!Events
    BY <1>3, SameSteps, SameNames
  <2>3. Abstract!Ingest(e, lag)
    BY <1>1, <1>3, <2>1, <2>2 DEF Abstract!Ingest, Lines
  <2> QED
    BY <2>2, <2>3 DEF Abstract!Next, Lags
<1>4. CASE r \in Reconciled(settled.session) /\ n = settled.events /\ p = settled.process
  <2>1. r \in Abstract!Reconciled(settled.session)
    BY <1>4, SameSteps
  <2>2. Abstract!Reconcile
    BY <1>1, <1>4, <2>1 DEF Abstract!Reconcile
  <2> QED
    BY <2>2 DEF Abstract!Next
<1>5. CASE /\ r = ProcessStarted(settled.session) /\ n = 0 /\ settled.events = 0
           /\ settled.process = "none" /\ p = "live"
  <2>1. r = Abstract!ProcessStarted(settled.session)
    BY <1>5, SameSteps
  <2>2. Abstract!ManagedProcessStarted
    BY <1>1, <1>5, <2>1 DEF Abstract!ManagedProcessStarted
  <2> QED
    BY <2>2 DEF Abstract!Next
<1>6. ASSUME NEW how \in {"cancelled", "success", "failure"}, r = ProcessExited(settled.session, how),
             n = settled.events, settled.process = "live", p = "exited"
      PROVE  Abstract!Next
  <2>1. r = Abstract!ProcessExited(settled.session, how)
    BY <1>6, SameSteps
  <2>2. Abstract!ManagedProcessExited(how)
    BY <1>1, <1>6, <2>1 DEF Abstract!ManagedProcessExited
  <2> QED
    BY <2>2 DEF Abstract!Next
<1> QED
  BY <1>3, <1>4, <1>5, <1>6 DEF Outcome

LEMMA DuplicateIsStep ==
    ASSUME NEW lag \in Lags, settled.events \in Nat, settled.events # 0,
           settled' = [session |-> Seen(settled.session, lag),
                       events |-> settled.events, process |-> settled.process]
    PROVE  Abstract!Next
<1>1. Abstract!Seen(settled.session, lag) = Seen(settled.session, lag)
  BY SameTransactions
<1>2. Abstract!IngestDuplicate(lag)
  BY <1>1 DEF Abstract!IngestDuplicate
<1> QED
  BY <1>2 DEF Abstract!Next, Lags

----------------------------------------------------------------------------
(* Every step keeps SerialInv, and is a step of the abstract engine or none. *)

\* One thread is left with q to do, and the others are idle.
LEMMA OneBusy ==
    ASSUME DOMAIN todo = Threads, NEW t \in Threads, NEW q, Left(t, q), Settle,
           \A u \in Threads : u # t => todo[u] = <<>>
    PROVE  /\ todo'[t] = q /\ \A u \in Threads : u # t => todo'[u] = <<>>
           /\ q # <<>> => settled' = settled
           /\ q = <<>> => IsSettled'
<1>1. todo'[t] = q /\ \A u \in Threads : u # t => todo'[u] = todo[u]
  BY LeftOnly
<1>2. q = <<>> <=> \A u \in Threads : todo'[u] = <<>>
  BY <1>1
<1> QED
  BY <1>1, <1>2 DEF Settle, IsSettled

LEMMA SerialKept ==
    ASSUME IsFiniteSet(Lines), DOMAIN todo = Threads, NEW t \in Threads, NEW q, Left(t, q), Settle,
           \A u \in Threads : u # t => todo[u] = <<>>,
           settled.session \in Session, settled.events \in Nat,
           ThreadsInv', stored' \subseteq Ids, q # <<>> => InCall(t)'
    PROVE  SerialInv'
<1>1. /\ todo'[t] = q /\ \A u \in Threads : u # t => todo'[u] = <<>>
      /\ q # <<>> => settled' = settled
      /\ q = <<>> => IsSettled'
  BY OneBusy
<1>2. settled'.session \in Session /\ settled'.events \in Nat
  <2>1. session' \in Session
    BY DEF ThreadsInv, ThreadTypes
  <2>2. Cardinality(stored') \in Nat
    BY IdsAreBounded
  <2> QED
    BY <1>1, <2>1, <2>2 DEF IsSettled
<1>3. AllIdle' => IsSettled'
  BY <1>1 DEF AllIdle, Idle
<1>4. \A u \in Threads : todo'[u] # <<>> => InCall(u)'
  BY <1>1
<1>5. \A u, v \in Threads : todo'[u] # <<>> /\ todo'[v] # <<>> => u = v
  BY <1>1
<1> QED
  BY <1>2, <1>3, <1>4, <1>5 DEF SerialInv

\* A call that begins: it has something to do, and the row is settled.
LEMMA CallBegins ==
    ASSUME IsFiniteSet(Lines), Serial = TRUE, SerialInv, ThreadsInv', NEW t \in Threads,
           MayBegin(t), NEW q, q # <<>>, Left(t, q), Settle, UNCHANGED <<session, stored>>,
           settled' = settled => InCall(t)'
    PROVE  SerialInv' /\ settled' = settled
<1>1. /\ DOMAIN todo = Threads /\ stored' \subseteq Ids
      /\ settled.session \in Session /\ settled.events \in Nat
  BY DEF SerialInv, ThreadsInv, ThreadTypes
<1>2. \A u \in Threads : u # t => todo[u] = <<>>
  BY DEF MayBegin, AllIdle, Idle
<1>3. settled' = settled
  BY <1>1, <1>2, OneBusy
<1> QED
  BY <1>1, <1>2, <1>3, SerialKept

LEMMA IdleIsSettled ==
    ASSUME Serial = TRUE, SerialInv, NEW t, MayBegin(t)
    PROVE  /\ settled.session = session /\ settled.events = Cardinality(stored)
           /\ settled.process = ProcessState(exit)
BY DEF SerialInv, MayBegin, IsSettled

LEMMA TakeLineSerial ==
    ASSUME IsFiniteSet(Lines), Serial = TRUE, SerialInv, NEW t \in Threads, TakeLine(t)
    PROVE  SerialInv' /\ settled' = settled
<1> DEFINE n == taken[t] + 1
<1>1. ThreadsInv' /\ ThreadsInv
  BY TakeLineIsSound DEF SerialInv
<1>2. /\ log \in Logs /\ taken \in [Threads -> Nat]
      /\ MayBegin(t) /\ taken[t] < Len(log) /\ taken' = [taken EXCEPT ![t] = taken[t] + 1] /\ Settle
      /\ UNCHANGED <<log, session, stored, exit>>
  BY <1>1 DEF TakeLine, ThreadsInv, ThreadTypes
<1>3. n \in 1..Len(log) /\ log[n] \in Events /\ taken'[t] = n
  BY <1>2, LogLines
<1>4. PICK lag \in Lags : Left(t, IngestOps(t, n, lag))
  BY DEF TakeLine, Lags, Left
<1> DEFINE q == CallOps(t, n, log[n], lag)
<1>5. IngestOps(t, n, lag) = q /\ q # <<>>
  BY <1>3, IngestForm, CallOpsForm
<1>6. Left(t, q) /\ todo'[t] = q
  BY <1>1, <1>4, <1>5 DEF Left, ThreadsInv, ThreadTypes
<1>7. settled' = settled => InCall(t)'
  <2> SUFFICES ASSUME settled' = settled PROVE Called(t)'
    BY DEF InCall
  <2>1. /\ settled.session = session /\ settled.events = Cardinality(stored)
        /\ settled.process = ProcessState(exit)
    BY <1>2, IdleIsSettled
  <2>2. Since(settled.session)'
    BY <1>2, <2>1 DEF Since
  <2>3. taken'[t] \in 1..Len(log') /\ todo'[t] = CallOps(t, taken'[t], log'[taken'[t]], lag)
    BY <1>2, <1>3, <1>6
  <2> QED
    BY <2>2, <2>3 DEF Called
<1> HIDE DEF q
<1> QED
  BY <1>1, <1>2, <1>5, <1>6, <1>7, CallBegins

LEMMA BeginReconcileSerial ==
    ASSUME IsFiniteSet(Lines), Serial = TRUE, SerialInv, NEW t \in Threads, BeginReconcile(t)
    PROVE  SerialInv' /\ settled' = settled
<1>1. ThreadsInv' /\ ThreadsInv
  BY BeginReconcileIsSound DEF SerialInv
<1>2. /\ MayBegin(t) /\ Left(t, ReconcileOps) /\ Settle /\ UNCHANGED <<log, session, stored, exit>>
  BY DEF BeginReconcile, Left
<1>3. todo'[t] = ReconcileOps /\ session \in Session
  BY <1>1, <1>2 DEF Left, ThreadsInv, ThreadTypes
<1>4. ReconcileOps # <<>>
  BY DEF ReconcileOps
<1> HIDE DEF ReconcileOps
<1>5. PICK u \in Reconciled(session) : Leads(ReconcileOps, session, u)
  BY <1>3, ReconcileLeads
<1>6. settled' = settled => InCall(t)'
  <2> SUFFICES ASSUME settled' = settled PROVE Decided(t)'
    BY DEF InCall
  <2>1. /\ settled.session = session /\ settled.events = Cardinality(stored)
        /\ settled.process = ProcessState(exit)
    BY <1>2, IdleIsSettled
  <2>2. Leads(todo'[t], session', u)
    BY <1>2, <1>3, <1>5
  <2>3. Outcome(u, Cardinality(stored), ProcessState(exit))'
    BY <1>2, <1>5, <2>1 DEF Outcome
  <2> QED
    BY <2>2, <2>3 DEF Decided
<1> QED
  BY <1>1, <1>2, <1>4, <1>6, CallBegins

LEMMA BeginExitSerial ==
    ASSUME IsFiniteSet(Lines), Serial = TRUE, SerialInv,
           NEW how \in {"cancelled", "success", "failure"}, BeginExit(how)
    PROVE  SerialInv' /\ settled' = settled
<1> DEFINE q == <<[ask |-> "exit", how |-> how]>>
<1>1. ThreadsInv' /\ ThreadsInv
  BY BeginExitIsSound DEF SerialInv
<1>2. /\ Reader \in Threads /\ MayBegin(Reader) /\ Left(Reader, q) /\ Settle
      /\ exit = "no" /\ exit' = how /\ UNCHANGED <<log, session, stored>>
  BY DEF BeginExit, Left
<1>3. todo'[Reader] = q /\ session \in Session
  BY <1>1, <1>2 DEF Left, ThreadsInv, ThreadTypes
<1>4. q # <<>> /\ Leads(q, session, ProcessExited(session, how))
  BY <1>3, ExitLeads
<1>5. ProcessState(exit) = "live" /\ ProcessState(exit') = "exited"
  BY <1>2 DEF ProcessState
<1> HIDE DEF q
<1>6. settled' = settled => InCall(Reader)'
  <2> SUFFICES ASSUME settled' = settled PROVE Decided(Reader)'
    BY DEF InCall
  <2>1. settled.session = session /\ settled.events = Cardinality(stored) /\ settled.process = "live"
    BY <1>2, <1>5, IdleIsSettled
  <2>2. PICK r : r = ProcessExited(session, how)
    OBVIOUS
  <2>3. Leads(todo'[Reader], session', r)
    BY <1>2, <1>3, <1>4, <2>2
  <2>4. Outcome(r, Cardinality(stored), ProcessState(exit))'
    BY <1>2, <1>5, <2>1, <2>2 DEF Outcome
  <2> QED
    BY <2>3, <2>4 DEF Decided
<1> QED
  BY <1>1, <1>2, <1>4, <1>6, CallBegins

LEMMA TickSerial ==
    ASSUME IsFiniteSet(Lines), SerialInv, Tick
    PROVE  SerialInv' /\ Abstract!Tick
<1>1. /\ AllIdle /\ todo' = todo /\ stored' = stored /\ exit' = exit /\ Settle
      /\ session' = [session EXCEPT !.age = Older(@), !.quiet = [c \in Calls |-> Older(@[c])]]
      /\ UNCHANGED <<log, taken, crashes>>
  BY DEF Tick
<1>2. session' \in Session
  BY TickRow DEF SerialInv, ThreadsInv, ThreadTypes
<1>3. ThreadsInv'
  BY <1>1, <1>2 DEF SerialInv, ThreadsInv, ThreadTypes, LinesStored
<1>4. IsSettled /\ IsSettled'
  <2>1. \A t \in Threads : todo'[t] = <<>>
    BY <1>1 DEF AllIdle, Idle
  <2> QED
    BY <1>1, <2>1 DEF SerialInv, Settle, IsSettled
<1>5. SerialInv'
  <2>1. stored' \subseteq Ids /\ Cardinality(stored') \in Nat
    BY <1>1, IdsAreBounded DEF SerialInv
  <2>2. settled'.session \in Session /\ settled'.events \in Nat
    BY <1>2, <1>4, <2>1 DEF IsSettled
  <2>3. \A t \in Threads : todo'[t] = <<>>
    BY <1>1 DEF AllIdle, Idle
  <2> QED
    BY <1>3, <1>4, <2>1, <2>2, <2>3 DEF SerialInv
<1>6. Abstract!Tick
  <2>1. \A age : Abstract!Older(age) = Older(age)
    BY SameSteps
  <2>2. /\ settled.session = session /\ settled'.session = session'
        /\ settled'.events = settled.events /\ settled'.process = settled.process
    BY <1>1, <1>4 DEF IsSettled
  <2>3. settled'.session = [settled.session EXCEPT
            !.age = Abstract!Older(@), !.quiet = [c \in Calls |-> Abstract!Older(@[c])]]
    BY <1>1, <2>1, <2>2
  <2> QED
    BY <2>2, <2>3 DEF Abstract!Tick
<1> QED
  BY <1>5, <1>6

----------------------------------------------------------------------------
(* A step of the call under way.                                           *)

LEMMA CalledStep ==
    ASSUME IsFiniteSet(Lines), SerialInv, NEW t \in Threads, Step(t), Called(t)
    PROVE  SerialInv' /\ settled' = settled
<1> DEFINE n == taken[t]
<1>1. /\ ThreadsInv /\ ThreadsInv' /\ DOMAIN todo = Threads /\ session \in Session
      /\ settled.session \in Session /\ settled.events \in Nat /\ stored \subseteq Ids /\ log \in Logs
  BY StepIsSound DEF SerialInv, ThreadsInv, ThreadTypes
<1>2. todo[t] # <<>> /\ UNCHANGED <<log, taken, exit>> /\ Settle
  BY DEF Step, Idle
<1>3. \A u \in Threads : u # t => todo[u] = <<>>
  BY <1>2 DEF SerialInv
<1>4. n \in 1..Len(log) /\ log[n] \in Events /\ Since(settled.session)
  BY <1>1, LogLines DEF Called
<1>5. PICK lag \in Lags : todo[t] = CallOps(t, n, log[n], lag)
  BY DEF Called
<1> DEFINE q == EntryOps(t, n, log[n], lag)
<1>6. Head(todo[t]) = EnsureOp(lag) /\ Tail(todo[t]) = q /\ q # <<>>
  BY <1>4, <1>5, CallOpsForm
<1>7. /\ "id" \notin DOMAIN EnsureOp(lag) /\ "ask" \notin DOMAIN EnsureOp(lag)
      /\ Apply(EnsureOp(lag), session) = Seen(session, lag)
  BY DEF EnsureOp, Apply
<1>8. session' = Seen(session, lag) /\ stored' = stored /\ Left(t, q)
  BY <1>6, <1>7 DEF Step, DropDuplicate, DoAsk, DoWrite, Left
<1>9. settled' = settled /\ todo'[t] = q
  BY <1>1, <1>2, <1>3, <1>6, <1>8, OneBusy
<1>10. InCall(t)'
  <2>1. Since(Seen(settled.session, lag))'
    BY <1>2, <1>4, <1>8, <1>9 DEF Since
  <2>2. EnteredWith(t, lag)'
    BY <1>2, <1>4, <1>9, <2>1 DEF EnteredWith
  <2> QED
    BY <2>2 DEF InCall
<1> HIDE DEF q
<1> QED
  BY <1>1, <1>2, <1>3, <1>8, <1>9, <1>10, SerialKept

LEMMA EnteredStep ==
    ASSUME IsFiniteSet(Lines), SerialInv, NEW t \in Threads, Step(t),
           NEW lag \in Lags, EnteredWith(t, lag)
    PROVE  SerialInv' /\ (settled' = settled \/ Abstract!Next)
<1> DEFINE n == taken[t]
           e == log[n]
           s == settled.session
<1>1. /\ ThreadsInv /\ ThreadsInv' /\ DOMAIN todo = Threads /\ session \in Session
      /\ s \in Session /\ settled.events \in Nat /\ stored \subseteq Ids /\ log \in Logs
  BY StepIsSound DEF SerialInv, ThreadsInv, ThreadTypes
<1>2. todo[t] # <<>> /\ UNCHANGED <<log, taken, exit>> /\ Settle
  BY DEF Step, Idle
<1>3. \A u \in Threads : u # t => todo[u] = <<>>
  BY <1>2 DEF SerialInv
<1>4. /\ n \in 1..Len(log) /\ e \in Events /\ todo[t] = EntryOps(t, n, e, lag)
      /\ session = Seen(s, lag) /\ settled.events = Cardinality(stored)
      /\ settled.process = ProcessState(exit) /\ SourceId(t, n) \in Ids
  BY <1>1, LogLines, LineIds DEF EnteredWith, Since
<1> DEFINE q == LineOps(e, lag)
<1>5. Head(todo[t]) = InsertOp(t, n, lag) /\ Tail(todo[t]) = q /\ q # <<>>
  <2> DEFINE entry == EntryOps(t, n, e, lag)
  <2>1. todo[t] = entry /\ e \in Events
    BY <1>4
  <2> HIDE DEF e, n
  <2>2. Head(entry) = InsertOp(t, n, lag) /\ Tail(entry) = q /\ q # <<>>
    BY <2>1, CallOpsForm
  <2> HIDE DEF entry, q
  <2> QED
    BY <2>1, <2>2, Zenon
<1>6. /\ "id" \in DOMAIN InsertOp(t, n, lag) /\ "ask" \notin DOMAIN InsertOp(t, n, lag)
      /\ InsertOp(t, n, lag).id = SourceId(t, n)
      /\ Apply(InsertOp(t, n, lag), session) = Seen(session, lag)
  BY DEF InsertOp, Apply
<1>7. \/ DropDuplicate(t)
      \/ DoWrite(t)
  BY <1>5, <1>6 DEF Step, DoAsk
<1>8. CASE DropDuplicate(t)
  <2>1. SourceId(t, n) \in stored /\ Left(t, <<>>) /\ session' = session /\ stored' = stored
    BY <1>5, <1>6, <1>8 DEF DropDuplicate, Left
  <2>2. IsSettled'
    BY <1>1, <1>2, <1>3, <2>1, OneBusy
  <2>3. SerialInv'
    BY <1>1, <1>2, <1>3, <2>1, SerialKept
  <2>4. settled.events # 0
    <3>1. IsFiniteSet(stored) /\ stored # {}
      BY <1>1, <2>1, IdsAreBounded
    <3> QED
      BY <1>4, <3>1, FS_EmptySet
  <2>5. settled' = [session |-> Seen(s, lag), events |-> settled.events, process |-> settled.process]
    BY <1>2, <1>4, <2>1, <2>2 DEF IsSettled
  <2> QED
    BY <1>1, <2>3, <2>4, <2>5, DuplicateIsStep
<1>9. CASE DoWrite(t)
  <2>1. /\ SourceId(t, n) \notin stored /\ stored' = stored \cup {SourceId(t, n)}
        /\ session' = Seen(session, lag) /\ Left(t, q)
    BY <1>5, <1>6, <1>9 DEF DoWrite, Left
  <2>2. settled' = settled /\ todo'[t] = q
    BY <1>1, <1>2, <1>3, <1>5, <2>1, OneBusy
  <2>3. Cardinality(stored') = settled.events + 1 /\ stored' \subseteq Ids
    <3>1. IsFiniteSet(stored)
      BY <1>1, IdsAreBounded
    <3> QED
      BY <1>1, <1>4, <2>1, <3>1, FS_AddElement
  <2>4. session' = Seen(s, lag)
    <3>1. Seen(Seen(s, lag), lag) = Seen(s, lag)
      BY <1>1 DEF Seen, Session
    <3> QED
      BY <1>4, <2>1, <3>1
  <2>5. Leads(q, Seen(s, lag), IngestNew(s, e, lag))
    BY <1>1, <1>4, LineLeads
  <2>6. Decided(t)'
    <3>1. PICK r : r = IngestNew(s, e, lag)
      OBVIOUS
    <3>2. Leads(todo'[t], session', r)
      BY <2>2, <2>4, <2>5, <3>1
    <3>3. r = IngestNew(settled'.session, e, lag)
      BY <2>2, <3>1
    <3>4. Outcome(r, Cardinality(stored), ProcessState(exit))'
      BY <1>2, <1>4, <2>2, <2>3, <3>3 DEF Outcome
    <3> QED
      BY <3>2, <3>4 DEF Decided
  <2> HIDE DEF q
  <2>7. SerialInv'
    BY <1>1, <1>2, <1>3, <2>1, <2>3, <2>6, SerialKept DEF InCall
  <2> QED
    BY <2>2, <2>7
<1> QED
  BY <1>7, <1>8, <1>9

LEMMA DecidedStep ==
    ASSUME IsFiniteSet(Lines), SerialInv, NEW t \in Threads, Step(t), Decided(t)
    PROVE  SerialInv' /\ (settled' = settled \/ Abstract!Next)
<1>1. /\ ThreadsInv /\ ThreadsInv' /\ DOMAIN todo = Threads /\ session \in Session
      /\ settled.session \in Session /\ settled.events \in Nat /\ stored \subseteq Ids
  BY StepIsSound DEF SerialInv, ThreadsInv, ThreadTypes
<1>2. todo[t] # <<>> /\ UNCHANGED <<log, taken, exit>> /\ Settle
  BY DEF Step, Idle
<1>3. \A u \in Threads : u # t => todo[u] = <<>>
  BY <1>2 DEF SerialInv
<1>4. PICK r : Leads(todo[t], session, r) /\ Outcome(r, Cardinality(stored), ProcessState(exit))
  BY DEF Decided
<1> DEFINE q == Following(todo[t], session)[1]
<1>5. stored' = stored /\ session' = Following(todo[t], session)[2] /\ Left(t, q)
  <2>1. todo[t] \in Seq(PlainOps)
    BY <1>4, LeadsFromPlace
  <2>2. \A op \in Asks : op \notin PlainWrites
    BY WritesAreNoAsks
  <2> QED
    BY <1>1, <2>1, <2>2, PlainStep DEF Following
<1>6. Leads(q, session', r)
  BY <1>2, <1>4, <1>5, LeadsOn
<1> HIDE DEF q
<1>7. CASE q # <<>>
  <2>1. settled' = settled /\ todo'[t] = q
    BY <1>1, <1>2, <1>3, <1>5, <1>7, OneBusy
  <2>2. Outcome(r, Cardinality(stored), ProcessState(exit))'
    BY <1>2, <1>4, <1>5, <2>1 DEF Outcome
  <2>3. Decided(t)'
    BY <1>6, <2>1, <2>2 DEF Decided
  <2> QED
    BY <1>1, <1>2, <1>3, <1>5, <2>1, <2>3, SerialKept DEF InCall
<1>8. CASE q = <<>>
  <2>1. session' = r
    BY <1>6, <1>8, LeadsEnds
  <2>2. IsSettled' /\ SerialInv'
    BY <1>1, <1>2, <1>3, <1>5, <1>8, OneBusy, SerialKept
  <2>3. settled' = [session |-> r, events |-> Cardinality(stored'), process |-> ProcessState(exit)]
    BY <1>2, <2>1, <2>2 DEF IsSettled
  <2>4. Abstract!Next
    BY <1>1, <1>4, <1>5, <2>3, OutcomeIsStep
  <2> QED
    BY <2>2, <2>4
<1> QED
  BY <1>7, <1>8

----------------------------------------------------------------------------
LEMMA InitSerial == Init => SerialInv /\ Abstract!Init
<1> SUFFICES ASSUME Init PROVE SerialInv /\ Abstract!Init
  OBVIOUS
<1>1. /\ session = NewSession(0) /\ stored = {} /\ exit = "no"
      /\ todo = [t \in Threads |-> IF t = Reader THEN <<Write("started", 0)>> ELSE <<>>]
      /\ settled = [session |-> session, events |-> 0, process |-> "none"]
  BY DEF Init
<1>2. ThreadsInv /\ session \in Session
  BY InitIsSound DEF ThreadsInv, ThreadTypes
<1>3. Cardinality(stored) = 0
  BY <1>1, FS_EmptySet
<1>4. <<Write("started", 0)>> # <<>>
  OBVIOUS
<1>5. AllIdle => IsSettled
  <2>1. AllIdle => Reader \notin Threads
    BY <1>1, <1>4 DEF AllIdle, Idle
  <2> QED
    BY <1>1, <1>3, <2>1 DEF IsSettled, ProcessState
<1>6. ASSUME NEW t \in Threads, todo[t] # <<>>
      PROVE  t = Reader /\ InCall(t)
  <2>1. t = Reader /\ todo[t] = <<Write("started", 0)>>
    BY <1>1, <1>6
  <2>2. Leads(todo[t], session, ProcessStarted(session))
    BY <1>2, <2>1, StartedLeads
  <2>3. Outcome(ProcessStarted(session), Cardinality(stored), ProcessState(exit))
    <3>1. ProcessState(exit) = "live"
      BY <1>1, <2>1 DEF ProcessState
    <3> QED
      BY <1>1, <1>3, <3>1 DEF Outcome
  <2> QED
    BY <2>1, <2>2, <2>3 DEF InCall, Decided
<1>7. SerialInv
  BY <1>1, <1>2, <1>5, <1>6 DEF SerialInv
<1>8. Abstract!Init
  <2>1. Abstract!NewSession(0) = NewSession(0) /\ 0 \in 0..MaxAge
    BY SameSteps, ThresholdAssumption
  <2> QED
    BY <1>1, <2>1 DEF Abstract!Init
<1> QED
  BY <1>7, <1>8

LEMMA NextSerial ==
    ASSUME IsFiniteSet(Lines), Serial = TRUE, MaxCrashes = 0
    PROVE  SerialInv /\ [Next]_vars => SerialInv' /\ [Abstract!Next]_(Abstract!vars)
<1> SUFFICES ASSUME SerialInv, [Next]_vars
             PROVE  SerialInv' /\ (settled' = settled \/ Abstract!Next)
  BY Unseen
<1>1. ASSUME NEW t \in Threads, TakeLine(t) PROVE SerialInv' /\ settled' = settled
  BY <1>1, TakeLineSerial
<1>2. ASSUME NEW t \in Threads, BeginReconcile(t) PROVE SerialInv' /\ settled' = settled
  BY <1>2, BeginReconcileSerial
<1>3. ASSUME NEW t \in Threads, Step(t) PROVE SerialInv' /\ (settled' = settled \/ Abstract!Next)
  <2>1. InCall(t)
    BY <1>3 DEF Step, Idle, SerialInv
  <2> QED
    BY <1>3, <2>1, CalledStep, EnteredStep, DecidedStep DEF InCall
<1>4. ASSUME NEW how \in {"cancelled", "success", "failure"}, BeginExit(how)
      PROVE  SerialInv' /\ settled' = settled
  BY <1>4, BeginExitSerial
<1>5. CASE Tick
  BY <1>5, TickSerial DEF Abstract!Next
<1>6. ~Crash
  BY DEF Crash, SerialInv, ThreadsInv, ThreadTypes
<1>7. CASE UNCHANGED vars
  <2>1. /\ log' = log /\ session' = session /\ stored' = stored /\ taken' = taken
        /\ todo' = todo /\ exit' = exit /\ crashes' = crashes /\ settled' = settled
    BY <1>7 DEF vars
  <2>2. ThreadsInv'
    BY <2>1 DEF SerialInv, ThreadsInv, ThreadTypes, LinesStored
  <2>3. IsSettled => IsSettled'
    BY <2>1 DEF IsSettled
  <2>4. \A t \in Threads : InCall(t) => InCall(t)'
    BY <2>1 DEF InCall, Called, EnteredWith, Decided, Since, Outcome
  <2>5. AllIdle' = AllIdle
    BY <2>1 DEF AllIdle, Idle
  <2> QED
    BY <2>1, <2>2, <2>3, <2>4, <2>5 DEF SerialInv
<1> QED
  BY <1>1, <1>2, <1>3, <1>4, <1>5, <1>6, <1>7 DEF Next

\* Calls that do not overlap implement the abstract engine: every handler of
\* engine.py, taken apart into the transactions of db.py, adds up to the one
\* step of Projection, for any finite logs, any threads, calls and thresholds.
THEOREM SerialCallsImplementEngine ==
    ASSUME IsFiniteSet(Lines), Serial = TRUE, MaxCrashes = 0
    PROVE  Spec => AbstractSpec
<1>1. Spec => []SerialInv
  BY InitSerial, NextSerial, PTL DEF Spec
<1> QED
  BY <1>1, InitSerial, NextSerial, PTL DEF Spec, AbstractSpec, Abstract!Spec

=============================================================================
