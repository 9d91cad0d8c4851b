-------------------------- MODULE Projection_proofs --------------------------
(***************************************************************************)
(* Proofs about Projection for every value of its constants.  The handlers  *)
(* are composed from a few transactions, so the proofs are too: lemmas say   *)
(* which fields each transaction changes and how, a lemma per handler says   *)
(* that it keeps the row coherent, and the invariants follow action by       *)
(* action.                                                                 *)
(***************************************************************************)
EXTENDS Projection, TLAPS

----------------------------------------------------------------------------
(* The transactions.                                                       *)

\* Every key the handlers use is a key of the table.
LEMMA KeysAreKeys ==
    /\ \A cause \in SessionCauses : Key(cause) \in AlertKeys
    /\ \A cause \in CallCauses, c \in Calls : <<cause, c>> \in AlertKeys
BY DEF Key, AlertKeys

\* A session cause's key is not a call's key.
LEMMA KeysDiffer ==
    /\ \A a, b \in SessionCauses : Key(a) = Key(b) => a = b
    /\ \A a \in SessionCauses, b \in CallCauses, c \in Calls : Key(a) # <<b, c>>
BY DEF Key, SessionCauses, CallCauses

LEMMA RankIsBounded ==
    ASSUME NEW s \in Session, NEW k \in AlertKeys
    PROVE  Rank(s, k) \in {2, 3, 4}
BY DEF Rank

\* Top names an open alert exactly when one is open (the code's ORDER BY ...
\* LIMIT 1, empty or not).
LEMMA TopIsOpen ==
    ASSUME NEW s \in Session
    PROVE  /\ Top(s) \in AlertKeys \cup {NoAlert}
           /\ OpenAlerts(s) = {} => Top(s) = NoAlert
           /\ OpenAlerts(s) # {} => Top(s) \in OpenAlerts(s)
<1>1. CASE OpenAlerts(s) = {}
  BY <1>1 DEF Top
<1>2. CASE OpenAlerts(s) # {}
  <2>1. \A k \in OpenAlerts(s) : k \in AlertKeys /\ Rank(s, k) \in {2, 3, 4}
    BY RankIsBounded DEF OpenAlerts
  <2>2. \E k \in OpenAlerts(s) : \A j \in OpenAlerts(s) : Rank(s, j) <= Rank(s, k)
    <3>1. CASE \E k \in OpenAlerts(s) : Rank(s, k) = 4
      BY <2>1, <3>1
    <3>2. CASE /\ \A k \in OpenAlerts(s) : Rank(s, k) # 4
               /\ \E k \in OpenAlerts(s) : Rank(s, k) = 3
      BY <2>1, <3>2
    <3>3. CASE \A k \in OpenAlerts(s) : Rank(s, k) = 2
      BY <1>2, <3>3
    <3> QED BY <2>1, <3>1, <3>2, <3>3
  <2>3. Top(s) \in OpenAlerts(s)
    BY <1>2, <2>2 DEF Top
  <2> QED BY <1>2, <2>1, <2>3
<1> QED BY <1>1, <1>2

\* What upsert_alert changes.
LEMMA UpsertFields ==
    ASSUME NEW s \in Session, NEW k \in AlertKeys
    PROVE  /\ Upsert(s, k) \in Session
           /\ Upsert(s, k).status = s.status
           /\ Upsert(s, k).command = s.command
           /\ Upsert(s, k).streak = s.streak
           /\ Upsert(s, k).age = s.age
           /\ Upsert(s, k).quiet = s.quiet
           /\ Upsert(s, k).attention = k
           /\ \A j \in AlertKeys :
                 Upsert(s, k).alerts[j] = IF j = k THEN "OPEN" ELSE s.alerts[j]
BY DEF Upsert, Session, AlertStates

\* What a loop of resolve_alert changes: the alerts it names and the headline,
\* which then is the worst open alert.
LEMMA ResolveFields ==
    ASSUME NEW s \in Session, NEW K
    PROVE  LET r == ResolveAll(s, K)
           IN  /\ r \in Session
               /\ r.status = s.status
               /\ r.command = s.command
               /\ r.streak = s.streak
               /\ r.age = s.age
               /\ r.quiet = s.quiet
               /\ \A k \in AlertKeys :
                     r.alerts[k] = IF k \in K /\ s.alerts[k] # "ABSENT" THEN "RESOLVED"
                                   ELSE s.alerts[k]
               /\ OpenAlerts(r) = {} => r.attention = NoAlert
               /\ OpenAlerts(r) # {} => r.attention \in OpenAlerts(r)
<1> DEFINE m == [s EXCEPT !.alerts = [k \in AlertKeys |->
                    IF k \in K /\ @[k] # "ABSENT" THEN "RESOLVED" ELSE @[k]]]
           r == ResolveAll(s, K)
<1>1. m \in Session
  BY DEF Session, AlertStates
<1>2. r = [m EXCEPT !.attention = Top(m)]
  BY DEF ResolveAll
<1>3. /\ Top(m) \in AlertKeys \cup {NoAlert}
      /\ OpenAlerts(m) = {} => Top(m) = NoAlert
      /\ OpenAlerts(m) # {} => Top(m) \in OpenAlerts(m)
  BY <1>1, TopIsOpen
<1>4. /\ r \in Session
      /\ r.status = m.status /\ r.command = m.command /\ r.streak = m.streak
      /\ r.age = m.age /\ r.quiet = m.quiet /\ r.alerts = m.alerts
      /\ r.attention = Top(m)
  <2> HIDE DEF m
  <2> QED BY <1>1, <1>2, <1>3 DEF Session
<1>5. OpenAlerts(r) = OpenAlerts(m)
  BY <1>4 DEF OpenAlerts
<1>6. /\ m.status = s.status /\ m.command = s.command /\ m.streak = s.streak
      /\ m.age = s.age /\ m.quiet = s.quiet
      /\ \A k \in AlertKeys :
            m.alerts[k] = IF k \in K /\ s.alerts[k] # "ABSENT" THEN "RESOLVED" ELSE s.alerts[k]
  BY DEF Session
<1> HIDE DEF m, r
<1>7. /\ r \in Session
      /\ r.status = s.status /\ r.command = s.command /\ r.streak = s.streak
      /\ r.age = s.age /\ r.quiet = s.quiet
      /\ \A k \in AlertKeys :
            r.alerts[k] = IF k \in K /\ s.alerts[k] # "ABSENT" THEN "RESOLVED" ELSE s.alerts[k]
      /\ OpenAlerts(r) = {} => r.attention = NoAlert
      /\ OpenAlerts(r) # {} => r.attention \in OpenAlerts(r)
  BY <1>3, <1>4, <1>5, <1>6
<1> QED BY <1>7 DEF r

\* What a write of the status column changes.
LEMMA StatusFields ==
    ASSUME NEW s \in Session, NEW to \in Statuses
    PROVE  LET r == [s EXCEPT !.status = to]
           IN  /\ r \in Session
               /\ r.status = to
               /\ r.alerts = s.alerts
               /\ r.attention = s.attention
               /\ r.command = s.command
               /\ r.streak = s.streak
BY DEF Session

\* _set_status writes the status it was given, or leaves a sticky one alone.
LEMMA SetStatusFields ==
    ASSUME NEW s \in Session, NEW to \in Statuses
    PROVE  /\ SetStatus(s, to) \in Session
           /\ SetStatus(s, to).status = to \/ SetStatus(s, to).status \in StickyStates
           /\ s.status \in StickyStates => SetStatus(s, to).status \in StickyStates
           /\ SetStatus(s, to).alerts = s.alerts
           /\ SetStatus(s, to).attention = s.attention
           /\ SetStatus(s, to).command = s.command
           /\ SetStatus(s, to).streak = s.streak
<1>1. CASE s.status \in StickyStates /\ to \notin StickyStates
  BY <1>1 DEF SetStatus
<1>2. CASE ~(s.status \in StickyStates /\ to \notin StickyStates)
  <2>1. SetStatus(s, to) = [s EXCEPT !.status = to]
    BY <1>2 DEF SetStatus
  <2> QED BY <1>2, <2>1, StatusFields
<1> QED BY <1>1, <1>2

\* What upsert_command changes.
LEMMA CommandFields ==
    ASSUME NEW s \in Session, NEW c \in Calls,
           NEW to \in {"ABSENT", "RUNNING", "ENDED"}, NEW lag \in 0..MaxAge
    PROVE  /\ UpsertCommand(s, c, to, lag) \in Session
           /\ UpsertCommand(s, c, to, lag).status = s.status
           /\ UpsertCommand(s, c, to, lag).alerts = s.alerts
           /\ UpsertCommand(s, c, to, lag).attention = s.attention
           /\ UpsertCommand(s, c, to, lag).streak = s.streak
           /\ UpsertCommand(s, c, to, lag).command[c] = to
           /\ \A d \in Calls : d # c => UpsertCommand(s, c, to, lag).command[d] = s.command[d]
BY DEF UpsertCommand, Session

\* What add_test_run changes.
LEMMA TestRunFields ==
    ASSUME NEW s \in Session, NEW test \in {"PASSED", "FAILED"}
    PROVE  LET r == AddTestRun(s, test)
           IN  /\ r \in Session
               /\ r.status = s.status
               /\ r.alerts = s.alerts
               /\ r.attention = s.attention
               /\ r.command = s.command
               /\ r.streak > 1 => s.streak > 0
<1>1. s.streak \in 0..3
  BY DEF Session
<1>2. AddTestRun(s, test).streak =
        IF test = "PASSED" THEN 0 ELSE IF s.streak = 3 THEN 3 ELSE s.streak + 1
  BY DEF AddTestRun, Session
<1>3. AddTestRun(s, test).streak \in 0..3
  BY <1>1, <1>2
<1>4. /\ AddTestRun(s, test).streak \in 0..3 => AddTestRun(s, test) \in Session
      /\ AddTestRun(s, test).status = s.status
      /\ AddTestRun(s, test).alerts = s.alerts
      /\ AddTestRun(s, test).attention = s.attention
      /\ AddTestRun(s, test).command = s.command
  BY DEF AddTestRun, Session
<1> QED BY <1>1, <1>2, <1>3, <1>4

----------------------------------------------------------------------------
(* The invariants of Projection, as predicates of a row.                   *)

Explained(s) ==
    /\ s.status = "WAITING_INPUT" =>
          s.alerts[Key("input-required")] \in {"OPEN", "ACKNOWLEDGED"}
    /\ s.status = "WAITING_APPROVAL" =>
          s.alerts[Key("approval-required")] \in {"OPEN", "ACKNOWLEDGED"}

CallsMatch(s) ==
    \A c \in Calls :
        /\ s.alerts[<<"command-hung", c>>] = "OPEN" => s.command[c] = "RUNNING"
        /\ s.alerts[<<"command-failed", c>>] = "OPEN" => s.command[c] = "ENDED"

TestsMatch(s) ==
    /\ s.alerts[Key("test-failure")] = "OPEN" => s.streak > 0
    /\ s.alerts[Key("repeated-test-failure")] = "OPEN" => s.streak = 3
    /\ s.streak > 0 => s.alerts[Key("test-failure")] # "ABSENT"
    /\ s.streak = 3 => s.alerts[Key("repeated-test-failure")] # "ABSENT"

Current(s) ==
    /\ OpenAlerts(s) # {} => s.attention # NoAlert
    /\ s.attention # NoAlert => s.alerts[s.attention] \in {"OPEN", "ACKNOWLEDGED"}

\* What every handler keeps, whatever it does to the headline.
Coherent(s) == s \in Session /\ Explained(s) /\ CallsMatch(s) /\ TestsMatch(s)

\* A change of status, and of nothing the alerts are about, keeps a row
\* coherent if it does not begin to wait.
LEMMA StatusKeepsCoherent ==
    ASSUME NEW s, NEW r, Coherent(s), r \in Session,
           r.alerts = s.alerts, r.command = s.command, r.streak = s.streak,
           r.status = s.status \/ r.status \notin WaitingStates
    PROVE  Coherent(r)
BY DEF Coherent, Explained, CallsMatch, TestsMatch, WaitingStates

\* A row that leaves its status for one that does not wait.
LEMMA NotWaitingKeeps ==
    ASSUME NEW s, Coherent(s), NEW to \in Statuses, to \notin WaitingStates
    PROVE  /\ Coherent([s EXCEPT !.status = to])
           /\ [s EXCEPT !.status = to].status \notin WaitingStates
           /\ [s EXCEPT !.status = to].alerts = s.alerts
           /\ [s EXCEPT !.status = to].attention = s.attention
<1>1. s \in Session
  BY DEF Coherent
<1> QED BY <1>1, StatusFields, StatusKeepsCoherent

\* A row that starts to run again.
LEMMA RunningKeeps ==
    ASSUME NEW s, Coherent(s)
    PROVE  /\ Coherent([s EXCEPT !.status = "RUNNING"])
           /\ [s EXCEPT !.status = "RUNNING"].status \notin WaitingStates
BY NotWaitingKeeps DEF Statuses, WaitingStates

\* An upsert keeps a row coherent unless the alert is one about a command or
\* about the tests.
LEMMA UpsertKeepsCoherent ==
    ASSUME NEW s, Coherent(s), NEW k \in AlertKeys,
           k[1] \notin {"command-hung", "command-failed", "test-failure",
                        "repeated-test-failure"}
    PROVE  Coherent(Upsert(s, k))
<1> DEFINE r == Upsert(s, k)
<1>1. /\ s \in Session /\ r \in Session
      /\ r.status = s.status /\ r.command = s.command /\ r.streak = s.streak
      /\ \A j \in AlertKeys : r.alerts[j] = IF j = k THEN "OPEN" ELSE s.alerts[j]
  BY UpsertFields DEF Coherent
<1> HIDE DEF r
<1>2. Explained(r)
  BY <1>1, KeysAreKeys DEF Coherent, Explained, SessionCauses
<1>3. CallsMatch(r)
  <2> SUFFICES ASSUME NEW c \in Calls
               PROVE  /\ r.alerts[<<"command-hung", c>>] = s.alerts[<<"command-hung", c>>]
                      /\ r.alerts[<<"command-failed", c>>] = s.alerts[<<"command-failed", c>>]
    BY <1>1 DEF Coherent, CallsMatch
  <2>1. <<"command-hung", c>> \in AlertKeys /\ <<"command-failed", c>> \in AlertKeys
    BY KeysAreKeys DEF CallCauses
  <2>2. <<"command-hung", c>> # k /\ <<"command-failed", c>> # k
    OBVIOUS
  <2> QED BY <1>1, <2>1, <2>2
<1>4. TestsMatch(r)
  BY <1>1, KeysAreKeys DEF Coherent, TestsMatch, SessionCauses, Key
<1> QED BY <1>1, <1>2, <1>3, <1>4 DEF Coherent, r

\* A resolve keeps a row coherent unless it withdraws what the session waits
\* for.
LEMMA ResolveKeepsCoherent ==
    ASSUME NEW s, Coherent(s), NEW K,
           s.status = "WAITING_INPUT" => Key("input-required") \notin K,
           s.status = "WAITING_APPROVAL" => Key("approval-required") \notin K
    PROVE  Coherent(ResolveAll(s, K))
<1> DEFINE r == ResolveAll(s, K)
<1>1. /\ s \in Session /\ r \in Session
      /\ r.status = s.status /\ r.command = s.command /\ r.streak = s.streak
      /\ \A k \in AlertKeys :
            r.alerts[k] = IF k \in K /\ s.alerts[k] # "ABSENT" THEN "RESOLVED" ELSE s.alerts[k]
  BY ResolveFields DEF Coherent
<1> HIDE DEF r
<1>2. Explained(r)
  BY <1>1, KeysAreKeys DEF Coherent, Explained, SessionCauses
<1>3. CallsMatch(r)
  BY <1>1, KeysAreKeys DEF Coherent, CallsMatch, CallCauses
<1>4. TestsMatch(r)
  BY <1>1, KeysAreKeys DEF Coherent, TestsMatch, SessionCauses
<1> QED BY <1>1, <1>2, <1>3, <1>4 DEF Coherent, r

\* _set_status to a state that does not wait.
LEMMA SetStatusKeepsCoherent ==
    ASSUME NEW s, Coherent(s), NEW to \in Statuses, to \notin WaitingStates
    PROVE  /\ Coherent(SetStatus(s, to))
           /\ SetStatus(s, to).status \notin WaitingStates
<1>1. s \in Session
  BY DEF Coherent
<1>2. SetStatus(s, to).status \notin WaitingStates
  BY <1>1, SetStatusFields DEF StickyStates, WaitingStates
<1> QED BY <1>1, <1>2, SetStatusFields, StatusKeepsCoherent

----------------------------------------------------------------------------
(* The handlers keep a row coherent.                                       *)

\* _resolve_waiting_alerts, on a row that does not wait.
LEMMA ResolveWaitingKeeps ==
    ASSUME NEW s, Coherent(s), s.status \notin WaitingStates
    PROVE  Coherent(ResolveWaiting(s))
BY ResolveKeepsCoherent DEF ResolveWaiting, WaitingStates

\* session.meta and session.started
LEMMA MetadataKeeps ==
    ASSUME NEW s, Coherent(s), NEW kind
    PROVE  Coherent(ProjectMetadata(s, kind))
BY RunningKeeps DEF ProjectMetadata

\* turn.started
LEMMA TurnStartedKeeps ==
    ASSUME NEW s, Coherent(s)
    PROVE  Coherent(ResolveWaiting(SetStatus(s, "RUNNING")))
BY SetStatusKeepsCoherent, ResolveWaitingKeeps DEF Statuses, WaitingStates

\* turn.completed
LEMMA TurnCompletedKeeps ==
    ASSUME NEW s, Coherent(s)
    PROVE  Coherent(ProjectTurnCompleted(s))
BY SetStatusKeepsCoherent DEF ProjectTurnCompleted, Statuses, WaitingStates

\* turn.failed
LEMMA TurnFailedKeeps ==
    ASSUME NEW s, Coherent(s)
    PROVE  Coherent(Upsert(SetStatus(s, "FAILED"), Key("turn-failed")))
<1>1. Coherent(SetStatus(s, "FAILED"))
  BY SetStatusKeepsCoherent DEF Statuses, WaitingStates, TerminalStates
<1>2. Key("turn-failed") \in AlertKeys /\ Key("turn-failed")[1] = "turn-failed"
  BY KeysAreKeys DEF SessionCauses, Key
<1> QED BY <1>1, <1>2, UpsertKeepsCoherent

\* session.completed
LEMMA CompletedKeeps ==
    ASSUME NEW s, Coherent(s)
    PROVE  Coherent(ResolveOperational(SetStatus(s, "COMPLETED")))
<1> DEFINE m == SetStatus(s, "COMPLETED")
<1>1. Coherent(m) /\ m.status \notin WaitingStates
  BY SetStatusKeepsCoherent DEF Statuses, WaitingStates, TerminalStates
<1> HIDE DEF m
<1>2. Coherent(ResolveAll(m, OperationalKeys(m)))
  BY <1>1, ResolveKeepsCoherent DEF WaitingStates
<1>3. Coherent(ResolveOperational(m))
  BY <1>1, <1>2 DEF ResolveOperational
<1> QED BY <1>3 DEF m

\* message.user: a waiting row runs again before its alerts are resolved.
LEMMA UserMessageKeeps ==
    ASSUME NEW s, Coherent(s)
    PROVE  Coherent(ProjectUserMessage(s))
<1> DEFINE m == IF s.status \in WaitingStates \cup {"BLOCKED", "IDLE", "DISCOVERED"}
                THEN [s EXCEPT !.status = "RUNNING"] ELSE s
<1>1. Coherent(m) /\ m.status \notin WaitingStates
  BY RunningKeeps
<1> HIDE DEF m
<1>2. Coherent(ResolveWaiting(m))
  BY <1>1, ResolveWaitingKeeps
<1> QED BY <1>2 DEF m, ProjectUserMessage

\* input.required and approval.required: the status and its alert.
LEMMA DemandKeeps ==
    ASSUME NEW s, Coherent(s),
           NEW to \in WaitingStates, NEW cause,
           \/ to = "WAITING_INPUT" /\ cause = "input-required"
           \/ to = "WAITING_APPROVAL" /\ cause = "approval-required"
    PROVE  Coherent(Upsert(SetStatus(s, to), Key(cause)))
<1> DEFINE m == SetStatus(s, to)
           r == Upsert(m, Key(cause))
<1>1. cause \in SessionCauses /\ Key(cause) \in AlertKeys /\ to \in Statuses
  BY KeysAreKeys DEF SessionCauses, WaitingStates, Statuses
<1>2. /\ s \in Session /\ m \in Session
      /\ m.status = to \/ m.status \in StickyStates
      /\ m.alerts = s.alerts /\ m.command = s.command /\ m.streak = s.streak
  BY <1>1, SetStatusFields DEF Coherent
<1> HIDE DEF m
<1>3. /\ r \in Session
      /\ r.status = to \/ r.status \in StickyStates
      /\ r.command = s.command /\ r.streak = s.streak
      /\ \A j \in AlertKeys : r.alerts[j] = IF j = Key(cause) THEN "OPEN" ELSE s.alerts[j]
  BY <1>1, <1>2, UpsertFields
<1> HIDE DEF r
<1>4. Explained(r)
  BY <1>1, <1>3 DEF Explained, StickyStates
<1>5. CallsMatch(r)
  <2> SUFFICES ASSUME NEW c \in Calls
               PROVE  /\ r.alerts[<<"command-hung", c>>] = s.alerts[<<"command-hung", c>>]
                      /\ r.alerts[<<"command-failed", c>>] = s.alerts[<<"command-failed", c>>]
    BY <1>3 DEF Coherent, CallsMatch
  <2>1. /\ <<"command-hung", c>> \in AlertKeys /\ <<"command-failed", c>> \in AlertKeys
        /\ <<"command-hung", c>> # Key(cause) /\ <<"command-failed", c>> # Key(cause)
    BY <1>1, KeysAreKeys, KeysDiffer DEF CallCauses
  <2> QED BY <1>3, <2>1
<1>6. TestsMatch(r)
  <2>1. /\ Key("test-failure") \in AlertKeys /\ Key("repeated-test-failure") \in AlertKeys
        /\ Key("test-failure") # Key(cause) /\ Key("repeated-test-failure") # Key(cause)
    BY KeysAreKeys, KeysDiffer DEF SessionCauses
  <2> QED BY <1>3, <2>1 DEF Coherent, TestsMatch
<1>7. Coherent(r)
  BY <1>3, <1>4, <1>5, <1>6 DEF Coherent
<1> QED BY <1>7 DEF r, m

\* command.started: an earlier failure of the call is resolved in the same call.
LEMMA CommandStartedKeeps ==
    ASSUME NEW s, Coherent(s), NEW c \in Calls, NEW lag \in 0..MaxAge
    PROVE  Coherent(CommandStarted(s, c, lag))
<1> DEFINE started == UpsertCommand(s, c, "RUNNING", lag)
           m == SetStatus(started, "RUNNING")
           r == Resolve(m, <<"command-failed", c>>)
<1>1. /\ started \in Session /\ started.status = s.status
      /\ started.alerts = s.alerts /\ started.streak = s.streak
      /\ started.command[c] = "RUNNING" /\ \A d \in Calls : d # c => started.command[d] = s.command[d]
  BY CommandFields DEF Coherent
<1> HIDE DEF started
<1>2. /\ m \in Session /\ m.status \notin WaitingStates
      /\ m.alerts = s.alerts /\ m.streak = s.streak
      /\ m.command[c] = "RUNNING" /\ \A d \in Calls : d # c => m.command[d] = s.command[d]
  BY <1>1, SetStatusFields DEF Statuses, StickyStates, WaitingStates
<1> HIDE DEF m
<1>3. /\ r \in Session /\ r.status \notin WaitingStates /\ r.streak = s.streak
      /\ r.command[c] = "RUNNING" /\ \A d \in Calls : d # c => r.command[d] = s.command[d]
      /\ \A k \in AlertKeys :
            r.alerts[k] = IF k = <<"command-failed", c>> /\ s.alerts[k] # "ABSENT"
                          THEN "RESOLVED" ELSE s.alerts[k]
  BY <1>2, ResolveFields DEF Resolve
<1> HIDE DEF r
<1>4. CallsMatch(r)
  BY <1>3, KeysAreKeys DEF Coherent, CallsMatch, CallCauses
<1>5. TestsMatch(r)
  BY <1>3, KeysAreKeys DEF Coherent, TestsMatch, SessionCauses, Key
<1>6. Coherent(r)
  BY <1>3, <1>4, <1>5 DEF Coherent, Explained, WaitingStates
<1> QED BY <1>6 DEF r, m, started, CommandStarted

\* command.output: it starts a command without a row, and a hung alert it
\* could contradict is resolved.
LEMMA CommandOutputKeeps ==
    ASSUME NEW s, Coherent(s), NEW c \in Calls, NEW lag \in 0..MaxAge
    PROVE  Coherent(CommandOutput(s, c, lag))
<1> DEFINE to == IF s.command[c] = "ABSENT" THEN "RUNNING" ELSE s.command[c]
           m == UpsertCommand(s, c, to, lag)
           r == Resolve(m, <<"command-hung", c>>)
<1>1. s \in Session /\ s.command[c] \in {"ABSENT", "RUNNING", "ENDED"}
  BY DEF Coherent, Session
<1>2. to \in {"ABSENT", "RUNNING", "ENDED"} /\ (s.command[c] = "ENDED" => to = "ENDED")
  BY <1>1
<1>3. CommandOutput(s, c, lag) = r
  BY DEF CommandOutput
<1> HIDE DEF to
<1>4. /\ m \in Session /\ m.status = s.status
      /\ m.alerts = s.alerts /\ m.streak = s.streak
      /\ m.command[c] = to /\ \A d \in Calls : d # c => m.command[d] = s.command[d]
  BY <1>1, <1>2, CommandFields, SMTT(30)
<1> HIDE DEF m
<1>5. /\ r \in Session /\ r.status = s.status /\ r.streak = s.streak
      /\ r.command[c] = to /\ \A d \in Calls : d # c => r.command[d] = s.command[d]
      /\ \A k \in AlertKeys :
            r.alerts[k] = IF k = <<"command-hung", c>> /\ s.alerts[k] # "ABSENT"
                          THEN "RESOLVED" ELSE s.alerts[k]
  <2>1. /\ r \in Session /\ r.status = m.status /\ r.streak = m.streak /\ r.command = m.command
        /\ \A k \in AlertKeys :
              r.alerts[k] = IF k \in {<<"command-hung", c>>} /\ m.alerts[k] # "ABSENT"
                            THEN "RESOLVED" ELSE m.alerts[k]
    BY <1>4, ResolveFields DEF Resolve
  <2> HIDE DEF r
  <2>2. \A k \in AlertKeys :
           r.alerts[k] = IF k = <<"command-hung", c>> /\ s.alerts[k] # "ABSENT"
                         THEN "RESOLVED" ELSE s.alerts[k]
    BY <1>4, <2>1
  <2> QED
    BY <1>4, <2>1, <2>2
<1> HIDE DEF r
<1>6. CallsMatch(r)
  BY <1>2, <1>5, KeysAreKeys DEF Coherent, CallsMatch, CallCauses
<1>7. TestsMatch(r) /\ Explained(r)
  BY <1>5, KeysAreKeys DEF Coherent, TestsMatch, Explained, SessionCauses, Key
<1>8. Coherent(r)
  BY <1>5, <1>6, <1>7 DEF Coherent
<1> QED BY <1>3, <1>8

\* The end of a command resolves its hung alert.
LEMMA CommandEndedKeeps ==
    ASSUME NEW s, Coherent(s), NEW c \in Calls, NEW lag \in 0..MaxAge
    PROVE  LET r == Resolve(UpsertCommand(s, c, "ENDED", lag), <<"command-hung", c>>)
           IN  Coherent(r) /\ r.command[c] = "ENDED"
<1> DEFINE m == UpsertCommand(s, c, "ENDED", lag)
           r == Resolve(m, <<"command-hung", c>>)
<1>0. s \in Session /\ "ENDED" \in {"ABSENT", "RUNNING", "ENDED"}
  BY DEF Coherent
<1>1. /\ m \in Session /\ m.status = s.status
      /\ m.alerts = s.alerts /\ m.streak = s.streak
      /\ m.command[c] = "ENDED" /\ \A d \in Calls : d # c => m.command[d] = s.command[d]
  BY <1>0, CommandFields, SMTT(30)
<1> HIDE DEF m
<1>2. /\ r \in Session /\ r.status = s.status /\ r.streak = s.streak
      /\ r.command[c] = "ENDED" /\ \A d \in Calls : d # c => r.command[d] = s.command[d]
      /\ \A k \in AlertKeys :
            r.alerts[k] = IF k = <<"command-hung", c>> /\ s.alerts[k] # "ABSENT"
                          THEN "RESOLVED" ELSE s.alerts[k]
  BY <1>1, ResolveFields DEF Resolve
<1> HIDE DEF r
<1>3. CallsMatch(r)
  BY <1>2, KeysAreKeys DEF Coherent, CallsMatch, CallCauses
<1>4. TestsMatch(r) /\ Explained(r)
  BY <1>2, KeysAreKeys DEF Coherent, TestsMatch, Explained, SessionCauses, Key
<1>5. Coherent(r) /\ r.command[c] = "ENDED"
  BY <1>2, <1>3, <1>4 DEF Coherent
<1> QED BY <1>5 DEF r, m

\* A failure of an ended command.
LEMMA CommandFailedKeeps ==
    ASSUME NEW s, Coherent(s), NEW c \in Calls, s.command[c] = "ENDED"
    PROVE  Coherent(Upsert(s, <<"command-failed", c>>))
<1> DEFINE k == <<"command-failed", c>>
           r == Upsert(s, k)
<1>1. k \in AlertKeys
  BY KeysAreKeys DEF CallCauses
<1>2. /\ r \in Session /\ r.status = s.status /\ r.command = s.command
      /\ r.streak = s.streak
      /\ \A j \in AlertKeys : r.alerts[j] = IF j = k THEN "OPEN" ELSE s.alerts[j]
  BY <1>1, UpsertFields DEF Coherent
<1> HIDE DEF r
<1>3. CallsMatch(r)
  BY <1>2, KeysAreKeys DEF Coherent, CallsMatch, CallCauses
<1>4. TestsMatch(r) /\ Explained(r)
  BY <1>2, KeysAreKeys DEF Coherent, TestsMatch, Explained, SessionCauses, Key
<1>5. Coherent(r)
  BY <1>2, <1>3, <1>4 DEF Coherent
<1> QED BY <1>5 DEF r

\* _update_test_alert restores what add_test_run disturbs: it needs only that
\* a second failure in a row finds the first one's alert.
LEMMA TestAlertRestores ==
    ASSUME NEW s \in Session, Explained(s), CallsMatch(s),
           s.streak > 1 => s.alerts[Key("test-failure")] # "ABSENT"
    PROVE  Coherent(UpdateTestAlert(s))
<1> DEFINE plain == Key("test-failure")
           repeated == Key("repeated-test-failure")
           r == UpdateTestAlert(s)
<1>1. /\ plain \in AlertKeys /\ repeated \in AlertKeys /\ plain # repeated
      /\ Key("input-required") \in AlertKeys /\ Key("approval-required") \in AlertKeys
      /\ Key("input-required") \notin {plain, repeated}
      /\ Key("approval-required") \notin {plain, repeated}
      /\ \A c \in Calls : /\ <<"command-hung", c>> \in AlertKeys \ {plain, repeated}
                          /\ <<"command-failed", c>> \in AlertKeys \ {plain, repeated}
  BY KeysAreKeys DEF Key, SessionCauses, CallCauses
<1>2. s.streak \in 0..3
  BY DEF Session
<1> HIDE DEF plain, repeated
<1>3. /\ r \in Session
      /\ r.status = s.status /\ r.command = s.command /\ r.streak = s.streak
      /\ \A k \in AlertKeys \ {plain, repeated} : r.alerts[k] = s.alerts[k]
      /\ s.streak = 3 => r.alerts[plain] = s.alerts[plain] /\ r.alerts[repeated] = "OPEN"
      /\ s.streak \in {1, 2} => r.alerts[plain] = "OPEN" /\ r.alerts[repeated] # "OPEN"
      /\ s.streak = 0 => r.alerts[plain] # "OPEN" /\ r.alerts[repeated] # "OPEN"
  <2>1. CASE s.streak = 3
    <3>1. r = Upsert(s, repeated)
      BY <2>1 DEF UpdateTestAlert, repeated
    <3>2. /\ Upsert(s, repeated) \in Session
          /\ Upsert(s, repeated).status = s.status
          /\ Upsert(s, repeated).command = s.command
          /\ Upsert(s, repeated).streak = s.streak
          /\ \A j \in AlertKeys :
                Upsert(s, repeated).alerts[j] = IF j = repeated THEN "OPEN" ELSE s.alerts[j]
      BY <1>1, UpsertFields
    <3> HIDE DEF r
    <3> QED BY <1>1, <2>1, <3>1, <3>2
  <2>2. CASE s.streak \in {1, 2}
    <3>1. r = Resolve(Upsert(s, plain), repeated)
      BY <2>2 DEF UpdateTestAlert, plain, repeated
    <3>2. /\ Upsert(s, plain) \in Session
          /\ Upsert(s, plain).status = s.status /\ Upsert(s, plain).command = s.command
          /\ Upsert(s, plain).streak = s.streak
          /\ \A j \in AlertKeys :
                Upsert(s, plain).alerts[j] = IF j = plain THEN "OPEN" ELSE s.alerts[j]
      BY <1>1, UpsertFields
    <3> QED BY <1>1, <2>2, <3>1, <3>2, ResolveFields DEF Resolve
  <2>3. CASE s.streak = 0
    <3>1. r = ResolveAll(s, {plain, repeated})
      BY <2>3 DEF UpdateTestAlert, plain, repeated
    <3> QED BY <1>1, <2>3, <3>1, ResolveFields
  <2> QED BY <1>2, <2>1, <2>2, <2>3
<1> HIDE DEF r
<1>4. Explained(r)
  BY <1>1, <1>3 DEF Explained
<1>5. CallsMatch(r)
  <2>1. \A c \in Calls :
           /\ r.alerts[<<"command-hung", c>>] = s.alerts[<<"command-hung", c>>]
           /\ r.alerts[<<"command-failed", c>>] = s.alerts[<<"command-failed", c>>]
    BY <1>1, <1>3
  <2>2. r.command = s.command
    BY <1>3
  <2> QED BY <2>1, <2>2 DEF CallsMatch
<1>6. TestsMatch(r)
  BY <1>2, <1>3 DEF TestsMatch, plain, repeated
<1>7. Coherent(r)
  BY <1>3, <1>4, <1>5, <1>6 DEF Coherent
<1> QED BY <1>7 DEF r

\* command.completed, with or without a test result.
LEMMA CommandCompletedKeeps ==
    ASSUME NEW s, Coherent(s), NEW c \in Calls, NEW lag \in 0..MaxAge,
           NEW failed \in BOOLEAN, NEW test \in {"NONE", "PASSED", "FAILED"}
    PROVE  Coherent(CommandCompleted(s, c, lag, failed, test))
<1> DEFINE ended == Resolve(UpsertCommand(s, c, "ENDED", lag), <<"command-hung", c>>)
           good == Resolve(ended, <<"command-failed", c>>)
           judged == IF failed THEN Upsert(ended, <<"command-failed", c>>)
                     ELSE IF good.status \in TerminalStates \cup WaitingStates THEN good
                          ELSE [good EXCEPT !.status = "RUNNING"]
           r == IF test = "NONE" THEN judged ELSE UpdateTestAlert(AddTestRun(judged, test))
<1>1. CommandCompleted(s, c, lag, failed, test) = r
  BY DEF CommandCompleted
<1>2. Coherent(ended) /\ ended.command[c] = "ENDED"
  BY CommandEndedKeeps
<1> HIDE DEF ended
<1>3. Coherent(Upsert(ended, <<"command-failed", c>>))
  BY <1>2, CommandFailedKeeps
<1>4. Coherent(good)
  BY <1>2, ResolveKeepsCoherent DEF Resolve, Key
<1> HIDE DEF good
<1>5. Coherent([good EXCEPT !.status = "RUNNING"])
  BY <1>4, RunningKeeps
<1>6. Coherent(judged)
  BY <1>3, <1>4, <1>5
<1> HIDE DEF judged
<1>7. ASSUME test \in {"PASSED", "FAILED"}
      PROVE  Coherent(UpdateTestAlert(AddTestRun(judged, test)))
  <2> DEFINE m == AddTestRun(judged, test)
  <2>1. /\ judged \in Session /\ m \in Session
        /\ m.status = judged.status /\ m.alerts = judged.alerts /\ m.command = judged.command
        /\ m.streak > 1 => judged.streak > 0
    BY <1>6, <1>7, TestRunFields DEF Coherent
  <2> HIDE DEF m
  <2>2. Explained(m) /\ CallsMatch(m)
    BY <1>6, <2>1 DEF Coherent, Explained, CallsMatch
  <2>3. m.streak > 1 => m.alerts[Key("test-failure")] # "ABSENT"
    BY <1>6, <2>1 DEF Coherent, TestsMatch
  <2>4. Coherent(UpdateTestAlert(m))
    BY <2>1, <2>2, <2>3, TestAlertRestores
  <2> QED BY <2>4 DEF m
<1> QED BY <1>1, <1>6, <1>7

\* tool.completed, failed or not.
LEMMA ToolCompletedKeeps ==
    ASSUME NEW s, Coherent(s), NEW c \in Calls, NEW failed \in BOOLEAN
    PROVE  Coherent(ToolCompleted(s, c, failed))
<1>1. <<"tool-failed", c>> \in AlertKeys
  BY KeysAreKeys DEF CallCauses
<1>2. Coherent(Upsert(s, <<"tool-failed", c>>))
  BY <1>1, UpsertKeepsCoherent
<1>3. Coherent(Resolve(s, <<"tool-failed", c>>))
  BY ResolveKeepsCoherent DEF Resolve, Key
<1> QED BY <1>2, <1>3 DEF ToolCompleted

\* The dispatch of ingest.
LEMMA ProjectKeeps ==
    ASSUME NEW s, Coherent(s), NEW e \in Events, NEW lag \in 0..MaxAge
    PROVE  Coherent(Project(s, e, lag))
<1>1. CASE e.kind \in {"session.meta", "session.started"}
  BY <1>1, MetadataKeeps DEF Project
<1>2. CASE e.kind = "turn.started"
  BY <1>2, TurnStartedKeeps DEF Project
<1>3. CASE e.kind = "turn.completed"
  BY <1>3, TurnCompletedKeeps DEF Project
<1>4. CASE e.kind = "turn.failed"
  BY <1>4, TurnFailedKeeps DEF Project
<1>5. CASE e.kind = "session.completed"
  BY <1>5, CompletedKeeps DEF Project
<1>6. CASE e.kind = "message.user"
  BY <1>6, UserMessageKeeps DEF Project
<1>7. CASE e.kind = "input.required"
  <2>1. Coherent(Upsert(SetStatus(s, "WAITING_INPUT"), Key("input-required")))
    BY DemandKeeps DEF WaitingStates
  <2> QED BY <1>7, <2>1 DEF Project
<1>8. CASE e.kind = "approval.required"
  <2>1. Coherent(Upsert(SetStatus(s, "WAITING_APPROVAL"), Key("approval-required")))
    BY DemandKeeps DEF WaitingStates
  <2> QED BY <1>8, <2>1 DEF Project
<1>9. CASE e.kind = "command.started"
  <2>1. e.call \in Calls
    BY <1>9 DEF Events, PlainKinds
  <2> QED BY <1>9, <2>1, CommandStartedKeeps DEF Project
<1>10. CASE e.kind = "command.output"
  <2>1. e.call \in Calls
    BY <1>10 DEF Events, PlainKinds
  <2> QED BY <1>10, <2>1, CommandOutputKeeps DEF Project
<1>11. CASE e.kind = "command.completed"
  <2>1. e.call \in Calls /\ e.failed \in BOOLEAN /\ e.test \in {"NONE", "PASSED", "FAILED"}
    BY <1>11 DEF Events, PlainKinds
  <2> QED BY <1>11, <2>1, CommandCompletedKeeps DEF Project
<1>12. CASE e.kind = "tool.started"
  BY <1>12, SetStatusKeepsCoherent DEF Project, Statuses, WaitingStates
<1>13. CASE e.kind = "tool.completed"
  <2>1. e.call \in Calls /\ e.failed \in BOOLEAN
    BY <1>13 DEF Events, PlainKinds
  <2> QED BY <1>13, <2>1, ToolCompletedKeeps DEF Project
<1>14. CASE e.kind = "error"
  <2>1. Key("runtime-error") \in AlertKeys /\ Key("runtime-error")[1] = "runtime-error"
    BY KeysAreKeys DEF SessionCauses, Key
  <2>2. Coherent(Upsert(s, Key("runtime-error")))
    BY <2>1, UpsertKeepsCoherent
  <2> QED BY <1>14, <2>2 DEF Project
<1>15. CASE e.kind \in {"message.agent", "file.changed", "plan.updated",
                        "reasoning"}
  BY <1>15 DEF Project
<1> QED
  <2>1. e.kind \in PlainKinds \cup {"command.started", "command.output", "tool.started",
                                    "tool.completed", "command.completed"}
    BY DEF Events
  <2> QED BY <1>1, <1>2, <1>3, <1>4, <1>5, <1>6, <1>7, <1>8, <1>9, <1>10, <1>11, <1>12,
             <1>13, <1>14, <1>15, <2>1 DEF PlainKinds

----------------------------------------------------------------------------
(* The calls of the engine keep a row coherent and its headline current.   *)

\* A headline that is an open alert, when there is one.
LEMMA HeadlineIsCurrent ==
    ASSUME NEW s,
           OpenAlerts(s) = {} => s.attention = NoAlert,
           OpenAlerts(s) # {} => s.attention \in OpenAlerts(s)
    PROVE  Current(s)
BY NoAlertAssumption DEF Current, OpenAlerts

\* Recomputing the headline, as _refresh_attention does.
LEMMA RefreshKeeps ==
    ASSUME NEW s, Coherent(s)
    PROVE  Coherent(RefreshAttention(s)) /\ Current(RefreshAttention(s))
<1> DEFINE r == RefreshAttention(s)
<1>1. s \in Session
  BY DEF Coherent
<1>2. /\ r \in Session
      /\ r.status = s.status /\ r.alerts = s.alerts /\ r.command = s.command
      /\ r.streak = s.streak /\ r.attention = Top(s)
  BY <1>1, TopIsOpen DEF RefreshAttention, Session
<1> HIDE DEF r
<1>3. OpenAlerts(r) = OpenAlerts(s)
  BY <1>2 DEF OpenAlerts
<1>4. Current(r)
  BY <1>1, <1>2, <1>3, TopIsOpen, HeadlineIsCurrent
<1>5. Coherent(r)
  BY <1>2, StatusKeepsCoherent
<1> QED BY <1>4, <1>5 DEF r

\* A change of neither the alerts nor the headline keeps it current.
LEMMA SameHeadline ==
    ASSUME NEW s, NEW r, Current(s), r.alerts = s.alerts, r.attention = s.attention
    PROVE  Current(r)
BY DEF Current, OpenAlerts

\* After an upsert the headline is the alert just opened.
LEMMA UpsertIsCurrent ==
    ASSUME NEW s \in Session, NEW k \in AlertKeys
    PROVE  Current(Upsert(s, k))
BY UpsertFields, NoAlertAssumption DEF Current

\* After a resolve it is the worst alert still open, if any.
LEMMA ResolveIsCurrent ==
    ASSUME NEW s \in Session, NEW K
    PROVE  Current(ResolveAll(s, K))
BY ResolveFields, HeadlineIsCurrent

\* ingest, of a new line: the handler leaves a coherent row and the refresh
\* at its end a current headline.
LEMMA IngestNewKeeps ==
    ASSUME NEW s, Coherent(s), NEW e \in Events, NEW lag \in 0..MaxAge
    PROVE  Coherent(IngestNew(s, e, lag)) /\ Current(IngestNew(s, e, lag))
<1>1. Coherent(Seen(s, lag))
  <2>1. s \in Session
    BY DEF Coherent
  <2>2. /\ Seen(s, lag) \in Session
        /\ Seen(s, lag).status = s.status /\ Seen(s, lag).alerts = s.alerts
        /\ Seen(s, lag).command = s.command /\ Seen(s, lag).streak = s.streak
    BY <2>1 DEF Seen, Session
  <2> QED BY <2>2, StatusKeepsCoherent
<1>2. Coherent(Project(Seen(s, lag), e, lag))
  BY <1>1, ProjectKeeps
<1> QED BY <1>2, RefreshKeeps DEF IngestNew

\* reconcile's verdict on the session.
LEMMA ReconcileSessionKeeps ==
    ASSUME NEW s, Coherent(s), Current(s)
    PROVE  Coherent(ReconcileSession(s)) /\ Current(ReconcileSession(s))
<1> DEFINE k == Key("stale")
           raised == Upsert(s, k)
<1>1. s \in Session /\ k \in AlertKeys /\ k[1] = "stale"
  BY KeysAreKeys DEF Coherent, SessionCauses, Key
<1>2. Coherent(raised) /\ Current(raised)
  BY <1>1, UpsertKeepsCoherent, UpsertIsCurrent
<1>3. Coherent(Resolve(s, k)) /\ Current(Resolve(s, k))
  BY <1>1, ResolveKeepsCoherent, ResolveIsCurrent DEF Resolve, Key
<1>4. Coherent([raised EXCEPT !.status = "BLOCKED"]) /\ Current([raised EXCEPT !.status = "BLOCKED"])
  <2> HIDE DEF raised
  <2>1. raised \in Session /\ "BLOCKED" \in Statuses /\ "BLOCKED" \notin WaitingStates
    BY <1>2 DEF Coherent, Statuses, WaitingStates
  <2> QED BY <1>2, <2>1, NotWaitingKeeps, SameHeadline
<1> QED BY <1>2, <1>3, <1>4 DEF ReconcileSession

\* What reconcile's loop over the running commands changes: their hung alerts.
LEMMA JudgeFields ==
    ASSUME NEW s \in Session
    PROVE  /\ JudgeCommands(s) \in Session
           /\ JudgeCommands(s).status = s.status
           /\ JudgeCommands(s).command = s.command
           /\ JudgeCommands(s).streak = s.streak
           /\ \A k \in AlertKeys :
                 JudgeCommands(s).alerts[k] =
                    IF k[1] = "command-hung" /\ k[2] \in RunningCommands(s)
                    THEN IF s.quiet[k[2]] >= Hung THEN "OPEN"
                         ELSE IF s.alerts[k] = "ABSENT" THEN "ABSENT" ELSE "RESOLVED"
                    ELSE s.alerts[k]
<1> DEFINE f == [k \in AlertKeys |->
                    IF k[1] = "command-hung" /\ k[2] \in RunningCommands(s)
                    THEN IF s.quiet[k[2]] >= Hung THEN "OPEN"
                         ELSE IF s.alerts[k] = "ABSENT" THEN "ABSENT" ELSE "RESOLVED"
                    ELSE s.alerts[k]]
<1>1. f \in [AlertKeys -> AlertStates]
  BY DEF Session, AlertStates
<1>2. JudgeCommands(s) = [s EXCEPT !.alerts = f]
  BY DEF JudgeCommands
<1>3. \A k \in AlertKeys :
         f[k] = IF k[1] = "command-hung" /\ k[2] \in RunningCommands(s)
                THEN IF s.quiet[k[2]] >= Hung THEN "OPEN"
                     ELSE IF s.alerts[k] = "ABSENT" THEN "ABSENT" ELSE "RESOLVED"
                ELSE s.alerts[k]
  OBVIOUS
<1> HIDE DEF f
<1> QED BY <1>1, <1>2, <1>3 DEF Session

\* reconcile, whatever order it takes the running commands in.
LEMMA ReconciledKeeps ==
    ASSUME NEW s, Coherent(s), Current(s), NEW x \in Reconciled(s)
    PROVE  Coherent(x) /\ Current(x)
<1> DEFINE r == ReconcileSession(s)
           j == JudgeCommands(r)
<1>1. Coherent(r) /\ Current(r) /\ r \in Session
  BY ReconcileSessionKeeps DEF Coherent
<1>2. x = r \/ \E last \in RunningCommands(r) :
                  x = [j EXCEPT !.attention = IF r.quiet[last] >= Hung
                                              THEN <<"command-hung", last>> ELSE Top(j)]
  BY DEF Reconciled
<1> HIDE DEF r
<1>3. /\ j \in Session
      /\ j.status = r.status /\ j.command = r.command /\ j.streak = r.streak
      /\ \A k \in AlertKeys :
            j.alerts[k] = IF k[1] = "command-hung" /\ k[2] \in RunningCommands(r)
                          THEN IF r.quiet[k[2]] >= Hung THEN "OPEN"
                               ELSE IF r.alerts[k] = "ABSENT" THEN "ABSENT" ELSE "RESOLVED"
                          ELSE r.alerts[k]
  BY <1>1, JudgeFields
<1> HIDE DEF j
<1>4. Coherent(j)
  <2>1. Explained(j) /\ TestsMatch(j)
    <3>1. \A a \in SessionCauses : Key(a) \in AlertKeys /\ Key(a)[1] # "command-hung"
      BY KeysAreKeys DEF SessionCauses, Key
    <3>2. \A a \in SessionCauses : j.alerts[Key(a)] = r.alerts[Key(a)]
      BY <1>3, <3>1
    <3> QED BY <1>1, <1>3, <3>2 DEF Coherent, Explained, TestsMatch, SessionCauses
  <2>2. CallsMatch(j)
    <3> SUFFICES ASSUME NEW c \in Calls
                 PROVE  /\ j.alerts[<<"command-hung", c>>] = "OPEN" => j.command[c] = "RUNNING"
                        /\ j.alerts[<<"command-failed", c>>] = "OPEN" => j.command[c] = "ENDED"
      BY DEF CallsMatch
    <3>1. /\ <<"command-hung", c>> \in AlertKeys /\ <<"command-failed", c>> \in AlertKeys
          /\ <<"command-hung", c>>[2] = c
          /\ <<"command-failed", c>>[1] # "command-hung"
      BY KeysAreKeys DEF CallCauses
    <3>2. /\ r.alerts[<<"command-hung", c>>] = "OPEN" => r.command[c] = "RUNNING"
          /\ r.alerts[<<"command-failed", c>>] = "OPEN" => r.command[c] = "ENDED"
      BY <1>1 DEF Coherent, CallsMatch
    <3>3. c \in RunningCommands(r) <=> r.command[c] = "RUNNING"
      BY DEF RunningCommands
    <3>4. j.alerts[<<"command-failed", c>>] = r.alerts[<<"command-failed", c>>]
      BY <1>3, <3>1
    <3>5. c \notin RunningCommands(r) =>
             j.alerts[<<"command-hung", c>>] = r.alerts[<<"command-hung", c>>]
      BY <1>3, <3>1
    <3> QED BY <1>3, <3>2, <3>3, <3>4, <3>5
  <2> QED BY <1>3, <2>1, <2>2 DEF Coherent
<1>5. ASSUME NEW last \in RunningCommands(r),
             x = [j EXCEPT !.attention = IF r.quiet[last] >= Hung
                                         THEN <<"command-hung", last>> ELSE Top(j)]
      PROVE  Coherent(x) /\ Current(x)
  <2> DEFINE k == <<"command-hung", last>>
             a == IF r.quiet[last] >= Hung THEN k ELSE Top(j)
  <2>1. /\ k \in AlertKeys /\ k[1] = "command-hung" /\ k[2] = last
    BY KeysAreKeys DEF RunningCommands, CallCauses
  <2>2. r.quiet[last] >= Hung => j.alerts[k] = "OPEN"
    BY <1>3, <2>1
  <2>3. a \in AlertKeys \cup {NoAlert}
    BY <1>3, <2>1, TopIsOpen
  <2>4. /\ OpenAlerts(j) = {} => a = NoAlert
        /\ OpenAlerts(j) # {} => a \in OpenAlerts(j)
    BY <1>3, <2>1, <2>2, TopIsOpen DEF OpenAlerts
  <2>5. x = [j EXCEPT !.attention = a]
    BY <1>5
  <2> HIDE DEF a
  <2>6. /\ x \in Session
        /\ x.status = j.status /\ x.alerts = j.alerts /\ x.command = j.command
        /\ x.streak = j.streak /\ x.attention = a
    BY <1>3, <2>3, <2>5 DEF Session
  <2>7. Current(x)
    BY <2>4, <2>6, HeadlineIsCurrent DEF OpenAlerts
  <2> QED BY <1>4, <2>6, <2>7, StatusKeepsCoherent
<1> QED BY <1>1, <1>2, <1>5

----------------------------------------------------------------------------
(* The invariants.                                                         *)

\* TypeOK alone is inductive; the others are not: CallsMatch needs the type of
\* the row, TestsMatch needs both halves of itself, and the headline of a poll
\* that judges commands needs the headline the poll found.
IInv ==
    /\ TypeOK
    /\ Coherent(session)
    /\ Current(session)

\* A fresh row.
LEMMA InitIsInv == Init => IInv
<1> SUFFICES ASSUME NEW age \in 0..MaxAge, session = NewSession(age),
                    events = 0, process = "none"
             PROVE  IInv
  BY DEF Init
<1>1. \A c \in Calls : 0 \in 0..MaxAge
  BY ThresholdAssumption
<1>2. session \in Session
  BY <1>1 DEF NewSession, Session, Statuses, AlertStates
<1>3. /\ session.status = "DISCOVERED" /\ session.streak = 0 /\ session.attention = NoAlert
      /\ \A k \in AlertKeys : session.alerts[k] = "ABSENT"
  BY DEF NewSession
<1>4. OpenAlerts(session) = {}
  BY <1>3 DEF OpenAlerts
<1>5. Coherent(session)
  BY <1>2, <1>3, KeysAreKeys
     DEF Coherent, Explained, CallsMatch, TestsMatch, SessionCauses, CallCauses
<1>6. Current(session)
  BY <1>3, <1>4 DEF Current
<1> QED BY <1>2, <1>5, <1>6, MaxEventsAssumption DEF IInv, TypeOK

\* acknowledge_alert, on any row of table alerts.
LEMMA AcknowledgeKeeps ==
    ASSUME NEW s, Coherent(s), Current(s), NEW k \in AlertKeys, s.alerts[k] # "ABSENT"
    PROVE  Coherent(AcknowledgeAlert(s, k)) /\ Current(AcknowledgeAlert(s, k))
<1> DEFINE r == AcknowledgeAlert(s, k)
<1>1. s \in Session
  BY DEF Coherent
<1>2. /\ r \in Session
      /\ r.status = s.status /\ r.command = s.command /\ r.streak = s.streak
      /\ r.attention = s.attention
      /\ \A j \in AlertKeys : r.alerts[j] = IF j = k THEN "ACKNOWLEDGED" ELSE s.alerts[j]
  BY <1>1 DEF AcknowledgeAlert, Session, AlertStates
<1> HIDE DEF r
<1>3. Explained(r) /\ TestsMatch(r)
  BY <1>2, KeysAreKeys DEF Coherent, Explained, TestsMatch, SessionCauses
<1>4. CallsMatch(r)
  BY <1>2, KeysAreKeys DEF Coherent, CallsMatch, CallCauses
<1>5. Current(r)
  <2>1. OpenAlerts(r) \subseteq OpenAlerts(s)
    BY <1>2 DEF OpenAlerts
  <2>2. s.attention \in AlertKeys \cup {NoAlert}
    BY <1>1 DEF Session
  <2> QED BY <1>2, <2>1, <2>2 DEF Current
<1>6. Coherent(r) /\ Current(r)
  BY <1>2, <1>3, <1>4, <1>5 DEF Coherent
<1> QED BY <1>6 DEF r

\* managed_process_exited, on whatever row it finds.
LEMMA ExitedKeeps ==
    ASSUME NEW s, Coherent(s), Current(s), NEW how \in {"cancelled", "success", "failure"}
    PROVE  Coherent(ProcessExited(s, how)) /\ Current(ProcessExited(s, how))
<1> DEFINE to(h) == [s EXCEPT !.status = h]
<1>1. ASSUME NEW h \in {"CANCELLED", "COMPLETED", "IDLE", "FAILED"}
      PROVE  Coherent(to(h)) /\ Current(to(h))
  BY <1>1, NotWaitingKeeps, SameHeadline DEF Statuses, TerminalStates, WaitingStates
<1>2. CASE how = "cancelled"
  BY <1>1, <1>2 DEF ProcessExited
<1>3. CASE how = "success"
  BY <1>1, <1>3 DEF ProcessExited
<1>4. CASE how = "failure"
  <2>1. Key("process-exit") \in AlertKeys /\ Key("process-exit")[1] = "process-exit"
    BY KeysAreKeys DEF SessionCauses, Key
  <2>2. Coherent(to("FAILED")) /\ to("FAILED") \in Session
    BY <1>1 DEF Coherent
  <2> HIDE DEF to
  <2>3. Coherent(Upsert(to("FAILED"), Key("process-exit")))
    BY <2>1, <2>2, UpsertKeepsCoherent
  <2>4. Current(Upsert(to("FAILED"), Key("process-exit")))
    BY <2>1, <2>2, UpsertIsCurrent
  <2> USE DEF to
  <2> QED BY <1>4, <2>3, <2>4 DEF ProcessExited
<1> QED BY <1>2, <1>3, <1>4

\* Seeing a session again, a process that starts and the clock change nothing
\* that alerts are about.
LEMMA AgesKeep ==
    ASSUME NEW s, Coherent(s), Current(s), NEW lag \in 0..MaxAge
    PROVE  /\ Coherent(Seen(s, lag)) /\ Current(Seen(s, lag))
           /\ Coherent(ProcessStarted(s)) /\ Current(ProcessStarted(s))
<1>1. s \in Session /\ "RUNNING" \in Statuses /\ 0 \in 0..MaxAge
  BY ThresholdAssumption DEF Coherent, Statuses
<1>2. /\ Seen(s, lag) \in Session
      /\ Seen(s, lag).status = s.status /\ Seen(s, lag).alerts = s.alerts
      /\ Seen(s, lag).attention = s.attention
      /\ Seen(s, lag).command = s.command /\ Seen(s, lag).streak = s.streak
  BY <1>1 DEF Seen, Session
<1>3. /\ ProcessStarted(s) \in Session
      /\ ProcessStarted(s).status = "RUNNING" /\ ProcessStarted(s).alerts = s.alerts
      /\ ProcessStarted(s).attention = s.attention
      /\ ProcessStarted(s).command = s.command /\ ProcessStarted(s).streak = s.streak
  BY <1>1 DEF ProcessStarted, Session
<1> QED BY <1>2, <1>3, StatusKeepsCoherent, SameHeadline DEF WaitingStates

\* Nor do the statuses the process manager writes itself.
LEMMA OwnStatusKeeps ==
    ASSUME Coherent(session), Current(session),
           \/ Pause \/ Continue \/ BindAway
           \/ \E lag \in 0..MaxAge : BindHere(lag)
    PROVE  Coherent(session') /\ Current(session')
<1>1. session \in Session /\ {"PAUSED", "RUNNING", "CANCELLED"} \subseteq Statuses
  BY DEF Coherent, Statuses, TerminalStates
<1>2. \/ session' = [session EXCEPT !.status = "PAUSED"]
      \/ session' = [session EXCEPT !.status = "RUNNING"]
      \/ session' = [session EXCEPT !.status = "CANCELLED"]
      \/ \E lag \in 0..MaxAge : session' = [session EXCEPT !.status = "RUNNING", !.age = lag]
  BY DEF Pause, Continue, BindAway, BindHere
<1>3. /\ session' \in Session /\ session'.status \notin WaitingStates
      /\ session'.alerts = session.alerts /\ session'.attention = session.attention
      /\ session'.command = session.command /\ session'.streak = session.streak
  BY <1>1, <1>2 DEF Session, WaitingStates
<1> QED BY <1>3, StatusKeepsCoherent, SameHeadline

\* A tick of the clock.
LEMMA TickKeeps ==
    ASSUME IInv, Tick
    PROVE  Coherent(session') /\ Current(session')
<1>1. session \in Session
  BY DEF IInv, TypeOK
<1>2. \A n \in 0..MaxAge : Older(n) \in 0..MaxAge
  BY ThresholdAssumption DEF Older
<1>3. session'.status = session.status /\ session'.alerts = session.alerts
      /\ session'.attention = session.attention
      /\ session'.command = session.command /\ session'.streak = session.streak
  BY <1>1 DEF Tick, Session
<1>4. session' \in Session
  BY <1>1, <1>2 DEF Tick, Session
<1> QED BY <1>3, <1>4, StatusKeepsCoherent, SameHeadline DEF IInv

\* Every action keeps the invariant.
LEMMA NextKeepsInv == IInv /\ [Next]_vars => IInv'
<1> SUFFICES ASSUME IInv, [Next]_vars
             PROVE  IInv'
  OBVIOUS
<1>1. Coherent(session) /\ Current(session)
  BY DEF IInv
<1>2. /\ events \in 0..MaxEvents
      /\ process \in {"none", "live", "exited"}
  BY DEF IInv, TypeOK
<1>3. SUFFICES /\ Coherent(session') /\ Current(session')
               /\ events' \in 0..MaxEvents
               /\ process' \in {"none", "live", "exited"}
  BY <1>3 DEF IInv, TypeOK, Coherent
<1>4. ASSUME NEW e \in Events, NEW lag \in 0..MaxAge, Ingest(e, lag)
      PROVE  /\ Coherent(session') /\ Current(session')
             /\ events' \in 0..MaxEvents /\ process' = process
  <2>1. events' \in 0..MaxEvents /\ process' = process
    BY <1>2, <1>4, MaxEventsAssumption DEF Ingest
  <2>2. Coherent(session') /\ Current(session')
    BY <1>1, <1>4, IngestNewKeeps DEF Ingest
  <2> QED BY <2>1, <2>2
<1>5. ASSUME NEW lag \in 0..MaxAge, IngestDuplicate(lag)
      PROVE  Coherent(session') /\ Current(session')
  BY <1>1, <1>5, AgesKeep DEF IngestDuplicate
<1>6. CASE Reconcile
  BY <1>1, <1>2, <1>6, ReconciledKeeps DEF Reconcile
<1>7. ASSUME NEW k \in Acknowledged, Acknowledge(k)
      PROVE  Coherent(session') /\ Current(session')
  BY <1>1, <1>7, AcknowledgeKeeps, AcknowledgedAssumption DEF Acknowledge
<1>8. CASE ManagedProcessStarted
  <2>1. 0 \in 0..MaxAge
    BY ThresholdAssumption
  <2> QED BY <1>1, <1>2, <1>8, <2>1, AgesKeep DEF ManagedProcessStarted
<1>9. ASSUME NEW how \in {"cancelled", "success", "failure"}, ManagedProcessExited(how)
      PROVE  Coherent(session') /\ Current(session')
  BY <1>1, <1>9, ExitedKeeps DEF ManagedProcessExited
<1>10. CASE Tick
  BY <1>2, <1>10, TickKeeps DEF Tick
<1>11. CASE UNCHANGED vars
  BY <1>1, <1>2, <1>11 DEF vars
<1>16. CASE Pause \/ Continue \/ (\E lag \in 0..MaxAge : BindHere(lag)) \/ BindAway
  BY <1>1, <1>2, <1>16, OwnStatusKeeps DEF Pause, Continue, BindHere, BindAway
<1>12. CASE \E e \in Events, lag \in 0..MaxAge : Ingest(e, lag)
  BY <1>2, <1>4, <1>12
<1>13. CASE \E lag \in 0..MaxAge : IngestDuplicate(lag)
  BY <1>2, <1>5, <1>13 DEF IngestDuplicate
<1>14. CASE \E k \in Acknowledged : Acknowledge(k)
  BY <1>2, <1>7, <1>14 DEF Acknowledge
<1>15. CASE \E how \in {"cancelled", "success", "failure"} : ManagedProcessExited(how)
  BY <1>2, <1>9, <1>15 DEF ManagedProcessExited
<1> QED BY <1>6, <1>8, <1>10, <1>11, <1>12, <1>13, <1>14, <1>15, <1>16 DEF Next

\* The inductive invariant holds throughout.
THEOREM InvHolds == Spec => []IInv
BY InitIsInv, NextKeepsInv, PTL DEF Spec

\* Every handler, poll, acknowledgement and process exit leaves a row of the
\* right shape: no alert state, status or headline outside those of db.py.
THEOREM TypeCorrect == Spec => []TypeOK
<1>1. IInv => TypeOK
  BY DEF IInv
<1> QED BY <1>1, InvHolds, PTL

\* WaitingIsExplained: whatever is ingested, acknowledged or polled, in any
\* order, a session shown as waiting for the user says for what.
THEOREM WaitingExplained == Spec => []WaitingIsExplained
<1>1. IInv => WaitingIsExplained
  BY DEF IInv, Coherent, Explained, WaitingIsExplained
<1> QED BY <1>1, InvHolds, PTL

\* CallAlertsMatchCommands: the open alerts about a command agree with its row,
\* for any calls of a session that has no more commands than _find_command looks
\* at (CallsAssumption; 500 in the code, db.py:528-531).
THEOREM CallAlertsMatch == Spec => []CallAlertsMatchCommands
<1>1. IInv => CallAlertsMatchCommands
  BY DEF IInv, Coherent, CallsMatch, CallAlertsMatchCommands
<1> QED BY <1>1, InvHolds, PTL

\* TestAlertsMatchStreak: the test alerts follow the latest run of failures.
THEOREM TestAlertsMatch == Spec => []TestAlertsMatchStreak
<1>1. IInv => TestAlertsMatchStreak
  BY DEF IInv, Coherent, TestsMatch, TestAlertsMatchStreak
<1> QED BY <1>1, InvHolds, PTL

\* AttentionIsCurrent: the headline of a session is blank only when no alert is
\* open, and never one that was resolved.
THEOREM AttentionCurrent == Spec => []AttentionIsCurrent
<1>1. IInv => AttentionIsCurrent
  BY DEF IInv, Current, AttentionIsCurrent
<1> QED BY <1>1, InvHolds, PTL

----------------------------------------------------------------------------
(* What the status may do in one step.                                     *)

\* r keeps what is settled in s, and settles nothing of its own.
Honest(s, r) ==
    /\ r \in Session
    /\ s.status \in StickyStates => r.status \in StickyStates
    /\ r.status \in StickyStates => r.status = s.status

\* The transactions on alerts, commands and test runs leave the status alone.
LEMMA TransactionsAreHonest ==
    ASSUME NEW s \in Session
    PROVE  /\ \A k \in AlertKeys : Honest(s, Upsert(s, k))
           /\ \A K : Honest(s, ResolveAll(s, K))
           /\ \A c \in Calls, to \in {"ABSENT", "RUNNING", "ENDED"}, lag \in 0..MaxAge :
                 Honest(s, UpsertCommand(s, c, to, lag))
           /\ \A test \in {"PASSED", "FAILED"} : Honest(s, AddTestRun(s, test))
<1>1. \A k \in AlertKeys : Honest(s, Upsert(s, k))
  BY UpsertFields DEF Honest
<1>2. \A K : Honest(s, ResolveAll(s, K))
  BY ResolveFields DEF Honest
<1>3. ASSUME NEW c \in Calls, NEW to \in {"ABSENT", "RUNNING", "ENDED"}, NEW lag \in 0..MaxAge
      PROVE  Honest(s, UpsertCommand(s, c, to, lag))
  BY CommandFields DEF Honest
<1>4. ASSUME NEW test \in {"PASSED", "FAILED"}
      PROVE  Honest(s, AddTestRun(s, test))
  BY TestRunFields DEF Honest
<1> QED BY <1>1, <1>2, <1>3, <1>4

\* _set_status of a state that is not sticky.
LEMMA SetStatusIsHonest ==
    ASSUME NEW s \in Session, NEW to \in Statuses, to \notin StickyStates
    PROVE  Honest(s, SetStatus(s, to))
<1>1. CASE s.status \in StickyStates /\ to \notin StickyStates
  BY <1>1 DEF SetStatus, Honest
<1>2. CASE ~(s.status \in StickyStates /\ to \notin StickyStates)
  <2>1. SetStatus(s, to) = [s EXCEPT !.status = to]
    BY <1>2 DEF SetStatus
  <2>2. [s EXCEPT !.status = to] \in Session /\ [s EXCEPT !.status = to].status = to
    BY StatusFields
  <2> QED BY <1>2, <2>1, <2>2 DEF Honest
<1> QED BY <1>1, <1>2

\* A direct write of RUNNING is honest where the session is not settled.
LEMMA RunningIsHonest ==
    ASSUME NEW s \in Session, s.status \notin StickyStates
    PROVE  Honest(s, [s EXCEPT !.status = "RUNNING"])
BY StatusFields DEF Honest, Statuses, StickyStates

LEMMA HonestyIsTransitive ==
    ASSUME NEW s, NEW m, NEW r, Honest(s, m), Honest(m, r)
    PROVE  Honest(s, r)
BY DEF Honest

\* The tests' alerts say nothing about the status.
LEMMA TestAlertIsHonest ==
    ASSUME NEW s \in Session
    PROVE  Honest(s, UpdateTestAlert(s))
<1>1. Key("test-failure") \in AlertKeys /\ Key("repeated-test-failure") \in AlertKeys
  BY KeysAreKeys DEF SessionCauses
<1>2. Honest(s, Upsert(s, Key("repeated-test-failure")))
  BY <1>1, TransactionsAreHonest
<1>3. Honest(s, Resolve(Upsert(s, Key("test-failure")), Key("repeated-test-failure")))
  <2> DEFINE m == Upsert(s, Key("test-failure"))
  <2>1. Honest(s, m) /\ m \in Session
    BY <1>1, TransactionsAreHonest DEF Honest
  <2> HIDE DEF m
  <2>2. Honest(m, Resolve(m, Key("repeated-test-failure")))
    BY <2>1, TransactionsAreHonest DEF Resolve
  <2>3. Honest(s, Resolve(m, Key("repeated-test-failure")))
    BY <2>1, <2>2, HonestyIsTransitive
  <2> QED BY <2>3 DEF m
<1>4. Honest(s, ResolveAll(s, {Key("test-failure"), Key("repeated-test-failure")}))
  BY TransactionsAreHonest
<1> QED BY <1>2, <1>3, <1>4 DEF UpdateTestAlert

\* A passing command reads the status before it writes RUNNING.
LEMMA CommandCompletedIsHonest ==
    ASSUME NEW s \in Session, NEW c \in Calls, NEW lag \in 0..MaxAge,
           NEW failed \in BOOLEAN, NEW test \in {"NONE", "PASSED", "FAILED"}
    PROVE  Honest(s, CommandCompleted(s, c, lag, failed, test))
<1> DEFINE m == UpsertCommand(s, c, "ENDED", lag)
           ended == Resolve(m, <<"command-hung", c>>)
           good == Resolve(ended, <<"command-failed", c>>)
           judged == IF failed THEN Upsert(ended, <<"command-failed", c>>)
                     ELSE IF good.status \in TerminalStates \cup WaitingStates THEN good
                          ELSE [good EXCEPT !.status = "RUNNING"]
           r == IF test = "NONE" THEN judged ELSE UpdateTestAlert(AddTestRun(judged, test))
<1>1. CommandCompleted(s, c, lag, failed, test) = r
  BY DEF CommandCompleted
<1>2. Honest(s, m)
  BY TransactionsAreHonest
<1> HIDE DEF m
<1>3. Honest(s, ended)
  <2>1. m \in Session
    BY <1>2 DEF Honest
  <2>2. Honest(m, ended)
    BY <2>1, TransactionsAreHonest DEF Resolve
  <2> QED
    BY <1>2, <2>2, HonestyIsTransitive
<1> HIDE DEF ended
<1>4. Honest(s, good) /\ Honest(s, Upsert(ended, <<"command-failed", c>>))
  <2>1. ended \in Session /\ <<"command-failed", c>> \in AlertKeys
    BY <1>3, KeysAreKeys DEF Honest, CallCauses
  <2>2. Honest(ended, good) /\ Honest(ended, Upsert(ended, <<"command-failed", c>>))
    BY <2>1, TransactionsAreHonest DEF Resolve
  <2> QED BY <1>3, <2>2, HonestyIsTransitive
<1> HIDE DEF good
<1>5. ASSUME good.status \notin TerminalStates
      PROVE  Honest(s, [good EXCEPT !.status = "RUNNING"])
  <2>1. good \in Session /\ good.status \notin StickyStates
    BY <1>4, <1>5 DEF Honest, TerminalStates, StickyStates
  <2> QED BY <1>4, <2>1, RunningIsHonest, HonestyIsTransitive
<1>6. Honest(s, judged)
  BY <1>4, <1>5
<1> HIDE DEF judged
<1>7. ASSUME test \in {"PASSED", "FAILED"}
      PROVE  Honest(s, UpdateTestAlert(AddTestRun(judged, test)))
  <2>1. Honest(judged, AddTestRun(judged, test)) /\ AddTestRun(judged, test) \in Session
    BY <1>6, <1>7, TransactionsAreHonest DEF Honest
  <2>2. Honest(AddTestRun(judged, test), UpdateTestAlert(AddTestRun(judged, test)))
    BY <2>1, TestAlertIsHonest
  <2> QED BY <1>6, <2>1, <2>2, HonestyIsTransitive
<1> QED BY <1>1, <1>6, <1>7

\* A status set through _set_status, and one alert raised or some resolved.
LEMMA SetStatusAndAlertIsHonest ==
    ASSUME NEW s \in Session, NEW to \in Statuses, to \notin StickyStates
    PROVE  /\ \A k \in AlertKeys : Honest(s, Upsert(SetStatus(s, to), k))
           /\ \A K : Honest(s, ResolveAll(SetStatus(s, to), K))
<1> DEFINE m == SetStatus(s, to)
<1>1. Honest(s, m) /\ m \in Session
  BY SetStatusIsHonest DEF Honest
<1> HIDE DEF m
<1>2. /\ \A k \in AlertKeys : Honest(m, Upsert(m, k))
      /\ \A K : Honest(m, ResolveAll(m, K))
  BY <1>1, TransactionsAreHonest
<1>3. /\ \A k \in AlertKeys : Honest(s, Upsert(m, k))
      /\ \A K : Honest(s, ResolveAll(m, K))
  BY <1>1, <1>2, HonestyIsTransitive
<1> QED BY <1>3 DEF m

\* The start, or output, of a command.
LEMMA CommandIsHonest ==
    ASSUME NEW s \in Session, NEW c \in Calls, NEW lag \in 0..MaxAge
    PROVE  /\ Honest(s, CommandStarted(s, c, lag))
           /\ Honest(s, CommandOutput(s, c, lag))
<1>1. Honest(s, CommandStarted(s, c, lag))
  <2> DEFINE m == UpsertCommand(s, c, "RUNNING", lag)
  <2>1. Honest(s, m) /\ m \in Session
    BY TransactionsAreHonest DEF Honest
  <2> HIDE DEF m
  <2>2. Honest(m, Resolve(SetStatus(m, "RUNNING"), <<"command-failed", c>>))
    BY <2>1, SetStatusAndAlertIsHonest DEF Resolve, Statuses, StickyStates
  <2>3. Honest(s, Resolve(SetStatus(m, "RUNNING"), <<"command-failed", c>>))
    BY <2>1, <2>2, HonestyIsTransitive
  <2> QED BY <2>3 DEF m, CommandStarted
<1>2. Honest(s, CommandOutput(s, c, lag))
  <2> DEFINE to == IF s.command[c] = "ABSENT" THEN "RUNNING" ELSE s.command[c]
             m == UpsertCommand(s, c, to, lag)
  <2>1. to \in {"ABSENT", "RUNNING", "ENDED"}
    BY DEF Session
  <2>2. CommandOutput(s, c, lag) = Resolve(m, <<"command-hung", c>>)
    BY DEF CommandOutput
  <2> HIDE DEF to
  <2>3. Honest(s, m)
    BY <2>1, TransactionsAreHonest
  <2> HIDE DEF m
  <2>4. m \in Session
    BY <2>3 DEF Honest
  <2>5. Honest(m, Resolve(m, <<"command-hung", c>>))
    BY <2>4, TransactionsAreHonest DEF Resolve
  <2> QED BY <2>2, <2>3, <2>5, HonestyIsTransitive
<1> QED BY <1>1, <1>2

\* Every handler but the one of session.completed.
LEMMA ProjectIsHonest ==
    ASSUME NEW s \in Session, NEW e \in Events, NEW lag \in 0..MaxAge,
           e.kind # "session.completed"
    PROVE  Honest(s, Project(s, e, lag))
<1>1. Honest(s, s)
  BY DEF Honest
<1>2. /\ {"RUNNING", "IDLE", "FAILED", "WAITING_INPUT", "WAITING_APPROVAL"} \subseteq Statuses
      /\ \A cause \in SessionCauses : Key(cause) \in AlertKeys
  BY KeysAreKeys DEF Statuses, TerminalStates, WaitingStates
<1>3. CASE e.kind \in {"session.meta", "session.started"}
  <2>1. Honest(s, ProjectMetadata(s, e.kind))
    BY <1>1, RunningIsHonest DEF ProjectMetadata, StickyStates
  <2> QED BY <1>3, <2>1 DEF Project
<1>4. CASE e.kind = "turn.started"
  BY <1>2, <1>4, SetStatusAndAlertIsHonest DEF Project, ResolveWaiting, StickyStates
<1>5. CASE e.kind = "turn.completed"
  <2>1. Honest(s, ProjectTurnCompleted(s))
    BY <1>1, <1>2, SetStatusIsHonest DEF ProjectTurnCompleted, StickyStates
  <2> QED BY <1>5, <2>1 DEF Project
<1>6. CASE e.kind \in {"turn.failed", "input.required", "approval.required"}
  <2>1. /\ Honest(s, Upsert(SetStatus(s, "FAILED"), Key("turn-failed")))
        /\ Honest(s, Upsert(SetStatus(s, "WAITING_INPUT"), Key("input-required")))
        /\ Honest(s, Upsert(SetStatus(s, "WAITING_APPROVAL"), Key("approval-required")))
    BY <1>2, SetStatusAndAlertIsHonest DEF SessionCauses, StickyStates
  <2> QED BY <1>6, <2>1 DEF Project
<1>7. CASE e.kind = "message.user"
  <2> DEFINE m == IF s.status \in WaitingStates \cup {"BLOCKED", "IDLE", "DISCOVERED"}
                  THEN [s EXCEPT !.status = "RUNNING"] ELSE s
  <2>1. Honest(s, m) /\ m \in Session
    BY <1>1, RunningIsHonest DEF StickyStates, WaitingStates, Honest
  <2> HIDE DEF m
  <2>2. Honest(s, ResolveWaiting(m))
    BY <2>1, TransactionsAreHonest, HonestyIsTransitive DEF ResolveWaiting
  <2>3. Honest(s, ProjectUserMessage(s))
    BY <2>2 DEF m, ProjectUserMessage
  <2> QED BY <1>7, <2>3 DEF Project
<1>8. CASE e.kind \in {"command.started", "command.output"}
  <2>1. e.call \in Calls
    BY <1>8 DEF Events, PlainKinds
  <2> QED BY <1>8, <2>1, CommandIsHonest DEF Project
<1>9. CASE e.kind = "command.completed"
  <2>1. e.call \in Calls /\ e.failed \in BOOLEAN /\ e.test \in {"NONE", "PASSED", "FAILED"}
    BY <1>9 DEF Events, PlainKinds
  <2> QED BY <1>9, <2>1, CommandCompletedIsHonest DEF Project
<1>10. CASE e.kind = "tool.started"
  BY <1>2, <1>10, SetStatusIsHonest DEF Project, StickyStates
<1>11. CASE e.kind = "tool.completed"
  <2>1. e.call \in Calls /\ <<"tool-failed", e.call>> \in AlertKeys
    BY <1>11, KeysAreKeys DEF Events, PlainKinds, CallCauses
  <2>2. Honest(s, ToolCompleted(s, e.call, e.failed))
    BY <2>1, TransactionsAreHonest DEF ToolCompleted, Resolve
  <2> QED BY <1>11, <2>2 DEF Project
<1>12. CASE e.kind = "error"
  <2>1. Honest(s, Upsert(s, Key("runtime-error")))
    BY <1>2, TransactionsAreHonest DEF SessionCauses
  <2> QED BY <1>12, <2>1 DEF Project
<1>13. CASE e.kind \in {"message.agent", "file.changed", "plan.updated", "reasoning"}
  BY <1>1, <1>13 DEF Project
<1> QED
  <2>1. e.kind \in PlainKinds \cup {"command.started", "command.output", "tool.started",
                                    "tool.completed", "command.completed"}
    BY DEF Events
  <2> QED BY <1>3, <1>4, <1>5, <1>6, <1>7, <1>8, <1>9, <1>10, <1>11, <1>12, <1>13, <2>1
          DEF PlainKinds

\* session.completed claims the completion, but takes nothing back.
LEMMA CompletedIsSticky ==
    ASSUME NEW s \in Session, s.status \in StickyStates
    PROVE  LET r == ResolveOperational(SetStatus(s, "COMPLETED"))
           IN  r \in Session /\ r.status \in StickyStates
<1> DEFINE m == SetStatus(s, "COMPLETED")
<1>1. m \in Session /\ m.status \in StickyStates
  BY SetStatusFields DEF Statuses, TerminalStates
<1> HIDE DEF m
<1>2. /\ ResolveAll(m, OperationalKeys(m)) \in Session
      /\ ResolveAll(m, OperationalKeys(m)).status \in StickyStates
  BY <1>1, ResolveFields
<1>3. ResolveOperational(m) \in Session /\ ResolveOperational(m).status \in StickyStates
  BY <1>1, <1>2 DEF ResolveOperational
<1> QED BY <1>3 DEF m

\* ingest as a whole.
LEMMA IngestStatus ==
    ASSUME NEW s \in Session, NEW e \in Events, NEW lag \in 0..MaxAge
    PROVE  LET r == IngestNew(s, e, lag)
           IN  /\ s.status \in StickyStates => r.status \in StickyStates
               /\ e.kind # "session.completed" =>
                     (r.status \in StickyStates => r.status = s.status)
<1> DEFINE m == Seen(s, lag)
           p == Project(m, e, lag)
           r == RefreshAttention(p)
<1>1. Honest(s, m) /\ m \in Session /\ m.status = s.status
  BY DEF Seen, Session, Honest
<1> HIDE DEF m
<1>2. ASSUME e.kind # "session.completed"
      PROVE  Honest(s, p)
  BY <1>1, <1>2, ProjectIsHonest, HonestyIsTransitive
<1>3. ASSUME e.kind = "session.completed", s.status \in StickyStates
      PROVE  p \in Session /\ p.status \in StickyStates
  BY <1>1, <1>3, CompletedIsSticky DEF Project
<1> HIDE DEF p
<1>4. ASSUME p \in Session
      PROVE  r.status = p.status
  BY <1>4 DEF RefreshAttention, Session
<1>5. IngestNew(s, e, lag) = r
  BY DEF IngestNew, r, p, m
<1> HIDE DEF r
<1>6. /\ s.status \in StickyStates => r.status \in StickyStates
      /\ e.kind # "session.completed" =>
            (r.status \in StickyStates => r.status = s.status)
  BY <1>2, <1>3, <1>4 DEF Honest
<1> QED BY <1>5, <1>6

\* reconcile sets no status but BLOCKED, and only that of a running session.
LEMMA ReconciledIsHonest ==
    ASSUME NEW s \in Session, NEW x \in Reconciled(s)
    PROVE  Honest(s, x)
<1> DEFINE r == ReconcileSession(s)
           j == JudgeCommands(r)
<1>1. Key("stale") \in AlertKeys
  BY KeysAreKeys DEF SessionCauses
<1>2. Honest(s, s) /\ Honest(s, Upsert(s, Key("stale"))) /\ Honest(s, Resolve(s, Key("stale")))
  BY <1>1, TransactionsAreHonest DEF Honest, Resolve
<1>3. ASSUME s.status = "RUNNING"
      PROVE  Honest(s, [Upsert(s, Key("stale")) EXCEPT !.status = "BLOCKED"])
  <2> DEFINE m == Upsert(s, Key("stale"))
  <2>1. m \in Session
    BY <1>2 DEF Honest
  <2> HIDE DEF m
  <2>2. /\ [m EXCEPT !.status = "BLOCKED"] \in Session
        /\ [m EXCEPT !.status = "BLOCKED"].status = "BLOCKED"
    BY <2>1, StatusFields DEF Statuses
  <2>3. Honest(s, [m EXCEPT !.status = "BLOCKED"])
    BY <1>3, <2>2 DEF Honest, StickyStates
  <2> QED BY <2>3 DEF m
<1>4. Honest(s, r) /\ r \in Session
  BY <1>2, <1>3 DEF ReconcileSession, Honest
<1>5. x = r \/ \E a \in AlertKeys \cup {NoAlert} : x = [j EXCEPT !.attention = a]
  <2>1. \A last \in RunningCommands(r) : <<"command-hung", last>> \in AlertKeys
    BY KeysAreKeys DEF RunningCommands, CallCauses
  <2>2. Top(j) \in AlertKeys \cup {NoAlert}
    BY <1>4, JudgeFields, TopIsOpen
  <2>3. x = r \/ \E last \in RunningCommands(r) :
                    x = [j EXCEPT !.attention = IF r.quiet[last] >= Hung
                                                THEN <<"command-hung", last>> ELSE Top(j)]
    BY DEF Reconciled
  <2> QED BY <2>1, <2>2, <2>3
<1> HIDE DEF r
<1>6. j \in Session /\ j.status = r.status
  BY <1>4, JudgeFields
<1> HIDE DEF j
<1>7. ASSUME NEW a \in AlertKeys \cup {NoAlert}
      PROVE  Honest(r, [j EXCEPT !.attention = a])
  BY <1>6 DEF Session, Honest
<1> QED BY <1>4, <1>5, <1>7, HonestyIsTransitive

\* No other step changes a status, except those of the managed process.
LEMMA OtherStepsAreHonest ==
    ASSUME NEW s \in Session
    PROVE  /\ \A lag \in 0..MaxAge : Seen(s, lag).status = s.status
           /\ \A k \in AlertKeys : AcknowledgeAlert(s, k).status = s.status
           /\ ProcessStarted(s).status = "RUNNING"
           /\ ProcessExited(s, "cancelled").status = "CANCELLED"
           /\ \A how \in {"success", "failure"} :
                 ProcessExited(s, how).status = "COMPLETED" => s.status = "COMPLETED"
<1>1. \A lag \in 0..MaxAge : Seen(s, lag).status = s.status
  BY DEF Seen, Session
<1>2. \A k \in AlertKeys : AcknowledgeAlert(s, k).status = s.status
  BY DEF AcknowledgeAlert, Session
<1>3. ProcessStarted(s).status = "RUNNING"
  BY DEF ProcessStarted, Session
<1>4. ProcessExited(s, "cancelled").status = "CANCELLED"
  BY DEF ProcessExited, Session
<1>5. ProcessExited(s, "success").status = "COMPLETED" => s.status = "COMPLETED"
  <2>1. ProcessExited(s, "success").status = IF s.status = "COMPLETED" THEN "COMPLETED" ELSE "IDLE"
    BY DEF ProcessExited, Session
  <2> QED BY <2>1
<1>6. ProcessExited(s, "failure").status = "FAILED"
  <2> DEFINE m == [s EXCEPT !.status = "FAILED"]
  <2>1. m \in Session /\ m.status = "FAILED" /\ Key("process-exit") \in AlertKeys
    BY StatusFields, KeysAreKeys DEF Statuses, TerminalStates, SessionCauses
  <2> HIDE DEF m
  <2>2. Upsert(m, Key("process-exit")).status = "FAILED"
    BY <2>1, UpsertFields
  <2> QED BY <2>2 DEF ProcessExited, m
<1> QED BY <1>1, <1>2, <1>3, <1>4, <1>5, <1>6

\* A managed run begins on a row nothing has settled yet.
FreshIsOpen == (events = 0 /\ process = "none") => session.status \notin StickyStates

\* What one step may do to a settled status, and to one that is not.
LEMMA StepIsHonest ==
    ASSUME TypeOK, FreshIsOpen, Next
    PROVE  /\ session.status \in StickyStates =>
                 \/ session'.status \in StickyStates
                 \/ \E how \in {"success", "failure"} : ManagedProcessExited(how)
                 \/ Pause \/ Continue \/ \E lag \in 0..MaxAge : BindHere(lag)
           /\ session'.status = "COMPLETED" =>
                 \/ session.status = "COMPLETED"
                 \/ \E e \in Events, lag \in 0..MaxAge :
                       e.kind = "session.completed" /\ Ingest(e, lag)
           /\ FreshIsOpen'
<1>1. /\ session \in Session /\ events \in Nat
      /\ "RUNNING" \notin StickyStates
      /\ "CANCELLED" \in StickyStates /\ "COMPLETED" \in StickyStates
  BY MaxEventsAssumption DEF TypeOK, StickyStates
<1>2. ASSUME NEW e \in Events, NEW lag \in 0..MaxAge, Ingest(e, lag)
      PROVE  /\ session.status \in StickyStates => session'.status \in StickyStates
             /\ (session'.status = "COMPLETED" /\ session.status # "COMPLETED") =>
                   e.kind = "session.completed"
             /\ events' # 0
  <2>1. session' = IngestNew(session, e, lag) /\ events' = events + 1
    BY <1>2 DEF Ingest
  <2> QED BY <1>1, <2>1, IngestStatus
<1>3. ASSUME NEW lag \in 0..MaxAge, IngestDuplicate(lag)
      PROVE  session'.status = session.status /\ events' # 0
  BY <1>1, <1>3, OtherStepsAreHonest DEF IngestDuplicate
<1>4. CASE Reconcile
  <2>1. Honest(session, session') /\ UNCHANGED <<events, process>>
    BY <1>1, <1>4, ReconciledIsHonest DEF Reconcile
  <2>2. /\ session.status \in StickyStates => session'.status \in StickyStates
        /\ session'.status = "COMPLETED" => session.status = "COMPLETED"
        /\ session'.status \in StickyStates => session.status \in StickyStates
    BY <1>1, <2>1 DEF Honest
  <2> QED BY <2>1, <2>2 DEF FreshIsOpen
<1>5. ASSUME NEW k \in Acknowledged, Acknowledge(k)
      PROVE  session'.status = session.status /\ UNCHANGED <<events, process>>
  BY <1>1, <1>5, OtherStepsAreHonest, AcknowledgedAssumption DEF Acknowledge
<1>6. CASE ManagedProcessStarted
  <2>1. session'.status = "RUNNING" /\ session.status \notin StickyStates
    BY <1>1, <1>6, OtherStepsAreHonest DEF ManagedProcessStarted, FreshIsOpen
  <2> QED BY <1>1, <2>1 DEF FreshIsOpen, StickyStates
<1>7. ASSUME NEW how \in {"cancelled", "success", "failure"}, ManagedProcessExited(how)
      PROVE  /\ session'.status = "COMPLETED" => session.status = "COMPLETED"
             /\ session'.status \in StickyStates \/ how \in {"success", "failure"}
             /\ process' # "none"
  <2>1. session' = ProcessExited(session, how) /\ process' = "exited"
    BY <1>7 DEF ManagedProcessExited
  <2> QED BY <1>1, <2>1, OtherStepsAreHonest
<1>8. CASE Tick
  <2>1. session'.status = session.status /\ UNCHANGED <<events, process>>
    BY <1>1, <1>8 DEF Tick, Session
  <2> QED BY <2>1 DEF FreshIsOpen
<1>9. CASE \E e \in Events, lag \in 0..MaxAge : Ingest(e, lag)
  BY <1>2, <1>9 DEF FreshIsOpen
<1>10. CASE \E lag \in 0..MaxAge : IngestDuplicate(lag)
  BY <1>3, <1>10 DEF FreshIsOpen
<1>11. CASE \E k \in Acknowledged : Acknowledge(k)
  BY <1>5, <1>11 DEF FreshIsOpen
<1>12. CASE \E how \in {"cancelled", "success", "failure"} : ManagedProcessExited(how)
  BY <1>7, <1>12 DEF FreshIsOpen
<1>13. CASE Pause \/ Continue
  <2>1. /\ session'.status \in {"PAUSED", "RUNNING"} /\ process' = "live"
    BY <1>1, <1>13 DEF Pause, Continue, Session
  <2> QED BY <1>13, <2>1 DEF FreshIsOpen
<1>14. CASE \E lag \in 0..MaxAge : BindHere(lag)
  <2>1. session'.status = "RUNNING" /\ process' = "live"
    BY <1>1, <1>14 DEF BindHere, Session
  <2> QED BY <1>14, <2>1 DEF FreshIsOpen
<1>15. CASE BindAway
  <2>1. session'.status = "CANCELLED" /\ process' = "exited"
    BY <1>1, <1>15 DEF BindAway, Session
  <2> QED BY <1>1, <2>1 DEF FreshIsOpen
<1> QED BY <1>4, <1>6, <1>8, <1>9, <1>10, <1>11, <1>12, <1>13, <1>14, <1>15 DEF Next

\* Nothing settles a session before its first event but its process.
LEMMA FreshIsOpenHolds == Spec => []FreshIsOpen
<1>1. Init => FreshIsOpen
  BY DEF Init, NewSession, FreshIsOpen, StickyStates
<1>2. TypeOK /\ FreshIsOpen /\ [Next]_vars => FreshIsOpen'
  <2>1. CASE UNCHANGED vars
    BY <2>1 DEF vars, FreshIsOpen
  <2> QED BY <2>1, StepIsHonest
<1> QED BY <1>1, <1>2, TypeCorrect, PTL DEF Spec

\* CompletionNeedsEvidence: in no step but the ingestion of a completion event
\* does a session become COMPLETED; a turn's end, an exit with code 0, passing
\* tests and silence never complete a task.
THEOREM CompletionIsEvidence == Spec => CompletionNeedsEvidence
<1>1. TypeOK /\ FreshIsOpen /\ [Next]_vars =>
         [(session.status # "COMPLETED" /\ session'.status = "COMPLETED") =>
            \E e \in Events, lag \in 0..MaxAge :
               e.kind = "session.completed" /\ Ingest(e, lag)]_vars
  BY StepIsHonest
<1> QED BY <1>1, TypeCorrect, FreshIsOpenHolds, PTL DEF Spec, CompletionNeedsEvidence

\* EvidenceKeepsCompletion: no event, poll or acknowledgement takes a session
\* out of COMPLETED or CANCELLED, only what happens to its process does: its
\* exit, a pause or continue, or its binding to the session.
THEOREM CompletionIsKept == Spec => EvidenceKeepsCompletion
<1>1. TypeOK /\ FreshIsOpen /\ [Next]_vars =>
         [(session.status \in StickyStates /\ session'.status \notin StickyStates) =>
            \/ \E how \in {"success", "failure"} : ManagedProcessExited(how)
            \/ Pause \/ Continue \/ \E lag \in 0..MaxAge : BindHere(lag)]_vars
  BY StepIsHonest
<1> QED BY <1>1, TypeCorrect, FreshIsOpenHolds, PTL DEF Spec, EvidenceKeepsCompletion

=============================================================================
