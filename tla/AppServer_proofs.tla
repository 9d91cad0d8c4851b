-------------------------- MODULE AppServer_proofs --------------------------
(***************************************************************************)
(* Proofs about the app servers of the control center, for any hosts and any *)
(* operators: what runs on a host, and has not been sent a stop, is what its  *)
(* row names.                                                              *)
(*                                                                         *)
(* The invariant follows a request through its steps: which app servers may  *)
(* run while the command is on its way, between the test and the launch, and *)
(* when the answer is not recorded yet.                                     *)
(***************************************************************************)
EXTENDS ControlCenter, TLAPS

HostRows == [row : {"absent", "present", "deleted"}, enabled : BOOLEAN,
             status : {"unknown", "online", "offline"}, pid : Nat]
Requests == {"start", "stop", "delete", "test"}
CallStates ==
    {Unused} \cup [at : Requests \cup {"launch"}, host : Hosts]
        \cup [at : {"reply"}, to : Requests, host : Hosts, pid : Nat]

ServerTypes ==
    /\ host \in [Hosts -> HostRows]
    /\ \A h \in Hosts : ~Present(h) => host[h].pid = 0
    /\ call \in [Operators -> CallStates]
    /\ pidfile \in [Hosts -> Nat] /\ launched \in [Hosts -> Nat]
    /\ alive \in [Hosts -> SUBSET (Nat \ {0})] /\ told \in [Hosts -> SUBSET (Nat \ {0})]
    /\ disturbed \subseteq Hosts

On(o, h) == call[o] # Unused /\ call[o].host = h

\* What runs on a host, and has not been sent a stop, while a request for it is
\* under way.
Answered(o, h) ==
    /\ call[o].at \in Requests => Kept(h) \subseteq {host[h].pid}
    /\ call[o].at = "launch" => Kept(h) = {}
    /\ call[o].at = "reply" =>
          /\ call[o].to = "start" => Kept(h) \subseteq {call[o].pid}
          /\ call[o].to = "test" => Kept(h) \subseteq {host[h].pid} /\ call[o].pid = 0
          /\ call[o].to \in {"stop", "delete"} => Kept(h) = {}

Settled(h) ==
    /\ Kept(h) \subseteq {pidfile[h]}
    /\ \A o, p \in Operators : On(o, h) /\ On(p, h) => o = p
    /\ ~CallOn(h) => Kept(h) \subseteq {host[h].pid}
    /\ \A o \in Operators : On(o, h) => Present(h) /\ Answered(o, h)

ServerInv == ServerTypes /\ \A h \in Hosts : h \in disturbed \/ Settled(h)

----------------------------------------------------------------------------
LEMMA ServerInitInv ==
    Init => ServerInv
<1> SUFFICES ASSUME Init PROVE ServerInv
  OBVIOUS
<1>1. NoHost \in HostRows /\ NewHost \in HostRows /\ NoHost.pid = 0 /\ NewHost.pid = 0
  BY DEF NoHost, NewHost, HostRows
<1>2. ServerTypes
  BY <1>1 DEF Init, ServerTypes, CallStates
<1>3. ASSUME NEW h \in Hosts
      PROVE  Settled(h)
  BY <1>1, <1>3 DEF Init, Settled, On, CallOn, Answered, Kept
<1> QED
  BY <1>2, <1>3 DEF ServerInv

\* What a step may do to the hosts' rows without touching app servers: rows keep
\* their pid, and stay.
RowsKept ==
    /\ host' \in [Hosts -> HostRows]
    /\ \A h \in Hosts : host'[h].pid = host[h].pid
    /\ \A h \in Hosts : Present(h) => Present(h)'

LEMMA QuietStep ==
    ASSUME ServerInv, RowsKept, UNCHANGED <<serverVars, requestVars>>
    PROVE  ServerInv'
<1>1. ServerTypes'
  BY DEF ServerInv, ServerTypes, RowsKept, serverVars, requestVars, Present
<1>2. ASSUME NEW h \in Hosts, Settled(h)
      PROVE  Settled(h)'
  BY <1>2 DEF RowsKept, serverVars, requestVars, Settled, On, CallOn, Answered, Kept
<1> QED
  BY <1>1, <1>2 DEF ServerInv, requestVars

\* set_host_health records a pid it is given, keeps the row's otherwise, and
\* touches no other row.
LEMMA HealthRecords ==
    ASSUME ServerTypes, NEW h \in Hosts, NEW status \in {"unknown", "online", "offline"},
           NEW pid \in Nat, host' = Health(h, status, pid)
    PROVE  /\ host' \in [Hosts -> HostRows]
           /\ \A g \in Hosts : Present(g) <=> Present(g)'
           /\ \A g \in Hosts : g # h => host'[g] = host[g]
           /\ host'[h].pid = IF Present(h) /\ pid # 0 THEN pid ELSE host[h].pid
<1>1. CASE Present(h)
  <2> DEFINE row == [[host[h] EXCEPT !.status = status]
                        EXCEPT !.pid = IF pid = 0 THEN host[h].pid ELSE pid]
  <2>1. /\ row \in HostRows /\ row.row = host[h].row
        /\ row.pid = IF pid = 0 THEN host[h].pid ELSE pid
    BY DEF ServerTypes, HostRows
  <2>2. host' = [host EXCEPT ![h] = row]
    BY <1>1 DEF Health, ServerTypes
  <2>3. host'[h] = row /\ \A g \in Hosts : g # h => host'[g] = host[g]
    BY <2>2 DEF ServerTypes
  <2>4. host' \in [Hosts -> HostRows]
    BY <2>1, <2>2 DEF ServerTypes
  <2> QED
    BY <1>1, <2>1, <2>3, <2>4 DEF Present
<1>2. CASE ~Present(h)
  BY <1>2 DEF Health, ServerTypes, Present
<1> QED
  BY <1>1, <1>2

LEMMA HealthKeepsRows ==
    ASSUME ServerInv, NEW h \in Hosts, NEW status \in {"unknown", "online", "offline"},
           host' = Health(h, status, 0)
    PROVE  RowsKept
<1>1. ServerTypes
  BY DEF ServerInv
<1>2. /\ host' \in [Hosts -> HostRows]
      /\ \A g \in Hosts : Present(g) <=> Present(g)'
      /\ \A g \in Hosts : g # h => host'[g] = host[g]
      /\ host'[h].pid = host[h].pid
  BY <1>1, HealthRecords
<1> QED
  BY <1>2 DEF RowsKept

\* Syncs and polls do not touch app servers.
LEMMA SyncKeepsRows ==
    ASSUME ServerInv, NEW t \in Tasks, NEW h \in Hosts, SyncStep(t, h)
    PROVE  RowsKept
<1>u. host' = host => RowsKept
  BY DEF ServerInv, ServerTypes, RowsKept, Present
<1>1. ASSUME NEW news \in BOOLEAN, Offline(t, h, news)
      PROVE  RowsKept
  BY <1>1, HealthKeepsRows DEF Offline
<1>2. Reached(t, h) => RowsKept
  BY HealthKeepsRows DEF Reached
<1>3. CASE Listed(t, h)
  BY <1>u, <1>2, <1>3 DEF Listed
<1>4. CASE Fetched(t, h)
  <2>1. PICK taken \in {Taken(h, sync[t][h].from, sync[t][h].amount)} :
            IF taken.raised
            THEN Offline(t, h, taken.new \cup taken.stuck # {})
            ELSE Reached(t, h)
    BY <1>4 DEF Fetched
  <2> QED
    BY <1>1, <1>2, <2>1
<1>5. CASE Probed(t, h)
  BY <1>u, <1>5 DEF Probed
<1>6. CASE SyncFails(t, h)
  BY <1>1, <1>6 DEF SyncFails
<1> QED
  BY <1>3, <1>4, <1>5, <1>6 DEF SyncStep

----------------------------------------------------------------------------
(* Requests.                                                               *)

\* A request is taken up: a second one for the host marks it.
LEMMA CallKeeps ==
    ASSUME ServerInv, NEW o \in Operators, NEW h \in Hosts, NEW at \in Requests, Call(o, h, at)
    PROVE  ServerInv'
<1>1. UNCHANGED serverVars /\ Present(h) /\ call[o] = Unused
  BY DEF Call
<1>2. disturbed' = IF CallOn(h) THEN disturbed \cup {h} ELSE disturbed
  BY DEF Call
<1>3. CASE at = "delete" /\ host[h].pid = 0
  <2>1. /\ host' = [host EXCEPT ![h] = [NoHost EXCEPT !.row = "deleted"]]
        /\ UNCHANGED call
    BY <1>3 DEF Call, DropHost
  <2>2. [NoHost EXCEPT !.row = "deleted"] \in HostRows
    BY DEF NoHost, HostRows
  <2>3. host'[h].pid = 0
    BY <2>1, <1>1 DEF NoHost, ServerInv, ServerTypes
  <2>4. ServerTypes'
    BY <1>1, <1>2, <2>1, <2>2, <2>3 DEF ServerInv, ServerTypes, serverVars, Present
  <2>5. ASSUME NEW g \in Hosts, g \notin disturbed', Settled(g)
        PROVE  Settled(g)'
    <3>1. CASE g = h
      BY <1>1, <1>2, <1>3, <2>1, <2>3, <2>5, <3>1
         DEF Settled, On, CallOn, Answered, Kept, serverVars
    <3>2. CASE g # h
      BY <1>1, <2>1, <2>5, <3>2
         DEF Settled, On, CallOn, Answered, Kept, serverVars, Present, ServerInv, ServerTypes
    <3> QED
      BY <3>1, <3>2
  <2> QED
    BY <1>2, <2>4, <2>5 DEF ServerInv
<1>4. CASE ~(at = "delete" /\ host[h].pid = 0)
  <2>1. call' = [call EXCEPT ![o] = [at |-> at, host |-> h]] /\ UNCHANGED host
    BY <1>4 DEF Call, CallAt
  <2>2. ServerTypes'
    BY <1>1, <1>2, <2>1 DEF ServerInv, ServerTypes, serverVars, Present, CallStates
  <2>3. /\ call'[o] # Unused /\ call'[o].host = h /\ call'[o].at = at
        /\ \A p \in Operators : p # o => call'[p] = call[p]
    BY <2>1 DEF Unused, ServerInv, ServerTypes, Requests
  <2>4. ASSUME NEW g \in Hosts, g \notin disturbed', Settled(g)
        PROVE  Settled(g)'
    <3>1. CASE g = h
      <4>1. \A p \in Operators : ~On(p, h)
        BY <1>2, <2>4, <3>1 DEF CallOn, On
      <4> QED
        BY <1>1, <2>1, <2>3, <2>4, <3>1, <4>1
           DEF Settled, On, CallOn, Answered, Kept, serverVars, Requests, Present
    <3>2. CASE g # h
      BY <1>1, <2>1, <2>3, <2>4, <3>2
         DEF Settled, On, CallOn, Answered, Kept, serverVars, Present
    <3> QED
      BY <3>1, <3>2
  <2> QED
    BY <1>2, <2>2, <2>4 DEF ServerInv
<1> QED
  BY <1>3, <1>4

\* The steps of a request change where it is, the app servers of its host, and
\* its host's row; what is left to show is that the host stays settled.
CallMoves(o, h) ==
    /\ h = call[o].host
    /\ call'[o] = Unused \/ call'[o].host = h
    /\ \A p \in Operators : p # o => call'[p] = call[p]
    /\ \A g \in Hosts : g # h => /\ alive'[g] = alive[g] /\ told'[g] = told[g] /\ pidfile'[g] = pidfile[g]
                                 /\ host'[g] = host[g]
    /\ disturbed \subseteq disturbed'

LEMMA CallMovesOthers ==
    ASSUME ServerInv, NEW o \in Operators, NEW h \in Hosts, On(o, h), CallMoves(o, h),
           ServerTypes', h \in disturbed' \/ (Settled(h) => Settled(h)')
    PROVE  ServerInv'
<1>1. ASSUME NEW g \in Hosts, g # h, Settled(g)
      PROVE  Settled(g)'
  BY <1>1 DEF CallMoves, Settled, On, CallOn, Answered, Kept, Present
<1> QED
  BY <1>1 DEF ServerInv, CallMoves

\* A host stays settled if what runs there is what the request, or after the
\* request the row, says; nobody else is on it.
LEMMA SettledAfter ==
    ASSUME NEW o \in Operators, NEW h \in Hosts, On(o, h), CallMoves(o, h), Settled(h),
           Kept(h)' \subseteq {pidfile'[h]},
           \/ call'[o] = Unused /\ Kept(h)' \subseteq {host'[h].pid}
           \/ call'[o] # Unused /\ Present(h)' /\ Answered(o, h)'
    PROVE  Settled(h)'
<1>1. \A p \in Operators : p # o => ~On(p, h) /\ ~On(p, h)'
  BY DEF Settled, On, CallMoves
<1>2. On(o, h)' <=> call'[o] # Unused
  BY DEF On, CallMoves
<1>3. \A p, q \in Operators : On(p, h)' /\ On(q, h)' => p = q
  BY <1>1
<1>4. CallOn(h)' <=> call'[o] # Unused
  BY <1>1, <1>2 DEF CallOn, On
<1> QED
  BY <1>1, <1>2, <1>3, <1>4 DEF Settled

\* What the request says of the host it is on.
LEMMA SettledNow ==
    ASSUME NEW o \in Operators, NEW h \in Hosts, On(o, h), Settled(h)
    PROVE  Present(h) /\ Answered(o, h) /\ Kept(h) \subseteq {pidfile[h]}
<1> QED
  BY DEF Settled

\* A request that is under way has a host, and the state it is in a shape.
LEMMA CallShape ==
    ASSUME ServerTypes, NEW o \in Operators, call[o] # Unused
    PROVE  /\ call[o].host \in Hosts /\ On(o, call[o].host)
           /\ call[o].at \in Requests \cup {"launch", "reply"}
           /\ call[o].at = "reply" => call[o].to \in Requests /\ call[o].pid \in Nat
<1> QED
  BY DEF ServerTypes, CallStates, On, Requests

\* The command reaches the host.
LEMMA CommandKeeps ==
    ASSUME ServerInv, NEW o \in Operators, Command(o)
    PROVE  ServerInv'
<1> DEFINE at == call[o].at
<1>1. at \in Requests /\ call[o] # Unused
  BY DEF Command, Requests, Unused
<1>h. PICK h \in Hosts : h = call[o].host /\ On(o, h)
  BY <1>1, CallShape DEF ServerInv
<1>2. ServerTypes /\ h = call[o].host /\ On(o, h)
  BY <1>h DEF ServerInv
<1>3. UNCHANGED <<host, launched, disturbed>>
  BY DEF Command
<1>4. CASE at \in {"stop", "delete"}
  <2>1. /\ call' = [call EXCEPT ![o] = [at |-> "reply", to |-> at, host |-> h, pid |-> 0]]
        /\ told' = [told EXCEPT ![h] = @ \cup ({pidfile[h]} \cap alive[h])] /\ alive' = alive
        /\ pidfile' = [pidfile EXCEPT ![h] = 0]
    BY <1>2, <1>4 DEF Command, Reply, CallAt
  <2>2. ServerTypes'
    BY <1>1, <1>2, <1>3, <2>1 DEF ServerTypes, CallStates, Present
  <2>3. /\ call'[o].to = at /\ call'[o].at = "reply" /\ call'[o].host = h
        /\ Kept(h)' = Kept(h) \ {pidfile[h]}
        /\ call'[o] # Unused
    BY <1>2, <2>1 DEF ServerTypes, Unused, Kept
  <2>4. CallMoves(o, h)
    BY <1>2, <1>3, <2>1, <2>3 DEF CallMoves, ServerTypes
  <2>5. ASSUME Settled(h)
        PROVE  Settled(h)'
    <3>1. Present(h)' /\ Answered(o, h) /\ Kept(h) \subseteq {pidfile[h]}
      BY <1>2, <1>3, <2>5, SettledNow DEF Present
    <3>2. Answered(o, h)' /\ Kept(h)' \subseteq {pidfile'[h]}
      BY <1>1, <1>2, <1>3, <1>4, <2>1, <2>3, <3>1 DEF Answered, Kept, Requests, ServerTypes
    <3> QED
      BY <1>2, <2>3, <2>4, <2>5, <3>1, <3>2, SettledAfter
  <2> QED
    BY <1>2, <2>2, <2>4, <2>5, CallMovesOthers
<1>5. CASE at = "test"
  <2>1. /\ call' = [call EXCEPT ![o] = [at |-> "reply", to |-> at, host |-> h, pid |-> 0]]
        /\ UNCHANGED <<alive, told, pidfile>>
    BY <1>2, <1>5 DEF Command, Reply, CallAt
  <2>2. ServerTypes'
    BY <1>1, <1>2, <1>3, <2>1 DEF ServerTypes, CallStates, Present
  <2>3. /\ call'[o].to = at /\ call'[o].at = "reply" /\ call'[o].host = h
        /\ call'[o].pid = 0 /\ call'[o] # Unused
    BY <1>2, <2>1 DEF ServerTypes, Unused
  <2>4. CallMoves(o, h)
    BY <1>2, <1>3, <2>1, <2>3 DEF CallMoves, ServerTypes
  <2>5. ASSUME Settled(h)
        PROVE  Settled(h)'
    <3>1. Present(h)' /\ Answered(o, h) /\ Kept(h) \subseteq {pidfile[h]}
      BY <1>2, <1>3, <2>5, SettledNow DEF Present
    <3>2. Answered(o, h)' /\ Kept(h)' \subseteq {pidfile'[h]}
      BY <1>1, <1>2, <1>3, <1>5, <2>1, <2>3, <3>1 DEF Answered, Kept, Requests, ServerTypes
    <3> QED
      BY <1>2, <2>3, <2>4, <2>5, <3>1, <3>2, SettledAfter
  <2> QED
    BY <1>2, <2>2, <2>4, <2>5, CallMovesOthers
<1>6. CASE at = "start" /\ pidfile[h] \in alive[h]
  <2>1. /\ call' = [call EXCEPT ![o] = [at |-> "reply", to |-> at, host |-> h,
                                        pid |-> pidfile[h]]]
        /\ UNCHANGED <<alive, told, pidfile>>
    BY <1>2, <1>6 DEF Command, StartTested, Reply, CallAt
  <2>2. ServerTypes'
    BY <1>1, <1>2, <1>3, <2>1 DEF ServerTypes, CallStates, Present
  <2>3. /\ call'[o].to = at /\ call'[o].at = "reply" /\ call'[o].host = h
        /\ call'[o].pid = pidfile[h] /\ call'[o] # Unused
    BY <1>2, <2>1 DEF ServerTypes, Unused
  <2>4. CallMoves(o, h)
    BY <1>2, <1>3, <2>1, <2>3 DEF CallMoves, ServerTypes
  <2>5. ASSUME Settled(h)
        PROVE  Settled(h)'
    <3>1. Present(h)' /\ Answered(o, h) /\ Kept(h) \subseteq {pidfile[h]}
      BY <1>2, <1>3, <2>5, SettledNow DEF Present
    <3>2. Answered(o, h)' /\ Kept(h)' \subseteq {pidfile'[h]}
      BY <1>1, <1>2, <1>3, <1>6, <2>1, <2>3, <3>1 DEF Answered, Kept, Requests, ServerTypes
    <3> QED
      BY <1>2, <2>3, <2>4, <2>5, <3>1, <3>2, SettledAfter
  <2> QED
    BY <1>2, <2>2, <2>4, <2>5, CallMovesOthers
<1>7. CASE at = "start" /\ pidfile[h] \notin alive[h]
  <2>1. /\ call' = [call EXCEPT ![o] = [at |-> "launch", host |-> h]]
        /\ UNCHANGED <<alive, told, pidfile>>
    BY <1>2, <1>7 DEF Command, StartTested, CallAt
  <2>2. ServerTypes'
    BY <1>1, <1>2, <1>3, <2>1 DEF ServerTypes, CallStates, Present
  <2>3. call'[o].at = "launch" /\ call'[o].host = h /\ call'[o] # Unused
    BY <1>2, <2>1 DEF ServerTypes, Unused
  <2>4. CallMoves(o, h)
    BY <1>2, <1>3, <2>1, <2>3 DEF CallMoves, ServerTypes
  <2>5. ASSUME Settled(h)
        PROVE  Settled(h)'
    <3>1. Present(h)' /\ Answered(o, h) /\ Kept(h) \subseteq {pidfile[h]}
      BY <1>2, <1>3, <2>5, SettledNow DEF Present
    <3>2. Answered(o, h)' /\ Kept(h)' \subseteq {pidfile'[h]}
      BY <1>1, <1>2, <1>3, <1>7, <2>1, <2>3, <3>1 DEF Answered, Kept, Requests, ServerTypes
    <3> QED
      BY <1>2, <2>3, <2>4, <2>5, <3>1, <3>2, SettledAfter
  <2> QED
    BY <1>2, <2>2, <2>4, <2>5, CallMovesOthers
<1> QED
  BY <1>1, <1>4, <1>5, <1>6, <1>7 DEF Requests

\* The start command starts a server where, as it has found, none runs.
LEMMA LaunchKeeps ==
    ASSUME ServerInv, NEW o \in Operators, Launch(o)
    PROVE  ServerInv'
<1>1. call[o].at = "launch" /\ call[o] # Unused
  BY DEF Launch, Unused
<1>h. PICK h \in Hosts : h = call[o].host /\ On(o, h)
  BY <1>1, CallShape DEF ServerInv
<1> DEFINE pid == launched[h] + 1
<1>2. ServerTypes /\ h = call[o].host /\ On(o, h) /\ pid \in Nat \ {0}
  BY <1>h DEF ServerInv, ServerTypes
<1>3. /\ UNCHANGED <<host, told, disturbed>>
      /\ launched' = [launched EXCEPT ![h] = pid]
      /\ alive' = [alive EXCEPT ![h] = @ \cup {pid}]
      /\ pidfile' = [pidfile EXCEPT ![h] = pid]
      /\ call' = [call EXCEPT ![o] = [at |-> "reply", to |-> "start", host |-> h, pid |-> pid]]
  BY <1>2 DEF Launch, CallAt
<1>4. ServerTypes'
  BY <1>2, <1>3 DEF ServerTypes, CallStates, Requests, Present
<1>5. /\ call'[o].to = "start" /\ call'[o].at = "reply" /\ call'[o].host = h
      /\ call'[o].pid = pid /\ call'[o] # Unused
      /\ Kept(h)' \subseteq Kept(h) \cup {pid} /\ pidfile'[h] = pid
  BY <1>2, <1>3 DEF ServerTypes, Unused, Kept
<1>6. CallMoves(o, h)
  BY <1>2, <1>3, <1>5 DEF CallMoves, ServerTypes
<1>7. ASSUME Settled(h)
      PROVE  Settled(h)'
  <2>1. Present(h)' /\ Answered(o, h) /\ Kept(h) \subseteq {pidfile[h]}
    BY <1>2, <1>3, <1>7, SettledNow DEF Present
  <2>2. Answered(o, h)' /\ Kept(h)' \subseteq {pidfile'[h]}
    BY <1>1, <1>2, <1>3, <1>5, <2>1 DEF Answered, Kept, Requests
  <2> QED
    BY <1>2, <1>5, <1>6, <1>7, <2>1, <2>2, SettledAfter
<1> QED
  BY <1>2, <1>4, <1>6, <1>7, CallMovesOthers

\* The row that takes a deleted host's place, and the one of a host whose app
\* server has been stopped.
LEMMA RowsAfter ==
    ASSUME ServerTypes, NEW h \in Hosts
    PROVE  /\ DropHost(h) =>
                 /\ host' \in [Hosts -> HostRows] /\ host'[h].pid = 0 /\ ~Present(h)'
                 /\ \A g \in Hosts : g # h => host'[g] = host[g]
           /\ host' = [host EXCEPT ![h].pid = 0] =>
                 /\ host' \in [Hosts -> HostRows] /\ host'[h].pid = 0
                 /\ \A g \in Hosts : g # h => host'[g] = host[g]
                 /\ Present(h)' <=> Present(h)
<1> DEFINE dropped == [NoHost EXCEPT !.row = "deleted"]
           stopped == [host[h] EXCEPT !.pid = 0]
<1>1. dropped \in HostRows /\ dropped.pid = 0 /\ dropped.row = "deleted"
  BY DEF NoHost, HostRows
<1>2. stopped \in HostRows /\ stopped.pid = 0 /\ stopped.row = host[h].row
  BY DEF ServerTypes, HostRows
<1>3. ASSUME DropHost(h)
      PROVE  /\ host' \in [Hosts -> HostRows] /\ host'[h].pid = 0 /\ ~Present(h)'
             /\ \A g \in Hosts : g # h => host'[g] = host[g]
  <2>1. host' = [host EXCEPT ![h] = dropped]
    BY <1>3 DEF DropHost
  <2>2. host'[h] = dropped
    BY <2>1 DEF ServerTypes
  <2> QED
    BY <1>1, <2>1, <2>2 DEF ServerTypes, Present
<1>4. ASSUME host' = [host EXCEPT ![h].pid = 0]
      PROVE  /\ host' \in [Hosts -> HostRows] /\ host'[h].pid = 0
             /\ \A g \in Hosts : g # h => host'[g] = host[g]
             /\ Present(h)' <=> Present(h)
  <2>1. host' = [host EXCEPT ![h] = stopped]
    BY <1>4
  <2>2. host'[h] = stopped
    BY <2>1 DEF ServerTypes
  <2> QED
    BY <1>2, <2>1, <2>2 DEF ServerTypes, Present
<1> QED
  BY <1>3, <1>4

\* The command has returned: the row names what runs, or nothing runs.
LEMMA ReturnKeeps ==
    ASSUME ServerInv, NEW o \in Operators, Return(o)
    PROVE  ServerInv'
<1>1. call[o].at = "reply" /\ call[o] # Unused
  BY DEF Return, Unused
<1>h. PICK h \in Hosts : h = call[o].host /\ On(o, h)
  BY <1>1, CallShape DEF ServerInv
<1>2. /\ ServerTypes /\ h = call[o].host /\ On(o, h)
      /\ call[o].to \in Requests /\ call[o].pid \in Nat
  BY <1>1, <1>h, CallShape DEF ServerInv
<1>3. UNCHANGED <<serverVars, disturbed>> /\ call' = [call EXCEPT ![o] = Unused]
  BY DEF Return, CallAt
<1>4. \/ call[o].to \in {"start", "test"} /\ host' = Health(h, "online", call[o].pid)
      \/ call[o].to = "stop" /\ host' = IF Present(h) THEN [host EXCEPT ![h].pid = 0] ELSE host
      \/ call[o].to = "delete" /\ IF Present(h) THEN DropHost(h) ELSE UNCHANGED host
  BY <1>2 DEF Return
<1>5. /\ host' \in [Hosts -> HostRows]
      /\ \A g \in Hosts : g # h => host'[g] = host[g]
      /\ ~Present(h)' => host'[h].pid = 0
      /\ call[o].to \in {"start", "test"} =>
            host'[h].pid = IF Present(h) /\ call[o].pid # 0 THEN call[o].pid ELSE host[h].pid
  <2>1. CASE call[o].to \in {"start", "test"}
    <3>1. host' = Health(h, "online", call[o].pid)
      BY <1>4, <2>1
    <3>2. /\ host' \in [Hosts -> HostRows]
          /\ \A g \in Hosts : Present(g) <=> Present(g)'
          /\ \A g \in Hosts : g # h => host'[g] = host[g]
          /\ host'[h].pid = IF Present(h) /\ call[o].pid # 0 THEN call[o].pid ELSE host[h].pid
      BY <1>2, <3>1, HealthRecords
    <3> QED
      BY <1>2, <3>2 DEF ServerTypes
  <2>2. CASE call[o].to = "stop"
    <3>1. CASE Present(h)
      BY <1>2, <1>4, <2>2, <3>1, RowsAfter
    <3>2. CASE ~Present(h)
      BY <1>2, <1>4, <2>2, <3>2 DEF ServerTypes, Present
    <3> QED
      BY <3>1, <3>2
  <2>3. CASE call[o].to = "delete"
    <3>1. CASE Present(h)
      BY <1>2, <1>4, <2>3, <3>1, RowsAfter
    <3>2. CASE ~Present(h)
      BY <1>2, <1>4, <2>3, <3>2 DEF ServerTypes, Present
    <3> QED
      BY <3>1, <3>2
  <2> QED
    BY <1>2, <2>1, <2>2, <2>3 DEF Requests
<1>6. ServerTypes'
  BY <1>2, <1>3, <1>5 DEF ServerTypes, CallStates, serverVars, Present
<1>7. CallMoves(o, h) /\ call'[o] = Unused
  BY <1>2, <1>3, <1>5 DEF CallMoves, ServerTypes, serverVars
<1>8. ASSUME Settled(h)
      PROVE  Settled(h)'
  <2>1. Present(h) /\ Answered(o, h) /\ Kept(h) \subseteq {pidfile[h]}
    BY <1>2, <1>8, SettledNow
  <2>2. UNCHANGED <<alive, told, pidfile>> /\ Kept(h) \subseteq Nat \ {0} /\ Kept(h)' = Kept(h)
    BY <1>2, <1>3 DEF serverVars, ServerTypes, Kept
  <2>3. Kept(h) \subseteq {host'[h].pid}
    BY <1>1, <1>2, <1>5, <2>1, <2>2 DEF Answered, Kept, Requests
  <2> QED
    BY <1>2, <1>7, <1>8, <2>1, <2>2, <2>3, SettledAfter
<1> QED
  BY <1>2, <1>6, <1>7, <1>8, CallMovesOthers

\* A request that fails leaves its host marked.
LEMMA CallFailsKeeps ==
    ASSUME ServerInv, NEW o \in Operators, CallFails(o)
    PROVE  ServerInv'
<1>1. call[o] # Unused
  BY DEF CallFails
<1>h. PICK h \in Hosts : h = call[o].host /\ On(o, h)
  BY <1>1, CallShape DEF ServerInv
<1>2. ServerTypes /\ h = call[o].host /\ On(o, h)
  BY <1>h DEF ServerInv
<1>3. /\ UNCHANGED serverVars /\ disturbed' = disturbed \cup {h}
      /\ call' = [call EXCEPT ![o] = Unused]
      /\ DropHost(h) \/ UNCHANGED host
  BY <1>2 DEF CallFails, CallAt
<1>4. /\ host' \in [Hosts -> HostRows] /\ (~Present(h)' => host'[h].pid = 0)
      /\ \A g \in Hosts : g # h => host'[g] = host[g]
  BY <1>2, <1>3, RowsAfter DEF ServerTypes, Present
<1>5. ServerTypes'
  BY <1>2, <1>3, <1>4 DEF ServerTypes, CallStates, serverVars, Present
<1>6. CallMoves(o, h)
  BY <1>2, <1>3, <1>4 DEF CallMoves, ServerTypes, serverVars
<1> QED
  BY <1>2, <1>3, <1>5, <1>6, CallMovesOthers

\* An app server ends by itself.
LEMMA ServerEndsKeeps ==
    ASSUME ServerInv, NEW h \in Hosts, ServerEnds(h)
    PROVE  ServerInv'
<1>1. /\ UNCHANGED <<host, pidfile, launched, requestVars>>
      /\ \E pid \in alive[h] : /\ alive' = [alive EXCEPT ![h] = @ \ {pid}]
                               /\ told' = [told EXCEPT ![h] = @ \ {pid}]
  BY DEF ServerEnds
<1>2. ServerTypes' /\ \A g \in Hosts : Kept(g)' \subseteq Kept(g)
  BY <1>1 DEF ServerInv, ServerTypes, requestVars, Present, Kept
<1>3. ASSUME NEW g \in Hosts, Settled(g)
      PROVE  Settled(g)'
  <2>1. ASSUME NEW o \in Operators, On(o, g)
        PROVE  Present(g)' /\ Answered(o, g)'
    BY <1>1, <1>2, <1>3, <2>1 DEF Settled, Answered, Kept, requestVars, Present
  <2> QED
    BY <1>1, <1>2, <1>3, <2>1 DEF Settled, On, CallOn, requestVars
<1> QED
  BY <1>1, <1>2, <1>3 DEF ServerInv, requestVars

\* A crash leaves every host with a request under way marked.
LEMMA CrashKeeps ==
    ASSUME ServerInv, ServerCrash
    PROVE  ServerInv'
<1>1. /\ UNCHANGED <<host, serverVars>>
      /\ disturbed' = disturbed \cup {h \in Hosts : CallOn(h)}
      /\ call' = [o \in Operators |-> Unused]
  BY DEF ServerCrash, Crash
<1>2. ServerTypes'
  BY <1>1 DEF ServerInv, ServerTypes, CallStates, serverVars, Present
<1>3. ASSUME NEW h \in Hosts, ~CallOn(h), Settled(h)
      PROVE  Settled(h)'
  BY <1>1, <1>3 DEF Settled, On, CallOn, Kept, serverVars
<1> QED
  BY <1>1, <1>2, <1>3 DEF ServerInv

----------------------------------------------------------------------------
\* What touches neither app servers nor the pids of rows: pages, polls, the
\* world, and the requests that run no command.
LEMMA AddKeepsRows ==
    ASSUME ServerInv, NEW h \in Hosts, AddHost(h) \/ UpdateHost(h)
    PROVE  RowsKept
<1>1. ServerTypes
  BY DEF ServerInv
<1>2. CASE AddHost(h)
  <2>1. /\ ~Present(h) /\ host' = [host EXCEPT ![h] = NewHost]
        /\ NewHost \in HostRows /\ NewHost.pid = 0
    BY <1>2 DEF AddHost, Present, NewHost, NoHost, HostRows
  <2> QED
    BY <1>1, <2>1 DEF ServerTypes, RowsKept, Present
<1>3. CASE UpdateHost(h)
  <2> DEFINE row == [host[h] EXCEPT !.enabled = ~host[h].enabled]
  <2>1. row \in HostRows /\ row.pid = host[h].pid /\ row.row = host[h].row
    BY <1>1 DEF ServerTypes, HostRows
  <2>2. host' = [host EXCEPT ![h] = row]
    BY <1>3 DEF UpdateHost
  <2> QED
    BY <1>1, <2>1, <2>2 DEF ServerTypes, RowsKept, Present
<1> QED
  BY <1>2, <1>3

\* The invariant holds whatever step is taken.
LEMMA ServerStepKeepsInv ==
    ASSUME ServerInv, [Next]_vars
    PROVE  ServerInv'
<1>u. UNCHANGED <<host, serverVars, requestVars>> => ServerInv'
  BY QuietStep DEF ServerInv, ServerTypes, RowsKept, Present
<1>1. ASSUME NEW t \in Tasks, NEW h \in Hosts, CollectorStep(t, h)
      PROVE  ServerInv'
  BY <1>1, SyncKeepsRows, QuietStep DEF CollectorStep
<1>2. CASE LoopStep
  BY <1>u, <1>2 DEF LoopStep, Poll, EndPoll
<1>3. CASE World
  BY <1>u, <1>3 DEF World, Grow, Network, syncVars
<1>4. CASE ServerCrash
  BY <1>4, CrashKeeps
<1>5. CASE Request
  <2>1. ASSUME NEW h \in Hosts, AddHost(h) \/ UpdateHost(h)
        PROVE  ServerInv'
    <3>1. UNCHANGED <<serverVars, requestVars>>
      BY <2>1 DEF AddHost, UpdateHost
    <3> QED
      BY <2>1, <3>1, AddKeepsRows, QuietStep
  <2>2. ASSUME NEW h \in Hosts, SyncHost(h)
        PROVE  ServerInv'
    BY <1>u, <2>2 DEF SyncHost
  <2>3. ASSUME NEW o \in Operators, NEW h \in Hosts,
               NEW at \in {"start", "stop", "delete", "test"}, Call(o, h, at)
        PROVE  ServerInv'
    BY <2>3, CallKeeps DEF Requests
  <2>4. ASSUME NEW f \in Fingerprints, Resolve(f)
        PROVE  ServerInv'
    BY <1>u, <2>4 DEF Resolve
  <2>5. CASE PutSettings
    BY <1>u, <2>5 DEF PutSettings
  <2> QED
    BY <1>5, <2>1, <2>2, <2>3, <2>4, <2>5, ServerEndsKeeps DEF Request
<1>6. ASSUME NEW o \in Operators, CallStep(o)
      PROVE  ServerInv'
  BY <1>6, CommandKeeps, LaunchKeeps, ReturnKeeps, CallFailsKeeps DEF CallStep
<1>7. ASSUME NEW c \in Clients, Stream(c) \/ Deliver(c) \/ Fetch(c) \/ Arrive(c) \/ Fail(c)
      PROVE  ServerInv'
  BY <1>u, <1>7 DEF Stream, Deliver, Fetch, Arrive, Fail, others
<1>8. CASE UNCHANGED vars
  BY <1>u, <1>8 DEF vars, hostVars
<1> QED
  BY <1>1, <1>2, <1>3, <1>4, <1>5, <1>6, <1>7, <1>8 DEF Next

\* An app server that runs on a host and has not been sent a stop is the one the
\* host's row names, for any hosts, any operators and any number of requests.
THEOREM ServersAccountedFor ==
    Spec => []ServersAreAccountedFor
<1>1. ServerInv => ServersAreAccountedFor
  BY DEF ServerInv, Settled, ServersAreAccountedFor
<1> QED
  BY <1>1, ServerInitInv, ServerStepKeepsInv, PTL DEF Spec

=============================================================================
