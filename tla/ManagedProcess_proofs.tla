----------------------- MODULE ManagedProcess_proofs -----------------------
(***************************************************************************)
(* Proofs about the process the dashboard owns, for any number of HTTP       *)
(* threads and any output: a cancel is recorded, the pause flag is true, and *)
(* no row is left running when the process is forgotten.                     *)
(*                                                                         *)
(* The invariant says who holds managed.lock at each place of the code, what *)
(* holder, reader and flags know of the process there, and which rows have   *)
(* their last status still to come.                                         *)
(***************************************************************************)
EXTENDS ManagedProcess, TLAPS

\* managed.lock is held at these places, and nowhere else.
LockHeld ==
    /\ \A c \in Callers : lock = c <=> call[c].at \in {"paused", "term"}
    /\ lock = Reader <=> reader.at \in {"bind-old", "bind-owner"}

\* Before there is a process there is nothing to control.
NotLaunched ==
    /\ child.state = "none" =>
          /\ reader.at \in {"launch", "done"} /\ ~managed.paused
          /\ \A c \in Callers : call[c].at \in {"idle", "complete"}
    /\ reader.at = "launch" => child.state = "none"

\* A thread between its signal and the flag, and everyone else.
PauseIsKnown ==
    Alive => /\ \A c \in Callers :
                   call[c].at = "paused" => (call[c].do = "pause" <=> child.state = "stopped")
             /\ (\A c \in Callers : call[c].at # "paused") =>
                   (managed.paused <=> child.state = "stopped")

\* The reader is past its wait only with the process reaped, which SIGTERM cannot
\* reach any more.
CancelIsKnown ==
    /\ terminated => managed.cancelled
    /\ \A c \in Callers : call[c].at = "term" => managed.cancelled
    /\ reader.at \in {"flag", "look", "exit", "unlist"} => child.state = "reaped"
    /\ reader.at \in {"look", "exit"} /\ terminated => reader.cancelled
    /\ outcome # "none" => child.state = "reaped" /\ reader.at \in {"unlist", "done"}

OwnerIsKnown ==
    /\ reader.at \in {"launch", "register", "done"} => owned = {}
    /\ reader.at \in {"launch", "register"} => managed.session = Local
    /\ reader.at \notin {"launch", "register", "done"} => owned = {managed.session}

\* The rows whose last status the reader has still to write.
ToEnd ==
    CASE reader.at \in {"unlist", "done"} -> {}
      [] reader.at = "bind-old" -> {managed.session, reader.session}
      [] reader.at = "bind-owner" -> {reader.session}
      [] OTHER -> {managed.session}

Live == {"RUNNING", "PAUSED"}

\* What the reader ingests under, and ends, is the row of the run or a loose one, and
\* only rows to be ended are live.
RowsAreKnown ==
    /\ reader.at \in {"launch", "register", "started"} => managed.session = Local
    /\ managed.thread \in {managed.session} \cup loose
    /\ reader.at = "ingest" => reader.session \in {managed.session} \cup loose
    /\ reader.at \in {"look", "exit"} => reader.session = managed.session
    /\ \A s \in Sessions \ loose : status[s] \in Live => s \in ToEnd

ManagedInv ==
    /\ TypeOK /\ LockHeld /\ NotLaunched
    /\ PauseIsKnown /\ CancelIsKnown /\ OwnerIsKnown /\ RowsAreKnown /\ CancelIsHonoured

----------------------------------------------------------------------------
LEMMA ManagedInitInv ==
    Init => ManagedInv
<1> SUFFICES ASSUME Init PROVE ManagedInv
  OBVIOUS
<1> USE DEF Init, Idle
<1>1. TypeOK
  <2>1. managed \in [session : Sessions, thread : Sessions, cancelled : BOOLEAN, paused : BOOLEAN]
    BY DEF Sessions
  <2>2. status \in [Sessions -> TerminalStates \cup {"ABSENT", "DISCOVERED", "RUNNING", "IDLE", "PAUSED"}]
    BY DEF Sessions
  <2>3. reader \in ReaderStates
    BY DEF ReaderStates
  <2>4. call \in [Callers -> CallStates]
    BY DEF CallStates
  <2>5. pipe \in Seq(Lines) /\ lock \in Callers \cup {Reader, Nobody}
    OBVIOUS
  <2>6. child \in [state : {"none", "running", "stopped", "zombie", "reaped"},
                   how : {"none", "success", "failure"}]
    OBVIOUS
  <2>7. loose \subseteq Sessions
    BY DEF Sessions
  <2> QED
    BY <2>1, <2>2, <2>3, <2>4, <2>5, <2>6, <2>7 DEF TypeOK
<1>2. LockHeld /\ NotLaunched
  BY HoldersAssumption DEF LockHeld, NotLaunched
<1>3. PauseIsKnown /\ CancelIsKnown /\ OwnerIsKnown /\ CancelIsHonoured
  BY DEF PauseIsKnown, CancelIsKnown, OwnerIsKnown, CancelIsHonoured, Alive
<1>4. RowsAreKnown
  <2>1. reader.at = "launch" /\ managed.session = Local
    OBVIOUS
  <2>2. managed.thread \in {Local} \cup loose
    OBVIOUS
  <2>3. \A s \in Sessions : status[s] \in Live => s = Local
    BY DEF Sessions, Live
  <2> QED
    BY <2>1, <2>2, <2>3 DEF RowsAreKnown, ToEnd
<1> QED
  BY <1>1, <1>2, <1>3, <1>4 DEF ManagedInv

LEMMA ReaderTypes ==
    ASSUME TypeOK, ReaderStep
    PROVE  TypeOK'
<1> USE LinesAssumption DEF TypeOK, ReaderStates, Sessions, Goto, Kinds, TerminalStates
<1>1. CASE Launch \/ LaunchFails \/ Register \/ Started
  BY <1>1 DEF Launch, LaunchFails, Register, Started
<1>2. CASE ReadLine
  BY <1>2 DEF ReadLine
<1>3. CASE BindKnown
  BY <1>3 DEF BindKnown
<1>31. CASE BindReal
  BY <1>31 DEF BindReal
<1>32. CASE BindOld 
  BY <1>32 DEF BindOld
<1>33. CASE BindOwner
  BY <1>33 DEF BindOwner, NewOwners
<1>4. CASE Ingest
  BY <1>4 DEF Ingest, Ingested, SetStatus
<1>5. CASE ReaderError \/ Eof \/ Wait
  BY <1>5 DEF ReaderError, Eof, Wait, Ended
<1>6. CASE ReadFlags \/ Unlist
  BY <1>6 DEF ReadFlags, Unlist
<1>7. CASE ExitLook
  <2>1. reader \in [at : {"look"}, session : Sessions, cancelled : BOOLEAN]
    BY <1>7 DEF ExitLook
  <2>2. reader' \in [at : {"exit"}, session : Sessions, cancelled : BOOLEAN, completed : BOOLEAN]
    BY <1>7, <2>1 DEF ExitLook
  <2> QED
    BY <1>7, <2>2 DEF ExitLook
<1>8. CASE ExitWrite
  <2>1. outcome' \in {"COMPLETED", "IDLE", "CANCELLED", "FAILED"}
    BY <1>8 DEF ExitWrite, ExitStatus
  <2>2. status' \in [Sessions -> TerminalStates \cup {"ABSENT", "DISCOVERED", "RUNNING", "IDLE", "PAUSED"}]
    BY <1>8, <2>1 DEF ExitWrite
  <2>3. reader' \in ReaderStates
    BY <1>8 DEF ExitWrite
  <2> QED
    BY <1>8, <2>1, <2>2, <2>3 DEF ExitWrite
<1> QED
  BY <1>1, <1>2, <1>3, <1>31, <1>32, <1>33, <1>4, <1>5, <1>6, <1>7, <1>8 DEF ReaderStep

LEMMA CallTypes ==
    ASSUME TypeOK, NEW c \in Callers, CallStep(c)
    PROVE  TypeOK'
<1> USE DEF TypeOK, Sessions, CallAt, Return
<1>1. CASE Signal(c)
  <2>1. child' \in [state : {"none", "running", "stopped", "zombie", "reaped"},
                     how : {"none", "success", "failure"}]
    BY <1>1 DEF Signal, Signalled, Alive
  <2>2. call' \in [Callers -> CallStates]
    BY <1>1 DEF Signal, CallStates, Idle
  <2> QED
    BY <1>1, <2>1, <2>2 DEF Signal
<1>2. CASE SignalRaises(c) \/ MarkRaises(c) \/ TerminateRaises(c)
  BY <1>2 DEF SignalRaises, MarkRaises, TerminateRaises, Raise, CallStates
<1>3. CASE SetPaused(c)
  <2>1. managed' \in [session : Sessions, thread : Sessions, cancelled : BOOLEAN, paused : BOOLEAN]
    <3>1. (call[c].do = "pause") \in BOOLEAN
      OBVIOUS
    <3> QED
      BY <1>3, <3>1 DEF SetPaused
  <2>2. call' \in [Callers -> CallStates]
    BY <1>3 DEF SetPaused, CallStates, Idle
  <2> QED
    BY <1>3, <2>1, <2>2 DEF SetPaused
<1>4. CASE WriteStatus(c)
  BY <1>4 DEF WriteStatus, CallStates, Idle
<1>5. CASE MarkCancelled(c)
  <2>1. child' \in [state : {"none", "running", "stopped", "zombie", "reaped"},
                     how : {"none", "success", "failure"}]
    BY <1>5 DEF MarkCancelled, Signalled, Alive
  <2>2. call' \in [Callers -> CallStates]
    BY <1>5 DEF MarkCancelled, CallStates, Idle
  <2> QED
    BY <1>5, <2>1, <2>2 DEF MarkCancelled
<1>6. CASE Terminate(c)
  BY <1>6 DEF Terminate, CallStates, Idle
<1>7. CASE WaitOrKill(c)
  <2>1. child' \in [state : {"none", "running", "stopped", "zombie", "reaped"},
                     how : {"none", "success", "failure"}]
    BY <1>7 DEF WaitOrKill, Alive
  <2>2. call' \in [Callers -> CallStates]
    BY <1>7 DEF WaitOrKill, CallStates, Idle
  <2> QED
    BY <1>7, <2>1, <2>2 DEF WaitOrKill
<1>8. CASE Complete(c)
  BY <1>8 DEF Complete, CallStates, Idle, Ingested, SetStatus, TerminalStates
<1> QED
  BY <1>1, <1>2, <1>3, <1>4, <1>5, <1>6, <1>7, <1>8 DEF CallStep

LEMMA RequestTypes ==
    ASSUME TypeOK, NEW c \in Callers, NEW do \in Actions, NEW s \in Sessions,
           Owned(c, do, s) \/ NotOwned(c, do, s) \/ CompleteLook(c, do, s)
    PROVE  TypeOK'
<1> USE ActionsAssumption DEF TypeOK
<1>1. CASE Owned(c, do, s)
  BY <1>1 DEF Owned, CallStates
<1>2. CASE NotOwned(c, do, s)
  BY <1>2 DEF NotOwned
<1>3. CASE CompleteLook(c, do, s)
  BY <1>3 DEF CompleteLook, CallStates
<1> QED
  BY <1>1, <1>2, <1>3

LEMMA ChildTypes ==
    ASSUME TypeOK,
           \/ \E line \in Lines : Output(line)
           \/ \E how \in {"success", "failure"} : Exit(how)
    PROVE  TypeOK'
<1>1. ASSUME NEW line \in Lines, Output(line) PROVE TypeOK'
  <2>1. pipe' \in Seq(Lines)
    BY <1>1 DEF TypeOK, Output
  <2> QED
    BY <1>1, <2>1 DEF TypeOK, Output
<1>2. ASSUME NEW how \in {"success", "failure"}, Exit(how) PROVE TypeOK'
  BY <1>2 DEF TypeOK, Exit
<1> QED
  BY <1>1, <1>2

----------------------------------------------------------------------------
LEMMA ReaderGoes ==
    ASSUME TypeOK, NEW at, Goto(at)
    PROVE  /\ reader'.at = at
           /\ reader.at \in {"look", "exit"} => reader'.cancelled = reader.cancelled
BY DEF TypeOK, ReaderStates, Goto

\* The flag as the actions of threads leave it.
LEMMA FlagMoves ==
    ASSUME TypeOK, NEW c \in Callers
    PROVE  /\ SetPaused(c) => /\ managed'.paused <=> call[c].do = "pause"
                               /\ managed'.cancelled = managed.cancelled
           /\ MarkCancelled(c) => ~managed'.paused /\ managed'.cancelled
           /\ MarkRaises(c) => managed'.cancelled
<1>1. (call[c].do = "pause") \in BOOLEAN
  OBVIOUS
<1>2. SetPaused(c) => /\ managed'.paused = (call[c].do = "pause")
                      /\ managed'.cancelled = managed.cancelled
  BY <1>1 DEF SetPaused, TypeOK
<1> QED
  BY <1>2 DEF TypeOK, MarkCancelled, MarkRaises

LEMMA BindingMoves ==
    ASSUME TypeOK, BindKnown \/ BindOwner
    PROVE  /\ managed'.cancelled = managed.cancelled /\ managed'.paused = managed.paused
           /\ BindKnown => managed'.session = managed.session
           /\ BindOwner => managed'.session = reader.session
BY DEF TypeOK, BindKnown, BindOwner

LEMMA CallGoes ==
    ASSUME TypeOK, NEW c \in Callers, call[c] # Idle, NEW at, CallAt(c, at)
    PROVE  /\ call'[c].at = at /\ call'[c].do = call[c].do
           /\ \A d \in Callers : d # c => call'[d] = call[d]
<1>1. call[c] \in CallStates \ {Idle}
  BY DEF TypeOK
<1> QED
  BY <1>1 DEF TypeOK, CallAt, CallStates

LEMMA CallEnds ==
    ASSUME TypeOK, NEW c \in Callers, Return(c)
    PROVE  /\ call'[c].at = "idle"
           /\ \A d \in Callers : d # c => call'[d] = call[d]
BY DEF TypeOK, Return, Idle

\* What a thread does at its place.
LEMMA CallDoes ==
    ASSUME TypeOK, NEW c \in Callers
    PROVE  /\ call[c].at \in {"signal", "paused", "status"} =>
                  call[c] # Idle /\ call[c].do \in {"pause", "continue"}
           /\ call[c].at \in {"mark", "term", "cancel-wait", "complete"} => call[c] # Idle
BY DEF TypeOK, CallStates, Idle

\* What the reader knows of its row, as its places change.
LEMMA ReaderAt ==
    ASSUME TypeOK, NEW at, Goto(at)
    PROVE  /\ reader'.at = at
           /\ reader.at \in {"bind", "bind-old", "bind-owner", "ingest", "look", "exit"}
                  => reader'.session = reader.session
BY DEF TypeOK, ReaderStates, Goto

LEMMA ReaderRows ==
    ASSUME ManagedInv, ReaderStep
    PROVE  RowsAreKnown'
<1>1. TypeOK /\ RowsAreKnown /\ status \in [Sessions -> TerminalStates \cup {"ABSENT",
         "DISCOVERED", "RUNNING", "IDLE", "PAUSED"}]
  BY DEF ManagedInv, TypeOK
<1>2. managed.session \in Sessions /\ managed.thread \in Sessions
  BY <1>1 DEF TypeOK
<1>3. reader.at \in {"bind", "bind-old", "bind-owner", "ingest", "look", "exit"}
         => reader.session \in Sessions
  BY <1>1 DEF TypeOK, ReaderStates
<1> USE DEF RowsAreKnown, ToEnd, Live
<1>4. CASE Launch \/ Register \/ Eof \/ Wait \/ Unlist
  BY <1>1, <1>4, ReaderAt DEF Launch, Register, Eof, Wait, Unlist
<1>5. CASE LaunchFails \/ Started
  BY <1>1, <1>2, <1>5, ReaderAt DEF LaunchFails, Started, Sessions
<1>6. CASE ReadLine
  BY <1>1, <1>6, LinesAssumption DEF ReadLine, TypeOK
<1>7. CASE BindKnown
  <2>1. /\ managed'.session = managed.session /\ managed'.thread = reader.session
        /\ reader'.at = "ingest" /\ reader'.session = reader.session
    BY <1>1, <1>7, ReaderAt DEF BindKnown, TypeOK
  <2> QED
    BY <1>1, <1>7, <2>1 DEF BindKnown
<1>8. CASE BindReal \/ BindOld
  BY <1>1, <1>2, <1>3, <1>8, ReaderAt DEF BindReal, BindOld
<1>9. CASE BindOwner
  <2>1. /\ managed'.session = reader.session /\ managed'.thread = reader.session
        /\ reader'.at = "ingest" /\ reader'.session = reader.session
    BY <1>1, <1>9, ReaderAt DEF BindOwner, TypeOK
  <2> QED
    BY <1>1, <1>9, <2>1 DEF BindOwner
<1>10. CASE Ingest
  BY <1>1, <1>2, <1>3, <1>10 DEF Ingest
<1>11. CASE ReaderError
  BY <1>1, <1>11 DEF ReaderError
<1>12. CASE ReadFlags \/ ExitLook
  BY <1>1, <1>12 DEF ReadFlags, ExitLook
<1>13. CASE ExitWrite
  <2>1. outcome' \notin Live
    BY <1>13 DEF ExitWrite, ExitStatus
  <2> QED
    BY <1>1, <1>3, <1>13, <2>1, ReaderAt DEF ExitWrite
<1> QED
  BY <1>4, <1>5, <1>6, <1>7, <1>8, <1>9, <1>10, <1>11, <1>12, <1>13 DEF ReaderStep

\* Only pause and continue make a row live, and late if it is not to be ended.
LEMMA CallRows ==
    ASSUME ManagedInv, NEW c \in Callers, CallStep(c)
    PROVE  RowsAreKnown'
<1>1. TypeOK /\ RowsAreKnown /\ OwnerIsKnown /\ status \in [Sessions -> TerminalStates \cup
         {"ABSENT", "DISCOVERED", "RUNNING", "IDLE", "PAUSED"}]
  BY DEF ManagedInv, TypeOK
<1>2. CASE WriteStatus(c)
  <2>1. call[c].session \in Sessions
    BY <1>1, <1>2 DEF WriteStatus, TypeOK, CallStates, Idle
  <2>2. ~Late(call[c].session) => call[c].session \in ToEnd
    BY <1>1 DEF Late, OwnerIsKnown, ToEnd
  <2>3. loose \subseteq loose' /\ (Late(call[c].session) => call[c].session \in loose')
    BY <1>2 DEF WriteStatus
  <2>4. \A s \in Sessions : s # call[c].session => status'[s] = status[s]
    BY <1>1, <1>2 DEF WriteStatus
  <2> QED
    BY <1>1, <1>2, <2>1, <2>2, <2>3, <2>4 DEF WriteStatus, RowsAreKnown, ToEnd
<1>3. CASE Complete(c)
  <2>1. \A s \in Sessions : status'[s] = status[s] \/ status'[s] = "COMPLETED"
    BY <1>1, <1>3 DEF Complete, Ingested
  <2> QED
    BY <1>1, <1>3, <2>1 DEF Complete, RowsAreKnown, ToEnd, Live
<1>4. ASSUME UNCHANGED <<reader, status, loose, managed.session, managed.thread>>
      PROVE  RowsAreKnown'
  BY <1>1, <1>4 DEF RowsAreKnown, ToEnd
<1>5. CASE SetPaused(c) \/ MarkCancelled(c) \/ MarkRaises(c)
  <2>1. managed'.session = managed.session /\ managed'.thread = managed.thread
    BY <1>1, <1>5 DEF SetPaused, MarkCancelled, MarkRaises, TypeOK
  <2> QED
    BY <1>4, <1>5, <2>1 DEF SetPaused, MarkCancelled, MarkRaises, Raise
<1>6. CASE Signal(c) \/ SignalRaises(c) \/ Terminate(c) \/ TerminateRaises(c) \/ WaitOrKill(c)
  BY <1>4, <1>6 DEF Signal, SignalRaises, Terminate, TerminateRaises, Raise, WaitOrKill
<1> QED
  BY <1>2, <1>3, <1>5, <1>6 DEF CallStep

LEMMA ReaderKeeps ==
    ASSUME ManagedInv, ReaderStep
    PROVE  ManagedInv'
<1>1. TypeOK /\ TypeOK'
  BY ReaderTypes DEF ManagedInv
<1>2. LockHeld'
  <2> USE <1>1 DEF ManagedInv, LockHeld
  <2>1. CASE Launch \/ LaunchFails \/ Register \/ Started \/ Eof \/ Wait
    BY <2>1, ReaderGoes DEF Launch, LaunchFails, Register, Started, Eof, Wait
  <2>2. CASE ReadLine \/ Ingest \/ ReadFlags \/ ExitLook \/ Unlist
    BY <2>2 DEF ReadLine, Ingest, ReadFlags, ExitLook, Unlist
  <2>3. CASE BindKnown \/ BindOld \/ ExitWrite
    BY <2>3, ReaderGoes DEF BindKnown, BindOld, ExitWrite
  <2>4. CASE BindReal \/ BindOwner
    BY <2>4, ReaderGoes, HoldersAssumption DEF BindReal, BindOwner
  <2>5. CASE ReaderError
    BY <2>5, HoldersAssumption DEF ReaderError
  <2> QED
    BY <2>1, <2>2, <2>3, <2>4, <2>5 DEF ReaderStep
<1>3. NotLaunched'
  <2> USE <1>1 DEF ManagedInv, NotLaunched
  <2>1. CASE Launch \/ LaunchFails \/ Register \/ Started \/ Eof \/ Wait
    BY <2>1, ReaderGoes DEF Launch, LaunchFails, Register, Started, Eof, Wait, Ended, TypeOK
  <2>2. CASE ReadLine \/ Ingest \/ ReadFlags \/ ExitLook \/ Unlist \/ ReaderError
    BY <2>2 DEF ReadLine, Ingest, ReadFlags, ExitLook, Unlist, ReaderError
  <2>3. CASE BindKnown \/ BindReal \/ BindOld \/ BindOwner \/ ExitWrite
    BY <2>3, ReaderGoes DEF BindKnown, BindReal, BindOld, BindOwner, ExitWrite
  <2> QED
    BY <2>1, <2>2, <2>3 DEF ReaderStep
<1>4. PauseIsKnown'
  <2> USE <1>1 DEF ManagedInv, PauseIsKnown, Alive
  <2>1. CASE Launch
    BY <2>1 DEF Launch, NotLaunched, TypeOK
  <2>2. CASE Wait
    BY <2>2 DEF Wait, TypeOK
  <2>3. ASSUME UNCHANGED <<child, call, managed.paused>>
        PROVE  PauseIsKnown'
    BY <2>3
  <2>4. CASE BindKnown \/ BindOwner
    BY <2>3, <2>4, BindingMoves DEF BindKnown, BindOwner
  <2> QED
    BY <2>1, <2>2, <2>3, <2>4
       DEF ReaderStep, LaunchFails, Register, Started, Eof, ReadLine, Ingest, ReadFlags,
           ExitLook, Unlist, ReaderError, BindReal, BindOld, ExitWrite
<1>5. CancelIsKnown' /\ CancelIsHonoured'
  <2> USE <1>1 DEF ManagedInv, CancelIsKnown, CancelIsHonoured
  <2>1. CASE Launch \/ LaunchFails \/ Register \/ Started \/ Eof
    BY <2>1, ReaderGoes DEF Launch, LaunchFails, Register, Started, Eof, NotLaunched
  <2>2. CASE ReadLine \/ Ingest \/ Unlist \/ ReaderError
    BY <2>2 DEF ReadLine, Ingest, Unlist, ReaderError
  <2>3. CASE ReadFlags \/ ExitLook
    BY <2>3 DEF ReadFlags, ExitLook
  <2>4. CASE BindReal \/ BindOld
    BY <2>4, ReaderGoes DEF BindReal, BindOld
  <2>5. CASE BindKnown \/ BindOwner
    BY <2>5, ReaderGoes, BindingMoves DEF BindKnown, BindOwner
  <2>6. CASE Wait
    BY <2>6, ReaderGoes DEF Wait, TypeOK
  <2>7. CASE ExitWrite
    BY <2>7, ReaderGoes DEF ExitWrite, ExitStatus
  <2> QED
    BY <2>1, <2>2, <2>3, <2>4, <2>5, <2>6, <2>7 DEF ReaderStep
<1>6. OwnerIsKnown'
  <2> USE <1>1 DEF ManagedInv, OwnerIsKnown
  <2>1. CASE Launch \/ LaunchFails \/ Register \/ Started \/ Eof \/ Wait
    BY <2>1, ReaderGoes DEF Launch, LaunchFails, Register, Started, Eof, Wait
  <2>2. CASE ReadLine \/ Ingest \/ ReadFlags \/ ExitLook \/ Unlist \/ ReaderError
    BY <2>2 DEF ReadLine, Ingest, ReadFlags, ExitLook, Unlist, ReaderError
  <2>3. CASE BindReal \/ BindOld \/ ExitWrite
    BY <2>3, ReaderGoes DEF BindReal, BindOld, ExitWrite
  <2>4. CASE BindKnown \/ BindOwner
    BY <2>4, ReaderGoes, BindingMoves DEF BindKnown, BindOwner, NewOwners
  <2> QED
    BY <2>1, <2>2, <2>3, <2>4 DEF ReaderStep
<1> QED
  BY <1>1, <1>2, <1>3, <1>4, <1>5, <1>6, ReaderRows DEF ManagedInv

LEMMA CallKeeps ==
    ASSUME ManagedInv, NEW c \in Callers, CallStep(c)
    PROVE  ManagedInv'
<1>1. TypeOK /\ TypeOK'
  BY CallTypes DEF ManagedInv
<1>2. LockHeld'
  <2> USE <1>1 DEF ManagedInv, LockHeld
  <2>1. CASE Signal(c) \/ MarkCancelled(c)
    BY <2>1, CallGoes, CallDoes, HoldersAssumption DEF Signal, MarkCancelled
  <2>2. CASE SetPaused(c) \/ Terminate(c)
    BY <2>2, CallGoes, CallDoes, HoldersAssumption DEF SetPaused, Terminate
  <2>3. CASE SignalRaises(c) \/ MarkRaises(c) \/ TerminateRaises(c)
    BY <2>3, CallEnds, HoldersAssumption DEF SignalRaises, MarkRaises, TerminateRaises, Raise
  <2>4. CASE WriteStatus(c) \/ WaitOrKill(c) \/ Complete(c)
    BY <2>4, CallEnds DEF WriteStatus, WaitOrKill, Complete
  <2> QED
    BY <2>1, <2>2, <2>3, <2>4 DEF CallStep
<1>3. NotLaunched'
  <2> USE <1>1 DEF ManagedInv, NotLaunched
  <2>1. CASE Signal(c) \/ MarkCancelled(c)
    BY <2>1, CallGoes, CallDoes DEF Signal, MarkCancelled, Signalled, Alive, TypeOK
  <2>2. CASE SetPaused(c) \/ Terminate(c)
    BY <2>2, CallGoes, CallDoes DEF SetPaused, Terminate
  <2>3. CASE SignalRaises(c) \/ MarkRaises(c) \/ TerminateRaises(c)
    BY <2>3, CallEnds DEF SignalRaises, MarkRaises, TerminateRaises, Raise
  <2>4. CASE WriteStatus(c) \/ WaitOrKill(c) \/ Complete(c)
    BY <2>4, CallEnds DEF WriteStatus, WaitOrKill, Complete, Alive, TypeOK
  <2> QED
    BY <2>1, <2>2, <2>3, <2>4 DEF CallStep
<1>4. PauseIsKnown'
  <2> USE <1>1 DEF ManagedInv, PauseIsKnown
  <2>1. CASE Signal(c)
    <3>1. child'.state = Signalled(IF call[c].do = "pause" THEN "stopped" ELSE "running")
      BY <2>1 DEF Signal, TypeOK
    <3>2. call'[c].at = "paused" /\ call'[c].do = call[c].do
      BY <2>1, CallGoes, CallDoes DEF Signal
    <3>3. \A d \in Callers : call'[d].at = "paused" => d = c
      BY <1>2, <3>2, HoldersAssumption DEF LockHeld
    <3> QED
      BY <3>1, <3>2, <3>3, <2>1 DEF Signal, Signalled, Alive
  <2>2. CASE SetPaused(c)
    BY <2>2, FlagMoves, CallGoes, CallDoes DEF SetPaused, Alive, LockHeld
  <2>3. CASE MarkCancelled(c)
    <3>1. ~managed'.paused
      BY <2>3, FlagMoves
    <3>2. child'.state = IF managed.paused THEN Signalled("running") ELSE child.state
      BY <2>3 DEF MarkCancelled, TypeOK
    <3>3. \A d \in Callers : call[d].at # "paused" /\ call'[d].at # "paused"
      BY <2>3, CallGoes, CallDoes, HoldersAssumption DEF MarkCancelled, LockHeld
    <3> QED
      BY <3>1, <3>2, <3>3, <2>3 DEF MarkCancelled, Signalled, Alive
  <2>4. CASE Terminate(c)
    BY <2>4, CallGoes, CallDoes DEF Terminate, Alive
  <2>5. CASE SignalRaises(c) \/ MarkRaises(c) \/ TerminateRaises(c)
    BY <2>5 DEF SignalRaises, MarkRaises, TerminateRaises, Raise, Alive
  <2>6. CASE WaitOrKill(c)
    BY <2>6 DEF WaitOrKill, Alive, TypeOK
  <2>7. CASE WriteStatus(c) \/ Complete(c)
    BY <2>7, CallEnds DEF WriteStatus, Complete, Alive
  <2> QED
    BY <2>1, <2>2, <2>3, <2>4, <2>5, <2>6, <2>7 DEF CallStep
<1>5. CancelIsKnown' /\ CancelIsHonoured'
  <2> USE <1>1 DEF ManagedInv, CancelIsKnown, CancelIsHonoured
  <2>1. CASE Signal(c)
    BY <2>1, CallGoes, CallDoes DEF Signal
  <2>2. CASE SetPaused(c)
    BY <2>2, CallGoes, CallDoes DEF SetPaused, TypeOK
  <2>3. CASE MarkCancelled(c)
    BY <2>3, CallGoes, CallDoes DEF MarkCancelled, Signalled, Alive, TypeOK
  <2>4. CASE Terminate(c)
    BY <2>4, CallGoes, CallDoes DEF Terminate
  <2>5. CASE SignalRaises(c) \/ MarkRaises(c) \/ TerminateRaises(c)
    BY <2>5, CallEnds DEF SignalRaises, MarkRaises, TerminateRaises, Raise, TypeOK
  <2>6. CASE WaitOrKill(c)
    BY <2>6, CallEnds DEF WaitOrKill, Alive, TypeOK
  <2>7. CASE WriteStatus(c) \/ Complete(c)
    BY <2>7, CallEnds DEF WriteStatus, Complete
  <2> QED
    BY <2>1, <2>2, <2>3, <2>4, <2>5, <2>6, <2>7 DEF CallStep
<1>6. OwnerIsKnown'
  <2> USE <1>1 DEF ManagedInv, OwnerIsKnown
  <2>1. CASE SetPaused(c) \/ MarkCancelled(c) \/ MarkRaises(c)
    <3>1. CASE SetPaused(c) \/ MarkCancelled(c)
      BY <3>1 DEF SetPaused, MarkCancelled, TypeOK
    <3>2. CASE MarkRaises(c)
      BY <3>2 DEF MarkRaises, Raise, TypeOK
    <3> QED
      BY <2>1, <3>1, <3>2
  <2>2. ASSUME UNCHANGED <<reader, owned, managed>>
        PROVE  OwnerIsKnown'
    BY <2>2
  <2> QED
    BY <2>1, <2>2 DEF CallStep, Signal, SignalRaises, WriteStatus, Terminate, TerminateRaises,
                      Raise, WaitOrKill, Complete
<1> QED
  BY <1>1, <1>2, <1>3, <1>4, <1>5, <1>6, CallRows DEF ManagedInv

LEMMA RequestKeeps ==
    ASSUME ManagedInv, NEW c \in Callers, NEW do \in Actions, NEW s \in Sessions,
           Owned(c, do, s) \/ NotOwned(c, do, s) \/ CompleteLook(c, do, s)
    PROVE  ManagedInv'
<1>1. TypeOK /\ TypeOK'
  BY RequestTypes DEF ManagedInv
<1>2. CASE Owned(c, do, s)
  <2>1. /\ call'[c].at \in {"mark", "signal"}
        /\ \A d \in Callers : d # c => call'[d] = call[d]
    BY <1>1, <1>2 DEF Owned, TypeOK
  <2>2. call[c].at = "idle" /\ child.state # "none"
    BY <1>2 DEF Owned, Arrive, Idle, Alive
  <2> QED
    BY <1>1, <1>2, <2>1, <2>2
       DEF Owned, ManagedInv, LockHeld, NotLaunched, PauseIsKnown, CancelIsKnown,
           CancelIsHonoured, OwnerIsKnown, RowsAreKnown, ToEnd, Alive
<1>3. CASE NotOwned(c, do, s)
  <2>1. child' = child \/ (Ended /\ child'.state = "reaped")
    BY <1>1, <1>3 DEF NotOwned, TypeOK
  <2> QED
    BY <1>1, <1>3, <2>1
       DEF NotOwned, ManagedInv, LockHeld, NotLaunched, PauseIsKnown, CancelIsKnown,
           CancelIsHonoured, OwnerIsKnown, RowsAreKnown, ToEnd, Alive, Ended
<1>4. CASE CompleteLook(c, do, s)
  <2>1. /\ call'[c].at \in {"idle", "complete"}
        /\ \A d \in Callers : d # c => call'[d] = call[d]
    BY <1>1, <1>4 DEF CompleteLook, Arrive, TypeOK, Idle
  <2>2. call[c].at = "idle"
    BY <1>4 DEF CompleteLook, Arrive, Idle
  <2> QED
    BY <1>1, <1>4, <2>1, <2>2
       DEF CompleteLook, ManagedInv, LockHeld, NotLaunched, PauseIsKnown, CancelIsKnown,
           CancelIsHonoured, OwnerIsKnown, RowsAreKnown, ToEnd, Alive
<1> QED
  BY <1>2, <1>3, <1>4

LEMMA ChildKeeps ==
    ASSUME ManagedInv,
           \/ \E line \in Lines : Output(line)
           \/ \E how \in {"success", "failure"} : Exit(how)
    PROVE  ManagedInv'
<1>1. TypeOK /\ TypeOK'
  BY ChildTypes DEF ManagedInv
<1>2. ASSUME NEW line \in Lines, Output(line)
      PROVE  ManagedInv'
  BY <1>1, <1>2
     DEF Output, ManagedInv, LockHeld, NotLaunched, PauseIsKnown, CancelIsKnown,
         CancelIsHonoured, OwnerIsKnown, RowsAreKnown, ToEnd, Alive
<1>3. ASSUME NEW how \in {"success", "failure"}, Exit(how)
      PROVE  ManagedInv'
  BY <1>1, <1>3
     DEF Exit, ManagedInv, LockHeld, NotLaunched, PauseIsKnown, CancelIsKnown,
         CancelIsHonoured, OwnerIsKnown, RowsAreKnown, ToEnd, Alive
<1> QED
  BY <1>2, <1>3

LEMMA ManagedNext ==
    ManagedInv /\ [Next]_vars => ManagedInv'
<1> SUFFICES ASSUME ManagedInv, [Next]_vars PROVE ManagedInv'
  OBVIOUS
<1>1. CASE UNCHANGED vars
  BY <1>1 DEF vars, ManagedInv, TypeOK, LockHeld, NotLaunched, PauseIsKnown, CancelIsKnown,
              CancelIsHonoured, OwnerIsKnown, RowsAreKnown, ToEnd, Alive
<1> QED
  BY <1>1, ReaderKeeps, CallKeeps, RequestKeeps, ChildKeeps DEF Next

----------------------------------------------------------------------------
\* The invariant holds in every state: who holds the lock, and what is known there.
THEOREM ManagedIsSafe ==
    Spec => []ManagedInv
<1> QED
  BY ManagedInitInv, ManagedNext, PTL DEF Spec

\* Every variable keeps its type: the reader has the local variables it reads.
THEOREM ManagedTypeCorrect ==
    Spec => []TypeOK
<1>1. ManagedInv => TypeOK
  BY DEF ManagedInv
<1> QED
  BY <1>1, ManagedIsSafe, PTL

\* For any number of threads, a process that a cancel's SIGTERM reached before it
\* was waited for is recorded as cancelled (process_manager.py:133-169, 252-272).
THEOREM CancelHonoured ==
    Spec => []CancelIsHonoured
<1>1. ManagedInv => CancelIsHonoured
  BY DEF ManagedInv
<1> QED
  BY <1>1, ManagedIsSafe, PTL

\* Whoever takes the lock of a live process finds it stopped exactly when the
\* flag says so.
THEOREM PauseFlagTrue ==
    Spec => []PauseFlagIsTrue
<1>1. ManagedInv => PauseFlagIsTrue
  BY HoldersAssumption DEF ManagedInv, LockHeld, PauseIsKnown, PauseFlagIsTrue
<1> QED
  BY <1>1, ManagedIsSafe, PTL

\* For any number of threads and any output, once the process is forgotten no row but a
\* loose one says it is running or paused: bindings and the exit between them end every
\* row the run was shown under (process_manager.py:133-169, 186-221).
THEOREM NoRowRunning ==
    Spec => []NoRowLeftRunning
<1>1. ManagedInv => NoRowLeftRunning
  BY DEF ManagedInv, RowsAreKnown, ToEnd, Live, NoRowLeftRunning
<1> QED
  BY <1>1, ManagedIsSafe, PTL

=============================================================================
