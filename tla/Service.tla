------------------------------ MODULE Service ------------------------------
(***************************************************************************)
(* How a page of the dashboard follows the data: the revision notifier       *)
(* (service.py), the request thread that serves a page's stream (server.py   *)
(* _send_sse) and the page (static/app.js).  The stream only says that       *)
(* something has changed; the page then fetches the data again.             *)
(*                                                                         *)
(* Threads are the writers (the collector's loop, the readers of managed     *)
(* processes, HTTP requests) and one per stream; a step lies between two     *)
(* uses of the condition's lock, of the database or of the connection.       *)
(* Data is a version number.                                               *)
(*                                                                         *)
(* Left out: keep-alives, which change nothing at the page; the second query *)
(* of a fetch (what a fetch brings is as new as the first of the two); the   *)
(* thread of a stream that has broken, which ends at its next write.        *)
(***************************************************************************)
EXTENDS Naturals, FiniteSets

CONSTANTS
    Pages,
    Writers,
    MaxVersion,     \* bounds how often the data changes
    MaxNotices,     \* bounds how often the notifier is called
    MaxFaults       \* bounds broken streams, failed fetches and restarts

ASSUME BoundsAssumption == MaxVersion \in Nat /\ MaxNotices \in Nat /\ MaxFaults \in Nat

VARIABLES
    data,       \* the version of the data
    job,        \* what each writer has to do: nothing, go on, or notify
    value,      \* RevisionNotifier._value
    announced,  \* history: the version at the latest notification
    stream,     \* where the thread of each page's stream is
    cursor,     \* the thread's cursor
    inbox,      \* pages to which a refresh message is under way
    timer,      \* pages whose refresh timer runs
    asked,      \* pages whose fetch the server has not answered
    answers,    \* the versions of the answers under way to each page
    shown,      \* the version each page shows
    excused,    \* history: pages whose fetch failed or was overtaken since they were current
    faults      \* how many faults are left

writerVars == <<data, job, value, announced>>
threadVars == <<stream, cursor>>
pageVars == <<inbox, timer, asked, answers, shown, excused>>
vars == <<writerVars, threadVars, pageVars, faults>>

Versions == 0..MaxVersion

\* The server has just started, on data that the pages show.
Init ==
    /\ data = 0 /\ value = 0 /\ announced = 0
    /\ job = [w \in Writers |-> "none"]
    /\ stream = [c \in Pages |-> "closed"] /\ cursor = [c \in Pages |-> 0]
    /\ inbox = {} /\ timer = {} /\ asked = {} /\ excused = {}
    /\ answers = [c \in Pages |-> {}] /\ shown = [c \in Pages |-> 0]
    /\ faults = MaxFaults

Fault == faults > 0 /\ faults' = faults - 1

----------------------------------------------------------------------------
(* Writers.                                                                *)

\* A transaction that its writer will announce: a line of a log, a request.
Write(w) ==
    /\ data < MaxVersion
    /\ data' = data + 1
    /\ job' = [job EXCEPT ![w] = "changed"]
    /\ UNCHANGED <<value, announced, threadVars, pageVars, faults>>

\* One that it will not: reconcile, the archive flags of the state database.
WriteSilently ==
    /\ data < MaxVersion
    /\ data' = data + 1
    /\ UNCHANGED <<job, value, announced, threadVars, pageVars, faults>>

\* The writer raises: what it has changed stays, and is not announced.
Raise(w) ==
    /\ job[w] = "changed"
    /\ job' = [job EXCEPT ![w] = "none"]
    /\ UNCHANGED <<data, value, announced, threadVars, pageVars, faults>>

\* notify_all.
Woken == [c \in Pages |-> IF stream[c] = "sleeping" THEN "woken" ELSE stream[c]]

\* notify: the writer is done.
Notify(w) ==
    /\ job[w] = "changed"
    /\ value < MaxNotices
    /\ job' = [job EXCEPT ![w] = "none"]
    /\ value' = value + 1
    /\ announced' = data
    /\ stream' = Woken
    /\ UNCHANGED <<data, cursor, pageVars, faults>>

----------------------------------------------------------------------------
(* The thread of a stream.                                                 *)

Goto(c, where) == stream' = [stream EXCEPT ![c] = where]

\* The page's request: the cursor is taken first,
Connect(c) ==
    /\ stream[c] = "closed"
    /\ Goto(c, "greeting")
    /\ cursor' = [cursor EXCEPT ![c] = value]
    /\ UNCHANGED <<writerVars, pageVars, faults>>

\* Mutant of Greet: a new stream starts with the first change.
GreetSilently(c) ==
    /\ stream[c] = "greeting"
    /\ Goto(c, "looking")
    /\ UNCHANGED <<writerVars, cursor, pageVars, faults>>

\* then the page is told to refresh.
Greet(c) ==
    /\ stream[c] = "greeting"
    /\ Goto(c, "looking")
    /\ inbox' = inbox \cup {c}
    /\ UNCHANGED <<writerVars, cursor, timer, asked, answers, shown, excused, faults>>

\* wait returns the value: if it has grown, a message is due.
Returned(c) ==
    /\ Goto(c, IF value > cursor[c] THEN "sending" ELSE "looking")
    /\ cursor' = [cursor EXCEPT ![c] = value]

\* Mutant of Look: wait does not look before it sleeps.
LookLater(c) ==
    /\ stream[c] = "looking"
    /\ Goto(c, "sleeping")
    /\ UNCHANGED <<cursor, writerVars, pageVars, faults>>

\* wait looks at the value under the lock, and sleeps if it has not grown.
Look(c) ==
    /\ stream[c] = "looking"
    /\ IF value > cursor[c] THEN Returned(c) ELSE Goto(c, "sleeping") /\ UNCHANGED cursor
    /\ UNCHANGED <<writerVars, pageVars, faults>>

\* The timeout of wait.
TimeOut(c) ==
    /\ stream[c] = "sleeping"
    /\ Goto(c, "woken")
    /\ UNCHANGED <<writerVars, cursor, pageVars, faults>>

\* The thread has the lock again.
Resume(c) ==
    /\ stream[c] = "woken"
    /\ Returned(c)
    /\ UNCHANGED <<writerVars, pageVars, faults>>

Send(c) ==
    /\ stream[c] = "sending"
    /\ Goto(c, "looking")
    /\ inbox' = inbox \cup {c}
    /\ UNCHANGED <<writerVars, cursor, timer, asked, answers, shown, excused, faults>>

\* The connection breaks, or has lived for half an hour; what was under way is
\* lost.  The page connects again, by itself.
Break(c) ==
    /\ Fault
    /\ stream[c] # "closed"
    /\ Goto(c, "closed")
    /\ inbox' = inbox \ {c}
    /\ UNCHANGED <<writerVars, cursor, timer, asked, answers, shown, excused>>

\* Mutant of Restarted: the threads go on beside the new notifier.
RestartedBeside == /\ stream' = stream /\ value' = 0

\* The notifier starts anew, and the threads are gone.
Restarted == /\ stream' = [c \in Pages |-> "closed"] /\ value' = 0

\* The server is stopped, or dies, and is started again: writers are gone,
\* too, and fetches fail.  Every page connects anew and is told to refresh, so
\* whatever had not been announced is now.
Restart ==
    /\ Fault
    /\ job' = [w \in Writers |-> "none"]
    /\ Restarted
    /\ inbox' = {} /\ asked' = {} /\ answers' = [c \in Pages |-> {}]
    /\ announced' = data
    /\ UNCHANGED <<data, cursor, timer, shown, excused>>

----------------------------------------------------------------------------
(* The page.                                                               *)

\* Mutant of Deliver: a page that is fetching does not start its timer.
DeliverOnce(c) ==
    /\ c \in inbox
    /\ inbox' = inbox \ {c}
    /\ timer' = IF c \in asked \/ answers[c] # {} THEN timer ELSE timer \cup {c}
    /\ UNCHANGED <<writerVars, threadVars, asked, answers, shown, excused, faults>>

\* A refresh message, or what its user does, starts the timer.
Deliver(c) ==
    /\ c \in inbox
    /\ inbox' = inbox \ {c}
    /\ timer' = timer \cup {c}
    /\ UNCHANGED <<writerVars, threadVars, asked, answers, shown, excused, faults>>

Touch(c) ==
    /\ timer' = timer \cup {c}
    /\ UNCHANGED <<writerVars, threadVars, inbox, asked, answers, shown, excused, faults>>

\* The timer has run out: the page fetches.
Fire(c) ==
    /\ c \in timer
    /\ timer' = timer \ {c}
    /\ asked' = asked \cup {c}
    /\ UNCHANGED <<writerVars, threadVars, inbox, answers, shown, excused, faults>>

Answer(c) ==
    /\ c \in asked
    /\ asked' = asked \ {c}
    /\ answers' = [answers EXCEPT ![c] = @ \cup {data}]
    /\ UNCHANGED <<writerVars, threadVars, inbox, timer, shown, excused, faults>>

\* An answer arrives, perhaps after one to a later fetch, and is shown.
Arrive(c, v) ==
    /\ v \in answers[c]
    /\ answers' = [answers EXCEPT ![c] = @ \ {v}]
    /\ shown' = [shown EXCEPT ![c] = v]
    /\ excused' = IF v >= announced THEN excused \ {c}
                  ELSE IF v < shown[c] THEN excused \cup {c} ELSE excused
    /\ UNCHANGED <<writerVars, threadVars, inbox, timer, asked, faults>>

\* A fetch fails: the page goes on showing what it shows.
FetchFails(c) ==
    /\ Fault
    /\ c \in asked
    /\ asked' = asked \ {c}
    /\ excused' = excused \cup {c}
    /\ UNCHANGED <<writerVars, threadVars, inbox, timer, answers, shown>>

----------------------------------------------------------------------------
WriterStep == WriteSilently \/ \E w \in Writers : Write(w) \/ Raise(w) \/ Notify(w)
ThreadStep(c) == Greet(c) \/ Look(c) \/ Resume(c) \/ Send(c)
PageStep(c) ==
    Deliver(c) \/ Fire(c) \/ Answer(c) \/ \E v \in Versions : Arrive(c, v)

Next ==
    \/ WriterStep
    \/ \E c \in Pages : Connect(c) \/ ThreadStep(c) \/ TimeOut(c) \/ Break(c)
    \/ \E c \in Pages : PageStep(c) \/ Touch(c) \/ FetchFails(c)
    \/ Restart

\* The browser connects again and again, threads run, messages and answers
\* arrive and timers run out.  Writers, users and timeouts of wait need not come.
Fairness ==
    \A c \in Pages :
        /\ WF_vars(Connect(c)) /\ WF_vars(ThreadStep(c))
        /\ WF_vars(Deliver(c)) /\ WF_vars(Fire(c)) /\ WF_vars(Answer(c))
        /\ \A v \in Versions : WF_vars(Arrive(c, v))

Spec == Init /\ [][Next]_vars
FairSpec == Spec /\ Fairness

----------------------------------------------------------------------------
\* The types of the variables; what a stream's cursor has seen the notifier has
\* counted, although a restart starts the count anew (service.py:20-40).
TypeOK ==
    /\ data \in Nat /\ announced \in 0..data /\ value \in Nat /\ faults \in Nat
    /\ job \in [Writers -> {"none", "changed"}]
    /\ stream \in [Pages -> {"closed", "greeting", "looking", "sleeping", "woken", "sending"}]
    /\ cursor \in [Pages -> Nat]
    /\ \A c \in Pages : stream[c] # "closed" => cursor[c] <= value
    /\ inbox \subseteq Pages /\ timer \subseteq Pages /\ asked \subseteq Pages
    /\ excused \subseteq Pages
    /\ shown \in [Pages -> 0..data] /\ answers \in [Pages -> SUBSET (0..data)]

\* No thread of a stream sleeps on a change: a notification that comes while it
\* sends, or before it sleeps, is not lost until the timeout (service.py:31-35).
NobodySleepsOnNews ==
    \A c \in Pages : stream[c] = "sleeping" => cursor[c] = value

\* A page whose stream is open and that is behind the latest notification will
\* hear of it, or has a refresh on its way: whatever the moment it connected,
\* and although refreshes are merged, unless a fetch failed or was overtaken
\* (server.py:217-232, app.js:210-227).
NoUpdateLost ==
    \A c \in Pages :
        \/ stream[c] \in {"closed", "greeting", "sending"} \/ value > cursor[c]
        \/ c \in inbox \cup timer \cup asked \cup excused
        \/ shown[c] >= announced \/ \E v \in answers[c] : v >= announced

\* What has been announced is shown by every page in the end, over broken
\* streams and restarts, unless its fetch failed or was overtaken
\* (server.py:210-232, app.js:191-238).
PagesFollow ==
    \A c \in Pages, v \in Versions :
        announced >= v ~> (shown[c] >= v \/ c \in excused)

=============================================================================
