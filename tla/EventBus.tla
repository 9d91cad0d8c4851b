------------------------------ MODULE EventBus ------------------------------
(***************************************************************************)
(* The control center's event bus (api.py EventBus) and the pages it serves  *)
(* (static/app.js connect): a queue per stream, and a page that fetches the  *)
(* data again at every "update" message, whatever the message says.          *)
(*                                                                         *)
(* Data is abstract: what matters is whether a page shows it as it is now.   *)
(* A writer changes the data first and publishes later, when it is done; in  *)
(* between it owes the announcement.  publish never suspends, so it reaches  *)
(* every queue in one step.  A fetch reads the data when the server answers  *)
(* it and takes effect when the answer arrives: answers may cross.  It may   *)
(* also fail (app.js:10), and then nobody asks again: the handler of a        *)
(* message neither catches nor retries (app.js:26).                          *)
(*                                                                         *)
(* The data are what that handler fetches: sessions, attention and hosts.    *)
(* Its three requests are one fetch, which fails if one of them does.        *)
(* Settings are not among them: a page reads them once, when it is loaded.   *)
(*                                                                         *)
(* Left out: keep-alives, which change nothing, and the queue of a stream    *)
(* whose page is gone, which stays until the next chunk finds it gone.       *)
(***************************************************************************)
EXTENDS Naturals, Sequences, SequencesExt

CONSTANTS
    Clients,    \* the pages
    Capacity,   \* asyncio.Queue(maxsize=100)
    Writers     \* who changes data now and announces it later

ASSUME CapacityAssumption == Capacity \in Nat \ {0}

VARIABLES
    streams,    \* the pages whose stream is open (EventBus.clients)
    queue,      \* what each stream has still to send
    asked,      \* pages that wait for a fetch to be answered
    fresh,      \* pages to which an answer with the data as it is now is under way
    old,        \* pages to which an answer that has been overtaken is under way
    stale,      \* pages that do not show the data as it is now
    owed,       \* writers that have changed data and not yet published it
    excused,    \* history: stale pages nothing is on its way to: they opened their stream
                \* stale, had answers cross, or their last fetch has failed
    lossy       \* history: pages that lost a message and have not been sent a resync since

busVars == <<streams, queue, asked, fresh, old, stale, owed, excused, lossy>>

Messages == {"update", "resync"}

BusTypeOK ==
    /\ queue \in [Clients -> Seq(Messages)]
    /\ \A c \in Clients : Len(queue[c]) <= Capacity
    /\ streams \subseteq Clients /\ asked \subseteq Clients /\ fresh \subseteq Clients
    /\ old \subseteq Clients /\ stale \subseteq Clients /\ excused \subseteq Clients
    /\ lossy \subseteq Clients /\ owed \subseteq Writers

\* No stream is open; the pages have just been loaded.
BusInit ==
    /\ queue = [c \in Clients |-> <<>>]
    /\ streams = {} /\ asked = {} /\ fresh = {} /\ old = {}
    /\ stale = {} /\ owed = {} /\ excused = {} /\ lossy = {}

----------------------------------------------------------------------------
Full(c) == Len(queue[c]) >= Capacity

\* Mutant of Offer: the queue has no bound.
OfferUnbounded(c) == Append(queue[c], "update")

\* Mutant of Offer: a full queue takes the new message in place of the oldest.
OfferSliding(c) == Append(IF Full(c) THEN Tail(queue[c]) ELSE queue[c], "update")

\* A message for a full queue is not put there: the oldest makes room for a
\* notice that messages were lost.
Offer(c) ==
    IF Full(c) THEN Append(Tail(queue[c]), "resync") ELSE Append(queue[c], "update")

Publish ==
    /\ queue' = [c \in Clients |-> IF c \in streams THEN Offer(c) ELSE queue[c]]
    /\ lossy' = lossy \cup {c \in streams : Full(c)}

\* The data changes: every page, and every answer under way, is behind it.  What
\* excused a page before does not excuse it from this change.
DataChange ==
    /\ stale' = Clients
    /\ old' = old \cup fresh
    /\ fresh' = {}
    /\ excused' = {}

\* A writer changes data that it will announce later,
Change(w) ==
    /\ DataChange
    /\ owed' = owed \cup {w}
    /\ UNCHANGED <<streams, queue, asked, lossy>>

\* announces what it has changed, or something else,
Announce(w) ==
    /\ Publish
    /\ owed' = owed \ {w}
    /\ UNCHANGED <<streams, asked, fresh, old, stale, excused>>

\* or does both without suspending in between.
ChangeAndAnnounce(w) ==
    /\ DataChange
    /\ Publish
    /\ owed' = owed \ {w}
    /\ UNCHANGED <<streams, asked>>

\* The stream is opened.  The page does not fetch at "ready": what it missed it
\* misses until the next message.
Connect(c) ==
    /\ c \notin streams
    /\ streams' = streams \cup {c}
    /\ excused' = excused \cup ({c} \cap stale)
    /\ UNCHANGED <<queue, asked, fresh, old, stale, owed, lossy>>

\* The stream breaks, with what it has still to send.
Disconnect(c) ==
    /\ c \in streams
    /\ streams' = streams \ {c}
    /\ queue' = [queue EXCEPT ![c] = <<>>]
    /\ lossy' = lossy \ {c}
    /\ UNCHANGED <<asked, fresh, old, stale, owed, excused>>

\* Mutant of Send: the page does not know the resync notice.
SendKnown(c) ==
    /\ queue[c] # <<>>
    /\ queue' = [queue EXCEPT ![c] = Tail(@)]
    /\ asked' = IF Head(queue[c]) = "update" THEN asked \cup {c} ELSE asked
    /\ excused' = IF Head(queue[c]) = "update" THEN excused \ {c} ELSE excused
    /\ lossy' = IF Head(queue[c]) = "resync" THEN lossy \ {c} ELSE lossy
    /\ UNCHANGED <<streams, fresh, old, stale, owed>>

\* The page gets the oldest message and asks for the data.
Send(c) ==
    /\ queue[c] # <<>>
    /\ queue' = [queue EXCEPT ![c] = Tail(@)]
    /\ asked' = asked \cup {c}
    /\ excused' = excused \ {c}
    /\ lossy' = IF Head(queue[c]) = "resync" THEN lossy \ {c} ELSE lossy
    /\ UNCHANGED <<streams, fresh, old, stale, owed>>

\* The server answers a fetch.
Answer(c) ==
    /\ c \in asked
    /\ asked' = asked \ {c}
    /\ fresh' = fresh \cup {c}
    /\ UNCHANGED <<streams, queue, old, stale, owed, excused, lossy>>

\* An answer arrives, and is shown.
ArriveFresh(c) ==
    /\ c \in fresh
    /\ fresh' = fresh \ {c}
    /\ stale' = stale \ {c}
    /\ excused' = excused \ {c}
    /\ UNCHANGED <<streams, queue, asked, old, owed, lossy>>

ArriveOld(c) ==
    /\ c \in old
    /\ old' = old \ {c}
    /\ stale' = stale \cup {c}
    /\ excused' = excused \cup ({c} \ stale)
    /\ UNCHANGED <<streams, queue, asked, fresh, owed, lossy>>

\* A fetch fails: the request, its handler or the answer on its way.
FetchFails(c) ==
    /\ \/ c \in asked /\ asked' = asked \ {c} /\ UNCHANGED <<fresh, old>>
       \/ c \in fresh /\ fresh' = fresh \ {c} /\ UNCHANGED <<asked, old>>
       \/ c \in old /\ old' = old \ {c} /\ UNCHANGED <<asked, fresh>>
    /\ excused' = excused \cup ({c} \cap stale)
    /\ UNCHANGED <<streams, queue, stale, owed, lossy>>

\* The server stops: streams, fetches and what was owed are gone.
BusCrash ==
    /\ queue' = [c \in Clients |-> <<>>]
    /\ streams' = {} /\ asked' = {} /\ fresh' = {} /\ old' = {}
    /\ owed' = {} /\ lossy' = {}
    /\ UNCHANGED <<stale, excused>>

PageStep(c) == Send(c) \/ Answer(c) \/ ArriveFresh(c) \/ ArriveOld(c) \/ FetchFails(c)

BusNext ==
    \/ \E w \in Writers : Change(w) \/ Announce(w) \/ ChangeAndAnnounce(w)
    \/ \E c \in Clients : Connect(c) \/ Disconnect(c) \/ PageStep(c)
    \/ BusCrash

BusSpec == BusInit /\ [][BusNext]_busVars

----------------------------------------------------------------------------
\* The bus forgets no page with an open stream: one that does not show the data
\* as it is has a message coming, or a fetch to be answered or whose answer is
\* current, or the change is still to be announced, whatever overflowed in
\* between.  A page whose last fetch failed, that opened its stream stale, or
\* that an overtaken answer set back may be forgotten, but only until the data
\* next changes (api.py:22-31, 33-45, app.js:10, 26).
NoPageForgotten ==
    \A c \in streams \cap stale :
        queue[c] # <<>> \/ c \in asked \cup fresh \cup excused \/ owed # {}

\* A loss is never silent: as long as a page has not been told of a message it
\* lost, a resync notice is in its queue, which later overflows have not
\* pushed out (api.py:26-31).
LossIsMarked == \A c \in lossy : Contains(queue[c], "resync")

=============================================================================
