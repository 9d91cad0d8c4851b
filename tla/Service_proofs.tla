--------------------------- MODULE Service_proofs ---------------------------
(***************************************************************************)
(* Proofs about Service for any number of pages and writers, any number of   *)
(* changes, notifications and faults.                                       *)
(***************************************************************************)
EXTENDS Service, TLAPS

\* The inductive invariant.
ServiceInv == TypeOK /\ NobodySleepsOnNews /\ NoUpdateLost

LEMMA ServiceInitInv ==
    Init => ServiceInv
<1> QED
  BY BoundsAssumption DEF Init, ServiceInv, TypeOK, NobodySleepsOnNews, NoUpdateLost

\* A step keeps the types; a cursor is set to the value, and the value only grows
\* while a stream is open.
LEMMA ServiceTypeStep ==
    ASSUME TypeOK, [Next]_vars
    PROVE  TypeOK'
<1>1. ASSUME WriteSilently
     PROVE  TypeOK'
  BY <1>1 DEF WriteSilently, TypeOK, writerVars, threadVars, pageVars
<1>2. ASSUME NEW w \in Writers, Write(w)
     PROVE  TypeOK'
  BY <1>2 DEF Write, TypeOK, writerVars, threadVars, pageVars
<1>3. ASSUME NEW w \in Writers, Raise(w)
     PROVE  TypeOK'
  BY <1>3 DEF Raise, TypeOK, writerVars, threadVars, pageVars
<1>4. ASSUME NEW w \in Writers, Notify(w)
     PROVE  TypeOK'
  BY <1>4 DEF Notify, Woken, TypeOK, writerVars, threadVars, pageVars
<1>5. ASSUME NEW c \in Pages, Connect(c)
     PROVE  TypeOK'
  BY <1>5 DEF Connect, Goto, TypeOK, writerVars, threadVars, pageVars
<1>6. ASSUME NEW c \in Pages, Greet(c)
     PROVE  TypeOK'
  BY <1>6 DEF Greet, Goto, TypeOK, writerVars, threadVars, pageVars
<1>7. ASSUME NEW c \in Pages, Look(c)
     PROVE  TypeOK'
  BY <1>7 DEF Look, Goto, Returned, TypeOK, writerVars, threadVars, pageVars
<1>8. ASSUME NEW c \in Pages, TimeOut(c)
     PROVE  TypeOK'
  BY <1>8 DEF TimeOut, Goto, TypeOK, writerVars, threadVars, pageVars
<1>9. ASSUME NEW c \in Pages, Resume(c)
     PROVE  TypeOK'
  BY <1>9 DEF Resume, Goto, Returned, TypeOK, writerVars, threadVars, pageVars
<1>10. ASSUME NEW c \in Pages, Send(c)
     PROVE  TypeOK'
  BY <1>10 DEF Send, Goto, TypeOK, writerVars, threadVars, pageVars
<1>11. ASSUME NEW c \in Pages, Break(c)
     PROVE  TypeOK'
  BY <1>11 DEF Break, Goto, Fault, TypeOK, writerVars, threadVars, pageVars
<1>12. ASSUME NEW c \in Pages, Deliver(c)
     PROVE  TypeOK'
  BY <1>12 DEF Deliver, TypeOK, writerVars, threadVars, pageVars
<1>13. ASSUME NEW c \in Pages, Fire(c)
     PROVE  TypeOK'
  BY <1>13 DEF Fire, TypeOK, writerVars, threadVars, pageVars
<1>14. ASSUME NEW c \in Pages, Answer(c)
     PROVE  TypeOK'
  BY <1>14 DEF Answer, TypeOK, writerVars, threadVars, pageVars
<1>15. ASSUME NEW c \in Pages, NEW v \in Versions, Arrive(c, v)
     PROVE  TypeOK'
  BY <1>15 DEF Arrive, TypeOK, writerVars, threadVars, pageVars
<1>16. ASSUME NEW c \in Pages, Touch(c)
     PROVE  TypeOK'
  BY <1>16 DEF Touch, TypeOK, writerVars, threadVars, pageVars
<1>17. ASSUME NEW c \in Pages, FetchFails(c)
     PROVE  TypeOK'
  BY <1>17 DEF FetchFails, Fault, TypeOK, writerVars, threadVars, pageVars
<1>18. ASSUME Restart
     PROVE  TypeOK'
  BY <1>18 DEF Restart, Restarted, Fault, TypeOK, writerVars, threadVars, pageVars
<1>19. CASE UNCHANGED vars
  BY <1>19 DEF vars, TypeOK, writerVars, threadVars, pageVars
<1> QED
  BY <1>1, <1>2, <1>3, <1>4, <1>5, <1>6, <1>7, <1>8, <1>9, <1>10, <1>11, <1>12, <1>13, <1>14, <1>15, <1>16, <1>17, <1>18, <1>19
     DEF Next, WriterStep, ThreadStep, PageStep

\* A thread goes to sleep only on the value its cursor holds, and every
\* notification wakes it.
LEMMA SleepStep ==
    ASSUME TypeOK, NobodySleepsOnNews, [Next]_vars
    PROVE  NobodySleepsOnNews'
<1>1. ASSUME WriteSilently
     PROVE  NobodySleepsOnNews'
  BY <1>1 DEF WriteSilently, TypeOK, NobodySleepsOnNews, writerVars, threadVars, pageVars
<1>2. ASSUME NEW w \in Writers, Write(w)
     PROVE  NobodySleepsOnNews'
  BY <1>2 DEF Write, TypeOK, NobodySleepsOnNews, writerVars, threadVars, pageVars
<1>3. ASSUME NEW w \in Writers, Raise(w)
     PROVE  NobodySleepsOnNews'
  BY <1>3 DEF Raise, TypeOK, NobodySleepsOnNews, writerVars, threadVars, pageVars
<1>4. ASSUME NEW w \in Writers, Notify(w)
     PROVE  NobodySleepsOnNews'
  BY <1>4 DEF Notify, Woken, TypeOK, NobodySleepsOnNews, writerVars, threadVars, pageVars
<1>5. ASSUME NEW c \in Pages, Connect(c)
     PROVE  NobodySleepsOnNews'
  BY <1>5 DEF Connect, Goto, TypeOK, NobodySleepsOnNews, writerVars, threadVars, pageVars
<1>6. ASSUME NEW c \in Pages, Greet(c)
     PROVE  NobodySleepsOnNews'
  BY <1>6 DEF Greet, Goto, TypeOK, NobodySleepsOnNews, writerVars, threadVars, pageVars
<1>7. ASSUME NEW c \in Pages, Look(c)
     PROVE  NobodySleepsOnNews'
  BY <1>7 DEF Look, Goto, Returned, TypeOK, NobodySleepsOnNews, writerVars, threadVars, pageVars
<1>8. ASSUME NEW c \in Pages, TimeOut(c)
     PROVE  NobodySleepsOnNews'
  BY <1>8 DEF TimeOut, Goto, TypeOK, NobodySleepsOnNews, writerVars, threadVars, pageVars
<1>9. ASSUME NEW c \in Pages, Resume(c)
     PROVE  NobodySleepsOnNews'
  BY <1>9 DEF Resume, Goto, Returned, TypeOK, NobodySleepsOnNews, writerVars, threadVars, pageVars
<1>10. ASSUME NEW c \in Pages, Send(c)
     PROVE  NobodySleepsOnNews'
  BY <1>10 DEF Send, Goto, TypeOK, NobodySleepsOnNews, writerVars, threadVars, pageVars
<1>11. ASSUME NEW c \in Pages, Break(c)
     PROVE  NobodySleepsOnNews'
  BY <1>11 DEF Break, Goto, Fault, TypeOK, NobodySleepsOnNews, writerVars, threadVars, pageVars
<1>12. ASSUME NEW c \in Pages, Deliver(c)
     PROVE  NobodySleepsOnNews'
  BY <1>12 DEF Deliver, TypeOK, NobodySleepsOnNews, writerVars, threadVars, pageVars
<1>13. ASSUME NEW c \in Pages, Fire(c)
     PROVE  NobodySleepsOnNews'
  BY <1>13 DEF Fire, TypeOK, NobodySleepsOnNews, writerVars, threadVars, pageVars
<1>14. ASSUME NEW c \in Pages, Answer(c)
     PROVE  NobodySleepsOnNews'
  BY <1>14 DEF Answer, TypeOK, NobodySleepsOnNews, writerVars, threadVars, pageVars
<1>15. ASSUME NEW c \in Pages, NEW v \in Versions, Arrive(c, v)
     PROVE  NobodySleepsOnNews'
  BY <1>15 DEF Arrive, TypeOK, NobodySleepsOnNews, writerVars, threadVars, pageVars
<1>16. ASSUME NEW c \in Pages, Touch(c)
     PROVE  NobodySleepsOnNews'
  BY <1>16 DEF Touch, TypeOK, NobodySleepsOnNews, writerVars, threadVars, pageVars
<1>17. ASSUME NEW c \in Pages, FetchFails(c)
     PROVE  NobodySleepsOnNews'
  BY <1>17 DEF FetchFails, Fault, TypeOK, NobodySleepsOnNews, writerVars, threadVars, pageVars
<1>18. ASSUME Restart
     PROVE  NobodySleepsOnNews'
  BY <1>18 DEF Restart, Restarted, Fault, TypeOK, NobodySleepsOnNews, writerVars, threadVars, pageVars
<1>19. CASE UNCHANGED vars
  BY <1>19 DEF vars, TypeOK, NobodySleepsOnNews, writerVars, threadVars, pageVars
<1> QED
  BY <1>1, <1>2, <1>3, <1>4, <1>5, <1>6, <1>7, <1>8, <1>9, <1>10, <1>11, <1>12, <1>13, <1>14, <1>15, <1>16, <1>17, <1>18, <1>19
     DEF Next, WriterStep, ThreadStep, PageStep

\* A refresh that is due is handed on, from the value to the stream, the timer,
\* the fetch and its answer, and never dropped on the way.
LEMMA FollowStep ==
    ASSUME TypeOK, NoUpdateLost, [Next]_vars
    PROVE  NoUpdateLost'
<1>1. ASSUME WriteSilently
     PROVE  NoUpdateLost'
  BY <1>1 DEF WriteSilently, TypeOK, NoUpdateLost, writerVars, threadVars, pageVars
<1>2. ASSUME NEW w \in Writers, Write(w)
     PROVE  NoUpdateLost'
  BY <1>2 DEF Write, TypeOK, NoUpdateLost, writerVars, threadVars, pageVars
<1>3. ASSUME NEW w \in Writers, Raise(w)
     PROVE  NoUpdateLost'
  BY <1>3 DEF Raise, TypeOK, NoUpdateLost, writerVars, threadVars, pageVars
<1>4. ASSUME NEW w \in Writers, Notify(w)
     PROVE  NoUpdateLost'
  BY <1>4 DEF Notify, Woken, TypeOK, NoUpdateLost, writerVars, threadVars, pageVars
<1>5. ASSUME NEW c \in Pages, Connect(c)
     PROVE  NoUpdateLost'
  BY <1>5 DEF Connect, Goto, TypeOK, NoUpdateLost, writerVars, threadVars, pageVars
<1>6. ASSUME NEW c \in Pages, Greet(c)
     PROVE  NoUpdateLost'
  BY <1>6 DEF Greet, Goto, TypeOK, NoUpdateLost, writerVars, threadVars, pageVars
<1>7. ASSUME NEW c \in Pages, Look(c)
     PROVE  NoUpdateLost'
  BY <1>7 DEF Look, Goto, Returned, TypeOK, NoUpdateLost, writerVars, threadVars, pageVars
<1>8. ASSUME NEW c \in Pages, TimeOut(c)
     PROVE  NoUpdateLost'
  BY <1>8 DEF TimeOut, Goto, TypeOK, NoUpdateLost, writerVars, threadVars, pageVars
<1>9. ASSUME NEW c \in Pages, Resume(c)
     PROVE  NoUpdateLost'
  BY <1>9 DEF Resume, Goto, Returned, TypeOK, NoUpdateLost, writerVars, threadVars, pageVars
<1>10. ASSUME NEW c \in Pages, Send(c)
     PROVE  NoUpdateLost'
  BY <1>10 DEF Send, Goto, TypeOK, NoUpdateLost, writerVars, threadVars, pageVars
<1>11. ASSUME NEW c \in Pages, Break(c)
     PROVE  NoUpdateLost'
  BY <1>11 DEF Break, Goto, Fault, TypeOK, NoUpdateLost, writerVars, threadVars, pageVars
<1>12. ASSUME NEW c \in Pages, Deliver(c)
     PROVE  NoUpdateLost'
  BY <1>12 DEF Deliver, TypeOK, NoUpdateLost, writerVars, threadVars, pageVars
<1>13. ASSUME NEW c \in Pages, Fire(c)
     PROVE  NoUpdateLost'
  BY <1>13 DEF Fire, TypeOK, NoUpdateLost, writerVars, threadVars, pageVars
<1>14. ASSUME NEW c \in Pages, Answer(c)
     PROVE  NoUpdateLost'
  BY <1>14 DEF Answer, TypeOK, NoUpdateLost, writerVars, threadVars, pageVars
<1>15. ASSUME NEW c \in Pages, NEW v \in Versions, Arrive(c, v)
     PROVE  NoUpdateLost'
  BY <1>15 DEF Arrive, TypeOK, NoUpdateLost, writerVars, threadVars, pageVars
<1>16. ASSUME NEW c \in Pages, Touch(c)
     PROVE  NoUpdateLost'
  BY <1>16 DEF Touch, TypeOK, NoUpdateLost, writerVars, threadVars, pageVars
<1>17. ASSUME NEW c \in Pages, FetchFails(c)
     PROVE  NoUpdateLost'
  BY <1>17 DEF FetchFails, Fault, TypeOK, NoUpdateLost, writerVars, threadVars, pageVars
<1>18. ASSUME Restart
     PROVE  NoUpdateLost'
  BY <1>18 DEF Restart, Restarted, Fault, TypeOK, NoUpdateLost, writerVars, threadVars, pageVars
<1>19. CASE UNCHANGED vars
  BY <1>19 DEF vars, TypeOK, NoUpdateLost, writerVars, threadVars, pageVars
<1> QED
  BY <1>1, <1>2, <1>3, <1>4, <1>5, <1>6, <1>7, <1>8, <1>9, <1>10, <1>11, <1>12, <1>13, <1>14, <1>15, <1>16, <1>17, <1>18, <1>19
     DEF Next, WriterStep, ThreadStep, PageStep

\* The invariant holds in every state, whatever the pages and writers.
THEOREM ServiceIsSafe ==
    Spec => []ServiceInv
<1>1. ServiceInv /\ [Next]_vars => ServiceInv'
  BY ServiceTypeStep, SleepStep, FollowStep DEF ServiceInv
<1> QED
  BY ServiceInitInv, <1>1, PTL DEF Spec

\* The types of the notifier, the streams and the pages.
THEOREM ServiceTypeCorrect ==
    Spec => []TypeOK
<1> QED
  BY ServiceIsSafe, PTL DEF ServiceInv

\* No thread of a stream sleeps on a change (service.py:31-35).
THEOREM NobodySleeps ==
    Spec => []NobodySleepsOnNews
<1> QED
  BY ServiceIsSafe, PTL DEF ServiceInv

\* No page with an open stream misses a notification (server.py:217-232).
THEOREM UpdatesReachPages ==
    Spec => []NoUpdateLost
<1> QED
  BY ServiceIsSafe, PTL DEF ServiceInv

=============================================================================
