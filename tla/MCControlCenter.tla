-------------------------- MODULE MCControlCenter --------------------------
(* The instance of ControlCenter that TLC checks. *)
EXTENDS ControlCenter

CONSTANTS h1, h2, local

MCSources == {h1, h2, local}

Rollouts(atH1, atH2, here) ==
    [s \in MCSources |-> CASE s = h1 -> atH1 [] s = h2 -> atH2 [] s = local -> here]

\* A host whose demand comes and goes beside one whose lines cannot be inserted;
\* an event that raises; a demand that another event follows, and a line of this
\* machine that cannot be inserted.
MCContents ==
    {Rollouts(<<"ask", "done", "raise">>, <<"skip", "poison">>, <<"raise", "ask">>),
     Rollouts(<<"raise">>, <<>>, <<>>),
     Rollouts(<<"ask", "note">>, <<>>, <<"poison">>)}

\* Operators run commands and a rollout grows where there are two hosts, both on
\* h1; the second is there to be in the way.  Pages look on where it is not.
TwoHosts == content[h2] # <<>>
Followed == streams \cup asked \cup fresh \cup old \cup excused # {}
Bounded ==
    /\ \A s \in Sources :
          size[s] = 2 * Len(content[s]) \/ (TwoHosts /\ s = h1 /\ size[s] >= 3)
    /\ Present(h2) = TwoHosts /\ host[h2].enabled = TwoHosts
    /\ sync["api"][h2] = Idle
    /\ \A o \in Operators : call[o] # Unused => TwoHosts /\ call[o].host = h1
    /\ Followed => ~TwoHosts

=============================================================================
