-------------------------- MODULE MCServerSessions --------------------------
(***************************************************************************)
(* Instances of ServerSessions for TLC.                                    *)
(***************************************************************************)
EXTENDS ServerSessions

\* Nothing a connection task or a data task does depends on the value of a
\* session id, but only on there being one, nor on which messages wait in a
\* queue, but only on how many.  So states that differ in these alone have the
\* same future, and TLC explores one of them: sessions come and go without a
\* bound.  MaxId exceeds the length of every shortest behaviour, so that it
\* does not stop one.
CallView(c) ==
    CASE c.call = "send" -> <<"send", c.to, StreamCall(c)>>
      [] c.call = "data" -> <<"data", c.to, c.cmd>>
      [] c.call = "stop_other" -> <<"stop_other", c.to>>
      [] c.call = "rebuffer" -> <<"rebuffer">>

TaskView ==
    <<active, [s \in Slots |-> Live(s)], stream_started, primaryVars, pc,
      [s \in Slots |-> [i \in DOMAIN todo[s] |-> CallView(todo[s][i])]],
      [s \in Slots |-> Len(reqActionQueue[s])]>>

StreamView == <<TaskView, startStopQueue, running, upset>>

\* What the data tasks do with their commands does not act back on the
\* sessions, which only see whether there is room for another one.
SessionView ==
    <<TaskView, [d \in Protos |-> Len(startStopQueue[d])], upset \ {"disturbed"}>>

\* Where something has upset the stream DataFollowsFlags says nothing any more.
Undisturbed == upset \subseteq {"replaced"}

=============================================================================
