-------------------------------- MODULE WsHub --------------------------------
(***************************************************************************)
(* The WebSocket hub (agent/ws_hub.py) and the handler that registers a    *)
(* connection with it (api/v1/agent_ws.py).  A connection has a bounded    *)
(* queue and a writer task; broadcasting only enqueues.  A connection that *)
(* falls behind is not waited for: a cleanup task takes it out.            *)
(*                                                                         *)
(* A step runs from one await to the next.  A message is its number in the *)
(* order of the broadcasts.                                                *)
(***************************************************************************)
EXTENDS Integers, Sequences

CONSTANTS
    Socket,         \* WebSocket objects: one for each connection ever made
    Session,        \* chat sessions
    NoSession,
    QueueSize,      \* AgentWsHub.queue_size
    MaxMessages     \* bound on the broadcasts

ASSUME WsHubAssumption ==
    /\ QueueSize \in Nat \ {0} /\ MaxMessages \in Nat
    /\ NoSession \notin Session

VARIABLES
    endpoint,   \* agent_session_ws of a socket: where it stands
    line,       \* its transport and starlette's client_state
    peer,       \* its _Peer: [listed, session, monitor, queue]
    writer,     \* its writer task and the message it is sending
    cleanup,    \* sockets with a task in _cleanup_tasks
    count,      \* messages broadcast so far
    due,        \* history: the messages addressed to a listed peer
    sent        \* history: the messages its client was sent

hubVars == <<endpoint, line, peer, writer, cleanup, count, due, sent>>

NoPeer == [listed |-> FALSE, session |-> NoSession, monitor |-> FALSE, queue |-> <<>>]
Message == 1 .. MaxMessages

HubTypeOK ==
    /\ endpoint \in [Socket -> {"new", "waiting", "leaving", "gone"}]
    /\ line \in [Socket -> {"open", "closed", "disconnected"}]
    /\ peer \in [Socket -> [listed : BOOLEAN, session : Session \cup {NoSession}, monitor : BOOLEAN,
                            queue : Seq(Message)]]
    /\ \A k \in Socket : Len(peer[k].queue) <= QueueSize
    /\ writer \in [Socket -> [at : {"none", "idle", "sending", "done"},
                              message : Message \cup {0}]]
    /\ cleanup \subseteq Socket
    /\ count \in 0 .. MaxMessages
    /\ due \in [Socket -> Seq(Message)] /\ sent \in [Socket -> Seq(Message)]

HubInit ==
    /\ endpoint = [k \in Socket |-> "new"]
    /\ line = [k \in Socket |-> "open"]
    /\ peer = [k \in Socket |-> NoPeer]
    /\ writer = [k \in Socket |-> [at |-> "none", message |-> 0]]
    /\ cleanup = {} /\ count = 0
    /\ due = [k \in Socket |-> <<>>] /\ sent = [k \in Socket |-> <<>>]

\* Token, permission agent:use, and ownership of an active session.
Reject(k) ==
    /\ endpoint[k] = "new"
    /\ endpoint' = [endpoint EXCEPT ![k] = "gone"]
    /\ line' = [line EXCEPT ![k] = "closed"]
    /\ UNCHANGED <<peer, writer, cleanup, count, due, sent>>

Connect(k, s, monitor) ==
    /\ endpoint[k] = "new"
    /\ endpoint' = [endpoint EXCEPT ![k] = "waiting"]
    /\ peer' = [peer EXCEPT ![k] = [listed |-> TRUE, session |-> s,
                                    monitor |-> monitor, queue |-> <<>>]]
    /\ writer' = [writer EXCEPT ![k].at = "idle"]
    /\ UNCHANGED <<line, cleanup, count, due, sent>>

(***************************************************************************)
(* Broadcasting                                                            *)
(***************************************************************************)
\* A wrong put_nowait: the queue has no bound.
ReachableAlways(k) == line[k] # "disconnected"
\* A peer whose client is known to have gone, or whose queue is full, gets
\* nothing: _enqueue leaves it to a cleanup task.
Reachable(k) == line[k] # "disconnected" /\ Len(peer[k].queue) < QueueSize

\* A wrong _enqueue: a full queue only costs the peer this message.
CleansOnlyDisconnected(K) ==
    /\ peer' = [k \in Socket |-> IF k \in K /\ Reachable(k)
                                 THEN [peer[k] EXCEPT !.queue = Append(@, count + 1)]
                                 ELSE peer[k]]
    /\ cleanup' = cleanup \cup {k \in K : line[k] = "disconnected"}
Enqueue(K) ==
    /\ peer' = [k \in Socket |-> IF k \in K /\ Reachable(k)
                                 THEN [peer[k] EXCEPT !.queue = Append(@, count + 1)]
                                 ELSE peer[k]]
    /\ cleanup' = cleanup \cup {k \in K : ~Reachable(k)}

SendTo(K) ==
    /\ count < MaxMessages
    /\ Enqueue(K)
    /\ count' = count + 1
    /\ due' = [k \in Socket |-> IF k \in K THEN Append(due[k], count + 1) ELSE due[k]]
    /\ UNCHANGED <<endpoint, line, writer, sent>>

\* Proposals, children and replies go to the peers of their session ...
Broadcast(s) ==
    SendTo({k \in Socket : peer[k].listed /\ peer[k].session = s})
\* ... and monitor alerts to the peers of any session that may read them.
BroadcastMonitorAlert ==
    SendTo({k \in Socket : peer[k].listed /\ peer[k].monitor})

(***************************************************************************)
(* The writer                                                              *)
(***************************************************************************)
WriterTakes(k) ==
    /\ writer[k].at = "idle" /\ peer[k].queue # <<>>
    /\ writer' = [writer EXCEPT ![k] = [at |-> "sending", message |-> Head(peer[k].queue)]]
    /\ peer' = [peer EXCEPT ![k].queue = Tail(@)]
    /\ UNCHANGED <<endpoint, line, cleanup, count, due, sent>>

WriterSends(k) ==
    /\ writer[k].at = "sending" /\ line[k] = "open"
    /\ sent' = [sent EXCEPT ![k] = Append(@, writer[k].message)]
    /\ writer' = [writer EXCEPT ![k] = [at |-> "idle", message |-> 0]]
    /\ UNCHANGED <<endpoint, line, peer, cleanup, count, due>>

Hangs(k) == IF line[k] = "open" THEN [line EXCEPT ![k] = "closed"] ELSE line

\* A send that raises or takes too long ends the writer, which unlists the
\* peer and closes the socket itself (disconnect(from_writer=True)).
WriterFails(k) ==
    /\ writer[k].at = "sending"
    /\ writer' = [writer EXCEPT ![k] = [at |-> "done", message |-> 0]]
    /\ peer' = [peer EXCEPT ![k].listed = FALSE]
    /\ line' = Hangs(k)
    /\ UNCHANGED <<endpoint, cleanup, count, due, sent>>

(***************************************************************************)
(* Leaving.  disconnect does nothing to a peer that is no longer listed.   *)
(***************************************************************************)
Disconnect(k) ==
    IF peer[k].listed
    THEN /\ peer' = [peer EXCEPT ![k].listed = FALSE]
         /\ writer' = [writer EXCEPT ![k] = [at |-> "done", message |-> 0]]
         /\ line' = Hangs(k)
    ELSE UNCHANGED <<peer, writer, line>>

CleanupRuns(k) ==
    /\ k \in cleanup
    /\ cleanup' = cleanup \ {k}
    /\ Disconnect(k)
    /\ UNCHANGED <<endpoint, count, due, sent>>

\* The client closes, or its network goes away.
ClientGoes(k) ==
    /\ line[k] = "open" /\ endpoint[k] # "new"
    /\ line' = [line EXCEPT ![k] = "closed"]
    /\ UNCHANGED <<endpoint, peer, writer, cleanup, count, due, sent>>

\* _drain_until_disconnect ends; client_state follows.
HandlerHears(k) ==
    /\ endpoint[k] = "waiting" /\ line[k] = "closed"
    /\ line' = [line EXCEPT ![k] = "disconnected"]
    /\ endpoint' = [endpoint EXCEPT ![k] = "leaving"]
    /\ UNCHANGED <<peer, writer, cleanup, count, due, sent>>

\* _periodic_reauth closes the socket of a user who has lost the session, the
\* permission or the chat.
ReauthFails(k) ==
    /\ endpoint[k] = "waiting"
    /\ endpoint' = [endpoint EXCEPT ![k] = "leaving"]
    /\ line' = Hangs(k)
    /\ UNCHANGED <<peer, writer, cleanup, count, due, sent>>

\* update_monitor_access, of a peer that is still listed
ReauthPasses(k, monitor) ==
    /\ endpoint[k] = "waiting" /\ peer[k].listed
    /\ peer' = [peer EXCEPT ![k].monitor = monitor]
    /\ UNCHANGED <<endpoint, line, writer, cleanup, count, due, sent>>

\* The finally block of agent_session_ws.
HandlerLeaves(k) ==
    /\ endpoint[k] = "leaving"
    /\ endpoint' = [endpoint EXCEPT ![k] = "gone"]
    /\ Disconnect(k)
    /\ UNCHANGED <<cleanup, count, due, sent>>

HubNext ==
    \/ \E k \in Socket : Reject(k)
    \/ \E k \in Socket, s \in Session, monitor \in BOOLEAN : Connect(k, s, monitor)
    \/ \E s \in Session : Broadcast(s)
    \/ BroadcastMonitorAlert
    \/ \E k \in Socket : WriterTakes(k) \/ WriterSends(k) \/ WriterFails(k)
    \/ \E k \in Socket : CleanupRuns(k) \/ ClientGoes(k) \/ HandlerHears(k) \/ ReauthFails(k)
    \/ \E k \in Socket, monitor \in BOOLEAN : ReauthPasses(k, monitor)
    \/ \E k \in Socket : HandlerLeaves(k)

HubSpec == HubInit /\ [][HubNext]_hubVars

(***************************************************************************)
(* Properties                                                              *)
(***************************************************************************)
InHand(k) == IF writer[k].at = "sending" THEN <<writer[k].message>> ELSE <<>>

\* A listed peer has a handler that will take it out, and, unless a cleanup
\* task is about to, has missed nothing: what it was sent, what the writer has
\* in hand and what is queued are all the messages addressed to it, in order.
\* A client never goes on after a gap (_enqueue, _writer, disconnect).
PeersGetEverything ==
    \A k \in Socket : peer[k].listed =>
        /\ endpoint[k] \in {"waiting", "leaving"}
        /\ k \notin cleanup =>
             /\ writer[k].at \in {"idle", "sending"}
             /\ sent[k] \o InHand(k) \o peer[k].queue = due[k]
=============================================================================
