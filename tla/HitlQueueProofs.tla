--------------------------- MODULE HitlQueueProofs ---------------------------
(* Theorems about HitlQueue, for every set of tickets, handlers, requests, *)
(* proposals and runs, and for every capacity.                             *)
EXTENDS HitlQueue, HitlExecutionProofs

-----------------------------------------------------------------------------
(* What the elementary updates do. *)

\* A handler that only moves on.
LEMMA Moved ==
    ASSUME QueueTypeOK, NEW h \in Handlers, NEW to \in HandlerSteps, Moves(h, to)
    PROVE  /\ handler' \in [Handlers -> [at : HandlerSteps, of : Proposals \cup {None},
                                         req : Requests \cup {None}, held : Tickets \cup {None},
                                         resumes : BOOLEAN]]
           /\ handler'[h].at = to
           /\ \A k \in Handlers : /\ handler'[k].of = handler[k].of
                                  /\ handler'[k].held = handler[k].held
                                  /\ handler'[k].req = handler[k].req
                                  /\ k # h => handler'[k].at = handler[k].at
BY DEF QueueTypeOK, Moves

\* A ticket whose task enters another phase.
LEMMA Entered ==
    ASSUME QueueTypeOK, NEW t \in Tickets, NEW ph \in Phases, Enter(t, ph)
    PROVE  /\ ticket' \in [Tickets -> [of : Proposals \cup {None}, id : Requests \cup {None},
                                       phase : Phases]]
           /\ Phase(t)' = ph
           /\ \A u \in Tickets : /\ ticket'[u].of = ticket[u].of
                                 /\ ticket'[u].id = ticket[u].id
                                 /\ u # t => Phase(u)' = Phase(u)
BY DEF QueueTypeOK, Enter, Phase

\* start gives a held ticket a task and leaves every other one alone.
LEMMA Started ==
    ASSUME QueueTypeOK, NEW t \in Tickets, StartTask(t)
    PROVE  /\ ticket' \in [Tickets -> [of : Proposals \cup {None}, id : Requests \cup {None},
                                       phase : Phases]]
           /\ Phase(t)' = IF Phase(t) = "held" THEN "waiting" ELSE Phase(t)
           /\ \A u \in Tickets : /\ ticket'[u].of = ticket[u].of
                                 /\ ticket'[u].id = ticket[u].id
                                 /\ u # t => Phase(u)' = Phase(u)
<1>1. CASE Phase(t) = "held"
  BY <1>1, Entered DEF StartTask, Phases
<1>2. CASE Phase(t) # "held"
  BY <1>2 DEF StartTask, QueueTypeOK, Phase
<1>. QED  BY <1>1, <1>2

\* release takes the ticket, and nothing else, out of the table.
LEMMA Released ==
    ASSUME QueueTypeOK, NEW t \in Tickets, ticket[t].of \in Proposals, Release(t)
    PROVE  /\ table' \in [Proposals -> Tickets \cup {None}]
           /\ table'[ticket[t].of] # t
           /\ \A p \in Proposals : table'[p] \in {table[p], None}
           /\ \A p \in Proposals : p # ticket[t].of => table'[p] = table[p]
BY QueueAssumption DEF QueueTypeOK, Release

\* reserve puts a fresh ticket into the table.
LEMMA Reserved ==
    ASSUME QueueTypeOK, NEW p \in Proposals, NEW t \in Tickets, NEW q \in Requests,
           NewTicket(p, t, q)
    PROVE  /\ ticket' \in [Tickets -> [of : Proposals \cup {None}, id : Requests \cup {None},
                                       phase : Phases]]
           /\ table' \in [Proposals -> Tickets \cup {None}]
           /\ Phase(t) = "free" /\ Phase(t)' = "held"
           /\ ticket'[t].of = p /\ ticket'[t].id = q /\ table'[p] = t
           /\ \A u \in Tickets : u # t => ticket'[u] = ticket[u]
           /\ \A x \in Proposals : x # p => table'[x] = table[x]
BY DEF QueueTypeOK, NewTicket, Phase, Phases

-----------------------------------------------------------------------------
(* The inductive invariant, one lemma for each group of actions. *)

LEMMA QueueInvInit == QueueInit => QueueInv
BY QueueAssumption
DEF QueueInit, QueueInv, QueueTypeOK, HandlerShape, TicketShape, RowShape, TableShape,
    NoStrandedTicket, Ticketed, Engaged, Phase, Phases, HasTask, RowStatuses, HandlerSteps

\* A new ticket is held by the handler that has reserved it.
LEMMA QueueInvReserve ==
    ASSUME QueueInv, NEW h \in Handlers, NEW p \in Proposals, NEW t \in Tickets,
           NEW q \in Requests, ~Ticketed(p), NewTicket(p, t, q), handler[h].of \in {p, None},
           handler[h].at \in {"idle", "read"},
           \E to \in {"deciding", "retrying"} :
              handler' = [handler EXCEPT ![h] = [@ EXCEPT !.at = to, !.of = p, !.held = t]],
           UNCHANGED <<row, view, boot>>
    PROVE  QueueInv'
<1>0. QueueTypeOK
  BY DEF QueueInv
<1>1. /\ handler' \in [Handlers -> [at : HandlerSteps, of : Proposals \cup {None},
                                    req : Requests \cup {None}, held : Tickets \cup {None},
                                    resumes : BOOLEAN]]
      /\ handler'[h].at \in {"deciding", "retrying"}
      /\ handler'[h].of = p /\ handler'[h].held = t /\ handler'[h].req = handler[h].req
      /\ \A k \in Handlers : k # h => handler'[k] = handler[k]
  <2>1. PICK to \in {"deciding", "retrying"} :
            handler' = [handler EXCEPT ![h] = [@ EXCEPT !.at = to, !.of = p, !.held = t]]
    OBVIOUS
  <2>2. handler[h] \in [at : HandlerSteps, of : Proposals \cup {None},
                        req : Requests \cup {None}, held : Tickets \cup {None},
                        resumes : BOOLEAN]
    BY <1>0 DEF QueueTypeOK
  <2>3. handler' = [handler EXCEPT ![h] =
            [at |-> to, of |-> p, req |-> handler[h].req, held |-> t,
             resumes |-> handler[h].resumes]]
    BY <2>1, <2>2
  <2>. QED  BY <1>0, <2>2, <2>3 DEF QueueTypeOK, HandlerSteps
<1>2. QueueTypeOK'
  BY <1>0, <1>1, Reserved DEF QueueTypeOK
<1>3. (\A k \in Handlers : HandlerShape(k))'
  BY <1>0, <1>1, Reserved DEF QueueInv, HandlerShape, Phase
<1>4. (\A u \in Tickets : TicketShape(u))' /\ (\A x \in Requests : RowShape(x))'
  BY <1>0, Reserved DEF QueueInv, TicketShape, RowShape, Phase
<1>5. (\A x \in Proposals : TableShape(x))'
  <2> SUFFICES ASSUME NEW x \in Proposals PROVE TableShape(x)'
    OBVIOUS
  <2>1. CASE x = p
    BY <1>0, <2>1, Reserved DEF TableShape
  <2>2. CASE x # p
    BY <1>0, <2>2, Reserved
    DEF QueueInv, QueueTypeOK, TableShape, Ticketed, Engaged, HasTask, Phase
  <2>. QED  BY <2>1, <2>2
<1>6. NoStrandedTicket'
  <2> SUFFICES ASSUME NEW x \in Proposals, Ticketed(x)'
               PROVE  \/ Engaged(table[x])'
                      \/ \E k \in Handlers : /\ handler'[k].at \in {"deciding", "retrying"}
                                             /\ handler'[k].held = table'[x]
    BY DEF NoStrandedTicket
  <2>1. CASE x = p
    BY <1>0, <1>1, <2>1, Reserved
  <2>2. CASE x # p
    <3>1. table'[x] = table[x] /\ table[x] \in Tickets /\ Phase(table[x]) # "free"
      BY <1>0, <2>2, Reserved DEF QueueInv, QueueTypeOK, TableShape, Ticketed, Engaged, HasTask
    <3>2. Phase(table[x])' = Phase(table[x])
      BY <1>0, <3>1, Reserved DEF Phase
    <3>. QED
      BY <1>1, <2>2, <3>1, <3>2 DEF QueueInv, NoStrandedTicket, Ticketed, Engaged
  <2>. QED  BY <2>1, <2>2
<1>. QED  BY <1>2, <1>3, <1>4, <1>5, <1>6 DEF QueueInv

\* A handler that reads, or adopts a ticket of the table, or turns away.
LEMMA QueueInvRead ==
    ASSUME QueueInv, NEW h \in Handlers,
           handler' \in [Handlers -> [at : HandlerSteps, of : Proposals \cup {None},
                                      req : Requests \cup {None}, held : Tickets \cup {None},
                                      resumes : BOOLEAN]],
           \A k \in Handlers : k # h => handler'[k] = handler[k],
           handler[h].at \notin {"deciding", "retrying"},
           handler'[h].req # None => row[handler'[h].req].st # "none",
           \/ handler'[h].at = "done"
           \/ handler'[h].at \in {"checked", "read"} /\ handler'[h].of \in Proposals
           \/ /\ handler'[h].at = "retrying" /\ handler'[h].of \in Proposals
              /\ Ticketed(handler'[h].of) /\ handler'[h].held = table[handler'[h].of],
           UNCHANGED <<table, ticket, row, view, boot>>
    PROVE  QueueInv'
<1>1. QueueTypeOK'
  BY DEF QueueInv, QueueTypeOK
<1>2. (\A k \in Handlers : HandlerShape(k))'
  <2> SUFFICES ASSUME NEW k \in Handlers PROVE HandlerShape(k)'
    OBVIOUS
  <2>1. CASE k # h
    BY <2>1 DEF QueueInv, HandlerShape, Phase
  <2>2. CASE k = h
    <3>1. ASSUME Ticketed(handler'[h].of), handler'[h].of \in Proposals
          PROVE  /\ table[handler'[h].of] \in Tickets
                 /\ Phase(table[handler'[h].of]) # "free"
                 /\ ticket[table[handler'[h].of]].of = handler'[h].of
      BY <3>1 DEF QueueInv, QueueTypeOK, TableShape, Ticketed, Engaged, HasTask
    <3>. QED  BY <2>2, <3>1 DEF HandlerShape, Phase
  <2>. QED  BY <2>1, <2>2
<1>3. /\ (\A u \in Tickets : TicketShape(u))' /\ (\A q \in Requests : RowShape(q))'
      /\ (\A p \in Proposals : TableShape(p))'
  BY DEF QueueInv, TicketShape, RowShape, TableShape, Ticketed, Engaged, Phase
<1>4. NoStrandedTicket'
  BY DEF QueueInv, NoStrandedTicket, Ticketed, Engaged, Phase
<1>. QED  BY <1>1, <1>2, <1>3, <1>4 DEF QueueInv

\* A handler that commits and starts its ticket.
LEMMA QueueInvCommit ==
    ASSUME QueueInv, NEW h \in Handlers, handler[h].at \in {"deciding", "retrying"},
           StartTask(handler[h].held), Moves(h, "done"),
           row' \in [Requests -> [of : Proposals \cup {None}, st : RowStatuses]],
           \A q \in Requests :
              row'[q] = row[q] \/ (row'[q].st # "none" /\ row'[q].of \in Proposals),
           UNCHANGED <<table, view, boot>>
    PROVE  QueueInv'
<1> DEFINE t == handler[h].held
<1>0. QueueTypeOK /\ t \in Tickets /\ Phase(t) # "free" /\ "done" \in HandlerSteps
  BY DEF QueueInv, HandlerShape, HandlerSteps
<1>1. QueueTypeOK'
  BY <1>0, Moved, Started DEF QueueTypeOK
<1>2. (\A k \in Handlers : HandlerShape(k))'
  BY <1>0, Moved, Started DEF QueueInv, HandlerShape
<1>3. (\A u \in Tickets : TicketShape(u))' /\ (\A q \in Requests : RowShape(q))'
  BY <1>0, Started DEF QueueInv, QueueTypeOK, TicketShape, RowShape
<1>4. \A u \in Tickets :
          /\ Phase(u) = "held" => IF u = t THEN Engaged(u)' ELSE Phase(u)' = "held"
          /\ Engaged(u) => Engaged(u)'
  <2> TAKE u \in Tickets
  <2>1. CASE u = t
    BY <1>0, <2>1, Started DEF Engaged, HasTask, Phases
  <2>2. CASE u # t
    BY <1>0, <2>2, Started DEF Engaged
  <2>. QED  BY <2>1, <2>2
<1>5. (\A p \in Proposals : TableShape(p))'
  BY <1>0, <1>4, Started DEF QueueInv, QueueTypeOK, TableShape, Ticketed
<1>6. NoStrandedTicket'
  BY <1>0, <1>4, Moved DEF QueueInv, QueueTypeOK, NoStrandedTicket, TableShape, Ticketed
<1>. QED  BY <1>1, <1>2, <1>3, <1>5, <1>6 DEF QueueInv

\* A handler that fails and gives back a ticket nobody has started.
LEMMA QueueInvFail ==
    ASSUME QueueInv, NEW h \in Handlers, handler[h].at \in {"deciding", "retrying"},
           Release(handler[h].held) \/ (Phase(handler[h].held) # "held" /\ UNCHANGED table),
           Moves(h, "done"), UNCHANGED <<ticket, row, view, boot>>
    PROVE  QueueInv'
<1> DEFINE t == handler[h].held
<1>0. /\ QueueTypeOK /\ t \in Tickets /\ ticket[t].of \in Proposals
      /\ "done" \in HandlerSteps
  BY DEF QueueInv, HandlerShape, HandlerSteps
<1>1. /\ table' \in [Proposals -> Tickets \cup {None}]
      /\ \A p \in Proposals : table'[p] # None => table'[p] = table[p]
      /\ \A p \in Proposals : table'[p] = t => Phase(t) # "held"
  BY <1>0, Released, QueueAssumption DEF QueueInv, QueueTypeOK, TableShape, Ticketed
<1>2. QueueTypeOK'
  BY <1>0, <1>1, Moved DEF QueueTypeOK
<1>3. (\A k \in Handlers : HandlerShape(k))'
  BY <1>0, Moved DEF QueueInv, HandlerShape, Phase
<1>4. (\A u \in Tickets : TicketShape(u))' /\ (\A q \in Requests : RowShape(q))'
  BY DEF QueueInv, TicketShape, RowShape, Phase
<1>5. (\A p \in Proposals : TableShape(p))'
  BY <1>1 DEF QueueInv, TableShape, Ticketed, Engaged, Phase
<1>6. NoStrandedTicket'
  <2> SUFFICES ASSUME NEW p \in Proposals, table'[p] # None
               PROVE  \/ Engaged(table[p])
                      \/ \E k \in Handlers : /\ handler'[k].at \in {"deciding", "retrying"}
                                             /\ handler'[k].held = table[p]
    BY <1>1 DEF NoStrandedTicket, Ticketed, Engaged, Phase
  <2>1. CASE table[p] = t
    BY <1>0, <1>1, <2>1 DEF QueueInv, TableShape, Ticketed
  <2>2. CASE table[p] # t
    BY <1>0, <1>1, <2>2, Moved DEF QueueInv, NoStrandedTicket, Ticketed
  <2>. QED  BY <2>1, <2>2
<1>. QED  BY <1>2, <1>3, <1>4, <1>5, <1>6 DEF QueueInv

\* A task that goes on, without leaving the table or after it has left it.
LEMMA QueueInvTask ==
    ASSUME QueueInv, NEW t \in Tickets, NEW ph \in Phases, Enter(t, ph),
           Phase(t) \in HasTask, ph \notin {"free", "held"},
           Engaged(t) => ph \notin {"pumping", "starting", "done"},
           row' \in [Requests -> [of : Proposals \cup {None}, st : RowStatuses]],
           \A q \in Requests : /\ row'[q].of = row[q].of
                               /\ row[q].st = "none" <=> row'[q].st = "none",
           view' \in [Tickets -> SUBSET Requests],
           \A u \in Tickets : view'[u] \subseteq view[u] \cup {q \in Requests : row[q].st # "none"},
           UNCHANGED <<table, handler, boot>>
    PROVE  QueueInv'
<1>0. QueueTypeOK
  BY DEF QueueInv
<1>1. QueueTypeOK'
  BY <1>0, Entered DEF QueueTypeOK
<1>2. (\A k \in Handlers : HandlerShape(k))'
  BY <1>0, Entered DEF QueueInv, QueueTypeOK, HandlerShape
<1>3. (\A u \in Tickets : TicketShape(u))' /\ (\A q \in Requests : RowShape(q))'
  BY <1>0, Entered DEF QueueInv, QueueTypeOK, TicketShape, RowShape, HasTask
<1>4. \A u \in Tickets : /\ Phase(u) = "held" => Phase(u)' = "held"
                         /\ Engaged(u) => Engaged(u)'
  BY <1>0, Entered DEF Engaged, HasTask, Phases
<1>5. (\A p \in Proposals : TableShape(p))'
  BY <1>0, <1>4, Entered DEF QueueInv, QueueTypeOK, TableShape, Ticketed
<1>6. NoStrandedTicket'
  BY <1>0, <1>4 DEF QueueInv, QueueTypeOK, NoStrandedTicket, Ticketed
<1>. QED  BY <1>1, <1>2, <1>3, <1>5, <1>6 DEF QueueInv

\* A task that gives its ticket back.
LEMMA QueueInvLeave ==
    ASSUME QueueInv, NEW t \in Tickets, Leave(t)
    PROVE  QueueInv'
<1>0. /\ QueueTypeOK /\ ticket[t].of \in Proposals /\ Phase(t) # "held"
      /\ UNCHANGED <<handler, view, boot, row>>
  BY DEF QueueInv, TicketShape, Leave, TaskOnly
<1>1. PICK ph \in {"pumping", "done"} : Enter(t, ph)
  BY DEF Leave
<1>2. ph \in Phases
  BY DEF Phases
<1>3. QueueTypeOK'
  BY <1>0, <1>1, <1>2, Entered, Released DEF QueueTypeOK, Leave
<1>4. (\A k \in Handlers : HandlerShape(k))'
  BY <1>0, <1>1, <1>2, Entered DEF QueueInv, HandlerShape
<1>5. (\A u \in Tickets : TicketShape(u))' /\ (\A q \in Requests : RowShape(q))'
  BY <1>0, <1>1, <1>2, Entered DEF QueueInv, TicketShape, RowShape, Leave
<1>6. \A p \in Proposals : Ticketed(p)' => table'[p] = table[p] /\ table[p] # t
  BY <1>0, Released, QueueAssumption DEF QueueInv, TableShape, Ticketed, Leave
<1>7. (\A p \in Proposals : TableShape(p))'
  BY <1>0, <1>1, <1>2, <1>6, Entered DEF QueueInv, QueueTypeOK, TableShape, Ticketed, Engaged
<1>8. NoStrandedTicket'
  BY <1>0, <1>1, <1>2, <1>6, Entered
  DEF QueueInv, QueueTypeOK, NoStrandedTicket, Ticketed, Engaged
<1>. QED  BY <1>3, <1>4, <1>5, <1>7, <1>8 DEF QueueInv

\* A pump, of a task that ends with it or of the startup.
LEMMA QueueInvPump ==
    ASSUME QueueInv, NEW V \in SUBSET Requests, \A q \in V : row[q].st # "none",
           NEW by \in Tickets \cup {None}, by # None => Phase(by) = "starting",
           StartRows(V, by), UNCHANGED <<handler, row>>,
           view' \in [Tickets -> SUBSET Requests], \A t \in Tickets : view'[t] \subseteq view[t],
           boot' \in {boot, "serving"}
    PROVE  QueueInv'
<1> DEFINE free == {t \in Tickets : Phase(t) = "free" /\ pc[t] = "idle"}
<1>0. QueueTypeOK
  BY DEF QueueInv
<1>. PICK S \in SUBSET V : \E f \in [S -> free] :
        (\A a, b \in S : f[a] = f[b] => a = b) /\ Adopt(S, f, V, by)
  BY DEF StartRows
<1>1. PICK f \in [S -> free] :
        (\A a, b \in S : f[a] = f[b] => a = b) /\ Adopt(S, f, V, by)
  OBVIOUS
<1>2. \A q \in S : /\ row[q].of \in Proposals /\ f[q] \in Tickets /\ Phase(f[q]) = "free"
                   /\ ticket'[f[q]] = [of |-> row[q].of, id |-> q, phase |-> "waiting"]
                   /\ ticket'[f[q]].of = row[q].of /\ ticket'[f[q]].phase = "waiting"
  BY <1>1 DEF QueueInv, RowShape, Adopt
<1>3. \A t \in Tickets :
        \/ \E q \in S : t = f[q]
        \/ /\ ticket'[t].of = ticket[t].of /\ ticket'[t].id = ticket[t].id
           /\ \/ ticket'[t].phase = Phase(t)
              \/ Phase(t) = "held" /\ ticket'[t].phase = "waiting"
              \/ Phase(t) = "starting" /\ ticket'[t].phase = "done"
  <2> SUFFICES ASSUME NEW t \in Tickets, ~\E q \in S : f[q] = t
               PROVE  /\ ticket'[t].of = ticket[t].of /\ ticket'[t].id = ticket[t].id
                      /\ \/ ticket'[t].phase = Phase(t)
                         \/ Phase(t) = "held" /\ ticket'[t].phase = "waiting"
                         \/ Phase(t) = "starting" /\ ticket'[t].phase = "done"
    OBVIOUS
  <2>1. /\ ticket[t] \in [of : Proposals \cup {None}, id : Requests \cup {None}, phase : Phases]
        /\ t = by => Phase(t) = "starting"
    BY <1>0, QueueAssumption DEF QueueTypeOK
  <2>2. \/ ticket'[t] = ticket[t]
        \/ Phase(t) = "held" /\ ticket'[t] = [ticket[t] EXCEPT !.phase = "waiting"]
        \/ t = by /\ ticket'[t] = [ticket[t] EXCEPT !.phase = "done"]
    BY <1>1 DEF Adopt
  <2>. QED  BY <2>1, <2>2 DEF Phase
<1>4. \A p \in Proposals :
        \/ table'[p] = table[p]
        \/ \E q \in S : row[q].of = p /\ table'[p] = f[q]
  BY <1>1 DEF Adopt
<1>5. QueueTypeOK'
  <2>1. ticket' \in [Tickets -> [of : Proposals \cup {None}, id : Requests \cup {None},
                                phase : Phases]]
    <3> SUFFICES ASSUME NEW t \in Tickets
                 PROVE  ticket'[t] \in [of : Proposals \cup {None}, id : Requests \cup {None},
                                        phase : Phases]
      BY <1>1 DEF Adopt
    <3>1. ASSUME NEW q \in S, t = f[q]
          PROVE  ticket'[t] \in [of : Proposals \cup {None}, id : Requests \cup {None},
                                 phase : Phases]
      <4>1. /\ q \in Requests /\ row[q].of \in Proposals /\ "waiting" \in Phases
            /\ ticket'[t] = [of |-> row[q].of, id |-> q, phase |-> "waiting"]
        BY <1>2, <3>1 DEF Phases
      <4>. QED  BY <4>1
    <3>2. CASE ~\E q \in S : t = f[q]
      <4>1. ticket[t] \in [of : Proposals \cup {None}, id : Requests \cup {None}, phase : Phases]
        BY <1>0 DEF QueueTypeOK
      <4>2. \E ph \in Phases : ticket'[t] = [ticket[t] EXCEPT !.phase = ph]
        <5>1. ticket[t] = [ticket[t] EXCEPT !.phase = ticket[t].phase]
          BY <4>1
        <5>. QED  BY <1>1, <3>2, <4>1, <5>1 DEF Adopt, Phases
      <4>. QED  BY <4>1, <4>2
    <3>. QED  BY <3>1, <3>2
  <2>2. table' \in [Proposals -> Tickets \cup {None}]
    BY <1>0, <1>1, <1>2, <1>4 DEF QueueTypeOK, Adopt
  <2>. QED  BY <1>0, <2>1, <2>2 DEF QueueTypeOK
<1>6. (\A k \in Handlers : HandlerShape(k))'
  BY <1>2, <1>3 DEF QueueInv, HandlerShape, Phase
<1>7. (\A u \in Tickets : TicketShape(u))' /\ (\A q \in Requests : RowShape(q))'
  <2>1. (\A q \in Requests : RowShape(q))'
    BY DEF QueueInv, RowShape
  <2>2. SUFFICES ASSUME NEW u \in Tickets PROVE TicketShape(u)'
    BY <2>1
  <2>3. \A q \in view'[u] : row'[q].st # "none"
    BY DEF QueueInv, TicketShape
  <2>4. ASSUME NEW q \in S, u = f[q]
        PROVE  ticket'[u].of \in Proposals /\ ticket'[u].id \in Requests
    <3>1. ticket'[u] = [of |-> row[q].of, id |-> q, phase |-> "waiting"] /\ q \in Requests
      BY <1>2, <2>4
    <3>. QED  BY <1>2, <3>1
  <2>5. CASE ~\E q \in S : u = f[q]
    <3>1. ticket'[u].phase # "free" => ticket'[u].of \in Proposals /\ ticket'[u].id \in Requests
      BY <1>3, <2>5 DEF QueueInv, TicketShape, Phase
    <3>. QED  BY <2>3, <3>1 DEF TicketShape, Phase
  <2>. QED  BY <2>3, <2>4, <2>5 DEF TicketShape
<1>8. \A t \in Tickets : (Phase(t) = "held" => Phase(t)' = "held" \/ Engaged(t)')
                          /\ (Engaged(t) => Engaged(t)')
  BY <1>2, <1>3 DEF Engaged, HasTask, Phases, Phase
<1>9. (\A p \in Proposals : TableShape(p))'
  <2> SUFFICES ASSUME NEW p \in Proposals PROVE TableShape(p)'
    OBVIOUS
  <2>1. CASE table'[p] = table[p]
    BY <1>0, <1>2, <1>3, <1>8, <2>1
    DEF QueueInv, QueueTypeOK, TableShape, Ticketed, Engaged, HasTask, Phase
  <2>2. ASSUME NEW q \in S, row[q].of = p, table'[p] = f[q]
        PROVE  TableShape(p)'
    <3>1. ticket'[table'[p]].of = p
      BY <1>2, <2>2
    <3>2. ticket'[table'[p]].phase = "waiting"
      BY <1>2, <2>2
    <3>. QED  BY <3>1, <3>2 DEF TableShape, Engaged, HasTask, Phases, Phase
  <2>. QED  BY <1>4, <2>1, <2>2
<1>10. NoStrandedTicket'
  <2> SUFFICES ASSUME NEW p \in Proposals, Ticketed(p)'
               PROVE  \/ Engaged(table[p])'
                      \/ \E k \in Handlers : /\ handler[k].at \in {"deciding", "retrying"}
                                             /\ handler[k].held = table'[p]
    BY DEF NoStrandedTicket
  <2>1. CASE table'[p] = table[p]
    <3>1. table[p] \in Tickets /\ (Engaged(table[p]) \/ \E k \in Handlers :
                /\ handler[k].at \in {"deciding", "retrying"} /\ handler[k].held = table[p])
      BY <1>0, <2>1 DEF QueueInv, QueueTypeOK, NoStrandedTicket, Ticketed
    <3>2. Engaged(table[p])' <=> Phase(table[p])' \in HasTask \ {"pumping", "starting"}
      BY <2>1 DEF Engaged, Phase
    <3>. QED  BY <1>8, <2>1, <3>1, <3>2 DEF Engaged, Phase
  <2>2. ASSUME NEW q \in S, table'[p] = f[q]
        PROVE  Engaged(table[p])'
    <3>1. ticket'[table'[p]].phase = "waiting"
      BY <1>2, <2>2
    <3>. QED  BY <3>1 DEF Engaged, HasTask, Phases, Phase
  <2>. QED  BY <1>4, <2>1, <2>2
<1>. QED  BY <1>5, <1>6, <1>7, <1>9, <1>10 DEF QueueInv

\* A process that dies, and startup steps that write rows.
LEMMA QueueInvProcess ==
    ASSUME QueueInv, ProcessDies \/ RecoverRequests \/ Shutdown
    PROVE  QueueInv'
<1>0. QueueTypeOK
  BY DEF QueueInv
<1>1. CASE ProcessDies
  <2>1. /\ handler' \in [Handlers -> [at : HandlerSteps, of : Proposals \cup {None},
                                      req : Requests \cup {None}, held : Tickets \cup {None},
                                      resumes : BOOLEAN]]
        /\ \A h \in Handlers : handler'[h].at \in {"idle", "done"}
    BY <1>0, <1>1 DEF ProcessDies, QueueTypeOK, HandlerSteps
  <2>2. /\ ticket' \in [Tickets -> [of : Proposals \cup {None}, id : Requests \cup {None},
                                    phase : Phases]]
        /\ \A t \in Tickets : /\ ticket'[t].of = ticket[t].of /\ ticket'[t].id = ticket[t].id
                              /\ Phase(t) = "free" => ticket'[t].phase = "free"
    BY <1>0, <1>1 DEF ProcessDies, QueueTypeOK, Phases, Phase
  <2>3. QueueTypeOK'
    BY <1>0, <1>1, <2>1, <2>2 DEF ProcessDies, QueueTypeOK
  <2>4. (\A u \in Tickets : TicketShape(u))'
    BY <1>1, <2>2 DEF QueueInv, ProcessDies, TicketShape, Phase
  <2>. QED
    BY <1>1, <2>1, <2>3, <2>4
    DEF QueueInv, ProcessDies, HandlerShape, RowShape, TableShape, NoStrandedTicket, Ticketed
<1>2. CASE RecoverRequests
  <2>1. \A q \in Requests : /\ Recovered[q] \in RowStatuses
                            /\ row[q].st # "none" => Recovered[q] # "none"
                            /\ row[q].st = "none" => Recovered[q] = "none"
    BY <1>0 DEF QueueTypeOK, Recovered, RowStatuses, OpenStatuses
  <2>2. \A q \in Requests : /\ row'[q].of = row[q].of
                            /\ row'[q].st = Recovered[q]
    BY <1>0, <1>2 DEF QueueTypeOK, RecoverRequests
  <2>3. row' \in [Requests -> [of : Proposals \cup {None}, st : RowStatuses]]
    <3>1. \A q \in Requests : [of |-> row[q].of, st |-> Recovered[q]]
                                 \in [of : Proposals \cup {None}, st : RowStatuses]
      BY <1>0, <2>1 DEF QueueTypeOK
    <3>. QED  BY <1>2, <3>1 DEF RecoverRequests
  <2>4. /\ UNCHANGED <<table, ticket, handler, view>> /\ boot' = "pump"
    BY <1>2 DEF RecoverRequests
  <2>5. QueueTypeOK'
    BY <1>0, <2>3, <2>4 DEF QueueTypeOK
  <2>6. (\A u \in Tickets : TicketShape(u))' /\ (\A q \in Requests : RowShape(q))'
    <3>1. ASSUME NEW q \in Requests PROVE RowShape(q)'
      BY <2>1, <2>2 DEF QueueInv, RowShape
    <3>2. ASSUME NEW u \in Tickets PROVE TicketShape(u)'
      <4>1. TicketShape(u) /\ view[u] \subseteq Requests
        BY <1>0 DEF QueueInv, QueueTypeOK
      <4>2. \A q \in view[u] : row'[q].st # "none"
        <5> TAKE q \in view[u]
        <5>1. q \in Requests /\ row[q].st # "none"
          BY <4>1 DEF TicketShape
        <5>. QED  BY <2>1, <2>2, <5>1
      <4>. QED  BY <2>4, <4>1, <4>2 DEF TicketShape, Phase
    <3>. QED  BY <3>1, <3>2
  <2>7. (\A k \in Handlers : HandlerShape(k))'
    BY <1>0, <2>1, <2>2, <2>4 DEF QueueInv, QueueTypeOK, HandlerShape, Phase
  <2>8. (\A p \in Proposals : TableShape(p))' /\ NoStrandedTicket'
    BY <2>4 DEF QueueInv, TableShape, NoStrandedTicket, Ticketed, Engaged, Phase
  <2>. QED  BY <2>5, <2>6, <2>7, <2>8 DEF QueueInv
<1>3. CASE Shutdown
  BY <1>0, <1>3
  DEF QueueInv, Shutdown, QueueTypeOK, HandlerShape, TicketShape, RowShape, TableShape,
      NoStrandedTicket, Ticketed, Engaged, Phase
<1>. QED  BY <1>1, <1>2, <1>3

\* Steps of the execution alone.
LEMMA QueueInvUnchanged ==
    ASSUME QueueInv, UNCHANGED queueVars  PROVE QueueInv'
BY DEF queueVars, QueueInv, QueueTypeOK, HandlerShape, TicketShape, RowShape, TableShape,
       NoStrandedTicket, Ticketed, Engaged, Phase

\* Steps of the handlers.
LEMMA QueueInvHandler ==
    ASSUME QueueInv, NEW h \in Handlers, HandlerStep(h)
    PROVE  QueueInv'
<1>0. QueueTypeOK /\ HandlerShape(h)
  BY DEF QueueInv
<1>1. CASE DecideCommit(h)
  <2>1. \A q \in Requests : row'[q] = row[q]
                              \/ (row'[q].st # "none" /\ row'[q].of \in Proposals)
    BY <1>0, <1>1 DEF DecideCommit, QueueTypeOK, HandlerShape
  <2>2. row' \in [Requests -> [of : Proposals \cup {None}, st : RowStatuses]]
    BY <1>0, <1>1 DEF DecideCommit, QueueTypeOK, HandlerShape, RowStatuses, OpenStatuses
  <2>. QED  BY <1>1, <2>1, <2>2, QueueInvCommit DEF DecideCommit
<1>2. CASE RetryCommit(h)
  <2> DEFINE p == handler[h].of  q == handler[h].req  t == handler[h].held
  <2>1. CASE row' = [row EXCEPT ![ticket[t].id] = [of |-> p, st |-> "queued"]]
    <3>1. \A x \in Requests : row'[x] = row[x]
                                \/ (row'[x].st # "none" /\ row'[x].of \in Proposals)
      BY <1>0, <1>2, <2>1 DEF RetryCommit, QueueTypeOK, HandlerShape
    <3>2. row' \in [Requests -> [of : Proposals \cup {None}, st : RowStatuses]]
      BY <1>0, <1>2, <2>1 DEF RetryCommit, QueueTypeOK, HandlerShape, RowStatuses, OpenStatuses
    <3>. QED  BY <1>2, <3>1, <3>2, QueueInvCommit DEF RetryCommit
  <2>2. CASE q # None /\ row' = [row EXCEPT ![q].st = "queued"]
    <3>1. q \in Requests /\ row[q].of \in Proposals
      BY <1>0, <2>2 DEF QueueInv, QueueTypeOK, HandlerShape, RowShape
    <3>2. \A x \in Requests : row'[x] = row[x]
                                \/ (row'[x].st # "none" /\ row'[x].of \in Proposals)
      BY <1>0, <2>2, <3>1 DEF QueueTypeOK
    <3>3. row' \in [Requests -> [of : Proposals \cup {None}, st : RowStatuses]]
      BY <1>0, <2>2, <3>1 DEF QueueTypeOK, RowStatuses, OpenStatuses
    <3>. QED  BY <1>2, <3>2, <3>3, QueueInvCommit DEF RetryCommit
  <2>3. CASE UNCHANGED row
    BY <1>0, <1>2, <2>3, QueueInvCommit DEF RetryCommit, QueueTypeOK
  <2>. QED  BY <1>2, <2>1, <2>2, <2>3 DEF RetryCommit
<1>3. CASE DecideFails(h)
  BY <1>3, QueueInvFail DEF DecideFails
<1>4. CASE RetryFails(h)
  BY <1>4, QueueInvFail DEF RetryFails
<1>5. CASE RetryRead(h)
  <2>1. handler' \in [Handlers -> [at : HandlerSteps, of : Proposals \cup {None},
                                   req : Requests \cup {None}, held : Tickets \cup {None},
                                   resumes : BOOLEAN]]
    <3>1. OpenRow(handler[h].of) \in Requests \cup {None}
      BY DEF OpenRow, Open
    <3> DEFINE q == OpenRow(handler[h].of)
               resumes == q # None /\ row[q].st = "awaiting_credential"
    <3>2. resumes \in BOOLEAN
      OBVIOUS
    <3>3. handler' = [handler EXCEPT ![h] =
                        [@ EXCEPT !.at = "read", !.req = q, !.resumes = resumes]]
      BY <1>5 DEF RetryRead
    <3> HIDE DEF q, resumes
    <3>4. q \in Requests \cup {None}
      BY <3>1 DEF q
    <3>. QED  BY <1>0, <3>2, <3>3, <3>4 DEF QueueTypeOK, HandlerSteps
  <2>2. /\ \A k \in Handlers : k # h => handler'[k] = handler[k]
        /\ handler'[h].at = "read" /\ handler'[h].of = handler[h].of
        /\ handler'[h].req = OpenRow(handler[h].of)
    BY <1>0, <1>5 DEF RetryRead, QueueTypeOK
  <2>3. handler'[h].req # None => row[handler'[h].req].st # "none"
    BY <2>2 DEF OpenRow, Open, OpenStatuses
  <2>. QED  BY <1>0, <1>5, <2>1, <2>2, <2>3, QueueInvRead DEF RetryRead, HandlerShape
<1>6. CASE RetryHold(h)
  <2> DEFINE p == handler[h].of  q == handler[h].req
  <2>0. p \in Proposals /\ handler[h].at = "read"
    BY <1>0, <1>6 DEF RetryHold, HandlerShape
  <2>1. CASE Ticketed(p) /\ UNCHANGED <<table, ticket>>
             /\ handler' = [handler EXCEPT ![h] = [@ EXCEPT !.at = "retrying", !.held = table[p]]]
    <3>1. handler' \in [Handlers -> [at : HandlerSteps, of : Proposals \cup {None},
                                     req : Requests \cup {None}, held : Tickets \cup {None},
                                     resumes : BOOLEAN]]
      BY <1>0, <2>0, <2>1 DEF QueueTypeOK, HandlerSteps
    <3>2. /\ \A k \in Handlers : k # h => handler'[k] = handler[k]
          /\ handler'[h].at = "retrying" /\ handler'[h].of = p /\ handler'[h].held = table[p]
          /\ handler'[h].req # None => row[handler'[h].req].st # "none"
      BY <1>0, <2>1 DEF QueueTypeOK, HandlerShape
    <3>. QED  BY <1>6, <2>0, <2>1, <3>1, <3>2, QueueInvRead DEF RetryHold
  <2>2. ASSUME NEW t \in Tickets, NEW id \in Requests, ~Ticketed(p), NewTicket(p, t, id),
               handler' = [handler EXCEPT ![h] = [@ EXCEPT !.at = "retrying", !.held = t]]
        PROVE  QueueInv'
    <3>1. handler' = [handler EXCEPT ![h] =
                        [@ EXCEPT !.at = "retrying", !.of = p, !.held = t]]
      BY <1>0, <2>2 DEF QueueTypeOK
    <3>. QED  BY <1>6, <2>0, <2>2, <3>1, QueueInvReserve DEF RetryHold
  <2>3. CASE Moves(h, "done") /\ UNCHANGED <<table, ticket>>
    <3>1. "done" \in HandlerSteps
      BY DEF HandlerSteps
    <3>2. \A k \in Handlers : k # h => handler'[k] = handler[k]
      BY <2>3 DEF Moves
    <3>3. handler'[h].req # None => row[handler'[h].req].st # "none"
      BY <1>0, <2>3, <3>1, Moved DEF HandlerShape
    <3>. QED
      BY <1>0, <1>6, <2>0, <2>3, <3>1, <3>2, <3>3, Moved, QueueInvRead DEF RetryHold
  <2>. QED  BY <1>6, <2>1, <2>2, <2>3 DEF RetryHold
<1>. QED  BY <1>1, <1>2, <1>3, <1>4, <1>5, <1>6 DEF HandlerStep

\* SetRequestStatus touches the status of rows that exist.
LEMMA StatusWritten ==
    ASSUME QueueTypeOK, NEW q \in Requests, NEW st \in RowStatuses \ {"none"},
           SetRequestStatus(q, st)
    PROVE  /\ row' \in [Requests -> [of : Proposals \cup {None}, st : RowStatuses]]
           /\ \A x \in Requests : /\ row'[x].of = row[x].of
                                  /\ row[x].st = "none" <=> row'[x].st = "none"
<1>1. CASE UNCHANGED row
  BY <1>1 DEF QueueTypeOK
<1>2. CASE row[q].st # "none" /\ row' = [row EXCEPT ![q].st = st]
  BY <1>2 DEF QueueTypeOK
<1>. QED  BY <1>1, <1>2 DEF SetRequestStatus

\* Steps of the tasks.
LEMMA QueueInvTaskStep ==
    ASSUME QueueInv, NEW t \in Tickets, TaskStep(t) \/ StopTask(t)
    PROVE  QueueInv'
<1>0. /\ QueueTypeOK
      /\ Phase(t) \in HasTask => ticket[t].id \in Requests
  BY DEF QueueInv, TicketShape, HasTask
<1>1. ASSUME NEW ph \in Phases \ {"free", "held"}, Enter(t, ph), Phase(t) \in HasTask,
             Engaged(t) => ph \notin {"pumping", "starting", "done"},
             UNCHANGED <<table, handler, boot, row, view>>
      PROVE  QueueInv'
  BY <1>0, <1>1, QueueInvTask DEF QueueTypeOK
<1>2. ASSUME NEW ph \in Phases \ {"free", "held"}, Enter(t, ph), Phase(t) \in HasTask,
             Engaged(t) => ph \notin {"pumping", "starting", "done"},
             NEW st \in RowStatuses \ {"none"}, SetRequestStatus(ticket[t].id, st),
             UNCHANGED <<table, handler, boot, view>>
      PROVE  QueueInv'
  BY <1>0, <1>2, QueueInvTask, StatusWritten DEF QueueTypeOK
<1>3. CASE Acquire(t)
  BY <1>1, <1>3 DEF Acquire, TaskOnly, Phases, HasTask
<1>4. CASE Mark(t)
  BY <1>2, <1>4 DEF Mark, TaskOnly, Phases, HasTask, RowStatuses, OpenStatuses
<1>5. CASE Deliver(t)
  BY <1>1, <1>5 DEF Deliver, TaskOnly, Phases, HasTask
<1>6. CASE Close(t)
  BY <1>2, <1>6 DEF Close, TaskOnly, Phases, HasTask, RowStatuses
<1>7. CASE Leave(t)
  BY <1>7, QueueInvLeave
<1>8. CASE PumpRead(t)
  <2>1. CASE view' = [view EXCEPT ![t] = Startable] /\ Enter(t, "starting")
    <3>1. /\ view' \in [Tickets -> SUBSET Requests]
          /\ \A u \in Tickets :
                view'[u] \subseteq view[u] \cup {q \in Requests : row[q].st # "none"}
      BY <1>0, <2>1 DEF QueueTypeOK, Startable
    <3>2. ~Engaged(t) /\ Phase(t) \in HasTask /\ "starting" \in Phases \ {"free", "held"}
      BY <1>8 DEF PumpRead, Engaged, HasTask, Phases
    <3>. QED  BY <1>0, <1>8, <2>1, <3>1, <3>2, QueueInvTask DEF PumpRead, QueueTypeOK
  <2>2. CASE Enter(t, "done") /\ UNCHANGED view
    BY <1>1, <1>8, <2>2 DEF PumpRead, Engaged, HasTask, Phases
  <2>. QED  BY <1>8, <2>1, <2>2 DEF PumpRead
<1>9. CASE PumpStart(t)
  <2>1. /\ view[t] \in SUBSET Requests
        /\ \A q \in view[t] : row[q].st # "none"
        /\ view' \in [Tickets -> SUBSET Requests]
        /\ \A u \in Tickets : view'[u] \subseteq view[u]
    BY <1>0, <1>9 DEF QueueInv, QueueTypeOK, TicketShape, PumpStart
  <2>. QED  BY <1>9, <2>1, QueueInvPump DEF PumpStart
<1>10. CASE StopTask(t)
  <2>1. CASE Phase(t) = "executing"
    BY <1>10, <2>1, QueueInvUnchanged DEF StopTask, TaskOnly, queueVars
  <2>2. CASE Phase(t) = "waiting" /\ ticket[t].of \in Dynamic
    BY <1>2, <1>10, <2>2
    DEF StopTask, TaskOnly, Phases, HasTask, RowStatuses, OpenStatuses
  <2>3. CASE Phase(t) \in {"pumping", "starting"}
    BY <1>1, <1>10, <2>3 DEF StopTask, TaskOnly, Phases, HasTask, Engaged
  <2>4. CASE Phase(t) \in {"marking", "closing"}
    BY <1>1, <1>10, <2>4 DEF StopTask, TaskOnly, Phases, HasTask
  <2>5. CASE \/ Phase(t) = "waiting" /\ ticket[t].of \notin Dynamic
             \/ Phase(t) \in {"refusing", "failing", "leaving"}
    BY <1>1, <1>10, <2>5 DEF StopTask, TaskOnly, Phases, HasTask
  <2>. QED  BY <1>10, <2>1, <2>2, <2>3, <2>4, <2>5 DEF StopTask
<1>. QED  BY <1>3, <1>4, <1>5, <1>6, <1>7, <1>8, <1>9, <1>10 DEF TaskStep

\* Every step keeps the invariant.
LEMMA QueueInvStep ==
    ASSUME QueueInv, [QueueNext]_allVars  PROVE QueueInv'
<1>0. QueueTypeOK
  BY DEF QueueInv
<1>1. CASE UNCHANGED allVars
  BY <1>1, QueueInvUnchanged DEF allVars
<1>2. CASE GateStep \/ Environment \/ \E r \in Runs : ExecutionStep(r)
  BY <1>2, QueueInvUnchanged DEF GateStep, Environment, ExecutionStep
<1>3. ASSUME NEW h \in Handlers, NEW p \in Proposals, NEW t \in Tickets, NEW q \in Requests,
             DecideReserve(h, p, t, q)
      PROVE  QueueInv'
  <2>1. handler[h].at = "idle" => handler[h].of = None
    BY DEF QueueInv, HandlerShape
  <2>. QED  BY <1>3, <2>1, QueueInvReserve DEF DecideReserve
<1>4. ASSUME NEW h \in Handlers, NEW p \in Proposals, RetryCheck(h, p)
      PROVE  QueueInv'
  <2>1. /\ handler' \in [Handlers -> [at : HandlerSteps, of : Proposals \cup {None},
                                      req : Requests \cup {None}, held : Tickets \cup {None},
                                      resumes : BOOLEAN]]
        /\ \A k \in Handlers : k # h => handler'[k] = handler[k]
        /\ handler'[h].at = "checked" /\ handler'[h].of = p /\ handler'[h].req = handler[h].req
    BY <1>0, <1>4 DEF RetryCheck, QueueTypeOK, HandlerSteps
  <2>2. handler'[h].req # None => row[handler'[h].req].st # "none"
    BY <2>1 DEF QueueInv, HandlerShape
  <2>. QED  BY <1>4, <2>1, <2>2, QueueInvRead DEF RetryCheck
<1>5. CASE \E h \in Handlers : HandlerStep(h)
  BY <1>5, QueueInvHandler
<1>6. CASE \E t \in Tickets : TaskStep(t) \/ StopTask(t)
  BY <1>6, QueueInvTaskStep
<1>7. CASE ProcessDies \/ RecoverRequests \/ Shutdown
  BY <1>7, QueueInvProcess
<1>8. CASE StartupPump
  <2>1. Startable \in SUBSET Requests /\ \A q \in Startable : row[q].st # "none"
    BY DEF Startable
  <2>. QED  BY <1>0, <1>8, <2>1, QueueInvPump DEF StartupPump, QueueTypeOK
<1>. QED
  BY <1>1, <1>2, <1>3, <1>4, <1>5, <1>6, <1>7, <1>8 DEF QueueNext

-----------------------------------------------------------------------------
(* What runs is recorded so: RunningInv, if no short transaction of the    *)
(* queue fails.                                                            *)

\* Steps that start no request and end no task leave the invariant as it is.
LEMMA RunningKept ==
    ASSUME RunningInv, boot' \in {"pump", "serving"} => boot \in {"pump", "serving"},
           \A q \in Requests : row'[q].st = "running" => row[q].st = "running",
           \A t \in Tickets : Phase(t) \in WritesEnd =>
              Phase(t)' \in WritesEnd /\ ticket'[t].id = ticket[t].id
    PROVE  RunningInv'
BY DEF RunningInv

\* A ticket whose task enters another phase, and a row that may change with it.
LEMMA RunningEntered ==
    ASSUME QueueInv, RunningInv, NEW t \in Tickets, NEW ph \in Phases, Enter(t, ph),
           Phase(t) \in WritesEnd => ph \in WritesEnd,
           \A q \in Requests : row'[q].st = "running" => row[q].st = "running",
           UNCHANGED boot
    PROVE  RunningInv'
<1>1. \A u \in Tickets : /\ ticket'[u].id = ticket[u].id
                         /\ Phase(u) \in WritesEnd => Phase(u)' \in WritesEnd
  BY Entered DEF QueueInv
<1>. QED  BY <1>1, RunningKept

\* The new ticket of a handler or of a pump was free, so no row was running for it.
LEMMA RunningNew ==
    ASSUME QueueInv, RunningInv, UNCHANGED row,
           boot' \in {"pump", "serving"} => boot \in {"pump", "serving"},
           \A t \in Tickets : Phase(t) \in WritesEnd => ticket'[t] = ticket[t]
    PROVE  RunningInv'
BY RunningKept DEF Phase

\* A pump takes free tickets, gives tasks to held ones and ends its own.
LEMMA PumpTakesFree ==
    ASSUME QueueInv, NEW V, NEW by \in Tickets \cup {None}, by # None => Phase(by) = "starting",
           StartRows(V, by), NEW t \in Tickets, Phase(t) \in WritesEnd
    PROVE  ticket'[t] = ticket[t]
<1> DEFINE free == {u \in Tickets : Phase(u) = "free" /\ pc[u] = "idle"}
<1>1. PICK S \in SUBSET V : \E f \in [S -> free] : Adopt(S, f, V, by)
  BY DEF StartRows
<1>2. PICK f \in [S -> free] : Adopt(S, f, V, by)
  BY <1>1
<1>3. \A q \in S : f[q] # t
  BY <1>2 DEF WritesEnd
<1>4. t # by /\ Phase(t) # "held"
  BY QueueAssumption DEF WritesEnd
<1>. QED  BY <1>2, <1>3, <1>4 DEF Adopt

\* Steps of the handlers.
LEMMA RunningHandler ==
    ASSUME QueueInv, RunningInv, NEW h \in Handlers, HandlerStep(h)
    PROVE  RunningInv'
<1>0. QueueTypeOK /\ HandlerShape(h) /\ UNCHANGED boot
  BY DEF QueueInv, HandlerStep, DecideCommit, DecideFails, RetryRead, RetryHold, RetryCommit,
         RetryFails
<1>1. \A q \in Requests : row'[q].st = "running" => row[q].st = "running"
  <2>1. \/ UNCHANGED row
        \/ \E q, p : row' = [row EXCEPT ![q] = [of |-> p, st |-> "queued"]]
        \/ \E q \in Requests : row' = [row EXCEPT ![q].st = "queued"]
    BY <1>0
    DEF QueueTypeOK, HandlerStep, DecideCommit, DecideFails, RetryRead, RetryHold,
        RetryCommit, RetryFails
  <2>2. ASSUME NEW q, NEW p, row' = [row EXCEPT ![q] = [of |-> p, st |-> "queued"]]
        PROVE  \A x \in Requests : row'[x].st = "running" => row[x].st = "running"
    BY <1>0, <2>2 DEF QueueTypeOK
  <2>3. ASSUME NEW q \in Requests, row' = [row EXCEPT ![q].st = "queued"]
        PROVE  \A x \in Requests : row'[x].st = "running" => row[x].st = "running"
    BY <1>0, <2>3 DEF QueueTypeOK
  <2>. QED  BY <2>1, <2>2, <2>3
<1>2. \A t \in Tickets : Phase(t) \in WritesEnd =>
        Phase(t)' \in WritesEnd /\ ticket'[t].id = ticket[t].id
  <2>1. CASE DecideCommit(h) \/ RetryCommit(h)
    <3>1. StartTask(handler[h].held) /\ handler[h].held \in Tickets
      BY <1>0, <2>1 DEF DecideCommit, RetryCommit, HandlerShape
    <3>. QED  BY <1>0, <3>1, Started DEF WritesEnd
  <2>2. CASE RetryHold(h)
    <3>1. ASSUME NEW p \in Proposals, NEW u \in Tickets, NEW q \in Requests, NewTicket(p, u, q)
          PROVE  \A t \in Tickets : Phase(t) \in WritesEnd => ticket'[t] = ticket[t]
      BY <1>0, <3>1, Reserved DEF WritesEnd
    <3>2. \A t \in Tickets : Phase(t) \in WritesEnd => ticket'[t] = ticket[t]
      BY <1>0, <2>2, <3>1 DEF RetryHold, HandlerShape
    <3>. QED  BY <3>2 DEF Phase
  <2>3. CASE DecideFails(h) \/ RetryRead(h) \/ RetryFails(h)
    BY <2>3 DEF DecideFails, RetryRead, RetryFails, Phase
  <2>. QED  BY <2>1, <2>2, <2>3 DEF HandlerStep
<1>. QED  BY <1>0, <1>1, <1>2, RunningKept

\* A task that has marked its row ends it; "finished" and "abandoned" are written.
LEMMA RunningClose ==
    ASSUME QueueInv, RunningInv, "status" \notin Mishaps, NEW t \in Tickets, Close(t)
    PROVE  RunningInv'
<1>0. QueueTypeOK /\ ticket[t].id \in Requests /\ UNCHANGED boot
  BY DEF QueueInv, TicketShape, Close, TaskOnly
<1>1. PICK ph \in {"leaving", "quitting"}, st \in {"finished", "abandoned"} :
          Enter(t, ph) /\ SetRequestStatus(ticket[t].id, st)
  BY DEF Close
<1>2. ph \in Phases
  BY DEF Phases
<1>3. \A q \in Requests : row'[q].st = "running" => row[q].st = "running" /\ q # ticket[t].id
  <2>1. st \notin OpenStatuses
    BY DEF OpenStatuses
  <2>2. CASE row' = [row EXCEPT ![ticket[t].id].st = st]
    BY <1>0, <2>2 DEF QueueTypeOK
  <2>3. CASE row[ticket[t].id].st = "none" /\ UNCHANGED row
    BY <2>3
  <2>. QED  BY <1>1, <2>1, <2>2, <2>3 DEF SetRequestStatus
<1>4. \A u \in Tickets : /\ ticket'[u].id = ticket[u].id
                         /\ u # t => Phase(u)' = Phase(u)
  BY <1>0, <1>1, <1>2, Entered
<1>. QED  BY <1>0, <1>3, <1>4 DEF RunningInv

\* Steps of the tasks.
LEMMA RunningTask ==
    ASSUME QueueInv, RunningInv, "status" \notin Mishaps, NEW t \in Tickets,
           TaskStep(t) \/ StopTask(t)
    PROVE  RunningInv'
<1>0. /\ QueueTypeOK /\ UNCHANGED boot
      /\ Phase(t) \in HasTask => ticket[t].id \in Requests
  BY DEF QueueInv, TicketShape, HasTask, TaskStep, TaskOnly, Acquire, Mark, Deliver, Close, Leave,
         PumpRead, PumpStart, StopTask
<1>1. CASE Acquire(t)
  BY <1>1, RunningEntered DEF Acquire, TaskOnly, Phases, WritesEnd
<1>2. CASE Mark(t)
  <2>1. "executing" \in Phases /\ Enter(t, "executing") /\ Phase(t) = "marking"
    BY <1>2 DEF Mark, Phases
  <2>2. \A q \in Requests : row'[q].st = "running" => row[q].st = "running" \/ q = ticket[t].id
    BY <1>0, <1>2 DEF Mark, SetRequestStatus, QueueTypeOK
  <2>3. /\ \A u \in Tickets : /\ ticket'[u].id = ticket[u].id
                              /\ Phase(u) \in WritesEnd => Phase(u)' \in WritesEnd
        /\ Phase(t)' \in WritesEnd
    BY <1>0, <2>1, Entered DEF WritesEnd
  <2>. QED  BY <1>0, <2>2, <2>3 DEF RunningInv
<1>3. CASE Deliver(t)
  BY <1>3, RunningEntered DEF Deliver, TaskOnly, Phases, WritesEnd
<1>4. CASE Close(t)
  BY <1>4, RunningClose
<1>5. CASE Leave(t)
  BY <1>5, RunningEntered DEF Leave, TaskOnly, Phases, WritesEnd
<1>6. CASE PumpRead(t)
  BY <1>6, RunningEntered DEF PumpRead, Phases, WritesEnd
<1>7. CASE PumpStart(t)
  BY <1>0, <1>7, PumpTakesFree, RunningNew DEF PumpStart
<1>8. CASE StopTask(t)
  <2>1. boot' \notin {"pump", "serving"}
    BY <1>0, <1>8 DEF StopTask
  <2>. QED  BY <2>1 DEF RunningInv
<1>. QED  BY <1>1, <1>2, <1>3, <1>4, <1>5, <1>6, <1>7, <1>8 DEF TaskStep

\* Every step.
LEMMA RunningStep ==
    ASSUME QueueInv, RunningInv, "status" \notin Mishaps, [QueueNext]_allVars
    PROVE  RunningInv'
<1>0. QueueTypeOK
  BY DEF QueueInv
<1>1. CASE UNCHANGED queueVars
  BY <1>1, RunningKept DEF queueVars, Phase
<1>2. CASE GateStep \/ Environment \/ \E r \in Runs : ExecutionStep(r)
  BY <1>1, <1>2 DEF GateStep, Environment, ExecutionStep
<1>3. ASSUME NEW h \in Handlers, NEW p \in Proposals, NEW t \in Tickets, NEW q \in Requests,
             DecideReserve(h, p, t, q)
      PROVE  RunningInv'
  <2>1. \A u \in Tickets : Phase(u) \in WritesEnd => ticket'[u] = ticket[u]
    BY <1>0, <1>3, Reserved DEF DecideReserve, WritesEnd
  <2>. QED  BY <1>3, <2>1, RunningNew DEF DecideReserve
<1>4. ASSUME NEW h \in Handlers, NEW p \in Proposals, RetryCheck(h, p)
      PROVE  RunningInv'
  BY <1>4, RunningNew DEF RetryCheck
<1>5. CASE \E h \in Handlers : HandlerStep(h)
  BY <1>5, RunningHandler
<1>6. CASE \E t \in Tickets : TaskStep(t) \/ StopTask(t)
  BY <1>6, RunningTask
<1>7. CASE ProcessDies \/ Shutdown
  BY <1>7 DEF ProcessDies, Shutdown, RunningInv
<1>8. CASE RecoverRequests
  <2>1. \A q \in Requests : row'[q].st # "running"
    BY <1>0, <1>8 DEF RecoverRequests, Recovered, QueueTypeOK, RowStatuses, OpenStatuses
  <2>. QED  BY <2>1 DEF RunningInv
<1>9. CASE StartupPump
  BY <1>9, PumpTakesFree, RunningNew DEF StartupPump
<1>. QED
  BY <1>1, <1>2, <1>3, <1>4, <1>5, <1>6, <1>7, <1>8, <1>9 DEF QueueNext, allVars, queueVars

-----------------------------------------------------------------------------
(* What awaits its password is sent by nobody: AwaitInv. *)

LEMMA AwaitInit == QueueInit => AwaitInv /\ RunningInv
BY DEF QueueInit, AwaitInv, RunningInv, OneOpenRow, IdsAgree, BootShape, AwaitShape, Awaits,
       Phase, OpenStatuses

\* A new ticket stands for nothing yet.
LEMMA AwaitReserve ==
    ASSUME QueueInv, AwaitInv, NEW p \in Proposals, NEW t \in Tickets, NEW q \in Requests,
           NewTicket(p, t, q), boot = "serving",
           FreshId(q) \/ (row[q].st # "none" /\ row[q].of = p),
           NEW h \in Handlers, \A k \in Handlers : k # h => handler'[k] = handler[k],
           \/ handler'[h].at = "deciding"
           \/ /\ handler[h].at = "read" /\ handler'[h].at = "retrying"
              /\ handler'[h].of = handler[h].of /\ handler'[h].req = handler[h].req
              /\ handler'[h].resumes = handler[h].resumes,
           UNCHANGED <<row, view, boot>>
    PROVE  AwaitInv'
<1>0. QueueTypeOK
  BY DEF QueueInv
<1>1. \A u \in Tickets : /\ Phase(u)' # "free" => u = t \/ Phase(u) # "free"
                         /\ Phase(u) # "free" => u # t
                         /\ u # t => ticket'[u] = ticket[u] /\ Phase(u)' = Phase(u)
                         /\ Engaged(u)' => Engaged(u) /\ u # t
  BY <1>0, Reserved DEF Engaged, HasTask, Phase
<1>2. ticket'[t].id = q /\ ticket'[t].of = p
  BY <1>0, Reserved
<1>3. OneOpenRow' /\ BootShape'
  BY DEF AwaitInv, OneOpenRow, BootShape
<1>4. IdsAgree'
  <2>1. \A u \in Tickets : Phase(u) # "free" /\ ticket[u].id = q => ticket[u].of = p
    BY DEF FreshId, AwaitInv, IdsAgree
  <2>2. row[q].st # "none" => row[q].of = p
    BY DEF FreshId
  <2>3. ASSUME NEW u \in Tickets, NEW w \in Tickets, Phase(u)' # "free", Phase(w)' # "free",
               ticket'[u].id = ticket'[w].id
        PROVE  ticket'[u].of = ticket'[w].of
    BY <1>1, <1>2, <2>1, <2>3 DEF AwaitInv, IdsAgree
  <2>4. ASSUME NEW u \in Tickets, Phase(u)' # "free", row'[ticket'[u].id].st # "none"
        PROVE  row'[ticket'[u].id].of = ticket'[u].of
    BY <1>1, <1>2, <2>2, <2>4 DEF AwaitInv, IdsAgree
  <2>5. ASSUME NEW k \in Handlers, handler'[k].at \in {"read", "retrying"},
               handler'[k].req # None
        PROVE  row'[handler'[k].req].of = handler'[k].of
    BY <2>5 DEF AwaitInv, IdsAgree
  <2>. QED  BY <2>3, <2>4, <2>5 DEF IdsAgree
<1>5. AwaitShape'
  <2> SUFFICES ASSUME NEW x \in Requests, Awaits(x)
               PROVE  /\ \A u \in Tickets : Engaged(u)' => ticket'[u].id # x
                      /\ \A u \in Tickets : \A y \in view[u] : row[y].of # row[x].of
                      /\ \A k \in Handlers :
                            /\ handler'[k].at \in {"read", "retrying"}
                            /\ handler'[k].of = row[x].of
                            => handler'[k].resumes /\ handler'[k].req = x
    BY DEF AwaitShape, Awaits
  <2>1. \A u \in Tickets : Engaged(u)' => ticket'[u].id # x
    BY <1>1 DEF AwaitInv, AwaitShape
  <2>2. \A u \in Tickets : \A y \in view[u] : row[y].of # row[x].of
    BY DEF AwaitInv, AwaitShape
  <2>3. \A k \in Handlers :
            handler'[k].at \in {"read", "retrying"} /\ handler'[k].of = row[x].of
            => handler'[k].resumes /\ handler'[k].req = x
    BY DEF AwaitInv, AwaitShape
  <2>. QED  BY <2>1, <2>2, <2>3
<1>. QED  BY <1>3, <1>4, <1>5 DEF AwaitInv

\* A handler that reads, adopts, or ends.
LEMMA AwaitRead ==
    ASSUME QueueInv, AwaitInv, NEW h \in Handlers, UNCHANGED <<ticket, row, view, boot>>,
           \A k \in Handlers : k # h => handler'[k] = handler[k],
           handler'[h].at \notin {"idle", "done"} => boot = "serving",
           handler'[h].at \in {"read", "retrying"} =>
              /\ handler'[h].req # None => row[handler'[h].req].of = handler'[h].of
              /\ \A q \in Requests : Awaits(q) /\ handler'[h].of = row[q].of =>
                    handler'[h].resumes /\ handler'[h].req = q
    PROVE  AwaitInv'
<1>1. OneOpenRow' /\ BootShape'
  BY DEF AwaitInv, OneOpenRow, BootShape, Phase
<1>2. IdsAgree'
  <2>1. ASSUME NEW k \in Handlers, handler'[k].at \in {"read", "retrying"},
               handler'[k].req # None
        PROVE  row'[handler'[k].req].of = handler'[k].of
    BY <2>1 DEF AwaitInv, IdsAgree
  <2>. QED  BY <2>1 DEF AwaitInv, IdsAgree, Phase
<1>3. AwaitShape'
  <2> SUFFICES ASSUME NEW x \in Requests, Awaits(x), boot = "serving"
               PROVE  /\ \A u \in Tickets : Engaged(u) => ticket[u].id # x
                      /\ \A u \in Tickets : \A y \in view[u] : row[y].of # row[x].of
                      /\ \A k \in Handlers :
                            /\ handler'[k].at \in {"read", "retrying"}
                            /\ handler'[k].of = row[x].of
                            => handler'[k].resumes /\ handler'[k].req = x
    BY DEF AwaitShape, Awaits, Engaged, Phase
  <2>. QED  BY DEF AwaitInv, AwaitShape
<1>. QED  BY <1>1, <1>2, <1>3 DEF AwaitInv

\* A commit that starts its ticket queues the request the ticket is for.
LEMMA AwaitCommit ==
    ASSUME QueueInv, AwaitInv, NEW h \in Handlers, handler[h].at \in {"deciding", "retrying"},
           StartTask(handler[h].held), Moves(h, "done"), UNCHANGED <<view, boot>>,
           \/ /\ Open(handler[h].of) = {}
              /\ row' = [row EXCEPT ![ticket[handler[h].held].id] =
                            [of |-> handler[h].of, st |-> "queued"]]
           \/ /\ handler[h].at = "retrying" /\ handler[h].req # None
              /\ Open(handler[h].of) \subseteq {handler[h].req}
              /\ row' = [row EXCEPT ![handler[h].req].st = "queued"]
           \/ handler[h].at = "retrying" /\ ~handler[h].resumes /\ UNCHANGED row
    PROVE  AwaitInv'
<1> DEFINE p == handler[h].of  t == handler[h].held  q == handler[h].req
<1>0. /\ QueueTypeOK /\ t \in Tickets /\ p \in Proposals /\ Phase(t) # "free"
      /\ ticket[t].of = p /\ ticket[t].id \in Requests /\ "done" \in HandlerSteps
      /\ boot = "serving" /\ q \in Requests \cup {None}
  BY DEF QueueInv, QueueTypeOK, HandlerShape, TicketShape, HandlerSteps, AwaitInv, BootShape
<1>1. PICK z \in Requests \cup {None} :
        /\ \A x \in Requests : x # z => row'[x] = row[x]
        /\ z # None => /\ row'[z].of = p /\ row'[z].st = "queued"
                       /\ Open(p) \subseteq {z}
                       /\ z = ticket[t].id \/ (handler[h].at = "retrying" /\ z = q)
        /\ z = None => row' = row /\ handler[h].at = "retrying" /\ ~handler[h].resumes
  <2>1. CASE /\ Open(p) = {}
             /\ row' = [row EXCEPT ![ticket[t].id] = [of |-> p, st |-> "queued"]]
    <3>. ticket[t].id \in Requests \cup {None}
      BY <1>0
    <3>. WITNESS ticket[t].id \in Requests \cup {None}
    <3>. QED  BY <1>0, <2>1, QueueAssumption DEF QueueTypeOK
  <2>2. CASE /\ handler[h].at = "retrying" /\ q # None /\ Open(p) \subseteq {q}
             /\ row' = [row EXCEPT ![q].st = "queued"]
    <3>1. row[q].of = p
      BY <2>2 DEF AwaitInv, IdsAgree
    <3>. q \in Requests \cup {None}
      BY <1>0
    <3>. WITNESS q \in Requests \cup {None}
    <3>. QED  BY <1>0, <2>2, <3>1 DEF QueueTypeOK
  <2>3. CASE handler[h].at = "retrying" /\ ~handler[h].resumes /\ UNCHANGED row
    <3>. WITNESS None \in Requests \cup {None}
    <3>. QED  BY <2>3
  <2>. QED  BY <2>1, <2>2, <2>3
<1>2. \A x \in Requests : x # z => Awaits(x)' = Awaits(x)
  BY <1>1 DEF Awaits
<1>3. z \in Requests => ~Awaits(z)'
  BY <1>0, <1>1, QueueAssumption DEF Awaits
<1>4. \A x \in Requests : row[x].st # "none" => row'[x].of = row[x].of
  <2>1. ASSUME z \in Requests, row[z].st # "none" PROVE row[z].of = p
    BY <1>0, <1>1, <2>1, QueueAssumption DEF AwaitInv, IdsAgree
  <2>. QED  BY <1>0, <1>1, <2>1, QueueAssumption
<1>5. \A u \in Tickets : /\ ticket'[u].of = ticket[u].of /\ ticket'[u].id = ticket[u].id
                         /\ Phase(u)' # "free" => Phase(u) # "free"
                         /\ Engaged(u)' => Engaged(u) \/ u = t
                         /\ Phase(u) \in {"free", "done"} => Phase(u)' \in {"free", "done"}
  BY <1>0, Started DEF Engaged
<1>6. OneOpenRow'
  <2> SUFFICES ASSUME NEW a \in Requests, NEW b \in Requests, row'[a].st \in OpenStatuses,
                      row'[b].st \in OpenStatuses, row'[a].of = row'[b].of
               PROVE  a = b
    BY DEF OneOpenRow
  <2>1. CASE a # z /\ b # z
    BY <1>1, <2>1 DEF AwaitInv, OneOpenRow
  <2>2. CASE a = z \/ b = z
    BY <1>1, <2>2, QueueAssumption DEF Open
  <2>. QED  BY <2>1, <2>2
<1>7. BootShape'
  BY <1>0, <1>5, Moved DEF AwaitInv, BootShape
<1>8. IdsAgree'
  <2>1. ASSUME NEW u \in Tickets, Phase(u)' # "free", row'[ticket'[u].id].st # "none"
        PROVE  row'[ticket'[u].id].of = ticket'[u].of
    <3>1. ticket[u].id \in Requests /\ Phase(u) # "free"
      BY <1>5, <2>1 DEF QueueInv, TicketShape
    <3>2. CASE ticket[u].id # z
      BY <1>1, <1>5, <2>1, <3>1, <3>2 DEF AwaitInv, IdsAgree
    <3>3. CASE ticket[u].id = z
      <4>1. z = ticket[t].id => ticket[u].of = p
        BY <1>0, <3>1, <3>3 DEF AwaitInv, IdsAgree
      <4>2. z = q => row[z].st # "none"
        BY <3>1, <3>3, QueueAssumption DEF QueueInv, HandlerShape
      <4>3. row[z].st # "none" => ticket[u].of = row[z].of
        BY <3>1, <3>3 DEF AwaitInv, IdsAgree
      <4>. QED  BY <1>0, <1>1, <1>4, <1>5, <3>1, <3>3, <4>1, <4>2, <4>3, QueueAssumption
    <3>. QED  BY <3>2, <3>3
  <2>2. ASSUME NEW k \in Handlers, handler'[k].at \in {"read", "retrying"},
               handler'[k].req # None
        PROVE  row'[handler'[k].req].of = handler'[k].of
    <3>1. /\ k # h /\ handler[k].at \in {"read", "retrying"} /\ handler[k].req # None
          /\ handler'[k].of = handler[k].of /\ handler'[k].req = handler[k].req
          /\ handler[k].req \in Requests
      BY <1>0, <2>2, Moved DEF QueueTypeOK
    <3>2. row[handler[k].req].st # "none"
      BY <3>1 DEF QueueInv, HandlerShape
    <3>. QED  BY <1>4, <3>1, <3>2 DEF AwaitInv, IdsAgree
  <2>. QED  BY <1>5, <2>1, <2>2 DEF AwaitInv, IdsAgree
<1>9. AwaitShape'
  <2> SUFFICES ASSUME NEW x \in Requests, x # z, Awaits(x), row'[x] = row[x]
               PROVE  /\ \A u \in Tickets : Engaged(u)' => ticket'[u].id # x
                      /\ \A u \in Tickets : \A y \in view[u] : row'[y].of # row[x].of
                      /\ \A k \in Handlers :
                            /\ handler'[k].at \in {"read", "retrying"}
                            /\ handler'[k].of = row[x].of
                            => handler'[k].resumes /\ handler'[k].req = x
    BY <1>1, <1>2, <1>3 DEF AwaitShape
  <2>1. ticket[t].id # x
    <3> SUFFICES ASSUME ticket[t].id = x PROVE FALSE
      OBVIOUS
    <3>1. row[x].of = p
      BY <1>0 DEF Awaits, AwaitInv, IdsAgree
    <3>2. x \in Open(p)
      BY <3>1 DEF Awaits, Open, OpenStatuses
    <3>3. z = None
      BY <1>1, <3>2
    <3>. QED  BY <1>0, <1>1, <3>1, <3>3 DEF AwaitInv, AwaitShape
  <2>2. \A u \in Tickets : \A y \in view[u] : row'[y].of # row[x].of
    <3> SUFFICES ASSUME NEW u \in Tickets, NEW y \in view[u] PROVE row'[y].of # row[x].of
      OBVIOUS
    <3>1. y \in Requests /\ row[y].st # "none"
      BY <1>0 DEF QueueInv, QueueTypeOK, TicketShape
    <3>. QED  BY <1>0, <1>4, <3>1 DEF AwaitInv, AwaitShape
  <2>3. \A u \in Tickets : Engaged(u)' => ticket'[u].id # x
    BY <1>0, <1>5, <2>1 DEF AwaitInv, AwaitShape
  <2>4. ASSUME NEW k \in Handlers, handler'[k].at \in {"read", "retrying"},
               handler'[k].of = row[x].of
        PROVE  handler'[k].resumes /\ handler'[k].req = x
    <3>1. k # h /\ handler'[k] = handler[k]
      BY <1>0, <2>4, Moved DEF Moves, QueueTypeOK
    <3>. QED  BY <1>0, <2>4, <3>1 DEF AwaitInv, AwaitShape
  <2>. QED  BY <2>2, <2>3, <2>4
<1>. QED  BY <1>6, <1>7, <1>8, <1>9 DEF AwaitInv

\* A task that goes on, and writes nothing, or an end or "running" into its row.
LEMMA AwaitTask ==
    ASSUME QueueInv, AwaitInv, NEW t \in Tickets, NEW ph \in Phases, Enter(t, ph),
           Phase(t) \in HasTask, Engaged(t) \/ ph \in {"pumping", "starting", "done"},
           \A q \in Requests :
              /\ row'[q].of = row[q].of
              /\ row'[q].st = "none" <=> row[q].st = "none"
              /\ boot = "serving" /\ Awaits(q)' => Awaits(q),
           OneOpenRow',
           \A u \in Tickets : \A x \in view'[u] : x \in view[u] \/ x \in Startable,
           UNCHANGED <<handler, boot>>
    PROVE  AwaitInv'
<1>0. QueueTypeOK /\ boot \notin {"recover", "pump"}
  BY DEF QueueInv, AwaitInv, BootShape, HasTask
<1>1. \A u \in Tickets : /\ ticket'[u].of = ticket[u].of /\ ticket'[u].id = ticket[u].id
                         /\ Phase(u)' # "free" => Phase(u) # "free"
                         /\ Engaged(u)' => Engaged(u)
  BY <1>0, Entered DEF Engaged, HasTask
<1>2. BootShape'
  BY <1>0 DEF AwaitInv, BootShape
<1>3. IdsAgree'
  <2>1. ASSUME NEW u \in Tickets, Phase(u)' # "free", row'[ticket'[u].id].st # "none"
        PROVE  row'[ticket'[u].id].of = ticket'[u].of
    <3>1. ticket[u].id \in Requests
      BY <1>1, <2>1 DEF QueueInv, TicketShape
    <3>. QED  BY <1>1, <2>1, <3>1 DEF AwaitInv, IdsAgree
  <2>2. ASSUME NEW k \in Handlers, handler'[k].at \in {"read", "retrying"},
               handler'[k].req # None
        PROVE  row'[handler'[k].req].of = handler'[k].of
    <3>1. handler[k].req \in Requests
      BY <1>0, <2>2 DEF QueueTypeOK
    <3>. QED  BY <2>2, <3>1 DEF AwaitInv, IdsAgree
  <2>. QED  BY <1>1, <2>1, <2>2 DEF AwaitInv, IdsAgree
<1>4. AwaitShape'
  <2> SUFFICES ASSUME boot = "serving", NEW x \in Requests, Awaits(x), row'[x].of = row[x].of
               PROVE  /\ \A u \in Tickets : Engaged(u)' => ticket'[u].id # x
                      /\ \A u \in Tickets : \A y \in view'[u] : row'[y].of # row[x].of
                      /\ \A k \in Handlers :
                            /\ handler[k].at \in {"read", "retrying"}
                            /\ handler[k].of = row[x].of
                            => handler[k].resumes /\ handler[k].req = x
    BY DEF AwaitShape
  <2>1. ASSUME NEW u \in Tickets, NEW y \in view'[u]
        PROVE  row'[y].of # row[x].of
    <3>1. CASE y \in view[u]
      BY <1>0, <3>1 DEF AwaitInv, AwaitShape, QueueTypeOK
    <3>2. CASE y \in Startable
      <4>1. y \in Requests /\ row[y].st = "queued" /\ row[x].st = "awaiting_credential"
        BY <3>2 DEF Startable, Awaits
      <4>. QED  BY <4>1 DEF AwaitInv, OneOpenRow, OpenStatuses
    <3>. QED  BY <2>1, <3>1, <3>2
  <2>. QED  BY <1>1, <2>1 DEF AwaitInv, AwaitShape
<1>. QED  BY <1>2, <1>3, <1>4 DEF AwaitInv

\* What a pump does to the tickets.
LEMMA PumpTickets ==
    ASSUME QueueInv, NEW V \in SUBSET Requests, NEW by \in Tickets \cup {None},
           by # None => Phase(by) = "starting", StartRows(V, by), NEW t \in Tickets
    PROVE  \/ /\ Phase(t) = "free" /\ Phase(t)' = "waiting"
              /\ ticket'[t].id \in V /\ ticket'[t].of = row[ticket'[t].id].of
           \/ /\ ticket'[t].of = ticket[t].of /\ ticket'[t].id = ticket[t].id
              /\ \/ Phase(t)' = Phase(t)
                 \/ /\ Phase(t) = "held" /\ Phase(t)' = "waiting"
                    /\ \E q \in V : table[row[q].of] = t
                 \/ Phase(t) = "starting" /\ Phase(t)' = "done"
<1> DEFINE free == {u \in Tickets : Phase(u) = "free" /\ pc[u] = "idle"}
<1>1. PICK S \in SUBSET V : \E f \in [S -> free] : Adopt(S, f, V, by)
  BY DEF StartRows
<1>2. PICK f \in [S -> free] : Adopt(S, f, V, by)
  BY <1>1
<1>3. /\ ticket[t] \in [of : Proposals \cup {None}, id : Requests \cup {None}, phase : Phases]
      /\ t = by => Phase(t) = "starting"
  BY QueueAssumption DEF QueueInv, QueueTypeOK
<1>4. CASE \E q \in S : f[q] = t
  <2>1. \E q \in S : /\ f[q] = t
                     /\ ticket'[t] = [of |-> row[q].of, id |-> q, phase |-> "waiting"]
    BY <1>2, <1>4 DEF Adopt
  <2>2. Phase(t) = "free"
    BY <1>2, <1>4
  <2>. QED  BY <2>1, <2>2 DEF Phase
<1>5. CASE ~\E q \in S : f[q] = t
  <2>1. \/ ticket'[t] = [ticket[t] EXCEPT !.phase = "waiting"]
           /\ Phase(t) = "held" /\ \E q \in V : table[row[q].of] = t
        \/ t = by /\ ticket'[t] = [ticket[t] EXCEPT !.phase = "done"]
        \/ ticket'[t] = ticket[t]
    BY <1>2, <1>5 DEF Adopt
  <2>. QED  BY <1>3, <2>1 DEF Phase
<1>. QED  BY <1>4, <1>5

\* What can be started is of no proposal that awaits its password.
LEMMA StartableApart ==
    ASSUME OneOpenRow, NEW y \in Startable, NEW x \in Requests, Awaits(x)
    PROVE  row[y].of # row[x].of
BY DEF OneOpenRow, Startable, Awaits, OpenStatuses

\* A pump starts nothing that awaits its password.
LEMMA AwaitPump ==
    ASSUME QueueInv, AwaitInv, NEW V \in SUBSET Requests, \A q \in V : row[q].st # "none",
           NEW by \in Tickets \cup {None}, by # None => Phase(by) = "starting",
           StartRows(V, by), UNCHANGED <<handler, row>>,
           boot' = boot \/ (boot = "pump" /\ boot' = "serving"),
           boot' \notin {"recover", "pump"},
           \A y \in V : \A x \in Requests :
              boot' = "serving" /\ Awaits(x) => row[y].of # row[x].of,
           \A t \in Tickets : view'[t] \subseteq view[t]
    PROVE  AwaitInv'
<1>0. QueueTypeOK
  BY DEF QueueInv
<1>1. \A t \in Tickets :
        \/ /\ Phase(t) = "free" /\ Phase(t)' = "waiting"
           /\ ticket'[t].id \in V /\ ticket'[t].of = row[ticket'[t].id].of
        \/ /\ ticket'[t].of = ticket[t].of /\ ticket'[t].id = ticket[t].id
           /\ \/ Phase(t)' = Phase(t)
              \/ /\ Phase(t) = "held" /\ Phase(t)' = "waiting"
                 /\ \E q \in V : table[row[q].of] = t
              \/ Phase(t) = "starting" /\ Phase(t)' = "done"
  BY PumpTickets
<1>2. OneOpenRow' /\ BootShape'
  BY DEF AwaitInv, OneOpenRow, BootShape
<1>3. IdsAgree'
  <2>1. \A t \in Tickets : Phase(t)' # "free" =>
          \/ ticket'[t].id \in V /\ ticket'[t].of = row[ticket'[t].id].of
          \/ /\ Phase(t) # "free"
             /\ ticket'[t].of = ticket[t].of /\ ticket'[t].id = ticket[t].id
    BY <1>1
  <2>2. \A t, u \in Tickets :
          Phase(t)' # "free" /\ Phase(u)' # "free" /\ ticket'[t].id = ticket'[u].id
          => ticket'[t].of = ticket'[u].of
    BY <2>1 DEF AwaitInv, IdsAgree
  <2>3. \A t \in Tickets :
          Phase(t)' # "free" /\ row[ticket'[t].id].st # "none"
          => row[ticket'[t].id].of = ticket'[t].of
    BY <2>1 DEF AwaitInv, IdsAgree
  <2>. QED  BY <2>2, <2>3 DEF AwaitInv, IdsAgree
<1>4. AwaitShape'
  <2> SUFFICES ASSUME boot' = "serving", NEW x \in Requests, Awaits(x)
               PROVE  /\ \A u \in Tickets : Engaged(u)' => ticket'[u].id # x
                      /\ \A u \in Tickets : \A y \in view'[u] : row[y].of # row[x].of
                      /\ \A k \in Handlers :
                            /\ handler[k].at \in {"read", "retrying"}
                            /\ handler[k].of = row[x].of
                            => handler[k].resumes /\ handler[k].req = x
    BY DEF AwaitShape, Awaits
  <2>1. \/ boot = "serving"
        \/ /\ \A u \in Tickets : Phase(u) \in {"free", "done"} /\ view[u] = {}
           /\ \A k \in Handlers : handler[k].at \notin {"read", "retrying"}
    BY DEF AwaitInv, BootShape
  <2>2. ASSUME NEW u \in Tickets, Engaged(u)', ticket'[u].id = x
        PROVE  FALSE
    <3>1. CASE ticket'[u].id \in V
      BY <2>2, <3>1
    <3>2. CASE /\ Phase(u) = "held" /\ ticket'[u].id = ticket[u].id
               /\ \E q \in V : table[row[q].of] = u
      <4>1. PICK q \in V : table[row[q].of] = u
        BY <3>2
      <4>2. row[q].of \in Proposals /\ ticket[u].of = row[q].of
        BY <4>1, QueueAssumption DEF QueueInv, RowShape, TableShape, Ticketed
      <4>3. row[x].of = ticket[u].of
        BY <2>2, <3>2 DEF AwaitInv, IdsAgree, Awaits
      <4>. QED  BY <4>2, <4>3
    <3>3. CASE Phase(u)' = Phase(u) /\ ticket'[u].id = ticket[u].id
      BY <2>1, <2>2, <3>3 DEF AwaitInv, AwaitShape, Engaged, HasTask
    <3>4. CASE Phase(u)' = "done"
      BY <2>2, <3>4 DEF Engaged, HasTask
    <3>. QED  BY <1>1, <3>1, <3>2, <3>3, <3>4
  <2>3. \A u \in Tickets : \A y \in view'[u] : row[y].of # row[x].of
    BY <2>1 DEF AwaitInv, AwaitShape
  <2>4. \A k \in Handlers :
            handler[k].at \in {"read", "retrying"} /\ handler[k].of = row[x].of
            => handler[k].resumes /\ handler[k].req = x
    BY <2>1 DEF AwaitInv, AwaitShape
  <2>. QED  BY <2>2, <2>3, <2>4
<1>. QED  BY <1>2, <1>3, <1>4 DEF AwaitInv

\* A process that dies, recovery and shutdown.
LEMMA AwaitProcess ==
    ASSUME QueueInv, AwaitInv, ProcessDies \/ RecoverRequests \/ Shutdown
    PROVE  AwaitInv'
<1>0. QueueTypeOK
  BY DEF QueueInv
<1>1. CASE ProcessDies
  <2>1. /\ \A t \in Tickets : /\ ticket'[t].id = ticket[t].id /\ ticket'[t].of = ticket[t].of
                              /\ Phase(t)' = IF Phase(t) = "free" THEN "free" ELSE "done"
                              /\ view'[t] = {}
        /\ \A h \in Handlers : handler'[h].at \in {"idle", "done"}
        /\ boot' = "recover" /\ UNCHANGED row
    BY <1>0, <1>1 DEF ProcessDies, QueueTypeOK, Phase
  <2>. QED  BY <2>1 DEF AwaitInv, OneOpenRow, IdsAgree, BootShape, AwaitShape
<1>2. CASE RecoverRequests
  <2>1. \A q \in Requests : /\ row'[q].of = row[q].of
                            /\ row'[q].st = "none" <=> row[q].st = "none"
                            /\ row'[q].st \in OpenStatuses => row[q].st \in OpenStatuses
    BY <1>0, <1>2 DEF RecoverRequests, Recovered, QueueTypeOK, RowStatuses, OpenStatuses
  <2>2. UNCHANGED <<ticket, handler, view>> /\ boot = "recover" /\ boot' = "pump"
    BY <1>2 DEF RecoverRequests
  <2>3. OneOpenRow'
    BY <2>1 DEF AwaitInv, OneOpenRow
  <2>4. BootShape' /\ AwaitShape'
    BY <2>2 DEF AwaitInv, BootShape, AwaitShape, Phase
  <2>5. IdsAgree'
    <3>1. ASSUME NEW t \in Tickets, Phase(t)' # "free", row'[ticket'[t].id].st # "none"
          PROVE  row'[ticket'[t].id].of = ticket'[t].of
      <4>1. ticket[t].id \in Requests /\ Phase(t) # "free"
        BY <2>2, <3>1 DEF QueueInv, TicketShape, Phase
      <4>. QED  BY <2>1, <2>2, <3>1, <4>1 DEF AwaitInv, IdsAgree
    <3>2. \A h \in Handlers : handler'[h].at \notin {"read", "retrying"}
      BY <2>2 DEF AwaitInv, BootShape
    <3>3. \A t, u \in Tickets :
            Phase(t)' # "free" /\ Phase(u)' # "free" /\ ticket'[t].id = ticket'[u].id
            => ticket'[t].of = ticket'[u].of
      BY <2>2 DEF AwaitInv, IdsAgree, Phase
    <3>. QED  BY <3>1, <3>2, <3>3 DEF IdsAgree
  <2>. QED  BY <2>3, <2>4, <2>5 DEF AwaitInv
<1>3. CASE Shutdown
  BY <1>3 DEF Shutdown, AwaitInv, OneOpenRow, IdsAgree, BootShape, AwaitShape, Phase
<1>. QED  BY <1>1, <1>2, <1>3

\* Steps that leave the queue alone.
LEMMA AwaitUnchanged ==
    ASSUME AwaitInv, UNCHANGED queueVars  PROVE AwaitInv'
BY DEF queueVars, AwaitInv, OneOpenRow, IdsAgree, BootShape, AwaitShape, Awaits, Engaged, Phase

\* Steps of the handlers.
LEMMA AwaitHandler ==
    ASSUME QueueInv, AwaitInv, NEW h \in Handlers, HandlerStep(h)
    PROVE  AwaitInv'
<1> DEFINE p == handler[h].of  q == handler[h].req
<1>0. QueueTypeOK /\ HandlerShape(h) /\ "done" \in HandlerSteps
  BY DEF QueueInv, HandlerSteps
<1>1. CASE DecideCommit(h)
  BY <1>1, AwaitCommit DEF DecideCommit
<1>2. CASE RetryCommit(h)
  BY <1>2, AwaitCommit DEF RetryCommit
<1>3. ASSUME Moves(h, "done"), UNCHANGED <<ticket, row, view, boot>>
      PROVE  AwaitInv'
  <2>1. handler'[h].at = "done" /\ \A k \in Handlers : k # h => handler'[k] = handler[k]
    BY <1>0, <1>3, Moved DEF Moves
  <2>. QED  BY <1>3, <2>1, AwaitRead
<1>4. CASE DecideFails(h) \/ RetryFails(h)
  BY <1>3, <1>4 DEF DecideFails, RetryFails
<1>5. CASE RetryRead(h)
  <2>1. /\ \A k \in Handlers : k # h => handler'[k] = handler[k]
        /\ handler'[h].at = "read" /\ handler'[h].of = p /\ handler'[h].req = OpenRow(p)
        /\ handler[h].at = "checked" /\ UNCHANGED <<ticket, row, view, boot>>
    BY <1>0, <1>5 DEF RetryRead, QueueTypeOK
  <2>2. handler'[h].resumes =
            (OpenRow(p) # None /\ row[OpenRow(p)].st = "awaiting_credential")
    BY <1>0, <1>5 DEF RetryRead, QueueTypeOK
  <2>3. OpenRow(p) # None => OpenRow(p) \in Open(p)
    BY DEF OpenRow
  <2>4. ASSUME NEW x \in Requests, Awaits(x), row[x].of = p
        PROVE  OpenRow(p) = x /\ x # None
    <3>1. x \in Open(p)
      BY <2>4 DEF Open, Awaits, OpenStatuses
    <3>2. OpenRow(p) \in Open(p)
      BY <3>1 DEF OpenRow
    <3>. QED  BY <3>1, <3>2, QueueAssumption DEF Open, AwaitInv, OneOpenRow
  <2>5. boot = "serving"
    BY <2>1 DEF AwaitInv, BootShape
  <2>6. handler'[h].req # None => row[handler'[h].req].of = handler'[h].of
    BY <2>1, <2>3 DEF Open
  <2>7. ASSUME NEW x \in Requests, Awaits(x), handler'[h].of = row[x].of
        PROVE  handler'[h].resumes /\ handler'[h].req = x
    BY <2>1, <2>2, <2>4, <2>7 DEF Awaits
  <2>. QED  BY <2>1, <2>5, <2>6, <2>7, AwaitRead
<1>6. CASE RetryHold(h)
  <2>1. handler[h].at = "read" /\ boot = "serving" /\ UNCHANGED <<row, view, boot>>
        /\ p \in Proposals
    BY <1>0, <1>6 DEF RetryHold, AwaitInv, BootShape, HandlerShape
  <2>2. ASSUME NEW t \in Tickets \cup {None}, UNCHANGED ticket,
               handler' = [handler EXCEPT ![h] = [@ EXCEPT !.at = "retrying", !.held = t]]
        PROVE  AwaitInv'
    <3>1. /\ \A k \in Handlers : k # h => handler'[k] = handler[k]
          /\ handler'[h].of = p /\ handler'[h].req = q
          /\ handler'[h].resumes = handler[h].resumes
      BY <1>0, <2>2 DEF QueueTypeOK
    <3>2. q # None => row[q].of = p
      BY <2>1 DEF AwaitInv, IdsAgree
    <3>3. \A x \in Requests : Awaits(x) /\ p = row[x].of => handler[h].resumes /\ q = x
      BY <2>1 DEF AwaitInv, AwaitShape
    <3>. QED  BY <2>1, <2>2, <3>1, <3>2, <3>3, AwaitRead
  <2>3. ASSUME NEW t \in Tickets, NEW id \in Requests, NewTicket(p, t, id),
               IF q = None THEN FreshId(id) ELSE id = q,
               handler' = [handler EXCEPT ![h] = [@ EXCEPT !.at = "retrying", !.held = t]]
        PROVE  AwaitInv'
    <3>1. /\ \A k \in Handlers : k # h => handler'[k] = handler[k]
          /\ handler'[h].at = "retrying" /\ handler'[h].of = p /\ handler'[h].req = q
          /\ handler'[h].resumes = handler[h].resumes
      BY <1>0, <2>3 DEF QueueTypeOK
    <3>2. FreshId(id) \/ (row[id].st # "none" /\ row[id].of = p)
      BY <1>0, <2>1, <2>3 DEF HandlerShape, AwaitInv, IdsAgree
    <3>. QED  BY <2>1, <2>3, <3>1, <3>2, AwaitReserve
  <2>4. Ticketed(p) => table[p] \in Tickets \cup {None}
    BY <1>0, <2>1 DEF QueueTypeOK
  <2>. QED  BY <1>3, <1>6, <2>1, <2>2, <2>3, <2>4 DEF RetryHold
<1>. QED  BY <1>1, <1>2, <1>4, <1>5, <1>6 DEF HandlerStep

\* SetRequestStatus reopens nothing beside an open request of the proposal.
LEMMA StatusKeepsOneOpen ==
    ASSUME QueueTypeOK, OneOpenRow, NEW q \in Requests, NEW st, SetRequestStatus(q, st)
    PROVE  OneOpenRow'
<1>1. CASE UNCHANGED row
  BY <1>1 DEF OneOpenRow
<1>2. CASE /\ st \in OpenStatuses => Open(row[q].of) \subseteq {q}
           /\ row' = [row EXCEPT ![q].st = st]
  <2>1. \A x \in Requests : /\ row'[x].of = row[x].of
                            /\ row'[x].st = IF x = q THEN st ELSE row[x].st
    BY <1>2 DEF QueueTypeOK
  <2>. QED  BY <1>2, <2>1 DEF OneOpenRow, Open
<1>. QED  BY <1>1, <1>2 DEF SetRequestStatus

\* Steps of the tasks.
LEMMA AwaitTaskStep ==
    ASSUME QueueInv, AwaitInv, NEW t \in Tickets, TaskStep(t) \/ StopTask(t)
    PROVE  AwaitInv'
<1>0. /\ QueueTypeOK /\ OneOpenRow
      /\ Phase(t) \in HasTask => ticket[t].id \in Requests
  BY DEF QueueInv, TicketShape, HasTask, AwaitInv
<1>1. ASSUME NEW ph \in Phases, Enter(t, ph), Phase(t) \in HasTask,
             Engaged(t) \/ ph \in {"pumping", "starting", "done"},
             UNCHANGED <<handler, boot, row, view>>
      PROVE  AwaitInv'
  <2>1. OneOpenRow'
    BY <1>0, <1>1 DEF OneOpenRow
  <2>. QED  BY <1>1, <2>1, AwaitTask DEF Awaits
<1>2. ASSUME NEW ph \in Phases, Enter(t, ph), Engaged(t),
             NEW st \in RowStatuses \ {"none"}, SetRequestStatus(ticket[t].id, st),
             st = "awaiting_credential" => boot # "serving",
             UNCHANGED <<handler, boot, view>>
      PROVE  AwaitInv'
  <2>1. Phase(t) \in HasTask
    BY <1>2 DEF Engaged
  <2>2. OneOpenRow'
    BY <1>0, <1>2, <2>1, StatusKeepsOneOpen
  <2>3. \A q \in Requests : /\ row'[q].of = row[q].of
                            /\ row'[q].st = "none" <=> row[q].st = "none"
    BY <1>0, <1>2, <2>1, StatusWritten
  <2>4. \A q \in Requests : boot = "serving" /\ Awaits(q)' => Awaits(q)
    BY <1>0, <1>2, <2>1 DEF SetRequestStatus, Awaits, QueueTypeOK
  <2>. QED  BY <1>2, <2>1, <2>2, <2>3, <2>4, AwaitTask
<1>3. CASE Acquire(t)
  BY <1>1, <1>3 DEF Acquire, TaskOnly, Phases, HasTask, Engaged
<1>4. CASE Mark(t)
  BY <1>2, <1>4 DEF Mark, TaskOnly, Phases, HasTask, Engaged, RowStatuses, OpenStatuses
<1>5. CASE Deliver(t)
  BY <1>1, <1>5 DEF Deliver, TaskOnly, Phases, HasTask, Engaged
<1>6. CASE Close(t)
  BY <1>2, <1>6 DEF Close, TaskOnly, Phases, HasTask, Engaged, RowStatuses
<1>7. CASE Leave(t)
  BY <1>1, <1>7 DEF Leave, TaskOnly, Phases, HasTask, Engaged
<1>8. CASE PumpRead(t)
  <2>1. CASE view' = [view EXCEPT ![t] = Startable] /\ Enter(t, "starting")
    <3>1. \A u \in Tickets : \A x \in view'[u] : x \in view[u] \/ x \in Startable
      BY <1>0, <2>1 DEF QueueTypeOK
    <3>2. Phase(t) \in HasTask /\ "starting" \in Phases /\ UNCHANGED <<row, handler, boot>>
      BY <1>8 DEF PumpRead, HasTask, Phases
    <3>3. OneOpenRow'
      BY <1>0, <3>2 DEF OneOpenRow
    <3>. QED  BY <2>1, <3>1, <3>2, <3>3, AwaitTask DEF Awaits
  <2>2. CASE Enter(t, "done") /\ UNCHANGED view
    BY <1>1, <1>8, <2>2 DEF PumpRead, HasTask, Phases
  <2>. QED  BY <1>8, <2>1, <2>2 DEF PumpRead
<1>9. CASE PumpStart(t)
  <2>1. /\ view[t] \in SUBSET Requests /\ \A q \in view[t] : row[q].st # "none"
        /\ \A u \in Tickets : view'[u] \subseteq view[u]
        /\ Phase(t) = "starting" /\ StartRows(view[t], t)
        /\ UNCHANGED <<row, handler, boot>>
    BY <1>0, <1>9 DEF QueueInv, QueueTypeOK, TicketShape, PumpStart
  <2>2. boot' = boot /\ boot \notin {"recover", "pump"}
    BY <2>1 DEF AwaitInv, BootShape
  <2>3. \A y \in view[t] : \A x \in Requests :
            boot' = "serving" /\ Awaits(x) => row[y].of # row[x].of
    BY <2>2 DEF AwaitInv, AwaitShape
  <2>. QED  BY <2>1, <2>2, <2>3, AwaitPump
<1>10. CASE StopTask(t)
  <2>1. CASE Phase(t) = "executing"
    BY <1>10, <2>1, AwaitUnchanged DEF StopTask, TaskOnly, queueVars
  <2>2. CASE Phase(t) = "waiting" /\ ticket[t].of \in Dynamic
    BY <1>2, <1>10, <2>2
    DEF StopTask, TaskOnly, Phases, HasTask, Engaged, RowStatuses, OpenStatuses
  <2>3. CASE \/ Phase(t) = "waiting" /\ ticket[t].of \notin Dynamic
             \/ Phase(t) \in {"refusing", "failing", "leaving", "pumping", "starting",
                              "marking", "closing"}
    BY <1>1, <1>10, <2>3 DEF StopTask, TaskOnly, Phases, HasTask, Engaged
  <2>. QED  BY <1>10, <2>1, <2>2, <2>3 DEF StopTask
<1>. QED  BY <1>3, <1>4, <1>5, <1>6, <1>7, <1>8, <1>9, <1>10 DEF TaskStep

\* Every step.
LEMMA AwaitStep ==
    ASSUME QueueInv, AwaitInv, [QueueNext]_allVars
    PROVE  AwaitInv'
<1>0. QueueTypeOK
  BY DEF QueueInv
<1>1. CASE UNCHANGED allVars
  BY <1>1, AwaitUnchanged DEF allVars
<1>2. CASE GateStep \/ Environment \/ \E r \in Runs : ExecutionStep(r)
  BY <1>2, AwaitUnchanged DEF GateStep, Environment, ExecutionStep
<1>3. ASSUME NEW h \in Handlers, NEW p \in Proposals, NEW t \in Tickets, NEW q \in Requests,
             DecideReserve(h, p, t, q)
      PROVE  AwaitInv'
  <2>1. /\ \A k \in Handlers : k # h => handler'[k] = handler[k]
        /\ handler'[h].at = "deciding" /\ boot = "serving"
        /\ FreshId(q) /\ NewTicket(p, t, q) /\ UNCHANGED <<row, view, boot>>
    BY <1>0, <1>3 DEF DecideReserve, QueueTypeOK, Serving
  <2>. QED  BY <2>1, AwaitReserve
<1>4. ASSUME NEW h \in Handlers, NEW p \in Proposals, RetryCheck(h, p)
      PROVE  AwaitInv'
  <2>1. /\ \A k \in Handlers : k # h => handler'[k] = handler[k]
        /\ handler'[h].at = "checked" /\ boot = "serving"
        /\ UNCHANGED <<ticket, row, view, boot>>
    BY <1>0, <1>4 DEF RetryCheck, QueueTypeOK, Serving
  <2>. QED  BY <2>1, AwaitRead
<1>5. CASE \E h \in Handlers : HandlerStep(h)
  BY <1>5, AwaitHandler
<1>6. CASE \E t \in Tickets : TaskStep(t) \/ StopTask(t)
  BY <1>6, AwaitTaskStep
<1>7. CASE ProcessDies \/ RecoverRequests \/ Shutdown
  BY <1>7, AwaitProcess
<1>8. CASE StartupPump
  <2>1. /\ boot = "pump" /\ boot' = "serving" /\ UNCHANGED <<handler, row, view>>
        /\ Startable \in SUBSET Requests /\ \A q \in Startable : row[q].st # "none"
        /\ StartRows(Startable, None)
    BY <1>8 DEF StartupPump, Startable
  <2>2. \A y \in Startable : \A x \in Requests : Awaits(x) => row[y].of # row[x].of
    BY StartableApart DEF AwaitInv
  <2>. QED  BY <2>1, <2>2, AwaitPump
<1>. QED
  BY <1>1, <1>2, <1>3, <1>4, <1>5, <1>6, <1>7, <1>8 DEF QueueNext


-----------------------------------------------------------------------------
(* The theorems. *)

(* The queue's invariant holds in every reachable state. *)
THEOREM QueueInvariant == QueueSpec => []QueueInv
<1>1. QueueInit => QueueInv
  BY QueueInvInit
<1>2. QueueInv /\ [QueueNext]_allVars => QueueInv'
  BY QueueInvStep
<1>. QED  BY <1>1, <1>2, PTL DEF QueueSpec

(* The queue's variables keep their types. *)
THEOREM QueueTypes == QueueSpec => []QueueTypeOK
<1>1. QueueInv => QueueTypeOK
  BY DEF QueueInv
<1>. QED  BY <1>1, QueueInvariant, PTL

(* No ticket stays in the table of hitl_executor.py without a task or a    *)
(* handler that will start it or give it back.                             *)
THEOREM TicketsAreNotStranded == QueueSpec => []NoStrandedTicket
<1>1. QueueInv => NoStrandedTicket
  BY DEF QueueInv
<1>. QED  BY <1>1, QueueInvariant, PTL

(* A request that awaits its dynamic password is not being sent: while the *)
(* server serves, no task of hitl_executor.py stands for it, whatever      *)
(* fails in the queue.                                                     *)
THEOREM PasswordsStayAwaited == QueueSpec => []PasswordsAreAwaited
<1>1. QueueInit => QueueInv /\ AwaitInv
  BY QueueInvInit, AwaitInit
<1>2. QueueInv /\ AwaitInv /\ [QueueNext]_allVars => QueueInv' /\ AwaitInv'
  BY QueueInvStep, AwaitStep
<1>3. AwaitInv => PasswordsAreAwaited
  BY DEF AwaitInv, AwaitShape, Awaits, PasswordsAreAwaited, Serving
<1>. QED  BY <1>1, <1>2, <1>3, PTL DEF QueueSpec

(* What the execution requests say while the server serves is true, if the *)
(* short transactions that write "finished" and "abandoned" do not fail    *)
(* (_set_request_status swallows their failure, and then the row of a run  *)
(* that has ended stays "running" until the next start).                   *)
THEOREM RowsAreTrue ==
    ASSUME "status" \notin Mishaps  PROVE QueueSpec => []RowsTellTheTruth
<1>1. QueueInit => QueueInv /\ RunningInv
  BY QueueInvInit, AwaitInit
<1>2. QueueInv /\ RunningInv /\ [QueueNext]_allVars => QueueInv' /\ RunningInv'
  BY QueueInvStep, RunningStep
<1>3. PasswordsAreAwaited /\ RunningInv => RowsTellTheTruth
  BY DEF RunningInv, WritesEnd, RowsTellTheTruth, Serving, Engaged, HasTask, Phases
<1>. QED  BY <1>1, <1>2, <1>3, PasswordsStayAwaited, PTL DEF QueueSpec

\* A step of the queue is a step of the execution, or leaves it alone.
LEMMA QueueStepImplements ==
    ASSUME QueueInv, [QueueNext]_allVars  PROVE [ExecutionNext]_executionVars
<1>0. Tickets \subseteq Runs
  BY QueueAssumption
<1>1. CASE UNCHANGED executionVars
  BY <1>1
<1>2. CASE GateStep
  BY <1>2 DEF GateStep, ExecutionNext
<1>3. CASE Environment
  BY <1>3 DEF Environment, ExecutionNext
<1>4. CASE \E r \in Runs : ExecutionStep(r)
  BY <1>4 DEF ExecutionStep, ExecutionNext
<1>5. ASSUME NEW h \in Handlers, DecideCommit(h)
      PROVE  ExecutionNext
  <2>1. handler[h].of \in Proposals
    BY <1>5 DEF DecideCommit, QueueInv, HandlerShape
  <2>2. Decide(handler[h].of)
    BY <1>5 DEF DecideCommit, Decide
  <2>. QED  BY <2>1, <2>2 DEF ExecutionNext
<1>6. ASSUME NEW h \in Handlers, HandlerStep(h), ~DecideCommit(h)
      PROVE  UNCHANGED executionVars
  BY <1>6 DEF HandlerStep, DecideFails, RetryRead, RetryHold, RetryCommit, RetryFails
<1>7. ASSUME NEW t \in Tickets, Mark(t)
      PROVE  ExecutionNext
  <2>1. Start(t, ticket[t].of) /\ ticket[t].of \in Proposals
    BY <1>7 DEF Mark, QueueInv, TicketShape
  <2>. QED  BY <1>0, <2>1 DEF ExecutionNext
<1>8. ASSUME NEW t \in Tickets, TaskStep(t), ~Mark(t)
      PROVE  UNCHANGED executionVars
  BY <1>8 DEF TaskStep, Acquire, Deliver, Close, Leave, PumpRead, PumpStart
<1>9. ASSUME NEW t \in Tickets, StopTask(t)
      PROVE  [ExecutionNext]_executionVars
  <2>1. Cancel(t) \/ UNCHANGED executionVars
    BY <1>9 DEF StopTask
  <2>. QED  BY <1>0, <2>1 DEF ExecutionNext
<1>10. CASE ProcessDies
  BY <1>10 DEF ProcessDies, ExecutionNext
<1>11. CASE RecoverRequests \/ StartupPump \/ Shutdown
  BY <1>11 DEF RecoverRequests, StartupPump, Shutdown
<1>12. ASSUME NEW h \in Handlers, NEW p \in Proposals,
              \/ \E t \in Tickets, q \in Requests : DecideReserve(h, p, t, q)
              \/ RetryCheck(h, p)
       PROVE  UNCHANGED executionVars
  BY <1>12 DEF DecideReserve, RetryCheck
<1>. QED
  BY <1>1, <1>2, <1>3, <1>4, <1>5, <1>6, <1>7, <1>8, <1>9, <1>10, <1>11, <1>12
  DEF QueueNext, allVars

(* The execution behind the queue is the one HitlExecution describes: the  *)
(* tickets, retries, pumps and restarts of hitl_executor.py and hitl.py    *)
(* cannot make execute_approved_proposal do anything else.                 *)
THEOREM ExecutionIsImplemented == QueueSpec => ImplementsExecution
<1>1. QueueInit => ExecutionInit
  BY DEF QueueInit
<1>2. QueueInv /\ [QueueNext]_allVars => [ExecutionNext]_executionVars
  BY QueueStepImplements
<1>. QED
  BY <1>1, <1>2, QueueInvariant, PTL DEF QueueSpec, ExecutionSpec, ImplementsExecution

(* Hence, with the queue in front of it, no command that changes a device  *)
(* reaches it twice on one authorisation.                                  *)
COROLLARY QueueNeverSendsTwice == QueueSpec => []OncePerAuthorisation
BY ExecutionIsImplemented, NoAuthorisationIsUsedTwice DEF ImplementsExecution
=============================================================================
