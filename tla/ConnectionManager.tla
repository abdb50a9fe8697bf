------------------------- MODULE ConnectionManager -------------------------
(***************************************************************************)
(* The WebSocket stream of one workflow (backend/api/websocket.py): browser *)
(* tabs that connect and leave, the on_event callback that every published  *)
(* event starts, and the cursors they share under one lock.                 *)
(*                                                                          *)
(* A task that holds the lock sends message after message, and every send   *)
(* is an await; but what it sends in one phase (events, audits, status) was *)
(* read before the first send, and no other task looks at the cursors or    *)
(* adds a socket meanwhile.  So a phase is one action, and the repositories *)
(* change between phases.  The repositories are the environment: an agent   *)
(* or the engine appends to them and publishes.  The status of the row only *)
(* changes with an event: its publisher writes the row just before, or a    *)
(* handler of it does, in a turn that comes before on_event's.  Reading a   *)
(* repository may raise, which ends a snapshot or a callback.               *)
(***************************************************************************)
EXTENDS Naturals, Sequences, FiniteSets

CONSTANTS
  Clients,      \* sockets; a tab that reconnects is another one
  MaxLive,      \* bound: sockets that are connected at a time
  MaxEvents,    \* bound: events published for the workflow
  MaxAudits,    \* bound: audit entries written for the workflow
  Statuses,     \* statuses the row takes
  ReadsFail     \* may reading a repository raise?

ASSUME StreamAssumption ==
  /\ MaxEvents \in Nat /\ MaxAudits \in Nat /\ MaxLive \in Nat
  /\ "none" \notin Statuses
  /\ ReadsFail \in BOOLEAN

VARIABLES
  eventCount,       \* length of event_repo.list_for_workflow
  auditCount,       \* length of audit_repo.list_for_workflow
  status,           \* workflow_repo.get().status; "none" without a row
  connections,      \* self._connections: the registered sockets
  lastEventCount, lastAuditCount, lastStatus,   \* the cursors
  lock,             \* "free", or the task that holds it
  client,           \* where the endpoint of each socket is
  callback,         \* where on_event is, for each event
  received,         \* what each socket has been sent
  newest,           \* history: the socket of the latest snapshot to move the
                    \* cursors, if it did not fail
  missed            \* history: a read of a callback has raised, and the events
                    \* were not read since

repos == <<eventCount, auditCount, status>>
cursors == <<lastEventCount, lastAuditCount, lastStatus>>
history == <<newest, missed>>
vars == <<repos, connections, cursors, lock, client, callback, received,
          history>>

SocketTask(c) == <<"socket", c>>
EventTask(i) == <<"event", i>>
Free == <<"free", 0>>

TypeOK ==
  /\ eventCount \in 0..MaxEvents
  /\ auditCount \in 0..MaxAudits
  /\ status \in Statuses \cup {"none"}
  /\ connections \subseteq Clients /\ newest \subseteq Clients
  /\ lastEventCount \in 0..eventCount
  /\ lastAuditCount \in 0..auditCount
  /\ lastStatus \in Statuses \cup {"none"}
  /\ lock \in {Free} \cup {SocketTask(c) : c \in Clients}
                     \cup {EventTask(i) : i \in 1..MaxEvents}
  /\ client \in [Clients -> {"away", "accepted", "open", "dead", "gone"}
                           \cup {"audits", "state"}]
  /\ callback \in [1..MaxEvents -> {"none", "created", "waiting", "done"}
                                     \cup {"audits", "state"}]
  /\ received \in [Clients -> [events : Seq(1..MaxEvents),
                               audits : Seq(1..MaxAudits),
                               status : Statuses \cup {"none"}]]
  /\ missed \in BOOLEAN

Init ==
  /\ eventCount = 0 /\ auditCount = 0 /\ status = "none"
  /\ connections = {} /\ newest = {}
  /\ lastEventCount = 0 /\ lastAuditCount = 0 /\ lastStatus = "none"
  /\ lock = Free
  /\ client = [c \in Clients |-> "away"]
  /\ callback = [i \in 1..MaxEvents |-> "none"]
  /\ received = [c \in Clients |->
                   [events |-> << >>, audits |-> << >>, status |-> "none"]]
  /\ missed = FALSE

----------------------------------------------------------------------------
(* The environment. *)

\* An event is appended and published, with the status its publisher wrote
\* just before; on_event is the last of the tasks the bus starts for it.
Publish(new) ==
  /\ eventCount < MaxEvents
  /\ eventCount' = eventCount + 1
  /\ status' = new
  /\ callback' = [callback EXCEPT ![eventCount'] = "created"]
  /\ UNCHANGED <<auditCount, connections, cursors, lock, client, received,
                 history>>

\* A handler of the i-th event, a task older than its on_event, writes the row.
RowWritten(i, new) ==
  /\ callback[i] = "created"
  /\ status' = new
  /\ UNCHANGED <<eventCount, auditCount, connections, cursors, lock, client,
                 callback, received, history>>

\* AuditAgent writes the entry of an event, or an agent one of its own.
Audit ==
  /\ auditCount < MaxAudits
  /\ auditCount' = auditCount + 1
  /\ UNCHANGED <<eventCount, status, connections, cursors, lock, client,
                 callback, received, history>>

----------------------------------------------------------------------------
(* connect, _send_snapshot_locked *)

Live(c) == client[c] \notin {"away", "dead", "gone"}

Accept(c) ==
  /\ client[c] = "away"
  /\ Cardinality({d \in Clients : Live(d)}) < MaxLive
  /\ client' = [client EXCEPT ![c] = "accepted"]
  /\ UNCHANGED <<repos, connections, cursors, lock, callback, received,
                 history>>

\* Error: the last entry that was sent is sent again.
PastInclusive(m, n) == [k \in 1..(n + 1 - m) |-> m + k - 1]

\* Entries are numbered: those past a cursor m, and all of them.
Past(m, n) == [k \in 1..(n - m) |-> m + k]
UpTo(n) == Past(0, n)

\* Error: the snapshot does not touch the cursor on_event diffs against.
SnapshotEventsNoCursor(c) ==
  /\ client[c] = "accepted" /\ lock = Free
  /\ lock' = SocketTask(c)
  /\ connections' = connections \cup {c}
  /\ newest' = {c}
  /\ received' = [received EXCEPT ![c].events = UpTo(eventCount)]
  /\ client' = [client EXCEPT ![c] = "audits"]
  /\ missed' = FALSE
  /\ UNCHANGED <<repos, cursors, callback>>

\* The lock is taken, the socket registered, and every event replayed.
SnapshotEvents(c) ==
  /\ client[c] = "accepted" /\ lock = Free
  /\ lock' = SocketTask(c)
  /\ connections' = connections \cup {c}
  /\ newest' = {c}
  /\ received' = [received EXCEPT ![c].events = UpTo(eventCount)]
  /\ lastEventCount' = eventCount
  /\ client' = [client EXCEPT ![c] = "audits"]
  /\ missed' = FALSE
  /\ UNCHANGED <<repos, lastAuditCount, lastStatus, callback>>

SnapshotAudits(c) ==
  /\ client[c] = "audits"
  /\ received' = [received EXCEPT ![c].audits = UpTo(auditCount)]
  /\ lastAuditCount' = auditCount
  /\ client' = [client EXCEPT ![c] = "state"]
  /\ UNCHANGED <<repos, connections, lastEventCount, lastStatus, lock,
                 callback, history>>

\* The current status, if there is a row; the lock is released.
SnapshotState(c) ==
  /\ client[c] = "state"
  /\ received' = [received EXCEPT ![c].status =
                    IF status = "none" THEN @ ELSE status]
  /\ lastStatus' = IF status = "none" THEN lastStatus ELSE status
  /\ lock' = Free
  /\ client' = [client EXCEPT ![c] = "open"]
  /\ UNCHANGED <<repos, connections, lastEventCount, lastAuditCount, callback,
                 history>>

\* A read raises: the rest of the snapshot is skipped.  The socket stays open
\* and registered.
SnapshotFails(c) ==
  /\ ReadsFail
  /\ \/ /\ client[c] = "accepted" /\ lock = Free
        /\ connections' = connections \cup {c}
        /\ UNCHANGED <<lock, newest>>
     \/ /\ client[c] \in {"audits", "state"}
        /\ lock' = Free
        /\ newest' = {}
        /\ UNCHANGED connections
  /\ client' = [client EXCEPT ![c] = "open"]
  /\ UNCHANGED <<repos, cursors, callback, received, missed>>

\* The tab is closed.  The sends of a snapshot then raise and the rest of it
\* is skipped, but the socket stays registered ...
TabCloses(c) ==
  /\ \/ client[c] \in {"audits", "state", "open"}
     \/ client[c] = "accepted" /\ lock = Free
  /\ connections' = connections \cup {c}
  /\ lock' = IF lock = SocketTask(c) THEN Free ELSE lock
  /\ client' = [client EXCEPT ![c] = "dead"]
  /\ UNCHANGED <<repos, cursors, callback, received, history>>

\* ... until the endpoint or a broadcast finds it dead.
Disconnect(c) ==
  /\ client[c] = "dead"
  /\ connections' = connections \ {c}
  /\ client' = [client EXCEPT ![c] = "gone"]
  /\ UNCHANGED <<repos, cursors, lock, callback, received, history>>

----------------------------------------------------------------------------
(* on_event, for the i-th event *)

\* Nobody is listening: the repositories are not read.
OnEventStarts(i) ==
  /\ callback[i] = "created"
  /\ callback' = [callback EXCEPT ![i] =
                    IF connections = {} THEN "done" ELSE "waiting"]
  /\ UNCHANGED <<repos, connections, cursors, lock, client, received, history>>

OnEventEvents(i) ==
  /\ callback[i] = "waiting" /\ lock = Free
  /\ lock' = EventTask(i)
  /\ received' = [c \in Clients |-> [received[c] EXCEPT !.events =
       IF c \in connections THEN @ \o Past(lastEventCount, eventCount) ELSE @]]
  /\ lastEventCount' = eventCount
  /\ callback' = [callback EXCEPT ![i] = "audits"]
  /\ missed' = FALSE
  /\ UNCHANGED <<repos, connections, lastAuditCount, lastStatus, client,
                 newest>>

OnEventAudits(i) ==
  /\ callback[i] = "audits"
  /\ received' = [c \in Clients |-> [received[c] EXCEPT !.audits =
       IF c \in connections THEN @ \o Past(lastAuditCount, auditCount) ELSE @]]
  /\ lastAuditCount' = auditCount
  /\ callback' = [callback EXCEPT ![i] = "state"]
  /\ UNCHANGED <<repos, connections, lastEventCount, lastStatus, lock, client,
                 history>>

\* Error: only the first status is sent.
OnEventStateStale(i) ==
  /\ callback[i] = "state"
  /\ received' = [c \in Clients |-> [received[c] EXCEPT !.status =
       IF c \in connections /\ lastStatus = "none" THEN status ELSE @]]
  /\ lastStatus' = status
  /\ lock' = Free
  /\ callback' = [callback EXCEPT ![i] = "done"]
  /\ UNCHANGED <<repos, connections, lastEventCount, lastAuditCount, client,
                 history>>

\* state_change only if the status differs from the last one sent to anyone.
OnEventState(i) ==
  /\ callback[i] = "state"
  /\ IF status \in {"none", lastStatus}
     THEN UNCHANGED <<received, lastStatus>>
     ELSE /\ received' = [c \in Clients |-> [received[c] EXCEPT !.status =
               IF c \in connections THEN status ELSE @]]
          /\ lastStatus' = status
  /\ lock' = Free
  /\ callback' = [callback EXCEPT ![i] = "done"]
  /\ UNCHANGED <<repos, connections, lastEventCount, lastAuditCount, client,
                 history>>

\* A read raises: the callback is over, and the cursors stay where they are.
OnEventFails(i) ==
  /\ ReadsFail
  /\ \/ callback[i] = "waiting" /\ lock = Free /\ UNCHANGED lock
     \/ callback[i] \in {"audits", "state"} /\ lock' = Free
  /\ callback' = [callback EXCEPT ![i] = "done"]
  /\ missed' = TRUE
  /\ UNCHANGED <<repos, connections, cursors, client, received, newest>>

----------------------------------------------------------------------------

\* A row, once created, is never removed.
Environment ==
  \/ \E new \in Statuses \cup {"none"} :
       (new = "none" => status = "none") /\ Publish(new)
  \/ \E i \in 1..MaxEvents, new \in Statuses : RowWritten(i, new)
  \/ Audit

Endpoint(c) ==
  \/ Accept(c) \/ SnapshotEvents(c) \/ SnapshotAudits(c) \/ SnapshotState(c)
  \/ SnapshotFails(c) \/ TabCloses(c) \/ Disconnect(c)

OnEvent(i) ==
  \/ OnEventStarts(i) \/ OnEventEvents(i) \/ OnEventAudits(i)
  \/ OnEventState(i) \/ OnEventFails(i)

Next ==
  \/ Environment
  \/ \E c \in Clients : Endpoint(c)
  \/ \E i \in 1..MaxEvents : OnEvent(i)

Spec == Init /\ [][Next]_vars

----------------------------------------------------------------------------
(* Properties *)

Increasing(s) == \A j, k \in 1..Len(s) : j < k => s[j] < s[k]

\* No tab is sent an event or an audit entry twice, or out of order, however
\* snapshots and callbacks interleave: the duplicate-delivery race of the
\* constructor's comment is closed.
NothingTwice ==
  \A c \in Clients : /\ Increasing(received[c].events)
                     /\ Increasing(received[c].audits)

\* No task holds the lock or waits for it.
Quiet ==
  /\ lock = Free
  /\ \A i \in 1..MaxEvents : callback[i] \in {"none", "done"}

UpToDate(c) ==
  received[c].events = UpTo(eventCount) /\ received[c].status = status

\* Once the callbacks of all events are done, the tab that connected last has
\* been sent every event, and the last status it was sent is the row's; unless
\* a callback could not read them, and then as soon as the next one can.
LatestTabUpToDate ==
  Quiet /\ ~missed => \A c \in newest : client[c] = "open" => UpToDate(c)

\* Once the callbacks of all events are done, so has every open tab.
EveryTabUpToDate ==
  Quiet => \A c \in Clients : client[c] = "open" => UpToDate(c)

============================================================================
