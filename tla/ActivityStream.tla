--------------------------- MODULE ActivityStream ---------------------------
(***************************************************************************)
(* The stream as a browser sees it: WorkflowSocket, which opens a socket,   *)
(* and after an unexpected close another one, and useWorkflowStream, which  *)
(* appends what arrives to the rows it shows.  Composed with                *)
(* ConnectionManager, which replays the history to every new socket.        *)
(*                                                                          *)
(* A tab is one mounted hook; the sockets of other clients come and go as   *)
(* ConnectionManager says.  Messages of a socket arrive in order, and none  *)
(* after it was closed, so the rows are a function of what the tab's        *)
(* sockets were sent; those of a socket that was lost may be fewer.  The    *)
(* length of the backoff is left out: the timer goes off at some time.      *)
(***************************************************************************)
EXTENDS ConnectionManager, SequencesExt

CONSTANTS
  Tabs,
  MaxRows       \* MAX_FEED_ROWS

ASSUME TabAssumption == MaxRows \in Nat \ {0}

VARIABLES
  sockets,            \* the sockets a tab has opened, in order
  closing,            \* closed sockets whose onclose has not run yet
  shouldReconnect,    \* until disconnect() is called
  timer               \* reconnectTimer is set

tabVars == <<sockets, closing, shouldReconnect, timer>>
streamVars == <<vars, tabVars>>

Opened(t) == ToSet(sockets[t])

StreamTypeOK ==
  /\ TypeOK
  /\ sockets \in [Tabs -> Seq(Clients)]
  /\ \A t \in Tabs : IsInjective(sockets[t])
  /\ \A t, u \in Tabs : t # u => Opened(t) \cap Opened(u) = {}
  /\ closing \subseteq {c \in Clients : client[c] \in {"dead", "gone"}}
  /\ shouldReconnect \in [Tabs -> BOOLEAN] /\ timer \in [Tabs -> BOOLEAN]

StreamInit ==
  /\ Init
  /\ sockets = [t \in Tabs |-> << >>]
  /\ closing = {}
  /\ shouldReconnect = [t \in Tabs |-> TRUE]
  /\ timer = [t \in Tabs |-> FALSE]

----------------------------------------------------------------------------
(* WorkflowSocket *)

Open(t) ==
  /\ \E c \in Clients :
       Accept(c) /\ sockets' = [sockets EXCEPT ![t] = Append(@, c)]
  /\ timer' = [timer EXCEPT ![t] = FALSE]
  /\ UNCHANGED <<closing, shouldReconnect>>

\* The hook is mounted.
Connect(t) == sockets[t] = << >> /\ shouldReconnect[t] /\ Open(t)

\* setTimeout(() => this.open(), this.reconnectDelay)
Reconnect(t) == timer[t] /\ Open(t)

\* The server or the network closes the tab's socket.
ConnectionLost(t) ==
  /\ \E c \in Opened(t) : TabCloses(c) /\ closing' = closing \cup {c}
  /\ UNCHANGED <<sockets, shouldReconnect, timer>>

Elsewhere(c) ==
  /\ \A t \in Tabs : c \notin Opened(t)
  /\ Accept(c) \/ TabCloses(c)
  /\ UNCHANGED tabVars

\* Error: a tab that was left reconnects, too.
OnCloseAlways(t) ==
  /\ \E c \in Opened(t) \cap closing : closing' = closing \ {c}
  /\ timer' = [timer EXCEPT ![t] = TRUE]
  /\ UNCHANGED <<vars, sockets, shouldReconnect>>

OnClose(t) ==
  /\ \E c \in Opened(t) \cap closing : closing' = closing \ {c}
  /\ timer' = [timer EXCEPT ![t] = shouldReconnect[t]]
  /\ UNCHANGED <<vars, sockets, shouldReconnect>>

\* disconnect(): the user leaves the page; the timer is cleared and the socket,
\* if it is open, closed.
Leave(t) ==
  /\ sockets[t] # << >> /\ shouldReconnect[t]
  /\ shouldReconnect' = [shouldReconnect EXCEPT ![t] = FALSE]
  /\ timer' = [timer EXCEPT ![t] = FALSE]
  /\ IF Live(Last(sockets[t]))
     THEN \E c \in {Last(sockets[t])} :
            TabCloses(c) /\ closing' = closing \cup {c}
     ELSE UNCHANGED <<vars, closing>>
  /\ UNCHANGED sockets

Server ==
  /\ \/ Environment
     \/ \E i \in 1..MaxEvents : OnEvent(i)
     \/ \E c \in Clients : SnapshotEvents(c) \/ SnapshotAudits(c)
                           \/ SnapshotState(c) \/ SnapshotFails(c)
                           \/ Disconnect(c)
  /\ UNCHANGED tabVars

StreamNext ==
  \/ Server
  \/ \E c \in Clients : Elsewhere(c)
  \/ \E t \in Tabs : \/ Connect(t) \/ Reconnect(t) \/ ConnectionLost(t)
                     \/ OnClose(t) \/ Leave(t)

StreamSpec == StreamInit /\ [][StreamNext]_streamVars

----------------------------------------------------------------------------
(* useWorkflowStream *)

\* Error: once the list is full, new rows are dropped instead of old ones.
CapKeepsOldest(rows) ==
  IF Len(rows) > MaxRows THEN SubSeq(rows, 1, MaxRows) ELSE rows

\* capPush, for one row after the other: the last rows are kept.
Cap(rows) ==
  IF Len(rows) > MaxRows
  THEN SubSeq(rows, Len(rows) - MaxRows + 1, Len(rows)) ELSE rows

\* Nothing is removed or compared when a new socket replays the history.
Feed(t) ==
  Cap(FlattenSeq([k \in DOMAIN sockets[t] |->
                    received[sockets[t][k]].events]))

Shown(t) ==
  LET told == {k \in DOMAIN sockets[t] :
                 received[sockets[t][k]].status # "none"}
  IN  IF told = {} THEN "none" ELSE received[sockets[t][Max(told)]].status

----------------------------------------------------------------------------
(* Properties *)

LastRows(rows, n) == SubSeq(rows, Len(rows) - n + 1, Len(rows))

\* Once the callbacks of all events are done, the tab that connected last ends
\* with the whole history in order, or as much of it as fits, whatever it
\* showed before it reconnected; and it shows the status of the row.  (As
\* above, unless a callback could not read them.)
FeedEndsWithHistory ==
  Quiet /\ ~missed => \A t \in Tabs :
    sockets[t] # << >> /\ Last(sockets[t]) \in newest
      /\ client[Last(sockets[t])] = "open" =>
        /\ Shown(t) = status
        /\ LET rows == Feed(t)
               n == IF eventCount < MaxRows THEN eventCount ELSE MaxRows
           IN  Len(rows) >= n /\ LastRows(rows, n) = LastRows(UpTo(eventCount), n)

\* A row is shown a second time only because the tab reconnected: at most once
\* for each socket that was opened.
RowsRepeatedOnlyByReconnect ==
  \A t \in Tabs :
    LET rows == Feed(t)
    IN  \A i \in 1..eventCount :
          Cardinality({k \in DOMAIN rows : rows[k] = i}) <= Len(sockets[t])

\* A tab has one socket at a time, or is about to open one, and never both; a
\* tab that was left has none and will never have one.
OneSocketPerTab ==
  \A t \in Tabs :
    LET open == {c \in Opened(t) : Live(c) \/ c \in closing}
    IN  /\ Cardinality(open) + (IF timer[t] THEN 1 ELSE 0) <= 1
        /\ ~shouldReconnect[t] =>
             ~timer[t] /\ \A c \in open : c \in closing

============================================================================
