------------------------ MODULE ActivityStreamProofs ------------------------
(***************************************************************************)
(* Proofs about ActivityStream.  Seen from the server, tabs and reconnects  *)
(* are some of the connections and losses ConnectionManager allows, so what *)
(* is proved there holds with browsers attached; WorkflowSocket never has   *)
(* two sockets, nor a socket and a timer; and the rows a tab shows are the  *)
(* history, repeated by a reconnect only.                                   *)
(***************************************************************************)
EXTENDS ActivityStream, ConnectionManagerProofs, FiniteSetTheorems,
        WellFoundedInduction

----------------------------------------------------------------------------
(* The inductive invariant.                                                 *)

TabsTypeOK ==
  /\ sockets \in [Tabs -> Seq(Clients)]
  /\ \A t \in Tabs : IsInjective(sockets[t])
  /\ \A t, u \in Tabs : t # u => Opened(t) \cap Opened(u) = {}
  /\ closing \subseteq {c \in Clients : client[c] \in {"dead", "gone"}}
  /\ shouldReconnect \in [Tabs -> BOOLEAN] /\ timer \in [Tabs -> BOOLEAN]

\* A socket that is connected, or whose onclose is still to run.
Active(c) == Live(c) \/ c \in closing

\* Only the last socket of a tab can be active, and none is when the timer is
\* set; a tab that was left has no timer and no connected socket.
OnlyLastActive ==
  \A t \in Tabs :
    /\ \A k \in 1..Len(sockets[t]) :
         /\ client[sockets[t][k]] # "away"
         /\ Active(sockets[t][k]) => k = Len(sockets[t])
         /\ timer[t] => ~Active(sockets[t][k])
         /\ ~shouldReconnect[t] => ~Live(sockets[t][k])
    /\ ~shouldReconnect[t] => ~timer[t]

TabInvariant == TabsTypeOK /\ OnlyLastActive

\* The sockets of a tab, by their index.
LEMMA OpenedByIndex ==
  ASSUME TabsTypeOK, NEW t \in Tabs
  PROVE  /\ Len(sockets[t]) \in Nat
         /\ DOMAIN sockets[t] = 1..Len(sockets[t])
         /\ \A k \in 1..Len(sockets[t]) : sockets[t][k] \in Clients
         /\ Opened(t) = {sockets[t][k] : k \in 1..Len(sockets[t])}
         /\ Opened(t) \subseteq Clients
<1>1. sockets[t] \in Seq(Clients)
  BY DEF TabsTypeOK
<1>2. /\ Len(sockets[t]) \in Nat
      /\ DOMAIN sockets[t] = 1..Len(sockets[t])
      /\ \A k \in 1..Len(sockets[t]) : sockets[t][k] \in Clients
  BY <1>1
<1> QED BY <1>2 DEF Opened, ToSet

\* A step that touches none of the tabs' own variables, neither connects one of
\* their sockets again nor forgets that it was opened.
LEMMA ServerKeeps ==
  ASSUME TypeOK, TabInvariant, UNCHANGED tabVars,
         \A c \in Clients :
           /\ client'[c] = "away" => client[c] = "away"
           /\ \A t \in Tabs : c \in Opened(t) => (Live(c)' => Live(c))
           /\ client[c] \in {"dead", "gone"} => client'[c] \in {"dead", "gone"}
  PROVE  TabInvariant'
<1> USE DEF TabInvariant
<1>1. /\ sockets' = sockets /\ closing' = closing
      /\ shouldReconnect' = shouldReconnect /\ timer' = timer
  BY DEF tabVars
<1>2. TabsTypeOK'
  BY <1>1 DEF TabsTypeOK, Opened
<1>3. ASSUME NEW t \in Tabs, NEW k \in 1..Len(sockets[t])
      PROVE  /\ sockets[t][k] \in Clients /\ sockets[t][k] \in Opened(t)
  BY OpenedByIndex
<1>4. OnlyLastActive'
  BY <1>1, <1>3 DEF OnlyLastActive, Active
<1> QED BY <1>2, <1>4

\* A tab opens a socket, when it has no active one and no timer any more.
LEMMA OpenKeeps ==
  ASSUME TypeOK, TabInvariant, NEW t \in Tabs, Open(t),
         timer[t] \/ (sockets[t] = << >> /\ shouldReconnect[t])
  PROVE  TabInvariant'
<1> USE DEF TabInvariant
<1>1. PICK c \in Clients :
        Accept(c) /\ sockets' = [sockets EXCEPT ![t] = Append(@, c)]
  BY DEF Open
<1>2. /\ client[c] = "away" /\ client' = [client EXCEPT ![c] = "accepted"]
      /\ timer' = [timer EXCEPT ![t] = FALSE]
      /\ UNCHANGED <<closing, shouldReconnect>>
  BY <1>1 DEF Accept, Open
<1> DEFINE s == sockets[t]
           n == Len(s)
<1>3. /\ n \in Nat /\ DOMAIN s = 1..n /\ s \in Seq(Clients)
      /\ \A k \in 1..n : s[k] \in Clients
  BY OpenedByIndex DEF TabsTypeOK
<1>4. /\ Append(s, c) \in Seq(Clients) /\ Len(Append(s, c)) = n + 1
      /\ \A k \in 1..n : Append(s, c)[k] = s[k]
      /\ Append(s, c)[n + 1] = c
      /\ DOMAIN Append(s, c) = 1..(n + 1)
  BY <1>3
<1>5. sockets'[t] = Append(s, c) /\ \A u \in Tabs \ {t} : sockets'[u] = sockets[u]
  BY <1>1 DEF TabsTypeOK
<1>6. \A u \in Tabs : c \notin Opened(u)
  BY <1>2, OpenedByIndex DEF OnlyLastActive
<1>7. \A k \in 1..n : s[k] # c /\ ~Active(s[k]) /\ client[s[k]] # "away"
  BY <1>2, <1>3 DEF OnlyLastActive
<1>8. shouldReconnect[t]
  BY DEF OnlyLastActive
<1> HIDE DEF n, s
<1>9. Opened(t)' = Opened(t) \cup {c}
                   /\ \A u \in Tabs \ {t} : Opened(u)' = Opened(u)
  <2>1. ToSet(Append(s, c)) = ToSet(s) \cup {c}
    BY <1>3, <1>4 DEF ToSet
  <2> QED BY <1>5, <2>1 DEF Opened, s
<1>10. TabsTypeOK'
  <2>1. sockets' \in [Tabs -> Seq(Clients)]
    BY <1>1, <1>4 DEF TabsTypeOK, s
  <2>2. IsInjective(Append(s, c))
    <3>1. IsInjective(s)
      BY DEF TabsTypeOK, s
    <3> QED BY <1>3, <1>4, <1>7, <3>1 DEF IsInjective
  <2>3. \A u \in Tabs : IsInjective(sockets'[u])
    BY <1>5, <2>2 DEF TabsTypeOK
  <2>4. \A u, v \in Tabs : u # v => (Opened(u) \cap Opened(v))' = {}
    <3>1. ASSUME NEW u \in Tabs, NEW v \in Tabs, u # v
          PROVE  (Opened(u) \cap Opened(v))' = {}
      <4>1. Opened(u) \cap Opened(v) = {} /\ c \notin Opened(u) /\ c \notin Opened(v)
        BY <1>6, <3>1 DEF TabsTypeOK
      <4>2. CASE u = t
        BY <1>9, <3>1, <4>1, <4>2
      <4>3. CASE u # t
        BY <1>9, <3>1, <4>1, <4>3
      <4> QED BY <4>2, <4>3
    <3> QED BY <3>1
  <2>5. closing' \subseteq {d \in Clients : client'[d] \in {"dead", "gone"}}
    BY <1>2 DEF TabsTypeOK, TypeOK
  <2> QED BY <1>2, <2>1, <2>3, <2>4, <2>5 DEF TabsTypeOK
<1>11. c \notin closing
  BY <1>2 DEF TabsTypeOK
<1>12. \A d \in Clients : d # c => client'[d] = client[d]
  BY <1>2 DEF TypeOK
<1>13. ASSUME NEW u \in Tabs, NEW k \in 1..Len(sockets'[u])
       PROVE  /\ client'[sockets'[u][k]] # "away"
              /\ Active(sockets[u][k])' => k = Len(sockets'[u])
              /\ timer'[u] => ~Active(sockets[u][k])'
              /\ ~shouldReconnect'[u] => ~Live(sockets[u][k])'
  <2>1. CASE u = t /\ k \in 1..n
    <3>1. sockets'[u][k] = s[k] /\ s[k] # c /\ s[k] \in Clients
      BY <1>3, <1>4, <1>5, <1>7, <2>1
    <3>2. client'[s[k]] = client[s[k]]
      BY <1>12, <3>1
    <3> QED BY <1>2, <1>7, <2>1, <3>1, <3>2 DEF Active, Live
  <2>2. CASE u = t /\ k = n + 1
    <3>1. sockets'[u][k] = c /\ k = Len(sockets'[u])
      BY <1>4, <1>5, <2>2
    <3>2. client'[c] = "accepted" /\ ~timer'[u] /\ shouldReconnect'[u]
      BY <1>2, <1>8, <2>2 DEF TypeOK, TabsTypeOK
    <3> QED BY <3>1, <3>2
  <2>3. CASE u # t
    <3>1. sockets'[u] = sockets[u] /\ timer'[u] = timer[u]
      BY <1>2, <1>5, <2>3 DEF TabsTypeOK
    <3>2. sockets[u][k] \in Clients /\ sockets[u][k] # c
      BY <1>6, <3>1, OpenedByIndex
    <3>3. client'[sockets[u][k]] = client[sockets[u][k]]
      BY <1>12, <3>2
    <3> QED BY <1>2, <3>1, <3>3 DEF OnlyLastActive, Active, Live
  <2> QED BY <1>3, <1>4, <1>5, <2>1, <2>2, <2>3
<1>14. \A u \in Tabs : ~shouldReconnect'[u] => ~timer'[u]
  BY <1>2 DEF OnlyLastActive, TabsTypeOK
<1> QED BY <1>10, <1>13, <1>14 DEF OnlyLastActive

\* The last socket of a tab is one it opened.
LEMMA LastIsOpened ==
  ASSUME TabInvariant, NEW t \in Tabs, sockets[t] # << >>
  PROVE  Last(sockets[t]) \in Opened(t)
<1>1. sockets[t] \in Seq(Clients)
  BY DEF TabInvariant, TabsTypeOK
<1>2. Len(sockets[t]) \in 1..Len(sockets[t])
  BY <1>1, EmptySeq
<1> QED BY <1>2, OpenedByIndex DEF Last, TabInvariant

\* The socket of a tab is closed: by the server, the network or the page, which
\* then also clears the timer.
LEMMA CloseKeeps ==
  ASSUME TypeOK, TabInvariant, NEW t \in Tabs, NEW c \in Opened(t),
         TabCloses(c), closing' = closing \cup {c}, UNCHANGED sockets,
         \/ UNCHANGED <<shouldReconnect, timer>>
         \/ /\ shouldReconnect' = [shouldReconnect EXCEPT ![t] = FALSE]
            /\ timer' = [timer EXCEPT ![t] = FALSE]
  PROVE  TabInvariant'
<1> USE DEF TabInvariant
<1>1. c \in Clients /\ client' = [client EXCEPT ![c] = "dead"] /\ Live(c)
  BY OpenedByIndex DEF TabCloses, Live
<1>2. /\ client'[c] = "dead"
      /\ \A d \in Clients : d # c => client'[d] = client[d]
  BY <1>1 DEF TypeOK
<1>3. /\ \A u \in Tabs : timer'[u] => timer[u]
      /\ \A u \in Tabs : ~shouldReconnect'[u] =>
           \/ ~shouldReconnect[u]
           \/ u = t /\ ~timer'[u]
      /\ shouldReconnect' \in [Tabs -> BOOLEAN]
      /\ timer' \in [Tabs -> BOOLEAN]
  BY DEF TabsTypeOK
<1>4. TabsTypeOK'
  BY <1>1, <1>2, <1>3 DEF TabsTypeOK, TypeOK, Opened
<1>5. ASSUME NEW u \in Tabs, NEW k \in 1..Len(sockets[u]), NEW d \in Clients,
             d = sockets[u][k]
      PROVE  /\ client'[d] # "away"
             /\ Active(d)' => k = Len(sockets[u])
             /\ timer'[u] => ~Active(d)'
             /\ ~shouldReconnect'[u] => ~Live(d)'
  <2>1. d \in Clients /\ d \in Opened(u)
    BY <1>5, OpenedByIndex
  <2>2. /\ client[d] # "away" /\ (Active(d) => k = Len(sockets[u]))
        /\ timer[u] => ~Active(d)
        /\ ~shouldReconnect[u] => ~Live(d)
    BY <1>5 DEF OnlyLastActive
  <2>3. d = c => u = t
    BY <2>1 DEF TabsTypeOK
  <2>4. CASE d = c
    BY <1>1, <1>2, <1>3, <2>2, <2>4 DEF Active, Live
  <2>5. CASE d # c
    <3>1. /\ Live(d)' <=> Live(d)
          /\ Active(d)' <=> Active(d)
      BY <1>2, <2>1, <2>5 DEF Active, Live
    <3>2. u = t /\ ~shouldReconnect'[u] /\ shouldReconnect[u] => ~Live(d)
      <4>1. PICK m \in 1..Len(sockets[t]) : sockets[t][m] = c
        BY OpenedByIndex
      <4>2. m = Len(sockets[t])
        BY <1>1, <4>1 DEF OnlyLastActive, Active
      <4> QED BY <1>5, <2>2, <2>5, <4>1, <4>2 DEF Active
    <3> QED BY <1>2, <1>3, <2>1, <2>2, <2>5, <3>1, <3>2
  <2> QED BY <2>4, <2>5
<1>6. \A u \in Tabs : ~shouldReconnect'[u] => ~timer'[u]
  BY <1>3 DEF OnlyLastActive
<1>7. \A u \in Tabs : \A k \in 1..Len(sockets[u]) : sockets[u][k] \in Clients
  BY OpenedByIndex
<1> QED BY <1>4, <1>5, <1>6, <1>7 DEF OnlyLastActive, Active, Live

\* onclose runs: the last active socket of the tab is no longer active.
LEMMA OnCloseKeeps ==
  ASSUME TypeOK, TabInvariant, NEW t \in Tabs, OnClose(t)
  PROVE  TabInvariant'
<1> USE DEF TabInvariant
<1>1. PICK c \in Opened(t) \cap closing : closing' = closing \ {c}
  BY DEF OnClose
<1>2. /\ timer' = [timer EXCEPT ![t] = shouldReconnect[t]]
      /\ client' = client /\ sockets' = sockets
      /\ shouldReconnect' = shouldReconnect
  BY DEF OnClose, vars
<1>3. TabsTypeOK'
  BY <1>1, <1>2 DEF TabsTypeOK, Opened
<1>4. \A u \in Tabs : ~shouldReconnect'[u] => ~timer'[u]
  BY <1>2 DEF OnlyLastActive, TabsTypeOK
<1>5. PICK m \in 1..Len(sockets[t]) : sockets[t][m] = c
  BY <1>1, OpenedByIndex
<1>6. m = Len(sockets[t]) /\ ~Live(c)
  BY <1>1, <1>5 DEF OnlyLastActive, Active, TabsTypeOK, Live
<1>7. \A d \in Clients : Active(d)' => Active(d)
  BY <1>1, <1>2 DEF Active, Live
<1>8. ASSUME NEW u \in Tabs, NEW k \in 1..Len(sockets[u]), NEW d \in Clients,
             d = sockets[u][k]
      PROVE  /\ client'[d] # "away"
             /\ Active(d)' => k = Len(sockets[u])
             /\ timer'[u] => ~Active(d)'
             /\ ~shouldReconnect'[u] => ~Live(d)'
  <2>2. /\ client[d] # "away" /\ (Active(d) => k = Len(sockets[u]))
        /\ timer[u] => ~Active(d)
        /\ ~shouldReconnect[u] => ~Live(d)
    BY <1>8 DEF OnlyLastActive
  <2>3. CASE u # t
    BY <1>2, <1>7, <2>2, <2>3 DEF TabsTypeOK, Live
  <2>4. CASE u = t
    <3>1. ~Active(d)'
      BY <1>1, <1>2, <1>5, <1>6, <1>8, <2>2, <2>4 DEF Active, Live
    <3> QED BY <1>2, <2>2, <3>1 DEF Live
  <2> QED BY <2>3, <2>4
<1>9. \A u \in Tabs : \A k \in 1..Len(sockets[u]) : sockets[u][k] \in Clients
  BY OpenedByIndex
<1> QED BY <1>2, <1>3, <1>4, <1>8, <1>9 DEF OnlyLastActive, Active, Live

\* disconnect(), when the tab has no connected socket to close.
LEMMA LeaveIdleKeeps ==
  ASSUME TypeOK, TabInvariant, NEW t \in Tabs, sockets[t] # << >>,
         ~Live(Last(sockets[t])), UNCHANGED <<vars, closing, sockets>>,
         shouldReconnect' = [shouldReconnect EXCEPT ![t] = FALSE],
         timer' = [timer EXCEPT ![t] = FALSE]
  PROVE  TabInvariant'
<1> USE DEF TabInvariant
<1>1. client' = client
  BY DEF vars
<1>2. TabsTypeOK'
  BY <1>1 DEF TabsTypeOK, Opened
<1>3. /\ \A u \in Tabs : timer'[u] => timer[u]
      /\ \A u \in Tabs : ~shouldReconnect'[u] => ~shouldReconnect[u] \/ u = t
      /\ ~timer'[t]
  BY DEF TabsTypeOK
<1>4. \A k \in 1..Len(sockets[t]) : ~Live(sockets[t][k])
  BY DEF OnlyLastActive, Active, Last
<1>5. OnlyLastActive'
  BY <1>1, <1>3, <1>4 DEF OnlyLastActive, Active, Live
<1> QED BY <1>2, <1>5

LEMMA InitTabs == StreamInit => TabInvariant
<1> SUFFICES ASSUME StreamInit PROVE TabInvariant
  OBVIOUS
<1>1. \A t \in Tabs : sockets[t] = << >> /\ shouldReconnect[t] /\ ~timer[t]
  BY DEF StreamInit
<1>2. sockets \in [Tabs -> Seq(Clients)]
  BY DEF StreamInit
<1>3. TabsTypeOK
  BY <1>1, <1>2 DEF StreamInit, TabsTypeOK, IsInjective, Opened, ToSet
<1>4. OnlyLastActive
  BY <1>1 DEF OnlyLastActive
<1> QED BY <1>3, <1>4 DEF TabInvariant

\* The server's own steps connect nothing again.
LEMMA ServerStepKeeps ==
  ASSUME TypeOK, TabInvariant, Server
  PROVE  TabInvariant'
<1>1. UNCHANGED tabVars
  BY DEF Server
<1>2. CASE Environment \/ \E i \in 1..MaxEvents : OnEvent(i)
  <2>1. client' = client
    BY <1>2 DEF Environment, Publish, RowWritten, Audit, OnEvent, OnEventStarts,
       OnEventEvents, OnEventAudits, OnEventState, OnEventFails
  <2> QED BY <1>1, <2>1, ServerKeeps DEF Live
<1>3. ASSUME NEW c \in Clients,
             \/ SnapshotEvents(c) \/ SnapshotAudits(c) \/ SnapshotState(c)
             \/ SnapshotFails(c) \/ Disconnect(c)
      PROVE  TabInvariant'
  <2>1. /\ \A d \in Clients : d # c => client'[d] = client[d]
        /\ client'[c] # "away"
        /\ Live(c)' => Live(c)
        /\ client[c] \in {"dead", "gone"} => client'[c] \in {"dead", "gone"}
    BY <1>3 DEF TypeOK, SnapshotEvents, SnapshotAudits, SnapshotState,
       SnapshotFails, Disconnect, Live
  <2>2. \A d \in Clients : (Live(d)' => Live(d))
    BY <2>1 DEF Live
  <2> QED BY <1>1, <2>1, <2>2, ServerKeeps
<1> QED BY <1>2, <1>3 DEF Server

\* Sockets of other clients come and go.
LEMMA ElsewhereKeeps ==
  ASSUME TypeOK, TabInvariant, NEW c \in Clients, Elsewhere(c)
  PROVE  TabInvariant'
<1>1. UNCHANGED tabVars /\ \A t \in Tabs : c \notin Opened(t)
  BY DEF Elsewhere
<1>2. /\ \A d \in Clients : d # c => client'[d] = client[d]
      /\ client'[c] # "away"
      /\ client[c] \notin {"dead", "gone"}
  BY DEF TypeOK, Elsewhere, Accept, TabCloses
<1>3. \A d \in Clients : d # c => (Live(d)' <=> Live(d))
  BY <1>2 DEF Live
<1> QED BY <1>1, <1>2, <1>3, ServerKeeps

LEMMA NextTabs == TypeOK /\ TabInvariant /\ [StreamNext]_streamVars =>
                    TabInvariant'
<1> SUFFICES ASSUME TypeOK, TabInvariant, [StreamNext]_streamVars
             PROVE  TabInvariant'
  OBVIOUS
<1>1. CASE Server
  BY <1>1, ServerStepKeeps
<1>2. CASE \E c \in Clients : Elsewhere(c)
  BY <1>2, ElsewhereKeeps
<1>3. ASSUME NEW t \in Tabs, Connect(t) \/ Reconnect(t)
      PROVE  TabInvariant'
  <2>1. Open(t) /\ (timer[t] \/ (sockets[t] = << >> /\ shouldReconnect[t]))
    BY <1>3 DEF Connect, Reconnect
  <2> QED BY <2>1, OpenKeeps
<1>4. ASSUME NEW t \in Tabs, ConnectionLost(t)
      PROVE  TabInvariant'
  BY <1>4, CloseKeeps DEF ConnectionLost
<1>5. ASSUME NEW t \in Tabs, OnClose(t)
      PROVE  TabInvariant'
  BY <1>5, OnCloseKeeps
<1>6. ASSUME NEW t \in Tabs, Leave(t)
      PROVE  TabInvariant'
  <2>1. /\ sockets[t] # << >> /\ UNCHANGED sockets
        /\ shouldReconnect' = [shouldReconnect EXCEPT ![t] = FALSE]
        /\ timer' = [timer EXCEPT ![t] = FALSE]
    BY <1>6 DEF Leave
  <2>2. CASE Live(Last(sockets[t]))
    <3>1. TabCloses(Last(sockets[t])) /\ closing' = closing \cup {Last(sockets[t])}
      BY <1>6, <2>2 DEF Leave
    <3>2. Last(sockets[t]) \in Opened(t)
      BY <2>1, LastIsOpened
    <3> QED BY <2>1, <3>1, <3>2, CloseKeeps
  <2>3. CASE ~Live(Last(sockets[t]))
    BY <1>6, <2>1, <2>3, LeaveIdleKeeps DEF Leave
  <2> QED BY <2>2, <2>3
<1>7. CASE UNCHANGED streamVars
  <2>1. client' = client /\ UNCHANGED tabVars
    BY <1>7 DEF streamVars, vars, tabVars
  <2> QED BY <2>1, ServerKeeps DEF Live
<1> QED BY <1>1, <1>2, <1>3, <1>4, <1>5, <1>6, <1>7 DEF StreamNext

----------------------------------------------------------------------------
(* Theorems *)

\* Seen from the server, a step of a tab is a connection, a loss or nothing.
LEMMA ManagerStep ==
  ASSUME TabInvariant, [StreamNext]_streamVars
  PROVE  [Next]_vars
<1>1. \A t \in Tabs : Opened(t) \subseteq Clients
  BY OpenedByIndex DEF TabInvariant
<1>2. \A c \in Clients : Accept(c) \/ TabCloses(c) => Next
  BY DEF Endpoint, Next
<1>3. CASE Server
  BY <1>3 DEF Server, Next, Endpoint
<1>4. CASE \E c \in Clients : Elsewhere(c)
  BY <1>2, <1>4 DEF Elsewhere
<1>5. ASSUME NEW t \in Tabs,
             Connect(t) \/ Reconnect(t) \/ ConnectionLost(t) \/ OnClose(t)
      PROVE  [Next]_vars
  BY <1>1, <1>2, <1>5 DEF Connect, Reconnect, Open, ConnectionLost, OnClose
<1>6. ASSUME NEW t \in Tabs, Leave(t)
      PROVE  [Next]_vars
  <2>1. Last(sockets[t]) \in Clients
    BY <1>1, <1>6, LastIsOpened DEF Leave
  <2> QED BY <1>2, <1>6, <2>1 DEF Leave
<1>7. CASE UNCHANGED streamVars
  BY <1>7 DEF streamVars
<1> QED BY <1>3, <1>4, <1>5, <1>6, <1>7 DEF StreamNext

\* Both invariants hold together.
LEMMA TabsCorrect ==
  StreamSpec => [](StreamInvariant /\ TabInvariant) /\ Spec
<1>1. StreamInit => Init /\ StreamInvariant /\ TabInvariant
  BY InitTabs, InitStream DEF StreamInit
<1>2. StreamInvariant /\ TabInvariant /\ [StreamNext]_streamVars =>
        [Next]_vars /\ (StreamInvariant /\ TabInvariant)'
  <2>1. StreamInvariant => TypeOK
    BY DEF StreamInvariant
  <2> QED BY <2>1, ManagerStep, NextStream, NextTabs
<1> QED BY <1>1, <1>2, PTL DEF StreamSpec, Spec

\* Whatever browsers do, the server sees connections and losses that
\* ConnectionManager allows: what is proved there holds with tabs attached.
THEOREM StreamImplementsManager == StreamSpec => Spec
BY TabsCorrect, PTL

\* Every variable of the stream and of the tabs keeps its type, and no socket
\* belongs to two tabs.
THEOREM StreamTypesCorrect == StreamSpec => []StreamTypeOK
<1>1. StreamInvariant /\ TabInvariant => StreamTypeOK
  BY DEF StreamInvariant, TabInvariant, TabsTypeOK, StreamTypeOK
<1> QED BY <1>1, TabsCorrect, PTL

\* No tab is sent an event or an audit entry twice, with tabs reconnecting.
THEOREM TabsSentNothingTwice == StreamSpec => []NothingTwice
BY StreamImplementsManager, NothingSentTwice, PTL

\* A tab has one socket or a timer, never both, and none once it was left.
THEOREM OneSocketOrTimer == StreamSpec => []OneSocketPerTab
<1>1. TabInvariant => OneSocketPerTab
  <2> SUFFICES ASSUME TabInvariant, NEW t \in Tabs
               PROVE  LET open == {c \in Opened(t) : Live(c) \/ c \in closing}
                      IN  /\ Cardinality(open) + (IF timer[t] THEN 1 ELSE 0) <= 1
                          /\ ~shouldReconnect[t] =>
                               ~timer[t] /\ \A c \in open : c \in closing
    BY DEF OneSocketPerTab
  <2> DEFINE open == {c \in Opened(t) : Live(c) \/ c \in closing}
             latest == sockets[t][Len(sockets[t])]
  <2>1. open \subseteq {latest}
    BY OpenedByIndex DEF TabInvariant, OnlyLastActive, Active
  <2>2. timer[t] => open = {}
    BY OpenedByIndex DEF TabInvariant, OnlyLastActive, Active
  <2>3. Cardinality({}) = 0 /\ Cardinality({latest}) = 1
    BY FS_EmptySet, FS_Singleton
  <2>4. ~shouldReconnect[t] => ~timer[t] /\ \A c \in open : c \in closing
    BY OpenedByIndex DEF TabInvariant, OnlyLastActive
  <2> HIDE DEF open, latest
  <2>5. open = {} \/ open = {latest}
    BY <2>1
  <2>6. Cardinality(open) + (IF timer[t] THEN 1 ELSE 0) <= 1
    <3>1. CASE open = {}
      BY <2>3, <3>1
    <3>2. CASE open = {latest}
      BY <2>2, <2>3, <3>2
    <3> QED BY <2>5, <3>1, <3>2
  <2> QED BY <2>4, <2>6 DEF open
<1> QED BY <1>1, TabsCorrect, PTL

----------------------------------------------------------------------------
(* The rows a tab shows.  FlattenSeq is recursive, so what it returns is    *)
(* found by induction on a set of numbers, from its least missing element.  *)

LEMMA NatInduct ==
  ASSUME NEW G, 0 \in G, \A n \in Nat : n \in G => n + 1 \in G
  PROVE  \A n \in Nat : n \in G
<1> DEFINE Out == {n \in Nat : n \notin G}
           R == OpToRel(<, Nat)
<1>1. ASSUME Out # {} PROVE FALSE
  <2>1. IsWellFoundedOn(R, Nat)
    BY NatLessThanWellFounded
  <2>2. Out \subseteq Nat
    OBVIOUS
  <2> HIDE DEF Out, R
  <2>3. \E n \in Out : \A m \in Out : ~(<<m, n>> \in R)
    BY <1>1, <2>1, <2>2, WFMin
  <2>4. PICK n \in Out : \A m \in Out : ~(<<m, n>> \in R)
    BY <2>3
  <2>5. n \in Nat /\ n \notin G
    BY DEF Out
  <2>6. n - 1 \in Nat /\ n - 1 < n /\ (n - 1) + 1 = n
    BY <2>5
  <2>7. <<n - 1, n>> \in R
    BY <2>5, <2>6 DEF R, OpToRel
  <2>8. n - 1 \notin G
    BY <2>5, <2>6
  <2> QED BY <2>4, <2>6, <2>7, <2>8 DEF Out
<1> QED BY <1>1

\* FlattenSeq returns the last of a chain of sequences, each of them the one
\* before with the next part appended.
LEMMA FlattenUnfolds ==
  ASSUME NEW E, NEW S \in Seq(Seq(E)), Len(S) > 0
  PROVE  \E f : /\ FlattenSeq(S) = f[Len(S)]
                /\ \A i \in 1..Len(S) :
                     f[i] = IF i = 1 THEN S[i] ELSE f[i - 1] \o S[i]
<1> DEFINE F(n, f) ==
             f = [i \in 1..n |-> IF i = 1 THEN S[i] ELSE f[i-1] \o S[i]]
           G == {n \in Nat : \E f : F(n, f)}
<1>1. 0 \in G
  <2>1. F(0, [i \in 1..0 |-> IF i = 1 THEN S[i] ELSE S[i]])
    OBVIOUS
  <2>2. \E f : F(0, f)
    BY <2>1
  <2> QED BY <2>2
<1>2. ASSUME NEW n \in Nat, n \in G PROVE n + 1 \in G
  <2>1. PICK f : F(n, f)
    BY <1>2
  <2> DEFINE g == [i \in 1..(n + 1) |->
                     IF i = 1 THEN S[i] ELSE f[i-1] \o S[i]]
  <2>2. ASSUME NEW i \in 1..n PROVE f[i] = g[i]
    <3>1. f[i] = [j \in 1..n |-> IF j = 1 THEN S[j] ELSE f[j-1] \o S[j]][i]
      BY <2>1
    <3>2. f[i] = IF i = 1 THEN S[i] ELSE f[i-1] \o S[i]
      BY <3>1
    <3>3. i \in 1..(n + 1)
      OBVIOUS
    <3>4. g[i] = IF i = 1 THEN S[i] ELSE f[i-1] \o S[i]
      BY <3>3
    <3> QED BY <3>2, <3>4
  <2>3. \A i \in 1..(n + 1) : i # 1 => i - 1 \in 1..n
    OBVIOUS
  <2>4. F(n + 1, g)
    BY <2>2, <2>3
  <2>5. \E h : F(n + 1, h)
    BY <2>4
  <2>6. n + 1 \in Nat
    OBVIOUS
  <2> HIDE DEF F
  <2> QED BY <2>5, <2>6
<1>3. Len(S) \in G
  <2>1. Len(S) \in Nat
    OBVIOUS
  <2>2. \A n \in Nat : n \in G => n + 1 \in G
    BY <1>2
  <2> HIDE DEF G
  <2>3. \A n \in Nat : n \in G
    BY <1>1, <2>2, NatInduct
  <2> QED BY <2>1, <2>3
<1>4. \E f : F(Len(S), f)
  BY <1>3
<1>5. FlattenSeq(S) = (CHOOSE f : F(Len(S), f))[Len(S)]
  BY DEF FlattenSeq
<1>6. F(Len(S), CHOOSE f : F(Len(S), f))
  BY <1>4
<1>7. PICK f : FlattenSeq(S) = f[Len(S)] /\ F(Len(S), f)
  BY <1>5, <1>6
<1>8. ASSUME NEW i \in 1..Len(S)
      PROVE  f[i] = IF i = 1 THEN S[i] ELSE f[i-1] \o S[i]
  <2>1. f[i] = [j \in 1..Len(S) |->
                  IF j = 1 THEN S[j] ELSE f[j-1] \o S[j]][i]
    BY <1>7
  <2> QED BY <2>1
<1> QED BY <1>7, <1>8

\* Where a row is found in a list of rows.
Places(rows, e) == {k \in 1..Len(rows) : rows[k] = e}

LEMMA PlacesFinite ==
  ASSUME NEW E, NEW s \in Seq(E), NEW e
  PROVE  IsFiniteSet(Places(s, e)) /\ Cardinality(Places(s, e)) \in Nat
<1>1. IsFiniteSet(1..Len(s))
  BY FS_Interval
<1>2. Places(s, e) \in SUBSET (1..Len(s))
  BY DEF Places
<1>3. IsFiniteSet(Places(s, e))
  BY <1>1, <1>2, FS_Subset
<1> QED BY <1>3, FS_CardinalityType

\* A part that has the row once at most adds one place at most.
LEMMA AppendedPlaces ==
  ASSUME NEW E, NEW s \in Seq(E), NEW p \in Seq(E), NEW e, NEW n \in Nat,
         Cardinality(Places(s, e)) <= n,
         \A j, k \in 1..Len(p) : p[j] = e /\ p[k] = e => j = k
  PROVE  Cardinality(Places(s \o p, e)) <= n + 1
<1> DEFINE both == s \o p
           old == Places(s, e)
           new == Places(both, e)
<1>1. /\ Len(both) = Len(s) + Len(p) /\ both \in Seq(E)
      /\ \A k \in 1..(Len(s) + Len(p)) :
           both[k] = IF k <= Len(s) THEN s[k] ELSE p[k - Len(s)]
  BY ConcatProperties
<1> HIDE DEF both
<1>2. Len(s) \in Nat /\ Len(p) \in Nat
  OBVIOUS
<1>3. \A k \in new : k <= Len(s) => k \in old
  BY <1>1, <1>2 DEF Places
<1>4. \A k \in new : k > Len(s) =>
        k - Len(s) \in 1..Len(p) /\ p[k - Len(s)] = e
  BY <1>1, <1>2 DEF Places
<1>5. \A k \in new : k \in Nat
  BY <1>1, <1>2 DEF Places
<1>6. \A j, k \in new : j > Len(s) /\ k > Len(s) => j = k
  BY <1>2, <1>4, <1>5
<1>7. IsFiniteSet(old) /\ Cardinality(old) \in Nat
  BY PlacesFinite
<1>8. \E x : new \subseteq old \cup {x}
  <2>1. CASE \A k \in new : k <= Len(s)
    BY <1>3, <2>1
  <2>2. CASE \E x \in new : x > Len(s)
    <3>1. PICK x \in new : x > Len(s)
      BY <2>2
    <3> HIDE DEF old, new
    <3>2. \A k \in new : k \in old \cup {x}
      BY <1>2, <1>3, <1>5, <1>6, <3>1
    <3> QED BY <3>2
  <2> HIDE DEF new
  <2>3. \A k \in new : k <= Len(s) \/ k > Len(s)
    BY <1>2, <1>5
  <2> QED BY <2>1, <2>2, <2>3
<1>9. PICK x : new \subseteq old \cup {x}
  BY <1>8
<1> HIDE DEF old, new
<1>10. /\ IsFiniteSet(old \cup {x})
       /\ \/ Cardinality(old \cup {x}) = Cardinality(old)
          \/ Cardinality(old \cup {x}) = Cardinality(old) + 1
  BY <1>7, FS_AddElement
<1>11. Cardinality(new) <= Cardinality(old \cup {x}) /\ IsFiniteSet(new)
  BY <1>9, <1>10, FS_Subset
<1>12. Cardinality(new) \in Nat
  BY <1>11, FS_CardinalityType
<1>13. Cardinality(old) <= n
  BY DEF old
<1>14. Cardinality(new) <= n + 1
  BY <1>7, <1>10, <1>11, <1>12, <1>13
<1> QED BY <1>14 DEF new, both

\* Flattened, the parts end with the last of them; and a row that no part has
\* twice is found at most once for each part.
LEMMA FlattenFacts ==
  ASSUME NEW E, NEW S \in Seq(Seq(E)), Len(S) > 0
  PROVE  /\ FlattenSeq(S) \in Seq(E)
         /\ \E x \in Seq(E) : FlattenSeq(S) = x \o S[Len(S)]
         /\ \A e :
              (\A i \in 1..Len(S) : \A j, k \in 1..Len(S[i]) :
                 S[i][j] = e /\ S[i][k] = e => j = k)
              => Cardinality(Places(FlattenSeq(S), e)) <= Len(S)
<1> DEFINE len == Len(S)
<1>1. /\ len \in Nat /\ len > 0
      /\ \A i \in 1..len : S[i] \in Seq(E)
  OBVIOUS
<1>2. PICK f : /\ FlattenSeq(S) = f[len]
               /\ \A i \in 1..len :
                    f[i] = IF i = 1 THEN S[i] ELSE f[i - 1] \o S[i]
  BY FlattenUnfolds
<1> HIDE DEF len
<1>3. f[1] = S[1]
  BY <1>1, <1>2
<1>4. ASSUME NEW n \in Nat, n + 1 \in 1..len, n # 0
      PROVE  n \in 1..len /\ f[n + 1] = f[n] \o S[n + 1]
  <2>1. (n + 1) - 1 = n /\ n + 1 # 1 /\ n \in 1..len
    BY <1>1, <1>4
  <2>2. f[n + 1] = IF n + 1 = 1 THEN S[n + 1]
                   ELSE f[(n + 1) - 1] \o S[n + 1]
    BY <1>2, <1>4
  <2> QED BY <2>1, <2>2
<1>5. \A n \in 1..len : f[n] \in Seq(E)
  <2> DEFINE G == {n \in Nat : n \in 1..len => f[n] \in Seq(E)}
  <2>1. 0 \in G
    OBVIOUS
  <2>2. ASSUME NEW n \in Nat, n \in G PROVE n + 1 \in G
    <3>1. CASE n = 0 \/ n + 1 \notin 1..len
      BY <1>1, <1>3, <3>1
    <3>2. CASE n # 0 /\ n + 1 \in 1..len
      <4>1. f[n] \in Seq(E) /\ f[n + 1] = f[n] \o S[n + 1]
        BY <1>4, <2>2, <3>2
      <4>2. S[n + 1] \in Seq(E)
        BY <1>1, <3>2
      <4>3. f[n + 1] \in Seq(E)
        BY <4>1, <4>2, ConcatProperties
      <4> QED BY <4>3
    <3> QED BY <3>1, <3>2
  <2> HIDE DEF G
  <2>3. \A n \in Nat : n \in G
    BY <2>1, <2>2, NatInduct
  <2> QED BY <2>3, <1>1 DEF G
<1>6. len \in 1..len
  BY <1>1
<1>7. \E x \in Seq(E) : f[len] = x \o S[len]
  <2>1. CASE len = 1
    <3>1. << >> \o S[1] = S[1] /\ << >> \in Seq(E)
      BY <1>1, <2>1, ConcatEmptySeq
    <3> QED BY <1>3, <2>1, <3>1
  <2>2. CASE len # 1
    <3>1. len - 1 \in Nat /\ (len - 1) + 1 = len /\ len - 1 # 0
      BY <1>1, <2>2
    <3>2. /\ len - 1 \in 1..len
          /\ f[(len - 1) + 1] = f[len - 1] \o S[(len - 1) + 1]
      BY <1>4, <1>6, <3>1
    <3>3. f[len] = f[len - 1] \o S[len] /\ f[len - 1] \in Seq(E)
      BY <1>5, <3>1, <3>2
    <3> QED BY <3>3
  <2> QED BY <2>1, <2>2
<1>8. ASSUME NEW e, \A i \in 1..len : \A j, k \in 1..Len(S[i]) :
                      S[i][j] = e /\ S[i][k] = e => j = k
      PROVE  Cardinality(Places(f[len], e)) <= len
  <2> DEFINE few(n) == Cardinality(Places(f[n], e)) <= n
             G == {n \in Nat : n \in 1..len => few(n)}
  <2>1. 0 \in G
    OBVIOUS
  <2>2. ASSUME NEW n \in Nat, n \in G PROVE n + 1 \in G
    <3>1. CASE n + 1 \notin 1..len
      BY <3>1
    <3>2. CASE n = 0 /\ n + 1 \in 1..len
      <4>1. << >> \in Seq(E) /\ Places(<< >>, e) = {}
        BY DEF Places
      <4>2. Cardinality(Places(<< >>, e)) <= 0
        <5>1. Cardinality(Places(<< >>, e)) = 0
          BY <4>1, FS_EmptySet
        <5> QED BY <5>1
      <4>3. S[1] \in Seq(E) /\ \A j, k \in 1..Len(S[1]) :
                                 S[1][j] = e /\ S[1][k] = e => j = k
        <5>1. 1 \in 1..len
          BY <1>1
        <5> QED BY <1>1, <1>8, <5>1
      <4>4. Cardinality(Places(<< >> \o S[1], e)) <= 0 + 1
        BY <4>1, <4>2, <4>3, AppendedPlaces
      <4>5. << >> \o S[1] = f[1]
        BY <1>3, <4>3, ConcatEmptySeq
      <4>6. few(n + 1)
        BY <3>2, <4>4, <4>5
      <4> HIDE DEF few
      <4> QED BY <4>6
    <3>3. CASE n # 0 /\ n + 1 \in 1..len
      <4>1. n \in 1..len /\ f[n + 1] = f[n] \o S[n + 1]
        BY <1>4, <3>3
      <4>2. f[n] \in Seq(E) /\ Cardinality(Places(f[n], e)) <= n
        BY <1>5, <2>2, <4>1
      <4>3. S[n + 1] \in Seq(E) /\ \A j, k \in 1..Len(S[n + 1]) :
                             S[n + 1][j] = e /\ S[n + 1][k] = e => j = k
        BY <1>1, <1>8, <3>3
      <4>4. Cardinality(Places(f[n] \o S[n + 1], e)) <= n + 1
        BY <4>2, <4>3, AppendedPlaces
      <4>5. few(n + 1)
        BY <4>1, <4>4
      <4> HIDE DEF few
      <4> QED BY <4>5
    <3> QED BY <3>1, <3>2, <3>3
  <2> HIDE DEF G
  <2>3. \A n \in Nat : n \in G
    BY <2>1, <2>2, NatInduct
  <2> QED BY <2>3, <1>1, <1>6 DEF G
<1> QED BY <1>2, <1>5, <1>6, <1>7, <1>8 DEF len

\* capPush keeps the end of the list.
LEMMA CapFacts ==
  ASSUME NEW E, NEW rows \in Seq(E)
  PROVE  /\ Cap(rows) \in Seq(E)
         /\ \E d \in Nat :
              /\ Len(rows) = d + Len(Cap(rows))
              /\ IF Len(rows) > MaxRows THEN Len(Cap(rows)) = MaxRows ELSE d = 0
              /\ \A k \in 1..Len(Cap(rows)) : Cap(rows)[k] = rows[d + k]
<1>1. MaxRows \in Nat /\ Len(rows) \in Nat
  BY TabAssumption DEF TabAssumption
<1>2. CASE Len(rows) > MaxRows
  <2> DEFINE d == Len(rows) - MaxRows
             last == SubSeq(rows, d + 1, Len(rows))
  <2>1. d \in Nat /\ d + 1 \in Int /\ Len(rows) \in Int
        /\ Len(rows) - (d + 1) + 1 = MaxRows
        /\ (d + 1 <= Len(rows) \/ MaxRows = 0)
    BY <1>1, <1>2
  <2>2. \A i \in (d + 1)..Len(rows) : rows[i] \in E
    BY <1>1, <1>2
  <2>3. /\ last \in Seq(E)
        /\ Len(last) = IF d + 1 <= Len(rows) THEN Len(rows) - (d + 1) + 1 ELSE 0
        /\ \A i \in 1..(Len(rows) - (d + 1) + 1) :
             last[i] = rows[(d + 1) + i - 1]
    <3> HIDE DEF d
    <3> QED BY <2>1, <2>2, SubSeqProperties
  <2>4. Len(last) = MaxRows
    BY <2>1, <2>3
  <2>5. \A i \in 1..MaxRows : last[i] = rows[d + i]
    BY <1>1, <2>1, <2>3
  <2>6. Cap(rows) = last
    BY <1>2 DEF Cap
  <2>7. Len(rows) = d + MaxRows
    BY <1>1
  <2> HIDE DEF d, last
  <2> QED BY <1>2, <2>1, <2>3, <2>4, <2>5, <2>6, <2>7
<1>3. CASE ~(Len(rows) > MaxRows)
  <2>1. Cap(rows) = rows
    BY <1>3 DEF Cap
  <2>2. 0 \in Nat /\ Len(rows) = 0 + Len(rows)
        /\ \A k \in 1..Len(rows) : rows[k] = rows[0 + k]
    BY <1>1
  <2> QED BY <1>3, <2>1, <2>2
<1> QED BY <1>2, <1>3

\* It shows no row more often.
LEMMA CapPlaces ==
  ASSUME NEW E, NEW rows \in Seq(E), NEW e
  PROVE  Cardinality(Places(Cap(rows), e)) <= Cardinality(Places(rows, e))
<1>1. PICK d \in Nat :
        /\ Len(rows) = d + Len(Cap(rows))
        /\ \A k \in 1..Len(Cap(rows)) : Cap(rows)[k] = rows[d + k]
  BY CapFacts
<1>2. Cap(rows) \in Seq(E)
  BY CapFacts
<1> DEFINE shown == Places(Cap(rows), e)
           all == Places(rows, e)
           place == [k \in shown |-> d + k]
<1>3. \A k \in shown : k \in Nat /\ d + k \in all
  BY <1>1, <1>2 DEF Places
<1>4. place \in [shown -> all]
  BY <1>3
<1>5. \A j, k \in shown : place[j] = place[k] => j = k
  BY <1>3
<1>6. IsFiniteSet(all)
  BY PlacesFinite
<1> HIDE DEF shown, all, place
<1>7. place \in Injection(shown, all)
  BY <1>4, <1>5 DEF Injection, IsInjective
<1>8. Cardinality(shown) <= Cardinality(all)
  BY <1>6, <1>7, FS_Injection
<1> QED BY <1>8 DEF shown, all

LEMMA LastRowsFacts ==
  ASSUME NEW E, NEW rows \in Seq(E), NEW n \in Nat, n <= Len(rows)
  PROVE  /\ LastRows(rows, n) \in Seq(E) /\ Len(LastRows(rows, n)) = n
         /\ \A i \in 1..n : LastRows(rows, n)[i] = rows[(Len(rows) - n) + i]
<1> DEFINE m == Len(rows) - n + 1
           last == SubSeq(rows, m, Len(rows))
<1>1. /\ Len(rows) \in Nat /\ m \in Int /\ Len(rows) \in Int
      /\ Len(rows) - m + 1 = n /\ (n = 0 <=> ~(m <= Len(rows)))
  OBVIOUS
<1>2. \A i \in m..Len(rows) : rows[i] \in E
  OBVIOUS
<1>3. /\ last \in Seq(E)
      /\ Len(last) = IF m <= Len(rows) THEN Len(rows) - m + 1 ELSE 0
      /\ \A i \in 1..(Len(rows) - m + 1) : last[i] = rows[m + i - 1]
  <2> HIDE DEF m
  <2> QED BY <1>1, <1>2, SubSeqProperties
<1>4. last = LastRows(rows, n)
  BY DEF LastRows
<1>5. \A i \in 1..n : m + i - 1 = (Len(rows) - n) + i
  OBVIOUS
<1> HIDE DEF last, m
<1> QED BY <1>1, <1>3, <1>4, <1>5

\* A list that ends with some rows still does when it is cut, as far as it goes.
LEMMA CapEndsWith ==
  ASSUME NEW E, NEW x \in Seq(E), NEW u \in Seq(E), NEW n \in Nat,
         n <= Len(u), n <= MaxRows
  PROVE  /\ Len(Cap(x \o u)) >= n
         /\ LastRows(Cap(x \o u), n) = LastRows(u, n)
<1> DEFINE rows == x \o u
           cut == Cap(rows)
<1>1. /\ rows \in Seq(E) /\ Len(rows) = Len(x) + Len(u)
      /\ \A k \in 1..(Len(x) + Len(u)) :
           rows[k] = IF k <= Len(x) THEN x[k] ELSE u[k - Len(x)]
  BY ConcatProperties
<1>2. MaxRows \in Nat /\ Len(x) \in Nat /\ Len(u) \in Nat
  BY TabAssumption DEF TabAssumption
<1> HIDE DEF rows
<1>3. cut \in Seq(E)
  BY <1>1, CapFacts
<1>4. PICK d \in Nat :
        /\ Len(rows) = d + Len(cut)
        /\ IF Len(rows) > MaxRows THEN Len(cut) = MaxRows ELSE d = 0
        /\ \A k \in 1..Len(cut) : cut[k] = rows[d + k]
  BY <1>1, CapFacts
<1> HIDE DEF cut
<1>5. Len(cut) \in Nat /\ Len(cut) >= n
  BY <1>1, <1>2, <1>3, <1>4
<1>6. /\ LastRows(cut, n) \in Seq(E) /\ Len(LastRows(cut, n)) = n
      /\ \A i \in 1..n : LastRows(cut, n)[i] = cut[(Len(cut) - n) + i]
  BY <1>3, <1>5, LastRowsFacts
<1>7. /\ LastRows(u, n) \in Seq(E) /\ Len(LastRows(u, n)) = n
      /\ \A i \in 1..n : LastRows(u, n)[i] = u[(Len(u) - n) + i]
  BY LastRowsFacts
<1>8. ASSUME NEW i \in 1..n
      PROVE  cut[(Len(cut) - n) + i] = u[(Len(u) - n) + i]
  <2> DEFINE k == (Len(cut) - n) + i
             m == (Len(x) + (Len(u) - n)) + i
  <2>1. k \in 1..Len(cut)
    BY <1>5
  <2>2. d + Len(cut) = Len(x) + Len(u)
    BY <1>1, <1>4
  <2>3. d + k = m
    BY <1>2, <1>5, <2>2
  <2>4. /\ m \in 1..(Len(x) + Len(u)) /\ ~(m <= Len(x))
        /\ m - Len(x) = (Len(u) - n) + i
    BY <1>2
  <2> HIDE DEF k, m
  <2>5. cut[k] = rows[m]
    BY <1>4, <2>1, <2>3
  <2>6. rows[m] = u[(Len(u) - n) + i]
    BY <1>1, <2>4
  <2> QED BY <2>5, <2>6 DEF k
<1>9. \A i \in 1..n : LastRows(cut, n)[i] = LastRows(u, n)[i]
  BY <1>6, <1>7, <1>8
<1>10. LastRows(cut, n) = LastRows(u, n)
  BY <1>6, <1>7, <1>9, SeqEqual
<1> QED BY <1>5, <1>10 DEF cut, rows

\* What the sockets of a tab were sent, in the order it opened them.
Parts(t) == [k \in DOMAIN sockets[t] |-> received[sockets[t][k]].events]

LEMMA PartsTyped ==
  ASSUME TypeOK, TabsTypeOK, NEW t \in Tabs
  PROVE  /\ Parts(t) \in Seq(Seq(1..MaxEvents))
         /\ Len(Parts(t)) = Len(sockets[t])
         /\ \A k \in 1..Len(sockets[t]) :
              /\ sockets[t][k] \in Clients
              /\ Parts(t)[k] = received[sockets[t][k]].events
         /\ Feed(t) = Cap(FlattenSeq(Parts(t)))
<1> DEFINE n == Len(sockets[t])
           E == Seq(1..MaxEvents)
<1>1. /\ n \in Nat /\ DOMAIN sockets[t] = 1..n
      /\ \A k \in 1..n : sockets[t][k] \in Clients
  BY OpenedByIndex
<1>2. \A c \in Clients : received[c].events \in E
  BY DEF TypeOK
<1> HIDE DEF n, E
<1>3. Parts(t) \in [1..n -> E]
  BY <1>1, <1>2 DEF Parts
<1>4. Parts(t) \in Seq(E)
  BY <1>1, <1>3, SeqDef
<1>5. Len(Parts(t)) = n
  BY <1>1, <1>3, <1>4, LenProperties
<1>6. \A k \in 1..n : Parts(t)[k] = received[sockets[t][k]].events
  BY <1>1 DEF Parts
<1>7. Feed(t) = Cap(FlattenSeq(Parts(t)))
  BY DEF Feed, Parts
<1> QED BY <1>1, <1>4, <1>5, <1>6, <1>7 DEF n, E

\* As long as there is no row, nobody was told a status.
NoRowNoStatus ==
  status = "none" => \A c \in Clients : received[c].status = "none"

LEMMA NextToldStatus ==
  TypeOK /\ NoRowNoStatus /\ [Next]_vars => NoRowNoStatus'
<1> SUFFICES ASSUME TypeOK, NoRowNoStatus, [Next]_vars PROVE NoRowNoStatus'
  OBVIOUS
<1>1. CASE Environment
  <2>1. received' = received /\ (status' = "none" => status = "none")
    BY <1>1, StreamAssumption
    DEF StreamAssumption, Environment, Publish, RowWritten, Audit, repos
  <2> QED BY <2>1 DEF NoRowNoStatus
<1>2. ASSUME NEW c \in Clients, Endpoint(c) PROVE NoRowNoStatus'
  <2>1. status' = status
    BY <1>2 DEF Endpoint, Accept, SnapshotEvents, SnapshotAudits,
       SnapshotState, SnapshotFails, TabCloses, Disconnect, repos
  <2>2. CASE Accept(c) \/ SnapshotFails(c) \/ TabCloses(c) \/ Disconnect(c)
    BY <2>1, <2>2
    DEF Accept, SnapshotFails, TabCloses, Disconnect, NoRowNoStatus
  <2>3. CASE SnapshotEvents(c) \/ SnapshotAudits(c) \/ SnapshotState(c)
    <3>1. CASE SnapshotEvents(c)
      <4>1. received' = [received EXCEPT ![c].events = UpTo(eventCount)]
        BY <3>1 DEF SnapshotEvents
      <4>2. \A d \in Clients : received'[d].status = received[d].status
        BY <4>1 DEF TypeOK
      <4> QED BY <2>1, <4>2 DEF NoRowNoStatus
    <3>2. CASE SnapshotAudits(c)
      <4>1. received' = [received EXCEPT ![c].audits = UpTo(auditCount)]
        BY <3>2 DEF SnapshotAudits
      <4>2. \A d \in Clients : received'[d].status = received[d].status
        BY <4>1 DEF TypeOK
      <4> QED BY <2>1, <4>2 DEF NoRowNoStatus
    <3>3. CASE SnapshotState(c)
      <4>1. received' = [received EXCEPT ![c].status =
                           IF status = "none" THEN @ ELSE status]
        BY <3>3 DEF SnapshotState
      <4>2. \A d \in Clients : status = "none" =>
              received'[d].status = received[d].status
        BY <4>1 DEF TypeOK
      <4> QED BY <2>1, <4>2 DEF NoRowNoStatus
    <3> QED BY <2>3, <3>1, <3>2, <3>3
  <2> QED BY <1>2, <2>2, <2>3 DEF Endpoint
<1>3. ASSUME NEW i \in 1..MaxEvents, OnEvent(i) PROVE NoRowNoStatus'
  <2>1. status' = status
    BY <1>3 DEF OnEvent, OnEventStarts, OnEventEvents, OnEventAudits,
       OnEventState, OnEventFails, repos
  <2>2. CASE OnEventStarts(i) \/ OnEventState(i) \/ OnEventFails(i)
    BY <2>1, <2>2
    DEF OnEventStarts, OnEventState, OnEventFails, NoRowNoStatus
  <2>3. CASE OnEventEvents(i) \/ OnEventAudits(i)
    <3>1. \A d \in Clients : received'[d].status = received[d].status
      BY <2>3 DEF OnEventEvents, OnEventAudits, TypeOK
    <3> QED BY <2>1, <3>1 DEF NoRowNoStatus
  <2> QED BY <1>3, <2>2, <2>3 DEF OnEvent
<1>4. CASE UNCHANGED vars
  BY <1>4 DEF vars, repos, NoRowNoStatus
<1> QED BY <1>1, <1>2, <1>3, <1>4 DEF Next

LEMMA ToldStatus == Spec => []NoRowNoStatus
<1>1. Init => NoRowNoStatus
  BY DEF Init, NoRowNoStatus
<1>2. StreamInvariant => TypeOK
  BY DEF StreamInvariant
<1> QED BY <1>1, <1>2, NextToldStatus, StreamCorrect, PTL DEF Spec

\* The status a tab shows is that of its last socket, once that was told one.
LEMMA ShownIsLast ==
  ASSUME TypeOK, TabsTypeOK, NoRowNoStatus, NEW t \in Tabs,
         sockets[t] # << >>, received[Last(sockets[t])].status = status
  PROVE  Shown(t) = status
<1> DEFINE n == Len(sockets[t])
           told == {k \in DOMAIN sockets[t] :
                      received[sockets[t][k]].status # "none"}
<1>1. /\ n \in Nat /\ DOMAIN sockets[t] = 1..n
      /\ \A k \in 1..n : sockets[t][k] \in Clients
  BY OpenedByIndex
<1>2. n \in 1..n /\ Last(sockets[t]) = sockets[t][n]
  <2>1. sockets[t] \in Seq(Clients)
    BY DEF TabsTypeOK
  <2> QED BY <1>1, <2>1, EmptySeq DEF Last
<1> HIDE DEF n
<1>3. Shown(t) = IF told = {} THEN "none"
                 ELSE received[sockets[t][Max(told)]].status
  BY DEF Shown
<1>4. CASE status = "none"
  <2>1. told = {}
    BY <1>1, <1>4 DEF NoRowNoStatus
  <2> QED BY <1>3, <1>4, <2>1
<1>5. CASE status # "none"
  <2>1. n \in told /\ \A k \in told : k \in Nat /\ n >= k
    BY <1>1, <1>2, <1>5
  <2> HIDE DEF told
  <2>2. \E x \in told : \A y \in told : x >= y
    BY <2>1
  <2>3. Max(told) \in told /\ \A y \in told : Max(told) >= y
    BY <2>2 DEF Max
  <2> DEFINE top == Max(told)
  <2>4. top \in Nat /\ n >= top /\ top >= n
    BY <2>1, <2>3
  <2> HIDE DEF top
  <2>5. top = n
    BY <1>1, <2>4
  <2> QED BY <1>2, <1>3, <2>1, <2>5 DEF top
<1> QED BY <1>4, <1>5

\* Whatever a tab showed before it reconnected, once the callbacks of all
\* events are done it ends with the whole history in order, or as much of it as
\* fits, and shows the status of the row (capPush and the snapshot on connect),
\* unless the last callback could not read it.
THEOREM FeedEndsRight == StreamSpec => []FeedEndsWithHistory
<1>1. StreamInvariant /\ TabInvariant /\ NoRowNoStatus /\ LatestTabUpToDate
        => FeedEndsWithHistory
  <2> SUFFICES ASSUME StreamInvariant, TabInvariant, NoRowNoStatus,
                      LatestTabUpToDate, Quiet, ~missed, NEW t \in Tabs,
                      sockets[t] # << >>, Last(sockets[t]) \in newest,
                      client[Last(sockets[t])] = "open"
               PROVE  /\ Shown(t) = status
                      /\ LET n == IF eventCount < MaxRows THEN eventCount
                                                          ELSE MaxRows
                         IN  /\ Len(Feed(t)) >= n
                             /\ LastRows(Feed(t), n) =
                                  LastRows(UpTo(eventCount), n)
    BY DEF FeedEndsWithHistory
  <2>1. TypeOK /\ TabsTypeOK
    BY DEF StreamInvariant, TabInvariant
  <2>2. /\ received[Last(sockets[t])].events = UpTo(eventCount)
        /\ received[Last(sockets[t])].status = status
    BY DEF LatestTabUpToDate, UpToDate
  <2>3. Shown(t) = status
    BY <2>1, <2>2, ShownIsLast
  <2> DEFINE len == Len(sockets[t])
             E == 1..MaxEvents
             u == UpTo(eventCount)
             S == Parts(t)
             n == IF eventCount < MaxRows THEN eventCount ELSE MaxRows
  <2>4. /\ S \in Seq(Seq(E)) /\ Len(S) = len
        /\ \A k \in 1..len : S[k] = received[sockets[t][k]].events
        /\ Feed(t) = Cap(FlattenSeq(S))
    BY <2>1, PartsTyped
  <2>5. len \in 1..len /\ len > 0 /\ Last(sockets[t]) = sockets[t][len]
    <3>1. sockets[t] \in Seq(Clients)
      BY <2>1 DEF TabsTypeOK
    <3> QED BY <3>1, EmptySeq DEF Last
  <2>6. eventCount \in Nat /\ MaxRows \in Nat
    BY <2>1, StreamAssumption, TabAssumption
       DEF TypeOK, StreamAssumption, TabAssumption
  <2>7. Len(u) = eventCount
    BY <2>6, UpToFacts
  <2> HIDE DEF len, S, E, u
  <2>8. S[len] = u
    BY <2>2, <2>4, <2>5 DEF u
  <2>9. S[len] \in Seq(E)
    BY <2>4, <2>5
  <2>10. PICK x \in Seq(E) : FlattenSeq(S) = x \o S[len]
    BY <2>4, <2>5, FlattenFacts
  <2>11. Feed(t) = Cap(x \o u) /\ u \in Seq(E)
    BY <2>4, <2>8, <2>9, <2>10
  <2>12. n \in Nat /\ n <= Len(u) /\ n <= MaxRows
    BY <2>6, <2>7
  <2> HIDE DEF n
  <2>13. Len(Cap(x \o u)) >= n /\ LastRows(Cap(x \o u), n) = LastRows(u, n)
    BY <2>11, <2>12, CapEndsWith
  <2>14. Len(Feed(t)) >= n /\ LastRows(Feed(t), n) = LastRows(u, n)
    BY <2>11, <2>13
  <2> QED BY <2>3, <2>14 DEF n, u
<1> QED BY <1>1, TabsCorrect, ToldStatus, LatestTabIsUpToDate, PTL

\* A tab shows a row at most once for each socket it has opened: only a
\* reconnect can repeat it.
THEOREM RepeatedOnlyByReconnect == StreamSpec => []RowsRepeatedOnlyByReconnect
<1>1. StreamInvariant /\ TabInvariant /\ NothingTwice
        => RowsRepeatedOnlyByReconnect
  <2> SUFFICES ASSUME StreamInvariant, TabInvariant, NothingTwice,
                      NEW t \in Tabs, NEW i \in 1..eventCount
               PROVE  Cardinality({k \in DOMAIN Feed(t) : Feed(t)[k] = i})
                        <= Len(sockets[t])
    BY DEF RowsRepeatedOnlyByReconnect
  <2>1. TypeOK /\ TabsTypeOK
    BY DEF StreamInvariant, TabInvariant
  <2> DEFINE len == Len(sockets[t])
             E == 1..MaxEvents
             S == Parts(t)
             rows == FlattenSeq(S)
  <2>2. /\ S \in Seq(Seq(E)) /\ Len(S) = len
        /\ \A k \in 1..len : /\ sockets[t][k] \in Clients
                             /\ S[k] = received[sockets[t][k]].events
        /\ Feed(t) = Cap(rows)
    BY <2>1, PartsTyped
  <2>3. len \in Nat
    BY <2>1, OpenedByIndex
  <2>4. \A k \in 1..len : Increasing(S[k])
    BY <2>2 DEF NothingTwice
  <2> HIDE DEF len, S
  <2>5. rows \in Seq(E) /\ Cardinality(Places(rows, i)) <= len
    <3>1. CASE len = 0
      <4>1. S = << >>
        BY <2>2, <3>1, EmptySeq
      <4>2. rows = << >>
        BY <2>2, <3>1, <4>1 DEF FlattenSeq
      <4>3. rows \in Seq(E) /\ Places(rows, i) = {}
        BY <4>2 DEF Places
      <4>4. Cardinality(Places(rows, i)) = 0
        BY <4>3, FS_EmptySet
      <4> QED BY <3>1, <4>3, <4>4
    <3>2. CASE len # 0
      <4>1. Len(S) > 0
        BY <2>2, <2>3, <3>2
      <4>2. ASSUME NEW m \in 1..len, NEW j \in 1..Len(S[m]),
                   NEW k \in 1..Len(S[m]), S[m][j] = i, S[m][k] = i
            PROVE  j = k
        <5>1. S[m] \in Seq(E)
          BY <2>2
        <5>2. /\ j < k => S[m][j] < S[m][k]
              /\ k < j => S[m][k] < S[m][j]
          BY <2>4 DEF Increasing
        <5>3. i \in Nat /\ j \in Nat /\ k \in Nat
          OBVIOUS
        <5>4. ~(i < i)
          BY <5>3
        <5> QED BY <4>2, <5>2, <5>3, <5>4
      <4>3. \A m \in 1..Len(S) : \A j, k \in 1..Len(S[m]) :
              S[m][j] = i /\ S[m][k] = i => j = k
        BY <2>2, <4>2
      <4> HIDE DEF E
      <4> QED BY <2>2, <4>1, <4>3, FlattenFacts
    <3> QED BY <3>1, <3>2
  <2> HIDE DEF rows, E
  <2>6. /\ Cap(rows) \in Seq(E)
        /\ Cardinality(Places(Cap(rows), i)) <= Cardinality(Places(rows, i))
    BY <2>5, CapFacts, CapPlaces
  <2>7. /\ Cardinality(Places(Cap(rows), i)) \in Nat
        /\ Cardinality(Places(rows, i)) \in Nat
    BY <2>5, <2>6, PlacesFinite
  <2>8. {k \in DOMAIN Feed(t) : Feed(t)[k] = i} = Places(Cap(rows), i)
    <3>1. DOMAIN Cap(rows) = 1..Len(Cap(rows))
      BY <2>6
    <3> QED BY <2>2, <3>1 DEF Places
  <2>9. Cardinality(Places(Cap(rows), i)) <= len
    BY <2>3, <2>5, <2>6, <2>7
  <2> QED BY <2>8, <2>9 DEF len
<1> QED BY <1>1, TabsCorrect, TabsSentNothingTwice, PTL

=============================================================================
