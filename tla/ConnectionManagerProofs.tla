----------------------- MODULE ConnectionManagerProofs ----------------------
(***************************************************************************)
(* Proofs about ConnectionManager: for any number of sockets, events and    *)
(* audit entries, and however connections, snapshots, callbacks and lost    *)
(* sockets interleave, and whatever reads raise, no tab is sent anything    *)
(* twice, and the tab that connected last has everything once the callbacks *)
(* are done, if the last of them could read it.                             *)
(***************************************************************************)
EXTENDS ConnectionManager, SequenceTheorems, TLAPS

----------------------------------------------------------------------------
(* Lemmas about the entries past a cursor. *)

\* What a phase of a callback sends: n - m entries, in order, each of them
\* past the cursor.
LEMMA PastFacts ==
  ASSUME NEW m \in Nat, NEW n \in Nat, m <= n
  PROVE  /\ Past(m, n) \in Seq((m + 1)..n)
         /\ Len(Past(m, n)) = n - m
         /\ \A k \in 1..(n - m) : Past(m, n)[k] = m + k
         /\ Increasing(Past(m, n))
<1>1. n - m \in Nat
  OBVIOUS
<1>2. \A k \in 1..(n - m) : m + k \in (m + 1)..n
  OBVIOUS
<1>3. Past(m, n) \in [1..(n - m) -> (m + 1)..n]
  BY <1>2 DEF Past
<1>4. Past(m, n) \in Seq((m + 1)..n)
  BY <1>1, <1>3, SeqDef
<1>5. Len(Past(m, n)) = n - m
  BY <1>1, <1>3, <1>4, LenProperties
<1>6. \A k \in 1..(n - m) : Past(m, n)[k] = m + k
  BY DEF Past
<1> QED
  BY <1>1, <1>4, <1>5, <1>6 DEF Increasing

\* The whole history up to n.
LEMMA UpToFacts ==
  ASSUME NEW n \in Nat
  PROVE  /\ UpTo(n) \in Seq(1..n) /\ UpTo(n) \in Seq(Nat)
         /\ Len(UpTo(n)) = n
         /\ \A k \in 1..n : UpTo(n)[k] = k
         /\ Increasing(UpTo(n))
<1>1. UpTo(n) = [k \in 1..n |-> k]
  BY DEF UpTo, Past
<1>2. UpTo(n) \in [1..n -> 1..n]
  BY <1>1
<1>3. UpTo(n) \in Seq(1..n)
  BY <1>2, SeqDef
<1>4. UpTo(n) \in Seq(Nat)
  BY <1>3, SeqMonotonic
<1>5. Len(UpTo(n)) = n
  BY <1>2, <1>3, LenProperties
<1>6. \A k \in 1..n : UpTo(n)[k] = k
  BY <1>1
<1>7. Increasing(UpTo(n))
  BY <1>5, <1>6 DEF Increasing
<1> QED BY <1>3, <1>4, <1>5, <1>6, <1>7

\* A tab that has everything up to the cursor has everything after the phase.
LEMMA UpToThenPast ==
  ASSUME NEW m \in Nat, NEW n \in Nat, m <= n
  PROVE  UpTo(m) \o Past(m, n) = UpTo(n)
<1> DEFINE u == UpTo(m)
           p == Past(m, n)
           both == u \o p
<1>1. /\ u \in Seq(Nat) /\ Len(u) = m
      /\ \A k \in 1..m : u[k] = k
  BY UpToFacts
<1>2. /\ UpTo(n) \in Seq(Nat) /\ Len(UpTo(n)) = n
      /\ \A k \in 1..n : UpTo(n)[k] = k
  BY UpToFacts
<1>3. /\ p \in Seq((m + 1)..n) /\ Len(p) = n - m
      /\ \A k \in 1..(n - m) : p[k] = m + k
  BY PastFacts
<1>4. p \in Seq(Nat)
  <2>1. (m + 1)..n \subseteq Nat
    OBVIOUS
  <2> QED BY <1>3, <2>1, SeqMonotonic
<1> HIDE DEF u, p
<1>5. /\ both \in Seq(Nat)
      /\ Len(both) = Len(u) + Len(p)
      /\ \A k \in 1..(Len(u) + Len(p)) :
           both[k] = IF k <= Len(u) THEN u[k] ELSE p[k - Len(u)]
  BY <1>1, <1>4, ConcatProperties
<1>6. Len(u) + Len(p) = n
  BY <1>1, <1>3
<1> HIDE DEF both
<1>7. ASSUME NEW k \in 1..n
      PROVE  both[k] = k
  <2>1. CASE k <= m
    BY <1>1, <1>5, <1>6, <2>1
  <2>2. CASE m < k
    <3>1. k - m \in 1..(n - m)
      BY <2>2
    <3>2. both[k] = p[k - m]
      BY <1>1, <1>5, <1>6, <2>2
    <3> QED BY <1>3, <2>2, <3>1, <3>2
  <2> QED BY <2>1, <2>2
<1>8. both = UpTo(n)
  BY <1>2, <1>5, <1>6, <1>7, SeqEqual
<1> QED BY <1>8 DEF both, u, p

\* Bounded(s, n): s is in order and nothing in it is past the cursor n.
Bounded(s, n) == Increasing(s) /\ \A k \in 1..Len(s) : s[k] <= n

\* What a snapshot sends is in order and as far as the new cursor.
LEMMA UpToBounded ==
  ASSUME NEW top \in Nat, NEW n \in Nat, n <= top
  PROVE  UpTo(n) \in Seq(1..top) /\ Bounded(UpTo(n), n)
<1>1. 1..n \subseteq 1..top
  OBVIOUS
<1>2. UpTo(n) \in Seq(1..n)
  BY UpToFacts
<1>3. UpTo(n) \in Seq(1..top)
  BY <1>1, <1>2, SeqMonotonic
<1>4. /\ Len(UpTo(n)) = n /\ Increasing(UpTo(n))
      /\ \A k \in 1..n : UpTo(n)[k] = k
  BY UpToFacts
<1>5. Bounded(UpTo(n), n)
  BY <1>4 DEF Bounded
<1> QED BY <1>3, <1>5

\* A cursor that advances leaves what was sent behind it.
LEMMA BoundedAdvances ==
  ASSUME NEW top \in Nat, NEW m \in Nat, NEW n \in Nat, m <= n,
         NEW s \in Seq(1..top), Bounded(s, m)
  PROVE  Bounded(s, n)
<1>1. \A k \in 1..Len(s) : s[k] \in 1..top
  BY ElementOfSeq
<1> QED BY <1>1 DEF Bounded

\* Entries past the cursor can be appended to what is in order up to it.
LEMMA AppendPastBounded ==
  ASSUME NEW top \in Nat, NEW m \in Nat, NEW n \in Nat, m <= n, n <= top,
         NEW s \in Seq(1..top), Bounded(s, m)
  PROVE  /\ s \o Past(m, n) \in Seq(1..top)
         /\ Bounded(s \o Past(m, n), n)
<1> DEFINE p == Past(m, n)
           both == s \o p
           len == Len(s)
           last == len + (n - m)
<1>1. /\ p \in Seq((m + 1)..n) /\ Len(p) = n - m
      /\ \A k \in 1..(n - m) : p[k] = m + k
  BY PastFacts
<1>2. p \in Seq(1..top)
  <2>1. (m + 1)..n \subseteq 1..top
    OBVIOUS
  <2> QED BY <1>1, <2>1, SeqMonotonic
<1>3. len \in Nat /\ \A k \in 1..len : s[k] \in 1..top
  BY LenProperties, ElementOfSeq
<1> HIDE DEF p
<1>4. /\ both \in Seq(1..top)
      /\ Len(both) = Len(s) + Len(p)
      /\ \A k \in 1..(Len(s) + Len(p)) :
           both[k] = IF k <= Len(s) THEN s[k] ELSE p[k - Len(s)]
  BY <1>2, ConcatProperties
<1>5. /\ Len(both) = last
      /\ \A k \in 1..last : both[k] = IF k <= len THEN s[k] ELSE p[k - len]
  BY <1>1, <1>4
<1>6. /\ \A k \in 1..len : s[k] <= m
      /\ \A j, k \in 1..len : j < k => s[j] < s[k]
  BY DEF Bounded, Increasing
<1>7. last \in Nat
  BY <1>3
<1> HIDE DEF both, len
<1>8. ASSUME NEW k \in 1..last, k <= len
      PROVE  k \in 1..len /\ both[k] = s[k] /\ both[k] <= m /\ both[k] \in Nat
  BY <1>3, <1>5, <1>6, <1>8
<1>9. ASSUME NEW k \in 1..last, len < k
      PROVE  both[k] = m + (k - len) /\ both[k] <= n /\ m < both[k]
  <2>1. k - len \in 1..(n - m)
    BY <1>3, <1>9
  <2>2. both[k] = p[k - len]
    BY <1>3, <1>5, <1>9
  <2> QED BY <1>1, <1>3, <1>9, <2>1, <2>2
<1>10. ASSUME NEW k \in 1..last
       PROVE  both[k] <= n
  BY <1>3, <1>8, <1>9
<1>11. ASSUME NEW j \in 1..last, NEW k \in 1..last, j < k
       PROVE  both[j] < both[k]
  <2>1. CASE k <= len
    <3>1. j <= len
      BY <1>3, <1>11, <2>1
    <3> QED BY <1>6, <1>8, <1>11, <2>1, <3>1
  <2>2. CASE len < k /\ j <= len
    BY <1>3, <1>8, <1>9, <2>2
  <2>3. CASE len < j
    <3>1. len < k
      BY <1>3, <1>11, <2>3
    <3> QED BY <1>3, <1>9, <1>11, <2>3, <3>1
  <2> QED BY <1>3, <2>1, <2>2, <2>3
<1>12. Bounded(both, n)
  BY <1>5, <1>10, <1>11 DEF Bounded, Increasing
<1> QED BY <1>4, <1>12 DEF both, p

----------------------------------------------------------------------------
(* The inductive invariant.                                                 *)

\* What a socket has been sent lies in order behind the shared cursors.
BehindCursors ==
  \A c \in Clients : /\ Bounded(received[c].events, lastEventCount)
                     /\ Bounded(received[c].audits, lastAuditCount)

\* The task in a snapshot or a broadcast holds the lock, so there is one.
Sending == {"audits", "state"}
SenderHoldsLock ==
  /\ \A c \in Clients : client[c] \in Sending => lock = SocketTask(c)
  /\ \A i \in 1..MaxEvents : callback[i] \in Sending => lock = EventTask(i)

\* A socket is registered from its snapshot until it is found dead, and has
\* been told no status before its snapshot is over.
RegisteredSinceSnapshot ==
  \A c \in Clients :
    /\ client[c] \in Sending \cup {"open"} => c \in connections
    /\ client[c] \in {"away", "accepted"} => c \notin connections
    /\ client[c] \in {"away", "accepted"} \cup Sending =>
         received[c].status = "none"

\* The socket of the latest snapshot has everything the cursors are past.
NewestAtCursors ==
  /\ \A c \in Clients : client[c] \in Sending => newest = {c}
  /\ \A c \in newest :
       /\ client[c] \notin {"away", "accepted"}
       /\ client[c] \in Sending \cup {"open"} =>
            received[c].events = UpTo(lastEventCount)
       /\ client[c] = "open" => received[c].status = lastStatus

\* While that socket is there, a cursor that is behind is so only because a
\* callback is still to come, or one could not read what it should send.
Coming(at) == \E i \in 1..MaxEvents : callback[i] \in at
BehindMeansComing ==
  /\ status = "none" => lastStatus = "none"
  /\ ~missed => \A c \in newest :
       /\ client[c] \in Sending \cup {"open"} /\ lastEventCount # eventCount =>
            Coming({"created", "waiting"})
       /\ client[c] = "open" /\ lastStatus # status =>
            Coming({"created", "waiting"} \cup Sending)

StreamInvariant ==
  /\ TypeOK
  /\ BehindCursors
  /\ SenderHoldsLock
  /\ RegisteredSinceSnapshot
  /\ NewestAtCursors
  /\ BehindMeansComing

\* Updating a field of what a socket has been sent, whatever the types.
LEMMA FieldUpdates ==
  ASSUME NEW E, NEW A, NEW S, NEW r \in [events : E, audits : A, status : S]
  PROVE  /\ \A x \in E : [r EXCEPT !.events = x] \in
                            [events : E, audits : A, status : S]
         /\ \A x \in A : [r EXCEPT !.audits = x] \in
                            [events : E, audits : A, status : S]
         /\ \A x \in S : [r EXCEPT !.status = x] \in
                            [events : E, audits : A, status : S]
OBVIOUS

Sent ==
  [events : Seq(1..MaxEvents), audits : Seq(1..MaxAudits),
   status : Statuses \cup {"none"}]

\* Distinct tasks have distinct names.
LEMMA TaskNames ==
  /\ \A c, d \in Clients : SocketTask(c) = SocketTask(d) => c = d
  /\ \A c \in Clients : SocketTask(c) # Free
  /\ \A i, j \in 1..MaxEvents : EventTask(i) = EventTask(j) => i = j
  /\ \A i \in 1..MaxEvents : EventTask(i) # Free
  /\ \A c \in Clients, i \in 1..MaxEvents : SocketTask(c) # EventTask(i)
BY DEF SocketTask, EventTask, Free

LEMMA InitStream == Init => StreamInvariant
<1> SUFFICES ASSUME Init PROVE StreamInvariant
  OBVIOUS
<1>1. << >> \in Seq(1..MaxEvents) /\ << >> \in Seq(1..MaxAudits)
  OBVIOUS
<1>2. Bounded(<< >>, 0)
  BY DEF Bounded, Increasing
<1>3. TypeOK
  <2>1. missed \in BOOLEAN
    BY DEF Init
  <2> QED BY <1>1, <2>1, StreamAssumption DEF StreamAssumption, Init, TypeOK
<1>4. BehindCursors
  BY <1>2 DEF Init, BehindCursors
<1>5. /\ SenderHoldsLock /\ RegisteredSinceSnapshot
      /\ NewestAtCursors /\ BehindMeansComing
  BY DEF Init, SenderHoldsLock, RegisteredSinceSnapshot, NewestAtCursors,
         BehindMeansComing, Sending
<1> QED BY <1>3, <1>4, <1>5 DEF StreamInvariant

\* An event or an audit entry is written.
LEMMA PublishKeeps ==
  ASSUME StreamInvariant, NEW new \in Statuses \cup {"none"},
         new = "none" => status = "none", Publish(new)
  PROVE  StreamInvariant'
<1> USE DEF StreamInvariant
<1>1. /\ eventCount + 1 \in 1..MaxEvents
      /\ eventCount' = eventCount + 1 /\ auditCount' = auditCount
      /\ status' = new
      /\ callback' = [callback EXCEPT ![eventCount + 1] = "created"]
      /\ UNCHANGED <<connections, cursors, lock, client, received, newest,
                     missed>>
  BY StreamAssumption DEF StreamAssumption, Publish, history, TypeOK
<1>2. TypeOK'
  BY <1>1, StreamAssumption DEF StreamAssumption, TypeOK, cursors
<1>3. BehindCursors' /\ RegisteredSinceSnapshot' /\ NewestAtCursors'
  BY <1>1 DEF cursors, BehindCursors, RegisteredSinceSnapshot, NewestAtCursors
<1>4. SenderHoldsLock'
  BY <1>1 DEF SenderHoldsLock, TypeOK, Sending
<1>5. BehindMeansComing'
  <2>1. callback'[eventCount + 1] = "created"
    BY <1>1 DEF TypeOK
  <2>2. Coming({"created", "waiting"})'
    BY <1>1, <2>1 DEF Coming
  <2>3. Coming({"created", "waiting"} \cup Sending)'
    BY <1>1, <2>1 DEF Coming
  <2> QED BY <1>1, <2>2, <2>3 DEF BehindMeansComing, cursors
<1> QED BY <1>2, <1>3, <1>4, <1>5

\* The event whose handler it is has its on_event still to come.
LEMMA RowWrittenKeeps ==
  ASSUME StreamInvariant, NEW i \in 1..MaxEvents, NEW new \in Statuses,
         RowWritten(i, new)
  PROVE  StreamInvariant'
<1> USE DEF StreamInvariant, RowWritten, history
<1>1. TypeOK'
  BY StreamAssumption DEF StreamAssumption, TypeOK, cursors
<1>2. /\ BehindCursors' /\ RegisteredSinceSnapshot' /\ NewestAtCursors'
      /\ SenderHoldsLock'
  BY DEF cursors, BehindCursors, RegisteredSinceSnapshot, NewestAtCursors,
         SenderHoldsLock
<1>3. BehindMeansComing'
  <2>1. Coming({"created", "waiting"})'
    BY DEF Coming
  <2>2. Coming({"created", "waiting"} \cup Sending)'
    BY DEF Coming
  <2>3. status' # "none"
    BY StreamAssumption DEF StreamAssumption
  <2> QED BY <2>1, <2>2, <2>3 DEF cursors, BehindMeansComing
<1> QED BY <1>1, <1>2, <1>3

LEMMA AuditKeeps ==
  ASSUME StreamInvariant, Audit
  PROVE  StreamInvariant'
<1> USE DEF StreamInvariant, Audit, history
<1>1. TypeOK'
  BY StreamAssumption DEF StreamAssumption, TypeOK, cursors
<1>2. /\ BehindCursors' /\ RegisteredSinceSnapshot' /\ NewestAtCursors'
      /\ SenderHoldsLock'
  BY DEF cursors, BehindCursors, RegisteredSinceSnapshot, NewestAtCursors,
         SenderHoldsLock
<1>3. BehindMeansComing'
  BY DEF cursors, BehindMeansComing, Coming
<1> QED BY <1>1, <1>2, <1>3

LEMMA AcceptKeeps ==
  ASSUME StreamInvariant, NEW c \in Clients, Accept(c)
  PROVE  StreamInvariant'
<1> USE DEF StreamInvariant
<1>1. /\ client[c] = "away" /\ client' = [client EXCEPT ![c] = "accepted"]
      /\ UNCHANGED <<repos, connections, cursors, lock, callback, received,
                     newest, missed>>
  BY DEF Accept, history
<1>2. TypeOK'
  BY <1>1 DEF TypeOK, cursors, repos
<1>3. BehindCursors' /\ SenderHoldsLock' /\ RegisteredSinceSnapshot'
  BY <1>1 DEF TypeOK, cursors, BehindCursors, SenderHoldsLock, Sending,
              RegisteredSinceSnapshot
<1>4. NewestAtCursors' /\ BehindMeansComing'
  BY <1>1 DEF TypeOK, cursors, repos, NewestAtCursors, Sending,
              BehindMeansComing, Coming
<1> QED BY <1>2, <1>3, <1>4

LEMMA SnapshotEventsKeeps ==
  ASSUME StreamInvariant, NEW c \in Clients, SnapshotEvents(c)
  PROVE  StreamInvariant'
<1> USE DEF StreamInvariant
<1>1. /\ client[c] = "accepted" /\ lock = Free /\ lock' = SocketTask(c)
      /\ connections' = connections \cup {c} /\ newest' = {c}
      /\ received' = [received EXCEPT ![c].events = UpTo(eventCount)]
      /\ lastEventCount' = eventCount
      /\ client' = [client EXCEPT ![c] = "audits"]
      /\ missed' = FALSE
      /\ UNCHANGED <<repos, lastAuditCount, lastStatus, callback>>
  BY DEF SnapshotEvents
<1>2. eventCount \in Nat /\ eventCount <= MaxEvents /\ lastEventCount <= eventCount
      /\ lastEventCount \in Nat
  BY StreamAssumption DEF StreamAssumption, TypeOK
<1>3. /\ UpTo(eventCount) \in Seq(1..MaxEvents)
      /\ Bounded(UpTo(eventCount), eventCount)
  BY <1>2, UpToBounded, StreamAssumption DEF StreamAssumption
<1>sent. received' \in [Clients -> Sent]
  <2>1. received \in [Clients -> Sent]
    BY DEF TypeOK, Sent
  <2>2. [received[c] EXCEPT !.events = UpTo(eventCount)] \in Sent
    <3>1. received[c] \in Sent
      BY <2>1
    <3> QED BY <1>3, <3>1, FieldUpdates DEF Sent
  <2> QED BY <1>1, <2>1, <2>2
<1>4. TypeOK'
  <2>1. missed' \in BOOLEAN
    BY <1>1
  <2> QED BY <1>1, <1>2, <1>sent, <2>1 DEF TypeOK, Sent, repos
<1>5. BehindCursors'
  <2>1. ASSUME NEW d \in Clients, d # c
        PROVE  Bounded(received'[d].events, eventCount)
    <3>1. received[d].events \in Seq(1..MaxEvents)
      BY DEF TypeOK
    <3>2. MaxEvents \in Nat /\ Bounded(received[d].events, lastEventCount)
      BY StreamAssumption DEF StreamAssumption, BehindCursors
    <3>3. Bounded(received[d].events, eventCount)
      BY <1>2, <3>1, <3>2, BoundedAdvances
    <3> QED BY <1>1, <2>1, <3>3 DEF TypeOK
  <2> QED BY <1>1, <1>3, <2>1 DEF BehindCursors, TypeOK
<1>6. SenderHoldsLock' /\ RegisteredSinceSnapshot'
  BY <1>1, TaskNames DEF TypeOK, SenderHoldsLock, Sending,
                         RegisteredSinceSnapshot
<1>7. NewestAtCursors'
  <2>1. received'[c].events = UpTo(eventCount) /\ client'[c] = "audits"
    BY <1>1 DEF TypeOK
  <2>2. \A d \in Clients : client'[d] \in Sending => d = c
    BY <1>1, TaskNames DEF TypeOK, SenderHoldsLock
  <2> QED BY <1>1, <2>1, <2>2 DEF NewestAtCursors
<1>8. BehindMeansComing'
  BY <1>1 DEF TypeOK, repos, BehindMeansComing
<1> QED BY <1>4, <1>5, <1>6, <1>7, <1>8

LEMMA SnapshotAuditsKeeps ==
  ASSUME StreamInvariant, NEW c \in Clients, SnapshotAudits(c)
  PROVE  StreamInvariant'
<1> USE DEF StreamInvariant
<1>1. /\ client[c] = "audits"
      /\ received' = [received EXCEPT ![c].audits = UpTo(auditCount)]
      /\ lastAuditCount' = auditCount
      /\ client' = [client EXCEPT ![c] = "state"]
      /\ UNCHANGED <<repos, connections, lastEventCount, lastStatus, lock,
                     callback, newest, missed>>
  BY DEF SnapshotAudits, history
<1>2. auditCount \in Nat /\ auditCount <= MaxAudits
      /\ lastAuditCount <= auditCount /\ lastAuditCount \in Nat
  BY StreamAssumption DEF StreamAssumption, TypeOK
<1>3. /\ UpTo(auditCount) \in Seq(1..MaxAudits)
      /\ Bounded(UpTo(auditCount), auditCount)
  <2>1. MaxAudits \in Nat
    BY StreamAssumption DEF StreamAssumption
  <2> QED BY <1>2, <2>1, UpToBounded
<1>sent. received' \in [Clients -> Sent]
  <2>1. received \in [Clients -> Sent]
    BY DEF TypeOK, Sent
  <2>2. [received[c] EXCEPT !.audits = UpTo(auditCount)] \in Sent
    <3>1. received[c] \in Sent
      BY <2>1
    <3> QED BY <1>3, <3>1, FieldUpdates DEF Sent
  <2> QED BY <1>1, <2>1, <2>2
<1>4. TypeOK'
  BY <1>1, <1>2, <1>sent DEF TypeOK, Sent, repos
<1>5. BehindCursors'
  <2>1. ASSUME NEW d \in Clients, d # c
        PROVE  Bounded(received'[d].audits, auditCount)
    <3>1. received[d].audits \in Seq(1..MaxAudits)
      BY DEF TypeOK
    <3>2. MaxAudits \in Nat /\ Bounded(received[d].audits, lastAuditCount)
      BY StreamAssumption DEF StreamAssumption, BehindCursors
    <3>3. Bounded(received[d].audits, auditCount)
      BY <1>2, <3>1, <3>2, BoundedAdvances
    <3> QED BY <1>1, <2>1, <3>3 DEF TypeOK
  <2> QED BY <1>1, <1>3, <2>1 DEF BehindCursors, TypeOK
<1>6. SenderHoldsLock' /\ RegisteredSinceSnapshot'
  BY <1>1 DEF TypeOK, SenderHoldsLock, Sending, RegisteredSinceSnapshot
<1>7. NewestAtCursors' /\ BehindMeansComing'
  BY <1>1 DEF TypeOK, repos, NewestAtCursors, Sending, BehindMeansComing,
              Coming
<1> QED BY <1>4, <1>5, <1>6, <1>7

LEMMA SnapshotStateKeeps ==
  ASSUME StreamInvariant, NEW c \in Clients, SnapshotState(c)
  PROVE  StreamInvariant'
<1> USE DEF StreamInvariant
<1>1. /\ client[c] = "state"
      /\ received' = [received EXCEPT ![c].status =
                        IF status = "none" THEN @ ELSE status]
      /\ lastStatus' = IF status = "none" THEN lastStatus ELSE status
      /\ lock' = Free
      /\ client' = [client EXCEPT ![c] = "open"]
      /\ UNCHANGED <<repos, connections, lastEventCount, lastAuditCount,
                     callback, newest, missed>>
  BY DEF SnapshotState, history
<1>2. lock = SocketTask(c) /\ received[c].status = "none" /\ c \in connections
  BY <1>1 DEF SenderHoldsLock, RegisteredSinceSnapshot, Sending
<1>3. \A d \in Clients : /\ received'[d].events = received[d].events
                         /\ received'[d].audits = received[d].audits
                         /\ d # c => received'[d] = received[d]
  BY <1>1 DEF TypeOK
<1>4. received'[c].status = status /\ lastStatus' = status
  BY <1>1, <1>2 DEF TypeOK, BehindMeansComing
<1>5. TypeOK'
  <2>1. received' \in [Clients -> Sent]
    <3> DEFINE told == IF status = "none" THEN received[c].status ELSE status
    <3>1. received' = [received EXCEPT ![c] = [@ EXCEPT !.status = told]]
      BY <1>1
    <3>2. received \in [Clients -> Sent] /\ told \in Statuses \cup {"none"}
      BY DEF TypeOK, Sent
    <3> HIDE DEF told
    <3>3. [received[c] EXCEPT !.status = told] \in Sent
      BY <3>2 DEF Sent
    <3> QED BY <3>1, <3>2, <3>3
  <2>2. /\ lastStatus' \in Statuses \cup {"none"}
        /\ client' \in [Clients -> {"away", "accepted", "open", "dead", "gone"}
                                  \cup {"audits", "state"}]
    BY <1>1 DEF TypeOK
  <2> QED BY <1>1, <2>1, <2>2 DEF TypeOK, Sent, repos
<1>6. BehindCursors'
  BY <1>1, <1>3 DEF BehindCursors
<1>7. SenderHoldsLock'
  BY <1>1, <1>2, TaskNames DEF TypeOK, SenderHoldsLock, Sending
<1>8. RegisteredSinceSnapshot'
  BY <1>1, <1>2, <1>3 DEF TypeOK, RegisteredSinceSnapshot, Sending
<1>9. newest = {c}
  BY <1>1 DEF NewestAtCursors, Sending
<1>10. NewestAtCursors'
  <2>1. \A d \in Clients : client'[d] \notin Sending
    BY <1>1, <1>2, TaskNames DEF TypeOK, SenderHoldsLock, Sending
  <2>2. received[c].events = UpTo(lastEventCount) /\ client'[c] = "open"
    BY <1>1, <1>9 DEF TypeOK, NewestAtCursors, Sending
  <2> QED BY <1>1, <1>3, <1>4, <1>9, <2>1, <2>2 DEF NewestAtCursors
<1>11. BehindMeansComing'
  <2>1. ~missed /\ lastEventCount # eventCount =>
          Coming({"created", "waiting"})
    BY <1>1, <1>9 DEF BehindMeansComing, Sending
  <2> QED BY <1>1, <1>4, <1>9, <2>1 DEF repos, BehindMeansComing, Coming
<1> QED BY <1>5, <1>6, <1>7, <1>8, <1>10, <1>11

\* A snapshot that could not move the cursors any further leaves no newest
\* socket; one that has not moved them yet leaves the newest where it was.
LEMMA SnapshotFailsKeeps ==
  ASSUME StreamInvariant, NEW c \in Clients, SnapshotFails(c)
  PROVE  StreamInvariant'
<1> USE DEF StreamInvariant
<1>1. /\ client' = [client EXCEPT ![c] = "open"]
      /\ UNCHANGED <<repos, cursors, callback, received, missed>>
  BY DEF SnapshotFails
<1>2. CASE client[c] = "accepted" /\ lock = Free
  <2>1. connections' = connections \cup {c} /\ UNCHANGED <<lock, newest>>
    BY <1>2 DEF SnapshotFails
  <2>2. TypeOK'
    BY <1>1, <2>1 DEF TypeOK, cursors, repos
  <2>3. BehindCursors' /\ SenderHoldsLock' /\ RegisteredSinceSnapshot'
    BY <1>1, <2>1 DEF TypeOK, cursors, BehindCursors, SenderHoldsLock,
                      Sending, RegisteredSinceSnapshot
  <2>4. c \notin newest
    BY <1>2 DEF NewestAtCursors
  <2>5. NewestAtCursors' /\ BehindMeansComing'
    BY <1>1, <2>1, <2>4 DEF TypeOK, cursors, repos, NewestAtCursors, Sending,
                            BehindMeansComing, Coming
  <2> QED BY <2>2, <2>3, <2>5
<1>3. CASE client[c] \in Sending
  <2>1. lock' = Free /\ newest' = {} /\ UNCHANGED connections
    BY <1>3 DEF SnapshotFails, Sending
  <2>2. TypeOK'
    BY <1>1, <2>1 DEF TypeOK, cursors, repos
  <2>3. BehindCursors' /\ RegisteredSinceSnapshot'
    BY <1>1, <1>3, <2>1 DEF TypeOK, cursors, BehindCursors, Sending,
                            RegisteredSinceSnapshot
  <2>4. lock = SocketTask(c)
    BY <1>3 DEF SenderHoldsLock
  <2>5. SenderHoldsLock'
    BY <1>1, <2>1, <2>4, TaskNames DEF TypeOK, SenderHoldsLock, Sending
  <2>6. \A d \in Clients : client'[d] \notin Sending
    BY <1>1, <2>4, TaskNames DEF TypeOK, SenderHoldsLock, Sending
  <2>7. NewestAtCursors' /\ BehindMeansComing'
    BY <1>1, <2>1, <2>6 DEF cursors, repos, NewestAtCursors, BehindMeansComing
  <2> QED BY <2>2, <2>3, <2>5, <2>7
<1> QED BY <1>2, <1>3 DEF SnapshotFails, Sending

LEMMA TabClosesKeeps ==
  ASSUME StreamInvariant, NEW c \in Clients, TabCloses(c)
  PROVE  StreamInvariant'
<1> USE DEF StreamInvariant
<1>1. /\ connections' = connections \cup {c}
      /\ lock' = IF lock = SocketTask(c) THEN Free ELSE lock
      /\ client' = [client EXCEPT ![c] = "dead"]
      /\ UNCHANGED <<repos, cursors, callback, received, newest, missed>>
  BY DEF TabCloses, history
<1>2. TypeOK'
  BY <1>1 DEF TypeOK, repos, cursors
<1>3. BehindCursors' /\ RegisteredSinceSnapshot'
  BY <1>1 DEF TypeOK, cursors, BehindCursors, RegisteredSinceSnapshot, Sending
<1>4. SenderHoldsLock'
  BY <1>1, TaskNames DEF TypeOK, SenderHoldsLock, Sending
<1>5. NewestAtCursors' /\ BehindMeansComing'
  BY <1>1 DEF TypeOK, cursors, repos, NewestAtCursors, Sending,
              BehindMeansComing, Coming
<1> QED BY <1>2, <1>3, <1>4, <1>5

LEMMA DisconnectKeeps ==
  ASSUME StreamInvariant, NEW c \in Clients, Disconnect(c)
  PROVE  StreamInvariant'
<1> USE DEF StreamInvariant
<1>1. /\ client[c] = "dead" /\ connections' = connections \ {c}
      /\ client' = [client EXCEPT ![c] = "gone"]
      /\ UNCHANGED <<repos, cursors, lock, callback, received, newest, missed>>
  BY DEF Disconnect, history
<1>2. TypeOK'
  BY <1>1 DEF TypeOK, repos, cursors
<1>3. BehindCursors' /\ RegisteredSinceSnapshot' /\ SenderHoldsLock'
  BY <1>1 DEF TypeOK, cursors, BehindCursors, RegisteredSinceSnapshot,
              SenderHoldsLock, Sending
<1>4. NewestAtCursors' /\ BehindMeansComing'
  BY <1>1 DEF TypeOK, cursors, repos, NewestAtCursors, Sending,
              BehindMeansComing, Coming
<1> QED BY <1>2, <1>3, <1>4

\* The callback of an event ends at once only if nobody is registered, and
\* the newest socket, while it is there, is.
LEMMA OnEventStartsKeeps ==
  ASSUME StreamInvariant, NEW i \in 1..MaxEvents, OnEventStarts(i)
  PROVE  StreamInvariant'
<1> USE DEF StreamInvariant
<1>1. /\ callback[i] = "created"
      /\ callback' = [callback EXCEPT ![i] =
                        IF connections = {} THEN "done" ELSE "waiting"]
      /\ UNCHANGED <<repos, connections, cursors, lock, client, received,
                     newest, missed>>
  BY DEF OnEventStarts, history
<1>2. TypeOK'
  BY <1>1 DEF TypeOK, repos, cursors
<1>3. /\ BehindCursors' /\ RegisteredSinceSnapshot' /\ SenderHoldsLock'
      /\ NewestAtCursors'
  BY <1>1 DEF TypeOK, cursors, BehindCursors, RegisteredSinceSnapshot,
              SenderHoldsLock, NewestAtCursors, Sending
<1>4. BehindMeansComing'
  <2>1. ASSUME NEW c \in newest, client[c] \in Sending \cup {"open"}
        PROVE  callback'[i] = "waiting"
    BY <1>1, <2>1 DEF TypeOK, RegisteredSinceSnapshot
  <2> QED BY <1>1, <2>1 DEF cursors, repos, BehindMeansComing, Coming
<1> QED BY <1>2, <1>3, <1>4

LEMMA OnEventEventsKeeps ==
  ASSUME StreamInvariant, NEW i \in 1..MaxEvents, OnEventEvents(i)
  PROVE  StreamInvariant'
<1> USE DEF StreamInvariant
<1> DEFINE past == Past(lastEventCount, eventCount)
           sent(c) == IF c \in connections THEN received[c].events \o past
                      ELSE received[c].events
<1>1. /\ callback[i] = "waiting" /\ lock = Free /\ lock' = EventTask(i)
      /\ received' = [c \in Clients |-> [received[c] EXCEPT !.events = sent(c)]]
      /\ lastEventCount' = eventCount
      /\ callback' = [callback EXCEPT ![i] = "audits"]
      /\ missed' = FALSE
      /\ UNCHANGED <<repos, connections, lastAuditCount, lastStatus, client,
                     newest>>
  BY DEF OnEventEvents
<1>2. /\ eventCount \in Nat /\ lastEventCount \in Nat /\ MaxEvents \in Nat
      /\ lastEventCount <= eventCount /\ eventCount <= MaxEvents
  BY StreamAssumption DEF StreamAssumption, TypeOK
<1>3. ASSUME NEW c \in Clients
      PROVE  sent(c) \in Seq(1..MaxEvents) /\ Bounded(sent(c), eventCount)
  <2>1. /\ received[c].events \in Seq(1..MaxEvents)
        /\ Bounded(received[c].events, lastEventCount)
    BY DEF TypeOK, BehindCursors
  <2>2. CASE c \in connections
    BY <1>2, <2>1, <2>2, AppendPastBounded
  <2>3. CASE c \notin connections
    BY <1>2, <2>1, <2>3, BoundedAdvances
  <2> QED BY <2>2, <2>3
<1>4. ASSUME NEW c \in newest, client[c] \in Sending \cup {"open"}
      PROVE  sent(c) = UpTo(eventCount)
  <2>1. c \in connections /\ received[c].events = UpTo(lastEventCount)
    BY <1>4 DEF TypeOK, RegisteredSinceSnapshot, NewestAtCursors
  <2> QED BY <1>2, <2>1, UpToThenPast
<1> HIDE DEF sent
<1>5. received' \in [Clients -> Sent]
  <2>1. ASSUME NEW c \in Clients
        PROVE  [received[c] EXCEPT !.events = sent(c)] \in Sent
    <3>1. received[c] \in Sent
      BY DEF TypeOK, Sent
    <3> QED BY <1>3, <3>1, FieldUpdates DEF Sent
  <2> QED BY <1>1, <2>1
<1>6. \A c \in Clients : /\ received'[c].events = sent(c)
                         /\ received'[c].audits = received[c].audits
                         /\ received'[c].status = received[c].status
  BY <1>1 DEF TypeOK
<1>7. TypeOK'
  <2>1. missed' \in BOOLEAN
    BY <1>1
  <2> QED BY <1>1, <1>2, <1>5, <2>1 DEF TypeOK, Sent, repos
<1>8. BehindCursors'
  BY <1>1, <1>3, <1>6 DEF BehindCursors
<1>9. RegisteredSinceSnapshot'
  BY <1>1, <1>6 DEF RegisteredSinceSnapshot
<1>10. SenderHoldsLock'
  BY <1>1, TaskNames DEF TypeOK, SenderHoldsLock, Sending
<1>11. NewestAtCursors'
  BY <1>1, <1>4, <1>6 DEF TypeOK, NewestAtCursors
<1>12. BehindMeansComing'
  BY <1>1 DEF TypeOK, repos, BehindMeansComing, Coming, Sending
<1> QED BY <1>7, <1>8, <1>9, <1>10, <1>11, <1>12

LEMMA OnEventAuditsKeeps ==
  ASSUME StreamInvariant, NEW i \in 1..MaxEvents, OnEventAudits(i)
  PROVE  StreamInvariant'
<1> USE DEF StreamInvariant
<1> DEFINE past == Past(lastAuditCount, auditCount)
           sent(c) == IF c \in connections THEN received[c].audits \o past
                      ELSE received[c].audits
           top == MaxAudits
<1>1. /\ callback[i] = "audits"
      /\ received' = [c \in Clients |-> [received[c] EXCEPT !.audits = sent(c)]]
      /\ lastAuditCount' = auditCount
      /\ callback' = [callback EXCEPT ![i] = "state"]
      /\ UNCHANGED <<repos, connections, lastEventCount, lastStatus, lock,
                     client, newest, missed>>
  BY DEF OnEventAudits, history
<1>2. /\ auditCount \in Nat /\ lastAuditCount \in Nat /\ top \in Nat
      /\ lastAuditCount <= auditCount /\ auditCount <= top
  BY StreamAssumption DEF StreamAssumption, TypeOK
<1>3. ASSUME NEW c \in Clients
      PROVE  sent(c) \in Seq(1..top) /\ Bounded(sent(c), auditCount)
  <2>1. /\ received[c].audits \in Seq(1..top)
        /\ Bounded(received[c].audits, lastAuditCount)
    BY DEF TypeOK, BehindCursors
  <2> HIDE DEF top
  <2>2. CASE c \in connections
    BY <1>2, <2>1, <2>2, AppendPastBounded
  <2>3. CASE c \notin connections
    BY <1>2, <2>1, <2>3, BoundedAdvances
  <2> QED BY <2>2, <2>3
<1> HIDE DEF sent
<1>5. received' \in [Clients -> Sent]
  <2>1. ASSUME NEW c \in Clients
        PROVE  [received[c] EXCEPT !.audits = sent(c)] \in Sent
    <3>1. received[c] \in Sent
      BY DEF TypeOK, Sent
    <3> QED BY <1>3, <3>1, FieldUpdates DEF Sent
  <2> QED BY <1>1, <2>1
<1>6. \A c \in Clients : /\ received'[c].events = received[c].events
                         /\ received'[c].audits = sent(c)
                         /\ received'[c].status = received[c].status
  BY <1>1 DEF TypeOK
<1>7. TypeOK'
  BY <1>1, <1>2, <1>5 DEF TypeOK, Sent, repos
<1>8. BehindCursors'
  BY <1>1, <1>3, <1>6 DEF BehindCursors
<1>9. RegisteredSinceSnapshot' /\ NewestAtCursors'
  BY <1>1, <1>6 DEF TypeOK, RegisteredSinceSnapshot, NewestAtCursors
<1>10. SenderHoldsLock'
  BY <1>1 DEF TypeOK, SenderHoldsLock, Sending
<1>11. BehindMeansComing'
  BY <1>1 DEF TypeOK, repos, BehindMeansComing, Coming, Sending
<1> QED BY <1>7, <1>8, <1>9, <1>10, <1>11

LEMMA OnEventStateKeeps ==
  ASSUME StreamInvariant, NEW i \in 1..MaxEvents, OnEventState(i)
  PROVE  StreamInvariant'
<1> USE DEF StreamInvariant
<1> DEFINE told(c) == IF c \in connections THEN status ELSE received[c].status
<1>1. /\ callback[i] = "state"
      /\ lock' = Free
      /\ callback' = [callback EXCEPT ![i] = "done"]
      /\ UNCHANGED <<repos, connections, lastEventCount, lastAuditCount,
                     client, newest, missed>>
  BY DEF OnEventState, history
<1>2. \/ status \in {"none", lastStatus} /\ UNCHANGED <<received, lastStatus>>
      \/ /\ status \notin {"none", lastStatus}
         /\ received' =
              [c \in Clients |-> [received[c] EXCEPT !.status = told(c)]]
         /\ lastStatus' = status
  BY DEF OnEventState, history
<1>3. lastStatus' = status
  BY <1>2 DEF BehindMeansComing
<1>4. \A c \in Clients : told(c) \in Statuses \cup {"none"}
  BY DEF TypeOK
<1>5. received' \in [Clients -> Sent]
  <2>1. received \in [Clients -> Sent]
    BY DEF TypeOK, Sent
  <2>2. ASSUME NEW c \in Clients
        PROVE  [received[c] EXCEPT !.status = told(c)] \in Sent
    <3>1. received[c] \in Sent
      BY <2>1
    <3> HIDE DEF told
    <3> QED BY <1>4, <3>1, FieldUpdates DEF Sent
  <2> QED BY <1>2, <2>1, <2>2
<1>6. \A c \in Clients :
        /\ received'[c].events = received[c].events
        /\ received'[c].audits = received[c].audits
        /\ c \notin connections => received'[c].status = received[c].status
        /\ received[c].status = lastStatus /\ c \in connections =>
             received'[c].status = status
  BY <1>2 DEF TypeOK, BehindMeansComing
<1>7. lock = EventTask(i) /\ \A c \in Clients : client[c] \notin Sending
  BY <1>1, TaskNames DEF SenderHoldsLock, Sending
<1>8. TypeOK'
  BY <1>1, <1>3, <1>5 DEF TypeOK, Sent, repos
<1>9. BehindCursors'
  BY <1>1, <1>6 DEF BehindCursors
<1>10. RegisteredSinceSnapshot'
  BY <1>1, <1>6, <1>7 DEF RegisteredSinceSnapshot, Sending
<1>11. SenderHoldsLock'
  BY <1>1, <1>7, TaskNames DEF TypeOK, SenderHoldsLock, Sending
<1>12. NewestAtCursors'
  BY <1>1, <1>3, <1>6, <1>7
  DEF TypeOK, NewestAtCursors, RegisteredSinceSnapshot, Sending
<1>13. BehindMeansComing'
  BY <1>1, <1>3 DEF TypeOK, repos, BehindMeansComing, Coming, Sending
<1> QED BY <1>8, <1>9, <1>10, <1>11, <1>12, <1>13

\* A callback that ends early moves no cursor and gives the lock back.
LEMMA OnEventFailsKeeps ==
  ASSUME StreamInvariant, NEW i \in 1..MaxEvents, OnEventFails(i)
  PROVE  StreamInvariant'
<1> USE DEF StreamInvariant
<1>1. /\ \/ lock = Free /\ lock' = Free
         \/ callback[i] \in Sending /\ lock' = Free
      /\ callback' = [callback EXCEPT ![i] = "done"]
      /\ missed' = TRUE
      /\ UNCHANGED <<repos, connections, cursors, client, received, newest>>
  BY DEF OnEventFails, Sending
<1>2. TypeOK'
  BY <1>1 DEF TypeOK, cursors, repos
<1>3. BehindCursors' /\ RegisteredSinceSnapshot' /\ NewestAtCursors'
  BY <1>1 DEF cursors, BehindCursors, RegisteredSinceSnapshot, NewestAtCursors
<1>4. SenderHoldsLock'
  BY <1>1, TaskNames DEF TypeOK, SenderHoldsLock, Sending
<1>5. BehindMeansComing'
  BY <1>1 DEF repos, cursors, BehindMeansComing
<1> QED BY <1>2, <1>3, <1>4, <1>5

LEMMA NextStream == StreamInvariant /\ [Next]_vars => StreamInvariant'
<1> SUFFICES ASSUME StreamInvariant, [Next]_vars PROVE StreamInvariant'
  OBVIOUS
<1>1. CASE Environment
  BY <1>1, PublishKeeps, RowWrittenKeeps, AuditKeeps DEF Environment
<1>2. ASSUME NEW c \in Clients, Endpoint(c) PROVE StreamInvariant'
  BY <1>2, AcceptKeeps, SnapshotEventsKeeps, SnapshotAuditsKeeps,
     SnapshotStateKeeps, SnapshotFailsKeeps, TabClosesKeeps, DisconnectKeeps
  DEF Endpoint
<1>3. ASSUME NEW i \in 1..MaxEvents, OnEvent(i) PROVE StreamInvariant'
  BY <1>3, OnEventStartsKeeps, OnEventEventsKeeps, OnEventAuditsKeeps,
     OnEventStateKeeps, OnEventFailsKeeps DEF OnEvent
<1>4. CASE UNCHANGED vars
  BY <1>4 DEF vars, repos, cursors, history, StreamInvariant, TypeOK,
     BehindCursors, SenderHoldsLock, RegisteredSinceSnapshot, NewestAtCursors,
     BehindMeansComing, Coming
<1> QED BY <1>1, <1>2, <1>3, <1>4 DEF Next

----------------------------------------------------------------------------
(* Theorems *)

\* The inductive invariant holds in every reachable state of the stream.
THEOREM StreamCorrect == Spec => []StreamInvariant
BY InitStream, NextStream, PTL DEF Spec

\* Every variable of the stream keeps its type.
THEOREM StreamTypeCorrect == Spec => []TypeOK
<1>1. StreamInvariant => TypeOK
  BY DEF StreamInvariant
<1> QED BY <1>1, StreamCorrect, PTL

\* No tab is sent an event or an audit entry twice, or out of order.
THEOREM NothingSentTwice == Spec => []NothingTwice
<1>1. StreamInvariant => NothingTwice
  BY DEF StreamInvariant, BehindCursors, Bounded, NothingTwice
<1> QED BY <1>1, StreamCorrect, PTL

\* Once the callbacks are done, the tab that connected last has been sent
\* every event and the status of the row, unless a callback could not read
\* them.
THEOREM LatestTabIsUpToDate == Spec => []LatestTabUpToDate
<1>1. StreamInvariant => LatestTabUpToDate
  <2> SUFFICES ASSUME StreamInvariant, Quiet, ~missed, NEW c \in newest,
                      client[c] = "open"
               PROVE  UpToDate(c)
    BY DEF LatestTabUpToDate
  <2>1. ~Coming({"created", "waiting"} \cup Sending)
    BY DEF Quiet, Coming, Sending
  <2>2. ~Coming({"created", "waiting"})
    BY <2>1 DEF Coming
  <2>3. lastEventCount = eventCount /\ lastStatus = status
    BY <2>1, <2>2 DEF StreamInvariant, BehindMeansComing
  <2> QED BY <2>3 DEF StreamInvariant, NewestAtCursors, UpToDate
<1> QED BY <1>1, StreamCorrect, PTL

=============================================================================
