---------------------------- MODULE RateLimiter ----------------------------
(***************************************************************************)
(* ToolRateLimiter (backend/tools/rate_limiter.py), used twice: one budget  *)
(* per workflow for the tools that call the government, and one per client  *)
(* address for the routes that start a workflow.                            *)
(*                                                                          *)
(* The admitted calls of a key are numbered.  The limiter keeps a list of   *)
(* some of them, here the set of their numbers; check() drops those that    *)
(* are older than the window and then refuses the call or adds it.          *)
(***************************************************************************)
EXTENDS Naturals, Sequences, FiniteSets

CONSTANTS
  Keys,         \* workflow ids and "ip:<client>" strings
  Limit,        \* max_calls_per_minute, for each key
  Window,       \* window_seconds, in ticks
  MaxTime       \* bound: ticks of the clock

ASSUME LimiterAssumption ==
  /\ Limit \in [Keys -> Nat \ {0}]
  /\ Window \in Nat /\ MaxTime \in Nat

VARIABLES
  now,          \* time.monotonic()
  calls,        \* self._calls: the numbers of the calls on each list
  admitted      \* history: the times of all admitted calls of each key

limiterVars == <<now, calls, admitted>>

LimiterTypeOK ==
  /\ now \in 0..MaxTime
  /\ admitted \in [Keys -> Seq(0..MaxTime)]
  /\ calls \in [Keys -> SUBSET Nat]
  /\ \A k \in Keys : calls[k] \subseteq 1..Len(admitted[k])

LimiterInit ==
  /\ now = 0
  /\ calls = [k \in Keys |-> {}]
  /\ admitted = [k \in Keys |-> << >>]

\* The clock is monotonic; several calls may see the same time.
Tick ==
  /\ now < MaxTime
  /\ now' = now + 1
  /\ UNCHANGED <<calls, admitted>>

\* Error: a call exactly one window old no longer counts.
RecentOpen(k) == {i \in calls[k] : admitted[k][i] + Window > now}

\* Error: every call on the list counts, however old.
RecentForever(k) == calls[k]

\* t >= now - window_seconds: the window is closed at its older end.
Recent(k) == {i \in calls[k] : admitted[k][i] + Window >= now}

Full(k) == Cardinality(Recent(k)) >= Limit[k]

Admit(k) ==
  /\ ~Full(k)
  /\ admitted' = [admitted EXCEPT ![k] = Append(@, now)]
  /\ calls' = [calls EXCEPT ![k] = Recent(k) \cup {Len(admitted[k]) + 1}]
  /\ UNCHANGED now

\* ToolRateLimitError.  The call is not recorded, so it costs no budget.
Refuse(k) ==
  /\ Full(k)
  /\ calls' = [calls EXCEPT ![k] = Recent(k)]
  /\ UNCHANGED <<now, admitted>>

LimiterNext == Tick \/ \E k \in Keys : Admit(k) \/ Refuse(k)

LimiterSpec == LimiterInit /\ [][LimiterNext]_limiterVars

----------------------------------------------------------------------------

\* In every window, wherever it begins, at most Limit calls of a key were let
\* through: two admitted calls Limit apart are more than a window apart.  The
\* file calls itself a fixed-window counter, which would let through twice as
\* many around the end of a window.
NeverOverLimit ==
  \A k \in Keys : \A i, j \in 1..Len(admitted[k]) :
    j = i + Limit[k] => admitted[k][j] > admitted[k][i] + Window

\* The calls of a key admitted in the last window, the list set aside.
InWindow(k) == {i \in 1..Len(admitted[k]) : admitted[k][i] + Window >= now}

============================================================================
