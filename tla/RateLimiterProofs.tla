------------------------- MODULE RateLimiterProofs -------------------------
(***************************************************************************)
(* NeverOverLimit of RateLimiter, for every limit, window and clock.        *)
(*                                                                          *)
(* NeverOverLimit alone is not inductive: it looks at the admitted calls,   *)
(* while check() looks at its list.  The list may forget a call only once   *)
(* it has left the window (NothingRecentForgotten); and as the clock does   *)
(* not run backwards (TimesInOrder), the last Limit calls are all in the    *)
(* window if the first of them is, so that check() would refuse the next.   *)
(***************************************************************************)
EXTENDS RateLimiter, FiniteSetTheorems, TLAPS

TimesInOrder ==
  \A k \in Keys : \A i, j \in 1..Len(admitted[k]) :
    i <= j => admitted[k][i] <= admitted[k][j] /\ admitted[k][j] <= now

NothingRecentForgotten == \A k \in Keys : InWindow(k) \subseteq calls[k]

LimiterInvariant ==
  /\ LimiterTypeOK
  /\ TimesInOrder
  /\ NothingRecentForgotten
  /\ NeverOverLimit

\* check() before it refuses or adds a call: what is dropped has left the
\* window, and what is kept is exactly the window.
LEMMA RecentIsWindow ==
  ASSUME LimiterTypeOK, NothingRecentForgotten, NEW k \in Keys
  PROVE  Recent(k) = InWindow(k)
BY DEF LimiterTypeOK, NothingRecentForgotten, Recent, InWindow

\* If check() admits a call, the call Limit before it has left the window.
LEMMA FirstOfLimitHasLeft ==
  ASSUME LimiterInvariant, NEW k \in Keys, ~Full(k),
         Limit[k] <= Len(admitted[k])
  PROVE  admitted[k][Len(admitted[k]) + 1 - Limit[k]] + Window < now
<1> DEFINE n == Len(admitted[k])
           i == n + 1 - Limit[k]
<1>1. /\ n \in Nat /\ Limit[k] \in Nat \ {0} /\ Window \in Nat /\ now \in Nat
      /\ i \in 1..n
      /\ \A j \in 1..n : admitted[k][j] \in Nat
  BY LimiterAssumption DEF LimiterInvariant, LimiterTypeOK
<1>2. SUFFICES ASSUME admitted[k][i] + Window >= now PROVE FALSE
  BY <1>1
<1>3. i..n \subseteq InWindow(k)
  <2>1. SUFFICES ASSUME NEW j \in i..n PROVE admitted[k][j] + Window >= now
    BY <1>1 DEF InWindow
  <2>2. j \in 1..n /\ i <= j
    BY <1>1
  <2>3. admitted[k][i] <= admitted[k][j]
    BY <1>1, <2>2 DEF LimiterInvariant, TimesInOrder
  <2> QED BY <1>1, <1>2, <2>2, <2>3
<1>4. IsFiniteSet(i..n) /\ Cardinality(i..n) = Limit[k]
  <2>1. i \in Int /\ n \in Int /\ i <= n /\ n - i + 1 = Limit[k]
    BY <1>1
  <2> HIDE DEF i, n
  <2>2. ~(i > n)
    BY <2>1
  <2>3. IsFiniteSet(i..n)
    BY <2>1, FS_Interval
  <2>4. Cardinality(i..n) = IF i > n THEN 0 ELSE n - i + 1
    BY <2>1, FS_Interval
  <2> QED BY <2>1, <2>2, <2>3, <2>4
<1>5. IsFiniteSet(InWindow(k))
  <2>1. IsFiniteSet(1..n)
    <3>1. 1 \in Int /\ n \in Int
      BY <1>1
    <3> QED BY <3>1, FS_Interval
  <2>2. InWindow(k) \subseteq 1..n
    BY DEF InWindow
  <2> QED BY <2>1, <2>2, FS_Subset
<1>6. Cardinality(i..n) <= Cardinality(InWindow(k))
  BY <1>3, <1>5, FS_Subset
<1>7. Cardinality(InWindow(k)) \in Nat
  BY <1>5, FS_CardinalityType
<1>8. Recent(k) = InWindow(k)
  BY RecentIsWindow DEF LimiterInvariant
<1> QED BY <1>1, <1>4, <1>6, <1>7, <1>8 DEF Full

LEMMA InitLimiter == LimiterInit => LimiterInvariant
BY LimiterAssumption
DEF LimiterInit, LimiterInvariant, LimiterTypeOK, TimesInOrder,
    NothingRecentForgotten, NeverOverLimit, InWindow

LEMMA TickKeeps == LimiterInvariant /\ Tick => LimiterInvariant'
<1> SUFFICES ASSUME LimiterInvariant, Tick PROVE LimiterInvariant'
  OBVIOUS
<1> USE LimiterAssumption DEF LimiterInvariant, Tick
<1>1. LimiterTypeOK'
  BY DEF LimiterTypeOK
<1>2. TimesInOrder'
  BY DEF LimiterTypeOK, TimesInOrder
<1>3. NothingRecentForgotten'
  BY DEF LimiterTypeOK, NothingRecentForgotten, InWindow
<1>4. NeverOverLimit'
  BY DEF LimiterTypeOK, NeverOverLimit
<1> QED BY <1>1, <1>2, <1>3, <1>4

LEMMA RefuseKeeps ==
  ASSUME LimiterInvariant, NEW k \in Keys, Refuse(k)
  PROVE  LimiterInvariant'
<1> USE LimiterAssumption DEF LimiterInvariant, Refuse
<1>1. LimiterTypeOK'
  BY DEF LimiterTypeOK, Recent
<1>2. TimesInOrder'
  BY DEF TimesInOrder
<1>3. NothingRecentForgotten'
  <2>1. \A l \in Keys : InWindow(l)' = InWindow(l)
    BY DEF InWindow
  <2>2. calls'[k] = InWindow(k)
    BY RecentIsWindow DEF LimiterTypeOK
  <2>3. \A l \in Keys \ {k} : calls'[l] = calls[l]
    BY DEF LimiterTypeOK
  <2> QED BY <2>1, <2>2, <2>3 DEF NothingRecentForgotten
<1>4. NeverOverLimit'
  BY DEF NeverOverLimit
<1> QED BY <1>1, <1>2, <1>3, <1>4

LEMMA AdmitKeeps ==
  ASSUME LimiterInvariant, NEW k \in Keys, Admit(k)
  PROVE  LimiterInvariant'
<1> DEFINE n == Len(admitted[k])
<1>1. /\ n \in Nat /\ Limit[k] \in Nat \ {0} /\ Window \in Nat
      /\ MaxTime \in Nat /\ now \in 0..MaxTime
      /\ admitted[k] \in Seq(0..MaxTime)
  BY LimiterAssumption DEF LimiterInvariant, LimiterTypeOK
<1>2. \A l \in Keys \ {k} : admitted'[l] = admitted[l] /\ calls'[l] = calls[l]
  BY DEF Admit, LimiterInvariant, LimiterTypeOK
<1>3. /\ admitted'[k] = Append(admitted[k], now)
      /\ calls'[k] = Recent(k) \cup {n + 1}
      /\ now' = now
  BY DEF Admit, LimiterInvariant, LimiterTypeOK
<1>4. /\ Len(admitted'[k]) = n + 1
      /\ admitted'[k][n + 1] = now
      /\ \A i \in 1..n : admitted'[k][i] = admitted[k][i]
  BY <1>1, <1>3
<1>5. /\ \A m \in 1..n : admitted[k][m] \in Nat /\ admitted[k][m] <= now
      /\ \A l, m \in 1..n : l <= m => admitted[k][l] <= admitted[k][m]
      /\ \A l, m \in 1..n :
           m = l + Limit[k] => admitted[k][m] > admitted[k][l] + Window
      /\ Limit[k] <= n => admitted[k][n + 1 - Limit[k]] + Window < now
  <2>1. \A m \in 1..n : admitted[k][m] \in Nat /\ admitted[k][m] <= now
    BY <1>1 DEF TimesInOrder, LimiterInvariant
  <2>2. \A l, m \in 1..n : l <= m => admitted[k][l] <= admitted[k][m]
    BY DEF TimesInOrder, LimiterInvariant
  <2>3. \A l, m \in 1..n :
          m = l + Limit[k] => admitted[k][m] > admitted[k][l] + Window
    BY DEF NeverOverLimit, LimiterInvariant
  <2>4. Limit[k] <= n => admitted[k][n + 1 - Limit[k]] + Window < now
    BY FirstOfLimitHasLeft DEF Admit
  <2> QED BY <2>1, <2>2, <2>3, <2>4
<1>6. LimiterTypeOK'
  <2>1. admitted' \in [Keys -> Seq(0..MaxTime)]
    BY <1>1, <1>3 DEF Admit, LimiterInvariant, LimiterTypeOK
  <2>2. Recent(k) \subseteq 1..n
    BY DEF Recent, LimiterInvariant, LimiterTypeOK
  <2>3. calls' \in [Keys -> SUBSET Nat]
    BY <1>1, <2>2 DEF Admit, LimiterInvariant, LimiterTypeOK
  <2>4. calls'[k] \subseteq 1..Len(admitted'[k])
    BY <1>1, <1>3, <1>4, <2>2
  <2>5. \A l \in Keys : calls'[l] \subseteq 1..Len(admitted'[l])
    BY <1>2, <2>4 DEF LimiterInvariant, LimiterTypeOK
  <2> QED BY <1>1, <1>3, <2>1, <2>3, <2>5 DEF LimiterTypeOK
<1>7. TimesInOrder'
  <2>1. SUFFICES ASSUME NEW i \in 1..(n + 1), NEW j \in 1..(n + 1), i <= j
                 PROVE  /\ admitted'[k][i] <= admitted'[k][j]
                        /\ admitted'[k][j] <= now
    BY <1>2, <1>3, <1>4 DEF TimesInOrder, LimiterInvariant
  <2> HIDE DEF n
  <2>2. n \in Nat /\ now \in Nat
    BY <1>1
  <2>3. CASE j = n + 1
    <3>1. admitted'[k][j] = now
      BY <1>4, <2>3
    <3>2. CASE i = n + 1
      BY <1>4, <2>2, <3>1, <3>2
    <3>3. CASE i \in 1..n
      BY <1>5, <1>4, <2>2, <3>1, <3>3
    <3> QED BY <2>2, <3>2, <3>3
  <2>4. CASE j \in 1..n
    <3>1. i \in 1..n
      BY <1>1, <2>1, <2>4
    <3> QED BY <1>4, <1>5, <2>1, <2>4, <3>1
  <2> QED BY <1>1, <2>3, <2>4
<1>8. NothingRecentForgotten'
  <2>1. \A l \in Keys \ {k} : InWindow(l)' = InWindow(l)
    BY <1>2, <1>3 DEF InWindow
  <2>2. InWindow(k)' \subseteq InWindow(k) \cup {n + 1}
    BY <1>1, <1>3, <1>4 DEF InWindow
  <2>3. InWindow(k)' \subseteq calls'[k]
    BY <1>3, <2>2, RecentIsWindow DEF LimiterInvariant
  <2> QED BY <1>2, <2>1, <2>3 DEF NothingRecentForgotten, LimiterInvariant
<1>9. NeverOverLimit'
  <2>1. SUFFICES ASSUME NEW i \in 1..(n + 1), NEW j \in 1..(n + 1),
                        j = i + Limit[k]
                 PROVE  admitted'[k][j] > admitted'[k][i] + Window
    BY <1>2, <1>4 DEF NeverOverLimit, LimiterInvariant
  <2> HIDE DEF n
  <2>2. i \in 1..n
    BY <1>1, <2>1
  <2>3. CASE j \in 1..n
    BY <1>4, <1>5, <2>1, <2>2, <2>3
  <2>4. CASE j = n + 1
    <3>1. i = n + 1 - Limit[k] /\ Limit[k] <= n
      BY <1>1, <2>1, <2>2, <2>4
    <3>2. admitted[k][i] + Window < now
      BY <1>5, <3>1
    <3>3. admitted[k][i] \in Nat
      BY <1>5, <2>2
    <3> QED BY <1>1, <1>4, <2>2, <2>4, <3>2, <3>3
  <2> QED BY <1>1, <2>3, <2>4
<1> QED BY <1>6, <1>7, <1>8, <1>9 DEF LimiterInvariant

\* The limiter's invariant holds whatever the callers do and however the clock
\* moves forward.
THEOREM LimiterCorrect == LimiterSpec => []LimiterInvariant
<1>1. LimiterInvariant /\ [LimiterNext]_limiterVars => LimiterInvariant'
  <2> SUFFICES ASSUME LimiterInvariant, [LimiterNext]_limiterVars
               PROVE  LimiterInvariant'
    OBVIOUS
  <2>1. CASE Tick
    BY <2>1, TickKeeps
  <2>2. CASE \E k \in Keys : Admit(k)
    BY <2>2, AdmitKeeps
  <2>3. CASE \E k \in Keys : Refuse(k)
    BY <2>3, RefuseKeeps
  <2>4. CASE UNCHANGED limiterVars
    BY <2>4 DEF limiterVars, LimiterInvariant, LimiterTypeOK, TimesInOrder,
                NothingRecentForgotten, NeverOverLimit, InWindow
  <2> QED BY <2>1, <2>2, <2>3, <2>4 DEF LimiterNext
<1> QED BY InitLimiter, <1>1, PTL DEF LimiterSpec

\* NeverOverLimit: in no window, wherever it begins, are more calls of a key
\* admitted than its limit, which is what check() is for.
THEOREM WindowNeverOverLimit == LimiterSpec => []NeverOverLimit
<1>1. LimiterInvariant => NeverOverLimit
  BY DEF LimiterInvariant
<1> QED BY LimiterCorrect, <1>1, PTL

============================================================================
