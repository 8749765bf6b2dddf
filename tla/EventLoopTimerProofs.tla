------------------------ MODULE EventLoopTimerProofs ------------------------
(* The timers of EventLoopTimer, for every modulus of the tick count, every *)
(* interval and any number of timers: the wrapped arithmetic agrees with    *)
(* real time, the list stays in the order of expiry, the loop does not      *)
(* sleep past it, and no timer fires early or after a stop.                 *)
EXTENDS EventLoopTimer, FiniteSetTheorems, TLAPS

(* An address without a timer has neither a list entry nor a request.       *)
FreeTimersIdle ==
    \A t \in Timers : ~timer[t].allocated => ~timer[t].active /\ timer[t].request = "None"

(* What is left of a running timer, computed from the wrapped count.  Only  *)
(* a timer of interval 0, always due, may be older than the count is wide.  *)
DueElapsed ==
    \A t \in Timers : timer[t].active =>
        IF timer[t].interval = 0 THEN due[t] <= 0
        ELSE due[t] = timer[t].interval - Elapsed(timer[t].start_time)

(* A request is noticed before the loop sleeps, and none is open when the   *)
(* expired timers are looked at.                                            *)
RequestsNoticed ==
    /\ timer_queue # <<>> => notified \/ pc = "queue"
    /\ pc = "expired" => timer_queue = <<>>

TimerInv ==
    /\ TypeOK /\ TimersAccounted /\ FreeTimersIdle /\ DueElapsed
    /\ RequestsNoticed /\ ExpiryOrder /\ NoOversleep

-----------------------------------------------------------------------------
(* Arithmetic                                                              *)

LEMMA ModSmall ==
    ASSUME NEW m \in Nat \ {0}, NEW x \in 0..(m - 1)
    PROVE  x % m = x
  OBVIOUS

LEMMA ModNegative ==
    ASSUME NEW m \in Nat \ {0}, NEW x \in Int, -m <= x, x < 0
    PROVE  x % m = x + m
  OBVIOUS

LEMMA ModLarge ==
    ASSUME NEW m \in Nat \ {0}, NEW x \in Int, m <= x, x < 2 * m
    PROVE  x % m = x - m
  OBVIOUS

LEMMA SumModulo ==
    ASSUME NEW m \in Nat \ {0}, NEW a \in Int, NEW b \in Int, 0 <= a + b, a + b < 2 * m
    PROVE  (a + b) % m = IF a + b < m THEN a + b ELSE a + b - m
<1>1. CASE a + b < m
  BY <1>1, ModSmall
<1>2. CASE a + b >= m
  <2> DEFINE x == a + b
  <2>1. x \in Int /\ m <= x /\ x < 2 * m
    BY <1>2
  <2> HIDE DEF x
  <2>2. x % m = x - m
    BY <2>1
  <2> QED
    BY <1>2, <2>2 DEF x
<1> QED
  BY <1>1, <1>2

LEMMA QuotientBounds ==
    ASSUME NEW a \in Nat, NEW b \in Nat \ {0}
    PROVE  /\ a \div b \in Nat
           /\ b * (a \div b) \in Nat
           /\ b * (a \div b) <= a
           /\ a < b * (a \div b) + b
  OBVIOUS

-----------------------------------------------------------------------------
(* Sequences of timers                                                     *)

NoRepeats(s) == \A j, k \in DOMAIN s : s[j] = s[k] => j = k

OrderedBy(s, d) ==
    \A j, k \in DOMAIN s : j < k => d[s[j]] <= d[s[k]] \/ d[s[j]] <= 0

(* The sequence s without its element at the given place.                  *)
IsWithout(u, s, at) ==
    /\ u \in Seq(Timers) /\ Len(u) = Len(s) - 1
    /\ \A k \in 1..Len(u) : u[k] = IF k < at THEN s[k] ELSE s[k + 1]

(* The sequence s with t behind the given place.                           *)
IsWith(u, s, t, at) ==
    /\ u \in Seq(Timers) /\ Len(u) = Len(s) + 1
    /\ \A k \in 1..Len(u) :
          u[k] = IF k <= at THEN s[k] ELSE IF k = at + 1 THEN t ELSE s[k - 1]

(* A set of numbers that is not empty and has a bound has a biggest one:   *)
(* the numbers that some element reaches are as many as the biggest says.   *)
LEMMA BiggestProperty ==
    ASSUME NEW n \in Nat, NEW S \in SUBSET (0..n), S # {}
    PROVE  Biggest(S) \in S /\ \A k \in S : k <= Biggest(S)
<1> DEFINE Reached == {i \in 0..n : \E k \in S : i <= k}
           c == Cardinality(Reached)
<1>1. IsFiniteSet(0..n)
  BY FS_Interval
<1>2. IsFiniteSet(Reached) /\ c \in Nat
  BY <1>1, FS_Subset, FS_CardinalityType
<1>3. \A k \in Reached : k <= c - 1
  <2> SUFFICES ASSUME NEW k \in Reached PROVE k <= c - 1
    OBVIOUS
  <2>1. (0..k) \subseteq Reached
    OBVIOUS
  <2>2. Cardinality(0..k) <= c
    BY <1>2, <2>1, FS_Subset
  <2>3. Cardinality(0..k) = k + 1
    BY FS_Interval
  <2> QED
    BY <1>2, <2>2, <2>3
<1>4. c \in Nat /\ c >= 1
  <2>1. PICK k \in S : TRUE
    OBVIOUS
  <2> QED
    BY <1>2, <1>3, <2>1
<1>5. Reached = 0..(c - 1)
  <2>1. Reached \in SUBSET (0..(c - 1))
    BY <1>3, <1>4
  <2>2. IsFiniteSet(0..(c - 1)) /\ Cardinality(0..(c - 1)) = c
    BY <1>4, FS_Interval
  <2> QED
    BY <2>1, <2>2, FS_Subset
<1>6. c - 1 \in S
  <2> HIDE DEF c
  <2>1. c - 1 \in Reached
    BY <1>4, <1>5
  <2>2. PICK k \in S : c - 1 <= k
    BY <2>1
  <2>3. k \in Reached
    OBVIOUS
  <2> QED
    BY <1>3, <1>4, <2>2, <2>3
<1>7. \A k \in S : k <= c - 1
  BY <1>3
<1> HIDE DEF c
<1> QED
  BY <1>6, <1>7 DEF Biggest

LEMMA UnlinkedIsWithout ==
    ASSUME NEW s \in Seq(Timers), NEW t, InSeq(s, t)
    PROVE  \E at \in 1..Len(s) : s[at] = t /\ IsWithout(Unlinked(s, t), s, at)
<1> DEFINE at == CHOOSE k \in DOMAIN s : s[k] = t
<1>1. at \in DOMAIN s /\ s[at] = t
  BY DEF InSeq
<1> DEFINE u == [k \in 1..(Len(s) - 1) |-> IF k < at THEN s[k] ELSE s[k + 1]]
<1>2. Unlinked(s, t) = u
  BY DEF Unlinked
<1> HIDE DEF at
<1>3. at \in 1..Len(s) /\ Len(s) \in Nat /\ Len(s) - 1 \in Nat
  BY <1>1
<1>4. \A k \in 1..(Len(s) - 1) : u[k] \in Timers
  BY <1>3
<1>5. u \in Seq(Timers) /\ Len(u) = Len(s) - 1
  BY <1>3, <1>4
<1> QED
  BY <1>1, <1>2, <1>3, <1>5 DEF IsWithout

LEMMA TailIsWithout ==
    ASSUME NEW s \in Seq(Timers), s # <<>>
    PROVE  /\ Head(s) = s[1] /\ 1 \in 1..Len(s) /\ Head(s) \in Timers
           /\ IsWithout(Tail(s), s, 1)
  BY DEF IsWithout

LEMMA WithoutProperties ==
    ASSUME NEW s \in Seq(Timers), NEW at \in 1..Len(s), NEW u, IsWithout(u, s, at),
           NoRepeats(s)
    PROVE  /\ u \in Seq(Timers)
           /\ NoRepeats(u)
           /\ \A x : InSeq(u, x) <=> InSeq(s, x) /\ x # s[at]
           /\ \A d : OrderedBy(s, d) => OrderedBy(u, d)
<1>1. /\ u \in Seq(Timers) /\ Len(u) = Len(s) - 1 /\ Len(s) \in Nat /\ Len(u) \in Nat
      /\ DOMAIN u = 1..Len(u) /\ DOMAIN s = 1..Len(s)
  BY DEF IsWithout
<1>2. \A k \in 1..Len(u) : u[k] = IF k < at THEN s[k] ELSE s[k + 1]
  BY DEF IsWithout
<1> DEFINE from(k) == IF k < at THEN k ELSE k + 1
<1>3. \A k \in 1..Len(u) : from(k) \in 1..Len(s) /\ u[k] = s[from(k)]
  BY <1>1, <1>2
<1>4. \A j, k \in 1..Len(u) : j < k => from(j) < from(k)
  BY <1>1
<1> HIDE DEF from
<1>5. NoRepeats(u)
  <2>1. SUFFICES ASSUME NEW j \in 1..Len(u), NEW k \in 1..Len(u), u[j] = u[k]
                 PROVE  j = k
    BY <1>1 DEF NoRepeats
  <2>2. from(j) = from(k)
    BY <1>1, <1>3, <2>1 DEF NoRepeats
  <2> QED
    BY <1>1, <2>2 DEF from
<1>6. ASSUME NEW x
      PROVE  InSeq(u, x) <=> InSeq(s, x) /\ x # s[at]
  <2>1. ASSUME InSeq(u, x) PROVE InSeq(s, x) /\ x # s[at]
    BY <1>1, <1>2, <2>1 DEF InSeq, NoRepeats
  <2>2. ASSUME InSeq(s, x), x # s[at] PROVE InSeq(u, x)
    <3>1. PICK k \in 1..Len(s) : s[k] = x
      BY <1>1, <2>2 DEF InSeq
    <3>2. CASE k < at
      BY <1>1, <1>2, <3>1, <3>2 DEF InSeq
    <3>3. CASE k > at
      <4>1. k - 1 \in 1..Len(u) /\ u[k - 1] = x
        BY <1>1, <1>2, <3>1, <3>3
      <4> QED
        BY <1>1, <4>1 DEF InSeq
    <3> QED
      BY <2>2, <3>1, <3>2, <3>3
  <2> QED
    BY <2>1, <2>2
<1>7. ASSUME NEW d, OrderedBy(s, d)
      PROVE  OrderedBy(u, d)
  <2>1. SUFFICES ASSUME NEW j \in 1..Len(u), NEW k \in 1..Len(u), j < k
                 PROVE  d[u[j]] <= d[u[k]] \/ d[u[j]] <= 0
    BY <1>1 DEF OrderedBy
  <2> QED
    BY <1>1, <1>7, <1>3, <1>4, <2>1 DEF OrderedBy
<1> QED
  BY <1>1, <1>5, <1>6, <1>7

LEMMA JoinedParts ==
    ASSUME NEW a \in Seq(Timers), NEW b \in Seq(Timers)
    PROVE  /\ a \o b \in Seq(Timers) /\ Len(a \o b) = Len(a) + Len(b)
           /\ \A k \in 1..(Len(a) + Len(b)) :
                 (a \o b)[k] = IF k <= Len(a) THEN a[k] ELSE b[k - Len(a)]
  OBVIOUS

LEMMA InsertedIsWith ==
    ASSUME NEW s \in Seq(Timers), NEW t \in Timers, NEW at \in 0..Len(s)
    PROVE  IsWith(SubSeq(s, 1, at) \o <<t>> \o SubSeq(s, at + 1, Len(s)), s, t, at)
<1> DEFINE front == SubSeq(s, 1, at)
           back == SubSeq(s, at + 1, Len(s))
<1>1. /\ front \in Seq(Timers) /\ Len(front) = at
      /\ \A k \in 1..at : front[k] = s[k]
  OBVIOUS
<1>2. /\ back \in Seq(Timers) /\ Len(back) = Len(s) - at
      /\ \A k \in 1..(Len(s) - at) : back[k] = s[at + k]
  OBVIOUS
<1> HIDE DEF front, back
<1> DEFINE begin == front \o <<t>>
<1>3. /\ begin \in Seq(Timers) /\ Len(begin) = at + 1
      /\ \A k \in 1..(at + 1) : begin[k] = IF k <= at THEN s[k] ELSE t
  BY <1>1
<1> HIDE DEF begin
<1>4. /\ begin \o back \in Seq(Timers) /\ Len(begin \o back) = Len(s) + 1
      /\ \A k \in 1..(Len(s) + 1) :
            (begin \o back)[k] = IF k <= at + 1 THEN begin[k] ELSE back[k - (at + 1)]
  <2>1. /\ begin \o back \in Seq(Timers) /\ Len(begin \o back) = Len(begin) + Len(back)
        /\ \A k \in 1..(Len(begin) + Len(back)) :
              (begin \o back)[k] = IF k <= Len(begin) THEN begin[k]
                                   ELSE back[k - Len(begin)]
    BY <1>2, <1>3, JoinedParts
  <2>2. Len(begin) + Len(back) = Len(s) + 1
    BY <1>2, <1>3
  <2> QED
    BY <1>3, <2>1, <2>2
<1> DEFINE u == begin \o back
<1> HIDE DEF u
<1>5. ASSUME NEW k \in 1..(Len(s) + 1)
      PROVE  u[k] = IF k <= at THEN s[k] ELSE IF k = at + 1 THEN t ELSE s[k - 1]
  <2>1. CASE k <= at + 1
    BY <1>3, <1>4, <2>1 DEF u
  <2>2. CASE k > at + 1
    <3>1. k - (at + 1) \in 1..(Len(s) - at) /\ at + (k - (at + 1)) = k - 1
      BY <2>2
    <3>2. back[k - (at + 1)] = s[k - 1]
      BY <1>2, <3>1
    <3> QED
      BY <1>4, <2>2, <3>2 DEF u
  <2> QED
    BY <2>1, <2>2
<1> QED
  BY <1>4, <1>5 DEF IsWith, begin, front, back, u

LEMMA AppendIsWith ==
    ASSUME NEW s \in Seq(Timers), NEW t \in Timers
    PROVE  IsWith(Append(s, t), s, t, Len(s))
  BY DEF IsWith

LEMMA WithProperties ==
    ASSUME NEW s \in Seq(Timers), NEW t \in Timers, NEW at \in 0..Len(s),
           NEW u, IsWith(u, s, t, at), NoRepeats(s), ~InSeq(s, t)
    PROVE  /\ u \in Seq(Timers)
           /\ NoRepeats(u)
           /\ \A x : InSeq(u, x) <=> InSeq(s, x) \/ x = t
<1>1. /\ u \in Seq(Timers) /\ Len(u) = Len(s) + 1 /\ Len(s) \in Nat /\ Len(u) \in Nat
      /\ DOMAIN u = 1..Len(u) /\ DOMAIN s = 1..Len(s)
  BY DEF IsWith
<1>2. \A k \in 1..Len(u) :
        u[k] = IF k <= at THEN s[k] ELSE IF k = at + 1 THEN t ELSE s[k - 1]
  BY DEF IsWith
<1> DEFINE from(k) == IF k <= at THEN k ELSE k - 1
<1>3. \A k \in 1..Len(u) : k # at + 1 => from(k) \in 1..Len(s) /\ u[k] = s[from(k)] /\ u[k] # t
  BY <1>1, <1>2 DEF InSeq
<1>4. \A j, k \in 1..Len(u) : j # at + 1 /\ k # at + 1 /\ from(j) = from(k) => j = k
  BY <1>1
<1>5. at + 1 \in 1..Len(u) /\ u[at + 1] = t
  BY <1>1, <1>2
<1> HIDE DEF from
<1>6. NoRepeats(u)
  <2>1. SUFFICES ASSUME NEW j \in 1..Len(u), NEW k \in 1..Len(u), u[j] = u[k]
                 PROVE  j = k
    BY <1>1 DEF NoRepeats
  <2>2. CASE j = at + 1 \/ k = at + 1
    BY <1>3, <1>5, <2>1, <2>2
  <2>3. CASE j # at + 1 /\ k # at + 1
    <3>1. from(j) = from(k)
      BY <1>1, <1>3, <2>1, <2>3 DEF NoRepeats
    <3> QED
      BY <1>4, <2>3, <3>1
  <2> QED
    BY <2>2, <2>3
<1>7. ASSUME NEW x
      PROVE  InSeq(u, x) <=> InSeq(s, x) \/ x = t
  <2>1. ASSUME InSeq(u, x) PROVE InSeq(s, x) \/ x = t
    BY <1>1, <1>3, <1>5, <2>1 DEF InSeq
  <2>2. CASE x = t
    BY <1>1, <1>5, <2>2 DEF InSeq
  <2>3. ASSUME InSeq(s, x) PROVE InSeq(u, x)
    <3>1. PICK k \in 1..Len(s) : s[k] = x
      BY <1>1, <2>3 DEF InSeq
    <3>2. CASE k <= at
      BY <1>1, <1>2, <3>1, <3>2 DEF InSeq
    <3>3. CASE k > at
      <4>1. k + 1 \in 1..Len(u) /\ u[k + 1] = x
        BY <1>1, <1>2, <3>1, <3>3
      <4> QED
        BY <1>1, <4>1 DEF InSeq
    <3> QED
      BY <3>1, <3>2, <3>3
  <2> QED
    BY <2>1, <2>2, <2>3
<1> QED
  BY <1>1, <1>6, <1>7

(* A sequence in order stays in order when an element is put behind the     *)
(* ones that are no later and in front of the ones that are.                *)
LEMMA WithOrdered ==
    ASSUME NEW s \in Seq(Timers), NEW t \in Timers, NEW at \in 0..Len(s),
           NEW u, IsWith(u, s, t, at), NEW d, \A x \in Timers : d[x] \in Int,
           OrderedBy(s, d),
           \A k \in 1..at : d[s[k]] <= d[t] \/ d[s[k]] <= 0,
           \A k \in (at + 1)..Len(s) : d[t] <= d[s[k]] \/ d[t] <= 0
    PROVE  OrderedBy(u, d)
<1>1. /\ Len(u) = Len(s) + 1 /\ Len(s) \in Nat
      /\ DOMAIN u = 1..Len(u) /\ DOMAIN s = 1..Len(s)
  BY DEF IsWith
<1>2. \A k \in 1..Len(u) :
        u[k] = IF k <= at THEN s[k] ELSE IF k = at + 1 THEN t ELSE s[k - 1]
  BY DEF IsWith
<1>3. SUFFICES ASSUME NEW j \in 1..Len(u), NEW k \in 1..Len(u), j < k
               PROVE  d[u[j]] <= d[u[k]] \/ d[u[j]] <= 0
  BY <1>1 DEF OrderedBy
<1>4. CASE k <= at
  <2>1. j \in DOMAIN s /\ k \in DOMAIN s /\ u[j] = s[j] /\ u[k] = s[k]
    BY <1>1, <1>2, <1>3, <1>4
  <2> QED
    BY <1>3, <2>1 DEF OrderedBy
<1>5. CASE j <= at /\ k = at + 1
  <2>1. j \in 1..at /\ u[j] = s[j] /\ u[k] = t
    BY <1>1, <1>2, <1>3, <1>5
  <2> QED
    BY <2>1
<1>6. CASE j <= at /\ k > at + 1
  <2>1. /\ j \in DOMAIN s /\ k - 1 \in DOMAIN s /\ j < k - 1
        /\ u[j] = s[j] /\ u[k] = s[k - 1]
    BY <1>1, <1>2, <1>3, <1>6
  <2> QED
    BY <2>1 DEF OrderedBy
<1>7. CASE j = at + 1
  <2>1. k - 1 \in (at + 1)..Len(s) /\ u[j] = t /\ u[k] = s[k - 1]
    BY <1>1, <1>2, <1>3, <1>7
  <2> QED
    BY <2>1
<1>8. CASE j > at + 1
  <2>1. /\ j - 1 \in DOMAIN s /\ k - 1 \in DOMAIN s /\ j - 1 < k - 1
        /\ u[j] = s[j - 1] /\ u[k] = s[k - 1]
    BY <1>1, <1>2, <1>3, <1>8
  <2> QED
    BY <2>1 DEF OrderedBy
<1> QED
  BY <1>3, <1>4, <1>5, <1>6, <1>7, <1>8

-----------------------------------------------------------------------------
(* The wrapped arithmetic of a state                                       *)

LEMMA ElapsedValue ==
    ASSUME NEW n \in Times, NEW start \in Times
    PROVE  /\ (n - start) % Modulus = IF start <= n THEN n - start ELSE n - start + Modulus
           /\ (n - start) % Modulus \in Times
<1>1. CASE start <= n
  BY <1>1, ModSmall, ModulusAssumption DEF Times
<1>2. CASE start > n
  BY <1>2, ModNegative, ModulusAssumption DEF Times
<1> QED
  BY <1>1, <1>2 DEF Times

LEMMA ElapsedTick ==
    ASSUME NEW n \in Times, NEW start \in Times, (n - start) % Modulus # Modulus - 1
    PROVE  /\ (n + 1) % Modulus \in Times
           /\ (((n + 1) % Modulus) - start) % Modulus = ((n - start) % Modulus) + 1
<1> DEFINE m == (n + 1) % Modulus
<1>1. m = IF n = Modulus - 1 THEN 0 ELSE n + 1
  <2>1. CASE n = Modulus - 1
    BY <2>1, ModLarge, ModulusAssumption DEF Times
  <2>2. CASE n # Modulus - 1
    BY <2>2, ModSmall, ModulusAssumption DEF Times
  <2> QED
    BY <2>1, <2>2
<1>2. m \in Times
  BY <1>1, ModulusAssumption DEF Times
<1> HIDE DEF m
<1>3. (m - start) % Modulus = IF start <= m THEN m - start ELSE m - start + Modulus
  BY <1>2, ElapsedValue
<1>4. (n - start) % Modulus = IF start <= n THEN n - start ELSE n - start + Modulus
  BY ElapsedValue
<1> QED
  BY <1>1, <1>2, <1>3, <1>4, ModulusAssumption DEF Times, m

LEMMA NextTime ==
    ASSUME NEW n \in Times
    PROVE  (n + 1) % Modulus \in Times
<1>1. CASE n = Modulus - 1
  BY <1>1, ModLarge, ModulusAssumption DEF Times
<1>2. CASE n # Modulus - 1
  BY <1>2, ModSmall, ModulusAssumption DEF Times
<1> QED
  BY <1>1, <1>2

(* A periodic timer that is set on by whole intervals is exactly that much  *)
(* younger, whether or not the sum wraps.                                   *)
LEMMA ElapsedAdvanced ==
    ASSUME NEW n \in Times, NEW start \in Times, NEW by \in Nat,
           by <= (n - start) % Modulus
    PROVE  /\ (start + by) % Modulus \in Times
           /\ (n - ((start + by) % Modulus)) % Modulus = ((n - start) % Modulus) - by
<1> DEFINE next == (start + by) % Modulus
<1>1. (n - start) % Modulus = IF start <= n THEN n - start ELSE n - start + Modulus
  BY ElapsedValue
<1>2. next = IF start + by < Modulus THEN start + by ELSE start + by - Modulus
  <2>1. start \in Int /\ by \in Int /\ 0 <= start + by /\ start + by < 2 * Modulus
    BY <1>1, ModulusAssumption DEF Times
  <2> QED
    BY <2>1, SumModulo, ModulusAssumption
<1>3. next \in Times
  BY <1>1, <1>2, ModulusAssumption DEF Times
<1> HIDE DEF next
<1>4. (n - next) % Modulus = IF next <= n THEN n - next ELSE n - next + Modulus
  BY <1>3, ElapsedValue
<1> QED
  BY <1>1, <1>2, <1>3, <1>4, ModulusAssumption DEF Times, next

LEMMA IntervalBounds ==
    ASSUME NEW n \in Intervals \cup {0, TickInterval}
    PROVE  n \in Nat /\ n + MaxLate < Modulus
  BY IntervalsAssumption, MaxLateAssumption, ModulusAssumption

LEMMA RemainingType ==
    ASSUME TypeOK, NEW start \in Times, NEW n \in Intervals \cup {0, TickInterval}
    PROVE  Remaining(start, n) \in Nat /\ Remaining(start, n) <= n
<1>1. Elapsed(start) \in Nat
  BY ElapsedValue, ModulusAssumption DEF TypeOK, Elapsed, Times
<1>2. n \in Nat
  BY IntervalBounds
<1> QED
  BY <1>1, <1>2 DEF Remaining

LEMMA RemainingOfType ==
    ASSUME TypeOK, NEW r \in TimerRecords
    PROVE  RemainingOf(r) \in Nat /\ RemainingOf(r) < Modulus
<1>1. r.start_time \in Times /\ r.interval \in Intervals \cup {0, TickInterval}
  BY DEF TimerRecords
<1> QED
  BY <1>1, RemainingType, IntervalBounds, MaxLateAssumption, ModulusAssumption DEF RemainingOf

(* What the 32-bit arithmetic says is left is what is left.                *)
LEMMA RemainingIsDue ==
    ASSUME TypeOK, DueElapsed, NEW t \in Timers, timer[t].active
    PROVE  RemainingOf(timer[t]) = (IF due[t] > 0 THEN due[t] ELSE 0)
<1>1. /\ timer[t].start_time \in Times /\ timer[t].interval \in Intervals \cup {0, TickInterval}
      /\ now \in Times /\ due[t] \in Int
  BY MaxLateAssumption, ModulusAssumption DEF TypeOK, TimerRecords
<1>2. Elapsed(timer[t].start_time) \in Nat /\ timer[t].interval \in Nat
  BY <1>1, ElapsedValue, IntervalBounds, ModulusAssumption DEF Elapsed, Times
<1> QED
  BY <1>1, <1>2 DEF DueElapsed, RemainingOf, Remaining

LEMMA ExpiredIsDue ==
    ASSUME TypeOK, DueElapsed, NEW t \in Timers, timer[t].active
    PROVE  ExpiredTimer(t) => due[t] <= 0
<1>1. /\ timer[t].start_time \in Times /\ timer[t].interval \in Intervals \cup {0, TickInterval}
      /\ now \in Times /\ due[t] \in Int
  BY MaxLateAssumption, ModulusAssumption DEF TypeOK, TimerRecords
<1>2. Elapsed(timer[t].start_time) \in Nat /\ timer[t].interval \in Nat
  BY <1>1, ElapsedValue, IntervalBounds, ModulusAssumption DEF Elapsed, Times
<1> QED
  BY <1>1, <1>2 DEF DueElapsed, ExpiredTimer, Expired

-----------------------------------------------------------------------------
(* furi_event_loop_schedule_timer                                          *)

LEMMA ScheduledIsWith ==
    ASSUME TypeOK, NEW s \in Seq(Timers), NEW t \in Timers, NEW r \in TimerRecords
    PROVE  \E at \in 0..Len(s) :
              /\ IsWith(Scheduled(s, t, r), s, t, at)
              /\ at > 0 => RemainingOf(timer[s[at]]) <= RemainingOf(r)
              /\ \A k \in (at + 1)..Len(s) : RemainingOf(timer[s[k]]) > RemainingOf(r)
<1> DEFINE before == {k \in DOMAIN s : RemainingOf(timer[s[k]]) <= RemainingOf(r)}
           at == Biggest({0} \cup before)
<1>1. Len(s) \in Nat /\ DOMAIN s = 1..Len(s)
  OBVIOUS
<1>2. {0} \cup before \in SUBSET (0..Len(s)) /\ {0} \cup before # {}
  BY <1>1
<1>3. at \in {0} \cup before /\ \A k \in {0} \cup before : k <= at
  BY <1>1, <1>2, BiggestProperty
<1>4. at \in 0..Len(s)
  BY <1>2, <1>3
<1>5. Scheduled(s, t, r) = SubSeq(s, 1, at) \o <<t>> \o SubSeq(s, at + 1, Len(s))
  BY DEF Scheduled
<1> HIDE DEF at
<1>6. IsWith(Scheduled(s, t, r), s, t, at)
  BY <1>4, <1>5, InsertedIsWith
<1>7. at > 0 => RemainingOf(timer[s[at]]) <= RemainingOf(r)
  BY <1>3
<1>8. ASSUME NEW k \in (at + 1)..Len(s)
      PROVE  RemainingOf(timer[s[k]]) > RemainingOf(r)
  <2>1. k \in DOMAIN s /\ k > at
    BY <1>1, <1>4
  <2>2. ~(RemainingOf(timer[s[k]]) <= RemainingOf(r))
    BY <1>3, <1>4, <2>1
  <2>3. timer[s[k]] \in TimerRecords
    BY <2>1 DEF TypeOK
  <2> QED
    BY <2>2, <2>3, RemainingOfType
<1> QED
  BY <1>4, <1>6, <1>7, <1>8

(* A timer that is scheduled among running ones, which are in order, is in  *)
(* order with them when its record says what it really has left.            *)
LEMMA ScheduledOrdered ==
    ASSUME TypeOK, DueElapsed, NEW s \in Seq(Timers), NoRepeats(s),
           NEW t \in Timers, ~InSeq(s, t), NEW r \in TimerRecords,
           \A x \in Timers : InSeq(s, x) => timer[x].active,
           NEW d, \A x \in Timers : d[x] \in Int /\ (x # t => d[x] = due[x]),
           OrderedBy(s, due), RemainingOf(r) = (IF d[t] > 0 THEN d[t] ELSE 0)
    PROVE  /\ Scheduled(s, t, r) \in Seq(Timers)
           /\ NoRepeats(Scheduled(s, t, r))
           /\ \A x : InSeq(Scheduled(s, t, r), x) <=> InSeq(s, x) \/ x = t
           /\ OrderedBy(Scheduled(s, t, r), d)
<1> DEFINE u == Scheduled(s, t, r)
<1>1. PICK at \in 0..Len(s) :
              /\ IsWith(u, s, t, at)
              /\ at > 0 => RemainingOf(timer[s[at]]) <= RemainingOf(r)
              /\ \A k \in (at + 1)..Len(s) : RemainingOf(timer[s[k]]) > RemainingOf(r)
  BY ScheduledIsWith
<1> HIDE DEF u
<1>2. /\ u \in Seq(Timers) /\ NoRepeats(u)
      /\ \A x : InSeq(u, x) <=> InSeq(s, x) \/ x = t
  BY <1>1, WithProperties
<1>3. \A k \in DOMAIN s :
        /\ s[k] \in Timers /\ d[s[k]] = due[s[k]] /\ d[s[k]] \in Int
        /\ RemainingOf(timer[s[k]]) = (IF d[s[k]] > 0 THEN d[s[k]] ELSE 0)
  <2> SUFFICES ASSUME NEW k \in DOMAIN s
               PROVE  /\ s[k] \in Timers /\ d[s[k]] = due[s[k]] /\ d[s[k]] \in Int
                      /\ RemainingOf(timer[s[k]]) = (IF d[s[k]] > 0 THEN d[s[k]] ELSE 0)
    OBVIOUS
  <2>1. s[k] \in Timers /\ InSeq(s, s[k])
    BY DEF InSeq
  <2>2. s[k] # t /\ timer[s[k]].active
    BY <2>1
  <2> QED
    BY <2>1, <2>2, RemainingIsDue
<1>4. OrderedBy(s, d)
  BY <1>3 DEF OrderedBy
<1>5. ASSUME NEW k \in 1..at
      PROVE  d[s[k]] <= d[t] \/ d[s[k]] <= 0
  <2>1. at \in DOMAIN s /\ k \in DOMAIN s /\ k <= at /\ at > 0
    OBVIOUS
  <2>2. d[s[at]] <= d[t] \/ d[s[at]] <= 0
    BY <1>1, <1>3, <2>1
  <2>3. d[s[k]] <= d[s[at]] \/ d[s[k]] <= 0
    BY <1>3, <1>4, <2>1 DEF OrderedBy
  <2> QED
    BY <1>3, <2>1, <2>2, <2>3
<1>6. ASSUME NEW k \in (at + 1)..Len(s)
      PROVE  d[t] <= d[s[k]] \/ d[t] <= 0
  <2>1. k \in DOMAIN s
    OBVIOUS
  <2> QED
    BY <1>1, <1>3, <2>1
<1>7. OrderedBy(u, d)
  BY <1>1, <1>4, <1>5, <1>6, WithOrdered
<1> QED
  BY <1>2, <1>7 DEF u

-----------------------------------------------------------------------------
(* The invariant: initial states, and steps that touch no timer            *)

(* What the timers, the list and the queue say of each other.              *)
TimersInv == TimersAccounted /\ FreeTimersIdle /\ DueElapsed /\ ExpiryOrder

LEMMA FreedType ==
    Freed \in TimerRecords
  BY ModulusAssumption DEF Times, Freed, TimerRecords, Requests

LEMMA InitEstablishes ==
    Init => TimerInv
<1> SUFFICES ASSUME Init PROVE TimerInv
  OBVIOUS
<1>1. 0 \in Times /\ Freed \in TimerRecords /\ 0 \in (-MaxLate)..(Modulus - 1)
  BY FreedType, ModulusAssumption, MaxLateAssumption DEF Times
<1>2. TypeOK
  <2>1. timer \in [Timers -> TimerRecords] /\ due \in [Timers -> (-MaxLate)..(Modulus - 1)]
    BY <1>1 DEF Init
  <2>2. timer_list \in Seq(Timers) /\ timer_queue \in Seq(Timers)
    BY DEF Init
  <2>3. now \in Times /\ prev_time \in Times /\ pc \in ClientPCs
    BY <1>1 DEF Init, ClientPCs
  <2>4. notified \in BOOLEAN
    BY DEF Init
  <2>5. sleep \in 0..Forever
    BY ModulusAssumption DEF Init, Forever
  <2> QED
    BY <2>1, <2>2, <2>3, <2>4, <2>5 DEF TypeOK
<1>3. TimersInv
  BY DEF Init, TimersInv, TimersAccounted, FreeTimersIdle, DueElapsed, ExpiryOrder,
         InSeq, Freed
<1>4. RequestsNoticed /\ NoOversleep
  BY DEF Init, RequestsNoticed, NoOversleep
<1> QED
  BY <1>2, <1>3, <1>4 DEF TimerInv, TimersInv

LEMMA TimersUntouched ==
    ASSUME TimersInv, UNCHANGED <<now, timer, timer_list, timer_queue, due>>
    PROVE  TimersInv'
  BY DEF TimersInv, TimersAccounted, FreeTimersIdle, DueElapsed, ExpiryOrder, InSeq, Elapsed

LEMMA SleepTimeBound ==
    ASSUME TimerInv
    PROVE  /\ SleepTime \in 0..Forever
           /\ \A t \in Timers : timer[t].active =>
                 SleepTime <= (IF due[t] > 0 THEN due[t] ELSE 0)
<1>1. TypeOK /\ TimersAccounted /\ DueElapsed /\ ExpiryOrder
  BY DEF TimerInv
<1>2. TickWaitTime \in 0..Forever
  BY <1>1, RemainingType, IntervalBounds, IntervalsAssumption, MaxLateAssumption,
     ModulusAssumption DEF TickWaitTime, TypeOK, Forever
<1>3. CASE timer_list = <<>>
  <2>1. \A t \in Timers : ~timer[t].active
    BY <1>1, <1>3 DEF TimersAccounted, InSeq
  <2> QED
    BY <1>2, <1>3, <2>1, ModulusAssumption DEF SleepTime, TimerWaitTime, Minimum, Forever
<1>4. CASE timer_list # <<>>
  <2> DEFINE h == Head(timer_list)
             Left(t) == IF due[t] > 0 THEN due[t] ELSE 0
  <2>1. /\ timer_list \in Seq(Timers) /\ h \in Timers /\ h = timer_list[1]
        /\ 1 \in DOMAIN timer_list
    BY <1>1, <1>4 DEF TypeOK
  <2>2. timer[h].active
    BY <1>1, <2>1 DEF TimersAccounted, InSeq
  <2>3. TimerWaitTime = Left(h) /\ Left(h) \in 0..(Modulus - 1)
    <3>1. RemainingOf(timer[h]) = Left(h)
      BY <1>1, <2>1, <2>2, RemainingIsDue
    <3>2. due[h] \in Int /\ due[h] <= Modulus - 1
      BY <1>1, <2>1, MaxLateAssumption, ModulusAssumption DEF TypeOK
    <3> QED
      BY <1>4, <3>1, <3>2, ModulusAssumption DEF TimerWaitTime
  <2>4. ASSUME NEW t \in Timers, timer[t].active
        PROVE  Left(h) <= Left(t)
    <3>1. PICK k \in DOMAIN timer_list : timer_list[k] = t
      BY <1>1, <2>4 DEF TimersAccounted, InSeq
    <3>2. due[h] \in Int /\ due[t] \in Int
      BY <1>1, <2>1, MaxLateAssumption, ModulusAssumption DEF TypeOK
    <3>3. CASE k = 1
      BY <2>1, <3>1, <3>2, <3>3
    <3>4. CASE k # 1
      <4>1. 1 < k
        BY <2>1, <3>1, <3>4
      <4>2. due[h] <= due[t] \/ due[h] <= 0
        BY <1>1, <2>1, <3>1, <4>1 DEF ExpiryOrder
      <4> QED
        BY <3>2, <4>2
    <3> QED
      BY <3>3, <3>4
  <2> HIDE DEF h
  <2>5. SleepTime \in 0..Forever /\ SleepTime <= Left(h)
    BY <1>2, <2>3, ModulusAssumption DEF SleepTime, Minimum, Forever
  <2>6. \A t \in Timers : due[t] \in Int /\ due[h] \in Int
    BY <1>1, <2>1, MaxLateAssumption, ModulusAssumption DEF TypeOK
  <2> QED
    BY <2>4, <2>5, <2>6, ModulusAssumption DEF Forever
<1> QED
  BY <1>3, <1>4

(* Steps of the loop that only move it, clear its flag or take its time.   *)
QuietStep ==
    \/ furi_event_loop_run \/ begin_wait \/ wait_event \/ wait_timer
    \/ process_timer_queue_done \/ wait_timeout \/ process_tick \/ callback_return

LEMMA QuietStepKeeps ==
    TimerInv /\ QuietStep => TimerInv'
<1> SUFFICES ASSUME TimerInv, QuietStep PROVE TimerInv'
  OBVIOUS
<1>1. TypeOK /\ TimersInv /\ RequestsNoticed /\ NoOversleep
  BY DEF TimerInv, TimersInv
<1>2. UNCHANGED <<now, timer, timer_list, timer_queue, due>>
  BY DEF QuietStep, furi_event_loop_run, begin_wait, wait_event, wait_timer,
         process_timer_queue_done, wait_timeout, process_tick, callback_return
<1>3. TimersInv'
  BY <1>1, <1>2, TimersUntouched
<1>4. prev_time' \in Times
  <2>1. CASE process_tick
    <3>1. prev_time + TickInterval \in Nat /\ prev_time + TickInterval < 2 * Modulus
      <4>1. TickInterval \in Nat /\ TickInterval < Modulus
        BY IntervalBounds, MaxLateAssumption, ModulusAssumption
      <4> QED
        BY <1>1, <4>1, ModulusAssumption DEF TypeOK, Times
    <3>2. (prev_time + TickInterval) % Modulus \in Times
      BY <3>1, ModulusAssumption DEF Times
    <3> QED
      BY <1>1, <2>1, <3>2 DEF TypeOK, process_tick
  <2> QED
    BY <1>1, <2>1 DEF TypeOK, QuietStep, furi_event_loop_run, begin_wait, wait_event,
       wait_timer, process_timer_queue_done, wait_timeout, callback_return
<1>5. sleep' \in 0..Forever
  BY <1>1, SleepTimeBound, ModulusAssumption DEF TypeOK, QuietStep, furi_event_loop_run,
     begin_wait, wait_event, wait_timer, process_timer_queue_done, wait_timeout,
     process_tick, callback_return, Forever
<1>6. TypeOK'
  BY <1>1, <1>2, <1>4, <1>5 DEF TypeOK, QuietStep, furi_event_loop_run, begin_wait,
     wait_event, wait_timer, process_timer_queue_done, wait_timeout, process_tick,
     callback_return, ClientPCs
<1>7. RequestsNoticed'
  BY <1>1, <1>2 DEF TypeOK, RequestsNoticed, QuietStep, furi_event_loop_run, begin_wait,
     wait_event, wait_timer, process_timer_queue_done, wait_timeout, TimedOut,
     process_tick, callback_return
<1>8. NoOversleep'
  <2>1. CASE begin_wait
    BY <1>1, <1>2, <2>1, SleepTimeBound DEF NoOversleep, begin_wait, RequestsNoticed
  <2>2. CASE pc' # "wait"
    BY <2>2 DEF NoOversleep
  <2> QED
    BY <2>1, <2>2 DEF QuietStep, furi_event_loop_run, wait_event, wait_timer,
       process_timer_queue_done, wait_timeout, process_tick, callback_return
<1> QED
  BY <1>3, <1>6, <1>7, <1>8 DEF TimerInv, TimersInv

-----------------------------------------------------------------------------
(* Time passes                                                             *)

LEMMA TickDue ==
    ASSUME TypeOK, tick_count_increment, NEW t \in Timers
    PROVE  /\ due'[t] = IF timer[t].active /\ due[t] > -MaxLate THEN due[t] - 1 ELSE due[t]
           /\ due[t] \in Int /\ due'[t] \in (-MaxLate)..(Modulus - 1)
           /\ due[t] \in (-MaxLate)..(Modulus - 1)
  BY MaxLateAssumption, ModulusAssumption DEF TypeOK, tick_count_increment

(* A timer at the bound of lateness stays there only when it has no         *)
(* interval; then it was due before and still is.                           *)
LEMMA TickLeft ==
    ASSUME TypeOK, DueElapsed, tick_count_increment, NEW t \in Timers, timer[t].active
    PROVE  due'[t] = due[t] - 1 \/ (due'[t] = due[t] /\ due[t] <= 0)
<1>1. due[t] \in Int /\ timer[t].interval \in Nat
  BY IntervalBounds, TickDue DEF TypeOK, TimerRecords
<1>2. timer[t].interval > 0 => due[t] > -MaxLate
  BY DEF tick_count_increment
<1> QED
  BY <1>1, <1>2, TickDue DEF DueElapsed

LEMMA TickDueElapsed ==
    ASSUME TypeOK, DueElapsed, tick_count_increment
    PROVE  DueElapsed'
<1>1. timer' = timer
  BY DEF tick_count_increment
<1>2. SUFFICES ASSUME NEW t \in Timers, timer'[t].active
               PROVE  IF timer'[t].interval = 0 THEN due'[t] <= 0
                      ELSE due'[t] = timer'[t].interval - Elapsed(timer[t].start_time)'
  BY DEF DueElapsed
<1>3. /\ due[t] \in Int /\ timer[t].interval \in Nat /\ timer[t].start_time \in Times
      /\ timer[t].interval + MaxLate < Modulus /\ now \in Times /\ timer[t].active
  BY <1>1, <1>2, IntervalBounds, TickDue DEF TypeOK, TimerRecords
<1>4. CASE timer[t].interval = 0
  BY <1>1, <1>3, <1>4, TickLeft DEF DueElapsed
<1>5. CASE timer[t].interval > 0
  <2> DEFINE e == (now - timer[t].start_time) % Modulus
  <2>1. due[t] > -MaxLate
    BY <1>3, <1>5 DEF tick_count_increment
  <2>2. due[t] = timer[t].interval - e /\ e \in Times
    BY <1>3, <1>5, ElapsedValue DEF DueElapsed, Elapsed
  <2>3. e # Modulus - 1
    BY <1>3, <2>1, <2>2, MaxLateAssumption, ModulusAssumption DEF Times
  <2>4. (now' - timer[t].start_time) % Modulus = e + 1
    BY <1>3, <2>3, ElapsedTick DEF tick_count_increment
  <2> HIDE DEF e
  <2>5. Elapsed(timer[t].start_time)' = e + 1
    BY <1>1, <2>4 DEF Elapsed
  <2>6. due'[t] = due[t] - 1
    BY <1>3, <2>1, TickDue
  <2>7. due'[t] = timer[t].interval - (e + 1)
    BY <1>3, <2>2, <2>6, ModulusAssumption DEF Times
  <2>8. timer'[t].interval # 0 /\ timer'[t].interval = timer[t].interval
    BY <1>1, <1>5
  <2> QED
    BY <2>5, <2>7, <2>8
<1> QED
  BY <1>3, <1>4, <1>5

LEMMA TickKeeps ==
    TimerInv /\ tick_count_increment => TimerInv'
<1> SUFFICES ASSUME TimerInv, tick_count_increment PROVE TimerInv'
  OBVIOUS
<1>1. TypeOK /\ TimersAccounted /\ DueElapsed /\ ExpiryOrder /\ NoOversleep
  BY DEF TimerInv
<1>2. UNCHANGED <<timer, timer_list, timer_queue, notified, prev_time, pc>>
  BY DEF tick_count_increment
<1>3. TypeOK'
  <2>1. now' \in Times
    BY <1>1, NextTime DEF TypeOK, tick_count_increment
  <2>2. sleep' \in 0..Forever
    BY <1>1, ModulusAssumption DEF TypeOK, tick_count_increment, Aged, Forever
  <2>3. due' \in [Timers -> (-MaxLate)..(Modulus - 1)]
    <3>1. \A t \in Timers : due'[t] \in (-MaxLate)..(Modulus - 1)
      BY <1>1, TickDue
    <3> QED
      BY <3>1 DEF tick_count_increment
  <2> QED
    BY <1>1, <1>2, <2>1, <2>2, <2>3 DEF TypeOK
<1>4. TimersAccounted' /\ FreeTimersIdle' /\ RequestsNoticed'
  BY <1>2 DEF TimerInv, TimersAccounted, FreeTimersIdle, RequestsNoticed, InSeq
<1>5. DueElapsed'
  BY <1>1, TickDueElapsed
<1>6. ExpiryOrder'
  <2>1. SUFFICES ASSUME NEW j \in DOMAIN timer_list, NEW k \in DOMAIN timer_list, j < k
                 PROVE  due'[timer_list[j]] <= due'[timer_list[k]] \/ due'[timer_list[j]] <= 0
    BY <1>2 DEF ExpiryOrder
  <2> DEFINE a == timer_list[j]
             b == timer_list[k]
  <2>2. a \in Timers /\ b \in Timers
    BY <1>1 DEF TypeOK
  <2>3. timer[a].active /\ timer[b].active
    BY <1>1, <2>2 DEF TimersAccounted, InSeq
  <2>4. due[a] <= due[b] \/ due[a] <= 0
    BY <1>1, <2>1 DEF ExpiryOrder
  <2>5. /\ due'[a] = due[a] - 1 \/ (due'[a] = due[a] /\ due[a] <= 0)
        /\ due'[b] = due[b] - 1 \/ (due'[b] = due[b] /\ due[b] <= 0)
        /\ due[a] \in Int /\ due[b] \in Int
    BY <1>1, <2>2, <2>3, TickLeft, TickDue
  <2> HIDE DEF a, b
  <2>6. due'[a] <= due'[b] \/ due'[a] <= 0
    BY <2>4, <2>5
  <2> QED
    BY <2>6 DEF a, b
<1>7. NoOversleep'
  <2>1. SUFFICES ASSUME pc = "wait"
                 PROVE  /\ \A t \in Timers : timer[t].active =>
                              sleep' <= (IF due'[t] > 0 THEN due'[t] ELSE 0) \/ notified
                        /\ timer_queue # <<>> => notified
    BY <1>2 DEF NoOversleep
  <2>2. ASSUME NEW t \in Timers, timer[t].active, ~notified
        PROVE  sleep' <= (IF due'[t] > 0 THEN due'[t] ELSE 0)
    <3>1. /\ due'[t] = due[t] - 1 \/ (due'[t] = due[t] /\ due[t] <= 0)
          /\ due[t] \in Int /\ due[t] <= Modulus - 1
      BY <1>1, <2>2, TickLeft, TickDue, ModulusAssumption, MaxLateAssumption
    <3>2. sleep <= (IF due[t] > 0 THEN due[t] ELSE 0)
      BY <1>1, <2>1, <2>2 DEF NoOversleep
    <3>3. sleep \in Nat /\ sleep' = IF sleep = Modulus \/ sleep = 0 THEN sleep ELSE sleep - 1
      BY <1>1, <2>1, ModulusAssumption DEF TypeOK, tick_count_increment, Aged, Forever
    <3> QED
      BY <3>1, <3>2, <3>3, ModulusAssumption
  <2> QED
    BY <1>1, <2>1, <2>2 DEF NoOversleep
<1> QED
  BY <1>3, <1>4, <1>5, <1>6, <1>7 DEF TimerInv

-----------------------------------------------------------------------------
(* The public timer functions                                              *)

LEMMA UnlinkedProperties ==
    ASSUME NEW s \in Seq(Timers), NoRepeats(s), NEW t
    PROVE  /\ Unlinked(s, t) \in Seq(Timers)
           /\ NoRepeats(Unlinked(s, t))
           /\ \A x : InSeq(Unlinked(s, t), x) <=> InSeq(s, x) /\ x # t
           /\ \A d : OrderedBy(s, d) => OrderedBy(Unlinked(s, t), d)
<1>1. CASE InSeq(s, t)
  <2>1. PICK at \in 1..Len(s) : s[at] = t /\ IsWithout(Unlinked(s, t), s, at)
    BY <1>1, UnlinkedIsWithout
  <2> QED
    BY <2>1, WithoutProperties
<1>2. CASE ~InSeq(s, t)
  <2>1. Unlinked(s, t) = s
    BY <1>2 DEF Unlinked
  <2> QED
    BY <1>2, <2>1
<1> QED
  BY <1>1, <1>2

LEMMA AllocKeeps ==
    ASSUME TimerInv, NEW t \in Timers, NEW periodic \in BOOLEAN,
           furi_event_loop_timer_alloc(t, periodic)
    PROVE  TimerInv'
<1> DEFINE r == [Freed EXCEPT !.allocated = TRUE, !.periodic = periodic]
<1>1. TypeOK /\ TimersAccounted /\ FreeTimersIdle /\ DueElapsed
  BY DEF TimerInv
<1>2. /\ r \in TimerRecords /\ r.allocated /\ ~r.active /\ r.request = "None"
  <2>1. Freed \in TimerRecords
    BY FreedType
  <2>2. ~Freed.active /\ Freed.request = "None"
    BY DEF Freed
  <2> QED
    BY <2>1, <2>2 DEF TimerRecords
<1> HIDE DEF r
<1>3. /\ timer' = [timer EXCEPT ![t] = r] /\ ~timer[t].active /\ timer[t].request = "None"
      /\ UNCHANGED <<now, timer_list, timer_queue, notified, prev_time, sleep, pc, due>>
      /\ pc \in ClientPCs
  BY <1>1 DEF furi_event_loop_timer_alloc, FreeTimersIdle, r
<1>4. timer'[t] = r /\ \A x \in Timers : x # t => timer'[x] = timer[x]
  BY <1>1, <1>3 DEF TypeOK
<1>5. timer' \in [Timers -> TimerRecords]
  BY <1>1, <1>2, <1>3 DEF TypeOK
<1>6. TypeOK'
  BY <1>1, <1>3, <1>5 DEF TypeOK
<1>7. TimersAccounted'
  <2>1. ASSUME NEW x \in Timers
        PROVE  /\ InSeq(timer_list, x) <=> timer'[x].active
               /\ InSeq(timer_queue, x) <=> timer'[x].request # "None"
    BY <1>1, <1>2, <1>3, <1>4 DEF TimersAccounted
  <2> QED
    BY <1>1, <1>3, <2>1 DEF TimersAccounted, InSeq
<1>8. FreeTimersIdle'
  BY <1>1, <1>2, <1>4 DEF FreeTimersIdle
<1>9. DueElapsed'
  BY <1>1, <1>2, <1>3, <1>4 DEF DueElapsed, Elapsed
<1>10. ExpiryOrder' /\ RequestsNoticed' /\ NoOversleep'
  BY <1>3 DEF TimerInv, ExpiryOrder, RequestsNoticed, NoOversleep, ClientPCs
<1> QED
  BY <1>6, <1>7, <1>8, <1>9, <1>10 DEF TimerInv

LEMMA EnqueueKeeps ==
    ASSUME TimerInv, NEW t \in Timers, NEW request \in {"Start", "Stop", "Free"},
           NEW next_interval \in Intervals \cup {0},
           EnqueueRequest(t, request, next_interval)
    PROVE  TimerInv'
<1> DEFINE r == [timer[t] EXCEPT !.request = request, !.next_interval = next_interval]
<1>1. TypeOK /\ TimersAccounted /\ FreeTimersIdle /\ DueElapsed
  BY DEF TimerInv
<1>2. /\ r \in TimerRecords /\ r.allocated /\ r.request # "None"
      /\ r.active = timer[t].active /\ r.interval = timer[t].interval
      /\ r.start_time = timer[t].start_time
  BY <1>1 DEF TypeOK, TimerRecords, Requests, EnqueueRequest
<1>3. /\ timer' = [timer EXCEPT ![t] = r] /\ timer_queue' = Queued(t) /\ notified' = TRUE
      /\ UNCHANGED <<now, timer_list, prev_time, sleep, pc, due>> /\ pc \in ClientPCs
  BY DEF EnqueueRequest
<1> HIDE DEF r
<1>4. timer'[t] = r /\ \A x \in Timers : x # t => timer'[x] = timer[x]
  BY <1>1, <1>3 DEF TypeOK
<1>5. timer' \in [Timers -> TimerRecords]
  BY <1>1, <1>2, <1>3 DEF TypeOK
<1>6. /\ timer_queue' \in Seq(Timers) /\ NoRepeats(timer_queue')
      /\ \A x : InSeq(timer_queue', x) <=> InSeq(timer_queue, x) \/ x = t
  <2> DEFINE u == Unlinked(timer_queue, t)
  <2>1. timer_queue \in Seq(Timers) /\ NoRepeats(timer_queue)
    BY <1>1 DEF TypeOK, TimersAccounted, NoRepeats
  <2>2. /\ u \in Seq(Timers) /\ NoRepeats(u)
        /\ \A x : InSeq(u, x) <=> InSeq(timer_queue, x) /\ x # t
    BY <2>1, UnlinkedProperties
  <2>3. timer_queue' = Append(u, t)
    BY <1>3 DEF Queued
  <2> HIDE DEF u
  <2>4. Len(u) \in 0..Len(u) /\ IsWith(Append(u, t), u, t, Len(u))
    BY <2>2, AppendIsWith
  <2>5. /\ Append(u, t) \in Seq(Timers) /\ NoRepeats(Append(u, t))
        /\ \A x : InSeq(Append(u, t), x) <=> InSeq(u, x) \/ x = t
    BY <2>2, <2>4, WithProperties
  <2> QED
    BY <2>2, <2>3, <2>5
<1>7. TypeOK'
  BY <1>1, <1>3, <1>5, <1>6 DEF TypeOK
<1>8. TimersAccounted'
  <2>1. ASSUME NEW x \in Timers
        PROVE  /\ InSeq(timer_list, x) <=> timer'[x].active
               /\ InSeq(timer_queue', x) <=> timer'[x].request # "None"
    BY <1>1, <1>2, <1>4, <1>6 DEF TimersAccounted
  <2>2. NoRepeats(timer_queue')
    BY <1>6
  <2> QED
    BY <1>1, <1>3, <2>1, <2>2 DEF TimersAccounted, InSeq, NoRepeats
<1>9. FreeTimersIdle'
  BY <1>1, <1>2, <1>4 DEF FreeTimersIdle
<1>10. DueElapsed'
  BY <1>1, <1>2, <1>3, <1>4 DEF DueElapsed, Elapsed
<1>11. ExpiryOrder' /\ RequestsNoticed' /\ NoOversleep'
  BY <1>3 DEF TimerInv, ExpiryOrder, RequestsNoticed, NoOversleep, ClientPCs
<1> QED
  BY <1>7, <1>8, <1>9, <1>10, <1>11 DEF TimerInv

LEMMA ClientStepKeeps ==
    TimerInv /\ ClientStep => TimerInv'
<1> SUFFICES ASSUME TimerInv, ClientStep PROVE TimerInv'
  OBVIOUS
<1>1. PICK t \in Timers :
        \/ \E periodic \in BOOLEAN : furi_event_loop_timer_alloc(t, periodic)
        \/ \E interval \in Intervals : furi_event_loop_timer_start(t, interval)
        \/ furi_event_loop_timer_restart(t)
        \/ furi_event_loop_timer_stop(t)
        \/ furi_event_loop_timer_free(t)
  BY DEF ClientStep
<1>2. timer[t].interval \in Intervals \cup {0}
  BY DEF TimerInv, TypeOK, TimerRecords
<1>3. CASE \E periodic \in BOOLEAN : furi_event_loop_timer_alloc(t, periodic)
  BY <1>3, AllocKeeps
<1>4. CASE \E interval \in Intervals : furi_event_loop_timer_start(t, interval)
  BY <1>4, EnqueueKeeps DEF furi_event_loop_timer_start
<1>5. CASE furi_event_loop_timer_restart(t)
  BY <1>2, <1>5, EnqueueKeeps DEF furi_event_loop_timer_restart
<1>6. CASE furi_event_loop_timer_stop(t)
  BY <1>6, EnqueueKeeps DEF furi_event_loop_timer_stop
<1>7. CASE furi_event_loop_timer_free(t)
  BY <1>7, EnqueueKeeps DEF furi_event_loop_timer_free
<1> QED
  BY <1>1, <1>3, <1>4, <1>5, <1>6, <1>7

-----------------------------------------------------------------------------
(* The loop changes one timer                                              *)

(* What is left of a timer with this record, as in DueElapsed.             *)
DueFits(r, n) ==
    r.active => IF r.interval = 0 THEN n <= 0 ELSE n = r.interval - Elapsed(r.start_time)

LEMMA OneTimerChanged ==
    ASSUME TypeOK, TimersInv, NEW t \in Timers, NEW r \in TimerRecords,
           NEW n \in (-MaxLate)..(Modulus - 1),
           r.allocated \/ (~r.active /\ r.request = "None"), DueFits(r, n),
           timer' = [timer EXCEPT ![t] = r], due' = [due EXCEPT ![t] = n], now' = now,
           timer_list' \in Seq(Timers), NoRepeats(timer_list'), OrderedBy(timer_list', due'),
           \A x \in Timers : InSeq(timer_list', x) <=>
                                IF x = t THEN r.active ELSE InSeq(timer_list, x),
           timer_queue' \in Seq(Timers), NoRepeats(timer_queue'),
           \A x \in Timers : InSeq(timer_queue', x) <=>
                                IF x = t THEN r.request # "None" ELSE InSeq(timer_queue, x),
           UNCHANGED <<prev_time, sleep>>, notified' = notified,
           pc' \in {"queue", "callback"}
    PROVE  TypeOK' /\ TimersInv'
<1>1. /\ timer'[t] = r /\ due'[t] = n
      /\ \A x \in Timers : x # t => timer'[x] = timer[x] /\ due'[x] = due[x]
  BY DEF TypeOK
<1>2. TypeOK'
  <2>1. timer' \in [Timers -> TimerRecords] /\ due' \in [Timers -> (-MaxLate)..(Modulus - 1)]
    BY DEF TypeOK
  <2> QED
    BY <2>1 DEF TypeOK, ClientPCs
<1>3. TimersAccounted'
  <2>1. ASSUME NEW x \in Timers
        PROVE  /\ InSeq(timer_list', x) <=> timer'[x].active
               /\ InSeq(timer_queue', x) <=> timer'[x].request # "None"
    BY <1>1 DEF TimersInv, TimersAccounted
  <2> QED
    BY <2>1 DEF TimersAccounted, InSeq, NoRepeats
<1>4. FreeTimersIdle'
  BY <1>1 DEF TimersInv, FreeTimersIdle
<1>5. DueElapsed'
  BY <1>1 DEF TimersInv, DueElapsed, DueFits, Elapsed
<1>6. ExpiryOrder'
  BY DEF OrderedBy, ExpiryOrder
<1> QED
  BY <1>2, <1>3, <1>4, <1>5, <1>6 DEF TimersInv

LEMMA StartedNow ==
    ASSUME TypeOK, NEW r \in TimerRecords, r.start_time = now
    PROVE  /\ RemainingOf(r) = r.interval
           /\ DueFits(r, r.interval)
           /\ r.interval \in (-MaxLate)..(Modulus - 1) /\ r.interval \in Nat
<1>1. now \in Times /\ r.interval \in Intervals \cup {0, TickInterval}
  BY DEF TypeOK, TimerRecords
<1>2. Elapsed(r.start_time) = 0
  BY <1>1, ElapsedValue, ModulusAssumption DEF Elapsed, Times
<1>3. r.interval \in Nat /\ r.interval < Modulus
  BY <1>1, IntervalBounds, MaxLateAssumption, ModulusAssumption
<1> QED
  BY <1>2, <1>3, MaxLateAssumption, ModulusAssumption DEF RemainingOf, Remaining, DueFits

LEMMA InactiveType ==
    ASSUME NEW t, timer[t] \in TimerRecords
    PROVE  /\ Inactive(t) \in TimerRecords /\ ~Inactive(t).active
           /\ Inactive(t).request = timer[t].request
           /\ Inactive(t).allocated = timer[t].allocated
<1>1. 0 \in Times
  BY ModulusAssumption DEF Times
<1> QED
  BY <1>1 DEF Inactive, TimerRecords

LEMMA QueueTurnKeeps ==
    TimerInv /\ process_timer_queue => TimerInv'
<1> SUFFICES ASSUME TimerInv, process_timer_queue PROVE TimerInv'
  OBVIOUS
<1> DEFINE t == Head(timer_queue)
           list == Processed(t)
<1>1. TypeOK /\ TimersInv
  BY DEF TimerInv, TimersInv
<1>2. /\ pc = "queue" /\ timer_queue # <<>> /\ timer_queue' = Tail(timer_queue)
      /\ now' = now /\ notified' = notified /\ UNCHANGED <<prev_time, sleep>> /\ pc' = pc
  BY DEF process_timer_queue
<1>3. t \in Timers /\ timer[t] \in TimerRecords /\ timer[t].request # "None"
  <2>1. t \in Timers /\ InSeq(timer_queue, t)
    BY <1>1, <1>2, TailIsWithout DEF TypeOK, InSeq
  <2> QED
    BY <1>1, <2>1 DEF TypeOK, TimersInv, TimersAccounted
<1>4. timer[t].allocated
  BY <1>1, <1>3 DEF TimersInv, FreeTimersIdle
<1>5. /\ timer_queue' \in Seq(Timers) /\ NoRepeats(timer_queue')
      /\ \A x : InSeq(timer_queue', x) <=> InSeq(timer_queue, x) /\ x # t
  <2>1. timer_queue \in Seq(Timers) /\ NoRepeats(timer_queue)
    BY <1>1 DEF TypeOK, TimersInv, TimersAccounted, NoRepeats
  <2>2. 1 \in 1..Len(timer_queue) /\ t = timer_queue[1] /\ IsWithout(timer_queue', timer_queue, 1)
    BY <1>2, <2>1, TailIsWithout
  <2> QED
    BY <2>1, <2>2, WithoutProperties
<1>6. /\ list \in Seq(Timers) /\ NoRepeats(list) /\ OrderedBy(list, due)
      /\ \A x \in Timers : InSeq(list, x) <=> InSeq(timer_list, x) /\ x # t
  <2>1. timer_list \in Seq(Timers) /\ NoRepeats(timer_list) /\ OrderedBy(timer_list, due)
    BY <1>1 DEF TypeOK, TimersInv, TimersAccounted, NoRepeats, ExpiryOrder, OrderedBy
  <2>2. timer[t].active \/ ~InSeq(timer_list, t)
    BY <1>1, <1>3 DEF TimersInv, TimersAccounted
  <2> QED
    BY <2>1, <2>2, UnlinkedProperties DEF Processed
<1>7. ~InSeq(list, t) /\ \A x \in Timers : InSeq(list, x) => timer[x].active
  BY <1>1, <1>3, <1>6 DEF TimersInv, TimersAccounted
<1> DEFINE n == timer[t].next_interval
           idle == [Inactive(t) EXCEPT !.request = "None"]
<1>8. CASE /\ timer' = [timer EXCEPT ![t] = Started(t)]
           /\ timer_list' = Scheduled(list, t, Started(t))
           /\ due' = [due EXCEPT ![t] = n]
  <2> DEFINE r == Started(t)
  <2>1. /\ r \in TimerRecords /\ r.active /\ r.request = "None" /\ r.allocated
        /\ r.start_time = now /\ r.interval = n
    BY <1>1, <1>3, <1>4 DEF TypeOK, Started, TimerRecords, Requests
  <2> HIDE DEF r, n, t, list
  <2>2. /\ RemainingOf(r) = n /\ DueFits(r, n) /\ n \in (-MaxLate)..(Modulus - 1) /\ n \in Nat
    BY <1>1, <2>1, StartedNow
  <2>3. \A x \in Timers : due'[x] \in Int /\ (x # t => due'[x] = due[x]) /\ due'[t] = n
    BY <1>1, <1>3, <1>8, <2>2, MaxLateAssumption, ModulusAssumption DEF TypeOK
  <2>4. /\ timer_list' \in Seq(Timers) /\ NoRepeats(timer_list')
        /\ \A x : InSeq(timer_list', x) <=> InSeq(list, x) \/ x = t
        /\ OrderedBy(timer_list', due')
    <3>1. RemainingOf(r) = (IF due'[t] > 0 THEN due'[t] ELSE 0)
      BY <1>3, <2>2, <2>3
    <3>2. DueElapsed
      BY <1>1 DEF TimersInv
    <3>3. timer_list' = Scheduled(list, t, r)
      BY <1>8 DEF r
    <3>4. PICK d : d = due'
      OBVIOUS
    <3>5. \A x \in Timers : d[x] \in Int /\ (x # t => d[x] = due[x])
      BY <2>3, <3>4
    <3>6. RemainingOf(r) = (IF d[t] > 0 THEN d[t] ELSE 0)
      BY <3>1, <3>4
    <3>7. /\ Scheduled(list, t, r) \in Seq(Timers) /\ NoRepeats(Scheduled(list, t, r))
          /\ \A x : InSeq(Scheduled(list, t, r), x) <=> InSeq(list, x) \/ x = t
          /\ OrderedBy(Scheduled(list, t, r), d)
      BY <1>1, <1>3, <1>6, <1>7, <2>1, <3>2, <3>5, <3>6, ScheduledOrdered
    <3> QED
      BY <3>3, <3>4, <3>7
  <2>5. \A x \in Timers : InSeq(timer_list', x) <=>
                             IF x = t THEN r.active ELSE InSeq(timer_list, x)
    BY <1>6, <2>1, <2>4
  <2>6. \A x \in Timers : InSeq(timer_queue', x) <=>
                             IF x = t THEN r.request # "None" ELSE InSeq(timer_queue, x)
    BY <1>5, <2>1
  <2>7. TypeOK' /\ TimersInv'
    BY <1>1, <1>2, <1>3, <1>5, <1>8, <2>1, <2>2, <2>4, <2>5, <2>6, OneTimerChanged DEF r
  <2> QED
    BY <1>2, <2>7 DEF TimerInv, TimersInv, RequestsNoticed, NoOversleep
<1>9. ASSUME NEW r \in {idle, Freed},
             timer' = [timer EXCEPT ![t] = r], timer_list' = list,
             due' = [due EXCEPT ![t] = 0]
      PROVE  TimerInv'
  <2>1. r \in TimerRecords /\ ~r.active /\ r.request = "None"
    <3>1. CASE r = idle
      <4>1. Inactive(t) \in TimerRecords /\ ~Inactive(t).active
        BY <1>3, InactiveType
      <4> QED
        BY <3>1, <4>1 DEF TimerRecords, Requests
    <3>2. CASE r = Freed
      BY <3>2, FreedType DEF Freed
    <3> QED
      BY <1>9, <3>1, <3>2
  <2> HIDE DEF t, list
  <2>2. DueFits(r, 0) /\ 0 \in (-MaxLate)..(Modulus - 1)
    BY <2>1, MaxLateAssumption, ModulusAssumption DEF DueFits
  <2>3. OrderedBy(timer_list', due')
    <3>1. \A k \in DOMAIN list : list[k] \in Timers /\ list[k] # t
      BY <1>6, <1>7 DEF InSeq
    <3>2. \A x \in Timers : x # t => due'[x] = due[x]
      BY <1>1, <1>9 DEF TypeOK
    <3> QED
      BY <1>6, <1>9, <3>1, <3>2 DEF OrderedBy
  <2>4. \A x \in Timers : InSeq(timer_list', x) <=>
                             IF x = t THEN r.active ELSE InSeq(timer_list, x)
    BY <1>6, <1>9, <2>1
  <2>5. \A x \in Timers : InSeq(timer_queue', x) <=>
                             IF x = t THEN r.request # "None" ELSE InSeq(timer_queue, x)
    BY <1>5, <2>1
  <2>6. TypeOK' /\ TimersInv'
    BY <1>1, <1>2, <1>3, <1>5, <1>6, <1>9, <2>1, <2>2, <2>3, <2>4, <2>5, OneTimerChanged
  <2> QED
    BY <1>2, <2>6 DEF TimerInv, TimersInv, RequestsNoticed, NoOversleep
<1> QED
  BY <1>8, <1>9 DEF process_timer_queue

-----------------------------------------------------------------------------
(* A timer expires                                                         *)

AdvancedBy(t) == timer[t].interval * Quotient(Elapsed(timer[t].start_time), timer[t].interval)

(* Setting a periodic timer on by the whole intervals that have passed      *)
(* leaves it with the rest, in the count and in real time alike.            *)
LEMMA PeriodicAdvanced ==
    ASSUME TypeOK, DueElapsed, NEW t \in Timers, timer[t].active, ExpiredTimer(t),
           NEW next, next = [timer[t] EXCEPT !.start_time = NextStart(timer[t])],
           NEW n, n = due[t] + timer[t].interval *
                       Quotient(timer[t].interval - due[t], timer[t].interval)
    PROVE  /\ next \in TimerRecords /\ DueFits(next, n)
           /\ n \in (-MaxLate)..(Modulus - 1)
           /\ RemainingOf(next) = (IF n > 0 THEN n ELSE 0)
<1> DEFINE i == timer[t].interval
           start == timer[t].start_time
           e == Elapsed(start)
           by == AdvancedBy(t)
<1>1. /\ now \in Times /\ start \in Times /\ i \in Nat /\ i < Modulus
      /\ due[t] \in (-MaxLate)..(Modulus - 1) /\ due[t] \in Int
  BY IntervalBounds, MaxLateAssumption, ModulusAssumption DEF TypeOK, TimerRecords
<1>2. e \in Nat /\ e >= i
  BY <1>1, ElapsedValue, ModulusAssumption DEF ExpiredTimer, Expired, Elapsed, Times
<1>3. /\ by \in Nat /\ by <= e
      /\ i > 0 => e < by + i
      /\ i = 0 => by = 0
  <2>1. CASE i = 0
    BY <1>2, <2>1 DEF AdvancedBy, Quotient
  <2>2. CASE i > 0
    <3>1. by = i * (e \div i)
      BY <2>2 DEF AdvancedBy, Quotient
    <3> HIDE DEF by, e, i
    <3>2. e \in Nat /\ i \in Nat \ {0}
      BY <1>1, <1>2, <2>2
    <3>3. i * (e \div i) \in Nat /\ i * (e \div i) <= e /\ e < i * (e \div i) + i
      BY <3>2, QuotientBounds
    <3> QED
      BY <2>2, <3>1, <3>3
  <2> QED
    BY <1>1, <2>1, <2>2
<1>4. n = due[t] + by
  <2>1. CASE i = 0
    BY <1>1, <1>3, <2>1 DEF Quotient
  <2>2. CASE i > 0
    <3>1. due[t] = i - e
      BY <2>2 DEF DueElapsed
    <3>2. i - due[t] = e
      BY <1>1, <1>2, <3>1
    <3> QED
      BY <3>2 DEF AdvancedBy
  <2> QED
    BY <1>1, <2>1, <2>2
<1>5. /\ NextStart(timer[t]) = (start + by) % Modulus
      /\ (start + by) % Modulus \in Times
      /\ (now - ((start + by) % Modulus)) % Modulus = e - by
  <2>1. NextStart(timer[t]) = (start + by) % Modulus
    BY DEF NextStart, AdvancedBy
  <2> HIDE DEF by
  <2>2. by <= (now - start) % Modulus
    BY <1>3 DEF Elapsed
  <2>3. e = (now - start) % Modulus
    BY DEF Elapsed
  <2> QED
    BY <1>1, <1>3, <2>1, <2>2, <2>3, ElapsedAdvanced
<1> HIDE DEF by
<1>6. /\ next \in TimerRecords /\ next.interval = i /\ next.active
      /\ next.start_time = (start + by) % Modulus
  BY <1>5 DEF TypeOK, TimerRecords
<1> HIDE DEF e, i, start
<1>7. Elapsed(next.start_time) = e - by
  <2> DEFINE later == (start + by) % Modulus
  <2>1. next.start_time = later
    BY <1>6
  <2>2. (now - later) % Modulus = e - by
    BY <1>5
  <2> HIDE DEF later
  <2> QED
    BY <2>1, <2>2 DEF Elapsed
<1>8. i > 0 => due[t] = i - e
  BY DEF DueElapsed, e, i, start
<1>9. i = 0 => due[t] <= 0
  BY DEF DueElapsed, i
<1>10. DueFits(next, n)
  <2>1. CASE i = 0
    BY <1>1, <1>3, <1>4, <1>6, <1>9, <2>1 DEF DueFits
  <2>2. CASE i > 0
    <3>1. n = i - (e - by)
      BY <1>1, <1>2, <1>3, <1>4, <1>8, <2>2
    <3>2. next.interval # 0
      BY <1>6, <2>2
    <3> QED
      BY <1>6, <1>7, <3>1, <3>2 DEF DueFits
  <2> QED
    BY <1>1, <2>1, <2>2
<1>11. n \in (-MaxLate)..(Modulus - 1)
  BY <1>1, <1>2, <1>3, <1>4, <1>8, MaxLateAssumption, ModulusAssumption
<1>12. RemainingOf(next) = (IF n > 0 THEN n ELSE 0)
  <2>1. RemainingOf(next) = IF e - by < i THEN i - (e - by) ELSE 0
    BY <1>6, <1>7 DEF RemainingOf, Remaining
  <2> QED
    BY <1>1, <1>2, <1>3, <1>4, <1>8, <1>9, <2>1
<1> QED
  BY <1>6, <1>10, <1>11, <1>12

LEMMA ExpiryKeeps ==
    TimerInv /\ process_expired_timers => TimerInv'
<1> SUFFICES ASSUME TimerInv, process_expired_timers PROVE TimerInv'
  OBVIOUS
<1> DEFINE t == Head(timer_list)
           list == Tail(timer_list)
<1>1. TypeOK /\ TimersInv /\ DueElapsed
  BY DEF TimerInv, TimersInv
<1>2. /\ pc = "expired" /\ timer_list # <<>> /\ ExpiredTimer(t) /\ pc' = "callback"
      /\ UNCHANGED <<now, timer_queue, notified, prev_time, sleep>>
  BY DEF process_expired_timers, HeadExpired
<1>3. timer_list \in Seq(Timers) /\ NoRepeats(timer_list) /\ OrderedBy(timer_list, due)
  BY <1>1 DEF TypeOK, TimersInv, TimersAccounted, NoRepeats, ExpiryOrder, OrderedBy
<1>4. /\ t \in Timers /\ t = timer_list[1] /\ 1 \in 1..Len(timer_list)
      /\ IsWithout(list, timer_list, 1)
  BY <1>2, <1>3, TailIsWithout
<1>5. /\ list \in Seq(Timers) /\ NoRepeats(list) /\ OrderedBy(list, due)
      /\ \A x : InSeq(list, x) <=> InSeq(timer_list, x) /\ x # t
  BY <1>3, <1>4, WithoutProperties
<1>6. timer[t] \in TimerRecords /\ timer[t].active /\ timer[t].allocated
  <2>1. InSeq(timer_list, t)
    BY <1>4 DEF InSeq
  <2> QED
    BY <1>1, <1>4, <2>1 DEF TypeOK, TimersInv, TimersAccounted, FreeTimersIdle
<1>7. timer_queue = <<>> /\ timer[t].request = "None"
  <2>1. timer_queue = <<>>
    BY <1>2 DEF TimerInv, RequestsNoticed
  <2> QED
    BY <1>1, <1>4, <2>1 DEF TimersInv, TimersAccounted, InSeq
<1>8. ~InSeq(list, t) /\ \A x \in Timers : InSeq(list, x) => timer[x].active
  BY <1>1, <1>5 DEF TimersInv, TimersAccounted
<1> DEFINE next == [timer[t] EXCEPT !.start_time = NextStart(timer[t])]
           n == due[t] + timer[t].interval *
                   Quotient(timer[t].interval - due[t], timer[t].interval)
<1>9. ASSUME NEW r \in TimerRecords, r.request = "None", r.allocated,
             NEW m \in (-MaxLate)..(Modulus - 1), DueFits(r, m),
             timer' = [timer EXCEPT ![t] = r], due' = [due EXCEPT ![t] = m],
             timer_list' \in Seq(Timers), NoRepeats(timer_list'),
             OrderedBy(timer_list', due'),
             \A x : InSeq(timer_list', x) <=> InSeq(list, x) \/ (x = t /\ r.active)
      PROVE  TimerInv'
  <2> HIDE DEF t, list
  <2>1. \A x \in Timers : InSeq(timer_list', x) <=>
                             IF x = t THEN r.active ELSE InSeq(timer_list, x)
    BY <1>5, <1>8, <1>9
  <2>2. /\ timer_queue' \in Seq(Timers) /\ NoRepeats(timer_queue')
        /\ \A x \in Timers : InSeq(timer_queue', x) <=>
                                IF x = t THEN r.request # "None" ELSE InSeq(timer_queue, x)
    BY <1>2, <1>7, <1>9 DEF NoRepeats, InSeq
  <2>3. TypeOK' /\ TimersInv'
    BY <1>1, <1>2, <1>4, <1>9, <2>1, <2>2, OneTimerChanged
  <2> QED
    BY <1>2, <1>7, <2>3 DEF TimerInv, TimersInv, RequestsNoticed, NoOversleep
<1>10. CASE timer[t].periodic
  <2>1. /\ timer' = [timer EXCEPT ![t] = next] /\ due' = [due EXCEPT ![t] = n]
        /\ timer_list' = Scheduled(list, t, next)
    BY <1>1, <1>4, <1>10 DEF process_expired_timers, TypeOK
  <2>2. next.active /\ next.request = "None" /\ next.allocated
    BY <1>6, <1>7 DEF TimerRecords
  <2>3. /\ next \in TimerRecords /\ DueFits(next, n) /\ n \in (-MaxLate)..(Modulus - 1)
        /\ RemainingOf(next) = (IF n > 0 THEN n ELSE 0)
    BY <1>1, <1>2, <1>4, <1>6, PeriodicAdvanced
  <2> HIDE DEF next, n, t, list
  <2>4. PICK d : d = due'
    OBVIOUS
  <2>5. d[t] = n /\ \A x \in Timers : d[x] \in Int /\ (x # t => d[x] = due[x])
    BY <1>1, <1>4, <2>1, <2>3, <2>4, MaxLateAssumption, ModulusAssumption DEF TypeOK
  <2>6. /\ Scheduled(list, t, next) \in Seq(Timers) /\ NoRepeats(Scheduled(list, t, next))
        /\ \A x : InSeq(Scheduled(list, t, next), x) <=> InSeq(list, x) \/ x = t
        /\ OrderedBy(Scheduled(list, t, next), d)
    BY <1>1, <1>4, <1>5, <1>8, <2>3, <2>5, ScheduledOrdered
  <2> QED
    BY <1>9, <2>1, <2>2, <2>3, <2>4, <2>6
<1>11. CASE ~timer[t].periodic
  <2> DEFINE r == Inactive(t)
  <2>1. /\ timer' = [timer EXCEPT ![t] = r] /\ due' = [due EXCEPT ![t] = 0]
        /\ timer_list' = list
    BY <1>11 DEF process_expired_timers
  <2>2. r \in TimerRecords /\ ~r.active /\ r.request = "None" /\ r.allocated
    BY <1>6, <1>7, InactiveType
  <2> HIDE DEF r, t, list
  <2>3. DueFits(r, 0) /\ 0 \in (-MaxLate)..(Modulus - 1)
    BY <2>2, MaxLateAssumption, ModulusAssumption DEF DueFits
  <2>4. OrderedBy(timer_list', due')
    <3>1. \A k \in DOMAIN list : list[k] \in Timers /\ list[k] # t
      BY <1>5, <1>8 DEF InSeq
    <3>2. \A x \in Timers : x # t => due'[x] = due[x]
      BY <1>1, <2>1 DEF TypeOK
    <3> QED
      BY <1>5, <2>1, <3>1, <3>2 DEF OrderedBy
  <2> QED
    BY <1>5, <1>9, <2>1, <2>2, <2>3, <2>4
<1> QED
  BY <1>10, <1>11

-----------------------------------------------------------------------------
(* The theorems                                                            *)

LEMMA TimerInvNext ==
    TimerInv /\ [Next]_vars => TimerInv'
<1> SUFFICES ASSUME TimerInv, [Next]_vars PROVE TimerInv'
  OBVIOUS
<1>1. CASE QuietStep
  BY <1>1, QuietStepKeeps
<1>2. CASE tick_count_increment
  BY <1>2, TickKeeps
<1>3. CASE process_timer_queue
  BY <1>3, QueueTurnKeeps
<1>4. CASE process_expired_timers
  BY <1>4, ExpiryKeeps
<1>5. CASE ClientStep
  BY <1>5, ClientStepKeeps
<1>6. CASE UNCHANGED vars
  BY <1>6 DEF vars, TimerInv, TypeOK, TimersAccounted, FreeTimersIdle, DueElapsed,
     RequestsNoticed, ExpiryOrder, NoOversleep, InSeq, Elapsed
<1> QED
  BY <1>1, <1>2, <1>3, <1>4, <1>5, <1>6 DEF Next, LoopStep, QuietStep

LEMMA TimerInvAlways == Spec => []TimerInv
  BY InitEstablishes, TimerInvNext, PTL DEF Spec

(* Every variable keeps its type; in particular the history of a running    *)
(* timer stays between the lateness allowed and its interval.               *)
THEOREM TimerTypes == Spec => []TypeOK
<1>1. TimerInv => TypeOK
  BY DEF TimerInv
<1> QED
  BY <1>1, TimerInvAlways, PTL

(* A timer is in the list exactly while it runs and in the queue exactly    *)
(* while a request is open, once, and a freed one is in neither: no link of *)
(* the lists of furi_event_loop_timer.c points to freed memory.             *)
THEOREM TimersListedOnce == Spec => []TimersAccounted
<1>1. TimerInv => TimersAccounted
  BY DEF TimerInv
<1> QED
  BY <1>1, TimerInvAlways, PTL

(* furi_event_loop_schedule_timer and the rescheduling of periodic timers   *)
(* keep the list in the order in which its timers really expire.            *)
THEOREM FirstToExpireInFront == Spec => []ExpiryOrder
<1>1. TimerInv => ExpiryOrder
  BY DEF TimerInv
<1> QED
  BY <1>1, TimerInvAlways, PTL

(* The remaining time that the code computes from the wrapping tick count   *)
(* is the real one, for every width of the count that the intervals and the *)
(* lateness fit in.                                                         *)
THEOREM WrapIsSafe == Spec => []WrapSafe
<1>1. TimerInv => WrapSafe
  BY RemainingIsDue DEF TimerInv, WrapSafe
<1> QED
  BY <1>1, TimerInvAlways, PTL

(* The wait that furi_event_loop_run computes ends by the expiry of every   *)
(* running timer, unless a request has already ended it.                    *)
THEOREM WakesInTime == Spec => []NoOversleep
<1>1. TimerInv => NoOversleep
  BY DEF TimerInv
<1> QED
  BY <1>1, TimerInvAlways, PTL

(* furi_event_loop_process_expired_timers fires no timer before it is due   *)
(* and none with an open request: the queue is always processed first.      *)
THEOREM FiresOnlyWhenDue == Spec => NeverEarlyNorStopped
<1>1. TimerInv /\ [Next]_vars =>
        [process_expired_timers =>
            due[Head(timer_list)] <= 0 /\ timer[Head(timer_list)].request = "None"]_vars
  <2> SUFFICES ASSUME TimerInv, process_expired_timers
               PROVE  due[Head(timer_list)] <= 0 /\ timer[Head(timer_list)].request = "None"
    OBVIOUS
  <2> DEFINE t == Head(timer_list)
  <2>1. /\ TypeOK /\ DueElapsed /\ TimersAccounted /\ timer_queue = <<>>
        /\ timer_list # <<>> /\ ExpiredTimer(t)
    BY DEF TimerInv, RequestsNoticed, process_expired_timers, HeadExpired
  <2>2. t \in Timers /\ t = timer_list[1] /\ 1 \in DOMAIN timer_list
    BY <2>1, TailIsWithout DEF TypeOK
  <2>3. timer[t].active /\ timer[t].request = "None"
    BY <2>1, <2>2 DEF TimersAccounted, InSeq
  <2> QED
    BY <2>1, <2>2, <2>3, ExpiredIsDue
<1> QED
  BY <1>1, TimerInvAlways, PTL DEF Spec, NeverEarlyNorStopped
=============================================================================
