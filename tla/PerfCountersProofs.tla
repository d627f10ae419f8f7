-------------------------- MODULE PerfCountersProofs --------------------------
(***************************************************************************)
(* Theorems about PerfCounters for any finite set of threads and any       *)
(* periods that divide one another as the code's static_asserts demand.    *)
(*                                                                         *)
(* Both gates are tests for a multiple, so both results rest on what       *)
(* division leaves.  The log gate: a total grows by whole batches only     *)
(* (WholeBatches), and while it is off a boundary, what was published      *)
(* since the last one is what it is past it (SinceGate).  The sentinel: a  *)
(* thread's counter is the number of its misses up to the counter's width  *)
(* (CounterWraps), whose multiples the width keeps because the sentinel's  *)
(* period divides it.                                                      *)
(*                                                                         *)
(* That no lookup is lost is a second induction (Balance): a step changes  *)
(* what one thread has looked up and what of it is published, taken or     *)
(* reported by the same number, for an exchange finds nothing in the line  *)
(* it writes (LinesTaken).  A sum is the number of its units, so that it   *)
(* can be reasoned about without induction over the threads.               *)
(***************************************************************************)
EXTENDS PerfCounters, Integers, FiniteSetTheorems, TLAPS

Pcs == {"idle", "log", "first", "exchange", "hits", "misses", "ghost", "real", "report", "sentinel"}

Local ==
    [pc : Pcs, tlsHits : 0..(BatchSize - 1), tlsMisses : 0..(CounterModulus - 1),
     sentinel : BOOLEAN, now : 0..MaxTime, prev : 0..MaxTime, line : [Totals -> Nat]]

Types ==
    /\ total \in [Totals -> Nat] /\ reported \in [Totals -> Nat]
    /\ lastLogTime \in 0..MaxTime /\ clock \in 1..MaxTime
    /\ thread \in [Threads -> Local]
    /\ lookups \in [Threads -> [Totals -> Nat]]
    /\ published \in [{"hits", "misses"} -> Nat]

CounterWraps == \A t \in Threads : thread[t].tlsMisses = lookups[t]["misses"] % CounterModulus

\* The flag says that the hook still has its sentinel check before it.
SentinelPending ==
    \A t \in Threads :
        /\ thread[t].pc = "sentinel" => thread[t].sentinel
        /\ thread[t].pc = "idle" => ~thread[t].sentinel

WholeBatches == \A c \in {"hits", "misses"} : total[c] % BatchSize = 0

SinceGate ==
    \A c \in {"hits", "misses"} : total[c] % GatePeriod # 0 => published[c] = total[c] % GatePeriod

IInv ==
    /\ Types /\ CounterWraps /\ SentinelPending /\ SentinelsCounted
    /\ WholeBatches /\ SinceGate /\ GateNeverSkipped

-----------------------------------------------------------------------------
(* Division *)

LEMMA DivMod ==
  ASSUME NEW a \in Nat, NEW s \in Nat \ {0}
  PROVE  a \div s \in Nat /\ a % s \in 0..(s - 1) /\ a = s * (a \div s) + (a % s)
<1>1. a \div s \in Int /\ a % s \in 0..(s - 1)
  OBVIOUS
<1>2. \A b \in Int, n \in Int : n > 0 => b = n * (b \div n) + (b % n)
  BY SMTT(30)
<1>3. a = s * (a \div s) + (a % s)
  BY <1>2
<1>4. a \div s >= 0
  <2> DEFINE q == a \div s
             r == a % s
  <2>1. q \in Int /\ r \in 0..(s - 1) /\ a = s * q + r
    BY <1>1, <1>3
  <2> HIDE DEF q, r
  <2>2. q <= -1 => s * q <= -s
    BY <2>1
  <2>3. q >= 0
    BY <2>1, <2>2
  <2>4. QED
    BY <2>3 DEF q
<1>5. QED
  BY <1>1, <1>3, <1>4

LEMMA SmallMultiple ==
  ASSUME NEW d \in Int, NEW s \in Nat \ {0}, s * d < s, -s < s * d
  PROVE  d = 0
<1>1. CASE d >= 1
  BY <1>1
<1>2. CASE d <= -1
  BY <1>2
<1>3. QED
  BY <1>1, <1>2

LEMMA DivModUnique ==
  ASSUME NEW a \in Nat, NEW s \in Nat \ {0}, NEW q \in Nat, NEW r \in 0..(s - 1), a = s * q + r
  PROVE  a \div s = q /\ a % s = r
<1> DEFINE k == a \div s
           m == a % s
<1>1. k \in Nat /\ m \in 0..(s - 1) /\ s * q + r = s * k + m
  BY DivMod
<1> HIDE DEF k, m
<1>2. s * (q - k) = m - r
  <2>1. s * (q - k) = s * q - s * k
    BY <1>1
  <2>2. QED
    BY <1>1, <2>1
<1>3. q - k = 0
  BY <1>1, <1>2, SmallMultiple
<1>4. QED
  BY <1>1, <1>3 DEF k, m

\* What is counted modulo c is also counted modulo each divisor s of c.
LEMMA ModOfMod ==
  ASSUME NEW a \in Nat, NEW c \in Nat \ {0}, NEW s \in Nat \ {0}, c % s = 0
  PROVE  (a % c) % s = a % s
<1> DEFINE k == c \div s
           q == a \div c
           r == a % c
           j == r \div s
           e == r % s
<1>1. k \in Nat /\ c = s * k
  BY DivMod
<1>2. q \in Nat /\ r \in 0..(c - 1) /\ a = c * q + r
  BY DivMod
<1>3. r \in Nat
  BY <1>2
<1> HIDE DEF q, r, k
<1>4. j \in Nat /\ e \in 0..(s - 1) /\ r = s * j + e
  BY <1>3, DivMod
<1> HIDE DEF j, e
<1>5. a = s * (k * q + j) + e /\ k * q + j \in Nat
  <2>1. (s * k) * q = s * (k * q) /\ k * q \in Nat
    BY <1>1, <1>2
  <2>2. s * (k * q + j) = s * (k * q) + s * j
    BY <1>1, <1>2, <1>4, <2>1
  <2>3. QED
    BY <1>1, <1>2, <1>4, <2>1, <2>2
<1>6. a % s = e
  BY <1>4, <1>5, DivModUnique
<1>7. QED
  BY <1>6 DEF e, r

LEMMA ModSucc ==
  ASSUME NEW a \in Nat, NEW s \in Nat \ {0}
  PROVE  /\ (a + 1) % s = ((a % s) + 1) % s
         /\ (a + 1) \div s = (a \div s) + (IF (a + 1) % s = 0 THEN 1 ELSE 0)
<1> DEFINE q == a \div s
           r == a % s
<1>1. q \in Nat /\ r \in 0..(s - 1) /\ a = s * q + r
  BY DivMod
<1> HIDE DEF q, r
<1>2. CASE r + 1 < s
  <2>1. a + 1 = s * q + (r + 1) /\ r + 1 \in 0..(s - 1) /\ a + 1 \in Nat
    BY <1>1, <1>2
  <2>2. (a + 1) \div s = q /\ (a + 1) % s = r + 1
    BY <1>1, <2>1, DivModUnique
  <2>3. (r + 1) % s = r + 1
    <3>1. r + 1 = s * 0 + (r + 1) /\ r + 1 \in Nat
      BY <1>1
    <3>2. QED
      BY <2>1, <3>1, DivModUnique
  <2>4. QED
    BY <1>1, <2>2, <2>3 DEF q, r
<1>3. CASE r + 1 = s
  <2>1. a + 1 = s * (q + 1) + 0 /\ q + 1 \in Nat /\ 0 \in 0..(s - 1) /\ a + 1 \in Nat
    <3>1. s * (q + 1) = s * q + s
      BY <1>1
    <3>2. QED
      BY <1>1, <1>3, <3>1
  <2>2. (a + 1) \div s = q + 1 /\ (a + 1) % s = 0
    BY <2>1, DivModUnique
  <2>3. (r + 1) % s = 0
    <3>1. r + 1 = s * 1 + 0 /\ r + 1 \in Nat
      BY <1>1, <1>3
    <3>2. QED
      BY <2>1, <3>1, DivModUnique
  <2>4. QED
    BY <2>2, <2>3 DEF q, r
<1>4. QED
  BY <1>1, <1>2, <1>3

\* A total of whole batches does not step over a boundary of whole batches.
LEMMA BatchMore ==
  ASSUME NEW x \in Nat, NEW b \in Nat \ {0}, NEW g \in Nat \ {0}, g % b = 0, x % b = 0
  PROVE  /\ (x + b) % b = 0
         /\ (x % g) + b <= g
         /\ (x + b) % g \in {0, (x % g) + b}
<1> DEFINE k == g \div b
           j == x \div b
           q == x \div g
           r == x % g
           m == j - k * q
<1>1. k \in Nat /\ g = b * k
  BY DivMod
<1>2. j \in Nat /\ x = b * j
  BY DivMod
<1>3. q \in Nat /\ r \in 0..(g - 1) /\ x = g * q + r
  BY DivMod
<1> HIDE DEF k, j, q, r
<1>4. (x + b) % b = 0
  <2>1. x + b = b * (j + 1) + 0 /\ j + 1 \in Nat /\ 0 \in 0..(b - 1) /\ x + b \in Nat
    <3>1. b * (j + 1) = b * j + b
      BY <1>2
    <3>2. QED
      BY <1>2, <3>1
  <2>2. QED
    BY <2>1, DivModUnique
<1>5. r = b * m /\ m \in Int
  <2>1. b * (j - k * q) = b * j - (b * k) * q /\ k * q \in Nat
    BY <1>1, <1>2, <1>3
  <2>2. QED
    BY <1>1, <1>2, <1>3, <2>1
<1> HIDE DEF m
<1>6. m < k
  <2>1. ASSUME m >= k PROVE b * m >= b * k
    BY <1>1, <1>5, <2>1
  <2>2. QED
    BY <1>1, <1>3, <1>5, <2>1
<1>7. r + b <= g
  <2>1. m + 1 <= k
    BY <1>1, <1>5, <1>6
  <2>2. b * (m + 1) <= b * k
    BY <1>1, <1>5, <2>1
  <2>3. b * (m + 1) = b * m + b
    BY <1>5
  <2>4. QED
    BY <1>1, <1>5, <2>2, <2>3
<1>8. CASE r + b < g
  <2>1. x + b = g * q + (r + b) /\ r + b \in 0..(g - 1) /\ x + b \in Nat
    BY <1>3, <1>8
  <2>2. (x + b) % g = r + b
    <3> DEFINE y == x + b
               e == r + b
    <3>1. y \in Nat /\ e \in 0..(g - 1) /\ y = g * q + e
      BY <2>1
    <3> HIDE DEF y, e
    <3>2. y % g = e
      BY <1>3, <3>1, DivModUnique
    <3>3. QED
      BY <3>2 DEF y, e
  <2>3. QED
    BY <1>4, <1>7, <2>2 DEF r
<1>9. CASE r + b = g
  <2>1. x + b = g * (q + 1) + 0 /\ q + 1 \in Nat /\ 0 \in 0..(g - 1) /\ x + b \in Nat
    <3>1. g * (q + 1) = g * q + g
      BY <1>3
    <3>2. QED
      BY <1>3, <1>9, <3>1
  <2>2. (x + b) % g = 0
    BY <2>1, DivModUnique
  <2>3. QED
    BY <1>4, <1>7, <2>2 DEF r
<1>10. QED
  BY <1>3, <1>7, <1>8, <1>9

-----------------------------------------------------------------------------

LEMMA InitIInv == Init => IInv
<1> SUFFICES ASSUME Init PROVE IInv
  OBVIOUS
<1> USE PerfCountersAssumption DEF Init
<1>1. 0 % BatchSize = 0 /\ 0 % GatePeriod = 0 /\ 0 % CounterModulus = 0 /\ 0 \div SentinelPeriod = 0
  <2>1. \A s \in Nat \ {0} : 0 \div s = 0 /\ 0 % s = 0
    <3>1. \A s \in Nat \ {0} : 0 = s * 0 + 0 /\ 0 \in 0..(s - 1)
      OBVIOUS
    <3>2. QED
      BY <3>1, DivModUnique
  <2>2. QED
    BY <2>1
<1>2. NoLine \in [Totals -> Nat]
  BY DEF NoLine
<1>3. Types
  BY <1>2 DEF Types, Local, Pcs
<1>4. CounterWraps /\ SentinelPending /\ SentinelsCounted
  BY <1>1 DEF CounterWraps, SentinelPending, SentinelsCounted, NoLine, Totals
<1>5. WholeBatches /\ SinceGate /\ GateNeverSkipped
  BY <1>1 DEF WholeBatches, SinceGate, GateNeverSkipped, NoLine, Totals
<1>6. QED
  BY <1>3, <1>4, <1>5 DEF IInv

\* What a thread may go on to while it counts no miss and no sentinel.
LEMMA LocalStep ==
  ASSUME IInv, NEW t \in Threads, NEW x \in Local, thread' = [thread EXCEPT ![t] = x],
         x.tlsMisses = thread[t].tlsMisses, x.sentinel = thread[t].sentinel,
         lookups' \in [Threads -> [Totals -> Nat]],
         \A u \in Threads : \A c \in {"misses", "ghost", "real"} : lookups'[u][c] = lookups[u][c],
         x.pc = "sentinel" => x.sentinel, x.pc = "idle" => ~x.sentinel
  PROVE  CounterWraps' /\ SentinelPending' /\ SentinelsCounted' /\ thread' \in [Threads -> Local]
<1>1. /\ thread' \in [Threads -> Local] /\ thread'[t] = x
      /\ \A u \in Threads \ {t} : thread'[u] = thread[u]
  BY DEF IInv, Types
<1>2. \A u \in Threads : /\ thread'[u].tlsMisses = thread[u].tlsMisses
                         /\ thread'[u].sentinel = thread[u].sentinel
  BY <1>1
<1>3. CounterWraps'
  BY <1>2 DEF IInv, CounterWraps
<1>4. SentinelsCounted'
  BY <1>2 DEF IInv, SentinelsCounted
<1>5. SentinelPending'
  BY <1>1 DEF IInv, SentinelPending
<1>6. QED
  BY <1>1, <1>3, <1>4, <1>5

\* A batch more on one of the two published totals.
LEMMA PublishStep ==
  ASSUME IInv, NEW c \in {"hits", "misses"}, Publish(c, BatchSize)
  PROVE  /\ total' \in [Totals -> Nat] /\ published' \in [{"hits", "misses"} -> Nat]
         /\ WholeBatches' /\ SinceGate' /\ GateNeverSkipped'
<1> USE PerfCountersAssumption
<1> DEFINE x == total[c]
           p == published[c]
           y == x + BatchSize
           p2 == IF x % GatePeriod = 0 THEN BatchSize ELSE p + BatchSize
<1>1. x \in Nat /\ p \in Nat /\ y \in Nat /\ c \in Totals
  BY DEF IInv, Types, Totals
<1>2. /\ x % BatchSize = 0 /\ p <= GatePeriod
      /\ x % GatePeriod # 0 => p = x % GatePeriod
  BY DEF IInv, WholeBatches, SinceGate, GateNeverSkipped
<1>3. /\ total' = [total EXCEPT ![c] = y] /\ published' = [published EXCEPT ![c] = p2]
  BY DEF Publish
<1>4. /\ y % BatchSize = 0 /\ p2 \in Nat /\ p2 <= GatePeriod
      /\ y % GatePeriod # 0 => p2 = y % GatePeriod
  <2>1. BatchSize \in Nat \ {0} /\ GatePeriod \in Nat \ {0} /\ GatePeriod % BatchSize = 0
    OBVIOUS
  <2>2. x % GatePeriod \in Nat
    BY <1>1, <2>1, DivMod
  <2> HIDE DEF x, p
  <2>3. /\ y % BatchSize = 0 /\ (x % GatePeriod) + BatchSize <= GatePeriod
        /\ y % GatePeriod \in {0, (x % GatePeriod) + BatchSize}
    BY <1>1, <1>2, <2>1, BatchMore
  <2>4. QED
    BY <1>1, <1>2, <2>1, <2>2, <2>3
<1> HIDE DEF x, p, y, p2
<1>5. /\ total' \in [Totals -> Nat] /\ published' \in [{"hits", "misses"} -> Nat]
      /\ total'[c] = y /\ published'[c] = p2
      /\ \A d \in {"hits", "misses"} \ {c} : total'[d] = total[d] /\ published'[d] = published[d]
  BY <1>1, <1>3, <1>4 DEF IInv, Types, Totals
<1>6. WholeBatches'
  BY <1>4, <1>5 DEF IInv, WholeBatches
<1>7. SinceGate'
  BY <1>4, <1>5 DEF IInv, SinceGate
<1>8. GateNeverSkipped'
  BY <1>4, <1>5 DEF IInv, GateNeverSkipped
<1>9. QED
  BY <1>5, <1>6, <1>7, <1>8

LEMMA TotalsKept ==
  ASSUME IInv, UNCHANGED published,
         \A c \in {"hits", "misses"} : total'[c] = total[c] \/ total'[c] = 0
  PROVE  WholeBatches' /\ SinceGate' /\ GateNeverSkipped'
<1>1. \A s \in Nat \ {0} : 0 % s = 0
  <2>1. \A s \in Nat \ {0} : 0 = s * 0 + 0 /\ 0 \in 0..(s - 1)
    OBVIOUS
  <2>2. QED
    BY <2>1, DivModUnique
<1>2. 0 % BatchSize = 0 /\ 0 % GatePeriod = 0
  BY <1>1, PerfCountersAssumption
<1>3. QED
  BY <1>2 DEF IInv, WholeBatches, SinceGate, GateNeverSkipped

\* No step of a lookup, a publish or a log line breaks IInv.
LEMMA NextIInv == IInv /\ [Next]_vars => IInv'
<1> SUFFICES ASSUME IInv, [Next]_vars PROVE IInv'
  OBVIOUS
<1> USE PerfCountersAssumption
<1>0. IInv /\ Types
  BY DEF IInv
<1>1. ASSUME NEW t \in Threads, Hit(t) PROVE IInv'
  <2> DEFINE n == thread[t].tlsHits + 1
  <2>1. thread[t] \in Local /\ thread[t].tlsHits \in 0..(BatchSize - 1) /\ thread[t].pc = "idle"
        /\ ~thread[t].sentinel
    BY <1>1 DEF Hit, Looked, IInv, Types, Local, SentinelPending
  <2>2. /\ lookups' = [lookups EXCEPT ![t]["hits"] = @ + 1]
        /\ UNCHANGED <<lastLogTime, clock, reported>>
    BY <1>1 DEF Hit, Looked
  <2>3. /\ lookups' \in [Threads -> [Totals -> Nat]]
        /\ \A u \in Threads : \A c \in {"misses", "ghost", "real"} : lookups'[u][c] = lookups[u][c]
    BY <2>2 DEF IInv, Types, Totals
  <2>4. CASE BatchFull(n)
    <3> DEFINE pc == IF GateOpens("hits") THEN "log" ELSE "idle"
               x == [thread[t] EXCEPT !.tlsHits = 0, !.pc = pc]
    <3>1. n = BatchSize
      BY <2>1, <2>4 DEF BatchFull
    <3>2. Publish("hits", BatchSize) /\ thread' = [thread EXCEPT ![t] = x]
      BY <1>1, <2>4, <3>1 DEF Hit
    <3>3. x \in Local /\ x.tlsMisses = thread[t].tlsMisses /\ x.sentinel = thread[t].sentinel
          /\ x.pc \in {"log", "idle"}
      <4>1. pc \in {"log", "idle"}
        OBVIOUS
      <4>2. 0 \in 0..(BatchSize - 1) /\ pc \in Pcs
        BY <4>1 DEF Pcs
      <4> HIDE DEF pc
      <4>3. x \in Local
        BY <2>1, <4>2 DEF Local
      <4>4. x.tlsMisses = thread[t].tlsMisses /\ x.sentinel = thread[t].sentinel /\ x.pc = pc
        BY <2>1 DEF Local
      <4>5. QED
        BY <4>1, <4>3, <4>4
    <3> HIDE DEF x
    <3>4. CounterWraps' /\ SentinelPending' /\ SentinelsCounted' /\ thread' \in [Threads -> Local]
      BY <2>1, <2>3, <3>2, <3>3, LocalStep
    <3>5. /\ total' \in [Totals -> Nat] /\ published' \in [{"hits", "misses"} -> Nat]
          /\ WholeBatches' /\ SinceGate' /\ GateNeverSkipped'
      BY <3>2, PublishStep
    <3>6. QED
      BY <2>2, <2>3, <3>4, <3>5 DEF IInv, Types
  <2>5. CASE ~BatchFull(n)
    <3> DEFINE x == [thread[t] EXCEPT !.tlsHits = n]
    <3>1. n \in 0..(BatchSize - 1)
      BY <2>1, <2>5 DEF BatchFull
    <3>2. UNCHANGED <<total, published>> /\ thread' = [thread EXCEPT ![t] = x]
      BY <1>1, <2>5 DEF Hit
    <3>3. x \in Local /\ x.tlsMisses = thread[t].tlsMisses /\ x.sentinel = thread[t].sentinel
          /\ x.pc = "idle"
      <4> HIDE DEF n
      <4>1. QED
        BY <2>1, <3>1 DEF Local, Pcs
    <3> HIDE DEF x
    <3>4. CounterWraps' /\ SentinelPending' /\ SentinelsCounted' /\ thread' \in [Threads -> Local]
      BY <2>1, <2>3, <3>2, <3>3, LocalStep
    <3>5. WholeBatches' /\ SinceGate' /\ GateNeverSkipped'
      BY <3>2, TotalsKept
    <3>6. QED
      BY <2>2, <2>3, <3>2, <3>4, <3>5 DEF IInv, Types
  <2>6. QED
    BY <2>4, <2>5
<1>2. ASSUME NEW t \in Threads, Miss(t) PROVE IInv'
  <2> DEFINE m == lookups[t]["misses"]
             n == Increment(thread[t].tlsMisses)
             full == n % BatchSize = 0
             sentinel == n % SentinelPeriod = 0
             pc == IF full /\ GateOpens("misses") THEN "log" ELSE IF sentinel THEN "sentinel" ELSE "idle"
             x == [thread[t] EXCEPT !.tlsMisses = n, !.sentinel = sentinel, !.pc = pc]
  <2>1. /\ thread[t] \in Local /\ thread[t].tlsMisses \in 0..(CounterModulus - 1) /\ m \in Nat
        /\ thread[t].pc = "idle" /\ ~thread[t].sentinel
        /\ thread[t].tlsMisses = m % CounterModulus
    BY <1>2 DEF Miss, Looked, IInv, Types, Local, Totals, SentinelPending, CounterWraps
  <2>2. CounterModulus \in Nat \ {0} /\ SentinelPeriod \in Nat \ {0} /\ CounterModulus % SentinelPeriod = 0
    OBVIOUS
  <2>3. n = (m + 1) % CounterModulus /\ m + 1 \in Nat
    BY <2>1, <2>2, ModSucc DEF Increment
  <2>4. n \in 0..(CounterModulus - 1)
    <3> HIDE DEF n
    <3>1. QED
      BY <2>2, <2>3, DivMod
  <2>5. n % SentinelPeriod = (m + 1) % SentinelPeriod
    <3> HIDE DEF n
    <3>1. QED
      BY <2>2, <2>3, ModOfMod
  <2>6. /\ lookups' = [lookups EXCEPT ![t]["misses"] = @ + 1]
        /\ thread' = [thread EXCEPT ![t] = x]
        /\ IF full THEN Publish("misses", BatchSize) ELSE UNCHANGED <<total, published>>
        /\ UNCHANGED <<lastLogTime, clock, reported>>
    BY <1>2 DEF Miss, Looked
  <2>7. x \in Local /\ x.tlsMisses = n /\ x.sentinel = sentinel /\ x.pc = pc
    <3>1. sentinel \in BOOLEAN /\ pc \in Pcs
      BY DEF Pcs
    <3> HIDE DEF n, sentinel, pc
    <3>2. QED
      BY <2>1, <2>4, <3>1 DEF Local
  <2>8. (pc = "sentinel" => sentinel) /\ (pc = "idle" => ~sentinel)
    OBVIOUS
  <2>9. sentinel <=> n % SentinelPeriod = 0
    OBVIOUS
  <2> HIDE DEF n, full, sentinel, pc, x
  <2>10. /\ thread' \in [Threads -> Local] /\ thread'[t] = x
         /\ \A u \in Threads \ {t} : thread'[u] = thread[u]
    BY <2>6, <2>7 DEF IInv, Types
  <2>11. /\ lookups' \in [Threads -> [Totals -> Nat]]
         /\ lookups'[t]["misses"] = m + 1
         /\ \A c \in {"ghost", "real"} : lookups'[t][c] = lookups[t][c]
         /\ \A u \in Threads \ {t} : lookups'[u] = lookups[u]
    BY <2>6 DEF IInv, Types, Totals
  <2>12. CounterWraps'
    BY <2>3, <2>7, <2>10, <2>11 DEF IInv, CounterWraps
  <2>13. SentinelPending'
    BY <2>7, <2>8, <2>10 DEF IInv, SentinelPending
  <2>14. SentinelsCounted'
    <3>1. (m + 1) \div SentinelPeriod =
             (m \div SentinelPeriod) + (IF (m + 1) % SentinelPeriod = 0 THEN 1 ELSE 0)
      BY <2>1, <2>2, ModSucc
    <3>2. m \div SentinelPeriod = lookups[t]["ghost"] + lookups[t]["real"] + 0
      BY <2>1 DEF IInv, SentinelsCounted
    <3>3. lookups[t]["ghost"] \in Nat /\ lookups[t]["real"] \in Nat
      BY DEF IInv, Types, Totals
    <3>4. (m + 1) \div SentinelPeriod =
             lookups[t]["ghost"] + lookups[t]["real"] + (IF sentinel THEN 1 ELSE 0)
      BY <2>5, <2>9, <3>1, <3>2, <3>3
    <3>5. QED
      BY <2>7, <2>10, <2>11, <3>4 DEF IInv, SentinelsCounted
  <2>15. /\ total' \in [Totals -> Nat] /\ published' \in [{"hits", "misses"} -> Nat]
         /\ WholeBatches' /\ SinceGate' /\ GateNeverSkipped'
    <3>1. CASE full
      BY <2>6, <3>1, PublishStep
    <3>2. CASE ~full
      BY <2>6, <3>2, TotalsKept DEF IInv, Types
    <3>3. QED
      BY <3>1, <3>2
  <2>16. QED
    BY <2>6, <2>10, <2>11, <2>12, <2>13, <2>14, <2>15 DEF IInv, Types
<1>3. ASSUME NEW t \in Threads, Sentinel(t) PROVE IInv'
  <2> DEFINE x == [thread[t] EXCEPT !.pc = "idle", !.sentinel = FALSE]
  <2>1. PICK c \in {"ghost", "real"} :
          /\ total' = [total EXCEPT ![c] = @ + 1]
          /\ lookups' = [lookups EXCEPT ![t][c] = @ + 1]
    BY <1>3 DEF Sentinel
  <2>2. /\ thread[t] \in Local /\ thread[t].sentinel
        /\ thread' = [thread EXCEPT ![t] = x]
        /\ UNCHANGED <<lastLogTime, clock, reported, published>>
    BY <1>3 DEF Sentinel, IInv, Types, SentinelPending
  <2>3. x \in Local /\ x.tlsMisses = thread[t].tlsMisses /\ ~x.sentinel /\ x.pc = "idle"
    BY <2>2 DEF Local, Pcs
  <2> HIDE DEF x
  <2>4. /\ thread' \in [Threads -> Local] /\ thread'[t] = x
        /\ \A u \in Threads \ {t} : thread'[u] = thread[u]
    BY <2>2, <2>3 DEF IInv, Types
  <2>5. /\ lookups' \in [Threads -> [Totals -> Nat]]
        /\ lookups'[t]["misses"] = lookups[t]["misses"]
        /\ lookups'[t]["ghost"] + lookups'[t]["real"] = lookups[t]["ghost"] + lookups[t]["real"] + 1
        /\ \A u \in Threads \ {t} : lookups'[u] = lookups[u]
    BY <2>1 DEF IInv, Types, Totals
  <2>6. /\ total' \in [Totals -> Nat]
        /\ \A d \in {"hits", "misses"} : total'[d] = total[d]
    BY <2>1 DEF IInv, Types, Totals
  <2>7. CounterWraps' /\ SentinelPending'
    BY <2>3, <2>4, <2>5 DEF IInv, CounterWraps, SentinelPending
  <2>8. SentinelsCounted'
    <3>1. lookups[t]["ghost"] \in Nat /\ lookups[t]["real"] \in Nat
          /\ lookups'[t]["ghost"] \in Nat /\ lookups'[t]["real"] \in Nat
      BY <2>5 DEF IInv, Types, Totals
    <3>2. lookups[t]["misses"] \div SentinelPeriod = lookups'[t]["ghost"] + lookups'[t]["real"] + 0
      BY <2>2, <2>5, <3>1 DEF IInv, SentinelsCounted
    <3>3. QED
      BY <2>3, <2>4, <2>5, <3>2 DEF IInv, SentinelsCounted
  <2>9. WholeBatches' /\ SinceGate' /\ GateNeverSkipped'
    BY <2>2, <2>6, TotalsKept
  <2>10. QED
    BY <2>2, <2>4, <2>5, <2>6, <2>7, <2>8, <2>9 DEF IInv, Types
<1>4. ASSUME NEW t \in Threads, MaybeLog(t) PROVE IInv'
  <2> DEFINE y == thread[t]
  <2>1. /\ y \in Local /\ y.line \in [Totals -> Nat] /\ y.now \in 0..MaxTime
        /\ Leave(t) \in Pcs /\ (Leave(t) = "sentinel" => y.sentinel) /\ (Leave(t) = "idle" => ~y.sentinel)
    BY DEF Leave, Pcs, IInv, Types, Local
  <2>2. lookups' = lookups /\ clock' = clock /\ published' = published
    BY <1>4 DEF MaybeLog, ReadTimes, FirstTime, CompareExchange, TakeTotal, Report
  <2>3. /\ total' \in [Totals -> Nat] /\ reported' \in [Totals -> Nat] /\ lastLogTime' \in 0..MaxTime
        /\ \A c \in {"hits", "misses"} : total'[c] = total[c] \/ total'[c] = 0
    <3>1. CASE TakeTotal(t)
      BY <3>1 DEF TakeTotal, IInv, Types, Totals
    <3>2. CASE Report(t)
      BY <2>1, <3>2 DEF Report, IInv, Types
    <3>3. CASE ReadTimes(t) \/ FirstTime(t) \/ CompareExchange(t)
      BY <2>1, <3>3 DEF ReadTimes, FirstTime, CompareExchange, IInv, Types
    <3>4. QED
      BY <1>4, <3>1, <3>2, <3>3 DEF MaybeLog
  <2>4. \E x \in Local : /\ thread' = [thread EXCEPT ![t] = x]
                         /\ x.tlsMisses = y.tlsMisses /\ x.sentinel = y.sentinel
                         /\ x.pc = "sentinel" => x.sentinel
                         /\ x.pc = "idle" => ~x.sentinel
    <3>1. CASE ReadTimes(t)
      <4> DEFINE pc == IF lastLogTime = 0 THEN "first"
                       ELSE IF clock < lastLogTime + LogInterval THEN Leave(t) ELSE "exchange"
                 x == [y EXCEPT !.now = clock, !.prev = lastLogTime, !.pc = pc]
      <4>1. pc \in Pcs /\ (pc = "sentinel" => y.sentinel) /\ (pc = "idle" => ~y.sentinel)
        BY <2>1 DEF Pcs
      <4>2. clock \in 0..MaxTime /\ lastLogTime \in 0..MaxTime
        BY DEF IInv, Types
      <4>3. thread' = [thread EXCEPT ![t] = x]
        BY <3>1 DEF ReadTimes
      <4> HIDE DEF pc, y
      <4>4. x \in Local /\ x.tlsMisses = y.tlsMisses /\ x.sentinel = y.sentinel /\ x.pc = pc
        BY <2>1, <4>1, <4>2 DEF Local
      <4>5. QED
        BY <4>1, <4>3, <4>4
    <3>2. CASE FirstTime(t) \/ CompareExchange(t)
      <4>1. \E pc \in {"hits", Leave(t)} : thread' = [thread EXCEPT ![t] = [y EXCEPT !.pc = pc]]
        BY <3>2 DEF FirstTime, CompareExchange
      <4>2. PICK pc \in {"hits", Leave(t)} : thread' = [thread EXCEPT ![t] = [y EXCEPT !.pc = pc]]
        BY <4>1
      <4>3. pc \in Pcs /\ (pc = "sentinel" => y.sentinel) /\ (pc = "idle" => ~y.sentinel)
        BY <2>1 DEF Pcs
      <4> DEFINE x == [y EXCEPT !.pc = pc]
      <4> HIDE DEF y
      <4>4. x \in Local /\ x.tlsMisses = y.tlsMisses /\ x.sentinel = y.sentinel /\ x.pc = pc
        BY <2>1, <4>3 DEF Local
      <4>5. QED
        BY <4>2, <4>3, <4>4
    <3>3. CASE TakeTotal(t)
      <4>1. PICK c \in Totals : /\ y.pc = c
                                /\ thread' = [thread EXCEPT ![t].line[c] = total[c], ![t].pc = After(c)]
        BY <3>3 DEF TakeTotal
      <4> DEFINE line == [y.line EXCEPT ![c] = total[c]]
                 x == [y EXCEPT !.line = line, !.pc = After(c)]
      <4>2. After(c) \in {"misses", "ghost", "real", "report"}
        BY DEF After, Totals
      <4>3. line \in [Totals -> Nat]
        BY <2>1 DEF IInv, Types
      <4>4. thread' = [thread EXCEPT ![t] = x]
        BY <2>1, <4>1
      <4> HIDE DEF y, line
      <4>5. x \in Local /\ x.tlsMisses = y.tlsMisses /\ x.sentinel = y.sentinel /\ x.pc = After(c)
        BY <2>1, <4>2, <4>3 DEF Local, Pcs
      <4>6. QED
        BY <4>2, <4>4, <4>5
    <3>4. CASE Report(t)
      <4> DEFINE x == [y EXCEPT !.line = NoLine, !.pc = Leave(t)]
      <4>1. thread' = [thread EXCEPT ![t] = x]
        BY <3>4 DEF Report
      <4>2. NoLine \in [Totals -> Nat]
        BY DEF NoLine
      <4> HIDE DEF y
      <4>3. x \in Local /\ x.tlsMisses = y.tlsMisses /\ x.sentinel = y.sentinel /\ x.pc = Leave(t)
        BY <2>1, <4>2 DEF Local
      <4>4. QED
        BY <2>1, <4>1, <4>3
    <3>5. QED
      BY <1>4, <3>1, <3>2, <3>3, <3>4 DEF MaybeLog
  <2>5. lookups' \in [Threads -> [Totals -> Nat]]
    BY <2>2 DEF IInv, Types
  <2>6. CounterWraps' /\ SentinelPending' /\ SentinelsCounted' /\ thread' \in [Threads -> Local]
    BY <2>2, <2>4, <2>5, LocalStep
  <2>7. WholeBatches' /\ SinceGate' /\ GateNeverSkipped'
    BY <2>2, <2>3, TotalsKept
  <2>8. QED
    BY <2>2, <2>3, <2>5, <2>6, <2>7 DEF IInv, Types
<1>5. CASE Tick
  BY <1>5 DEF Tick, IInv, Types, CounterWraps, SentinelPending, SentinelsCounted, WholeBatches,
              SinceGate, GateNeverSkipped
<1>6. CASE UNCHANGED vars
  BY <1>6 DEF vars, IInv, Types, CounterWraps, SentinelPending, SentinelsCounted, WholeBatches,
              SinceGate, GateNeverSkipped
<1>7. QED
  BY <1>1, <1>2, <1>3, <1>4, <1>5, <1>6 DEF Next

LEMMA Invariance == Spec => []IInv
BY InitIInv, NextIInv, PTL DEF Spec

\* The totals, the clock and each thread's counters keep their types: tlsHits
\* stays below a batch and tlsMisses within its 32 bits
\* (BSPreCulledObjectsPatchVR.cpp:645-737).
THEOREM TypeCorrect == Spec => []TypeOK
<1>1. IInv => TypeOK
  BY DEF IInv, Types, Local, TypeOK
<1>2. QED
  BY <1>1, Invariance, PTL

\* Every SentinelPeriod-th miss of each thread asks the stock table, whatever
\* the other threads publish, also after tlsMisses has wrapped around
\* (BSPreCulledObjectsPatchVR.cpp:730-748).
THEOREM SentinelsCountedHolds == Spec => []SentinelsCounted
<1>1. IInv => SentinelsCounted
  BY DEF IInv
<1>2. QED
  BY <1>1, Invariance, PTL

\* The log gate opens at least once every GatePeriod published lookups,
\* whatever log lines take from the totals in between
\* (BSPreCulledObjectsPatchVR.cpp:628-631).
THEOREM GateNeverSkippedHolds == Spec => []GateNeverSkipped
<1>1. IInv => GateNeverSkipped
  BY DEF IInv
<1>2. QED
  BY <1>1, Invariance, PTL

-----------------------------------------------------------------------------
(* No lookup is lost *)

\* What a thread has of a line is what it has taken for it so far.
LinesTaken ==
    \A t \in Threads :
        /\ thread[t].pc \notin {"misses", "ghost", "real", "report"} => thread[t].line["hits"] = 0
        /\ thread[t].pc \notin {"ghost", "real", "report"} => thread[t].line["misses"] = 0

\* The sums are of finitely many units.
SumsFinite ==
    \A c \in {"hits", "misses"} : IsFiniteSet(Units(LookedUp(c))) /\ IsFiniteSet(Units(Held(c)))

Balance == LinesTaken /\ SumsFinite /\ NoLookupLost

LEMMA UnitsOfOne ==
  ASSUME NEW t, NEW n \in Nat
  PROVE  IsFiniteSet({t} \X (1..n)) /\ Cardinality({t} \X (1..n)) = n
<1>1. IsFiniteSet({t}) /\ Cardinality({t}) = 1
  BY FS_Singleton
<1>2. IsFiniteSet(1..n) /\ Cardinality(1..n) = n
  BY FS_Interval
<1>3. Cardinality({t} \X (1..n)) = 1 * n
  BY <1>1, <1>2, FS_Product
<1>4. QED
  BY <1>1, <1>2, <1>3, FS_Product

\* A sum changes by what the count of one thread does.
LEMMA SumMoves ==
  ASSUME NEW f \in [Threads -> Nat], NEW g \in [Threads -> Nat], NEW t \in Threads,
         \A u \in Threads \ {t} : g[u] = f[u], IsFiniteSet(Units(f))
  PROVE  /\ IsFiniteSet(Units(g)) /\ SumOver(f) \in Nat /\ SumOver(g) \in Nat
         /\ SumOver(g) + f[t] = SumOver(f) + g[t]
<1> DEFINE Others == Units(f) \ ({t} \X (1..f[t]))
<1>1. IsFiniteSet(Others)
  BY FS_Subset
<1>2. ASSUME NEW n \in Nat
      PROVE  /\ IsFiniteSet(Others \cup ({t} \X (1..n)))
             /\ Cardinality(Others \cup ({t} \X (1..n))) = Cardinality(Others) + n
  <2>1. Others \cap ({t} \X (1..n)) = {}
    BY DEF Units
  <2>2. IsFiniteSet({t} \X (1..n)) /\ Cardinality({t} \X (1..n)) = n /\ Cardinality(Others) \in Nat
    BY <1>1, UnitsOfOne, FS_CardinalityType
  <2>3. Cardinality(Others \cup ({t} \X (1..n))) = Cardinality(Others) + n - Cardinality({})
    BY <1>1, <2>1, <2>2, FS_Union
  <2>4. IsFiniteSet(Others \cup ({t} \X (1..n)))
    BY <1>1, <2>2, FS_Union
  <2>5. QED
    BY <2>2, <2>3, <2>4, FS_EmptySet
<1>3. Units(f) = Others \cup ({t} \X (1..f[t])) /\ Units(g) = Others \cup ({t} \X (1..g[t]))
  BY DEF Units
<1>4. f[t] \in Nat /\ g[t] \in Nat /\ Cardinality(Others) \in Nat
  BY <1>1, FS_CardinalityType
<1> HIDE DEF Others
<1>5. /\ IsFiniteSet(Units(g)) /\ Cardinality(Units(f)) = Cardinality(Others) + f[t]
      /\ Cardinality(Units(g)) = Cardinality(Others) + g[t]
  BY <1>2, <1>3, <1>4
<1>6. QED
  BY <1>4, <1>5 DEF SumOver

HeldBy(t, c) == thread[t].line[c] + Unpublished(t)[c]

LEMMA BatchRemainder == \A a \in Nat : a % BatchSize \in 0..(BatchSize - 1) /\ a % BatchSize \in Nat
<1>1. BatchSize \in Nat \ {0}
  BY PerfCountersAssumption
<1>2. \A a \in Nat : a % BatchSize \in 0..(BatchSize - 1)
  BY <1>1, DivMod
<1>3. QED
  BY <1>1, <1>2

LEMMA CountsTyped ==
  ASSUME Types, NEW c \in {"hits", "misses"}
  PROVE  /\ total[c] \in Nat /\ reported[c] \in Nat
         /\ LookedUp(c) \in [Threads -> Nat] /\ Held(c) \in [Threads -> Nat]
         /\ \A t \in Threads : LookedUp(c)[t] = lookups[t][c] /\ Held(c)[t] = HeldBy(t, c)
<1>1. \A a \in Nat : a % BatchSize \in Nat
  BY BatchRemainder
<1>2. c \in Totals
  BY DEF Totals
<1>3. \A t \in Threads : HeldBy(t, c) \in Nat
  BY <1>1, <1>2 DEF HeldBy, Unpublished, Types, Local
<1>4. QED
  BY <1>2, <1>3 DEF LookedUp, Held, HeldBy, Types

LEMMA CountsTypedNext ==
  ASSUME Types', NEW c \in {"hits", "misses"}
  PROVE  /\ total'[c] \in Nat /\ reported'[c] \in Nat
         /\ LookedUp(c)' \in [Threads -> Nat] /\ Held(c)' \in [Threads -> Nat]
         /\ \A t \in Threads : LookedUp(c)'[t] = lookups'[t][c] /\ Held(c)'[t] = HeldBy(t, c)'
<1>1. \A a \in Nat : a % BatchSize \in Nat
  BY BatchRemainder
<1>2. c \in Totals
  BY DEF Totals
<1>3. \A t \in Threads : HeldBy(t, c)' \in Nat
  BY <1>1, <1>2 DEF HeldBy, Unpublished, Types, Local
<1>4. QED
  BY <1>2, <1>3 DEF LookedUp, Held, HeldBy, Types

\* A step of one thread keeps the balance if it does in that thread's share.
LEMMA BalanceStep ==
  ASSUME Types, Types', Balance, NEW t \in Threads,
         \A u \in Threads \ {t} : thread'[u] = thread[u] /\ lookups'[u] = lookups[u],
         \A c \in {"hits", "misses"} :
            lookups'[t][c] + total[c] + reported[c] + HeldBy(t, c) =
                lookups[t][c] + total'[c] + reported'[c] + HeldBy(t, c)'
  PROVE  SumsFinite' /\ NoLookupLost'
<1>1. ASSUME NEW c \in {"hits", "misses"}
      PROVE  /\ IsFiniteSet(Units(LookedUp(c)))' /\ IsFiniteSet(Units(Held(c)))'
             /\ (SumOver(LookedUp(c)) = total[c] + reported[c] + SumOver(Held(c)))'
  <2> DEFINE f == LookedUp(c)
             f2 == LookedUp(c)'
             g == Held(c)
             g2 == Held(c)'
  <2>1. /\ total[c] \in Nat /\ reported[c] \in Nat
        /\ f \in [Threads -> Nat] /\ g \in [Threads -> Nat]
        /\ \A u \in Threads : f[u] = lookups[u][c] /\ g[u] = HeldBy(u, c)
    BY CountsTyped
  <2>2. /\ total'[c] \in Nat /\ reported'[c] \in Nat
        /\ f2 \in [Threads -> Nat] /\ g2 \in [Threads -> Nat]
        /\ \A u \in Threads : f2[u] = lookups'[u][c] /\ g2[u] = HeldBy(u, c)'
    BY CountsTypedNext
  <2>3. IsFiniteSet(Units(f)) /\ IsFiniteSet(Units(g)) /\ SumOver(f) = total[c] + reported[c] + SumOver(g)
    BY DEF Balance, SumsFinite, NoLookupLost
  <2>4. \A u \in Threads \ {t} : HeldBy(u, c)' = HeldBy(u, c)
    BY DEF HeldBy, Unpublished
  <2>5. \A u \in Threads \ {t} : f2[u] = f[u] /\ g2[u] = g[u]
    BY <2>1, <2>2, <2>4
  <2>6. f2[t] + total[c] + reported[c] + g[t] = f[t] + total'[c] + reported'[c] + g2[t]
    BY <2>1, <2>2
  <2>7. /\ IsFiniteSet(Units(f2)) /\ IsFiniteSet(Units(g2))
        /\ SumOver(f2) = total'[c] + reported'[c] + SumOver(g2)
    <3> HIDE DEF f, f2, g, g2
    <3>1. /\ IsFiniteSet(Units(f2)) /\ SumOver(f) \in Nat /\ SumOver(f2) \in Nat
          /\ SumOver(f2) + f[t] = SumOver(f) + f2[t]
      BY <2>1, <2>2, <2>3, <2>5, SumMoves
    <3>2. /\ IsFiniteSet(Units(g2)) /\ SumOver(g) \in Nat /\ SumOver(g2) \in Nat
          /\ SumOver(g2) + g[t] = SumOver(g) + g2[t]
      BY <2>1, <2>2, <2>3, <2>5, SumMoves
    <3>3. f[t] \in Nat /\ f2[t] \in Nat /\ g[t] \in Nat /\ g2[t] \in Nat
      BY <2>1, <2>2
    <3>4. total[c] \in Nat /\ reported[c] \in Nat /\ total'[c] \in Nat /\ reported'[c] \in Nat
      BY <2>1, <2>2
    <3> DEFINE known == total[c] + reported[c]
               known2 == total'[c] + reported'[c]
               sf == SumOver(f)
               sf2 == SumOver(f2)
               sg == SumOver(g)
               sg2 == SumOver(g2)
               a == f[t]
               a2 == f2[t]
               b == g[t]
               b2 == g2[t]
    <3>5. known \in Nat /\ known2 \in Nat /\ sf = known + sg /\ a2 + known + b = a + known2 + b2
          /\ a \in Nat /\ a2 \in Nat /\ b \in Nat /\ b2 \in Nat
      BY <2>3, <2>6, <3>3, <3>4
    <3>6. sf2 = known2 + sg2
      <4>1. /\ sf \in Nat /\ sf2 \in Nat /\ sf2 + a = sf + a2
            /\ sg \in Nat /\ sg2 \in Nat /\ sg2 + b = sg + b2
        BY <3>1, <3>2
      <4> HIDE DEF known, known2, sf, sf2, sg, sg2, a, a2, b, b2
      <4>2. QED
        BY <3>5, <4>1
    <3>7. QED
      BY <3>1, <3>2, <3>6
  <2>8. QED
    BY <2>7 DEF Units, SumOver
<1>2. QED
  BY <1>1 DEF SumsFinite, NoLookupLost

LEMMA InitBalance == Init => Balance
<1> SUFFICES ASSUME Init PROVE Balance
  OBVIOUS
<1>0. Types
  BY InitIInv DEF IInv
<1>1. LinesTaken
  BY DEF Init, LinesTaken, NoLine, Totals
<1>2. ASSUME NEW c \in {"hits", "misses"}
      PROVE  Units(LookedUp(c)) = {} /\ Units(Held(c)) = {} /\ total[c] = 0 /\ reported[c] = 0
  <2>1. total[c] = 0 /\ reported[c] = 0 /\ \A t \in Threads : lookups[t][c] = 0
    BY DEF Init, NoLine, Totals
  <2>2. \A t \in Threads : HeldBy(t, c) = 0
    <3>1. 0 % BatchSize = 0
      <4>1. BatchSize \in Nat \ {0}
        BY PerfCountersAssumption
      <4>2. 0 = BatchSize * 0 + 0 /\ 0 \in 0..(BatchSize - 1)
        BY <4>1
      <4>3. QED
        BY <4>1, <4>2, DivModUnique
    <3>2. QED
      BY <3>1 DEF Init, HeldBy, Unpublished, NoLine, Totals
  <2>3. \A t \in Threads : LookedUp(c)[t] = 0 /\ Held(c)[t] = 0
    BY <1>0, <2>1, <2>2, CountsTyped
  <2>4. 1..0 = {}
    OBVIOUS
  <2>5. QED
    BY <2>1, <2>3, <2>4 DEF Units
<1>3. SumsFinite /\ NoLookupLost
  BY <1>2, FS_EmptySet DEF SumsFinite, NoLookupLost, SumOver
<1>4. QED
  BY <1>1, <1>3 DEF Balance

\* What a miss leaves of the batch it belongs to.
LEMMA MissHeld ==
  ASSUME NEW a \in Nat
  PROVE  Increment(a) % BatchSize = IF (a % BatchSize) + 1 = BatchSize THEN 0 ELSE (a % BatchSize) + 1
<1>0. /\ BatchSize \in Nat \ {0} /\ SentinelPeriod \in Nat \ {0} /\ CounterModulus \in Nat \ {0}
      /\ SentinelPeriod % BatchSize = 0 /\ CounterModulus % SentinelPeriod = 0
  BY PerfCountersAssumption
<1>1. \A x \in 0..(BatchSize - 1) : x % BatchSize = x
  <2>1. \A x \in 0..(BatchSize - 1) : x \in Nat /\ x = BatchSize * 0 + x
    BY <1>0
  <2>2. QED
    BY <1>0, <2>1, DivModUnique
<1>2. BatchSize % BatchSize = 0
  <2>1. BatchSize = BatchSize * 1 + 0 /\ BatchSize \in Nat /\ 0 \in 0..(BatchSize - 1) /\ 1 \in Nat
    BY <1>0
  <2>2. QED
    BY <1>0, <2>1, DivModUnique
<1>3. CounterModulus % BatchSize = 0
  <2>1. (CounterModulus % SentinelPeriod) % BatchSize = CounterModulus % BatchSize
    BY <1>0, ModOfMod
  <2>2. 0 % BatchSize = 0
    BY <1>0, <1>1
  <2>3. QED
    BY <1>0, <2>1, <2>2
<1>4. Increment(a) % BatchSize = (a + 1) % BatchSize
  <2>1. a + 1 \in Nat /\ CounterModulus \in Nat \ {0} /\ BatchSize \in Nat \ {0}
    BY <1>0
  <2>2. ((a + 1) % CounterModulus) % BatchSize = (a + 1) % BatchSize
    BY <1>3, <2>1, ModOfMod
  <2>3. QED
    BY <2>2 DEF Increment
<1>5. (a + 1) % BatchSize = ((a % BatchSize) + 1) % BatchSize
  BY <1>0, ModSucc
<1>6. a % BatchSize \in 0..(BatchSize - 1)
  BY BatchRemainder
<1> DEFINE r == a % BatchSize
<1>7. r + 1 = BatchSize \/ r + 1 \in 0..(BatchSize - 1)
  BY <1>0, <1>6
<1>8. QED
  BY <1>1, <1>2, <1>4, <1>5, <1>7

LEMMA NextBalance == IInv /\ Balance /\ [Next]_vars => Balance'
<1> SUFFICES ASSUME IInv, Balance, [Next]_vars PROVE Balance'
  OBVIOUS
<1>0. Types /\ Types' /\ LinesTaken /\ BatchSize \in Nat \ {0}
  BY NextIInv, PerfCountersAssumption DEF IInv, Balance
<1>1. ASSUME NEW t \in Threads, Hit(t) \/ Miss(t) \/ Sentinel(t) \/ MaybeLog(t)
      PROVE  \A u \in Threads \ {t} : thread'[u] = thread[u] /\ lookups'[u] = lookups[u]
  BY <1>0, <1>1 DEF Hit, Miss, Sentinel, MaybeLog, ReadTimes, FirstTime, CompareExchange, TakeTotal,
                    Report, Looked, Types
<1>2. ASSUME NEW t \in Threads, Hit(t) PROVE Balance'
  <2> DEFINE n == thread[t].tlsHits + 1
  <2>1. /\ thread[t] \in Local /\ thread[t].tlsHits \in 0..(BatchSize - 1) /\ thread[t].pc = "idle"
        /\ thread[t].line \in [Totals -> Nat]
    BY <1>0, <1>2 DEF Hit, Looked, Types, Local
  <2>2. /\ lookups'[t]["hits"] = lookups[t]["hits"] + 1 /\ lookups'[t]["misses"] = lookups[t]["misses"]
        /\ reported' = reported
    BY <1>0, <1>2 DEF Hit, Looked, Types, Totals
  <2>3. /\ thread'[t].line = thread[t].line /\ thread'[t].tlsMisses = thread[t].tlsMisses
        /\ thread'[t].pc \in {"idle", "log"}
        /\ total'["misses"] = total["misses"]
        /\ IF BatchFull(n) THEN total'["hits"] = total["hits"] + n /\ thread'[t].tlsHits = 0
           ELSE total'["hits"] = total["hits"] /\ thread'[t].tlsHits = n
    <3>1. CASE BatchFull(n)
      <4> DEFINE pc == IF GateOpens("hits") THEN "log" ELSE "idle"
      <4>1. pc \in {"idle", "log"} /\ thread' = [thread EXCEPT ![t] = [@ EXCEPT !.tlsHits = 0, !.pc = pc]]
        BY <1>2, <3>1 DEF Hit
      <4>2. total' = [total EXCEPT !["hits"] = @ + n]
        BY <1>2, <3>1 DEF Hit, Publish
      <4> HIDE DEF pc, n
      <4>3. QED
        BY <1>0, <2>1, <3>1, <4>1, <4>2 DEF Types, Local, Totals
    <3>2. CASE ~BatchFull(n)
      <4>1. thread' = [thread EXCEPT ![t] = [@ EXCEPT !.tlsHits = n]] /\ total' = total
        BY <1>2, <3>2 DEF Hit
      <4> HIDE DEF n
      <4>2. QED
        BY <1>0, <2>1, <3>2, <4>1 DEF Types, Local
    <3>3. QED
      BY <3>1, <3>2
  <2>4. \A c \in {"hits", "misses"} :
            lookups'[t][c] + total[c] + reported[c] + HeldBy(t, c) =
                lookups[t][c] + total'[c] + reported'[c] + HeldBy(t, c)'
    <3>1. /\ lookups[t]["hits"] + 1 + total["hits"] + reported["hits"] + (thread[t].line["hits"] + thread[t].tlsHits) =
                lookups[t]["hits"] + total'["hits"] + reported["hits"] + (thread[t].line["hits"] + thread'[t].tlsHits)
      <4>1. /\ total["hits"] \in Nat /\ reported["hits"] \in Nat /\ lookups[t]["hits"] \in Nat
            /\ thread[t].line["hits"] \in Nat /\ thread[t].tlsHits \in Nat /\ n \in Nat
        BY <1>0, <2>1 DEF Types, Totals
      <4>2. QED
        BY <2>3, <4>1
    <3>2. QED
      BY <2>2, <2>3, <3>1 DEF HeldBy, Unpublished
  <2>5. SumsFinite' /\ NoLookupLost'
    BY <1>0, <1>1, <1>2, <2>4, BalanceStep
  <2>6. LinesTaken'
    BY <1>0, <1>1, <1>2, <2>1, <2>3 DEF LinesTaken
  <2>7. QED
    BY <2>5, <2>6 DEF Balance
<1>3. ASSUME NEW t \in Threads, Miss(t) PROVE Balance'
  <2> DEFINE n == Increment(thread[t].tlsMisses)
             r == thread[t].tlsMisses % BatchSize
             full == n % BatchSize = 0
  <2>1. /\ thread[t] \in Local /\ thread[t].tlsMisses \in Nat /\ thread[t].pc = "idle"
        /\ thread[t].line \in [Totals -> Nat]
    <3>1. thread[t] \in Local /\ thread[t].pc = "idle"
      BY <1>0, <1>3 DEF Miss, Looked, Types
    <3>2. CounterModulus \in Nat \ {0}
      BY PerfCountersAssumption
    <3>3. QED
      BY <3>1, <3>2 DEF Local
  <2>2. /\ lookups'[t]["misses"] = lookups[t]["misses"] + 1 /\ lookups'[t]["hits"] = lookups[t]["hits"]
        /\ reported' = reported
    BY <1>0, <1>3 DEF Miss, Looked, Types, Totals
  <2>3. /\ thread'[t].line = thread[t].line /\ thread'[t].tlsHits = thread[t].tlsHits
        /\ thread'[t].tlsMisses = n
        /\ thread'[t].pc \in {"idle", "log", "sentinel"}
    <3> DEFINE sentinel == n % SentinelPeriod = 0
               pc == IF full /\ GateOpens("misses") THEN "log" ELSE IF sentinel THEN "sentinel" ELSE "idle"
    <3>1. thread' = [thread EXCEPT ![t] = [@ EXCEPT !.tlsMisses = n, !.sentinel = sentinel, !.pc = pc]]
      BY <1>3 DEF Miss
    <3>2. pc \in {"idle", "log", "sentinel"}
      OBVIOUS
    <3> HIDE DEF pc, sentinel, n
    <3>3. QED
      BY <1>0, <2>1, <3>1, <3>2 DEF Types, Local
  <2>4. /\ total'["hits"] = total["hits"]
        /\ total'["misses"] = total["misses"] + (IF full THEN BatchSize ELSE 0)
    <3>1. CASE full
      BY <1>0, <1>3, <3>1 DEF Miss, Publish, Types, Totals
    <3>2. CASE ~full
      BY <1>0, <1>3, <3>2 DEF Miss, Types, Totals
    <3>3. QED
      BY <3>1, <3>2
  <2>5. /\ r \in 0..(BatchSize - 1)
        /\ n % BatchSize = IF r + 1 = BatchSize THEN 0 ELSE r + 1
    BY <2>1, MissHeld, BatchRemainder
  <2> DEFINE r2 == n % BatchSize
  <2>6. r2 \in Nat /\ r + 1 = (IF full THEN BatchSize ELSE 0) + r2
    BY <1>0, <2>5
  <2>7. \A c \in {"hits", "misses"} :
            lookups'[t][c] + total[c] + reported[c] + HeldBy(t, c) =
                lookups[t][c] + total'[c] + reported'[c] + HeldBy(t, c)'
    <3>1. lookups[t]["misses"] + 1 + total["misses"] + reported["misses"] + (thread[t].line["misses"] + r) =
              lookups[t]["misses"] + total'["misses"] + reported["misses"] + (thread[t].line["misses"] + r2)
      <4>1. /\ total["misses"] \in Nat /\ reported["misses"] \in Nat /\ lookups[t]["misses"] \in Nat
            /\ thread[t].line["misses"] \in Nat /\ r \in Nat
        BY <1>0, <2>1, <2>5 DEF Types, Totals
      <4> HIDE DEF r, r2, full
      <4>2. QED
        BY <1>0, <2>4, <2>6, <4>1
    <3>2. HeldBy(t, "misses") = thread[t].line["misses"] + r /\ HeldBy(t, "misses")' = thread[t].line["misses"] + r2
      BY <2>3 DEF HeldBy, Unpublished
    <3>3. HeldBy(t, "hits")' = HeldBy(t, "hits")
      BY <2>3 DEF HeldBy, Unpublished
    <3> HIDE DEF r, r2
    <3>4. QED
      BY <2>2, <2>4, <3>1, <3>2, <3>3
  <2>8. SumsFinite' /\ NoLookupLost'
    BY <1>0, <1>1, <1>3, <2>7, BalanceStep
  <2>9. LinesTaken'
    BY <1>0, <1>1, <1>3, <2>1, <2>3 DEF LinesTaken
  <2>10. QED
    BY <2>8, <2>9 DEF Balance
<1>4. ASSUME NEW t \in Threads, Sentinel(t) PROVE Balance'
  <2>1. /\ \A c \in {"hits", "misses"} : /\ lookups'[t][c] = lookups[t][c] /\ total'[c] = total[c]
        /\ reported' = reported
    BY <1>0, <1>4 DEF Sentinel, Types, Totals
  <2>2. /\ thread'[t].line = thread[t].line /\ thread'[t].tlsHits = thread[t].tlsHits
        /\ thread'[t].tlsMisses = thread[t].tlsMisses /\ thread[t].pc = "sentinel" /\ thread'[t].pc = "idle"
    BY <1>0, <1>4 DEF Sentinel, Types, Local
  <2>3. \A c \in {"hits", "misses"} : HeldBy(t, c)' = HeldBy(t, c)
    BY <2>2 DEF HeldBy, Unpublished
  <2>4. SumsFinite' /\ NoLookupLost'
    BY <1>0, <1>1, <1>4, <2>1, <2>3, BalanceStep
  <2>5. LinesTaken'
    BY <1>0, <1>1, <1>4, <2>2 DEF LinesTaken
  <2>6. QED
    BY <2>4, <2>5 DEF Balance
<1>5. ASSUME NEW t \in Threads, ReadTimes(t) \/ FirstTime(t) \/ CompareExchange(t) PROVE Balance'
  <2>1. lookups' = lookups /\ total' = total /\ reported' = reported
    BY <1>5 DEF ReadTimes, FirstTime, CompareExchange
  <2>2. /\ thread'[t].line = thread[t].line /\ thread'[t].tlsHits = thread[t].tlsHits
        /\ thread'[t].tlsMisses = thread[t].tlsMisses /\ thread[t].pc \in {"log", "first", "exchange"}
        /\ thread'[t].pc \in {"first", "exchange", "hits", "sentinel", "idle"}
    <3>1. Leave(t) \in {"sentinel", "idle"}
      BY DEF Leave
    <3>2. CASE ReadTimes(t)
      BY <1>0, <3>1, <3>2 DEF ReadTimes, Types, Local
    <3>3. CASE FirstTime(t)
      BY <1>0, <3>1, <3>3 DEF FirstTime, Types, Local
    <3>4. CASE CompareExchange(t)
      BY <1>0, <3>1, <3>4 DEF CompareExchange, Types, Local
    <3>5. QED
      BY <1>5, <3>2, <3>3, <3>4
  <2>3. \A c \in {"hits", "misses"} : HeldBy(t, c)' = HeldBy(t, c)
    BY <2>2 DEF HeldBy, Unpublished
  <2>4. SumsFinite' /\ NoLookupLost'
    BY <1>0, <1>1, <1>5, <2>1, <2>3, BalanceStep DEF MaybeLog
  <2>5. LinesTaken'
    BY <1>0, <1>1, <1>5, <2>2 DEF LinesTaken, MaybeLog
  <2>6. QED
    BY <2>4, <2>5 DEF Balance
<1>6. ASSUME NEW t \in Threads, TakeTotal(t) PROVE Balance'
  <2>1. PICK d \in Totals :
          /\ thread[t].pc = d /\ total' = [total EXCEPT ![d] = 0]
          /\ thread' = [thread EXCEPT ![t].line[d] = total[d], ![t].pc = After(d)]
          /\ UNCHANGED <<lookups, reported>>
    BY <1>6 DEF TakeTotal
  <2>2. thread[t] \in Local /\ thread[t].line \in [Totals -> Nat]
    BY <1>0 DEF Types, Local
  <2>3. /\ thread'[t].line = [thread[t].line EXCEPT ![d] = total[d]]
        /\ thread'[t].tlsHits = thread[t].tlsHits /\ thread'[t].tlsMisses = thread[t].tlsMisses
        /\ thread'[t].pc = After(d)
    BY <1>0, <2>1, <2>2 DEF Types, Local
  <2>4. \A c \in {"hits", "misses"} : d = c => thread[t].line[c] = 0
    BY <1>0, <2>1 DEF LinesTaken
  <2>5. \A c \in {"hits", "misses"} : total[c] + HeldBy(t, c) = total'[c] + HeldBy(t, c)'
    <3> SUFFICES ASSUME NEW c \in {"hits", "misses"}
                 PROVE  total[c] + HeldBy(t, c) = total'[c] + HeldBy(t, c)'
      OBVIOUS
    <3>1. Unpublished(t)'[c] = Unpublished(t)[c] /\ Unpublished(t)[c] \in Nat
      BY <1>0, <2>2, <2>3, BatchRemainder, PerfCountersAssumption DEF Unpublished, Local
    <3>2. c \in Totals /\ total[c] \in Nat
      BY <1>0 DEF Types, Totals
    <3>3. CASE d = c
      <4>1. total'[c] = 0 /\ thread'[t].line[c] = total[c] /\ thread[t].line[c] = 0
        BY <1>0, <2>1, <2>2, <2>3, <2>4, <3>2, <3>3 DEF Types
      <4>2. QED
        BY <3>1, <3>2, <4>1 DEF HeldBy
    <3>4. CASE d # c
      <4>1. total'[c] = total[c] /\ thread'[t].line[c] = thread[t].line[c]
        BY <1>0, <2>1, <2>2, <2>3, <3>2, <3>4 DEF Types
      <4>2. QED
        BY <3>1, <4>1 DEF HeldBy
    <3>5. QED
      BY <3>3, <3>4
  <2>6. \A c \in {"hits", "misses"} :
            lookups'[t][c] + total[c] + reported[c] + HeldBy(t, c) =
                lookups[t][c] + total'[c] + reported'[c] + HeldBy(t, c)'
    <3> SUFFICES ASSUME NEW c \in {"hits", "misses"}
                 PROVE  lookups'[t][c] + total[c] + reported[c] + HeldBy(t, c) =
                            lookups[t][c] + total'[c] + reported'[c] + HeldBy(t, c)'
      OBVIOUS
    <3>1. /\ total[c] \in Nat /\ reported[c] \in Nat /\ HeldBy(t, c) \in Nat /\ lookups[t][c] \in Nat
      BY <1>0, CountsTyped
    <3>2. total'[c] \in Nat /\ HeldBy(t, c)' \in Nat
      BY <1>0, CountsTypedNext
    <3>3. total[c] + HeldBy(t, c) = total'[c] + HeldBy(t, c)' /\ lookups' = lookups /\ reported' = reported
      BY <2>1, <2>5
    <3>4. QED
      BY <3>1, <3>2, <3>3
  <2>7. SumsFinite' /\ NoLookupLost'
    BY <1>0, <1>1, <1>6, <2>6, BalanceStep DEF MaybeLog
  <2>8. LinesTaken'
    <3>1. /\ thread'[t].pc \notin {"misses", "ghost", "real", "report"} => thread'[t].line["hits"] = 0
          /\ thread'[t].pc \notin {"ghost", "real", "report"} => thread'[t].line["misses"] = 0
      BY <1>0, <2>1, <2>2, <2>3 DEF LinesTaken, After, Totals
    <3>2. QED
      BY <1>0, <1>1, <1>6, <3>1 DEF LinesTaken, MaybeLog
  <2>9. QED
    BY <2>7, <2>8 DEF Balance
<1>7. ASSUME NEW t \in Threads, Report(t) PROVE Balance'
  <2> DEFINE line == thread[t].line
  <2>1. thread[t] \in Local /\ line \in [Totals -> Nat]
    BY <1>0 DEF Types, Local
  <2>2. /\ thread'[t].line = NoLine
        /\ thread'[t].tlsHits = thread[t].tlsHits /\ thread'[t].tlsMisses = thread[t].tlsMisses
        /\ total' = total /\ lookups' = lookups
    BY <1>0, <1>7, <2>1 DEF Report, Types, Local
  <2>3. \A c \in {"hits", "misses"} : reported'[c] = reported[c] + line[c]
    <3>1. line["hits"] \in Nat /\ line["misses"] \in Nat /\ reported \in [Totals -> Nat]
      BY <1>0, <2>1 DEF Types, Totals
    <3>2. reported' = IF line["hits"] + line["misses"] = 0 THEN reported
                      ELSE [c \in Totals |-> reported[c] + line[c]]
      BY <1>7 DEF Report
    <3> HIDE DEF line
    <3>3. CASE line["hits"] + line["misses"] = 0
      <4>1. line["hits"] = 0 /\ line["misses"] = 0 /\ reported' = reported
        BY <3>1, <3>2, <3>3
      <4>2. \A c \in {"hits", "misses"} : reported[c] \in Nat
        BY <3>1 DEF Totals
      <4>3. QED
        BY <4>1, <4>2
    <3>4. CASE line["hits"] + line["misses"] # 0
      BY <3>2, <3>4 DEF Totals
    <3>5. QED
      BY <3>3, <3>4
  <2>4. \A c \in {"hits", "misses"} :
            lookups'[t][c] + total[c] + reported[c] + HeldBy(t, c) =
                lookups[t][c] + total'[c] + reported'[c] + HeldBy(t, c)'
    <3> SUFFICES ASSUME NEW c \in {"hits", "misses"}
                 PROVE  lookups'[t][c] + total[c] + reported[c] + HeldBy(t, c) =
                            lookups[t][c] + total'[c] + reported'[c] + HeldBy(t, c)'
      OBVIOUS
    <3>1. Unpublished(t)'[c] = Unpublished(t)[c] /\ Unpublished(t)[c] \in Nat
      BY <1>0, <2>1, <2>2, BatchRemainder, PerfCountersAssumption DEF Unpublished, Local
    <3>2. /\ lookups[t][c] \in Nat /\ total[c] \in Nat /\ reported[c] \in Nat /\ line[c] \in Nat
      BY <1>0, <2>1 DEF Types, Totals
    <3>3. thread'[t].line[c] = 0
      BY <2>2 DEF NoLine, Totals
    <3>4. HeldBy(t, c) = line[c] + Unpublished(t)[c] /\ HeldBy(t, c)' = 0 + Unpublished(t)[c]
      BY <3>1, <3>3 DEF HeldBy
    <3> HIDE DEF line
    <3>5. QED
      BY <2>2, <2>3, <3>1, <3>2, <3>4
  <2>5. SumsFinite' /\ NoLookupLost'
    BY <1>0, <1>1, <1>7, <2>4, BalanceStep DEF MaybeLog
  <2>6. LinesTaken'
    <3>1. thread'[t].line["hits"] = 0 /\ thread'[t].line["misses"] = 0
      BY <2>2 DEF NoLine, Totals
    <3>2. QED
      BY <1>0, <1>1, <1>7, <3>1 DEF LinesTaken, MaybeLog
  <2>7. QED
    BY <2>5, <2>6 DEF Balance
<1>8. CASE Tick \/ UNCHANGED vars
  <2>1. UNCHANGED <<total, reported, thread, lookups>>
    BY <1>8 DEF Tick, vars
  <2>2. \A c \in {"hits", "misses"} : LookedUp(c)' = LookedUp(c) /\ Held(c)' = Held(c)
    BY <2>1 DEF LookedUp, Held, Unpublished
  <2>3. SumsFinite' /\ NoLookupLost'
    BY <2>1, <2>2 DEF Balance, SumsFinite, NoLookupLost, Units, SumOver
  <2>4. QED
    BY <2>1, <2>3 DEF Balance, LinesTaken
<1>9. QED
  BY <1>2, <1>3, <1>4, <1>5, <1>6, <1>7, <1>8 DEF Next, MaybeLog

\* No lookup is lost or reported twice, for any number of threads and however
\* the four exchanges of a log line interleave with the publishes of others
\* (BSPreCulledObjectsPatchVR.cpp:645-675, 720-737).
THEOREM NoLookupLostHolds == Spec => []NoLookupLost
<1>1. Balance => NoLookupLost
  BY DEF Balance
<1>2. Spec => []Balance
  BY InitBalance, NextBalance, Invariance, PTL DEF Spec
<1>3. QED
  BY <1>1, <1>2, PTL
=============================================================================
