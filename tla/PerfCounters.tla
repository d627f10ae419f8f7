---------------------------- MODULE PerfCounters ----------------------------
(***************************************************************************)
(* The lookup statistics of the VR patch's Get3DForID hook.  Each culling  *)
(* thread counts its hits and misses in thread-local counters and          *)
(* publishes them in batches; a publish that finds the total on a gate     *)
(* boundary may write a log line, which takes the four totals one by one   *)
(* while other threads go on publishing.                                   *)
(***************************************************************************)
EXTENDS Naturals, FiniteSets

CONSTANTS
    Threads,
    BatchSize,      \* kBatchSize, 64
    SentinelPeriod, \* kSentinelMask + 1, 4096
    GatePeriod,     \* kLogGateMask + 1, 16384
    CounterModulus, \* 2^32, the width of tlsMisses
    LogInterval,    \* kLogIntervalSeconds, in ticks of the clock
    MaxLookups,     \* bound: lookups of each thread
    MaxTime         \* bound: the clock

\* The static_asserts of the code, and the width of its integers.
ASSUME PerfCountersAssumption ==
    /\ IsFiniteSet(Threads)
    /\ {BatchSize, SentinelPeriod, GatePeriod, CounterModulus} \subseteq Nat \ {0}
    /\ GatePeriod % BatchSize = 0
    /\ SentinelPeriod % BatchSize = 0
    /\ CounterModulus % SentinelPeriod = 0
    /\ LogInterval \in Nat /\ MaxLookups \in Nat /\ MaxTime \in Nat \ {0}

Totals == {"hits", "misses", "ghost", "real"}

VARIABLES
    total,          \* the four atomic counters
    lastLogTime,    \* 0 until the first gate
    clock,          \* steady_clock::now()
    thread,         \* thread-local counters and position of each thread
    reported,       \* history: the sums of all log lines
    lookups,        \* history: what each thread looked up
    published       \* history: published since a gate last opened

vars == <<total, lastLogTime, clock, thread, reported, lookups, published>>

NoLine == [c \in Totals |-> 0]

Init ==
    /\ total = NoLine
    /\ lastLogTime = 0
    /\ clock = 1
    /\ thread = [t \in Threads |->
                    [pc |-> "idle", tlsHits |-> 0, tlsMisses |-> 0, sentinel |-> FALSE,
                     now |-> 0, prev |-> 0, line |-> NoLine]]
    /\ reported = NoLine
    /\ lookups = [t \in Threads |-> NoLine]
    /\ published = [c \in {"hits", "misses"} |-> 0]

-----------------------------------------------------------------------------
(* HookedGet3DForID *)

\* The publish adds n and yields the total before it: the gate opens on a
\* multiple of its period, which the totals meet because n divides it.
Publish(c, n) ==
    /\ total' = [total EXCEPT ![c] = @ + n]
    /\ published' = [published EXCEPT ![c] = IF total[c] % GatePeriod = 0 THEN n ELSE @ + n]

GateOpens(c) == total[c] % GatePeriod = 0

Looked(t, c) ==
    /\ thread[t].pc = "idle"
    /\ lookups[t]["hits"] + lookups[t]["misses"] < MaxLookups
    /\ lookups' = [lookups EXCEPT ![t][c] = @ + 1]

\* Defect: > for >=, so one hit more than a batch is published.
BatchExceeded(n) == n > BatchSize

BatchFull(n) == n >= BatchSize

Hit(t) ==
    LET n == thread[t].tlsHits + 1
    IN  /\ Looked(t, "hits")
        /\ IF BatchFull(n)
           THEN /\ Publish("hits", n)
                /\ thread' = [thread EXCEPT ![t].tlsHits = 0,
                                            ![t].pc = IF GateOpens("hits") THEN "log" ELSE "idle"]
           ELSE /\ thread' = [thread EXCEPT ![t].tlsHits = n]
                /\ UNCHANGED <<total, published>>
        /\ UNCHANGED <<lastLogTime, clock, reported>>

\* Defect: the thread-local counter saturates one below its width.
SaturatingIncrement(n) == IF n = CounterModulus - 1 THEN n ELSE n + 1

Increment(n) == (n + 1) % CounterModulus

\* tlsMisses is never reset: every BatchSize-th miss publishes, and every
\* SentinelPeriod-th also asks the stock table.
Miss(t) ==
    LET n == Increment(thread[t].tlsMisses)
        full == n % BatchSize = 0
        sentinel == n % SentinelPeriod = 0
    IN  /\ Looked(t, "misses")
        /\ thread' = [thread EXCEPT
                         ![t].tlsMisses = n,
                         ![t].sentinel = sentinel,
                         ![t].pc = IF full /\ GateOpens("misses") THEN "log"
                                   ELSE IF sentinel THEN "sentinel" ELSE "idle"]
        /\ IF full THEN Publish("misses", BatchSize) ELSE UNCHANGED <<total, published>>
        /\ UNCHANGED <<lastLogTime, clock, reported>>

\* The stock table has the object (a real miss) or lacks it too (a ghost).
Sentinel(t) ==
    /\ thread[t].pc = "sentinel"
    /\ thread' = [thread EXCEPT ![t].pc = "idle", ![t].sentinel = FALSE]
    /\ \E c \in {"ghost", "real"} :
          /\ total' = [total EXCEPT ![c] = @ + 1]
          /\ lookups' = [lookups EXCEPT ![t][c] = @ + 1]
    /\ UNCHANGED <<lastLogTime, clock, reported, published>>

-----------------------------------------------------------------------------
(* maybeLog *)

\* Leaving maybeLog, the hook goes on to its sentinel check.
Leave(t) == IF thread[t].sentinel THEN "sentinel" ELSE "idle"

ReadTimes(t) ==
    /\ thread[t].pc = "log"
    /\ thread' = [thread EXCEPT
                     ![t].now = clock, ![t].prev = lastLogTime,
                     ![t].pc = IF lastLogTime = 0 THEN "first"
                               ELSE IF clock < lastLogTime + LogInterval THEN Leave(t)
                               ELSE "exchange"]
    /\ UNCHANGED <<total, lastLogTime, clock, reported, lookups, published>>

\* The first gate only starts the interval, with a plain store.
FirstTime(t) ==
    /\ thread[t].pc = "first"
    /\ lastLogTime' = thread[t].now
    /\ thread' = [thread EXCEPT ![t].pc = Leave(t)]
    /\ UNCHANGED <<total, clock, reported, lookups, published>>

CompareExchange(t) ==
    /\ thread[t].pc = "exchange"
    /\ IF lastLogTime = thread[t].prev
       THEN /\ lastLogTime' = thread[t].now
            /\ thread' = [thread EXCEPT ![t].pc = "hits"]
       ELSE /\ thread' = [thread EXCEPT ![t].pc = Leave(t)]
            /\ UNCHANGED lastLogTime
    /\ UNCHANGED <<total, clock, reported, lookups, published>>

After(c) ==
    CASE c = "hits" -> "misses" [] c = "misses" -> "ghost" [] c = "ghost" -> "real"
      [] c = "real" -> "report"

\* Defect: load for exchange, so what was reported is reported again.
LoadTotal(t) ==
    \E c \in Totals :
        /\ thread[t].pc = c
        /\ total' = total
        /\ thread' = [thread EXCEPT ![t].line[c] = total[c], ![t].pc = After(c)]
        /\ UNCHANGED <<lastLogTime, clock, reported, lookups, published>>

\* exchange(0) on one total after the other.
TakeTotal(t) ==
    \E c \in Totals :
        /\ thread[t].pc = c
        /\ total' = [total EXCEPT ![c] = 0]
        /\ thread' = [thread EXCEPT ![t].line[c] = total[c], ![t].pc = After(c)]
        /\ UNCHANGED <<lastLogTime, clock, reported, lookups, published>>

\* The line is written, unless no lookup was published: then the sentinel
\* counts it took are dropped with it.
Report(t) ==
    LET line == thread[t].line
    IN  /\ thread[t].pc = "report"
        /\ reported' = IF line["hits"] + line["misses"] = 0 THEN reported
                       ELSE [c \in Totals |-> reported[c] + line[c]]
        /\ thread' = [thread EXCEPT ![t].line = NoLine, ![t].pc = Leave(t)]
        /\ UNCHANGED <<total, lastLogTime, clock, lookups, published>>

MaybeLog(t) ==
    ReadTimes(t) \/ FirstTime(t) \/ CompareExchange(t) \/ TakeTotal(t) \/ Report(t)

Tick ==
    /\ clock < MaxTime
    /\ clock' = clock + 1
    /\ UNCHANGED <<total, lastLogTime, thread, reported, lookups, published>>

Next == (\E t \in Threads : Hit(t) \/ Miss(t) \/ Sentinel(t) \/ MaybeLog(t)) \/ Tick

Spec == Init /\ [][Next]_vars

-----------------------------------------------------------------------------
(* Correctness *)

\* The sum of f over the threads: the pairs of a thread and one of its units.
Units(f) == UNION {{t} \X (1..f[t]) : t \in Threads}

SumOver(f) == Cardinality(Units(f))

TypeOK ==
    /\ total \in [Totals -> Nat] /\ reported \in [Totals -> Nat]
    /\ lastLogTime \in 0..MaxTime /\ clock \in 1..MaxTime
    /\ \A t \in Threads : thread[t].tlsHits \in 0..(BatchSize - 1)
                          /\ thread[t].tlsMisses \in 0..(CounterModulus - 1)

Unpublished(t) ==
    [hits |-> thread[t].tlsHits, misses |-> thread[t].tlsMisses % BatchSize]

LookedUp(c) == [t \in Threads |-> lookups[t][c]]

\* In a line being written, or not published yet.
Held(c) == [t \in Threads |-> thread[t].line[c] + Unpublished(t)[c]]

(***************************************************************************)
(* No lookup is lost or reported twice, although four totals are taken one *)
(* by one while other threads publish: what was looked up is in a total,   *)
(* in a line (written or being written) or not published yet               *)
(* (BSPreCulledObjectsPatchVR.cpp:645-675, 720-737).                       *)
(***************************************************************************)
NoLookupLost ==
    \A c \in {"hits", "misses"} :
        SumOver(LookedUp(c)) = total[c] + reported[c] + SumOver(Held(c))

(***************************************************************************)
(* Every SentinelPeriod-th miss of a thread asks the stock table, also     *)
(* after its uint32 counter has wrapped around                             *)
(* (BSPreCulledObjectsPatchVR.cpp:730-748).                                *)
(***************************************************************************)
SentinelsCounted ==
    \A t \in Threads :
        lookups[t]["misses"] \div SentinelPeriod =
            lookups[t]["ghost"] + lookups[t]["real"] + (IF thread[t].sentinel THEN 1 ELSE 0)

(***************************************************************************)
(* "The hit-path log gate only trips when the published hit total lands    *)
(* exactly on a kLogGateMask boundary" (628-631): it does, at least once   *)
(* every GatePeriod lookups, whatever log lines reset in between.          *)
(***************************************************************************)
GateNeverSkipped == \A c \in {"hits", "misses"} : published[c] <= GatePeriod
=============================================================================
