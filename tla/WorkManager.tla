----------------------------- MODULE WorkManager -----------------------------
(***************************************************************************)
(* The replacement of BSMTAManager's shared task counter: a submitting     *)
(* thread cuts the tasks of a batch into as many spans as there are jobs   *)
(* and keeps the last for itself; each worker takes one of the others with *)
(* a single atomic increment.                                              *)
(*                                                                         *)
(* External: Submit of the engine, which runs RegisterObjects once on each *)
(* worker and once on the submitting thread, any of which may submit the   *)
(* next batch when all are done.  The thread that submits may change.      *)
(***************************************************************************)
EXTENDS Naturals, FiniteSets

CONSTANTS
    Threads,        \* THREAD_COUNT threads
    MaxTasks,       \* bound: tasks of a batch
    MaxBatches      \* bound: batches

ASSUME WorkManagerAssumption ==
    /\ IsFiniteSet(Threads) /\ Threads # {} /\ "none" \notin Threads
    /\ MaxTasks \in Nat /\ MaxBatches \in Nat

VARIABLES
    proxyTasks,     \* the size of the engine's task array
    tid,            \* _tid
    spans,          \* _tasks: the first and the last index of each span
    idx,            \* _idx
    job,            \* what each thread is doing of its job
    executed,       \* how often each task of the batch was executed
    batches

workVars == <<proxyTasks, tid, spans, idx, job, executed, batches>>

THREAD_COUNT == Cardinality(Threads)

SpanIndices == 0 .. THREAD_COUNT - 1

NoSpan == [first |-> 1, last |-> 0]

WorkTypeOK ==
    /\ proxyTasks \in 0..MaxTasks /\ batches \in 0..MaxBatches
    /\ tid \in Threads \cup {"none"}
    /\ idx \in 0 .. THREAD_COUNT
    /\ DOMAIN spans = SpanIndices
    /\ \A t \in Threads : job[t].pc \in {"done", "split", "submit", "take", "run"}
    /\ executed \in [1..MaxTasks -> Nat]

\* No task has been submitted and no job is running.
WorkInit ==
    /\ proxyTasks = 0 /\ tid = "none" /\ idx = 0 /\ batches = 0
    /\ spans = [i \in SpanIndices |-> NoSpan]
    /\ job = [t \in Threads |-> [pc |-> "done", span |-> NoSpan]]
    /\ executed = [i \in 1..MaxTasks |-> 0]

-----------------------------------------------------------------------------

\* Defect: every span has the same size.
EqualSpans(n, size) ==
    [i \in 0 .. n - 1 |-> [first |-> i * (size \div n) + 1, last |-> (i + 1) * (size \div n)]]

\* SplitInterval: n spans of size \div n tasks; the last takes the rest.
SplitInterval(n, size) ==
    [i \in 0 .. n - 1 |->
        [first |-> i * (size \div n) + 1,
         last |-> IF i = n - 1 THEN size ELSE (i + 1) * (size \div n)]]

\* Submit::thunk on thread t, the engine having filled the array: reset() sets
\* the thread id, the spans and the index one after the other.
Submit(t, size) ==
    /\ batches < MaxBatches
    /\ \A u \in Threads : job[u].pc = "done"
    /\ batches' = batches + 1
    /\ proxyTasks' = size
    /\ executed' = [i \in 1..MaxTasks |-> 0]
    /\ tid' = t
    /\ job' = [job EXCEPT ![t].pc = "split"]
    /\ UNCHANGED <<spans, idx>>

ResetSpans(t) ==
    /\ job[t].pc = "split"
    /\ spans' = SplitInterval(THREAD_COUNT, proxyTasks)
    /\ job' = [job EXCEPT ![t].pc = "submit"]
    /\ UNCHANGED <<proxyTasks, tid, idx, executed, batches>>

\* The index is reset and the original Submit starts the jobs.
StartJobs(t) ==
    /\ job[t].pc = "submit"
    /\ idx' = 0
    /\ job' = [u \in Threads |-> [pc |-> "take", span |-> NoSpan]]
    /\ UNCHANGED <<proxyTasks, tid, spans, executed, batches>>

\* get_work: the submitting thread takes the back, any other the next span.
GetWork(t) ==
    /\ job[t].pc = "take"
    /\ IF t = tid
       THEN job' = [job EXCEPT ![t] = [pc |-> "run", span |-> spans[THREAD_COUNT - 1]]]
            /\ UNCHANGED idx
       ELSE job' = [job EXCEPT ![t] = [pc |-> "run", span |-> spans[idx]]]
            /\ idx' = idx + 1
    /\ UNCHANGED <<proxyTasks, tid, spans, executed, batches>>

\* The body of RegisterObjects' loop for one task, or its end.
ExecuteTask(t) ==
    /\ job[t].pc = "run"
    /\ LET s == job[t].span
       IN  IF s.first <= s.last
           THEN /\ executed' = [executed EXCEPT ![s.first] = @ + 1]
                /\ job' = [job EXCEPT ![t].span.first = @ + 1]
           ELSE /\ job' = [job EXCEPT ![t] = [pc |-> "done", span |-> NoSpan]]
                /\ UNCHANGED executed
    /\ UNCHANGED <<proxyTasks, tid, spans, idx, batches>>

WorkNext ==
    \E t \in Threads :
        \/ \E size \in 0..MaxTasks : Submit(t, size)
        \/ ResetSpans(t) \/ StartJobs(t) \/ GetWork(t) \/ ExecuteTask(t)

WorkSpec == WorkInit /\ [][WorkNext]_workVars

-----------------------------------------------------------------------------

(***************************************************************************)
(* The spans hand every task of a batch to exactly one thread, whatever    *)
(* the number of tasks and the order of the workers: no task has been run  *)
(* twice, and when all jobs are done each has been run.  A worker never    *)
(* finds the index beyond its spans (the assert in get_work).              *)
(***************************************************************************)
EachTaskOnce ==
    /\ \A i \in 1..MaxTasks : executed[i] <= 1
    /\ (\A t \in Threads : job[t].pc = "done") =>
          \A i \in 1..MaxTasks : executed[i] = IF i <= proxyTasks THEN 1 ELSE 0
    /\ \A t \in Threads : job[t].pc = "take" /\ t # tid => idx < THREAD_COUNT - 1
=============================================================================
