------------------------------- MODULE Runner -------------------------------
(***************************************************************************)
(* workers/runner.py: BackgroundRunner.  Jobs are enqueued on one queue,   *)
(* and any number of drain() calls consume it together.  A drain lets go   *)
(* of the event loop only in "await job()", so each action below ends the  *)
(* job a drain is awaiting, settles its outcome, and takes the next one.   *)
(*                                                                         *)
(* A definition introduced by "Fault:" is a deliberately wrong variant of  *)
(* the one after it; no specification uses it.                             *)
(***************************************************************************)
EXTENDS Integers, Sequences, FiniteSets

CONSTANTS
    Jobs,        \* each is enqueued at most once
    Drains,      \* callers of drain()
    MaxRetries   \* max_retries

ASSUME RetriesAssumption == MaxRetries \in Nat

VARIABLES
    queue,       \* (job, attempt) pairs, oldest first
    running,     \* the pair each drain is awaiting, or Nothing
    unfinished,  \* asyncio.Queue's count of puts without a task_done
    processed,   \* jobs that succeeded
    failed,      \* jobs given up after their last retry
    runs,        \* how often each job was started
    enqueued     \* the jobs enqueued so far

vars == <<queue, running, unfinished, processed, failed, runs, enqueued>>

Item == [job : Jobs, attempt : Nat]
Nothing == [attempt |-> -1]

Queued  == {queue[i].job : i \in 1 .. Len(queue)}
Busy    == {d \in Drains : running[d] # Nothing}
Running == {running[d].job : d \in Busy}

TypeOK ==
    /\ queue \in Seq(Item)
    /\ running \in [Drains -> Item \cup {Nothing}]
    /\ unfinished \in Int
    /\ processed \subseteq Jobs
    /\ failed \subseteq Jobs
    /\ runs \in [Jobs -> Nat]
    /\ enqueued \subseteq Jobs

Init ==
    /\ queue = <<>>
    /\ running = [d \in Drains |-> Nothing]
    /\ unfinished = 0
    /\ processed = {}
    /\ failed = {}
    /\ runs = [j \in Jobs |-> 0]
    /\ enqueued = {}

\* enqueue: a new job goes to the tail.
Enqueue(j) ==
    /\ j \notin enqueued
    /\ enqueued' = enqueued \cup {j}
    /\ queue' = Append(queue, [job |-> j, attempt |-> 0])
    /\ unfinished' = unfinished + 1
    /\ UNCHANGED <<running, processed, failed, runs>>

\* The loop's test, get_nowait and the start of the job, with q the queue: the
\* drain returns if q is empty, and takes its head otherwise.
TakeFrom(d, q) ==
    IF q = <<>>
      THEN /\ queue' = q
           /\ running' = [running EXCEPT ![d] = Nothing]
           /\ UNCHANGED runs
      ELSE /\ queue' = Tail(q)
           /\ running' = [running EXCEPT ![d] = Head(q)]
           /\ runs' = [runs EXCEPT ![Head(q).job] = @ + 1]

\* drain is called; with nothing queued it returns 0 at once and changes nothing.
Drain(d) ==
    /\ d \notin Busy /\ queue # <<>>
    /\ TakeFrom(d, queue)
    /\ UNCHANGED <<unfinished, processed, failed, enqueued>>

\* The awaited job returns.
Succeed(d) ==
    /\ d \in Busy
    /\ processed' = processed \cup {running[d].job}
    /\ unfinished' = unfinished - 1
    /\ TakeFrom(d, queue)
    /\ UNCHANGED <<failed, enqueued>>

\* Fault: a retry starts at attempt 0 again.
RaiseResets(d) ==
    /\ d \in Busy
    /\ TakeFrom(d, Append(queue, [running[d] EXCEPT !.attempt = 0]))
    /\ UNCHANGED <<unfinished, processed, failed, enqueued>>

\* The awaited job raises: it goes to the tail with one more attempt, or is
\* given up; either way it is acknowledged, and the retry counts as a new put.
Raise(d) ==
    LET item  == running[d]
        retry == item.attempt < MaxRetries
    IN  /\ d \in Busy
        /\ failed' = IF retry THEN failed ELSE failed \cup {item.job}
        /\ unfinished' = IF retry THEN unfinished ELSE unfinished - 1
        /\ TakeFrom(d, IF retry THEN Append(queue, [item EXCEPT !.attempt = @ + 1]) ELSE queue)
        /\ UNCHANGED <<processed, enqueued>>

\* The drain is cancelled: CancelledError is no Exception, so only the finally
\* clause runs, and the error ends the drain.
Cancel(d) ==
    /\ d \in Busy
    /\ unfinished' = unfinished - 1
    /\ running' = [running EXCEPT ![d] = Nothing]
    /\ UNCHANGED <<queue, processed, failed, runs, enqueued>>

Next ==
    \/ \E j \in Jobs : Enqueue(j)
    \/ \E d \in Drains : Drain(d) \/ Succeed(d) \/ Raise(d) \/ Cancel(d)

\* Every job ends one way or the other.
Fairness == \A d \in Drains : WF_vars(Succeed(d) \/ Raise(d))

Spec == Init /\ [][Next]_vars /\ Fairness

-----------------------------------------------------------------------------
(* What the runner must guarantee.                                         *)

\* No job is in two hands: concurrent drains never run the same job at once, nor
\* is a job queued for a retry while it still runs or after it has ended.
JobInOnePlace ==
    /\ \A i, j \in 1 .. Len(queue) : queue[i].job = queue[j].job => i = j
    /\ \A d, e \in Busy : running[d].job = running[e].job => d = e
    /\ Queued \cap Running = {}
    /\ (Queued \cup Running) \cap (processed \cup failed) = {}
    /\ processed \cap failed = {}

\* The join counter is exact, through retries and cancellations: a join() waits
\* for what is queued or running and for nothing else.
JoinCountIsExact ==
    IsFiniteSet(Busy) /\ unfinished = Len(queue) + Cardinality(Busy)

\* A job is started at most MaxRetries + 1 times, and given up only after all of
\* them: the attempt that travels with it in the queue counts its runs.
RetriesAreExact ==
    /\ \A i \in 1 .. Len(queue) : /\ queue[i].attempt = runs[queue[i].job]
                                  /\ queue[i].attempt <= MaxRetries
    /\ \A d \in Busy : running[d].attempt + 1 = runs[running[d].job]
    /\ \A j \in Jobs : runs[j] <= MaxRetries + 1
    /\ \A j \in failed : runs[j] = MaxRetries + 1

\* The inductive invariant: besides these, nothing is known of a job that has
\* not been enqueued.
OnlyEnqueued ==
    /\ Queued \cup Running \cup processed \cup failed \subseteq enqueued
    /\ \A j \in Jobs \ enqueued : runs[j] = 0

IInv == TypeOK /\ OnlyEnqueued /\ JobInOnePlace /\ JoinCountIsExact /\ RetriesAreExact

\* Every drain ends, retries included, once no new jobs arrive.
EveryDrainEnds ==
    \A d \in Drains : d \in Busy ~> d \notin Busy

-----------------------------------------------------------------------------
(* What the documents say and the code does not do.                        *)

\* runner.py:4-5: "explicit ack and at-least-once retry".  A job that is no longer
\* queued or running has succeeded or used up its retries.
AtLeastOnce ==
    enqueued \subseteq Queued \cup Running \cup processed \cup failed

=============================================================================
