--------------------------- MODULE Consolidation ---------------------------
(***************************************************************************)
(* workers/consolidation.py as the job that ContextOS.consolidate gives to *)
(* the BackgroundRunner: list the memories of the namespace, have a model  *)
(* summarize them, write the summary as one more memory.  Each of the three*)
(* is awaited, so other jobs run and other memories are written between    *)
(* them; each may raise, and the runner then runs the whole job again.     *)
(*                                                                         *)
(* All jobs are for one namespace.  A summary is known by the job and the  *)
(* run that wrote it.  A definition introduced by "Fault:" is a            *)
(* deliberately wrong variant of the one after it; no specification uses   *)
(* it.                                                                     *)
(***************************************************************************)
EXTENDS Runner

CONSTANTS
    Memories,    \* what callers may write into the namespace
    MinCluster,  \* min_cluster
    ListLimit    \* the limit of the job's listing

ASSUME ClusterAssumption == MinCluster \in Nat \ {0} /\ ListLimit \in Nat

VARIABLES
    rows,      \* the memories written by callers
    written,   \* the summaries in the namespace: by a job's run, from how many rows
    step,      \* what the job that each drain is awaiting awaits
    size,      \* the number of rows it listed
    result     \* what each job returned: the number of sources

allVars == <<vars, rows, written, step, size, result>>

Summary == [by : Jobs, run : Nat, from : Nat]

TypeOKAll ==
    /\ TypeOK
    /\ rows \subseteq Memories /\ written \subseteq Summary
    /\ step \in [Drains -> {"list", "generate", "write"}]
    /\ size \in [Drains -> Nat]
    /\ result \in [Jobs -> Nat]

InitAll ==
    /\ Init
    /\ rows = {} /\ written = {}
    /\ step = [d \in Drains |-> "list"]
    /\ size = [d \in Drains |-> 0]
    /\ result = [j \in Jobs |-> 0]

-----------------------------------------------------------------------------

AtStep(d, s) == d \in Busy /\ step[d] = s

\* The next job the drain takes starts with its listing.
Restart(d) == step' = [step EXCEPT ![d] = "list"]

Job(d) == running[d].job

AddSummary(d) ==
    written' = written \cup {[by |-> Job(d), run |-> runs[Job(d)], from |-> size[d]]}

EnqueueJob(j) ==
    Enqueue(j) /\ UNCHANGED <<rows, written, step, size, result>>

DrainJobs(d) ==
    Drain(d) /\ Restart(d) /\ UNCHANGED <<rows, written, size, result>>

\* How many rows a listing of the namespace has now, earlier summaries included.
Listed ==
    LET n == Cardinality(rows) + Cardinality(written)
    IN  IF n <= ListLimit THEN n ELSE ListLimit

\* Fault: the number of rows is not looked at.
ListAny(d) ==
    /\ AtStep(d, "list")
    /\ step' = [step EXCEPT ![d] = "generate"]
    /\ size' = [size EXCEPT ![d] = Listed]
    /\ UNCHANGED <<vars, rows, written, result>>

\* The store answers.  Too few rows end the job, with 0.
List(d) ==
    /\ AtStep(d, "list")
    /\ IF Listed < MinCluster
         THEN /\ result' = [result EXCEPT ![Job(d)] = 0]
              /\ Succeed(d) /\ Restart(d) /\ UNCHANGED size
         ELSE /\ step' = [step EXCEPT ![d] = "generate"]
              /\ size' = [size EXCEPT ![d] = Listed]
              /\ UNCHANGED <<vars, result>>
    /\ UNCHANGED <<rows, written>>

\* Fault: an empty summary is asked for again, from the listing on, for ever.
GenerateAgain(d) ==
    /\ AtStep(d, "generate")
    /\ \E s \in {"write", "list"} : step' = [step EXCEPT ![d] = s]
    /\ UNCHANGED <<vars, rows, written, size, result>>

\* The model answers.
Generate(d) ==
    /\ AtStep(d, "generate")
    /\ step' = [step EXCEPT ![d] = "write"]
    /\ UNCHANGED <<vars, rows, written, size, result>>

\* Fault: a failure of the model ends the job as if it had been done.
FailsQuietly(d) ==
    /\ AtStep(d, "list") \/ AtStep(d, "generate")
    /\ result' = [result EXCEPT ![Job(d)] = size[d]]
    /\ Succeed(d) /\ Restart(d)
    /\ UNCHANGED <<rows, written, size>>

\* The store or the model raises, and so does the job.
Fails(d) ==
    /\ AtStep(d, "list") \/ AtStep(d, "generate")
    /\ Raise(d) /\ Restart(d)
    /\ UNCHANGED <<rows, written, size, result>>

\* The summary is written, and the job returns the number of its sources.
WriteSummary(d) ==
    /\ AtStep(d, "write")
    /\ AddSummary(d)
    /\ result' = [result EXCEPT ![Job(d)] = size[d]]
    /\ Succeed(d) /\ Restart(d)
    /\ UNCHANGED <<rows, size>>

\* The write raises, after the store has committed it or without.
WriteFails(d) ==
    /\ AtStep(d, "write")
    /\ AddSummary(d) \/ UNCHANGED written
    /\ Raise(d) /\ Restart(d)
    /\ UNCHANGED <<rows, size, result>>

\* The drain is cancelled, in a write before or after the store committed it.
CancelJob(d) ==
    /\ Cancel(d)
    /\ (step[d] = "write" /\ AddSummary(d)) \/ UNCHANGED written
    /\ UNCHANGED <<rows, step, size, result>>

\* Another memory is written in the namespace.
Remember ==
    /\ \E m \in Memories \ rows : rows' = rows \cup {m}
    /\ UNCHANGED <<vars, written, step, size, result>>

NextAll ==
    \/ \E j \in Jobs : EnqueueJob(j)
    \/ \E d \in Drains :
         \/ DrainJobs(d) \/ List(d) \/ Generate(d) \/ Fails(d)
         \/ WriteSummary(d) \/ WriteFails(d) \/ CancelJob(d)
    \/ Remember

\* Every await of a job ends one way or the other.  Callers need not enqueue,
\* write, call drain or cancel.
FairnessAll ==
    \A d \in Drains :
        WF_allVars(List(d) \/ Generate(d) \/ Fails(d) \/ WriteSummary(d) \/ WriteFails(d))

SpecAll == InitAll /\ [][NextAll]_allVars /\ FairnessAll

-----------------------------------------------------------------------------
(* What consolidation must guarantee.                                      *)

\* A job that reports n > 0 sources has left a summary of n sources in the store,
\* of at least MinCluster, by the run that succeeded - whatever became of the
\* runs before.
ReportedMeansWritten ==
    \A j \in Jobs : result[j] > 0 =>
        /\ j \in processed
        /\ [by |-> j, run |-> runs[j], from |-> result[j]] \in written
        /\ result[j] >= MinCluster

\* A job never leaves more summaries than it has runs, one per run, and each is
\* of memories and summaries that were there before it.
OneSummaryPerRun ==
    \A j \in Jobs :
        LET mine == {s \in written : s.by = j}
        IN  /\ \A s, t \in mine : s.run = t.run => s = t
            /\ \A s \in mine : s.run \in 1 .. MaxRetries + 1
            /\ \A s \in mine : s.from < Cardinality(rows) + Cardinality(written)

\* A job that has gone past its listing listed at least MinCluster rows, none of
\* which has gone since.
ListingStands ==
    \A d \in Busy : step[d] # "list" =>
        size[d] \in MinCluster .. Cardinality(rows) + Cardinality(written)

\* Summaries are of runs that have begun, and a run under way has left none yet.
SummariesOfRuns ==
    /\ \A s \in written : s.run \in 1 .. runs[s.by]
    /\ \A d \in Busy, s \in written : s.by = Job(d) => s.run < runs[Job(d)]

\* The inductive invariant: the runner keeps its books (Runner), and these.
IInvAll ==
    /\ TypeOKAll /\ IInv
    /\ IsFiniteSet(rows) /\ IsFiniteSet(written)
    /\ ListingStands /\ SummariesOfRuns
    /\ ReportedMeansWritten /\ OneSummaryPerRun

=============================================================================
