------------------------------ MODULE Platform ------------------------------
(***************************************************************************)
(* The platform services on one SQLite database: processes that serve the  *)
(* /v2 API (jobs, artifact registry, audit) and workers of the job queue.  *)
(* A SELECT opens no transaction in Python's sqlite3: what was selected    *)
(* may be stale when the UPDATE that follows it commits.                   *)
(***************************************************************************)
EXTENDS Integers, Sequences, FiniteSets

CONSTANTS
    Workers, Servers,
    Kinds,        \* job types
    Handled,      \* those the worker has a handler for
    Attempts,     \* the max_attempts a client may ask for
    Artifacts,    \* type, name and version of an artifact
    Asked,        \* the stages clients ask for
    MaxJobs,      \* bound: jobs enqueued
    MaxRecords,   \* bound: artifacts registered
    MaxDeaths     \* bound: processes that die

ASSUME PlatformAssumption ==
    /\ Handled \subseteq Kinds
    /\ Attempts \subseteq Nat \ {0}
    /\ Workers \cap Servers = {} /\ IsFiniteSet(Workers)
    /\ MaxJobs \in Nat /\ MaxRecords \in Nat /\ MaxDeaths \in Nat

Processes == Workers \cup Servers
Stages == {"experimental", "shadow", "staging", "production", "archived"}
Accepted == Asked \cap Stages

VARIABLES
    migrated,   \* version 1 is in schema_migrations
    jobs,       \* the jobs, in the order they were enqueued
    records,    \* the registry: artifact -> stage
    audited,    \* the resources that platform_audit tells of
    pc,         \* where each process is
    job,        \* the job a worker selected; what a server has to audit
    counted,    \* the attempts that fail() read
    runs,       \* history: how often the handler was run for a job
    lost,       \* history: the resources a server died on before it audited them
    deaths

procVars == <<pc, job, counted>>
vars == <<migrated, jobs, records, audited, procVars, runs, lost, deaths>>

None == << >>
Job(n) == <<"job", n>>
Record(a) == <<"record", a>>

Init ==
    /\ migrated \in BOOLEAN
    /\ jobs = << >>
    /\ records = << >>
    /\ audited = {}
    /\ pc = [p \in Processes |-> "down"]
    /\ job = [p \in Processes |-> None]
    /\ counted = [w \in Workers |-> 0]
    /\ runs = << >>
    /\ lost = {}
    /\ deaths = 0

Goto(p, where) == pc' = [pc EXCEPT ![p] = where]

-----------------------------------------------------------------------------
(* MigrationRunner.apply, when a process starts.                           *)

ReadVersions(p) ==
    /\ pc[p] = "down"
    /\ Goto(p, IF migrated THEN "idle" ELSE "migrate")
    /\ UNCHANGED <<migrated, jobs, records, audited, job, counted, runs, lost, deaths>>

\* The tables are created if they do not exist; the version is inserted, which
\* the primary key refuses to the second of two processes: it does not start.
RecordVersion(p) ==
    /\ pc[p] = "migrate"
    /\ migrated' = TRUE
    /\ Goto(p, IF migrated THEN "down" ELSE "idle")
    /\ UNCHANGED <<jobs, records, audited, job, counted, runs, lost, deaths>>

-----------------------------------------------------------------------------
(* The servers: a row and its audit event are two transactions.            *)

Audit(s, resource) ==
    /\ job' = [job EXCEPT ![s] = resource]
    /\ Goto(s, "audit")

CreateJob(s) ==
    /\ pc[s] = "idle" /\ Len(jobs) < MaxJobs
    /\ \E kind \in Kinds, max \in Attempts :
        jobs' = Append(jobs, [kind |-> kind, status |-> "queued", attempts |-> 0, max |-> max])
    /\ runs' = Append(runs, 0)
    /\ Audit(s, Job(Len(jobs) + 1))
    /\ UNCHANGED <<migrated, records, audited, counted, lost, deaths>>

\* Mutant: the event is written first; the server dies before the row.
RegisterAudited(s) ==
    /\ pc[s] = "idle" /\ Cardinality(DOMAIN records) < MaxRecords
    /\ \E a \in Artifacts : audited' = audited \cup {Record(a)}
    /\ UNCHANGED <<migrated, jobs, records, procVars, runs, lost, deaths>>

\* UNIQUE(artifact_type, name, version) refuses a second registration.
Register(s) ==
    /\ pc[s] = "idle" /\ Cardinality(DOMAIN records) < MaxRecords
    /\ \E a \in Artifacts \ DOMAIN records, stage \in Accepted :
        /\ records' = [r \in DOMAIN records \cup {a} |-> IF r = a THEN stage ELSE records[r]]
        /\ Audit(s, Record(a))
    /\ UNCHANGED <<migrated, jobs, audited, counted, runs, lost, deaths>>

AppendEvent(s) ==
    /\ pc[s] = "audit"
    /\ audited' = audited \cup {job[s]}
    /\ job' = [job EXCEPT ![s] = None]
    /\ Goto(s, "idle")
    /\ UNCHANGED <<migrated, jobs, records, counted, runs, lost, deaths>>

\* ArtifactRegistry.promote checks the name of the stage and nothing else.
Promote(s) ==
    /\ pc[s] = "idle"
    /\ \E a \in DOMAIN records, stage \in Accepted :
        records' = [records EXCEPT ![a] = stage]
    /\ UNCHANGED <<migrated, jobs, audited, procVars, runs, lost, deaths>>

-----------------------------------------------------------------------------
(* The workers: Worker.run_once in a loop.                                 *)

Takeable(n) == n \in DOMAIN jobs /\ jobs[n].status = "queued" /\ jobs[n].attempts < jobs[n].max

\* ORDER BY created_at LIMIT 1.
OldestOf(S) == {n \in S : \A m \in S : n <= m}

\* Mutant: max_attempts is not asked for.
TakeQueued(w) ==
    /\ pc[w] = "idle"
    /\ \E n \in OldestOf({m \in DOMAIN jobs : jobs[m].status = "queued"}) :
        job' = [job EXCEPT ![w] = Job(n)]
    /\ Goto(w, "claim")
    /\ UNCHANGED <<migrated, jobs, records, audited, counted, runs, lost, deaths>>

\* Mutant: a job is tried once.
TakeFresh(w) ==
    /\ pc[w] = "idle"
    /\ \E n \in OldestOf({m \in DOMAIN jobs : Takeable(m) /\ jobs[m].attempts = 0}) :
        job' = [job EXCEPT ![w] = Job(n)]
    /\ Goto(w, "claim")
    /\ UNCHANGED <<migrated, jobs, records, audited, counted, runs, lost, deaths>>

\* claim_next's SELECT.
SelectJob(w) ==
    /\ pc[w] = "idle"
    /\ \E n \in OldestOf({m \in DOMAIN jobs : Takeable(m)}) : job' = [job EXCEPT ![w] = Job(n)]
    /\ Goto(w, "claim")
    /\ UNCHANGED <<migrated, jobs, records, audited, counted, runs, lost, deaths>>

Selected(w) == job[w][2]

\* claim_next's UPDATE: by the job's id, whatever its state has become.  A job
\* of a type without a handler is failed at once.
ClaimJob(w) ==
    /\ pc[w] = "claim"
    /\ jobs' = [jobs EXCEPT ![Selected(w)].status = "running",
                            ![Selected(w)].attempts = @ + 1]
    /\ Goto(w, IF jobs[Selected(w)].kind \in Handled THEN "run" ELSE "fail")
    /\ UNCHANGED <<migrated, records, audited, job, counted, runs, lost, deaths>>

\* The handler returns or raises.
RunHandler(w) ==
    /\ pc[w] = "run"
    /\ runs' = [runs EXCEPT ![Selected(w)] = @ + 1]
    /\ \E end \in {"finish", "fail"} : Goto(w, end)
    /\ UNCHANGED <<migrated, jobs, records, audited, job, counted, lost, deaths>>

Finish(w) ==
    /\ pc[w] = "finish"
    /\ jobs' = [jobs EXCEPT ![Selected(w)].status = "completed"]
    /\ Goto(w, "idle")
    /\ job' = [job EXCEPT ![w] = None]
    /\ UNCHANGED <<migrated, records, audited, counted, runs, lost, deaths>>

\* fail's SELECT ...
ReadAttempts(w) ==
    /\ pc[w] = "fail"
    /\ counted' = [counted EXCEPT ![w] = jobs[Selected(w)].attempts]
    /\ Goto(w, "settle")
    /\ UNCHANGED <<migrated, jobs, records, audited, job, runs, lost, deaths>>

\* ... and its UPDATE, from the attempts it read.
Settle(w) ==
    /\ pc[w] = "settle"
    /\ jobs' = [jobs EXCEPT ![Selected(w)].status =
                    IF counted[w] >= jobs[Selected(w)].max THEN "failed" ELSE "queued"]
    /\ counted' = [counted EXCEPT ![w] = 0]
    /\ Goto(w, "idle")
    /\ job' = [job EXCEPT ![w] = None]
    /\ UNCHANGED <<migrated, records, audited, runs, lost, deaths>>

\* A process dies; its uncommitted transaction goes with it.
Die(p) ==
    /\ pc[p] # "down" /\ deaths < MaxDeaths
    /\ deaths' = deaths + 1
    /\ lost' = IF pc[p] = "audit" THEN lost \cup {job[p]} ELSE lost
    /\ job' = [job EXCEPT ![p] = None]
    /\ counted' = [w \in Workers |-> IF w = p THEN 0 ELSE counted[w]]
    /\ Goto(p, "down")
    /\ UNCHANGED <<migrated, jobs, records, audited, runs>>

-----------------------------------------------------------------------------

Start(p) == ReadVersions(p) \/ RecordVersion(p)
Serve(s) == CreateJob(s) \/ Register(s) \/ AppendEvent(s) \/ Promote(s)
Work(w) ==
    \/ SelectJob(w) \/ ClaimJob(w) \/ RunHandler(w)
    \/ Finish(w) \/ ReadAttempts(w) \/ Settle(w)

Next ==
    \/ \E p \in Processes : Start(p) \/ Die(p)
    \/ \E s \in Servers : Serve(s)
    \/ \E w \in Workers : Work(w)

Spec == Init /\ [][Next]_vars

\* A worker that is up loops; nothing in the code restarts one that died.
FairSpec == Spec /\ \A w \in Workers : WF_vars(Work(w) \/ RecordVersion(w))

-----------------------------------------------------------------------------
(* Properties                                                              *)

\* The types of the variables.
TypeOK ==
    /\ migrated \in BOOLEAN
    /\ jobs \in Seq([kind : Kinds, status : {"queued", "running", "completed", "failed"},
                    attempts : Nat, max : Attempts])
    /\ runs \in Seq(Nat) /\ Len(runs) = Len(jobs)
    /\ DOMAIN records \subseteq Artifacts
    /\ pc \in [Processes -> {"down", "migrate", "idle", "audit", "claim", "run", "finish",
                            "fail", "settle"}]
    /\ DOMAIN job = Processes
    /\ \A w \in Workers :
        pc[w] \in {"claim", "run", "finish", "fail", "settle"} =>
            \E n \in DOMAIN jobs : job[w] = Job(n)
    /\ counted \in [Workers -> Nat]

\* Workers that race for one job, fail it with stale counts and put it back into
\* the queue exceed max_attempts by at most the workers that had selected it;
\* no handler runs without an attempt having been counted; and a job ends as it
\* ran: none is completed whose handler never ran, none is given up early.
AttemptsAccountedFor ==
    \A n \in DOMAIN jobs :
        /\ jobs[n].attempts <= jobs[n].max + Cardinality(Workers) - 1
        /\ runs[n] <= jobs[n].attempts
        /\ jobs[n].status = "completed" => runs[n] > 0
        /\ jobs[n].status = "failed" => jobs[n].attempts >= jobs[n].max

\* The audit tells of nothing that was refused or never stored; what is stored
\* and not told of is about to be, or its server died in between.
AuditTellsTheTruth ==
    LET stored == {Job(n) : n \in DOMAIN jobs} \cup {Record(a) : a \in DOMAIN records}
    IN  /\ audited \subseteq stored
        /\ stored \ audited \subseteq lost \cup {job[s] : s \in Servers}

\* While a worker is up, a queued job with attempts left is taken: the dead
\* and the double claims of the others cannot starve it.
QueuedJobsAreTaken ==
    \A n \in 1..MaxJobs :
        Takeable(n) ~> (~ Takeable(n) \/ \A w \in Workers : pc[w] = "down")
=============================================================================
