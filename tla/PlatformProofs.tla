--------------------------- MODULE PlatformProofs ---------------------------
(***************************************************************************)
(* What TLAPS proves of Platform for every number of workers and servers,  *)
(* every set of job types and attempts, and every bound.                   *)
(***************************************************************************)
EXTENDS Platform, FiniteSetTheorems, TLAPS

JobRecord == [kind : Kinds, status : {"queued", "running", "completed", "failed"},
              attempts : Nat, max : Attempts]

\* A resource names one job.
LEMMA JobsDiffer ==
    \A m, n : Job(m) = Job(n) => m = n
BY DEF Job

\* The job a worker selected is the one its resource names.
LEMMA SelectedIs ==
    ASSUME NEW w \in Workers, NEW n, job[w] = Job(n)
    PROVE  Selected(w) = n
BY DEF Selected, Job

\* What is left when one job of the queue is replaced.
LEMMA OneReplaced ==
    ASSUME NEW S, NEW q \in Seq(S), NEW n \in DOMAIN q, NEW r \in S,
           NEW qq, qq = [q EXCEPT ![n] = r]
    PROVE  /\ qq \in Seq(S) /\ DOMAIN qq = DOMAIN q /\ Len(qq) = Len(q)
           /\ \A m \in DOMAIN q : qq[m] = IF m = n THEN r ELSE q[m]
OBVIOUS

\* Setting the status of one job leaves the attempts of every job.
LEMMA StatusSet ==
    ASSUME jobs \in Seq(JobRecord), NEW n \in DOMAIN jobs,
           NEW st \in {"queued", "running", "completed", "failed"},
           jobs' = [jobs EXCEPT ![n].status = st]
    PROVE  /\ jobs' \in Seq(JobRecord) /\ DOMAIN jobs' = DOMAIN jobs /\ Len(jobs') = Len(jobs)
           /\ \A m \in DOMAIN jobs : /\ jobs'[m].attempts = jobs[m].attempts
                                     /\ jobs'[m].max = jobs[m].max
                                     /\ jobs'[m].status = IF m = n THEN st ELSE jobs[m].status
<1> DEFINE j == [jobs[n] EXCEPT !.status = st]
<1>1. jobs[n] \in JobRecord
    OBVIOUS
<1>2. j \in JobRecord /\ j.attempts = jobs[n].attempts /\ j.max = jobs[n].max /\ j.status = st
    BY <1>1 DEF JobRecord
<1>3. jobs' = [jobs EXCEPT ![n] = j]
    OBVIOUS
<1> HIDE DEF j
<1> QED
    BY <1>2, <1>3, OneReplaced

\* A claim counts one attempt of the job it takes and leaves the others.
LEMMA JobClaimed ==
    ASSUME jobs \in Seq(JobRecord), NEW n \in DOMAIN jobs,
           jobs' = [jobs EXCEPT ![n].status = "running", ![n].attempts = @ + 1]
    PROVE  /\ jobs' \in Seq(JobRecord) /\ DOMAIN jobs' = DOMAIN jobs /\ Len(jobs') = Len(jobs)
           /\ \A m \in DOMAIN jobs :
                /\ jobs'[m].attempts = IF m = n THEN jobs[m].attempts + 1 ELSE jobs[m].attempts
                /\ jobs'[m].max = jobs[m].max
                /\ jobs'[m].status = IF m = n THEN "running" ELSE jobs[m].status
<1> DEFINE j == [[jobs[n] EXCEPT !.status = "running"] EXCEPT !.attempts = @ + 1]
<1>1. jobs[n] \in JobRecord
    OBVIOUS
<1>2. /\ j \in JobRecord /\ j.attempts = jobs[n].attempts + 1
      /\ j.max = jobs[n].max /\ j.status = "running"
    BY <1>1 DEF JobRecord
<1>3. jobs' = [jobs EXCEPT ![n] = j]
    OBVIOUS
<1> HIDE DEF j
<1>4. /\ jobs' \in Seq(JobRecord) /\ DOMAIN jobs' = DOMAIN jobs /\ Len(jobs') = Len(jobs)
      /\ \A m \in DOMAIN jobs : jobs'[m] = IF m = n THEN j ELSE jobs[m]
    BY ONLY jobs \in Seq(JobRecord), n \in DOMAIN jobs, <1>2, <1>3, OneReplaced
<1> QED
    BY <1>2, <1>4

(***************************************************************************)
(* Every variable keeps its type.                                          *)
(***************************************************************************)
\* Nothing is enqueued and every process is down at first.
LEMMA InitTyped == Init => TypeOK
<1> SUFFICES ASSUME Init PROVE TypeOK
    OBVIOUS
<1>1. jobs \in Seq(JobRecord) /\ runs \in Seq(Nat) /\ Len(runs) = Len(jobs)
    BY DEF Init
<1>2. pc \in [Processes -> {"down"}] /\ counted \in [Workers -> {0}] /\ DOMAIN records = {}
    BY DEF Init
<1>3. \A w \in Workers : pc[w] = "down"
    BY <1>2 DEF Processes
<1> QED
    BY <1>1, <1>2, <1>3 DEF Init, TypeOK, JobRecord

\* Attempts and runs are numbers; at least one attempt is allowed.
LEMMA JobTyped ==
    ASSUME TypeOK, NEW n \in DOMAIN jobs
    PROVE  /\ jobs[n].attempts \in Nat /\ jobs[n].max \in Nat /\ jobs[n].max > 0
           /\ runs[n] \in Nat /\ DOMAIN runs = DOMAIN jobs
<1>1. jobs \in Seq(JobRecord)
    BY DEF TypeOK, JobRecord
<1>2. jobs[n] \in JobRecord
    BY <1>1
<1>3. jobs[n].attempts \in Nat /\ jobs[n].max \in Attempts
    BY <1>2 DEF JobRecord
<1>4. jobs[n].max \in Nat /\ jobs[n].max > 0
  <2>1. \A max \in Attempts : max \in Nat \ {0}
    BY PlatformAssumption DEF PlatformAssumption
  <2> QED
    BY <1>3, <2>1
<1>5. runs \in Seq(Nat) /\ Len(runs) = Len(jobs)
    BY DEF TypeOK
<1>6. DOMAIN runs = DOMAIN jobs
    BY <1>1, <1>5
<1>7. runs[n] \in Nat
    BY <1>5, <1>6
<1> QED
    BY <1>3, <1>4, <1>6, <1>7

\* No step of any process takes a variable out of its type.
LEMMA StepTyped ==
    ASSUME TypeOK, [Next]_vars
    PROVE  TypeOK'
<1> USE PlatformAssumption
<1> USE DEF Goto, Processes
<1>1. ASSUME NEW p \in Processes, ReadVersions(p) PROVE TypeOK'
    BY <1>1 DEF ReadVersions, TypeOK
<1>2. ASSUME NEW p \in Processes, RecordVersion(p) PROVE TypeOK'
    BY <1>2 DEF RecordVersion, TypeOK
<1>3. ASSUME NEW p \in Processes, Die(p) PROVE TypeOK'
    BY <1>3 DEF Die, TypeOK
<1>4. ASSUME NEW s \in Servers, CreateJob(s) PROVE TypeOK'
  <2>1. PICK kind \in Kinds, max \in Attempts :
            jobs' = Append(jobs, [kind |-> kind, status |-> "queued", attempts |-> 0, max |-> max])
    BY <1>4 DEF CreateJob
  <2>2. /\ jobs' \in Seq(JobRecord) /\ runs' \in Seq(Nat) /\ Len(runs') = Len(jobs')
        /\ DOMAIN jobs \subseteq DOMAIN jobs'
    BY <1>4, <2>1 DEF CreateJob, TypeOK, JobRecord
  <2>3. /\ pc' \in [Processes -> {"down", "migrate", "idle", "audit", "claim", "run", "finish",
                                  "fail", "settle"}]
        /\ DOMAIN job' = Processes
        /\ \A w \in Workers : pc'[w] = pc[w] /\ job'[w] = job[w]
    BY <1>4 DEF CreateJob, Audit, TypeOK
  <2> QED
    BY <1>4, <2>2, <2>3 DEF CreateJob, TypeOK, JobRecord
<1>5. ASSUME NEW s \in Servers, Register(s) PROVE TypeOK'
  <2>1. PICK a \in Artifacts \ DOMAIN records, stage \in Accepted :
            /\ records' = [r \in DOMAIN records \cup {a} |-> IF r = a THEN stage ELSE records[r]]
            /\ Audit(s, Record(a))
    BY <1>5 DEF Register
  <2> QED
    BY <1>5, <2>1 DEF Register, Audit, TypeOK
<1>6. ASSUME NEW s \in Servers, AppendEvent(s) PROVE TypeOK'
    BY <1>6 DEF AppendEvent, TypeOK
<1>7. ASSUME NEW s \in Servers, Promote(s) PROVE TypeOK'
  <2>1. DOMAIN records' = DOMAIN records
    BY <1>7 DEF Promote
  <2> QED
    BY <1>7, <2>1 DEF Promote, procVars, TypeOK
<1>8. ASSUME NEW w \in Workers, SelectJob(w) PROVE TypeOK'
  <2>1. PICK n \in DOMAIN jobs : job' = [job EXCEPT ![w] = Job(n)]
    BY <1>8 DEF SelectJob, OldestOf
  <2> QED
    BY <1>8, <2>1 DEF SelectJob, TypeOK
<1>9. ASSUME NEW w \in Workers, ClaimJob(w) PROVE TypeOK'
  <2>1. PICK n \in DOMAIN jobs : job[w] = Job(n)
    BY <1>9 DEF ClaimJob, TypeOK
  <2>2. jobs' = [jobs EXCEPT ![n].status = "running", ![n].attempts = @ + 1]
    BY <1>9, <2>1, SelectedIs DEF ClaimJob
  <2>3. jobs' \in Seq(JobRecord) /\ DOMAIN jobs' = DOMAIN jobs /\ Len(jobs') = Len(jobs)
    BY <2>2, JobClaimed DEF TypeOK, JobRecord
  <2> QED
    BY <1>9, <2>3 DEF ClaimJob, TypeOK, JobRecord
<1>10. ASSUME NEW w \in Workers, RunHandler(w) PROVE TypeOK'
  <2>1. PICK n \in DOMAIN jobs : job[w] = Job(n)
    BY <1>10 DEF RunHandler, TypeOK
  <2>2. runs' = [runs EXCEPT ![n] = @ + 1]
    BY <1>10, <2>1, SelectedIs DEF RunHandler
  <2>3. runs' \in Seq(Nat) /\ Len(runs') = Len(runs)
    BY <2>2 DEF TypeOK
  <2> QED
    BY <1>10, <2>3 DEF RunHandler, TypeOK
<1>11. ASSUME NEW w \in Workers, Finish(w) PROVE TypeOK'
  <2>1. PICK n \in DOMAIN jobs : job[w] = Job(n)
    BY <1>11 DEF Finish, TypeOK
  <2>2. jobs' = [jobs EXCEPT ![n].status = "completed"]
    BY <1>11, <2>1, SelectedIs DEF Finish
  <2>3. jobs' \in Seq(JobRecord) /\ DOMAIN jobs' = DOMAIN jobs /\ Len(jobs') = Len(jobs)
    BY <2>2, StatusSet DEF TypeOK, JobRecord
  <2> QED
    BY <1>11, <2>3 DEF Finish, TypeOK, JobRecord
<1>12. ASSUME NEW w \in Workers, ReadAttempts(w) PROVE TypeOK'
  <2>1. PICK n \in DOMAIN jobs : job[w] = Job(n)
    BY <1>12 DEF ReadAttempts, TypeOK
  <2>2. counted' = [counted EXCEPT ![w] = jobs[n].attempts]
    BY <1>12, <2>1, SelectedIs DEF ReadAttempts
  <2>3. jobs[n].attempts \in Nat
    BY JobTyped
  <2> QED
    BY <1>12, <2>2, <2>3 DEF ReadAttempts, TypeOK
<1>13. ASSUME NEW w \in Workers, Settle(w) PROVE TypeOK'
  <2>1. PICK n \in DOMAIN jobs : job[w] = Job(n)
    BY <1>13 DEF Settle, TypeOK
  <2>2. \E st \in {"failed", "queued"} : jobs' = [jobs EXCEPT ![n].status = st]
    BY <1>13, <2>1, SelectedIs DEF Settle
  <2>3. jobs' \in Seq(JobRecord) /\ DOMAIN jobs' = DOMAIN jobs /\ Len(jobs') = Len(jobs)
    BY <2>2, StatusSet DEF TypeOK, JobRecord
  <2> QED
    BY <1>13, <2>3 DEF Settle, TypeOK, JobRecord
<1>14. CASE UNCHANGED vars
    BY <1>14 DEF vars, procVars, TypeOK
<1> QED
    BY <1>1, <1>2, <1>3, <1>4, <1>5, <1>6, <1>7, <1>8, <1>9, <1>10, <1>11, <1>12, <1>13, <1>14
    DEF Next, Start, Serve, Work
\* Every variable of the platform keeps its type, for any number of workers and
\* servers.
THEOREM Typing == Spec => []TypeOK
BY InitTyped, StepTyped, PTL DEF Spec

(***************************************************************************)
(* The attempts: who has selected a job and not yet claimed it, and who    *)
(* has claimed it and not yet run its handler.                             *)
(***************************************************************************)
Claiming(n) == {w \in Workers : pc[w] = "claim" /\ job[w] = Job(n)}
Running(n) == {w \in Workers : pc[w] = "run" /\ job[w] = Job(n)}

ClaimsBounded ==
    \A n \in DOMAIN jobs :
        jobs[n].attempts + Cardinality(Claiming(n)) <= jobs[n].max + Cardinality(Workers) - 1

RunsCounted ==
    \A n \in DOMAIN jobs : runs[n] + Cardinality(Running(n)) <= jobs[n].attempts

EndsAsItRan ==
    \A n \in DOMAIN jobs :
        /\ jobs[n].status = "completed" => runs[n] > 0
        /\ jobs[n].status = "failed" => jobs[n].attempts >= jobs[n].max

\* What a worker is about to write is true of the job as it is now.
AboutToEnd ==
    \A w \in Workers : \A n \in DOMAIN jobs : job[w] = Job(n) =>
        /\ pc[w] = "finish" => runs[n] > 0
        /\ pc[w] = "settle" => counted[w] <= jobs[n].attempts

Counted == TypeOK /\ ClaimsBounded /\ RunsCounted /\ EndsAsItRan /\ AboutToEnd

\* Sets of workers are finite, and a part of one has no more workers.
LEMMA WorkersCounted ==
    ASSUME NEW S \in SUBSET Workers, NEW T \in SUBSET S
    PROVE  /\ Cardinality(S) \in Nat /\ Cardinality(T) \in Nat
           /\ Cardinality(T) <= Cardinality(S)
           /\ \A w \in S \ T : Cardinality(T) + 1 <= Cardinality(S)
<1>1. IsFiniteSet(S) /\ IsFiniteSet(T)
    BY PlatformAssumption, FS_Subset DEF PlatformAssumption
<1>2. ASSUME NEW w \in S \ T PROVE Cardinality(T) + 1 <= Cardinality(S)
  <2>1. Cardinality(T \cup {w}) = Cardinality(T) + 1
    BY <1>1, <1>2, FS_AddElement
  <2>2. Cardinality(T \cup {w}) <= Cardinality(S)
    BY <1>1, <1>2, FS_Subset
  <2> QED
    BY <2>1, <2>2
<1> QED
    BY <1>1, <1>2, FS_Subset, FS_CardinalityType

\* The bounds hold of an empty queue.
LEMMA InitCounted == Init => Counted
<1> SUFFICES ASSUME Init PROVE Counted
    OBVIOUS
<1>1. DOMAIN jobs = {}
    BY DEF Init
<1> QED
    BY <1>1, InitTyped DEF Counted, ClaimsBounded, RunsCounted, EndsAsItRan, AboutToEnd

\* A job whose attempts and runs stay as they are keeps its bounds, unless
\* another worker selects it.
LEMMA BoundsKept ==
    ASSUME Counted, DOMAIN jobs' = DOMAIN jobs, NEW n \in DOMAIN jobs,
           jobs'[n].attempts = jobs[n].attempts, jobs'[n].max = jobs[n].max,
           runs'[n] = runs[n],
           Claiming(n)' \subseteq Claiming(n), Running(n)' \subseteq Running(n)
    PROVE  /\ jobs'[n].attempts + Cardinality(Claiming(n)')
                  <= jobs'[n].max + Cardinality(Workers) - 1
           /\ runs'[n] + Cardinality(Running(n)') <= jobs'[n].attempts
<1>1. Claiming(n) \in SUBSET Workers /\ Running(n) \in SUBSET Workers
    BY DEF Claiming, Running
<1>2. /\ Cardinality(Claiming(n)) \in Nat /\ Cardinality(Claiming(n)') \in Nat
      /\ Cardinality(Claiming(n)') <= Cardinality(Claiming(n))
    BY <1>1, WorkersCounted
<1>3. /\ Cardinality(Running(n)) \in Nat /\ Cardinality(Running(n)') \in Nat
      /\ Cardinality(Running(n)') <= Cardinality(Running(n))
    BY <1>1, WorkersCounted
<1>4. /\ jobs[n].attempts + Cardinality(Claiming(n)) <= jobs[n].max + Cardinality(Workers) - 1
      /\ runs[n] + Cardinality(Running(n)) <= jobs[n].attempts
    BY DEF Counted, ClaimsBounded, RunsCounted
<1>5. jobs[n].attempts \in Nat /\ jobs[n].max \in Nat /\ runs[n] \in Nat
    BY JobTyped DEF Counted
<1>6. Cardinality(Workers) \in Nat
    BY PlatformAssumption, FS_CardinalityType DEF PlatformAssumption
<1> HIDE DEF Counted
<1> QED
    BY <1>2, <1>3, <1>4, <1>5, <1>6

\* A worker that moves to neither a claim nor a run leaves who claims and who
\* runs as it was, but for itself.
LEMMA Leaves ==
    ASSUME TypeOK, NEW p \in Processes, NEW where,
           pc' = [pc EXCEPT ![p] = where], where \notin {"claim", "run"},
           \A w \in Workers : w # p => job'[w] = job[w]
    PROVE  \A n : Claiming(n)' \subseteq Claiming(n) /\ Running(n)' \subseteq Running(n)
BY DEF TypeOK, Claiming, Running, Processes

\* Steps that touch neither the jobs nor the runs.
LEMMA JobsKept ==
    ASSUME Counted, jobs' = jobs, runs' = runs,
           \A n : Claiming(n)' \subseteq Claiming(n) /\ Running(n)' \subseteq Running(n)
    PROVE  ClaimsBounded' /\ RunsCounted' /\ EndsAsItRan'
<1>1. ASSUME NEW n \in DOMAIN jobs
      PROVE  /\ jobs'[n].attempts + Cardinality(Claiming(n)')
                    <= jobs'[n].max + Cardinality(Workers) - 1
             /\ runs'[n] + Cardinality(Running(n)') <= jobs'[n].attempts
    BY BoundsKept
<1>2. EndsAsItRan'
    BY DEF Counted, EndsAsItRan
<1> QED
    BY <1>1, <1>2 DEF ClaimsBounded, RunsCounted

\* What the other workers are about to write stays true: runs and attempts
\* never fall.
LEMMA EndsKept ==
    ASSUME Counted, DOMAIN jobs \subseteq DOMAIN jobs',
           \A n \in DOMAIN jobs : runs'[n] >= runs[n] /\ jobs'[n].attempts >= jobs[n].attempts,
           \A n \in DOMAIN jobs : runs'[n] \in Nat /\ jobs'[n].attempts \in Nat,
           NEW w \in Workers, NEW n \in DOMAIN jobs', job'[w] = Job(n),
           pc'[w] = pc[w], job'[w] = job[w], counted'[w] = counted[w]
    PROVE  /\ pc'[w] = "finish" => runs'[n] > 0
           /\ pc'[w] = "settle" => counted'[w] <= jobs'[n].attempts
<1> SUFFICES ASSUME pc[w] \in {"finish", "settle"}
             PROVE  /\ pc[w] = "finish" => runs'[n] > 0
                    /\ pc[w] = "settle" => counted[w] <= jobs'[n].attempts
    OBVIOUS
<1>1. \E m \in DOMAIN jobs : job[w] = Job(m)
    BY DEF Counted, TypeOK
<1>2. n \in DOMAIN jobs
    BY <1>1, JobsDiffer
<1>3. /\ pc[w] = "finish" => runs[n] > 0
      /\ pc[w] = "settle" => counted[w] <= jobs[n].attempts
    BY <1>2 DEF Counted, AboutToEnd
<1>4. counted[w] \in Nat
    BY DEF Counted, TypeOK
<1>5. jobs[n].attempts \in Nat /\ runs[n] \in Nat
    BY <1>2, JobTyped DEF Counted
<1> HIDE DEF Counted
<1> QED
    BY <1>2, <1>3, <1>4, <1>5

\* Steps after which no other worker is about to end a job.
LEMMA AboutKept ==
    ASSUME Counted, jobs' = jobs, runs' = runs,
           \A w \in Workers : pc'[w] \in {"finish", "settle"} =>
               pc'[w] = pc[w] /\ job'[w] = job[w] /\ counted'[w] = counted[w]
    PROVE  AboutToEnd'
<1> SUFFICES ASSUME NEW w \in Workers, NEW n \in DOMAIN jobs', job'[w] = Job(n),
                    pc'[w] \in {"finish", "settle"}
             PROVE  /\ pc'[w] = "finish" => runs'[n] > 0
                    /\ pc'[w] = "settle" => counted'[w] <= jobs'[n].attempts
    BY DEF AboutToEnd
<1> QED
    BY DEF Counted, AboutToEnd

Bounded == ClaimsBounded /\ RunsCounted /\ EndsAsItRan /\ AboutToEnd

\* The steps that change neither the jobs nor the runs, but for a selection.
LEMMA QuietCounted ==
    ASSUME Counted, NEW p \in Processes,
           ReadVersions(p) \/ RecordVersion(p) \/ Die(p) \/ Register(p) \/ AppendEvent(p)
           \/ Promote(p) \/ (p \in Workers /\ ReadAttempts(p))
    PROVE  Bounded'
<1>1. jobs' = jobs /\ runs' = runs /\ TypeOK
    BY DEF Counted, ReadVersions, RecordVersion, Die, Register, AppendEvent, Promote, ReadAttempts,
           procVars
<1>2. \A q \in Processes : q # p => pc'[q] = pc[q] /\ job'[q] = job[q]
    BY <1>1 DEF TypeOK, ReadVersions, RecordVersion, Die, Register, AppendEvent, Promote,
           ReadAttempts, procVars, Goto, Audit
<1>3. pc'[p] \in {"idle", "migrate", "down", "audit", "settle"}
    BY <1>1 DEF TypeOK, ReadVersions, RecordVersion, Die, Register, AppendEvent, Promote,
           ReadAttempts, procVars, Goto, Audit
<1>4. \A n : Claiming(n)' \subseteq Claiming(n) /\ Running(n)' \subseteq Running(n)
    BY <1>2, <1>3 DEF Claiming, Running, Processes
<1>5. ClaimsBounded' /\ RunsCounted' /\ EndsAsItRan'
    BY <1>1, <1>4, JobsKept
<1>6. AboutToEnd'
  <2>1. CASE p \in Workers /\ ReadAttempts(p)
    <3>1. PICK m \in DOMAIN jobs : job[p] = Job(m)
        BY <1>1, <2>1 DEF ReadAttempts, TypeOK
    <3>2. counted' = [counted EXCEPT ![p] = jobs[m].attempts] /\ job' = job
        BY <2>1, <3>1, SelectedIs DEF ReadAttempts
    <3>3. pc' = [pc EXCEPT ![p] = "settle"]
        BY <2>1 DEF ReadAttempts, Goto
    <3>4. SUFFICES ASSUME NEW w \in Workers, NEW n \in DOMAIN jobs', job'[w] = Job(n)
                   PROVE  /\ pc'[w] = "finish" => runs'[n] > 0
                          /\ pc'[w] = "settle" => counted'[w] <= jobs'[n].attempts
        BY DEF AboutToEnd
    <3>5. CASE w = p
      <4>1. n = m
        BY <3>1, <3>2, <3>4, <3>5, JobsDiffer
      <4>2. counted'[w] = jobs[n].attempts /\ jobs[n].attempts \in Nat
        BY <1>1, <3>2, <3>5, <4>1, JobTyped DEF TypeOK
      <4>3. pc'[w] = "settle"
        BY <1>1, <3>3, <3>5 DEF TypeOK
      <4> QED
        BY <1>1, <4>2, <4>3
    <3>6. CASE w # p
      <4>1. pc'[w] = pc[w] /\ job'[w] = job[w] /\ counted'[w] = counted[w]
        BY <1>1, <3>2, <3>3, <3>6 DEF TypeOK
      <4> QED
        BY <1>1, <3>4, <4>1 DEF Counted, AboutToEnd
    <3> QED
        BY <3>5, <3>6
  <2>2. CASE ~ (p \in Workers /\ ReadAttempts(p))
    <3>1. pc'[p] \notin {"finish", "settle"}
        BY <1>1, <2>2 DEF TypeOK, ReadVersions, RecordVersion, Die, Register, AppendEvent, Promote,
               procVars, Goto, Audit
    <3>2. \A w \in Workers : w # p => counted'[w] = counted[w]
        BY <1>1, <2>2 DEF TypeOK, ReadVersions, RecordVersion, Die, Register, AppendEvent, Promote,
               procVars
    <3>3. \A w \in Workers : pc'[w] \in {"finish", "settle"} =>
               pc'[w] = pc[w] /\ job'[w] = job[w] /\ counted'[w] = counted[w]
        BY <1>2, <3>1, <3>2 DEF Processes
    <3> QED
        BY <1>1, <3>3, AboutKept
  <2> QED
    BY <2>1, <2>2
<1> QED
    BY <1>5, <1>6 DEF Bounded

\* Every worker may select a job with attempts left, but none twice.
LEMMA SelectCounted ==
    ASSUME Counted, NEW p \in Workers, SelectJob(p)
    PROVE  Bounded'
<1> USE DEF Goto
<1>1. PICK m \in DOMAIN jobs : Takeable(m) /\ job' = [job EXCEPT ![p] = Job(m)]
    BY DEF SelectJob, OldestOf
<1>2. /\ jobs' = jobs /\ runs' = runs /\ counted' = counted /\ TypeOK
      /\ pc' = [pc EXCEPT ![p] = "claim"]
    BY DEF Counted, SelectJob
<1>3. /\ pc'[p] = "claim" /\ job'[p] = Job(m)
      /\ \A w \in Workers : w # p => pc'[w] = pc[w] /\ job'[w] = job[w]
    BY <1>1, <1>2 DEF TypeOK, Processes
<1>4. \A n : Running(n)' \subseteq Running(n)
    BY <1>3 DEF Running
<1>5. \A n \in DOMAIN jobs : n # m => Claiming(n)' \subseteq Claiming(n)
    BY <1>3, JobsDiffer DEF Claiming
<1>6. ASSUME NEW n \in DOMAIN jobs
      PROVE  jobs[n].attempts + Cardinality(Claiming(n)') <= jobs[n].max + Cardinality(Workers) - 1
  <2>1. CASE n = m
    <3>1. Claiming(n)' \in SUBSET Workers
        BY DEF Claiming
    <3>2. /\ Cardinality(Claiming(n)') \in Nat /\ Cardinality(Workers) \in Nat
          /\ Cardinality(Claiming(n)') <= Cardinality(Workers)
        BY <3>1, WorkersCounted
    <3>3. jobs[n].attempts < jobs[n].max
        BY <1>1, <2>1 DEF Takeable
    <3>4. jobs[n].attempts \in Nat /\ jobs[n].max \in Nat
        BY <1>2, JobTyped
    <3> QED
        BY <3>2, <3>3, <3>4
  <2>2. CASE n # m
    <3>1. Claiming(n)' \subseteq Claiming(n) /\ Running(n)' \subseteq Running(n)
        BY <1>4, <1>5, <2>2
    <3> QED
        BY <1>2, <3>1, BoundsKept
  <2> QED
    BY <2>1, <2>2
<1>7. ASSUME NEW n \in DOMAIN jobs
      PROVE  runs[n] + Cardinality(Running(n)') <= jobs[n].attempts
  <2>1. Running(n) \in SUBSET Workers
    BY DEF Running
  <2>2. /\ Cardinality(Running(n)) \in Nat /\ Cardinality(Running(n)') \in Nat
        /\ Cardinality(Running(n)') <= Cardinality(Running(n))
    BY <1>4, <2>1, WorkersCounted
  <2>3. runs[n] \in Nat /\ jobs[n].attempts \in Nat
    BY <1>2, JobTyped
  <2>4. runs[n] + Cardinality(Running(n)) <= jobs[n].attempts
    BY DEF Counted, RunsCounted
  <2> QED
    BY <2>2, <2>3, <2>4
<1>8. AboutToEnd'
  <2>1. \A w \in Workers : pc'[w] \in {"finish", "settle"} =>
             pc'[w] = pc[w] /\ job'[w] = job[w] /\ counted'[w] = counted[w]
    BY <1>2, <1>3
  <2> QED
    BY <1>2, <2>1, AboutKept
<1>9. EndsAsItRan'
    BY <1>2 DEF Counted, EndsAsItRan
<1> QED
    BY <1>2, <1>6, <1>7, <1>8, <1>9 DEF Bounded, ClaimsBounded, RunsCounted

\* A claim turns one that selects into an attempt, and a run to come.
LEMMA ClaimCounted ==
    ASSUME Counted, NEW p \in Workers, ClaimJob(p)
    PROVE  Bounded'
<1> USE DEF Goto
<1>1. TypeOK /\ pc[p] = "claim"
    BY DEF Counted, ClaimJob
<1>2. PICK m \in DOMAIN jobs : job[p] = Job(m)
    BY <1>1 DEF TypeOK
<1>3. jobs' = [jobs EXCEPT ![m].status = "running", ![m].attempts = @ + 1]
    BY <1>2, SelectedIs DEF ClaimJob
<1>4. /\ DOMAIN jobs' = DOMAIN jobs
      /\ \A n \in DOMAIN jobs :
            /\ jobs'[n].attempts = IF n = m THEN jobs[n].attempts + 1 ELSE jobs[n].attempts
            /\ jobs'[n].max = jobs[n].max
            /\ jobs'[n].status = IF n = m THEN "running" ELSE jobs[n].status
    BY <1>1, <1>3, JobClaimed DEF TypeOK, JobRecord
<1>5. /\ job' = job /\ runs' = runs /\ counted' = counted
      /\ pc'[p] \in {"run", "fail"} /\ \A w \in Workers : w # p => pc'[w] = pc[w]
    BY <1>1 DEF ClaimJob, TypeOK, Processes
<1>6. \A n : Claiming(n)' \subseteq Claiming(n)
    BY <1>5 DEF Claiming
<1>7. \A n \in DOMAIN jobs : n # m => Running(n)' \subseteq Running(n)
    BY <1>2, <1>5, JobsDiffer DEF Running
<1>8. /\ jobs[m].attempts \in Nat /\ jobs[m].max \in Nat /\ runs[m] \in Nat
      /\ jobs[m].attempts + Cardinality(Claiming(m)) <= jobs[m].max + Cardinality(Workers) - 1
      /\ runs[m] + Cardinality(Running(m)) <= jobs[m].attempts
    BY <1>1, JobTyped DEF Counted, ClaimsBounded, RunsCounted
<1>9. jobs'[m].attempts + Cardinality(Claiming(m)') <= jobs'[m].max + Cardinality(Workers) - 1
  <2>1. p \in Claiming(m) /\ p \notin Claiming(m)' /\ Claiming(m) \in SUBSET Workers
    BY <1>1, <1>2, <1>5 DEF Claiming
  <2>2. /\ Cardinality(Claiming(m)) \in Nat /\ Cardinality(Claiming(m)') \in Nat
        /\ Cardinality(Claiming(m)') + 1 <= Cardinality(Claiming(m))
    BY <1>6, <2>1, WorkersCounted
  <2>3. Cardinality(Workers) \in Nat
    BY WorkersCounted
  <2> QED
    BY <1>4, <1>8, <2>2, <2>3
<1>10. runs'[m] + Cardinality(Running(m)') <= jobs'[m].attempts
  <2>1. Running(m) \in SUBSET Workers /\ Running(m)' \subseteq Running(m) \cup {p}
    BY <1>5 DEF Running
  <2>2. IsFiniteSet(Running(m)) /\ p \notin Running(m)
    BY <1>1, <2>1, FS_Subset, PlatformAssumption DEF Running, PlatformAssumption
  <2>3. Cardinality(Running(m) \cup {p}) = Cardinality(Running(m)) + 1
    BY <2>2, FS_AddElement
  <2>4. Running(m) \cup {p} \in SUBSET Workers
    BY <2>1
  <2>5. /\ Cardinality(Running(m)) \in Nat /\ Cardinality(Running(m)') \in Nat
        /\ Cardinality(Running(m)') <= Cardinality(Running(m)) + 1
    BY <2>1, <2>3, <2>4, WorkersCounted
  <2> QED
    BY <1>4, <1>5, <1>8, <2>5
<1>11. ASSUME NEW n \in DOMAIN jobs
       PROVE  /\ jobs'[n].attempts + Cardinality(Claiming(n)')
                     <= jobs'[n].max + Cardinality(Workers) - 1
              /\ runs'[n] + Cardinality(Running(n)') <= jobs'[n].attempts
  <2>1. CASE n = m
    BY <1>9, <1>10, <2>1
  <2>2. CASE n # m
    BY <1>4, <1>5, <1>6, <1>7, <2>2, BoundsKept
  <2> QED
    BY <2>1, <2>2
<1>12. EndsAsItRan'
  <2>1. \A n \in DOMAIN jobs : jobs[n].attempts \in Nat
    BY <1>1, JobTyped
  <2> QED
    BY <1>4, <1>5, <2>1 DEF Counted, EndsAsItRan
<1>13. AboutToEnd'
  <2>1. /\ \A n \in DOMAIN jobs : runs'[n] >= runs[n] /\ jobs'[n].attempts >= jobs[n].attempts
        /\ \A n \in DOMAIN jobs : runs'[n] \in Nat /\ jobs'[n].attempts \in Nat
    <3>1. \A n \in DOMAIN jobs : runs[n] \in Nat /\ jobs[n].attempts \in Nat
        BY <1>1, JobTyped
    <3> QED
        BY <1>4, <1>5, <3>1
  <2>2. SUFFICES ASSUME NEW w \in Workers, NEW n \in DOMAIN jobs', job'[w] = Job(n)
                 PROVE  /\ pc'[w] = "finish" => runs'[n] > 0
                        /\ pc'[w] = "settle" => counted'[w] <= jobs'[n].attempts
    BY DEF AboutToEnd
  <2>3. CASE w = p
    BY <1>5, <2>3
  <2>4. CASE w # p
    BY <1>4, <1>5, <2>1, <2>2, <2>4, EndsKept
  <2> QED
    BY <2>3, <2>4
<1> QED
    BY <1>4, <1>11, <1>12, <1>13 DEF Bounded, ClaimsBounded, RunsCounted

\* A run of the handler uses the claim that was counted for it.
LEMMA RunCounted ==
    ASSUME Counted, NEW p \in Workers, RunHandler(p)
    PROVE  Bounded'
<1> USE DEF Goto
<1>1. TypeOK /\ pc[p] = "run"
    BY DEF Counted, RunHandler
<1>2. PICK m \in DOMAIN jobs : job[p] = Job(m)
    BY <1>1 DEF TypeOK
<1>3. runs' = [runs EXCEPT ![m] = @ + 1]
    BY <1>2, SelectedIs DEF RunHandler
<1>4. /\ \A n \in DOMAIN jobs : runs[n] \in Nat /\ jobs[n].attempts \in Nat
      /\ DOMAIN runs = DOMAIN jobs
    BY <1>1, <1>2, JobTyped
<1>5. \A n \in DOMAIN jobs : runs'[n] = IF n = m THEN runs[n] + 1 ELSE runs[n]
    BY <1>3, <1>4
<1>6. /\ job' = job /\ jobs' = jobs /\ counted' = counted
      /\ pc'[p] \in {"finish", "fail"} /\ \A w \in Workers : w # p => pc'[w] = pc[w]
    BY <1>1 DEF RunHandler, TypeOK, Processes
<1>7. \A n : Claiming(n)' \subseteq Claiming(n) /\ Running(n)' \subseteq Running(n)
    BY <1>6 DEF Claiming, Running
<1>8. ASSUME NEW n \in DOMAIN jobs
      PROVE  jobs'[n].attempts + Cardinality(Claiming(n)')
                 <= jobs'[n].max + Cardinality(Workers) - 1
  <2>1. Claiming(n) \in SUBSET Workers
    BY DEF Claiming
  <2>2. /\ Cardinality(Claiming(n)) \in Nat /\ Cardinality(Claiming(n)') \in Nat
        /\ Cardinality(Claiming(n)') <= Cardinality(Claiming(n))
    BY <1>7, <2>1, WorkersCounted
  <2>3. jobs[n].attempts + Cardinality(Claiming(n)) <= jobs[n].max + Cardinality(Workers) - 1
    BY DEF Counted, ClaimsBounded
  <2>4. jobs[n].attempts \in Nat /\ jobs[n].max \in Nat /\ Cardinality(Workers) \in Nat
    BY <1>1, JobTyped, WorkersCounted
  <2> QED
    BY <1>6, <2>2, <2>3, <2>4
<1>9. ASSUME NEW n \in DOMAIN jobs
      PROVE  runs'[n] + Cardinality(Running(n)') <= jobs'[n].attempts
  <2>1. Running(n) \in SUBSET Workers
    BY DEF Running
  <2>2. runs[n] + Cardinality(Running(n)) <= jobs[n].attempts
    BY DEF Counted, RunsCounted
  <2>3. CASE n = m
    <3>1. p \in Running(n) /\ p \notin Running(n)'
        BY <1>1, <1>2, <1>6, <2>3 DEF Running
    <3>2. /\ Cardinality(Running(n)) \in Nat /\ Cardinality(Running(n)') \in Nat
          /\ Cardinality(Running(n)') + 1 <= Cardinality(Running(n))
        BY <1>7, <2>1, <3>1, WorkersCounted
    <3> QED
        BY <1>4, <1>5, <1>6, <2>2, <2>3, <3>2
  <2>4. CASE n # m
    <3>1. /\ Cardinality(Running(n)) \in Nat /\ Cardinality(Running(n)') \in Nat
          /\ Cardinality(Running(n)') <= Cardinality(Running(n))
        BY <1>7, <2>1, WorkersCounted
    <3> QED
        BY <1>4, <1>5, <1>6, <2>2, <2>4, <3>1
  <2> QED
    BY <2>3, <2>4
<1>10. EndsAsItRan'
  <2>1. \A n \in DOMAIN jobs : runs[n] > 0 => runs'[n] > 0
    BY <1>4, <1>5
  <2> QED
    BY <1>6, <2>1 DEF Counted, EndsAsItRan
<1>11. AboutToEnd'
  <2>1. /\ \A n \in DOMAIN jobs : runs'[n] >= runs[n] /\ jobs'[n].attempts >= jobs[n].attempts
        /\ \A n \in DOMAIN jobs : runs'[n] \in Nat /\ jobs'[n].attempts \in Nat
    BY <1>4, <1>5, <1>6
  <2>2. SUFFICES ASSUME NEW w \in Workers, NEW n \in DOMAIN jobs', job'[w] = Job(n)
                 PROVE  /\ pc'[w] = "finish" => runs'[n] > 0
                        /\ pc'[w] = "settle" => counted'[w] <= jobs'[n].attempts
    BY DEF AboutToEnd
  <2>3. CASE w = p
    <3>1. n = m
        BY <1>2, <1>6, <2>2, <2>3, JobsDiffer
    <3> QED
        BY <1>4, <1>5, <1>6, <2>3, <3>1
  <2>4. CASE w # p
    BY <1>6, <2>1, <2>2, <2>4, EndsKept
  <2> QED
    BY <2>3, <2>4
<1> QED
    BY <1>6, <1>8, <1>9, <1>10, <1>11 DEF Bounded, ClaimsBounded, RunsCounted

\* A worker that ends a job sets its status, and is idle.
LEMMA EndCounted ==
    ASSUME Counted, NEW p \in Workers, Finish(p) \/ Settle(p)
    PROVE  Bounded'
<1> USE DEF Goto
<1>1. TypeOK /\ pc[p] \in {"finish", "settle"}
    BY DEF Counted, Finish, Settle
<1>2. PICK m \in DOMAIN jobs : job[p] = Job(m)
    BY <1>1 DEF TypeOK
<1>3. jobs[m].attempts \in Nat /\ jobs[m].max \in Nat /\ runs[m] \in Nat /\ counted[p] \in Nat
    BY <1>1, JobTyped DEF TypeOK
<1>4. \E st \in {"queued", "completed", "failed"} :
         /\ jobs' = [jobs EXCEPT ![m].status = st]
         /\ st = "completed" => runs[m] > 0
         /\ st = "failed" => jobs[m].attempts >= jobs[m].max
  <2>1. CASE Finish(p)
    <3>1. jobs' = [jobs EXCEPT ![m].status = "completed"]
        BY <1>2, <2>1, SelectedIs DEF Finish
    <3>2. runs[m] > 0
        BY <1>2, <2>1 DEF Finish, Counted, AboutToEnd
    <3> QED
        BY <3>1, <3>2
  <2>2. CASE Settle(p)
    <3>1. jobs' = [jobs EXCEPT ![m].status =
                      IF counted[p] >= jobs[m].max THEN "failed" ELSE "queued"]
        BY <1>2, <2>2, SelectedIs DEF Settle
    <3>2. counted[p] <= jobs[m].attempts
        BY <1>2, <2>2 DEF Settle, Counted, AboutToEnd
    <3>3. counted[p] >= jobs[m].max => jobs[m].attempts >= jobs[m].max
        BY <1>3, <3>2
    <3> QED
        BY <3>1, <3>3
  <2> QED
    BY <2>1, <2>2
<1>5. PICK st \in {"queued", "completed", "failed"} :
         /\ jobs' = [jobs EXCEPT ![m].status = st]
         /\ st = "completed" => runs[m] > 0
         /\ st = "failed" => jobs[m].attempts >= jobs[m].max
    BY <1>4
<1>6. /\ DOMAIN jobs' = DOMAIN jobs
      /\ \A n \in DOMAIN jobs : /\ jobs'[n].attempts = jobs[n].attempts
                                /\ jobs'[n].max = jobs[n].max
                                /\ jobs'[n].status = IF n = m THEN st ELSE jobs[n].status
    BY <1>1, <1>5, StatusSet DEF TypeOK, JobRecord
<1>7. /\ runs' = runs /\ pc'[p] = "idle"
      /\ \A w \in Workers : w # p =>
            pc'[w] = pc[w] /\ job'[w] = job[w] /\ counted'[w] = counted[w]
    BY <1>1 DEF Finish, Settle, TypeOK, Processes
<1>8. \A n : Claiming(n)' \subseteq Claiming(n) /\ Running(n)' \subseteq Running(n)
    BY <1>7 DEF Claiming, Running
<1>9. ASSUME NEW n \in DOMAIN jobs
      PROVE  /\ jobs'[n].attempts + Cardinality(Claiming(n)')
                    <= jobs'[n].max + Cardinality(Workers) - 1
             /\ runs'[n] + Cardinality(Running(n)') <= jobs'[n].attempts
    BY <1>6, <1>7, <1>8, BoundsKept
<1>10. EndsAsItRan'
    BY <1>5, <1>6, <1>7 DEF Counted, EndsAsItRan
<1>11. AboutToEnd'
    BY <1>6, <1>7 DEF Counted, AboutToEnd
<1> QED
    BY <1>6, <1>9, <1>10, <1>11 DEF Bounded, ClaimsBounded, RunsCounted

\* A new job has no attempts, and nobody has selected it.
LEMMA CreateCounted ==
    ASSUME Counted, NEW s \in Servers, CreateJob(s)
    PROVE  Bounded'
<1> USE DEF Goto
<1>1. TypeOK
    BY DEF Counted
<1>2. PICK kind \in Kinds, max \in Attempts :
          jobs' = Append(jobs, [kind |-> kind, status |-> "queued", attempts |-> 0, max |-> max])
    BY DEF CreateJob
<1> DEFINE new == Len(jobs) + 1
<1>3. jobs \in Seq(JobRecord) /\ runs \in Seq(Nat) /\ Len(runs) = Len(jobs)
    BY <1>1 DEF TypeOK, JobRecord
<1>4. /\ DOMAIN jobs' = DOMAIN jobs \cup {new} /\ new \notin DOMAIN jobs
      /\ \A n \in DOMAIN jobs : jobs'[n] = jobs[n] /\ runs'[n] = runs[n]
      /\ jobs'[new] = [kind |-> kind, status |-> "queued", attempts |-> 0, max |-> max]
      /\ runs'[new] = 0
    BY <1>2, <1>3 DEF CreateJob
<1>5. \A w \in Workers : pc'[w] = pc[w] /\ job'[w] = job[w] /\ counted'[w] = counted[w]
    BY <1>1, PlatformAssumption DEF CreateJob, Audit, TypeOK, Processes, PlatformAssumption
<1>6. \A n : Claiming(n)' = Claiming(n) /\ Running(n)' = Running(n)
    BY <1>5 DEF Claiming, Running
<1>7. Claiming(new) = {} /\ Running(new) = {}
  <2>1. ASSUME NEW w \in Workers, pc[w] \in {"claim", "run"} PROVE job[w] # Job(new)
    <3>1. \E n \in DOMAIN jobs : job[w] = Job(n)
        BY <1>1, <2>1 DEF TypeOK
    <3> QED
        BY <1>4, <3>1, JobsDiffer
  <2> QED
    BY <2>1 DEF Claiming, Running
<1>8. ASSUME NEW n \in DOMAIN jobs'
      PROVE  /\ jobs'[n].attempts + Cardinality(Claiming(n)')
                    <= jobs'[n].max + Cardinality(Workers) - 1
             /\ runs'[n] + Cardinality(Running(n)') <= jobs'[n].attempts
  <2>1. CASE n \in DOMAIN jobs
    BY <1>4, <1>6, <2>1 DEF Counted, ClaimsBounded, RunsCounted
  <2>2. CASE n = new
    <3>1. max \in Nat /\ max > 0
      <4>1. \A m \in Attempts : m \in Nat \ {0}
        BY PlatformAssumption DEF PlatformAssumption
      <4> QED
        BY <4>1
    <3>2. Cardinality(Workers) \in Nat
        BY WorkersCounted
    <3>3. Cardinality(Claiming(n)') = 0 /\ Cardinality(Running(n)') = 0
        BY <1>6, <1>7, <2>2, FS_EmptySet
    <3> HIDE DEF new
    <3>4. jobs'[n].attempts = 0 /\ jobs'[n].max = max /\ runs'[n] = 0
        BY <1>4, <2>2
    <3> QED
        BY <3>1, <3>2, <3>3, <3>4
  <2> QED
    BY <1>4, <2>1, <2>2
<1> HIDE DEF new
<1>9. EndsAsItRan'
    BY <1>4 DEF Counted, EndsAsItRan
<1>10. AboutToEnd'
  <2>1. \A n \in DOMAIN jobs : jobs[n].attempts \in Nat /\ runs[n] \in Nat
    BY <1>1, JobTyped
  <2>2. /\ \A n \in DOMAIN jobs : runs'[n] >= runs[n] /\ jobs'[n].attempts >= jobs[n].attempts
        /\ \A n \in DOMAIN jobs : runs'[n] \in Nat /\ jobs'[n].attempts \in Nat
        /\ DOMAIN jobs \subseteq DOMAIN jobs'
    BY <1>4, <2>1
  <2>3. ASSUME NEW w \in Workers, NEW n \in DOMAIN jobs', job'[w] = Job(n)
        PROVE  /\ pc'[w] = "finish" => runs'[n] > 0
               /\ pc'[w] = "settle" => counted'[w] <= jobs'[n].attempts
    BY <1>5, <2>2, <2>3, EndsKept
  <2> QED
    BY <2>3 DEF AboutToEnd
<1> QED
    BY <1>8, <1>9, <1>10 DEF Bounded, ClaimsBounded, RunsCounted

\* Every step keeps the bounds.
LEMMA StepCounted == Counted /\ [Next]_vars => Counted'
<1> SUFFICES ASSUME Counted, [Next]_vars PROVE Counted'
    OBVIOUS
<1>1. TypeOK'
    BY StepTyped DEF Counted
<1>2. Bounded'
  <2>1. ASSUME NEW p \in Processes, Start(p) \/ Die(p) PROVE Bounded'
    BY <2>1, QuietCounted DEF Start
  <2>2. ASSUME NEW s \in Servers, Serve(s) PROVE Bounded'
    <3>1. CASE CreateJob(s)
        BY <3>1, CreateCounted
    <3>2. CASE Register(s) \/ AppendEvent(s) \/ Promote(s)
        BY <3>2, QuietCounted DEF Processes
    <3> QED
        BY <2>2, <3>1, <3>2 DEF Serve
  <2>3. ASSUME NEW w \in Workers, Work(w) PROVE Bounded'
    <3>1. CASE ReadAttempts(w)
        BY <3>1, QuietCounted DEF Processes
    <3> QED
        BY <2>3, <3>1, SelectCounted, ClaimCounted, RunCounted, EndCounted DEF Work
  <2>4. CASE UNCHANGED vars
    BY <2>4 DEF vars, procVars, Counted, Bounded, ClaimsBounded, RunsCounted, EndsAsItRan,
                AboutToEnd, Claiming, Running
  <2> QED
    BY <2>1, <2>2, <2>3, <2>4 DEF Next
<1> QED
    BY <1>1, <1>2 DEF Counted, Bounded

\* However many workers race for a job, and whichever of them die, its
\* max_attempts is exceeded by at most one less than there are workers, no
\* handler runs uncounted, no job is completed that was not run, and none is
\* given up before its attempts are used (claim_next, complete and fail).
THEOREM AttemptsCounted == Spec => []AttemptsAccountedFor
<1>1. Counted => AttemptsAccountedFor
  <2> SUFFICES ASSUME Counted, NEW n \in DOMAIN jobs
               PROVE  /\ jobs[n].attempts <= jobs[n].max + Cardinality(Workers) - 1
                      /\ runs[n] <= jobs[n].attempts
                      /\ jobs[n].status = "completed" => runs[n] > 0
                      /\ jobs[n].status = "failed" => jobs[n].attempts >= jobs[n].max
    BY DEF AttemptsAccountedFor
  <2>1. Claiming(n) \in SUBSET Workers /\ Running(n) \in SUBSET Workers
    BY DEF Claiming, Running
  <2>2. /\ Cardinality(Claiming(n)) \in Nat /\ Cardinality(Running(n)) \in Nat
        /\ Cardinality(Workers) \in Nat
    BY <2>1, WorkersCounted
  <2>3. jobs[n].attempts \in Nat /\ jobs[n].max \in Nat /\ runs[n] \in Nat
    BY JobTyped DEF Counted
  <2>4. /\ jobs[n].attempts + Cardinality(Claiming(n)) <= jobs[n].max + Cardinality(Workers) - 1
        /\ runs[n] + Cardinality(Running(n)) <= jobs[n].attempts
    BY DEF Counted, ClaimsBounded, RunsCounted
  <2>5. /\ jobs[n].status = "completed" => runs[n] > 0
        /\ jobs[n].status = "failed" => jobs[n].attempts >= jobs[n].max
    BY DEF Counted, EndsAsItRan
  <2> QED
    BY <2>2, <2>3, <2>4, <2>5
<1> QED
    BY <1>1, InitCounted, StepCounted, PTL DEF Spec

(***************************************************************************)
(* The audit: a server tells of what it stored, or died before it could.   *)
(***************************************************************************)
Stored == {Job(n) : n \in DOMAIN jobs} \cup {Record(a) : a \in DOMAIN records}

Told(r) == r \in audited \/ r \in lost \/ \E s \in Servers : job[s] = r

AuditKept ==
    /\ TypeOK
    /\ audited \subseteq Stored
    /\ \A r \in Stored : Told(r)
    /\ \A s \in Servers : IF pc[s] = "audit" THEN job[s] \in Stored ELSE job[s] = None

\* A server that has nothing to audit names no stored resource.
LEMMA NoneIsNotStored == None \notin Stored
BY DEF None, Stored, Job, Record

\* Nothing is stored and nothing is audited at first.
LEMMA InitAudit == Init => AuditKept
<1> SUFFICES ASSUME Init PROVE AuditKept
    OBVIOUS
<1>1. Stored = {}
    BY DEF Init, Stored
<1>2. \A p \in Processes : pc[p] = "down" /\ job[p] = None
    BY DEF Init
<1> QED
    BY <1>1, <1>2, InitTyped DEF Init, AuditKept, Processes

\* A server that is not auditing stores one resource, which it has to audit.
LEMMA StoreAudited ==
    ASSUME AuditKept, NEW s \in Servers, pc[s] = "idle", NEW r,
           Stored' = Stored \cup {r}, audited' = audited, lost' = lost,
           Audit(s, r), TypeOK'
    PROVE  AuditKept'
<1>1. TypeOK /\ job[s] = None
    BY DEF AuditKept
<1>2. /\ job'[s] = r /\ pc'[s] = "audit"
      /\ \A t \in Servers : t # s => job'[t] = job[t] /\ pc'[t] = pc[t]
    BY <1>1 DEF Audit, Goto, TypeOK, Processes
<1>3. ASSUME NEW x \in Stored' PROVE Told(x)'
  <2>1. CASE x = r
    BY <1>2, <2>1 DEF Told
  <2>2. CASE x \in Stored
    <3>1. x # None
        BY <2>2, NoneIsNotStored
    <3> QED
        BY <1>1, <1>2, <2>2, <3>1 DEF AuditKept, Told
  <2> QED
    BY <2>1, <2>2
<1>4. \A t \in Servers : IF pc'[t] = "audit" THEN job'[t] \in Stored' ELSE job'[t] = None
    BY <1>2 DEF AuditKept
<1> QED
    BY <1>3, <1>4 DEF AuditKept

\* A step of a process p that is no server, or that neither stores nor audits.
LEMMA AuditFrame ==
    ASSUME AuditKept, Stored' = Stored, audited' = audited, lost' = lost, TypeOK',
           \A s \in Servers : job'[s] = job[s] /\ (pc'[s] = "audit" <=> pc[s] = "audit")
    PROVE  AuditKept'
<1>1. \A r \in Stored : Told(r)'
    BY DEF AuditKept, Told
<1>2. \A s \in Servers : IF pc'[s] = "audit" THEN job'[s] \in Stored' ELSE job'[s] = None
    BY DEF AuditKept
<1> QED
    BY <1>1, <1>2 DEF AuditKept

\* What a server that dies had to audit is counted as lost.
LEMMA DieAudit ==
    ASSUME AuditKept, NEW p \in Processes, Die(p), TypeOK'
    PROVE  AuditKept'
<1>1. TypeOK /\ Stored' = Stored /\ audited' = audited
    BY DEF AuditKept, Die, Stored
<1>2. /\ job'[p] = None /\ pc'[p] = "down"
      /\ \A s \in Processes : s # p => job'[s] = job[s] /\ pc'[s] = pc[s]
    BY <1>1 DEF Die, Goto, TypeOK
<1>3. /\ lost \subseteq lost'
      /\ pc[p] = "audit" => job[p] \in lost'
    BY DEF Die
<1>4. ASSUME NEW r \in Stored PROVE Told(r)'
  <2>1. CASE \E s \in Servers : job[s] = r
    <3>1. PICK s \in Servers : job[s] = r
        BY <2>1
    <3>2. pc[s] = "audit"
        BY <3>1, NoneIsNotStored DEF AuditKept
    <3>3. CASE s = p
        BY <1>3, <3>1, <3>2, <3>3 DEF Told
    <3>4. CASE s # p
        BY <1>2, <3>1, <3>4 DEF Told, Processes
    <3> QED
        BY <3>3, <3>4
  <2>2. CASE ~ \E s \in Servers : job[s] = r
    BY <1>1, <1>3, <2>2 DEF AuditKept, Told
  <2> QED
    BY <2>1, <2>2
<1>5. \A s \in Servers : IF pc'[s] = "audit" THEN job'[s] \in Stored' ELSE job'[s] = None
    BY <1>1, <1>2 DEF AuditKept, Processes
<1> QED
    BY <1>1, <1>4, <1>5 DEF AuditKept

\* An event tells of what its server stored.
LEMMA AppendAudit ==
    ASSUME AuditKept, NEW s \in Servers, AppendEvent(s), TypeOK'
    PROVE  AuditKept'
<1>1. TypeOK /\ Stored' = Stored /\ audited' = audited \cup {job[s]} /\ lost' = lost
    BY DEF AuditKept, AppendEvent, Stored
<1>2. /\ job'[s] = None /\ pc'[s] = "idle"
      /\ \A t \in Servers : t # s => job'[t] = job[t] /\ pc'[t] = pc[t]
    BY <1>1 DEF AppendEvent, Goto, TypeOK, Processes
<1>3. job[s] \in Stored
    BY DEF AppendEvent, AuditKept
<1>4. \A r \in Stored : Told(r)'
    BY <1>1, <1>2 DEF AuditKept, Told
<1>5. \A t \in Servers : IF pc'[t] = "audit" THEN job'[t] \in Stored' ELSE job'[t] = None
    BY <1>1, <1>2 DEF AuditKept
<1> QED
    BY <1>1, <1>3, <1>4, <1>5 DEF AuditKept

\* Every step keeps the audit true.
LEMMA StepAudit == AuditKept /\ [Next]_vars => AuditKept'
<1> SUFFICES ASSUME AuditKept, [Next]_vars PROVE AuditKept'
    OBVIOUS
<1>1. TypeOK /\ TypeOK'
    BY StepTyped DEF AuditKept
<1>2. ASSUME NEW p \in Processes, Start(p) PROVE AuditKept'
  <2>1. /\ Stored' = Stored /\ audited' = audited /\ lost' = lost
        /\ \A s \in Servers : job'[s] = job[s] /\ (pc'[s] = "audit" <=> pc[s] = "audit")
    BY <1>1, <1>2 DEF Start, ReadVersions, RecordVersion, Goto, Stored, TypeOK, Processes
  <2> QED
    BY <1>1, <2>1, AuditFrame
<1>3. ASSUME NEW p \in Processes, Die(p) PROVE AuditKept'
    BY <1>1, <1>3, DieAudit
<1>4. ASSUME NEW s \in Servers, CreateJob(s) PROVE AuditKept'
  <2> DEFINE new == Len(jobs) + 1
  <2>1. DOMAIN jobs' = DOMAIN jobs \cup {new}
    <3>1. PICK kind \in Kinds, max \in Attempts :
              jobs' = Append(jobs, [kind |-> kind, status |-> "queued", attempts |-> 0, max |-> max])
        BY <1>4 DEF CreateJob
    <3>2. jobs \in Seq(JobRecord)
        BY <1>1 DEF TypeOK, JobRecord
    <3> QED
        BY <3>1, <3>2
  <2>2. /\ Audit(s, Job(new)) /\ pc[s] = "idle"
        /\ records' = records /\ audited' = audited /\ lost' = lost
    BY <1>4 DEF CreateJob
  <2> HIDE DEF new
  <2>3. Stored' = Stored \cup {Job(new)}
    BY <2>1, <2>2 DEF Stored
  <2> QED
    BY <1>1, <2>2, <2>3, StoreAudited
<1>5. ASSUME NEW s \in Servers, Register(s) PROVE AuditKept'
  <2>1. PICK a \in Artifacts \ DOMAIN records, stage \in Accepted :
            /\ records' = [r \in DOMAIN records \cup {a} |-> IF r = a THEN stage ELSE records[r]]
            /\ Audit(s, Record(a))
    BY <1>5 DEF Register
  <2>2. DOMAIN records' = DOMAIN records \cup {a}
    BY <2>1
  <2>3. pc[s] = "idle" /\ jobs' = jobs /\ audited' = audited /\ lost' = lost
    BY <1>5 DEF Register
  <2>4. Stored' = Stored \cup {Record(a)}
    BY <2>2, <2>3 DEF Stored
  <2> QED
    BY <1>1, <2>1, <2>3, <2>4, StoreAudited
<1>6. ASSUME NEW s \in Servers, AppendEvent(s) PROVE AuditKept'
    BY <1>1, <1>6, AppendAudit
<1>7. ASSUME NEW s \in Servers, Promote(s) PROVE AuditKept'
  <2>1. DOMAIN records' = DOMAIN records
    BY <1>7 DEF Promote
  <2>2. /\ Stored' = Stored /\ audited' = audited /\ lost' = lost
        /\ \A t \in Servers : job'[t] = job[t] /\ pc'[t] = pc[t]
    BY <1>7, <2>1 DEF Promote, procVars, Stored
  <2> QED
    BY <1>1, <2>2, AuditFrame
<1>8. ASSUME NEW w \in Workers, Work(w) PROVE AuditKept'
  <2>1. DOMAIN jobs' = DOMAIN jobs
    <3>1. CASE jobs' = jobs
        BY <3>1
    <3>2. CASE ClaimJob(w)
      <4>1. PICK m \in DOMAIN jobs : job[w] = Job(m)
        BY <1>1, <3>2 DEF ClaimJob, TypeOK
      <4>2. jobs' = [jobs EXCEPT ![m].status = "running", ![m].attempts = @ + 1]
        BY <3>2, <4>1, SelectedIs DEF ClaimJob
      <4> QED
        BY <1>1, <4>2, JobClaimed DEF TypeOK, JobRecord
    <3>3. CASE Finish(w)
        BY <3>3 DEF Finish
    <3>4. CASE Settle(w)
        BY <3>4 DEF Settle
    <3> QED
        BY <1>8, <3>1, <3>2, <3>3, <3>4 DEF Work, SelectJob, RunHandler, ReadAttempts
  <2>2. /\ records' = records /\ audited' = audited /\ lost' = lost
        /\ \A p \in Processes : p # w => job'[p] = job[p] /\ pc'[p] = pc[p]
    <3>1. DOMAIN job = Processes /\ DOMAIN pc = Processes
        BY <1>1 DEF TypeOK
    <3>2. CASE SelectJob(w)
        BY <3>1, <3>2 DEF SelectJob, Goto
    <3>3. CASE ClaimJob(w)
        BY <3>1, <3>3 DEF ClaimJob, Goto
    <3>4. CASE RunHandler(w)
        BY <3>1, <3>4 DEF RunHandler, Goto
    <3>5. CASE Finish(w)
        BY <3>1, <3>5 DEF Finish, Goto
    <3>6. CASE ReadAttempts(w) \/ Settle(w)
        BY <3>1, <3>6 DEF ReadAttempts, Settle, Goto
    <3> QED
        BY <1>8, <3>2, <3>3, <3>4, <3>5, <3>6 DEF Work
  <2>3. \A s \in Servers : s \in Processes /\ s # w
    BY PlatformAssumption DEF PlatformAssumption, Processes
  <2>4. Stored' = Stored
    BY <2>1, <2>2 DEF Stored
  <2> QED
    BY <1>1, <2>2, <2>3, <2>4, AuditFrame
<1>9. CASE UNCHANGED vars
  <2>1. /\ Stored' = Stored /\ audited' = audited /\ lost' = lost
        /\ \A s \in Servers : job'[s] = job[s] /\ pc'[s] = pc[s]
    BY <1>9 DEF vars, procVars, Stored
  <2> QED
    BY <1>1, <2>1, AuditFrame
<1> QED
    BY <1>2, <1>3, <1>4, <1>5, <1>6, <1>7, <1>8, <1>9 DEF Next, Serve

\* The audit of the /v2 API, written in a transaction of its own after the
\* row it tells of, never tells of a job or an artifact that is not stored,
\* and leaves one out only while its server is between the two transactions
\* or because it died there.
THEOREM AuditIsTrue == Spec => []AuditTellsTheTruth
<1>1. AuditKept => AuditTellsTheTruth
  <2> SUFFICES ASSUME AuditKept
               PROVE  audited \subseteq Stored
                      /\ Stored \ audited \subseteq lost \cup {job[s] : s \in Servers}
    BY DEF AuditTellsTheTruth, Stored
  <2> QED
    BY DEF AuditKept, Told
<1> QED
    BY <1>1, InitAudit, StepAudit, PTL DEF Spec
=============================================================================
