------------------------- MODULE AuditConsole_proofs -------------------------
(* Proofs about the audit jobs of a host and a page of the console, for any *)
(* number of audits, answers and listed jobs: one audit works at a time and *)
(* needless ones were asked for, a page keeps the running jobs it knows and *)
(* announces their ends.                                                    *)
EXTENDS AuditConsole, FiniteSetTheorems, TLAPS

-----------------------------------------------------------------------------
(* The inductive invariant *)

JobsOK ==
  \E n \in 0 .. MaxJobs : jobs \in [1 .. n -> [status : Status, confirmed : BOOLEAN]]

RowsOK(rows) == rows \in Rows /\ DOMAIN rows \subseteq Jobs

Revisions == UNION {[S -> 1 .. MaxAnswers] : S \in SUBSET Job}

PageOK ==
  /\ RowsOK(shown) /\ RowsOK(previous)
  /\ registered \in Revisions /\ DOMAIN registered \subseteq Jobs
  /\ revision \in 0 .. MaxAnswers
  /\ seen \subseteq Jobs /\ announced \subseteq Jobs

Poll == [start : 0 .. MaxAnswers, step : {"sent", "answered", "denied", "failed"}, rows : Rows]

PollOK == poll # Nil => poll \in Poll /\ poll.start <= revision /\ RowsOK(poll.rows)

LaunchOK ==
  launch # Nil =>
    \/ launch \in [step : {"asking", "asked", "posted"}, confirmed : BOOLEAN]
    \/ launch \in [step : {"answered"}, job : Jobs]

Shapes ==
  /\ JobsOK /\ equal \in BOOLEAN /\ session \in BOOLEAN /\ path \in {"app", "login"}
  /\ PageOK /\ PollOK /\ LaunchOK

OneActive == \A i, j \in ActiveJobs : i = j

AskedFor == \A j \in Jobs : jobs[j].status = "working" /\ equal => jobs[j].confirmed

(* A job that has ended and that no list will name again.                   *)
Gone(j) == j \in Jobs /\ j \notin ActiveJobs /\ j <= Cardinality(Jobs) - MaxListed

(* What came from an answer since the poll was sent is added to its rows.   *)
Later(j) == j \in DOMAIN registered /\ registered[j] > poll.start

(* The rows of a poll on its way miss no job that the page knows.           *)
RowsFresh ==
  poll # Nil /\ poll.step = "answered" =>
    /\ \A j \in DOMAIN poll.rows : j \in ActiveJobs => poll.rows[j] = "active"
    /\ \A j \in ActiveRows(shown) : j \in ActiveJobs => j \in DOMAIN poll.rows \/ Later(j)
    /\ \A j \in seen : j \in DOMAIN poll.rows \/ Later(j) \/ Gone(j)
    /\ \A j \in DOMAIN poll.rows : j \in seen => j \in DOMAIN previous

(* A job that was seen is compared with the next rows, until it is gone.    *)
SeenKept ==
  /\ \A j \in seen : j \in DOMAIN previous \/ Gone(j)
  /\ \A j \in DOMAIN previous : j \in seen /\ previous[j] = "ended" => j \in announced

IInv == Shapes /\ OneActive /\ AskedFor /\ RowsFresh /\ SeenKept /\ CompletionsAnnounced

-----------------------------------------------------------------------------
(* Jobs and rows                                                            *)

LEMMA JobsAre ==
  ASSUME ConsoleAssumption, JobsOK
  PROVE  /\ Cardinality(Jobs) \in 0 .. MaxJobs /\ Jobs = 1 .. Cardinality(Jobs)
         /\ jobs \in [Jobs -> [status : Status, confirmed : BOOLEAN]]
         /\ Jobs \subseteq Job
<1>1. PICK n \in 0 .. MaxJobs : jobs \in [1 .. n -> [status : Status, confirmed : BOOLEAN]] BY DEF JobsOK
<1>2. Jobs = 1 .. n BY <1>1 DEF Jobs
<1>3. n \in Int BY <1>1
<1>4. Cardinality(1 .. n) = n BY <1>1, <1>3, FS_Interval
<1> QED BY <1>1, <1>2, <1>4 DEF ConsoleAssumption, Job

LEMMA RowsAre ==
  ASSUME NEW rows \in Rows
  PROVE  rows = [j \in DOMAIN rows |-> rows[j]] /\ DOMAIN rows \subseteq Job /\ \A j \in DOMAIN rows : rows[j] \in Row
BY DEF Rows

LEMMA RowsMake ==
  ASSUME NEW S \in SUBSET Job, NEW rows \in [S -> Row]
  PROVE  rows \in Rows /\ DOMAIN rows = S
BY DEF Rows

LEMMA EmptyRows == Empty \in Rows /\ DOMAIN Empty = {} /\ ActiveRows(Empty) = {}
<1>1. Empty \in [{} -> Row] BY DEF Empty
<1>2. Empty \in Rows /\ DOMAIN Empty = {} BY <1>1, RowsMake
<1> QED BY <1>2 DEF ActiveRows

LEMMA ToStatus ==
  ASSUME ConsoleAssumption, JobsOK, NEW j \in Jobs, NEW status \in Status, To(j, status)
  PROVE  /\ JobsOK' /\ Jobs' = Jobs
         /\ jobs'[j].status = status /\ jobs'[j].confirmed = jobs[j].confirmed
         /\ \A i \in Jobs : i # j => jobs'[i] = jobs[i]
<1>1. PICK n \in 0 .. MaxJobs : jobs \in [1 .. n -> [status : Status, confirmed : BOOLEAN]] BY DEF JobsOK
<1>2. PICK job : job = [jobs[j] EXCEPT !.status = status] OBVIOUS
<1>3. jobs[j] \in [status : Status, confirmed : BOOLEAN] BY <1>1 DEF Jobs
<1>4. job \in [status : Status, confirmed : BOOLEAN] /\ job.status = status /\ job.confirmed = jobs[j].confirmed
  BY <1>2, <1>3
<1>5. jobs' = [jobs EXCEPT ![j] = job] BY <1>2 DEF To
<1>6. jobs' \in [1 .. n -> [status : Status, confirmed : BOOLEAN]] /\ jobs'[j] = job
      /\ \A i \in Jobs : i # j => jobs'[i] = jobs[i]
  BY <1>1, <1>4, <1>5 DEF Jobs
<1>7. JobsOK' BY <1>1, <1>6 DEF JobsOK
<1> QED BY <1>1, <1>4, <1>6, <1>7 DEF Jobs

LEMMA Creates ==
  ASSUME ConsoleAssumption, JobsOK, OneActive, AskedFor, Cardinality(Jobs) < MaxJobs,
         NEW confirmed \in BOOLEAN, jobs' = CreateAuditJob(confirmed), equal' = equal
  PROVE  /\ JobsOK' /\ Jobs \subseteq Jobs' /\ Cardinality(Jobs) <= Cardinality(Jobs')
         /\ \A j \in Jobs : jobs'[j] = jobs[j]
         /\ OneActive' /\ AskedFor' /\ CreatedJob \in Jobs'
<1>1. /\ Cardinality(Jobs) \in 0 .. MaxJobs /\ Jobs = 1 .. Cardinality(Jobs)
      /\ jobs \in [Jobs -> [status : Status, confirmed : BOOLEAN]]
  BY JobsAre
<1>2. CASE Obstacles # {}
  <2>1. jobs' = jobs BY <1>2 DEF CreateAuditJob
  <2>2. Jobs' = Jobs /\ ActiveJobs' = ActiveJobs BY <2>1 DEF Jobs, ActiveJobs
  <2>3. CreatedJob \in Jobs BY <1>2 DEF CreatedJob, Obstacles, ActiveJobs
  <2> QED BY <1>1, <2>1, <2>2, <2>3 DEF JobsOK, OneActive, AskedFor
<1>3. CASE Obstacles = {}
  <2>1. PICK n : n = Cardinality(Jobs) OBVIOUS
  <2>2. jobs' = [j \in 1 .. n + 1 |-> IF j \in Jobs THEN jobs[j] ELSE [status |-> "queued", confirmed |-> confirmed]]
    BY <1>3, <2>1 DEF CreateAuditJob
  <2>3. n \in Nat /\ n + 1 \in 0 .. MaxJobs /\ Jobs = 1 .. n BY <1>1, <2>1 DEF ConsoleAssumption
  <2>4. jobs' \in [1 .. n + 1 -> [status : Status, confirmed : BOOLEAN]]
    BY <1>1, <2>2 DEF Status
  <2>5. JobsOK' BY <2>3, <2>4 DEF JobsOK
  <2>6. Jobs' = 1 .. n + 1 BY <2>2 DEF Jobs
  <2>7. Cardinality(Jobs') = n + 1 BY <2>3, <2>6, FS_Interval
  <2>8. /\ Jobs \subseteq Jobs' /\ n + 1 \in Jobs' /\ \A j \in Jobs : jobs'[j] = jobs[j]
        /\ \A j \in Jobs' : j \notin Jobs => j = n + 1 /\ jobs'[j].status = "queued"
    BY <2>2, <2>3, <2>6
  <2>9. \A j \in Jobs : ~ Active(jobs[j].status) BY <1>3 DEF Obstacles, ActiveJobs
  <2>10. OneActive' BY <2>8, <2>9 DEF OneActive, ActiveJobs
  <2>11. AskedFor' BY <2>8 DEF AskedFor
  <2>12. CreatedJob = n + 1 BY <1>3, <2>1 DEF CreatedJob
  <2>13. Cardinality(Jobs) <= Cardinality(Jobs')
    <3>1. n <= n + 1 BY <2>3
    <3> QED BY ONLY <2>1, <2>7, <3>1
  <2>14. CreatedJob \in Jobs' BY <2>8, <2>12
  <2> QED BY <2>5, <2>8, <2>10, <2>11, <2>13, <2>14
<1> QED BY <1>2, <1>3

-----------------------------------------------------------------------------
(* Steps that show the page nothing                                         *)

LEMMA GoneStays ==
  ASSUME ConsoleAssumption, JobsOK, JobsOK', Jobs \subseteq Jobs', Cardinality(Jobs) <= Cardinality(Jobs'),
         \A j \in Jobs : j \in ActiveJobs' => j \in ActiveJobs,
         NEW j, Gone(j)
  PROVE  Gone(j)'
<1>1. Cardinality(Jobs) \in Nat /\ Cardinality(Jobs') \in Nat /\ MaxListed \in Nat /\ j \in Nat
  <2>1. Cardinality(Jobs) \in 0 .. MaxJobs /\ Jobs = 1 .. Cardinality(Jobs) BY JobsAre
  <2>2. Cardinality(Jobs') \in 0 .. MaxJobs
    <3>1. PICK n \in 0 .. MaxJobs : jobs' \in [1 .. n -> [status : Status, confirmed : BOOLEAN]] BY DEF JobsOK
    <3>2. Jobs' = 1 .. n BY <3>1 DEF Jobs
    <3>3. Cardinality(1 .. n) = n BY <3>1, FS_Interval
    <3> QED BY <3>1, <3>2, <3>3
  <2> QED BY <2>1, <2>2 DEF ConsoleAssumption, Gone
<1> QED BY <1>1 DEF Gone

LEMMA ServerStep ==
  ASSUME ConsoleAssumption, IInv, JobsOK', Jobs \subseteq Jobs', Cardinality(Jobs) <= Cardinality(Jobs'),
         \A j \in Jobs : j \in ActiveJobs' => j \in ActiveJobs,
         UNCHANGED page, PollOK', poll' = poll \/ (poll' # Nil => poll'.step # "answered"), LaunchOK',
         OneActive', AskedFor', equal' \in BOOLEAN, session' \in BOOLEAN, path' \in {"app", "login"}
  PROVE  IInv'
<1>1. UNCHANGED <<shown, previous, registered, revision, seen, announced>> BY DEF page
<1>2. PageOK BY DEF IInv, Shapes
<1>3. PageOK' BY <1>1, <1>2 DEF PageOK, RowsOK
<1>4. Shapes' BY <1>3 DEF Shapes
<1>5. \A j : Gone(j) => Gone(j)' BY GoneStays DEF IInv, Shapes
<1>6. RowsFresh'
  <2>1. SUFFICES ASSUME poll' = poll, poll # Nil, poll.step = "answered" PROVE RowsFresh'
    BY DEF RowsFresh
  <2>2. RowsOK(poll.rows) BY <2>1 DEF IInv, Shapes, PollOK
  <2>3. ActiveRows(shown) \subseteq Jobs /\ ActiveRows(shown') = ActiveRows(shown)
    BY <1>1, <1>2 DEF PageOK, RowsOK, ActiveRows
  <2>4. \A j : Later(j)' <=> Later(j) BY <1>1, <2>1 DEF Later
  <2>5. RowsFresh BY DEF IInv
  <2>6. \A j \in DOMAIN poll'.rows : j \in ActiveJobs' => poll'.rows[j] = "active"
    BY <2>1, <2>2, <2>5 DEF RowsFresh, RowsOK
  <2>7. \A j \in ActiveRows(shown') : j \in ActiveJobs' => j \in DOMAIN poll'.rows \/ Later(j)'
    BY <2>1, <2>3, <2>4, <2>5 DEF RowsFresh
  <2>8. \A j \in seen' : j \in DOMAIN poll'.rows \/ Later(j)' \/ Gone(j)'
    BY <1>1, <1>5, <2>1, <2>4, <2>5 DEF RowsFresh
  <2>9. \A j \in DOMAIN poll'.rows : j \in seen' => j \in DOMAIN previous'
    BY <1>1, <2>1, <2>5 DEF RowsFresh
  <2> QED BY <2>6, <2>7, <2>8, <2>9 DEF RowsFresh
<1>7. SeenKept' BY <1>1, <1>5 DEF IInv, SeenKept
<1>8. CompletionsAnnounced' BY <1>1 DEF IInv, CompletionsAnnounced
<1> QED BY <1>4, <1>6, <1>7, <1>8 DEF IInv

(* One job moves on.                                                        *)
LEMMA StatusStep ==
  ASSUME ConsoleAssumption, IInv, NEW j \in Jobs, NEW status \in Status, To(j, status),
         Active(jobs[j].status), equal' \in BOOLEAN,
         status = "working" /\ equal' => jobs[j].confirmed,
         equal' => equal \/ status = "published",
         UNCHANGED <<session, path, page, poll, launch>>
  PROVE  IInv'
<1>1. JobsOK /\ OneActive /\ AskedFor /\ session \in BOOLEAN /\ path \in {"app", "login"} /\ PollOK /\ LaunchOK
      /\ PageOK
  BY DEF IInv, Shapes
<1>2. /\ JobsOK' /\ Jobs' = Jobs
      /\ jobs'[j].status = status /\ jobs'[j].confirmed = jobs[j].confirmed
      /\ \A i \in Jobs : i # j => jobs'[i] = jobs[i]
  BY <1>1, ToStatus
<1>3. j \in ActiveJobs BY DEF ActiveJobs
<1>4. ActiveJobs' \subseteq ActiveJobs BY <1>2, <1>3 DEF ActiveJobs
<1>5. OneActive' BY <1>1, <1>4 DEF OneActive
<1>6. \A i \in Jobs : i # j => jobs[i].status # "working"
  BY <1>1, <1>3 DEF OneActive, ActiveJobs, Active
<1>7. AskedFor' BY <1>2, <1>6 DEF AskedFor
<1>8. UNCHANGED <<shown, previous, registered, revision, seen, announced>> BY DEF page
<1>9. PollOK' /\ LaunchOK' BY <1>1, <1>2, <1>8 DEF PollOK, LaunchOK, RowsOK
<1>10. Cardinality(Jobs) <= Cardinality(Jobs') BY <1>1, <1>2, JobsAre DEF ConsoleAssumption
<1> QED BY <1>1, <1>2, <1>4, <1>5, <1>7, <1>9, <1>10, ServerStep

LEMMA JobStep ==
  ASSUME ConsoleAssumption, IInv, NEW j \in Jobs,
         \/ Begin(j) \/ Execute(j) \/ FinishAuditJob(j)
         \/ \E complete \in BOOLEAN : PublishReport(j, complete)
  PROVE  IInv'
<1>1. equal \in BOOLEAN BY DEF IInv, Shapes
<1>2. {"running", "working", "published", "ended"} \subseteq Status BY DEF Status
<1>3. CASE Begin(j) BY <1>1, <1>2, <1>3, StatusStep DEF Begin, Active
<1>4. CASE Execute(j)
  <2>1. PICK status : status = IF Refused(j) THEN "ended" ELSE "working" OBVIOUS
  <2>2. status \in Status /\ To(j, status) /\ Active(jobs[j].status) BY <1>2, <1>4, <2>1 DEF Execute, Active
  <2>3. equal' = equal /\ UNCHANGED <<session, path, page, poll, launch>> BY <1>4 DEF Execute
  <2>4. jobs[j].confirmed \in BOOLEAN
    BY JobsAre DEF IInv, Shapes
  <2>5. status = "working" /\ equal' => jobs[j].confirmed BY <2>1, <2>3 DEF Refused
  <2> QED BY <1>1, <2>2, <2>3, <2>5, StatusStep
<1>5. CASE FinishAuditJob(j) BY <1>1, <1>2, <1>5, StatusStep DEF FinishAuditJob, Active
<1>6. ASSUME NEW complete \in BOOLEAN, PublishReport(j, complete) PROVE IInv'
  BY <1>1, <1>2, <1>6, StatusStep DEF PublishReport, Active
<1> QED BY <1>3, <1>4, <1>5, <1>6

(* Neither the jobs nor the page change.                                    *)
LEMMA QuietStep ==
  ASSUME ConsoleAssumption, IInv, UNCHANGED <<jobs, page>>, PollOK',
         poll' = poll \/ (poll' # Nil => poll'.step # "answered"),
         launch' # Nil /\ launch' # launch => launch' \in [step : {"asking", "asked", "posted"}, confirmed : BOOLEAN],
         equal' \in BOOLEAN, equal' => equal, session' \in BOOLEAN, path' \in {"app", "login"}
  PROVE  IInv'
<1>1. JobsOK /\ OneActive /\ AskedFor /\ LaunchOK BY DEF IInv, Shapes
<1>2. Jobs' = Jobs /\ ActiveJobs' = ActiveJobs BY DEF Jobs, ActiveJobs
<1>3. JobsOK' /\ OneActive' BY <1>1, <1>2 DEF JobsOK, OneActive
<1>4. AskedFor' BY <1>1, <1>2 DEF AskedFor
<1>5. LaunchOK' BY <1>1, <1>2 DEF LaunchOK
<1>6. Cardinality(Jobs) <= Cardinality(Jobs') BY <1>1, <1>2, JobsAre DEF ConsoleAssumption
<1> QED BY <1>2, <1>3, <1>4, <1>5, <1>6, ServerStep

(* A poll that is new, or on its way, or lost.                              *)
LEMMA PollStep ==
  ASSUME ConsoleAssumption, IInv, UNCHANGED <<server, session, path, page, launch>>,
         poll' = Nil \/ (poll' \in Poll /\ poll'.start <= revision /\ RowsOK(poll'.rows) /\ poll'.step # "answered")
  PROVE  IInv'
<1>1. UNCHANGED <<jobs, equal, shown, previous, registered, revision, seen, announced>> BY DEF server, page
<1>2. Jobs' = Jobs BY <1>1 DEF Jobs
<1>3. PollOK' BY <1>1, <1>2 DEF PollOK, RowsOK
<1>4. equal \in BOOLEAN /\ session \in BOOLEAN /\ path \in {"app", "login"} BY DEF IInv, Shapes
<1> QED BY <1>1, <1>3, <1>4, QuietStep

LEMMA SamePoll ==
  ASSUME IInv, UNCHANGED <<jobs, page, poll>>
  PROVE  PollOK' /\ equal \in BOOLEAN /\ session \in BOOLEAN /\ path \in {"app", "login"}
<1>1. revision' = revision /\ Jobs' = Jobs BY DEF page, Jobs
<1> QED BY <1>1 DEF IInv, Shapes, PollOK, RowsOK

LEMMA OperatorStep ==
  ASSUME ConsoleAssumption, IInv,
         RunAction \/ FindRepeatAuditNotice \/ Send \/ GiveUp \/ LogIn \/ Expire \/ RecordChange
  PROVE  IInv'
<1>1. UNCHANGED <<jobs, page, poll>> BY DEF RunAction, FindRepeatAuditNotice, Send, GiveUp, LogIn, Expire, RecordChange, server
<1>2. PollOK' /\ equal \in BOOLEAN /\ session \in BOOLEAN /\ path \in {"app", "login"} BY <1>1, SamePoll
<1>3. launch' # Nil /\ launch' # launch => launch' \in [step : {"asking", "asked", "posted"}, confirmed : BOOLEAN]
  <2>1. CASE RunAction BY <2>1 DEF RunAction
  <2>2. CASE FindRepeatAuditNotice BY <1>2, <2>2 DEF FindRepeatAuditNotice
  <2>3. CASE Send
    <3>1. launch \in [step : {"asking", "asked", "posted"}, confirmed : BOOLEAN]
      BY <2>3 DEF Send, IInv, Shapes, LaunchOK
    <3>2. launch' = [launch EXCEPT !.step = "posted"] BY <2>3 DEF Send
    <3> QED BY <3>1, <3>2
  <2>4. CASE GiveUp \/ LogIn \/ Expire \/ RecordChange BY <2>4 DEF GiveUp, LogIn, Expire, RecordChange
  <2> QED BY <2>1, <2>2, <2>3, <2>4
<1>4. equal' \in BOOLEAN /\ (equal' => equal)
  <2>1. equal' = equal \/ equal' = FALSE
    BY DEF RunAction, FindRepeatAuditNotice, Send, GiveUp, LogIn, Expire, RecordChange, server
  <2>2. CASE equal' = equal BY ONLY <1>2, <2>2
  <2>3. CASE equal' = FALSE BY ONLY <2>3
  <2> QED BY <2>1, <2>2, <2>3
<1>5. session' \in BOOLEAN /\ path' \in {"app", "login"}
  BY <1>2 DEF RunAction, FindRepeatAuditNotice, Send, GiveUp, LogIn, Expire, RecordChange, server
<1> QED BY <1>1, <1>2, <1>3, <1>4, <1>5, QuietStep

LEMMA RefreshStep == ASSUME ConsoleAssumption, IInv, Refresh \/ FailPoll PROVE IInv'
<1>1. UNCHANGED <<server, session, path, page, launch>> BY DEF Refresh, FailPoll
<1>2. CASE Refresh
  <2>1. revision \in 0 .. MaxAnswers /\ revision <= revision BY DEF IInv, Shapes, PageOK, ConsoleAssumption
  <2>2. poll' = [start |-> revision, step |-> "sent", rows |-> Empty] BY <1>2 DEF Refresh
  <2>3. RowsOK(Empty) BY EmptyRows DEF RowsOK
  <2>4. poll' \in Poll BY <2>1, <2>2, EmptyRows DEF Poll
  <2> QED BY <1>1, <2>1, <2>2, <2>3, <2>4, PollStep
<1>3. CASE FailPoll BY <1>1, <1>3, PollStep DEF FailPoll
<1> QED BY <1>2, <1>3

LEMMA RestartStep == ASSUME ConsoleAssumption, IInv, Restart PROVE IInv'
<1>1. JobsOK /\ PollOK /\ equal \in BOOLEAN /\ session \in BOOLEAN /\ path \in {"app", "login"}
  BY DEF IInv, Shapes
<1>2. UNCHANGED <<equal, session, path, page>> /\ launch' = Nil BY DEF Restart
<1>3. jobs' = [j \in Jobs |-> [jobs[j] EXCEPT !.status = "ended"]] BY DEF Restart
<1>4. PICK n \in 0 .. MaxJobs : jobs \in [1 .. n -> [status : Status, confirmed : BOOLEAN]] BY <1>1 DEF JobsOK
<1>5. Jobs = 1 .. n /\ Jobs' = Jobs BY <1>3, <1>4 DEF Jobs
<1>6. \A j \in Jobs : jobs'[j] \in [status : Status, confirmed : BOOLEAN] /\ jobs'[j].status = "ended"
  BY <1>3, <1>4, <1>5 DEF Status
<1>7. jobs' \in [1 .. n -> [status : Status, confirmed : BOOLEAN]] BY <1>3, <1>5, <1>6
<1>8. JobsOK' BY <1>4, <1>7 DEF JobsOK
<1>9. ActiveJobs' = {} BY <1>5, <1>6 DEF ActiveJobs, Active
<1>10. OneActive' /\ AskedFor' BY <1>5, <1>6, <1>9 DEF OneActive, AskedFor
<1>11. Cardinality(Jobs) <= Cardinality(Jobs') BY <1>1, <1>5, JobsAre DEF ConsoleAssumption
<1>12. revision' = revision BY <1>2 DEF page
<1>13. PollOK' /\ (poll' # Nil => poll'.step # "answered")
  <2>1. SUFFICES ASSUME poll' # Nil PROVE PollOK' /\ poll'.step # "answered" BY DEF PollOK
  <2>2. poll # Nil /\ poll' = [poll EXCEPT !.step = "failed"] BY <2>1 DEF Restart
  <2>3. poll \in Poll /\ poll.start <= revision /\ RowsOK(poll.rows) BY <1>1, <2>2 DEF PollOK
  <2>4. poll' \in Poll /\ poll'.start = poll.start /\ poll'.step = "failed" /\ poll'.rows = poll.rows
    BY <2>2, <2>3 DEF Poll
  <2> QED BY <1>5, <1>12, <2>3, <2>4 DEF PollOK, RowsOK
<1>14. LaunchOK' BY <1>2 DEF LaunchOK
<1>15. \A j \in Jobs : j \in ActiveJobs' => j \in ActiveJobs BY <1>9
<1> QED BY <1>1, <1>2, <1>5, <1>8, <1>10, <1>11, <1>13, <1>14, <1>15, ServerStep

LEMMA CreateStep ==
  ASSUME ConsoleAssumption, IInv, ServeLaunch \/ \E confirmed \in BOOLEAN : OtherLaunch(confirmed)
  PROVE  IInv'
<1>1. UNCHANGED <<equal, session, path, page, poll>> /\ Cardinality(Jobs) < MaxJobs BY DEF ServeLaunch, OtherLaunch
<1>2. PICK confirmed \in BOOLEAN : jobs' = CreateAuditJob(confirmed)
  <2>1. CASE ServeLaunch
    <3>1. launch.confirmed \in BOOLEAN BY <2>1 DEF ServeLaunch, IInv, Shapes, LaunchOK
    <3> QED BY <2>1, <3>1 DEF ServeLaunch
  <2> QED BY <2>1 DEF OtherLaunch
<1>3. JobsOK /\ OneActive /\ AskedFor /\ PollOK /\ LaunchOK /\ equal \in BOOLEAN /\ session \in BOOLEAN
      /\ path \in {"app", "login"}
  BY DEF IInv, Shapes
<1>4. /\ JobsOK' /\ Jobs \subseteq Jobs' /\ Cardinality(Jobs) <= Cardinality(Jobs')
      /\ \A j \in Jobs : jobs'[j] = jobs[j]
      /\ OneActive' /\ AskedFor' /\ CreatedJob \in Jobs'
  BY <1>1, <1>2, <1>3, Creates
<1>5. revision' = revision BY <1>1 DEF page
<1>6. PollOK' BY <1>1, <1>3, <1>4, <1>5 DEF PollOK, RowsOK
<1>7. LaunchOK'
  <2>1. CASE ServeLaunch
    <3>1. launch' = [step |-> "answered", job |-> CreatedJob] BY <2>1 DEF ServeLaunch
    <3> QED BY <1>4, <3>1 DEF LaunchOK
  <2>2. CASE launch' = launch BY <1>3, <1>4, <2>2 DEF LaunchOK
  <2> QED BY <2>1, <2>2 DEF OtherLaunch
<1>8. \A j \in Jobs : j \in ActiveJobs' => j \in ActiveJobs BY <1>4 DEF ActiveJobs
<1> QED BY <1>1, <1>3, <1>4, <1>6, <1>7, <1>8, ServerStep

-----------------------------------------------------------------------------
(* Steps that change the page                                               *)

(* The jobs stay as they are.                                               *)
LEMMA PageStep ==
  ASSUME ConsoleAssumption, IInv, UNCHANGED <<jobs, equal, session>>, path' \in {"app", "login"},
         PageOK', PollOK', LaunchOK', RowsFresh', SeenKept', CompletionsAnnounced'
  PROVE  IInv'
<1>1. JobsOK' /\ equal' \in BOOLEAN /\ session' \in BOOLEAN BY DEF IInv, Shapes, JobsOK
<1>2. OneActive' /\ AskedFor' BY DEF IInv, OneActive, AskedFor, ActiveJobs, Jobs
<1> QED BY <1>1, <1>2 DEF IInv, Shapes

LEMMA SameJobs ==
  ASSUME jobs' = jobs
  PROVE  /\ Jobs' = Jobs /\ ActiveJobs' = ActiveJobs
         /\ \A j : Gone(j)' <=> Gone(j)
         /\ \A rows : RowsOK(rows)' <=> RowsOK(rows)
<1>1. Jobs' = Jobs BY DEF Jobs
<1>2. ActiveJobs' = ActiveJobs BY <1>1 DEF ActiveJobs
<1> QED BY <1>1, <1>2 DEF Gone, RowsOK

LEMMA VisitLoginStep == ASSUME ConsoleAssumption, IInv, VisitLogin PROVE IInv'
<1>1. /\ UNCHANGED <<jobs, equal, session, shown, registered, revision, announced, poll, launch>>
      /\ path' = "login" /\ previous' = Empty /\ seen' = {}
  BY DEF VisitLogin, server
<1>2. PageOK /\ PollOK /\ LaunchOK BY DEF IInv, Shapes
<1>3. Jobs' = Jobs /\ ActiveJobs' = ActiveJobs BY <1>1, SameJobs
<1>4. PageOK' BY <1>1, <1>2, <1>3, EmptyRows DEF PageOK, RowsOK
<1>5. PollOK' /\ LaunchOK' BY <1>1, <1>2, <1>3 DEF PollOK, LaunchOK, RowsOK
<1>6. \A j : Later(j)' <=> Later(j) BY <1>1 DEF Later
<1>7. ActiveRows(shown') = ActiveRows(shown) BY <1>1 DEF ActiveRows
<1>8. RowsFresh' BY <1>1, <1>3, <1>6, <1>7 DEF IInv, RowsFresh
<1>9. SeenKept' /\ CompletionsAnnounced' BY <1>1, EmptyRows DEF SeenKept, CompletionsAnnounced
<1> QED BY <1>1, <1>4, <1>5, <1>8, <1>9, PageStep

LEMMA DeliverDenialStep == ASSUME ConsoleAssumption, IInv, DeliverDenial PROVE IInv'
<1>1. /\ UNCHANGED <<jobs, equal, session, path, revision, announced, launch>>
      /\ shown' = Empty /\ previous' = Empty /\ registered' = Empty /\ seen' = {} /\ poll' = Nil
  BY DEF DeliverDenial, server
<1>2. PageOK /\ LaunchOK /\ path \in {"app", "login"} BY DEF IInv, Shapes
<1>3. Jobs' = Jobs BY <1>1, SameJobs
<1>4. Empty \in Revisions
  <2>1. Empty \in [{} -> 1 .. MaxAnswers] BY DEF Empty
  <2> QED BY <2>1 DEF Revisions
<1>5. PageOK' BY <1>1, <1>2, <1>3, <1>4, EmptyRows DEF PageOK, RowsOK
<1>6. PollOK' /\ LaunchOK' /\ RowsFresh' BY <1>1, <1>2, <1>3 DEF PollOK, LaunchOK, RowsFresh
<1>7. SeenKept' /\ CompletionsAnnounced' BY <1>1, EmptyRows DEF SeenKept, CompletionsAnnounced
<1> QED BY <1>1, <1>2, <1>5, <1>6, <1>7, PageStep

(* The list leaves out only jobs that are gone.                             *)
LEMMA Listed ==
  ASSUME ConsoleAssumption, JobsOK
  PROVE  /\ RowsOK(ListAuditJobs)
         /\ \A j \in ActiveJobs : j \in DOMAIN ListAuditJobs /\ ListAuditJobs[j] = "active"
         /\ \A j \in Jobs : j \in DOMAIN ListAuditJobs <=> ~ Gone(j)
<1>1. PICK S : S = ActiveJobs \cup {j \in Jobs : j > Cardinality(Jobs) - MaxListed} OBVIOUS
<1>2. Cardinality(Jobs) \in Nat /\ Jobs = 1 .. Cardinality(Jobs) /\ Jobs \subseteq Job BY JobsAre DEF ConsoleAssumption
<1>3. ActiveJobs \subseteq Jobs /\ S \subseteq Jobs BY <1>1 DEF ActiveJobs
<1>4. ListAuditJobs = [j \in S |-> RowOf(j)] BY <1>1 DEF ListAuditJobs
<1>5. \A j : RowOf(j) \in Row BY DEF RowOf, Row
<1>6. ListAuditJobs \in [S -> Row] BY <1>4, <1>5
<1>7. RowsOK(ListAuditJobs) /\ DOMAIN ListAuditJobs = S BY <1>2, <1>3, <1>6, RowsMake DEF RowsOK
<1>8. \A j \in ActiveJobs : j \in S /\ ListAuditJobs[j] = "active"
  BY <1>1, <1>4 DEF RowOf, ActiveJobs
<1>9. ASSUME NEW j \in Jobs PROVE j \in S <=> ~ Gone(j)
  <2>1. j \in Nat /\ MaxListed \in Nat BY <1>2 DEF ConsoleAssumption
  <2>2. j > Cardinality(Jobs) - MaxListed <=> ~ (j <= Cardinality(Jobs) - MaxListed) BY <1>2, <2>1
  <2> QED BY <1>1, <2>2 DEF Gone
<1> QED BY <1>7, <1>8, <1>9

LEMMA ServePollStep == ASSUME ConsoleAssumption, IInv, ServePoll PROVE IInv'
<1>1. /\ UNCHANGED <<jobs, equal, session, path, shown, previous, registered, revision, seen, announced, launch>>
      /\ UNCHANGED <<server, session, path, page, launch>>
  BY DEF ServePoll, server, page
<1>2. PageOK /\ PollOK /\ LaunchOK /\ JobsOK /\ path \in {"app", "login"} BY DEF IInv, Shapes
<1>3. poll \in Poll /\ poll.start <= revision /\ RowsOK(poll.rows) BY <1>2 DEF ServePoll, PollOK
<1>4. Jobs' = Jobs /\ ActiveJobs' = ActiveJobs /\ (\A j : Gone(j)' <=> Gone(j)) BY <1>1, SameJobs
<1>5. CASE ~ session
  <2>1. poll' = [poll EXCEPT !.step = "denied"] BY <1>5 DEF ServePoll
  <2>2. poll' \in Poll /\ poll'.start = poll.start /\ poll'.rows = poll.rows /\ poll'.step = "denied"
    BY <1>3, <2>1 DEF Poll
  <2> QED BY <1>1, <1>3, <2>2, PollStep
<1>6. CASE session
  <2>1. PICK rows : rows = ListAuditJobs OBVIOUS
  <2>2. poll' = [poll EXCEPT !.step = "answered", !.rows = rows] BY <1>6, <2>1 DEF ServePoll
  <2>3. /\ RowsOK(rows)
        /\ \A j \in ActiveJobs : j \in DOMAIN rows /\ rows[j] = "active"
        /\ \A j \in Jobs : j \in DOMAIN rows <=> ~ Gone(j)
    BY <1>2, <2>1, Listed
  <2>4. poll' \in Poll /\ poll'.start = poll.start /\ poll'.rows = rows /\ poll'.step = "answered"
    BY <1>3, <2>2, <2>3 DEF Poll, RowsOK
  <2>5. PageOK' /\ LaunchOK' BY <1>1, <1>2, <1>4 DEF PageOK, LaunchOK, RowsOK
  <2>6. PollOK' BY <1>1, <1>3, <1>4, <2>3, <2>4 DEF PollOK, RowsOK
  <2>7. SeenKept' BY <1>1, <1>4 DEF IInv, SeenKept
  <2>8. CompletionsAnnounced' BY <1>1 DEF IInv, CompletionsAnnounced
  <2>9. RowsFresh'
    <3>1. \A j \in DOMAIN rows : j \in ActiveJobs => rows[j] = "active" BY <2>3
    <3>2. \A j \in ActiveRows(shown)' : j \in ActiveJobs' => j \in DOMAIN rows BY <1>4, <2>3
    <3>3. \A j \in seen : j \in DOMAIN rows \/ Gone(j) BY <1>2, <2>3 DEF PageOK
    <3>4. \A j \in DOMAIN rows : j \in seen => j \in DOMAIN previous
      BY <2>3 DEF IInv, SeenKept, RowsOK
    <3> QED BY <1>1, <1>4, <2>4, <3>1, <3>2, <3>3, <3>4 DEF RowsFresh
  <2> QED BY <1>1, <1>2, <2>5, <2>6, <2>7, <2>8, <2>9, PageStep
<1> QED BY <1>5, <1>6

LEMMA Merged ==
  ASSUME ConsoleAssumption, JobsOK, NEW rows, RowsOK(rows), NEW later \in SUBSET Jobs,
         NEW next, next = MergeAuditSnapshot(rows, later)
  PROVE  /\ RowsOK(next) /\ DOMAIN next = DOMAIN rows \cup later
         /\ \A j \in DOMAIN rows : next[j] = rows[j]
         /\ \A j \in later : j \notin DOMAIN rows => next[j] = "active"
<1>1. PICK S : S = DOMAIN rows \cup later OBVIOUS
<1>2. S \subseteq Jobs /\ Jobs \subseteq Job BY <1>1, JobsAre DEF RowsOK
<1>3. next = [j \in S |-> IF j \in DOMAIN rows THEN rows[j] ELSE "active"] BY <1>1 DEF MergeAuditSnapshot
<1>4. \A j \in DOMAIN rows : rows[j] \in Row BY RowsAre DEF RowsOK
<1>5. next \in [S -> Row] BY <1>3, <1>4 DEF Row
<1>6. S \in SUBSET Job BY <1>2
<1>7. next \in Rows /\ DOMAIN next = S BY <1>5, <1>6, RowsMake
<1> QED BY <1>1, <1>2, <1>3, <1>7 DEF RowsOK

LEMMA DeliverPollStep == ASSUME ConsoleAssumption, IInv, DeliverPoll PROVE IInv'
<1>1. PICK later : later = {j \in DOMAIN registered : registered[j] > poll.start} OBVIOUS
<1>2. PICK rows : rows = poll.rows OBVIOUS
<1>3. PICK next : next = MergeAuditSnapshot(rows, later) OBVIOUS
<1>4. /\ poll # Nil /\ poll.step = "answered" /\ poll' = Nil
      /\ UNCHANGED <<jobs, equal, session, path, revision, launch>>
      /\ registered' = Restrict(registered, later \ DOMAIN rows)
      /\ announced' = announced \cup CompletedAuditTransitions(previous, next)
      /\ shown' = next /\ previous' = next /\ seen' = seen \cup ActiveRows(next)
  BY <1>1, <1>2, <1>3 DEF DeliverPoll, StartOf, Show, server
<1>5. JobsOK /\ PageOK /\ LaunchOK /\ PollOK /\ path \in {"app", "login"} BY DEF IInv, Shapes
<1>6. RowsOK(rows) /\ later \in SUBSET Jobs BY <1>1, <1>2, <1>4, <1>5 DEF PollOK, PageOK
<1>7. /\ RowsOK(next) /\ DOMAIN next = DOMAIN rows \cup later
      /\ \A j \in DOMAIN rows : next[j] = rows[j]
      /\ \A j \in later : j \notin DOMAIN rows => next[j] = "active"
  BY <1>3, <1>5, <1>6, Merged
<1>8. Jobs' = Jobs /\ ActiveJobs' = ActiveJobs /\ (\A j : Gone(j)' <=> Gone(j)) BY <1>4, SameJobs
<1>9. \A j : Later(j) <=> j \in later BY <1>1 DEF Later
<1>10. registered' \in Revisions /\ DOMAIN registered' \subseteq Jobs
  <2>1. PICK D : D = later \ DOMAIN rows OBVIOUS
  <2>2. registered' = [j \in D |-> registered[j]] BY <1>4, <2>1 DEF Restrict
  <2>3. D \subseteq DOMAIN registered BY <1>1, <2>1
  <2>4. DOMAIN registered \subseteq Job /\ \A j \in DOMAIN registered : registered[j] \in 1 .. MaxAnswers
    BY <1>5 DEF PageOK, Revisions
  <2>5. registered' \in [D -> 1 .. MaxAnswers] /\ D \in SUBSET Job BY <2>2, <2>3, <2>4
  <2>6. DOMAIN registered' = D /\ D \subseteq Jobs BY <1>5, <2>2, <2>3 DEF PageOK
  <2> QED BY <2>5, <2>6 DEF Revisions
<1>11. CompletedAuditTransitions(previous, next) \subseteq Jobs /\ ActiveRows(next) \subseteq Jobs
  BY <1>7 DEF CompletedAuditTransitions, ActiveRows, RowsOK
<1>12. PageOK' BY <1>4, <1>5, <1>7, <1>8, <1>10, <1>11 DEF PageOK, RowsOK
<1>13. PollOK' /\ LaunchOK' /\ RowsFresh' BY <1>4, <1>5, <1>8 DEF PollOK, LaunchOK, RowsFresh
<1>14. /\ \A j \in seen : j \in DOMAIN rows \/ j \in later \/ Gone(j)
       /\ \A j \in DOMAIN rows : j \in seen => j \in DOMAIN previous
  BY <1>2, <1>4, <1>9 DEF IInv, RowsFresh
<1>15. ASSUME NEW j \in DOMAIN next, j \in seen', next[j] = "ended" PROVE j \in announced'
  <2>1. j \in DOMAIN rows BY <1>7, <1>15
  <2>2. j \in seen BY <1>4, <1>15 DEF ActiveRows
  <2>3. j \in DOMAIN previous BY <1>14, <2>1, <2>2
  <2>4. previous[j] \in Row BY <1>5, <2>3, RowsAre DEF PageOK, RowsOK
  <2>5. CASE previous[j] = "active" BY <1>4, <1>15, <2>3, <2>5 DEF CompletedAuditTransitions
  <2>6. CASE previous[j] = "ended" BY <1>4, <2>2, <2>3, <2>6 DEF IInv, SeenKept
  <2> QED BY <2>4, <2>5, <2>6 DEF Row
<1>16. SeenKept'
  <2>1. \A j \in seen' : j \in DOMAIN previous' \/ Gone(j)'
    BY <1>4, <1>7, <1>8, <1>14 DEF ActiveRows
  <2> QED BY <1>4, <1>15, <2>1 DEF SeenKept
<1>17. CompletionsAnnounced' BY <1>4, <1>15 DEF CompletionsAnnounced
<1> QED BY <1>4, <1>5, <1>12, <1>13, <1>16, <1>17, PageStep

(* A row that a launch puts on the page.                                    *)
LEMMA RowAdded ==
  ASSUME ConsoleAssumption, JobsOK, NEW rows, RowsOK(rows), NEW j \in Jobs,
         NEW next, next = [i \in DOMAIN rows \cup {j} |-> IF i = j THEN "active" ELSE rows[i]]
  PROVE  /\ RowsOK(next) /\ DOMAIN next = DOMAIN rows \cup {j} /\ next[j] = "active"
         /\ \A i \in DOMAIN rows : i # j => next[i] = rows[i]
<1>1. PICK S : S = DOMAIN rows \cup {j} OBVIOUS
<1>2. S \subseteq Jobs /\ Jobs \subseteq Job BY <1>1, JobsAre DEF RowsOK
<1>3. next = [i \in S |-> IF i = j THEN "active" ELSE rows[i]] BY <1>1
<1>4. \A i \in DOMAIN rows : rows[i] \in Row BY RowsAre DEF RowsOK
<1>5. next \in [S -> Row] BY <1>1, <1>3, <1>4 DEF Row
<1>6. S \in SUBSET Job BY <1>2
<1>7. next \in Rows /\ DOMAIN next = S BY <1>5, <1>6, RowsMake
<1> QED BY <1>1, <1>2, <1>3, <1>7 DEF RowsOK

LEMMA RememberJobStep == ASSUME ConsoleAssumption, IInv, RememberJob PROVE IInv'
<1>1. PICK j : j = launch.job OBVIOUS
<1>2. /\ launch # Nil /\ launch.step = "answered" /\ revision < MaxAnswers /\ launch' = Nil
      /\ UNCHANGED <<jobs, equal, session, path, poll>>
      /\ revision' = revision + 1
      /\ registered' = [i \in DOMAIN registered \cup {j} |-> IF i = j THEN revision + 1 ELSE registered[i]]
      /\ previous' = [i \in DOMAIN previous \cup {j} |-> IF i = j THEN "active" ELSE previous[i]]
      /\ shown' = [i \in DOMAIN shown \cup {j} |-> IF i = j THEN "active" ELSE shown[i]]
      /\ seen' = seen \cup {j} /\ announced' = announced \ {j}
  BY <1>1 DEF RememberJob, RememberPrevious, server
<1>3. JobsOK /\ PageOK /\ LaunchOK /\ PollOK /\ path \in {"app", "login"} BY DEF IInv, Shapes
<1>4. j \in Jobs BY <1>1, <1>2, <1>3 DEF LaunchOK
<1>5. Jobs' = Jobs /\ ActiveJobs' = ActiveJobs /\ (\A i : Gone(i)' <=> Gone(i)) BY <1>2, SameJobs
<1>6. /\ RowsOK(shown') /\ DOMAIN shown' = DOMAIN shown \cup {j} /\ shown'[j] = "active"
      /\ \A i \in DOMAIN shown : i # j => shown'[i] = shown[i]
  <2>1. RowsOK(shown) BY <1>3 DEF PageOK
  <2>2. PICK next : next = [i \in DOMAIN shown \cup {j} |-> IF i = j THEN "active" ELSE shown[i]] OBVIOUS
  <2>3. shown' = next BY <1>2, <2>2
  <2>4. /\ RowsOK(next) /\ DOMAIN next = DOMAIN shown \cup {j} /\ next[j] = "active"
        /\ \A i \in DOMAIN shown : i # j => next[i] = shown[i]
    BY ONLY ConsoleAssumption, <1>3, <1>4, <2>1, <2>2, RowAdded
  <2> QED BY <2>3, <2>4
<1>7. /\ RowsOK(previous') /\ DOMAIN previous' = DOMAIN previous \cup {j} /\ previous'[j] = "active"
      /\ \A i \in DOMAIN previous : i # j => previous'[i] = previous[i]
  <2>1. RowsOK(previous) BY <1>3 DEF PageOK
  <2>2. PICK next : next = [i \in DOMAIN previous \cup {j} |-> IF i = j THEN "active" ELSE previous[i]] OBVIOUS
  <2>3. previous' = next BY <1>2, <2>2
  <2>4. /\ RowsOK(next) /\ DOMAIN next = DOMAIN previous \cup {j} /\ next[j] = "active"
        /\ \A i \in DOMAIN previous : i # j => next[i] = previous[i]
    BY ONLY ConsoleAssumption, <1>3, <1>4, <2>1, <2>2, RowAdded
  <2> QED BY <2>3, <2>4
<1>8. revision \in Nat /\ MaxAnswers \in Nat /\ revision' \in 1 .. MaxAnswers
  BY <1>2, <1>3 DEF PageOK, ConsoleAssumption
<1>9. /\ registered' \in Revisions /\ DOMAIN registered' \subseteq Jobs
      /\ DOMAIN registered' = DOMAIN registered \cup {j} /\ registered'[j] = revision + 1
      /\ \A i \in DOMAIN registered : i # j => registered'[i] = registered[i]
  <2>1. PICK D : D = DOMAIN registered \cup {j} OBVIOUS
  <2>2. registered' = [i \in D |-> IF i = j THEN revision + 1 ELSE registered[i]] BY <1>2, <2>1
  <2>3. DOMAIN registered \subseteq Jobs /\ \A i \in DOMAIN registered : registered[i] \in 1 .. MaxAnswers
    BY <1>3 DEF PageOK, Revisions
  <2>4. D \subseteq Jobs /\ D \subseteq Job BY <1>3, <1>4, <2>1, <2>3, JobsAre
  <2>5. registered' \in [D -> 1 .. MaxAnswers] BY <1>2, <1>8, <2>1, <2>2, <2>3
  <2>6. registered' \in Revisions BY <2>4, <2>5 DEF Revisions
  <2> QED BY <2>1, <2>2, <2>4, <2>6
<1>10. PageOK' BY <1>2, <1>3, <1>4, <1>5, <1>6, <1>7, <1>8, <1>9 DEF PageOK, RowsOK
<1>11. PollOK'
  <2>1. SUFFICES ASSUME poll # Nil PROVE poll \in Poll /\ poll.start <= revision + 1 /\ RowsOK(poll.rows)
    BY <1>2, <1>5 DEF PollOK, RowsOK
  <2>2. poll \in Poll /\ poll.start <= revision /\ RowsOK(poll.rows) BY <1>3, <2>1 DEF PollOK
  <2>3. poll.start \in Int BY <2>2 DEF Poll
  <2> QED BY <1>8, <2>2, <2>3
<1>12. LaunchOK' BY <1>2 DEF LaunchOK
<1>13. RowsFresh'
  <2>1. SUFFICES ASSUME poll # Nil, poll.step = "answered" PROVE RowsFresh' BY <1>2 DEF RowsFresh
  <2>2. poll.start \in Int /\ poll.start <= revision BY <1>3, <2>1 DEF PollOK, Poll
  <2>3. Later(j)' BY <1>2, <1>8, <1>9, <2>2 DEF Later
  <2>4. \A i : Later(i) => Later(i)' BY <1>2, <1>9, <2>3 DEF Later
  <2>5. \A i \in ActiveRows(shown') : i # j => i \in ActiveRows(shown) BY <1>6 DEF ActiveRows
  <2>6. RowsFresh BY DEF IInv
  <2>7. \A i \in DOMAIN poll.rows : i \in ActiveJobs => poll.rows[i] = "active" BY <2>1, <2>6 DEF RowsFresh
  <2>8. \A i \in ActiveRows(shown') : i \in ActiveJobs => i \in DOMAIN poll.rows \/ Later(i)'
    BY <2>1, <2>3, <2>4, <2>5, <2>6 DEF RowsFresh
  <2>9. \A i \in seen' : i \in DOMAIN poll.rows \/ Later(i)' \/ Gone(i)
    BY <1>2, <2>1, <2>3, <2>4, <2>6 DEF RowsFresh
  <2>10. \A i \in DOMAIN poll.rows : i \in seen' => i \in DOMAIN previous'
    BY <1>2, <1>7, <2>1, <2>6 DEF RowsFresh
  <2> QED BY <1>2, <1>5, <2>7, <2>8, <2>9, <2>10 DEF RowsFresh
<1>14. SeenKept' BY <1>2, <1>5, <1>7 DEF IInv, SeenKept
<1>15. CompletionsAnnounced' BY <1>2, <1>6 DEF IInv, CompletionsAnnounced
<1> QED BY <1>2, <1>3, <1>10, <1>11, <1>12, <1>13, <1>14, <1>15, PageStep

-----------------------------------------------------------------------------
(* The theorems                                                             *)

LEMMA InitIInv == ASSUME ConsoleAssumption, Init PROVE IInv
<1>1. Jobs = {} BY DEF Init, Jobs
<1>2. jobs \in [1 .. 0 -> [status : Status, confirmed : BOOLEAN]] BY DEF Init
<1>3. JobsOK BY <1>2 DEF JobsOK, ConsoleAssumption
<1>4. Empty \in Revisions
  <2>1. Empty \in [{} -> 1 .. MaxAnswers] BY DEF Empty
  <2> QED BY <2>1 DEF Revisions
<1>5. PageOK BY <1>1, <1>4, EmptyRows DEF PageOK, RowsOK, Init, ConsoleAssumption
<1>6. Shapes BY <1>3, <1>5 DEF Shapes, Init, PollOK, LaunchOK
<1>7. ActiveJobs = {} BY <1>1 DEF ActiveJobs
<1>8. OneActive /\ AskedFor BY <1>1, <1>7 DEF OneActive, AskedFor
<1>9. RowsFresh /\ SeenKept /\ CompletionsAnnounced BY DEF Init, RowsFresh, SeenKept, CompletionsAnnounced
<1> QED BY <1>6, <1>8, <1>9 DEF IInv

LEMMA Step == ASSUME ConsoleAssumption, IInv, [Next]_vars PROVE IInv'
<1>1. CASE UNCHANGED vars
  <2>1. UNCHANGED <<jobs, equal, session, path, page, poll, launch>> BY <1>1 DEF vars, server
  <2>2. PollOK' /\ equal \in BOOLEAN /\ session \in BOOLEAN /\ path \in {"app", "login"} BY <2>1, SamePoll
  <2> QED BY <2>1, <2>2, QuietStep
<1>2. CASE Next
  BY <1>2, JobStep, CreateStep, OperatorStep, RestartStep, RefreshStep, ServePollStep, DeliverPollStep,
     DeliverDenialStep, RememberJobStep, VisitLoginStep DEF Next
<1> QED BY <1>1, <1>2

(* The jobs, the rows a page shows and compares, the poll on its way and    *)
(* what was announced agree, whatever answers are lost or late.             *)
THEOREM Invariance == ASSUME ConsoleAssumption PROVE Spec => []IInv
<1>1. Init => IInv BY InitIInv
<1>2. IInv /\ [Next]_vars => IInv' BY Step
<1> QED BY <1>1, <1>2, PTL DEF Spec

LEMMA TypesHold == ASSUME ConsoleAssumption, IInv PROVE TypeOK
<1>1. JobsOK /\ PageOK /\ PollOK /\ LaunchOK /\ equal \in BOOLEAN /\ session \in BOOLEAN /\ path \in {"app", "login"}
  BY DEF IInv, Shapes
<1>2. Jobs \subseteq Job BY <1>1, JobsAre
<1>3. /\ shown \in Rows /\ previous \in Rows /\ registered \in UNION {[S -> 1 .. MaxAnswers] : S \in SUBSET Job}
      /\ revision \in 0 .. MaxAnswers /\ seen \subseteq Job /\ announced \subseteq Job
  BY <1>1, <1>2 DEF PageOK, RowsOK, Revisions
<1>4. poll = Nil \/ poll \in [start : 0 .. MaxAnswers, step : {"sent", "answered", "denied", "failed"}, rows : Rows]
  BY <1>1 DEF PollOK, Poll
<1>5. launch = Nil \/ launch \in [step : {"asking", "asked", "posted"}, confirmed : BOOLEAN] \cup [step : {"answered"}, job : Job]
  BY <1>1, <1>2 DEF LaunchOK
<1> QED BY <1>1, <1>3, <1>4, <1>5 DEF TypeOK, JobsOK

(* Jobs, rows, polls, launches and what was announced keep their shape      *)
(* (state-store.ts, audit-jobs-provider.tsx).                               *)
THEOREM TypeCorrect == ASSUME ConsoleAssumption PROVE Spec => []TypeOK
<1>1. IInv => TypeOK BY TypesHold
<1> QED BY <1>1, Invariance, PTL

LEMMA RepeatsKnown == ASSUME IInv PROVE RepeatsAreAskedFor
<1>1. PICK W : W = {j \in Jobs : jobs[j].status \in {"working", "published"}} OBVIOUS
<1>2. \A i, j \in W : i = j BY <1>1 DEF IInv, OneActive, ActiveJobs, Active
<1>3. Cardinality(W) <= 1
  <2>1. CASE W = {} BY <2>1, FS_EmptySet
  <2>2. CASE W # {}
    <3>1. PICK j \in W : TRUE BY <2>2
    <3>2. W = {j} BY <1>2, <3>1
    <3>3. Cardinality({j}) = 1 BY FS_Singleton
    <3> QED BY <3>2, <3>3
  <2> QED BY <2>1, <2>2
<1> QED BY <1>1, <1>3 DEF IInv, AskedFor, RepeatsAreAskedFor

(* For any number of pages that ask and any answers that are lost, one      *)
(* audit of the host works at a time, and while a complete one is there     *)
(* with no change since, only one that was confirmed                        *)
(* (run/route.ts:209-226, state-store.ts:1581-1584).                        *)
THEOREM RepeatsWereAskedFor == ASSUME ConsoleAssumption PROVE Spec => []RepeatsAreAskedFor
<1>1. IInv => RepeatsAreAskedFor BY RepeatsKnown
<1> QED BY <1>1, Invariance, PTL

(* A page never shows an audit as ended that it has shown as active, before *)
(* it has announced the end to its operator (audit-job-status.ts:13,        *)
(* audit-jobs-provider.tsx:20, 43).                                         *)
THEOREM EndsAreAnnounced == ASSUME ConsoleAssumption PROVE Spec => []CompletionsAnnounced
<1>1. IInv => CompletionsAnnounced BY DEF IInv
<1> QED BY <1>1, Invariance, PTL

LEMMA ListedStep == ASSUME ConsoleAssumption, IInv, Next PROVE KnownJobsStayListed
<1>1. SUFFICES ASSUME NEW j \in ActiveRows(shown), j \in ActiveJobs'
               PROVE  j \in ActiveRows(shown') \/ (poll # Nil /\ poll.step = "denied")
  BY DEF KnownJobsStayListed
<1>2. CASE shown' = shown BY <1>2
<1>3. CASE DeliverPoll
  <2>1. PICK later : later = {i \in DOMAIN registered : registered[i] > poll.start} OBVIOUS
  <2>2. PICK rows : rows = poll.rows OBVIOUS
  <2>3. PICK next : next = MergeAuditSnapshot(rows, later) OBVIOUS
  <2>4. /\ poll # Nil /\ poll.step = "answered" /\ jobs' = jobs
        /\ shown' = next
    BY <1>3, <2>3, <2>1, <2>2 DEF DeliverPoll, StartOf, Show, server
  <2>5. /\ DOMAIN next = DOMAIN rows \cup later
        /\ \A i \in DOMAIN rows : next[i] = rows[i]
        /\ \A i \in later : i \notin DOMAIN rows => next[i] = "active"
    BY <2>3 DEF MergeAuditSnapshot
  <2>6. j \in ActiveJobs BY <1>1, <2>4, SameJobs
  <2>7. /\ j \in DOMAIN rows => rows[j] = "active"
        /\ j \in DOMAIN rows \/ j \in later
    BY <2>1, <2>2, <2>4, <2>6 DEF IInv, RowsFresh, Later
  <2> QED BY <2>4, <2>5, <2>7 DEF ActiveRows
<1>4. CASE DeliverDenial BY <1>4 DEF DeliverDenial
<1>5. CASE RememberJob
  <2>1. j \in DOMAIN shown' /\ shown'[j] = "active" BY <1>5 DEF RememberJob, ActiveRows
  <2> QED BY <2>1 DEF ActiveRows
<1>6. CASE ~ (DeliverPoll \/ DeliverDenial \/ RememberJob)
  <2>1. shown' = shown
    BY <1>6 DEF Next, Begin, Execute, FinishAuditJob, PublishReport, OtherLaunch, RecordChange, Restart, Refresh,
       ServePoll, FailPoll, RunAction, FindRepeatAuditNotice, Send, ServeLaunch, GiveUp, VisitLogin, LogIn, Expire,
       page
  <2> QED BY <1>2, <2>1
<1> QED BY <1>3, <1>4, <1>5, <1>6

(* No answer that comes late takes a job that still runs off a page that    *)
(* showed it, unless the session has ended (audit-jobs-provider.tsx:27,     *)
(* 41).                                                                     *)
THEOREM RunningJobsStayListed == ASSUME ConsoleAssumption PROVE Spec => [][KnownJobsStayListed]_vars
<1>1. IInv /\ Next => KnownJobsStayListed BY ListedStep
<1> QED BY <1>1, Invariance, PTL DEF Spec
==============================================================================
