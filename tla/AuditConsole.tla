---------------------------- MODULE AuditConsole -----------------------------
(* The audit jobs of one host and one open page of the console: the server  *)
(* lists its jobs to a page that polls, starts audits, loses answers and    *)
(* tells its operator what has ended; other operators start audits of the   *)
(* same host. An audit that repeats a complete one has to be asked for.     *)
EXTENDS Integers, FiniteSets, Functions

CONSTANTS
  MaxJobs,     \* bound: audits ever started
  MaxListed,   \* how many of the latest jobs are listed beside the active ones
  MaxAnswers,  \* bound: answers to launches that reach the page
  Nil

(* The module that instantiates this one assumes it.                        *)
ConsoleAssumption == {MaxJobs, MaxListed, MaxAnswers} \subseteq Nat

VARIABLES
  jobs,        \* the jobs of the host in the order of their creation
  equal,       \* a complete report of the same check is there and no change
               \* of the host was recorded since
  session,     \* the page's session is valid
  path,        \* where its operator is
  shown,       \* the rows of the page: jobs and their states
  previous,    \* the rows it compared last
  registered,  \* rows from answers, with the revision each came with
  revision,
  poll,        \* the one poll on its way
  launch,      \* the launch the operator is at
  seen,        \* jobs that were shown as active since he was at the login page
  announced    \* jobs whose end was announced to him

server == <<jobs, equal>>
page == <<shown, previous, registered, revision, seen, announced>>
vars == <<server, session, path, page, poll, launch>>

Job == 1 .. MaxJobs
Row == {"active", "ended"}
Rows == UNION {[S -> Row] : S \in SUBSET Job}
Empty == [j \in {} |-> "ended"]

Active(status) == status \in {"queued", "running", "working", "published"}
Status == {"queued", "running", "working", "published", "ended"}

TypeOK ==
  /\ \E n \in 0 .. MaxJobs : jobs \in [1 .. n -> [status : Status, confirmed : BOOLEAN]]
  /\ equal \in BOOLEAN /\ session \in BOOLEAN /\ path \in {"app", "login"}
  /\ shown \in Rows /\ previous \in Rows
  /\ registered \in UNION {[S -> 1 .. MaxAnswers] : S \in SUBSET Job}
  /\ revision \in 0 .. MaxAnswers
  /\ poll = Nil \/ poll \in [start : 0 .. MaxAnswers, step : {"sent", "answered", "denied", "failed"}, rows : Rows]
  /\ launch = Nil \/ launch \in [step : {"asking", "asked", "posted"}, confirmed : BOOLEAN] \cup [step : {"answered"}, job : Job]
  /\ seen \subseteq Job /\ announced \subseteq Job

-----------------------------------------------------------------------------
(* The server                                                               *)

Jobs == DOMAIN jobs
ActiveJobs == {j \in Jobs : Active(jobs[j].status)}

RowOf(j) == IF Active(jobs[j].status) THEN "active" ELSE "ended"

ListAuditJobs == [j \in ActiveJobs \cup {j \in Jobs : j > Cardinality(Jobs) - MaxListed} |-> RowOf(j)]

(* Mutant: a job that has published its report is no obstacle.              *)
UnpublishedJobs == {j \in ActiveJobs : jobs[j].status # "published"}

Obstacles == ActiveJobs

(* At most one job of a host is active; whoever asks for another gets that. *)
CreateAuditJob(confirmed) ==
  IF Obstacles # {} THEN jobs
  ELSE [j \in 1 .. Cardinality(Jobs) + 1 |->
          IF j \in Jobs THEN jobs[j] ELSE [status |-> "queued", confirmed |-> confirmed]]

CreatedJob == IF Obstacles # {} THEN CHOOSE j \in Obstacles : TRUE ELSE Cardinality(Jobs) + 1

To(j, status) == jobs' = [jobs EXCEPT ![j].status = status]

Begin(j) ==
  /\ jobs[j].status = "queued" /\ To(j, "running")
  /\ UNCHANGED <<equal, session, path, page, poll, launch>>

(* Mutant: the page has already asked.                                      *)
NeverRefused(j) == FALSE

(* What the page asked before is asked again when the job runs.             *)
Refused(j) == equal /\ ~ jobs[j].confirmed

Execute(j) ==
  /\ jobs[j].status = "running"
  /\ To(j, IF Refused(j) THEN "ended" ELSE "working")
  /\ UNCHANGED <<equal, session, path, page, poll, launch>>

(* A report is complete, which makes a repetition of the check needless, or *)
(* it is not, and any older one stays what it was.                          *)
PublishReport(j, complete) ==
  /\ jobs[j].status = "working" /\ To(j, "published")
  /\ equal' = (equal \/ complete)
  /\ UNCHANGED <<session, path, page, poll, launch>>

FinishAuditJob(j) ==
  /\ jobs[j].status \in {"working", "published"} /\ To(j, "ended")
  /\ UNCHANGED <<equal, session, path, page, poll, launch>>

(* A remediation of the host waits for its audits.                          *)
RecordChange ==
  /\ equal /\ ActiveJobs = {} /\ equal' = FALSE
  /\ UNCHANGED <<jobs, session, path, page, poll, launch>>

(* Another operator, or another page, starts the same check.                *)
OtherLaunch(confirmed) ==
  /\ Cardinality(Jobs) < MaxJobs /\ Obstacles = {}
  /\ jobs' = CreateAuditJob(confirmed)
  /\ UNCHANGED <<equal, session, path, page, poll, launch>>

(* The jobs of a former process are interrupted when the jobs are read      *)
(* first; requests on their way fail.                                       *)
Restart ==
  /\ jobs' = [j \in Jobs |-> [jobs[j] EXCEPT !.status = "ended"]]
  /\ poll' = IF poll = Nil THEN Nil ELSE [poll EXCEPT !.step = "failed"]
  /\ launch' = Nil
  /\ UNCHANGED <<equal, session, path, page>>

-----------------------------------------------------------------------------
(* Polls                                                                    *)

(* Mutant: rows are as new as the answer they are compared with.            *)
StartAtAnswer(p) == revision

StartOf(p) == p.start

(* There is one poll at a time; whoever wants another waits for it.         *)
Refresh ==
  /\ path = "app" /\ poll = Nil
  /\ poll' = [start |-> revision, step |-> "sent", rows |-> Empty]
  /\ UNCHANGED <<server, session, path, page, launch>>

ServePoll ==
  /\ poll # Nil /\ poll.step = "sent"
  /\ poll' = IF session THEN [poll EXCEPT !.step = "answered", !.rows = ListAuditJobs]
              ELSE [poll EXCEPT !.step = "denied"]
  /\ UNCHANGED <<server, session, path, page, launch>>

FailPoll ==
  /\ poll # Nil /\ poll' = Nil
  /\ UNCHANGED <<server, session, path, page, launch>>

MergeAuditSnapshot(snapshot, later) ==
  [j \in DOMAIN snapshot \cup later |-> IF j \in DOMAIN snapshot THEN snapshot[j] ELSE "active"]

CompletedAuditTransitions(before, next) ==
  {j \in DOMAIN before \cap DOMAIN next : before[j] = "active" /\ next[j] = "ended"}

ActiveRows(rows) == {j \in DOMAIN rows : rows[j] = "active"}

Show(next) == /\ shown' = next /\ previous' = next
              /\ seen' = seen \cup ActiveRows(next)

DeliverPoll ==
  /\ poll # Nil /\ poll.step = "answered"
  /\ LET later == {j \in DOMAIN registered : registered[j] > StartOf(poll)}
         next == MergeAuditSnapshot(poll.rows, later)
     IN /\ registered' = Restrict(registered, later \ DOMAIN poll.rows)
        /\ announced' = announced \cup CompletedAuditTransitions(previous, next)
        /\ Show(next)
  /\ poll' = Nil
  /\ UNCHANGED <<server, session, path, revision, launch>>

DeliverDenial ==
  /\ poll # Nil /\ poll.step = "denied"
  /\ shown' = Empty /\ previous' = Empty /\ registered' = Empty /\ seen' = {}
  /\ poll' = Nil
  /\ UNCHANGED <<server, session, path, revision, announced, launch>>

-----------------------------------------------------------------------------
(* The operator                                                             *)

(* The buttons wait while an active job of the host is shown.               *)
RunAction ==
  /\ path = "app" /\ session /\ launch = Nil /\ ActiveRows(shown) = {}
  /\ launch' = [step |-> "asking", confirmed |-> FALSE]
  /\ UNCHANGED <<server, session, path, page, poll>>

(* Only an operator who was told of a complete check confirms another.      *)
FindRepeatAuditNotice ==
  /\ launch # Nil /\ launch.step = "asking"
  /\ launch' = [step |-> "asked", confirmed |-> equal]
  /\ UNCHANGED <<server, session, path, page, poll>>

Send ==
  /\ launch # Nil /\ launch.step = "asked"
  /\ launch' = [launch EXCEPT !.step = "posted"]
  /\ UNCHANGED <<server, session, path, page, poll>>

ServeLaunch ==
  /\ launch # Nil /\ launch.step = "posted" /\ session
  /\ Cardinality(Jobs) < MaxJobs
  /\ jobs' = CreateAuditJob(launch.confirmed)
  /\ launch' = [step |-> "answered", job |-> CreatedJob]
  /\ UNCHANGED <<equal, session, path, page, poll>>

(* Mutant: the new row is shown and not compared with the next poll.        *)
RememberShown(j) == UNCHANGED previous

RememberPrevious(j) == previous' = [i \in DOMAIN previous \cup {j} |-> IF i = j THEN "active" ELSE previous[i]]

(* The answer names the job as it was when it was served.                   *)
RememberJob ==
  /\ launch # Nil /\ launch.step = "answered" /\ revision < MaxAnswers
  /\ LET j == launch.job IN
       /\ revision' = revision + 1
       /\ registered' = [i \in DOMAIN registered \cup {j} |-> IF i = j THEN revision + 1 ELSE registered[i]]
       /\ RememberPrevious(j)
       /\ shown' = [i \in DOMAIN shown \cup {j} |-> IF i = j THEN "active" ELSE shown[i]]
       /\ seen' = seen \cup {j}
       /\ announced' = announced \ {j}
  /\ launch' = Nil
  /\ UNCHANGED <<server, session, path, poll>>

(* The operator declines, the server refuses, or an answer is lost.         *)
GiveUp ==
  /\ launch # Nil /\ launch' = Nil
  /\ UNCHANGED <<server, session, path, page, poll>>

VisitLogin ==
  /\ path = "app" /\ path' = "login"
  /\ previous' = Empty /\ seen' = {}
  /\ UNCHANGED <<server, session, shown, registered, revision, announced, poll, launch>>

LogIn ==
  /\ path = "login" /\ path' = "app" /\ session' = TRUE
  /\ UNCHANGED <<server, page, poll, launch>>

Expire ==
  /\ session /\ session' = FALSE
  /\ UNCHANGED <<server, path, page, poll, launch>>

-----------------------------------------------------------------------------
(* Specification                                                            *)

Init ==
  /\ jobs = [j \in {} |-> Nil] /\ equal = FALSE
  /\ session = TRUE /\ path = "app"
  /\ shown = Empty /\ previous = Empty /\ registered = Empty /\ revision = 0
  /\ poll = Nil /\ launch = Nil /\ seen = {} /\ announced = {}

Next ==
  \/ \E j \in Jobs : \/ Begin(j) \/ Execute(j) \/ FinishAuditJob(j)
                     \/ \E complete \in BOOLEAN : PublishReport(j, complete)
  \/ \E confirmed \in BOOLEAN : OtherLaunch(confirmed)
  \/ RecordChange \/ Restart
  \/ Refresh \/ ServePoll \/ FailPoll \/ DeliverPoll \/ DeliverDenial
  \/ RunAction \/ FindRepeatAuditNotice \/ Send \/ ServeLaunch \/ RememberJob \/ GiveUp
  \/ VisitLogin \/ LogIn \/ Expire

Spec == Init /\ [][Next]_vars

-----------------------------------------------------------------------------
(* Properties                                                               *)

(* A job that the page shows and that still runs stays on the page whatever *)
(* polls are late, unless the session has ended: its operator would start   *)
(* it again (audit-jobs-provider.tsx:27, 41).                               *)
KnownJobsStayListed ==
  \A j \in ActiveRows(shown) :
    j \in ActiveJobs' => \/ j \in ActiveRows(shown')
                         \/ poll # Nil /\ poll.step = "denied"

(* The end of a job that was shown as active is announced before the page   *)
(* shows it as ended (audit-job-status.ts:13,                               *)
(* audit-jobs-provider.tsx:20, 43).                                         *)
CompletionsAnnounced == \A j \in DOMAIN shown : shown[j] = "ended" /\ j \in seen => j \in announced

(* However many pages ask, whatever answers are lost: one check of the host *)
(* runs at a time, and one that repeats a complete check, after which no    *)
(* change was recorded, runs only for somebody who confirmed it             *)
(* (run/route.ts:209-226, state-store.ts:1581-1584).                        *)
RepeatsAreAskedFor ==
  /\ Cardinality({j \in Jobs : jobs[j].status \in {"working", "published"}}) <= 1
  /\ \A j \in Jobs : jobs[j].status = "working" /\ equal => jobs[j].confirmed
=============================================================================
