--------------------------- MODULE ChangeRequest ----------------------------
(* A firewall change from the form to its answer: what the controller lets  *)
(* through, what the playbook and the helper let through on the machine,    *)
(* and what the operator is told in the end. One host; the bar of its       *)
(* unresolved transaction is `bar` (AssetLocks has the whole of it), the    *)
(* steps of the transaction against a store that fails are in               *)
(* RemediationSaga, those of the helper in TargetFirewall.                  *)
EXTENDS Naturals, FiniteSets

CONSTANTS
  Request,    \* requests of operators
  Thing,      \* what they ask for
  Own,        \* addresses of the controller: its interfaces, HCP_CONTROL_IPS
  Way,        \* how the machine may be reached
  Standard,   \* the standard port of SSH
  MaxEvents,  \* bound: edits of the row, moves of the way, switches of the firewall
  Nil

(* The row's address and port lead to the machine, which sees a client at   *)
(* one of its own addresses and ports. An sshd that does not tell of that   *)
(* in SSH_CONNECTION is reached at its own port.                            *)
ChangeAssumption ==
  /\ \A t \in Thing : t.by \in {"tcp", "udp", "from"} /\ t.plain \in BOOLEAN
  /\ \A w \in Way : w.told \in BOOLEAN /\ (~ w.told => w.port = w.sshd)
  /\ MaxEvents \in Nat

VARIABLES
  way,        \* how the controller reaches the machine
  row,        \* the host's connection in the inventory
  firewall,   \* what filters on the machine
  denied,     \* the deny rules that changes have put there
  bar,        \* the request whose transaction is live, "unresolved", or Nil
  task,       \* where each request is
  events

vars == <<way, row, firewall, denied, bar, task, events>>

Connection == {[address |-> w.address, port |-> w.port] : w \in Way}
Supported  == {"ufw", "firewalld"}
Backend    == Supported \cup {"nftables"}
Answer     == {"refused", "previewed", "failed", "unknown", "partial", "complete"}
Stage      == {"idle", "preview", "binding", "pre-audit", "backup", "change", "post-audit"} \cup Answer

Task == [at : Stage, thing : Thing \cup {Nil}, row : Connection \cup {Nil}, enforced : BOOLEAN]
Idle == [at |-> "idle", thing |-> Nil, row |-> Nil, enforced |-> FALSE]

Rule(t) == <<t.by, t.what>>

(* No transaction bars the host and no run holds it.                        *)
Free == bar = Nil /\ \A q \in Request : task[q].at # "preview"

TypeOK ==
  /\ way \in Way /\ row \in Connection
  /\ firewall \in [backend : Backend, active : BOOLEAN]
  /\ denied \subseteq {Rule(t) : t \in Thing}
  /\ bar \in Request \cup {Nil, "unresolved"}
  /\ task \in [Request -> Task]
  /\ events \in 0 .. MaxEvents

Init ==
  /\ way \in Way
  /\ row = [address |-> way.address, port |-> way.port]
  /\ firewall \in [backend : Backend, active : BOOLEAN]
  /\ denied = {} /\ bar = Nil /\ events = 0
  /\ task = [q \in Request |-> Idle]

-----------------------------------------------------------------------------
(* What the controller lets through                                         *)

(* Numbers are compared as numbers, so another spelling of 22 is 22 too.    *)
ValidateExtraVars(t) == t.by \in {"tcp", "udp"} => t.what # Standard

(* Addresses are compared as texts: another spelling of one is another one. *)
WouldBlockProtectedAddress(t) == t.by = "from" /\ t.plain /\ t.what \in Own \cup {row.address}

(* Mutant: addresses are left to the helper.                                *)
PortsOnly(t) == ValidateExtraVars(t) /\ (t.by = "tcp" => t.what # row.port)

ValidateRemediationTarget(t) ==
  /\ ValidateExtraVars(t)
  /\ (t.by = "tcp" => t.what # row.port)
  /\ ~ WouldBlockProtectedAddress(t)

Become(q, stage) == task' = [task EXCEPT ![q].at = stage]

(* A form is complete with a reason, the alias of one saved host typed once *)
(* more, and a transport that may carry the password of sudo.               *)
Ask(q, mode, t, complete) ==
  /\ task[q].at = "idle"
  /\ task' = [task EXCEPT ![q] =
       IF complete /\ ValidateRemediationTarget(t)
       THEN [at |-> IF mode = "apply" THEN "binding" ELSE IF Free THEN "preview" ELSE "failed",
             thing |-> t, row |-> row, enforced |-> FALSE]
       ELSE [Idle EXCEPT !.at = "refused"]]
  /\ UNCHANGED <<way, row, firewall, denied, bar, events>>

(* The binding was read; meanwhile another change may have begun, and while *)
(* a run goes on the store refuses this one.                                *)
Create(q) ==
  /\ task[q].at = "binding"
  /\ IF Free THEN Become(q, "pre-audit") /\ bar' = q
             ELSE Become(q, "failed") /\ UNCHANGED bar
  /\ UNCHANGED <<way, row, firewall, denied, events>>

-----------------------------------------------------------------------------
(* The audit before and the one after                                       *)

(* What a run of the audit may leave: nothing, or a report of what it saw.  *)
(* A firewall that it could not read is no finding that it passed.          *)
Reached == row = [address |-> way.address, port |-> way.port]

Report == [firewall : {"passed", "failed", "unread"}, backend : Backend, ports : BOOLEAN, rest : BOOLEAN]

Observed ==
  {Nil} \cup {r \in Report : /\ Reached /\ r.backend = firewall.backend
                             /\ r.firewall = "passed" => firewall.active
                             /\ r.firewall = "failed" => ~ firewall.active}

Partial(r) == r.firewall = "unread" \/ ~ r.ports \/ ~ r.rest

(* What else is missing in the report does not matter.                      *)
AssessFirewallBaseline(r) == r # Nil /\ r.firewall = "passed" /\ r.backend \in Supported /\ r.ports

ConnectionUnchanged(q) == row = task[q].row

(* The transaction ends and no longer bars the host.                        *)
Ends(q, answer) == Become(q, answer) /\ bar' = Nil

PreAudit(q) ==
  /\ task[q].at = "pre-audit"
  /\ \E r \in Observed :
       IF AssessFirewallBaseline(r) /\ ConnectionUnchanged(q)
       THEN Become(q, "backup") /\ UNCHANGED bar ELSE Ends(q, "failed")
  /\ UNCHANGED <<way, row, firewall, denied, events>>

(* Mutant: the answer is about the run of the audit, not about its report.  *)
AnswerOfRun(r) == IF r # Nil THEN "complete" ELSE "partial"

AnswerFor(r) == IF AssessFirewallBaseline(r) /\ ~ Partial(r) THEN "complete" ELSE "partial"

(* Whatever the second audit says, the change is applied.                   *)
PostAudit(q) ==
  /\ task[q].at = "post-audit"
  /\ \E r \in Observed :
       task' = [task EXCEPT ![q].at = AnswerFor(r), ![q].enforced = firewall.active]
  /\ bar' = Nil
  /\ UNCHANGED <<way, row, firewall, denied, events>>

-----------------------------------------------------------------------------
(* On the machine                                                           *)

Managed == Reached /\ firewall.active /\ firewall.backend \in Supported

(* A command whose end is not known leaves the transaction unresolved.      *)
NotKnown(q) == Become(q, "unknown") /\ bar' = "unresolved"

(* The helper saves the configuration of the one firewall it supports.      *)
Backup(q) ==
  /\ task[q].at = "backup"
  /\ \/ Managed /\ (IF ConnectionUnchanged(q) THEN Become(q, "change") /\ UNCHANGED bar ELSE Ends(q, "failed"))
     \/ Ends(q, "failed")
     \/ NotKnown(q)
  /\ UNCHANGED <<way, row, firewall, denied, events>>

(* What the playbook refuses before the helper starts has no helper's       *)
(* answer, so its outcome counts as unknown: a port written otherwise, and  *)
(* a source when the machine does not tell who is connected.                *)
PlaybookAsserts(t) == IF t.by = "from" THEN way.told ELSE t.plain

(* Mutant: only the port of the inventory is spared.                        *)
SparesRow(t) ==
  IF t.by = "from" THEN t.plain /\ t.what \notin {way.client, way.server}
  ELSE t.by = "tcp" => t.what \notin {Standard, row.port}

(* The helper spares the ends of the connection as the machine sees them.   *)
HelperPermits(t) ==
  IF t.by = "from" THEN t.plain /\ t.what \notin {way.client, way.server}
  ELSE t.by = "tcp" => t.what \notin {Standard, IF way.told THEN way.sshd ELSE row.port}

(* A command of the helper that fails may have put its rule there.          *)
Change(q) ==
  /\ task[q].at = "change"
  /\ LET t == task[q].thing
         may == PlaybookAsserts(t) /\ HelperPermits(t) /\ Managed IN
     /\ denied' \in {denied} \cup (IF may THEN {denied \cup {Rule(t)}} ELSE {})
     /\ \/ may /\ Rule(t) \in denied' /\ Become(q, "post-audit") /\ UNCHANGED bar
        \/ PlaybookAsserts(t) /\ Ends(q, "failed")
        \/ NotKnown(q)
  /\ UNCHANGED <<way, row, firewall, events>>

(* The helper is asked to check only.                                       *)
Preview(q) ==
  /\ task[q].at = "preview"
  /\ \/ PlaybookAsserts(task[q].thing) /\ HelperPermits(task[q].thing) /\ Managed /\ Become(q, "previewed")
     \/ Become(q, "failed")
  /\ UNCHANGED <<way, row, firewall, denied, bar, events>>

-----------------------------------------------------------------------------
(* What happens besides                                                     *)

Event == events < MaxEvents /\ events' = events + 1

(* The row is edited while no transaction bars it and nothing runs.         *)
EditRow(c) ==
  /\ Event /\ Free
  /\ row' = c
  /\ UNCHANGED <<way, firewall, denied, bar, task>>

(* The controller comes from another of its addresses.                      *)
Move(w) ==
  /\ Event /\ w.client \in Own
  /\ \A end \in {"address", "port", "server", "sshd", "told"} : w[end] = way[end]
  /\ way' = w
  /\ UNCHANGED <<row, firewall, denied, bar, task>>

(* An administrator turns the machine's firewall on or off.                 *)
Switch ==
  /\ Event
  /\ firewall' = [firewall EXCEPT !.active = ~ @]
  /\ UNCHANGED <<way, row, denied, bar, task>>

(* Somebody finds out what became of the change and closes it.              *)
Resolve ==
  /\ bar = "unresolved" /\ bar' = Nil
  /\ UNCHANGED <<way, row, firewall, denied, task, events>>

Next ==
  \/ \E q \in Request :
       \/ \E mode \in {"preview", "apply"}, t \in Thing, complete \in BOOLEAN : Ask(q, mode, t, complete)
       \/ Create(q) \/ PreAudit(q) \/ Backup(q) \/ Change(q) \/ PostAudit(q) \/ Preview(q)
  \/ \E c \in Connection : EditRow(c)
  \/ \E w \in Way : Move(w)
  \/ Switch
  \/ Resolve

Spec == Init /\ [][Next]_vars

-----------------------------------------------------------------------------
(* Whatever is asked for by however many operators, and however often the   *)
(* row is edited and the way moves in between, no change denies the         *)
(* connection it came by or one that the controller may come by next: the   *)
(* port that sshd listens on and the standard one, the machine's address,   *)
(* the client that it sees and every address of the controller              *)
(* (docs/site-guide.md:41-42).                                              *)
DoorStaysOpen ==
  /\ denied \cap {<<"tcp", way.sshd>>, <<"tcp", Standard>>} = {}
  /\ \A a \in Own \cup {way.client, way.server} : <<"from", a>> \notin denied

(* Once the answer says that the change was applied and audited again and   *)
(* has no reservation, its rule was put there, and the firewall was on when *)
(* the machine was looked at again (run/route.ts:119-167). Rollbacks are in *)
(* RemediationSaga.                                                         *)
CompleteMeansEnforced ==
  \A q \in Request : task[q].at = "complete" => task[q].enforced /\ Rule(task[q].thing) \in denied
=============================================================================
