------------------------------ MODULE FrozenRun ------------------------------
(* One launch of a playbook over a host or a group: the inventory is frozen, *)
(* each target is observed through its trusted server key, the observed keys *)
(* are pinned for the run, all targets are leased together, and the reports  *)
(* are published under the identities observed. Meanwhile addresses pass to  *)
(* other machines, operators edit the inventory and bind aliases again.      *)
(* Jobs, remediation and closeout, which also hold an asset, are AssetLocks. *)
EXTENDS Naturals, Sequences, SequencesExt

CONSTANTS
  Alias, Address, Nil,
  Machine,        \* each with a machine-id and a server key of its own
  Supports,       \* machines whose Python each installed Ansible supports
  Launch,         \* launches, each sent once
  Group,          \* the limit that stands for all hosts
  MaxGeneration   \* bound: bindings of one alias

(* The module that instantiates this one assumes it.                         *)
RunAssumption ==
  /\ Group \notin Alias /\ Nil \notin Address \cup Machine
  /\ Supports \in [{"modern", "legacy"} -> SUBSET Machine]
  /\ MaxGeneration \in Nat

Kind == {"audit", "custom", "scan"}     \* a scan reaches its target unauthenticated

VARIABLES
  listed,    \* address of each alias in the inventory, Nil without a row
  onDemand,  \* aliases whose sudo asks for a password
  trusted,   \* server keys in known_hosts, by address
  answers,   \* the machine that answers at each address
  bindings,  \* the bindings of each alias, oldest first
  leases,    \* asset execution leases
  run

vars == <<listed, onDemand, trusted, answers, bindings, leases, run>>
settings == <<listed, onDemand, trusted>>

Asleep == [step |-> "new"]
Done(r, reports, captured) == run' = [run EXCEPT ![r] = [step |-> "over", reports |-> reports, captured |-> captured]]
Abort(r) == Done(r, <<>>, <<>>)

Extend(f, x, y) == [z \in DOMAIN f \cup {x} |-> IF z = x THEN y ELSE f[z]]
Partial(S, T) == UNION {[D -> T] : D \in SUBSET S}

Binding == [status : {"verified"}, generation : 1 .. MaxGeneration, asset : Machine, connection : Address]
           \cup [status : {"unknown"}, generation : 0 .. MaxGeneration, connection : Address]

RunOK(t) ==
  \/ t = Asleep
  \/ /\ t.step \in {"probing", "executing"} /\ t.kind \in Kind
     /\ t.frozen \in Partial(Alias, Address) /\ t.captured \in Partial(DOMAIN t.frozen, Binding)
     /\ t.pins \in Partial(Address, Machine) /\ t.reports \in Partial(DOMAIN t.frozen, Machine)
     /\ t.seen = Nil \/ t.seen \in [alias : DOMAIN t.frozen, machine : Machine]
     /\ t.runtime \in {Nil, "modern", "legacy"}
  \/ t.step = "over" /\ t.reports \in Partial(Alias, Machine) /\ t.captured \in Partial(Alias, Binding)

TypeOK ==
  /\ listed \in [Alias -> Address \cup {Nil}] /\ onDemand \subseteq Alias
  /\ trusted \in [Address -> SUBSET Machine] /\ answers \in [Address -> Machine]
  /\ bindings \in [Alias -> Seq([asset : Machine, connection : Address])]
  /\ leases \subseteq [resource : Machine \cup Alias, alias : Alias, operation : Launch]
  /\ \A r \in Launch : RunOK(run[r])

-----------------------------------------------------------------------------
(* The store                                                                 *)

Generation(a) == Len(bindings[a])
CurrentAsset(a) == IF Generation(a) = 0 THEN Nil ELSE Last(bindings[a]).asset
AliasesForAsset(a) == {a} \cup {b \in Alias : CurrentAsset(b) # Nil /\ CurrentAsset(b) = CurrentAsset(a)}

AssetIdle(a) == \A l \in leases : l.alias \notin AliasesForAsset(a)

(* An observation of a bound alias must be of the machine it is bound to; a  *)
(* first one, or one over another connection, needs the asset idle.          *)
Recordable(a, m, x) ==
  /\ CurrentAsset(a) \in {Nil, m}
  /\ (Generation(a) > 0 => Last(bindings[a]).connection # x) => AssetIdle(a)

Recorded(a, m, x) ==
  IF Generation(a) > 0 /\ Last(bindings[a]) = [asset |-> m, connection |-> x] THEN bindings
  ELSE [bindings EXCEPT ![a] = Append(@, [asset |-> m, connection |-> x])]

(* Mutant: the binding may have changed since it was captured.               *)
AnyBinding(a, b) == TRUE

StillCurrent(a, b) ==
  b.status = "verified" => Generation(a) = b.generation /\ Last(bindings[a]) = [asset |-> b.asset, connection |-> b.connection]

Resource(a) == IF CurrentAsset(a) = Nil THEN a ELSE CurrentAsset(a)

(* All targets are leased in one transaction; two aliases of one asset share *)
(* the lease of the first.                                                   *)
Acquirable(captured) ==
  \A a \in DOMAIN captured :
    /\ StillCurrent(a, captured[a])
    /\ \A l \in leases : l.resource # Resource(a) /\ l.alias \notin AliasesForAsset(a)

LeasesFor(r, captured) ==
  {[resource |-> x, alias |-> CHOOSE a \in DOMAIN captured : Resource(a) = x, operation |-> r] :
     x \in {Resource(a) : a \in DOMAIN captured}}

-----------------------------------------------------------------------------
(* A launch                                                                  *)

InInventory == {a \in Alias : listed[a] # Nil}
Targets(limit) == IF limit = Group THEN InInventory ELSE {limit} \cap InInventory

(* A host with a one-time sudo password runs alone and by its own name.      *)
SudoPossible(limit) == onDemand \cap Targets(limit) # {} => Targets(limit) = {limit}

Frozen(limit) == [a \in Targets(limit) |-> listed[a]]

NetworkBinding(a, x) == [status |-> "unknown", generation |-> Generation(a), connection |-> x]

Prepared(kind, limit) ==
  [step |-> "probing", kind |-> kind, frozen |-> Frozen(limit), captured |-> <<>>, pins |-> <<>>,
   seen |-> Nil, runtime |-> Nil, reports |-> <<>>]

RunAnsiblePlaybook(r, limit) ==
  /\ run[r] = Asleep /\ Targets(limit) # {} /\ SudoPossible(limit)
  /\ run' = [run EXCEPT ![r] = Prepared("audit", limit)]
  /\ UNCHANGED <<settings, answers, bindings, leases>>

RunRegisteredPlaybook(r, limit) ==
  /\ run[r] = Asleep /\ Targets(limit) # {} /\ SudoPossible(limit)
  /\ run' = [run EXCEPT ![r] = Prepared("custom", limit)]
  /\ UNCHANGED <<settings, answers, bindings, leases>>

(* Nothing is awaited before an unauthenticated scan has its leases.         *)
RunNetworkScan(r, limit) ==
  LET captured == [a \in Targets(limit) |-> NetworkBinding(a, listed[a])] IN
    /\ run[r] = Asleep /\ Targets(limit) # {} /\ Acquirable(captured)
    /\ run' = [run EXCEPT ![r] = [Prepared("scan", limit) EXCEPT !.step = "executing", !.captured = captured]]
    /\ leases' = leases \cup LeasesFor(r, captured)
    /\ UNCHANGED <<settings, answers, bindings>>

At(r, step) == run[r].step = step

(* The probe fails where no trusted key of the address is presented.         *)
ProbeTrustedAssetIdentity(r, a) ==
  LET t == run[r]  m == answers[t.frozen[a]] IN
    /\ At(r, "probing") /\ t.seen = Nil /\ a \in DOMAIN t.frozen \ DOMAIN t.captured
    /\ IF m \in trusted[t.frozen[a]] THEN run' = [run EXCEPT ![r].seen = [alias |-> a, machine |-> m]] ELSE Abort(r)
    /\ UNCHANGED <<settings, answers, bindings, leases>>

(* Mutant: the key observed last is pinned, whatever was observed before.    *)
LastKey(pins, x, m) == TRUE

SameKey(pins, x, m) == x \in DOMAIN pins => pins[x] = m

(* The binding is stored before the keys of one address are compared.        *)
CaptureAssetTarget(r) ==
  LET t == run[r]  a == t.seen.alias  m == t.seen.machine  x == t.frozen[a] IN
    /\ At(r, "probing") /\ t.seen # Nil
    /\ UNCHANGED <<settings, answers, leases>>
    /\ IF Recordable(a, m, x)
       THEN /\ Recorded(a, m, x) # bindings => Generation(a) < MaxGeneration
            /\ bindings' = Recorded(a, m, x)
            /\ IF SameKey(t.pins, x, m)
               THEN run' = [run EXCEPT ![r] = [t EXCEPT
                      !.seen = Nil, !.pins = Extend(@, x, m),
                      !.captured = Extend(@, a, [status |-> "verified", generation |-> Len(bindings'[a]),
                                                 asset |-> m, connection |-> x])]]
               ELSE Abort(r)
       ELSE Abort(r) /\ UNCHANGED bindings

(* Mutant: the runtime has to suit one target.                               *)
SuitsOne(runtime, machines) == machines \cap Supports[runtime] # {}

Suits(runtime, machines) == machines \subseteq Supports[runtime]

Machines(captured) == {captured[a].asset : a \in DOMAIN captured}

SelectAnsibleRuntime(captured) ==
  IF Suits("modern", Machines(captured)) THEN "modern"
  ELSE IF Suits("legacy", Machines(captured)) THEN "legacy" ELSE Nil

(* One process runs all targets, so one runtime must suit them all, where a  *)
(* modern one is installed beside the legacy one; then the keys are pinned   *)
(* and the leases taken without another wait.                                *)
AcquireAssetExecution(r) ==
  LET t == run[r] IN
    /\ At(r, "probing") /\ DOMAIN t.captured = DOMAIN t.frozen
    /\ UNCHANGED <<settings, answers, bindings>>
    /\ IF SelectAnsibleRuntime(t.captured) # Nil /\ Acquirable(t.captured)
       THEN /\ run' = [run EXCEPT ![r] = [t EXCEPT !.step = "executing", !.runtime = SelectAnsibleRuntime(t.captured)]]
            /\ leases' = leases \cup LeasesFor(r, t.captured)
       ELSE Abort(r) /\ UNCHANGED leases

(* Mutant: the run trusts every key that is saved for the address.           *)
AnySavedKey(r, x) == run[r].kind # "scan" => answers[x] \in trusted[x]

Reachable(r, x) == run[r].kind # "scan" => answers[x] = run[r].pins[x]

(* A target that cannot be reached leaves no report.                         *)
CollectReport(r, a) ==
  LET t == run[r] IN
    /\ At(r, "executing") /\ t.kind # "custom"
    /\ a \in DOMAIN t.frozen \ DOMAIN t.reports /\ Reachable(r, t.frozen[a])
    /\ run' = [run EXCEPT ![r].reports = Extend(@, a, answers[t.frozen[a]])]
    /\ UNCHANGED <<settings, answers, bindings, leases>>

PublishCapturedAssetReports(t) == [a \in DOMAIN t.reports |-> t.captured[a]]

Release(r) == leases' = {l \in leases : l.operation # r}

(* Ended, failed or timed out: what was collected is published, the leases   *)
(* are released.                                                             *)
Finish(r) ==
  /\ At(r, "executing")
  /\ Done(r, run[r].reports, PublishCapturedAssetReports(run[r]))
  /\ Release(r)
  /\ UNCHANGED <<settings, answers, bindings>>

-----------------------------------------------------------------------------
(* Operators, and what happens to the network                                *)

EditHost(a, x) ==
  /\ AssetIdle(a) /\ listed[a] # Nil /\ \A b \in Alias \ {a} : listed[b] # x
  /\ listed' = [listed EXCEPT ![a] = x]
  /\ UNCHANGED <<onDemand, trusted, answers, bindings, leases, run>>

(* An operator confirms that another machine now answers for the alias.      *)
Rebind(a) ==
  LET x == listed[a] IN
    /\ x # Nil /\ Generation(a) \in 1 .. MaxGeneration - 1
    /\ LET m == answers[x] IN
         /\ m \in trusted[x] /\ m # CurrentAsset(a) /\ AssetIdle(a)
         /\ \A b \in Alias : CurrentAsset(b) = m => AssetIdle(b)
         /\ bindings' = [bindings EXCEPT ![a] = Append(@, [asset |-> m, connection |-> x])]
    /\ UNCHANGED <<settings, answers, leases, run>>

Replace(x, m) ==
  /\ answers[x] # m
  /\ answers' = [answers EXCEPT ![x] = m]
  /\ UNCHANGED <<settings, bindings, leases, run>>

(* Private reports die with the container; leases of its runs are recovered  *)
(* by whoever looks next.                                                    *)
Restart ==
  /\ \E r \in Launch : run[r].step \in {"probing", "executing"}
  /\ run' = [r \in Launch |-> IF run[r].step \in {"probing", "executing"} THEN [step |-> "over", reports |-> <<>>, captured |-> <<>>] ELSE run[r]]
  /\ leases' = {}
  /\ UNCHANGED <<settings, answers, bindings>>

Init ==
  /\ listed \in [Alias -> Address \cup {Nil}] /\ onDemand \in SUBSET Alias
  /\ trusted \in [Address -> SUBSET Machine] /\ answers \in [Address -> Machine]
  /\ bindings = [a \in Alias |-> <<>>] /\ leases = {}
  /\ run = [r \in Launch |-> Asleep]

Runs(r) ==
  \/ \E limit \in Alias \cup {Group} :
       RunAnsiblePlaybook(r, limit) \/ RunRegisteredPlaybook(r, limit) \/ RunNetworkScan(r, limit)
  \/ \E a \in Alias : ProbeTrustedAssetIdentity(r, a) \/ CollectReport(r, a)
  \/ CaptureAssetTarget(r) \/ AcquireAssetExecution(r) \/ Finish(r)

Next ==
  \/ \E r \in Launch : Runs(r)
  \/ \E a \in Alias, x \in Address : EditHost(a, x)
  \/ \E a \in Alias : Rebind(a)
  \/ \E x \in Address, m \in Machine : Replace(x, m)
  \/ Restart

Spec == Init /\ [][Next]_vars

-----------------------------------------------------------------------------
(* Properties                                                                *)

(* A published report belongs to the machine it was collected from, under a  *)
(* binding the store has for it: no exchange of machines, edit of the        *)
(* inventory or new binding between freezing, probing, running and           *)
(* publishing attributes findings to another asset; a network scan claims no *)
(* asset (asset-execution.ts:36-44, 60-62, asset-report-publication.ts:80).  *)
ReportsOfTheirMachine ==
  \A r \in Launch : At(r, "over") =>
    \A a \in DOMAIN run[r].reports :
      LET b == run[r].captured[a] IN
        b.status = "verified" =>
          b.asset = run[r].reports[a] /\ bindings[a][b.generation] = [asset |-> b.asset, connection |-> b.connection]

(* Two authenticated runs never work on one machine at once, by whichever    *)
(* aliases and groups they reach it, and each works with an Ansible that     *)
(* every one of its targets supports (state-store.ts:530, ansible-runtime.ts:49).  *)
RunsNeverMeet ==
  \A r \in Launch : At(r, "executing") /\ run[r].kind # "scan" =>
    /\ Machines(run[r].captured) \subseteq Supports[run[r].runtime]
    /\ \A s \in Launch \ {r} : At(s, "executing") /\ run[s].kind # "scan" =>
         Machines(run[r].captured) \cap Machines(run[s].captured) = {}
=============================================================================
