----------------------------- MODULE Onboarding ------------------------------
(* Adding and editing a host: pages whose form runs the wizard "check the    *)
(* server's trust, enrol a key, check the access, save the row" as requests  *)
(* one after the other, while other pages add, edit, close out and remove    *)
(* hosts. Locks and files of a credential are those of HostAccess, machine   *)
(* identities those of AssetLocks and FrozenRun.                             *)
EXTENDS Naturals

CONSTANTS
  Alias, Page, Nil,
  Address,    \* address, port and user of a connection
  Root        \* those whose user is root

VARIABLES
  inventory,   \* the rows: an address, and a key or none (the shared key)
  credential,  \* metadata of each connection's own key
  form,        \* the connection form of each page
  wizard       \* what the page is at

vars == <<inventory, credential, form, wizard>>
server == <<inventory, credential>>

Identity == [alias : Alias, address : Address]
Mode == {Nil, "on_demand", "passwordless"}
Metadata == [verified : BOOLEAN, sudo : Mode]
Row == [address : Address, credential : Identity \cup {Nil}]
Blank == [alias |-> Nil, address |-> Nil, credential |-> Nil, editing |-> FALSE]
Wizard == [step : {"status", "bootstrap", "enrolling", "preflight", "checking", "save"}, only : BOOLEAN,
           id : Identity, credential : Identity \cup {Nil}, editing : BOOLEAN,
           password : BOOLEAN, sudo : BOOLEAN, onDemand : BOOLEAN]

(* The module that instantiates this one assumes it.                         *)
OnboardingAssumption ==
  /\ Nil \notin Alias \cup Address \cup Identity \cup Metadata \cup Row \cup Wizard
  /\ Root \subseteq Address

TypeOK ==
  /\ inventory \in [Alias -> Row \cup {Nil}]
  /\ credential \in [Identity -> Metadata \cup {Nil}]
  /\ form \in [Page -> [alias : Alias \cup {Nil}, address : Address \cup {Nil},
                        credential : Identity \cup {Nil}, editing : BOOLEAN]]
  /\ wizard \in [Page -> Wizard \cup {Nil}]

-----------------------------------------------------------------------------
(* The form                                                                  *)

NeedsSudo(id) == id.address \notin Root
IdOf(f) == [alias |-> f.alias, address |-> f.address]
Loading(p) == wizard[p] # Nil

(* Mutant: the key stays although the connection changed.                    *)
KeepCredential(f) == f.credential

InvalidateCredential(f) == Nil

(* Fields are disabled while a request runs; the name stays while editing.   *)
EditField(p, a, x) ==
  /\ ~ Loading(p) /\ (form[p].editing => a = form[p].alias) /\ IdOf(form[p]) # [alias |-> a, address |-> x]
  /\ form' = [form EXCEPT ![p].alias = a, ![p].address = x, ![p].credential = InvalidateCredential(form[p])]
  /\ UNCHANGED <<server, wizard>>

StartNewHost(p) ==
  /\ ~ Loading(p) /\ form[p] # Blank
  /\ form' = [form EXCEPT ![p] = Blank]
  /\ UNCHANGED <<inventory, credential, wizard>>

(* Mutant: another host may be opened while the wizard runs.                 *)
AnyTime(p) == TRUE

MayFill(p) == ~ Loading(p)

FillHostForm(p, a) ==
  /\ MayFill(p) /\ inventory[a] # Nil
  /\ form' = [form EXCEPT ![p] = [alias |-> a, address |-> inventory[a].address,
                                  credential |-> inventory[a].credential, editing |-> TRUE]]
  /\ UNCHANGED <<inventory, credential, wizard>>

(* A new host needs its SSH password until it has a key, and a password for  *)
(* sudo until it is saved.                                                   *)
PasswordsReady(f, password, alternate) ==
  f.editing \/ /\ f.credential = Nil => password
               /\ NeedsSudo(IdOf(f)) => password \/ alternate

Setup(f, password, alternate) ==
  [step |-> "status", only |-> FALSE, id |-> IdOf(f), credential |-> f.credential, editing |-> f.editing,
   password |-> password, sudo |-> NeedsSudo(IdOf(f)) /\ (password \/ alternate), onDemand |-> FALSE]

SetupHostCredential(p, password, alternate) ==
  /\ ~ Loading(p) /\ form[p].alias # Nil /\ PasswordsReady(form[p], password, alternate)
  /\ alternate => NeedsSudo(IdOf(form[p]))
  /\ wizard' = [wizard EXCEPT ![p] = Setup(form[p], password, alternate)]
  /\ UNCHANGED <<server, form>>

(* Only the access is checked; the operator types the sudo password that the *)
(* saved host asks for.                                                      *)
CheckPreflight(p) ==
  LET f == form[p]  id == IdOf(f) IN
    /\ ~ Loading(p) /\ f.editing
    /\ wizard' = [wizard EXCEPT ![p] =
         [Setup(f, FALSE, FALSE) EXCEPT !.step = "preflight", !.only = TRUE,
            !.onDemand = credential[id] # Nil /\ credential[id].sudo = "on_demand"]]
    /\ UNCHANGED <<server, form>>

-----------------------------------------------------------------------------
(* The requests of connectAndSaveHost                                        *)

AtStep(p, step) == Loading(p) /\ wizard[p].step = step
To(p, step) == wizard' = [wizard EXCEPT ![p].step = step]
End(p) == wizard' = [wizard EXCEPT ![p] = Nil]

StatusAnswer(p, trusted) ==
  LET w == wizard[p] IN
    /\ AtStep(p, "status")
    /\ IF ~ trusted THEN End(p)
       ELSE IF w.password \/ w.sudo \/ (w.credential = Nil /\ ~ w.editing) THEN To(p, "bootstrap") ELSE To(p, "preflight")
    /\ UNCHANGED <<server, form>>

Enrolling(i) == \E q \in Page : AtStep(q, "enrolling") /\ wizard[q].id = i

(* A key belongs to one connection; one that the form names must be there.   *)
BeginHostCredential(p) ==
  LET w == wizard[p]
      busy == Enrolling(w.id)
      other == w.credential \notin {Nil, w.id}
      missing == w.credential = w.id /\ credential[w.id] = Nil IN
    /\ AtStep(p, "bootstrap")
    /\ IF busy \/ other \/ missing THEN End(p) /\ UNCHANGED credential
       ELSE /\ To(p, "enrolling")
            /\ credential' = IF credential[w.id] # Nil THEN credential
                             ELSE [credential EXCEPT ![w.id] = [verified |-> FALSE, sudo |-> Nil]]
    /\ UNCHANGED <<inventory, form>>

(* The login succeeds with the password or with the key that is installed;   *)
(* then sudo is tried. A key that logs in stays in the form either way.      *)
EnrolKey(p, mode, heard) ==
  LET w == wizard[p]  i == w.id  proven == w.sudo => (mode # Nil) IN
    /\ AtStep(p, "enrolling") /\ (w.password \/ credential[i].verified) /\ (~ w.sudo => mode = Nil)
    /\ credential' = [credential EXCEPT ![i] = [verified |-> TRUE, sudo |-> IF mode = Nil THEN @.sudo ELSE mode]]
    /\ form' = IF heard THEN [form EXCEPT ![p].credential = i] ELSE form
    /\ IF heard /\ proven
       THEN wizard' = [wizard EXCEPT ![p].step = "preflight", ![p].credential = i, ![p].onDemand = mode = "on_demand"]
       ELSE End(p)
    /\ UNCHANGED inventory

FailToEnrol(p) == AtStep(p, "enrolling") /\ End(p) /\ UNCHANGED <<server, form>>

Valid(c, id) == c = id /\ credential[c] # Nil /\ credential[c].verified

(* Of a saved host exactly the saved connection is checked; a new one needs  *)
(* proven sudo.                                                              *)
Differs(w) ==
  LET row == inventory[w.id.alias]  compared == IF w.credential = Nil THEN row.credential ELSE w.credential IN
    row # Nil /\ [address |-> w.id.address, credential |-> compared] # row

Resolved(w) == IF w.credential = Nil /\ inventory[w.id.alias] # Nil THEN inventory[w.id.alias].credential ELSE w.credential

MayCheck(w) ==
  LET c == Resolved(w)  new == inventory[w.id.alias] = Nil IN
    /\ c # Nil => Valid(c, w.id)
    /\ NeedsSudo(w.id) => /\ new => c # Nil /\ credential[c].sudo # Nil
                          /\ c # Nil /\ credential[c].sudo = "on_demand" => w.onDemand

CheckConnection(p) ==
  LET w == wizard[p] IN
    /\ AtStep(p, "preflight")
    /\ IF ~ Differs(w) /\ MayCheck(w) THEN To(p, "checking") ELSE End(p)
    /\ UNCHANGED <<server, form>>

(* SSH, the identity of the machine, Python and sudo on the target.          *)
SummarizePreflight(p, ok) ==
  /\ AtStep(p, "checking")
  /\ IF ok /\ ~ wizard[p].only THEN To(p, "save") ELSE End(p)
  /\ UNCHANGED <<server, form>>

Free(a, x) == \A b \in Alias \ {a} : inventory[b] # Nil => inventory[b].address # x

(* Mutant: the key was checked a request ago.                                *)
AnyKey(c, id) == c = id

SavedKey(c, id) == Valid(c, id)

SaveHost(p, row, heard) ==
  /\ inventory' = [inventory EXCEPT ![wizard[p].id.alias] = row]
  /\ form' = IF heard /\ ~ wizard[p].editing THEN [form EXCEPT ![p] = Blank] ELSE form
  /\ End(p)
  /\ UNCHANGED credential

AddHost(p, heard) ==
  LET id == wizard[p].id  c == wizard[p].credential IN
    /\ AtStep(p, "save") /\ ~ wizard[p].editing
    /\ IF inventory[id.alias] = Nil /\ Free(id.alias, id.address) /\ SavedKey(c, id)
       THEN SaveHost(p, [address |-> id.address, credential |-> c], heard)
       ELSE End(p) /\ UNCHANGED <<server, form>>

UpdateHost(p, heard) ==
  LET id == wizard[p].id  existing == inventory[id.alias]
      c == IF wizard[p].credential = Nil /\ existing # Nil THEN existing.credential ELSE wizard[p].credential IN
    /\ AtStep(p, "save") /\ wizard[p].editing
    /\ IF existing # Nil /\ Free(id.alias, id.address) /\ (c # Nil => SavedKey(c, id))
       THEN SaveHost(p, [address |-> id.address, credential |-> c], heard)
       ELSE End(p) /\ UNCHANGED <<server, form>>

-----------------------------------------------------------------------------
(* Other requests                                                            *)

(* Closeout removes the row and its key, unless the key is being enrolled.   *)
CloseOut(a) ==
  LET row == inventory[a] IN
    /\ row # Nil /\ row.credential # Nil /\ ~ Enrolling(row.credential)
    /\ inventory' = [inventory EXCEPT ![a] = Nil]
    /\ credential' = [credential EXCEPT ![row.credential] = Nil]
    /\ UNCHANGED <<form, wizard>>

RemoveHost(a) ==
  /\ inventory[a] # Nil
  /\ inventory' = [inventory EXCEPT ![a] = Nil]
  /\ UNCHANGED <<credential, form, wizard>>

(* Hosts from before individual keys use the shared one.                     *)
Init ==
  /\ inventory \in [Alias -> [address : Address, credential : {Nil}] \cup {Nil}]
  /\ \A a, b \in Alias : a # b /\ inventory[a] # Nil => inventory[a] # inventory[b]
  /\ credential = [i \in Identity |-> Nil]
  /\ form = [p \in Page |-> Blank] /\ wizard = [p \in Page |-> Nil]

Operator(p) ==
  \/ \E a \in Alias, x \in Address : EditField(p, a, x)
  \/ StartNewHost(p) \/ CheckPreflight(p)
  \/ \E a \in Alias : FillHostForm(p, a)
  \/ \E password, alternate \in BOOLEAN : SetupHostCredential(p, password, alternate)

Requests(p) ==
  \/ \E trusted \in BOOLEAN : StatusAnswer(p, trusted)
  \/ BeginHostCredential(p) \/ FailToEnrol(p) \/ CheckConnection(p)
  \/ \E mode \in Mode, heard \in BOOLEAN : EnrolKey(p, mode, heard)
  \/ \E ok \in BOOLEAN : SummarizePreflight(p, ok)
  \/ \E heard \in BOOLEAN : AddHost(p, heard) \/ UpdateHost(p, heard)

Next ==
  \/ \E p \in Page : Operator(p) \/ Requests(p)
  \/ \E a \in Alias : CloseOut(a) \/ RemoveHost(a)

-----------------------------------------------------------------------------
(* Properties                                                                *)

(* A form holds only the key of the connection it shows, and what its wizard *)
(* is sending, passwords included, is about that connection, whichever       *)
(* answers come while its operator opens other hosts                         *)
(* (ansible-control-client.tsx:533-545, 559-561, 899-901).                   *)
FormKeepsItsKey ==
  \A p \in Page :
    /\ form[p].credential # Nil => form[p].credential = IdOf(form[p])
    /\ Loading(p) => wizard[p].id = IdOf(form[p]) /\ wizard[p].editing = form[p].editing

(* A row names no key, or one that is there, logs in and belongs to exactly  *)
(* the row's connection, also where the host was closed out between the      *)
(* checks of a wizard and its save (hosts/route.ts:359-361, 424-426).        *)
RowsNameTheirKey ==
  \A a \in Alias :
    inventory[a] # Nil /\ inventory[a].credential # Nil =>
      Valid(inventory[a].credential, [alias |-> a, address |-> inventory[a].address])
=============================================================================
