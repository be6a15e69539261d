--------------------------- MODULE Control_proofs ---------------------------
(* Proofs about the controller as a whole, for any number of hosts, pages,  *)
(* requests, jobs, scripts and events: every component keeps its invariant  *)
(* while it moves, and so the properties of the whole hold.                 *)
EXTENDS Control, Reports_proofs, Functions, FiniteSetTheorems, SequenceTheorems, TLAPS

-----------------------------------------------------------------------------
(* The host wizard                                                          *)

(* A form that names a host also shows its connection.                      *)
WizardFormsNameHosts ==
  \A p \in WizardPage : /\ hostForm[p].alias # Nil => hostForm[p].address # Nil
                        /\ hostForm[p].editing => hostForm[p].alias # Nil

(* Metadata are there before the key is tried.                              *)
WizardMetadataFirst == \A p \in WizardPage : W!AtStep(p, "enrolling") => ownKey[wizard[p].id] # Nil

WizardIInv == W!TypeOK /\ WizardFormsNameHosts /\ WizardMetadataFirst /\ W!FormKeepsItsKey /\ W!RowsNameTheirKey

WizardForm == [alias : WizardAlias \cup {Nil}, address : WizardAddress \cup {Nil}, credential : W!Identity \cup {Nil}, editing : BOOLEAN]

LEMMA WizardBlankForm ==
  W!Blank \in WizardForm /\ W!Blank.alias = Nil /\ W!Blank.address = Nil /\ W!Blank.credential = Nil /\ ~ W!Blank.editing
BY DEF W!Blank, WizardForm

LEMMA WizardFormType == ASSUME W!TypeOK PROVE hostForm \in [WizardPage -> WizardForm]
BY DEF W!TypeOK, WizardForm

LEMMA WizardInitIInv == ASSUME W!OnboardingAssumption, W!Init PROVE WizardIInv
<1>1. \A p \in WizardPage : hostForm[p] = W!Blank /\ wizard[p] = Nil BY DEF W!Init
<1>2. W!TypeOK
  <2>1. hostRows \in [WizardAlias -> W!Row \cup {Nil}]
    <3>1. [address : WizardAddress, credential : {Nil}] \subseteq W!Row BY DEF W!Row
    <3> QED BY <3>1 DEF W!Init
  <2>2. ownKey \in [W!Identity -> W!Metadata \cup {Nil}] BY DEF W!Init
  <2>3. hostForm \in [WizardPage -> WizardForm] BY WizardBlankForm DEF W!Init
  <2>4. wizard \in [WizardPage -> W!Wizard \cup {Nil}] BY DEF W!Init
  <2> QED BY <2>1, <2>2, <2>3, <2>4 DEF W!TypeOK, WizardForm
<1>3. WizardFormsNameHosts BY <1>1, WizardBlankForm DEF WizardFormsNameHosts
<1>4. WizardMetadataFirst BY <1>1 DEF WizardMetadataFirst, W!AtStep, W!Loading
<1>5. W!FormKeepsItsKey BY <1>1, WizardBlankForm DEF W!FormKeepsItsKey, W!Loading
<1>6. W!RowsNameTheirKey
  <2>1. \A a \in WizardAlias : hostRows[a] = Nil \/ hostRows[a] \in [address : WizardAddress, credential : {Nil}]
    BY DEF W!Init
  <2> QED BY <2>1 DEF W!RowsNameTheirKey
<1> QED BY <1>2, <1>3, <1>4, <1>5, <1>6 DEF WizardIInv

(* What the operator does with the form of a page that waits for nothing.   *)
LEMMA WizardFormStep ==
  ASSUME W!OnboardingAssumption, WizardIInv, NEW p \in WizardPage, ~ W!Loading(p), NEW f \in WizardForm,
         hostForm' = [hostForm EXCEPT ![p] = f], UNCHANGED <<hostRows, ownKey, wizard>>,
         f.alias # Nil => f.address # Nil, f.editing => f.alias # Nil,
         f.credential # Nil => f.credential = [alias |-> f.alias, address |-> f.address]
  PROVE  WizardIInv'
<1>1. /\ hostForm'[p] = f /\ \A q \in WizardPage : q # p => hostForm'[q] = hostForm[q]
      /\ hostForm' \in [WizardPage -> WizardForm]
  BY WizardFormType DEF WizardIInv
<1>2. W!TypeOK' BY <1>1 DEF WizardIInv, W!TypeOK, WizardForm
<1>3. WizardFormsNameHosts' BY <1>1 DEF WizardIInv, WizardFormsNameHosts
<1>4. WizardMetadataFirst' BY DEF WizardIInv, WizardMetadataFirst, W!AtStep, W!Loading
<1>5. W!FormKeepsItsKey' BY <1>1 DEF WizardIInv, W!FormKeepsItsKey, W!Loading, W!IdOf
<1>6. W!RowsNameTheirKey' BY DEF WizardIInv, W!RowsNameTheirKey, W!Valid
<1> QED BY <1>2, <1>3, <1>4, <1>5, <1>6 DEF WizardIInv

(* A step of a wizard that is not the start of an enrolment.                *)
LEMMA WizardWizardStep ==
  ASSUME W!OnboardingAssumption, WizardIInv, NEW p \in WizardPage, NEW w \in W!Wizard \cup {Nil},
         wizard' = [wizard EXCEPT ![p] = w], UNCHANGED <<hostRows, ownKey, hostForm>>,
         w # Nil => w.id = W!IdOf(hostForm[p]) /\ w.editing = hostForm[p].editing /\ w.step # "enrolling"
  PROVE  WizardIInv'
<1>1. /\ wizard'[p] = w /\ \A q \in WizardPage : q # p => wizard'[q] = wizard[q]
      /\ wizard' \in [WizardPage -> W!Wizard \cup {Nil}]
  BY DEF WizardIInv, W!TypeOK
<1>2. W!TypeOK' BY <1>1 DEF WizardIInv, W!TypeOK
<1>3. WizardFormsNameHosts' BY DEF WizardIInv, WizardFormsNameHosts
<1>4. WizardMetadataFirst' BY <1>1 DEF WizardIInv, WizardMetadataFirst, W!AtStep, W!Loading
<1>5. W!FormKeepsItsKey' BY <1>1 DEF WizardIInv, W!FormKeepsItsKey, W!Loading, W!IdOf
<1>6. W!RowsNameTheirKey' BY DEF WizardIInv, W!RowsNameTheirKey, W!Valid
<1> QED BY <1>2, <1>3, <1>4, <1>5, <1>6 DEF WizardIInv

LEMMA WizardMoveStep ==
  ASSUME W!OnboardingAssumption, WizardIInv, NEW p \in WizardPage, W!Loading(p),
         NEW step \in {"bootstrap", "preflight", "checking", "save"},
         W!To(p, step) \/ W!End(p), UNCHANGED <<hostRows, ownKey, hostForm>>
  PROVE  WizardIInv'
<1>1. wizard[p] \in W!Wizard BY DEF WizardIInv, W!TypeOK, W!Loading
<1>2. CASE W!To(p, step)
  <2>1. PICK w : w = [wizard[p] EXCEPT !.step = step] OBVIOUS
  <2>2. w \in W!Wizard /\ w.id = wizard[p].id /\ w.editing = wizard[p].editing /\ w.step = step
    BY <1>1, <2>1 DEF W!Wizard
  <2>3. wizard' = [wizard EXCEPT ![p] = w] BY <1>2, <2>1 DEF W!To
  <2>4. w.id = W!IdOf(hostForm[p]) /\ w.editing = hostForm[p].editing BY <2>2 DEF WizardIInv, W!FormKeepsItsKey
  <2> QED BY ONLY <2>2, <2>3, <2>4, WizardWizardStep, W!OnboardingAssumption, WizardIInv, UNCHANGED <<hostRows,
       ownKey, hostForm>>
<1>3. CASE W!End(p) BY <1>3, WizardWizardStep DEF W!End
<1> QED BY <1>2, <1>3

LEMMA WizardOperatorStep == ASSUME W!OnboardingAssumption, WizardIInv, NEW p \in WizardPage, W!Operator(p) PROVE WizardIInv'
<1>1. hostForm[p] \in WizardForm BY WizardFormType DEF WizardIInv
<1>2. ASSUME NEW a \in WizardAlias, NEW x \in WizardAddress, W!EditField(p, a, x) PROVE WizardIInv'
  <2>1. PICK f : f = [hostForm[p] EXCEPT !.alias = a, !.address = x, !.credential = Nil] OBVIOUS
  <2>2. /\ f \in WizardForm /\ f.alias = a /\ f.address = x /\ f.credential = Nil
    BY <1>1, <2>1 DEF WizardForm
  <2>3. hostForm' = [hostForm EXCEPT ![p] = f] /\ ~ W!Loading(p) /\ UNCHANGED <<hostRows, ownKey, wizard>>
    BY <1>2, <2>1 DEF W!EditField, W!InvalidateCredential, W!server
  <2>4. f.alias # Nil /\ f.address # Nil BY <2>2 DEF W!OnboardingAssumption
  <2> QED BY <2>2, <2>3, <2>4, WizardFormStep
<1>3. CASE W!StartNewHost(p)
  <2>1. hostForm' = [hostForm EXCEPT ![p] = W!Blank] /\ ~ W!Loading(p) /\ UNCHANGED <<hostRows, ownKey, wizard>>
    BY <1>3 DEF W!StartNewHost
  <2> QED BY <2>1, WizardBlankForm, WizardFormStep
<1>4. CASE W!CheckPreflight(p)
  <2>1. PICK f : f = hostForm[p] OBVIOUS
  <2>2. PICK on : on = (ownKey[W!IdOf(f)] # Nil /\ ownKey[W!IdOf(f)].sudo = "on_demand") OBVIOUS
  <2>3. on \in BOOLEAN BY <2>2
  <2>4. f.alias # Nil /\ f.address # Nil
    BY <1>4, <2>1 DEF WizardIInv, WizardFormsNameHosts, W!CheckPreflight
  <2>5. W!IdOf(f) \in W!Identity BY <1>1, <2>1, <2>4 DEF WizardForm, W!IdOf, W!Identity
  <2>6. PICK s : s = W!Setup(f, FALSE, FALSE) OBVIOUS
  <2>7. s \in W!Wizard /\ s.id = W!IdOf(f) /\ s.editing = f.editing
    <3>1. PICK sudo : sudo = (W!NeedsSudo(W!IdOf(f)) /\ (FALSE \/ FALSE)) OBVIOUS
    <3>2. sudo \in BOOLEAN BY <3>1
    <3>3. s = [step |-> "status", only |-> FALSE, id |-> W!IdOf(f), credential |-> f.credential, editing |-> f.editing,
               password |-> FALSE, sudo |-> sudo, onDemand |-> FALSE]
      BY <2>6, <3>1 DEF W!Setup
    <3> QED BY <1>1, <2>1, <2>5, <3>2, <3>3 DEF WizardForm, W!Wizard
  <2>8. PICK w : w = [s EXCEPT !.step = "preflight", !.only = TRUE, !.onDemand = on] OBVIOUS
  <2>9. w \in W!Wizard /\ w.id = s.id /\ w.editing = s.editing /\ w.step = "preflight"
    BY <2>3, <2>7, <2>8 DEF W!Wizard
  <2>10. wizard' = [wizard EXCEPT ![p] = w] /\ UNCHANGED <<hostRows, ownKey, hostForm>>
    <3>1. wizard' = [wizard EXCEPT ![p] = [W!Setup(f, FALSE, FALSE) EXCEPT !.step = "preflight", !.only = TRUE,
            !.onDemand = ownKey[W!IdOf(f)] # Nil /\ ownKey[W!IdOf(f)].sudo = "on_demand"]]
      BY <1>4, <2>1 DEF W!CheckPreflight
    <3> QED BY <1>4, <2>2, <2>6, <2>8, <3>1 DEF W!CheckPreflight, W!server
  <2>11. w.id = W!IdOf(hostForm[p]) /\ w.editing = hostForm[p].editing /\ w.step # "enrolling" BY <2>1, <2>7, <2>9
  <2> QED BY <2>9, <2>10, <2>11, WizardWizardStep
<1>5. ASSUME NEW a \in WizardAlias, W!FillHostForm(p, a) PROVE WizardIInv'
  <2>1. PICK row : row = hostRows[a] OBVIOUS
  <2>2. row \in W!Row BY <1>5, <2>1 DEF W!FillHostForm, WizardIInv, W!TypeOK
  <2>3. PICK f : f = [alias |-> a, address |-> row.address, credential |-> row.credential, editing |-> TRUE] OBVIOUS
  <2>4. f \in WizardForm BY <2>2, <2>3 DEF W!Row, WizardForm
  <2>5. /\ hostForm' = [hostForm EXCEPT ![p] = f] /\ ~ W!Loading(p)
        /\ UNCHANGED <<hostRows, ownKey, wizard>>
    BY <1>5, <2>1, <2>3 DEF W!FillHostForm, W!MayFill
  <2>6. f.alias # Nil /\ f.address # Nil BY <2>2, <2>3 DEF W!Row, W!OnboardingAssumption
  <2>7. f.credential # Nil => f.credential = [alias |-> f.alias, address |-> f.address]
    BY <1>5, <2>1, <2>3 DEF W!FillHostForm, WizardIInv, W!RowsNameTheirKey, W!Valid
  <2> QED BY <2>4, <2>5, <2>6, <2>7, WizardFormStep
<1>6. ASSUME NEW password \in BOOLEAN, NEW alternate \in BOOLEAN, W!SetupHostCredential(p, password, alternate)
      PROVE  WizardIInv'
  <2>1. PICK w : w = W!Setup(hostForm[p], password, alternate) OBVIOUS
  <2>2. hostForm[p].alias # Nil /\ hostForm[p].address # Nil
    BY <1>6 DEF W!SetupHostCredential, WizardIInv, WizardFormsNameHosts
  <2>3. W!IdOf(hostForm[p]) \in W!Identity BY <1>1, <2>2 DEF WizardForm, W!IdOf, W!Identity
  <2>4. PICK sudo : sudo = (W!NeedsSudo(W!IdOf(hostForm[p])) /\ (password \/ alternate)) OBVIOUS
  <2>5. sudo \in BOOLEAN BY <2>4
  <2>6. w = [step |-> "status", only |-> FALSE, id |-> W!IdOf(hostForm[p]), credential |-> hostForm[p].credential,
             editing |-> hostForm[p].editing, password |-> password, sudo |-> sudo, onDemand |-> FALSE]
    BY <2>1, <2>4 DEF W!Setup
  <2>7. w \in W!Wizard BY <1>1, <2>3, <2>5, <2>6 DEF WizardForm, W!Wizard
  <2>8. wizard' = [wizard EXCEPT ![p] = w] /\ UNCHANGED <<hostRows, ownKey, hostForm>>
    BY <1>6, <2>1 DEF W!SetupHostCredential, W!server
  <2>9. w.id = W!IdOf(hostForm[p]) /\ w.editing = hostForm[p].editing /\ w.step # "enrolling" BY <2>6
  <2> QED BY <2>7, <2>8, <2>9, WizardWizardStep
<1> QED BY <1>2, <1>3, <1>4, <1>5, <1>6 DEF W!Operator

(* The key of one connection is written.                                    *)
LEMMA WizardKeyStep ==
  ASSUME W!OnboardingAssumption, WizardIInv, NEW i \in W!Identity, NEW m \in W!Metadata, hostRows' = hostRows,
         ownKey' = [ownKey EXCEPT ![i] = m],
         ownKey[i] # Nil => (ownKey[i].verified => m.verified)
  PROVE  /\ ownKey' \in [W!Identity -> W!Metadata \cup {Nil}]
         /\ \A j \in W!Identity : ownKey[j] # Nil => ownKey'[j] # Nil
         /\ ownKey'[i] # Nil
         /\ W!RowsNameTheirKey'
<1>1. ownKey \in [W!Identity -> W!Metadata \cup {Nil}] BY DEF WizardIInv, W!TypeOK
<1>2. /\ ownKey'[i] = m /\ \A j \in W!Identity : j # i => ownKey'[j] = ownKey[j]
      /\ ownKey' \in [W!Identity -> W!Metadata \cup {Nil}]
  BY <1>1
<1>3. m # Nil BY DEF W!OnboardingAssumption
<1>4. ASSUME NEW a \in WizardAlias, hostRows[a] # Nil, hostRows[a].credential # Nil
      PROVE  W!Valid(hostRows[a].credential, [alias |-> a, address |-> hostRows[a].address])'
  <2>1. PICK c : c = hostRows[a].credential OBVIOUS
  <2>2. /\ c = [alias |-> a, address |-> hostRows[a].address]
        /\ ownKey[c] # Nil /\ ownKey[c].verified
    BY <1>4, <2>1 DEF WizardIInv, W!RowsNameTheirKey, W!Valid
  <2>3. hostRows[a] \in W!Row BY <1>4 DEF WizardIInv, W!TypeOK
  <2>4. c \in W!Identity BY <1>4, <2>1, <2>3 DEF W!Row
  <2>5. ownKey'[c] # Nil /\ ownKey'[c].verified BY <1>2, <1>3, <2>2, <2>4
  <2> QED BY <2>1, <2>2, <2>5 DEF W!Valid
<1> QED BY <1>2, <1>3, <1>4 DEF W!RowsNameTheirKey

LEMMA WizardStatusStep ==
  ASSUME W!OnboardingAssumption, WizardIInv, NEW p \in WizardPage, NEW believed \in BOOLEAN, W!StatusAnswer(p, believed)
  PROVE  WizardIInv'
<1>1. /\ W!Loading(p) /\ (W!To(p, "bootstrap") \/ W!To(p, "preflight") \/ W!End(p))
      /\ UNCHANGED <<hostRows, ownKey, hostForm>>
  BY DEF W!StatusAnswer, W!AtStep, W!server
<1> QED BY <1>1, WizardMoveStep

LEMMA WizardCheckStep == ASSUME W!OnboardingAssumption, WizardIInv, NEW p \in WizardPage, W!CheckConnection(p) PROVE WizardIInv'
<1>1. W!Loading(p) /\ (W!To(p, "checking") \/ W!End(p)) /\ UNCHANGED <<hostRows, ownKey, hostForm>>
  BY DEF W!CheckConnection, W!AtStep, W!server
<1> QED BY <1>1, WizardMoveStep

LEMMA WizardSummaryStep ==
  ASSUME W!OnboardingAssumption, WizardIInv, NEW p \in WizardPage, NEW ok \in BOOLEAN, W!SummarizePreflight(p, ok)
  PROVE  WizardIInv'
<1>1. W!Loading(p) /\ (W!To(p, "save") \/ W!End(p)) /\ UNCHANGED <<hostRows, ownKey, hostForm>>
  BY DEF W!SummarizePreflight, W!AtStep, W!server
<1> QED BY <1>1, WizardMoveStep

LEMMA WizardFailStep == ASSUME W!OnboardingAssumption, WizardIInv, NEW p \in WizardPage, W!FailToEnrol(p) PROVE WizardIInv'
<1>1. W!Loading(p) /\ (W!To(p, "save") \/ W!End(p)) /\ UNCHANGED <<hostRows, ownKey, hostForm>>
  BY DEF W!FailToEnrol, W!AtStep, W!server
<1> QED BY <1>1, WizardMoveStep

LEMMA WizardBeginStep == ASSUME W!OnboardingAssumption, WizardIInv, NEW p \in WizardPage, W!BeginHostCredential(p) PROVE WizardIInv'
<1>1. CASE W!End(p) /\ UNCHANGED ownKey
  <2>1. W!Loading(p) /\ UNCHANGED <<hostRows, ownKey, hostForm>> BY <1>1 DEF W!BeginHostCredential, W!AtStep
  <2> QED BY <1>1, <2>1, WizardMoveStep
<1>2. CASE ~ (W!End(p) /\ UNCHANGED ownKey)
  <2>1. wizard[p] \in W!Wizard /\ W!Loading(p) BY DEF W!BeginHostCredential, WizardIInv, W!TypeOK, W!AtStep, W!Loading
  <2>2. PICK i : i = wizard[p].id OBVIOUS
  <2>3. i \in W!Identity BY <2>1, <2>2 DEF W!Wizard
  <2>4. PICK w : w = [wizard[p] EXCEPT !.step = "enrolling"] OBVIOUS
  <2>5. w \in W!Wizard /\ w.id = i /\ w.editing = wizard[p].editing BY <2>1, <2>2, <2>4 DEF W!Wizard
  <2>6. /\ wizard' = [wizard EXCEPT ![p] = w] /\ UNCHANGED <<hostRows, hostForm>>
        /\ ownKey' = IF ownKey[i] # Nil THEN ownKey
                         ELSE [ownKey EXCEPT ![i] = [verified |-> FALSE, sudo |-> Nil]]
    <3>1. wizard' = [wizard EXCEPT ![p].step = "enrolling"] BY <1>2 DEF W!BeginHostCredential, W!To
    <3> QED BY <1>2, <2>2, <2>1, <2>4, <3>1 DEF W!BeginHostCredential, WizardIInv, W!TypeOK
  <2>7. /\ ownKey' \in [W!Identity -> W!Metadata \cup {Nil}]
        /\ \A j \in W!Identity : ownKey[j] # Nil => ownKey'[j] # Nil
        /\ ownKey'[i] # Nil /\ W!RowsNameTheirKey'
    <3>1. CASE ownKey[i] # Nil
      <4>1. ownKey' = ownKey BY <2>6, <3>1
      <4> QED BY <3>1, <4>1, <2>6 DEF WizardIInv, W!TypeOK, W!RowsNameTheirKey, W!Valid
    <3>2. CASE ownKey[i] = Nil
      <4>1. PICK m : m = [verified |-> FALSE, sudo |-> Nil] OBVIOUS
      <4>2. m \in W!Metadata BY <4>1 DEF W!Metadata, W!Mode
      <4>3. ownKey' = [ownKey EXCEPT ![i] = m] BY <2>6, <3>2, <4>1
      <4> QED BY <2>3, <2>6, <3>2, <4>2, <4>3, WizardKeyStep
    <3> QED BY <3>1, <3>2
  <2>8. /\ wizard'[p] = w /\ \A q \in WizardPage : q # p => wizard'[q] = wizard[q]
        /\ wizard' \in [WizardPage -> W!Wizard \cup {Nil}]
    BY <2>5, <2>6 DEF WizardIInv, W!TypeOK
  <2>9. W!TypeOK' BY <2>6, <2>7, <2>8 DEF WizardIInv, W!TypeOK
  <2>10. WizardFormsNameHosts' BY <2>6 DEF WizardIInv, WizardFormsNameHosts
  <2>11. WizardMetadataFirst'
    <3>1. ASSUME NEW q \in WizardPage, wizard[q] # Nil PROVE wizard[q].id \in W!Identity
      BY <3>1 DEF WizardIInv, W!TypeOK, W!Wizard
    <3> QED BY <2>5, <2>7, <2>8, <3>1 DEF WizardIInv, WizardMetadataFirst, W!AtStep, W!Loading
  <2>12. W!FormKeepsItsKey' BY <2>1, <2>2, <2>5, <2>6, <2>8 DEF WizardIInv, W!FormKeepsItsKey, W!Loading, W!IdOf
  <2> QED BY <2>7, <2>9, <2>10, <2>11, <2>12 DEF WizardIInv
<1> QED BY <1>1, <1>2

LEMMA WizardEnrolStep ==
  ASSUME W!OnboardingAssumption, WizardIInv, NEW p \in WizardPage, NEW way1 \in W!Mode, NEW heard \in BOOLEAN,
         W!EnrolKey(p, way1, heard)
  PROVE  WizardIInv'
<1>1. wizard[p] \in W!Wizard /\ W!Loading(p) BY DEF W!EnrolKey, WizardIInv, W!TypeOK, W!AtStep, W!Loading
<1>2. PICK i : i = wizard[p].id OBVIOUS
<1>3. i \in W!Identity /\ i = W!IdOf(hostForm[p]) BY <1>1, <1>2 DEF W!Wizard, WizardIInv, W!FormKeepsItsKey
<1>4. PICK old : old = ownKey[i] OBVIOUS
<1>5. old \in W!Metadata
  BY <1>2, <1>3, <1>4 DEF W!EnrolKey, WizardIInv, WizardMetadataFirst, W!TypeOK
<1>6. PICK m : m = [verified |-> TRUE, sudo |-> IF way1 = Nil THEN old.sudo ELSE way1] OBVIOUS
<1>7. m \in W!Metadata BY <1>5, <1>6 DEF W!Metadata, W!Mode
<1>8. ownKey' = [ownKey EXCEPT ![i] = m] /\ hostRows' = hostRows
  BY <1>2, <1>3, <1>4, <1>6 DEF W!EnrolKey, WizardIInv, W!TypeOK
<1>9. /\ ownKey' \in [W!Identity -> W!Metadata \cup {Nil}]
      /\ \A j \in W!Identity : ownKey[j] # Nil => ownKey'[j] # Nil
      /\ ownKey'[i] # Nil /\ W!RowsNameTheirKey'
  BY <1>3, <1>6, <1>7, <1>8, WizardKeyStep
<1>10. hostForm[p] \in WizardForm BY WizardFormType DEF WizardIInv
<1>11. /\ hostForm' \in [WizardPage -> WizardForm]
       /\ \A q \in WizardPage : q # p => hostForm'[q] = hostForm[q]
       /\ hostForm'[p].alias = hostForm[p].alias /\ hostForm'[p].address = hostForm[p].address /\ hostForm'[p].editing = hostForm[p].editing
       /\ hostForm'[p].credential \in {hostForm[p].credential, i}
  <2>1. hostForm' = hostForm \/ hostForm' = [hostForm EXCEPT ![p] = [hostForm[p] EXCEPT !.credential = i]]
    BY <1>2, WizardFormType DEF W!EnrolKey, WizardIInv
  <2>2. [hostForm[p] EXCEPT !.credential = i] \in WizardForm BY <1>3, <1>10 DEF WizardForm
  <2> QED BY <1>10, <2>1, <2>2, WizardFormType DEF WizardIInv, WizardForm
<1>12. /\ wizard' \in [WizardPage -> W!Wizard \cup {Nil}]
       /\ \A q \in WizardPage : q # p => wizard'[q] = wizard[q]
       /\ wizard'[p] # Nil => wizard'[p].id = i /\ wizard'[p].editing = wizard[p].editing
                              /\ wizard'[p].step = "preflight"
  <2>1. CASE W!End(p) BY <2>1 DEF W!End, WizardIInv, W!TypeOK
  <2>2. CASE ~ W!End(p)
    <3>1. PICK w : w = [wizard[p] EXCEPT !.step = "preflight", !.credential = i, !.onDemand = (way1 = "on_demand")]
      OBVIOUS
    <3>2. /\ w \in W!Wizard /\ w.id = i /\ w.editing = wizard[p].editing /\ w.step = "preflight"
      BY <1>1, <1>2, <1>3, <3>1 DEF W!Wizard
    <3>3. wizard' = [wizard EXCEPT ![p] = w]
      BY <1>2, <2>2, <3>1 DEF W!EnrolKey, WizardIInv, W!TypeOK
    <3> QED BY <3>2, <3>3 DEF WizardIInv, W!TypeOK
  <2> QED BY <2>1, <2>2
<1>13. W!TypeOK' BY <1>8, <1>9, <1>11, <1>12 DEF WizardIInv, W!TypeOK, WizardForm
<1>14. WizardFormsNameHosts' BY <1>11 DEF WizardIInv, WizardFormsNameHosts
<1>15. WizardMetadataFirst'
  <2>1. ASSUME NEW q \in WizardPage, wizard[q] # Nil PROVE wizard[q].id \in W!Identity
    BY <2>1 DEF WizardIInv, W!TypeOK, W!Wizard
  <2> QED BY <1>9, <1>12, <2>1 DEF WizardIInv, WizardMetadataFirst, W!AtStep, W!Loading
<1>16. W!FormKeepsItsKey'
  BY <1>1, <1>2, <1>3, <1>11, <1>12 DEF WizardIInv, W!FormKeepsItsKey, W!Loading, W!IdOf
<1> QED BY <1>9, <1>13, <1>14, <1>15, <1>16 DEF WizardIInv

(* A host is saved.                                                         *)
LEMMA WizardSaveStep ==
  ASSUME W!OnboardingAssumption, WizardIInv, NEW p \in WizardPage, NEW row \in W!Row, NEW heard \in BOOLEAN,
         wizard[p] # Nil, W!SaveHost(p, row, heard), row.address = wizard[p].id.address,
         row.credential # Nil => W!Valid(row.credential, wizard[p].id)
  PROVE  WizardIInv'
<1>1. wizard[p] \in W!Wizard BY DEF WizardIInv, W!TypeOK
<1>2. PICK id : id = wizard[p].id OBVIOUS
<1>3. id \in W!Identity BY <1>1, <1>2 DEF W!Wizard
<1>4. id.alias \in WizardAlias /\ id.address \in WizardAddress /\ id = [alias |-> id.alias, address |-> id.address]
  BY <1>3 DEF W!Identity
<1>5. /\ hostRows' \in [WizardAlias -> W!Row \cup {Nil}] /\ hostRows'[id.alias] = row
      /\ \A a \in WizardAlias : a # id.alias => hostRows'[a] = hostRows[a]
  BY <1>2, <1>4 DEF W!SaveHost, WizardIInv, W!TypeOK
<1>6. /\ hostForm' \in [WizardPage -> WizardForm]
      /\ \A q \in WizardPage : q # p => hostForm'[q] = hostForm[q]
      /\ hostForm'[p] \in {hostForm[p], W!Blank}
  <2>1. hostForm' = hostForm \/ hostForm' = [hostForm EXCEPT ![p] = W!Blank] BY DEF W!SaveHost
  <2> QED BY <2>1, WizardBlankForm, WizardFormType DEF WizardIInv
<1>7. /\ wizard' \in [WizardPage -> W!Wizard \cup {Nil}] /\ wizard'[p] = Nil
      /\ \A q \in WizardPage : q # p => wizard'[q] = wizard[q]
      /\ ownKey' = ownKey
  BY DEF W!SaveHost, W!End, WizardIInv, W!TypeOK
<1>8. W!TypeOK' BY <1>5, <1>6, <1>7 DEF WizardIInv, W!TypeOK, WizardForm
<1>9. WizardFormsNameHosts' BY <1>6, WizardBlankForm DEF WizardIInv, WizardFormsNameHosts
<1>10. WizardMetadataFirst' BY <1>7 DEF WizardIInv, WizardMetadataFirst, W!AtStep, W!Loading
<1>11. W!FormKeepsItsKey' BY <1>6, <1>7, WizardBlankForm DEF WizardIInv, W!FormKeepsItsKey, W!Loading, W!IdOf
<1>12. W!RowsNameTheirKey'
  <2>1. ASSUME NEW a \in WizardAlias, hostRows'[a] # Nil, hostRows'[a].credential # Nil
        PROVE  W!Valid(hostRows[a].credential, [alias |-> a, address |-> hostRows[a].address])'
    <3>1. CASE a = id.alias BY <1>2, <1>4, <1>5, <1>7, <2>1, <3>1 DEF W!Valid
    <3>2. CASE a # id.alias BY <1>5, <1>7, <2>1, <3>2 DEF WizardIInv, W!RowsNameTheirKey, W!Valid
    <3> QED BY <3>1, <3>2
  <2> QED BY <2>1 DEF W!RowsNameTheirKey
<1> QED BY <1>8, <1>9, <1>10, <1>11, <1>12 DEF WizardIInv

LEMMA WizardAddStep ==
  ASSUME W!OnboardingAssumption, WizardIInv, NEW p \in WizardPage, NEW heard \in BOOLEAN, W!AddHost(p, heard) PROVE WizardIInv'
<1>1. wizard[p] \in W!Wizard /\ W!Loading(p) BY DEF W!AddHost, WizardIInv, W!TypeOK, W!AtStep, W!Loading
<1>2. CASE W!End(p) /\ UNCHANGED <<W!server, hostForm>> BY <1>1, <1>2, WizardMoveStep DEF W!server
<1>3. CASE ~ (W!End(p) /\ UNCHANGED <<W!server, hostForm>>)
  <2>1. PICK row : row = [address |-> wizard[p].id.address, credential |-> wizard[p].credential] OBVIOUS
  <2>2. row \in W!Row /\ row.address = wizard[p].id.address /\ row.credential = wizard[p].credential
    BY <1>1, <2>1 DEF W!Wizard, W!Identity, W!Row
  <2>3. W!SaveHost(p, row, heard) /\ W!Valid(row.credential, wizard[p].id)
    BY <1>3, <2>1, <2>2 DEF W!AddHost, W!SavedKey
  <2> QED BY <1>1, <2>2, <2>3, WizardSaveStep DEF W!Loading
<1> QED BY <1>2, <1>3

LEMMA WizardUpdateStep ==
  ASSUME W!OnboardingAssumption, WizardIInv, NEW p \in WizardPage, NEW heard \in BOOLEAN, W!UpdateHost(p, heard) PROVE WizardIInv'
<1>1. wizard[p] \in W!Wizard /\ W!Loading(p) BY DEF W!UpdateHost, WizardIInv, W!TypeOK, W!AtStep, W!Loading
<1>2. CASE W!End(p) /\ UNCHANGED <<W!server, hostForm>> BY <1>1, <1>2, WizardMoveStep DEF W!server
<1>3. CASE ~ (W!End(p) /\ UNCHANGED <<W!server, hostForm>>)
  <2>1. PICK existing : existing = hostRows[wizard[p].id.alias] OBVIOUS
  <2>2. PICK c : c = IF wizard[p].credential = Nil /\ existing # Nil THEN existing.credential
                     ELSE wizard[p].credential
    OBVIOUS
  <2>3. PICK row : row = [address |-> wizard[p].id.address, credential |-> c] OBVIOUS
  <2>4. c \in W!Identity \cup {Nil}
    BY <1>1, <2>1, <2>2 DEF W!Wizard, W!Identity, W!Row, WizardIInv, W!TypeOK
  <2>5. row \in W!Row /\ row.address = wizard[p].id.address /\ row.credential = c
    BY <1>1, <2>3, <2>4 DEF W!Wizard, W!Identity, W!Row
  <2>6. W!SaveHost(p, row, heard) /\ (c # Nil => W!Valid(c, wizard[p].id))
    BY <1>3, <2>1, <2>2, <2>3 DEF W!UpdateHost, W!SavedKey
  <2> QED BY <1>1, <2>5, <2>6, WizardSaveStep DEF W!Loading
<1> QED BY <1>2, <1>3

LEMMA WizardRequestStep == ASSUME W!OnboardingAssumption, WizardIInv, NEW p \in WizardPage, W!Requests(p) PROVE WizardIInv'
BY WizardStatusStep, WizardBeginStep, WizardFailStep, WizardCheckStep, WizardEnrolStep, WizardSummaryStep,
     WizardAddStep, WizardUpdateStep DEF W!Requests

(* Only the rows lose a host, or a row and its key go together.             *)
LEMMA WizardRemoveStep ==
  ASSUME W!OnboardingAssumption, WizardIInv, NEW a \in WizardAlias, W!CloseOut(a) \/ W!RemoveHost(a) PROVE WizardIInv'
<1>1. PICK row : row = hostRows[a] OBVIOUS
<1>2. row \in W!Row BY <1>1 DEF W!CloseOut, W!RemoveHost, WizardIInv, W!TypeOK
<1>3. /\ hostRows' \in [WizardAlias -> W!Row \cup {Nil}] /\ hostRows'[a] = Nil
      /\ \A b \in WizardAlias : b # a => hostRows'[b] = hostRows[b]
      /\ hostForm' = hostForm /\ wizard' = wizard
  BY DEF W!CloseOut, W!RemoveHost, WizardIInv, W!TypeOK
<1>4. /\ ownKey' \in [W!Identity -> W!Metadata \cup {Nil}]
      /\ \A i \in W!Identity : ownKey'[i] = ownKey[i]
           \/ (i = row.credential /\ i.alias = a /\ ~ W!Enrolling(i))
  <2>1. CASE W!RemoveHost(a) BY <2>1 DEF W!RemoveHost, WizardIInv, W!TypeOK
  <2>2. CASE W!CloseOut(a)
    <3>1. row.credential # Nil /\ ~ W!Enrolling(row.credential)
          /\ ownKey' = [ownKey EXCEPT ![row.credential] = Nil]
      BY <1>1, <2>2 DEF W!CloseOut
    <3>2. row.credential = [alias |-> a, address |-> row.address]
      BY <1>1, <2>2, <3>1 DEF W!CloseOut, WizardIInv, W!RowsNameTheirKey, W!Valid
    <3>3. PICK c : c = row.credential OBVIOUS
    <3>4. c.alias = a /\ ~ W!Enrolling(c) /\ ownKey' = [ownKey EXCEPT ![c] = Nil] BY <3>1, <3>2, <3>3
    <3>5. ownKey \in [W!Identity -> W!Metadata \cup {Nil}] BY DEF WizardIInv, W!TypeOK
    <3>6. \A i \in W!Identity : i # c => ownKey'[i] = ownKey[i] BY <3>4, <3>5
    <3> QED BY <3>3, <3>4, <3>5, <3>6
  <2> QED BY <2>1, <2>2
<1>5. W!TypeOK' BY <1>3, <1>4 DEF WizardIInv, W!TypeOK
<1>6. WizardFormsNameHosts' BY <1>3 DEF WizardIInv, WizardFormsNameHosts
<1>7. WizardMetadataFirst'
  <2>1. ASSUME NEW q \in WizardPage, W!AtStep(q, "enrolling") PROVE ownKey'[wizard[q].id] # Nil
    <3>1. PICK i : i = wizard[q].id OBVIOUS
    <3>2. i \in W!Identity BY <2>1, <3>1 DEF WizardIInv, W!TypeOK, W!Wizard, W!AtStep, W!Loading
    <3>3. W!Enrolling(i) BY <2>1, <3>1 DEF W!Enrolling
    <3>4. ownKey'[i] = ownKey[i] BY <1>4, <3>2, <3>3
    <3> QED BY <2>1, <3>1, <3>4 DEF WizardIInv, WizardMetadataFirst
  <2> QED BY <1>3, <2>1 DEF WizardMetadataFirst, W!AtStep, W!Loading
<1>8. W!FormKeepsItsKey' BY <1>3 DEF WizardIInv, W!FormKeepsItsKey, W!Loading
<1>9. W!RowsNameTheirKey'
  <2>1. ASSUME NEW b \in WizardAlias, hostRows'[b] # Nil, hostRows'[b].credential # Nil
        PROVE  W!Valid(hostRows[b].credential, [alias |-> b, address |-> hostRows[b].address])'
    <3>1. b # a /\ hostRows'[b] = hostRows[b] BY <1>3, <2>1
    <3>2. PICK c : c = hostRows[b].credential OBVIOUS
    <3>3. /\ c = [alias |-> b, address |-> hostRows[b].address]
          /\ ownKey[c] # Nil /\ ownKey[c].verified
      BY <2>1, <3>1, <3>2 DEF WizardIInv, W!RowsNameTheirKey, W!Valid
    <3>4. c \in W!Identity BY <2>1, <3>1, <3>2 DEF WizardIInv, W!TypeOK, W!Row
    <3>5. ownKey'[c] = ownKey[c] BY <1>4, <3>1, <3>3, <3>4
    <3> QED BY <3>1, <3>2, <3>3, <3>5 DEF W!Valid
  <2> QED BY <2>1 DEF W!RowsNameTheirKey
<1> QED BY <1>5, <1>6, <1>7, <1>8, <1>9 DEF WizardIInv

LEMMA WizardStep == ASSUME W!OnboardingAssumption, WizardIInv, W!Next PROVE WizardIInv'
BY WizardOperatorStep, WizardRequestStep, WizardRemoveStep DEF W!Next

LEMMA WizardStutter == ASSUME WizardIInv, UNCHANGED W!vars PROVE WizardIInv'
BY DEF WizardIInv, W!vars, W!TypeOK, WizardFormsNameHosts, WizardMetadataFirst, W!FormKeepsItsKey,
     W!RowsNameTheirKey, W!AtStep, W!Loading, W!Valid

-----------------------------------------------------------------------------
(* The scripts of the operators                                             *)

PlaybooksCall0 == [kind : B!Kind, id : B!Script \cup {Nil}, next : B!Then, frees : BOOLEAN, sequence : 0 .. MaxOpens,
          text : B!Text \cup {Nil}, answer : B!Answer \cup {Nil}]
PlaybooksPage0 == [list : SUBSET B!Script, choice : B!Script, selected : B!Script \cup {Nil},
          text : B!Text \cup {Nil}, saved : B!Text \cup {Nil},
          busy : BOOLEAN, failed : BOOLEAN, sequence : 0 .. MaxOpens]

(* A call names what it is about, and a text that it carries belongs there. *)
PlaybooksSensible(c) ==
  /\ c.kind \in {"save", "create", "delete"} => c.id \in OwnScript
  /\ c.kind = "save" => c.text # Nil /\ c.text.of = c.id
  /\ c.kind = "open" => c.id \in B!Script
  /\ c.kind = "list" /\ c.next \in {"open", "choose"} => c.id \in B!Script
  /\ c.kind = "open" /\ c.answer # Nil /\ c.answer.ok => c.answer.text # Nil /\ c.answer.text.of = c.id

PlaybooksSensibleCalls == IsFiniteSet(scriptCalls) /\ \A c \in scriptCalls : PlaybooksSensible(c)

(* The page shows a draft with a text of its own.                           *)
PlaybooksTextOfSelected ==
  scriptPage.selected \in OwnScript => scriptPage.text # Nil /\ scriptPage.text.of = scriptPage.selected /\ scriptPage.saved # Nil

(* One opening is the last.                                                 *)
PlaybooksOneCurrent ==
  \A c, d \in scriptCalls : (c.kind = "open" /\ d.kind = "open" /\ c.sequence = d.sequence) => c = d

PlaybooksNoneAhead == \A c \in scriptCalls : c.kind = "open" => c.sequence <= scriptPage.sequence

(* What the page will do when it sees this call leaves the text it shows of *)
(* the script: it opens the script again, or closes it.                     *)
PlaybooksMends(c, s) ==
  /\ c.id = s
  /\ \/ c.kind \in {"save", "delete"} /\ c.answer # Nil /\ c.answer.ok
     \/ c.kind = "list" /\ c.next = "open"

PlaybooksCovered(s, v) == drafts[s] = v \/ \E c \in scriptCalls : PlaybooksMends(c, s)

(* The last opening is on its way, or its answer is what the page shows.    *)
PlaybooksInFlight == \E c \in scriptCalls : c.kind = "open" /\ B!Current(c)

PlaybooksAnswersCovered ==
  \A c \in scriptCalls : (c.kind = "open" /\ B!Current(c) /\ c.id \in OwnScript /\ c.answer # Nil /\ c.answer.ok)
                      => PlaybooksCovered(c.id, c.answer.text)

PlaybooksPageCovered ==
  (~ scriptPage.failed /\ ~ PlaybooksInFlight /\ scriptPage.selected \in OwnScript) => PlaybooksCovered(scriptPage.selected, scriptPage.saved)

PlaybooksIInv == /\ B!TypeOK /\ PlaybooksSensibleCalls /\ PlaybooksTextOfSelected /\ PlaybooksOneCurrent /\ PlaybooksNoneAhead
                 /\ B!ScriptsKeepTheirText /\ PlaybooksAnswersCovered /\ PlaybooksPageCovered

PlaybooksSorts ==
  /\ drafts \in [OwnScript -> B!Text \cup {Nil}] /\ scriptPage \in PlaybooksPage0
  /\ Cardinality(scriptCalls) <= MaxCalls /\ \A c \in scriptCalls : c \in PlaybooksCall0
  /\ texts \in 0 .. MaxText

LEMMA PlaybooksTypes == (B!TypeOK <=> PlaybooksSorts) /\ (B!TypeOK' <=> PlaybooksSorts')
BY DEF B!TypeOK, B!Cardinality, Cardinality, PlaybooksSorts, PlaybooksPage0, PlaybooksCall0

LEMMA PlaybooksRoomLeft == B!Room <=> Cardinality(scriptCalls) < MaxCalls
BY DEF B!Room, B!Cardinality, Cardinality

LEMMA PlaybooksBuiltinText ==
  ASSUME B!PlaybooksAssumption
  PROVE  /\ B!OnDisk(Builtin) \in B!Text /\ B!OnDisk(Builtin).of = Builtin
         /\ Builtin \in B!Script /\ Builtin \notin OwnScript /\ Builtin # Nil
BY DEF B!PlaybooksAssumption, B!OnDisk, B!Text, B!Script

LEMMA PlaybooksInitIInv == ASSUME B!PlaybooksAssumption, B!Init PROVE PlaybooksIInv
<1>1. /\ scriptPage = [list |-> {Builtin}, choice |-> Builtin, selected |-> Builtin, text |-> B!OnDisk(Builtin),
                 saved |-> B!OnDisk(Builtin), busy |-> FALSE, failed |-> FALSE, sequence |-> 0]
      /\ drafts = [s \in OwnScript |-> Nil] /\ scriptCalls = {} /\ texts = 0
  BY DEF B!Init
<1>2. MaxText \in Nat /\ MaxCalls \in Nat /\ MaxOpens \in Nat BY DEF B!PlaybooksAssumption
<1>3. scriptPage \in PlaybooksPage0 BY <1>1, <1>2, PlaybooksBuiltinText DEF PlaybooksPage0
<1>4. Cardinality(scriptCalls) = 0 /\ IsFiniteSet(scriptCalls) BY <1>1, FS_EmptySet
<1>5. B!TypeOK BY <1>1, <1>2, <1>3, <1>4, PlaybooksTypes DEF PlaybooksSorts
<1>6. PlaybooksSensibleCalls BY <1>1, <1>4 DEF PlaybooksSensibleCalls
<1>7. PlaybooksTextOfSelected BY <1>1, PlaybooksBuiltinText DEF PlaybooksTextOfSelected
<1>8. PlaybooksOneCurrent /\ PlaybooksNoneAhead /\ PlaybooksAnswersCovered BY <1>1 DEF PlaybooksOneCurrent,
     PlaybooksNoneAhead, PlaybooksAnswersCovered
<1>9. B!ScriptsKeepTheirText BY <1>1 DEF B!ScriptsKeepTheirText
<1>10. PlaybooksPageCovered BY <1>1, PlaybooksBuiltinText DEF PlaybooksPageCovered
<1> QED BY <1>5, <1>6, <1>7, <1>8, <1>9, <1>10 DEF PlaybooksIInv

(* A call more, while there is room.                                        *)
LEMMA PlaybooksOneMore ==
  ASSUME B!PlaybooksAssumption, PlaybooksIInv, B!Room, NEW d
  PROVE  IsFiniteSet(scriptCalls \cup {d}) /\ Cardinality(scriptCalls \cup {d}) <= MaxCalls
<1>1. MaxCalls \in Nat BY DEF B!PlaybooksAssumption
<1>2. IsFiniteSet(scriptCalls) /\ Cardinality(scriptCalls) \in Nat BY FS_CardinalityType DEF PlaybooksIInv,
     PlaybooksSensibleCalls
<1>3. /\ IsFiniteSet(scriptCalls \cup {d})
      /\ Cardinality(scriptCalls \cup {d}) = Cardinality(scriptCalls) \/ Cardinality(scriptCalls \cup {d}) = Cardinality(scriptCalls) + 1
  BY <1>2, FS_AddElement
<1> QED BY <1>1, <1>2, <1>3, PlaybooksRoomLeft

(* One call in the place of another.                                        *)
LEMMA PlaybooksInPlace ==
  ASSUME B!PlaybooksAssumption, PlaybooksIInv, NEW c \in scriptCalls, NEW d
  PROVE  IsFiniteSet((scriptCalls \ {c}) \cup {d}) /\ Cardinality((scriptCalls \ {c}) \cup {d}) <= Cardinality(scriptCalls)
<1>1. MaxCalls \in Nat BY DEF B!PlaybooksAssumption
<1>2. IsFiniteSet(scriptCalls) /\ Cardinality(scriptCalls) \in Nat BY FS_CardinalityType DEF PlaybooksIInv,
     PlaybooksSensibleCalls
<1>3. PICK rest : rest = scriptCalls \ {c} OBVIOUS
<1>4. IsFiniteSet(rest) /\ Cardinality(rest) = Cardinality(scriptCalls) - 1 BY <1>2, <1>3, FS_RemoveElement
<1>5. /\ IsFiniteSet(rest \cup {d})
      /\ Cardinality(rest \cup {d}) = Cardinality(rest) \/ Cardinality(rest \cup {d}) = Cardinality(rest) + 1
  BY <1>4, FS_AddElement
<1> QED BY <1>2, <1>3, <1>4, <1>5

LEMMA PlaybooksOneLess ==
  ASSUME B!PlaybooksAssumption, PlaybooksIInv, NEW c \in scriptCalls
  PROVE  IsFiniteSet(scriptCalls \ {c}) /\ Cardinality(scriptCalls \ {c}) <= Cardinality(scriptCalls)
<1>1. IsFiniteSet(scriptCalls) /\ Cardinality(scriptCalls) \in Nat BY FS_CardinalityType DEF PlaybooksIInv,
     PlaybooksSensibleCalls
<1>2. IsFiniteSet(scriptCalls \ {c}) /\ Cardinality(scriptCalls \ {c}) = Cardinality(scriptCalls) - 1 BY <1>1,
     FS_RemoveElement
<1> QED BY <1>1, <1>2

LEMMA PlaybooksBounded == ASSUME B!PlaybooksAssumption, PlaybooksIInv PROVE Cardinality(scriptCalls) \in Nat /\ Cardinality(scriptCalls) <= MaxCalls
BY FS_CardinalityType, PlaybooksTypes DEF PlaybooksIInv, PlaybooksSensibleCalls, PlaybooksSorts

(* The script that the page goes on to open last.                           *)
LEMMA PlaybooksOpenStep ==
  ASSUME B!PlaybooksAssumption, PlaybooksIInv, NEW base, NEW id \in B!Script, NEW frees \in BOOLEAN,
         \A c \in base : c \in PlaybooksCall0 /\ PlaybooksSensible(c) /\ (c.kind = "open" => c \in scriptCalls),
         scriptPage.sequence < MaxOpens, scriptPage'.sequence = scriptPage.sequence + 1, scriptPage' \in PlaybooksPage0,
         scriptCalls' = base \cup {B!Opening(id, frees, scriptPage.sequence + 1)},
         IsFiniteSet(scriptCalls'), Cardinality(scriptCalls') <= MaxCalls,
         drafts' = drafts, texts' = texts, PlaybooksTextOfSelected'
  PROVE  PlaybooksIInv'
<1>1. PICK n : n = scriptPage.sequence + 1 OBVIOUS
<1>2. PICK o : o = B!Opening(id, frees, n) OBVIOUS
<1>3. scriptPage \in PlaybooksPage0 BY PlaybooksTypes DEF PlaybooksSorts, PlaybooksIInv
<1>4. scriptPage.sequence \in Nat /\ MaxOpens \in Nat /\ n \in 0 .. MaxOpens BY <1>1, <1>3 DEF PlaybooksPage0,
     B!PlaybooksAssumption
<1>5. o = [kind |-> "open", id |-> id, next |-> "show", frees |-> frees, sequence |-> n, text |-> Nil, answer |-> Nil]
  BY <1>2 DEF B!Opening, B!Call
<1>6. o \in PlaybooksCall0 /\ o.kind = "open" /\ o.sequence = n /\ o.id = id /\ o.answer = Nil
  BY <1>4, <1>5 DEF PlaybooksCall0, B!Kind, B!Then
<1>7. PlaybooksSensible(o) BY <1>6 DEF PlaybooksSensible
<1>8. scriptCalls' = base \cup {o} BY <1>1, <1>2
<1>9. B!TypeOK'
  <2>1. \A c \in scriptCalls' : c \in PlaybooksCall0 BY <1>6, <1>8
  <2> QED BY <2>1, PlaybooksTypes DEF PlaybooksIInv, PlaybooksSorts, PlaybooksPage0, PlaybooksCall0
<1>10. PlaybooksSensibleCalls' BY <1>7, <1>8 DEF PlaybooksSensibleCalls, PlaybooksSensible
<1>11. \A c \in base : c.kind = "open" => c.sequence <= scriptPage.sequence BY DEF PlaybooksIInv, PlaybooksNoneAhead
<1>12. \A c \in base : c.kind = "open" => c.sequence # n BY <1>1, <1>3, <1>11 DEF PlaybooksCall0, PlaybooksPage0
<1>13. PlaybooksOneCurrent' BY <1>6, <1>8, <1>12 DEF PlaybooksIInv, PlaybooksOneCurrent
<1>14. PlaybooksNoneAhead'
  <2>1. \A c \in base : c.kind = "open" => c.sequence <= n BY <1>1, <1>3, <1>11 DEF PlaybooksCall0, PlaybooksPage0
  <2> QED BY <1>1, <1>4, <1>6, <1>8, <2>1 DEF PlaybooksNoneAhead
<1>15. B!ScriptsKeepTheirText' BY DEF PlaybooksIInv, B!ScriptsKeepTheirText
<1>16. PlaybooksAnswersCovered' BY <1>1, <1>6, <1>8, <1>12 DEF PlaybooksAnswersCovered, B!Current
<1>17. PlaybooksPageCovered' BY <1>1, <1>6, <1>8 DEF PlaybooksPageCovered, PlaybooksInFlight, B!Current
<1> QED BY <1>9, <1>10, <1>13, <1>14, <1>15, <1>16, <1>17 DEF PlaybooksIInv

(* Anything else that the page sends.                                       *)
LEMMA PlaybooksSendStep ==
  ASSUME B!PlaybooksAssumption, PlaybooksIInv, B!Room, NEW d \in PlaybooksCall0, PlaybooksSensible(d), d.kind # "open", scriptCalls' = scriptCalls \cup {d},
         scriptPage' = [scriptPage EXCEPT !.busy = TRUE], UNCHANGED <<drafts, texts>>
  PROVE  PlaybooksIInv'
<1>1. scriptPage \in PlaybooksPage0 BY PlaybooksTypes DEF PlaybooksSorts, PlaybooksIInv
<1>2. /\ scriptPage' \in PlaybooksPage0 /\ scriptPage'.selected = scriptPage.selected /\ scriptPage'.text = scriptPage.text /\ scriptPage'.saved = scriptPage.saved
      /\ scriptPage'.failed = scriptPage.failed /\ scriptPage'.sequence = scriptPage.sequence
  BY <1>1 DEF PlaybooksPage0
<1>3. IsFiniteSet(scriptCalls') /\ Cardinality(scriptCalls') <= MaxCalls BY PlaybooksOneMore
<1>4. B!TypeOK'
  <2>1. \A c \in scriptCalls' : c \in PlaybooksCall0 BY PlaybooksTypes DEF PlaybooksSorts, PlaybooksIInv
  <2> QED BY <1>2, <1>3, <2>1, PlaybooksTypes DEF PlaybooksIInv, PlaybooksSorts, PlaybooksPage0, PlaybooksCall0
<1>5. PlaybooksSensibleCalls' BY <1>3 DEF PlaybooksIInv, PlaybooksSensibleCalls, PlaybooksSensible
<1>6. PlaybooksTextOfSelected' BY <1>2 DEF PlaybooksIInv, PlaybooksTextOfSelected
<1>7. PlaybooksOneCurrent' BY DEF PlaybooksIInv, PlaybooksOneCurrent
<1>8. PlaybooksNoneAhead' BY <1>2 DEF PlaybooksIInv, PlaybooksNoneAhead
<1>9. B!ScriptsKeepTheirText' BY DEF PlaybooksIInv, B!ScriptsKeepTheirText
<1>10. PlaybooksAnswersCovered' BY <1>2 DEF PlaybooksIInv, PlaybooksAnswersCovered, B!Current, PlaybooksCovered,
     PlaybooksMends
<1>11. PlaybooksPageCovered' BY <1>2 DEF PlaybooksIInv, PlaybooksPageCovered, PlaybooksInFlight, B!Current,
     PlaybooksCovered, PlaybooksMends
<1> QED BY <1>4, <1>5, <1>6, <1>7, <1>8, <1>9, <1>10, <1>11 DEF PlaybooksIInv

LEMMA PlaybooksChooseStep == ASSUME B!PlaybooksAssumption, PlaybooksIInv, NEW id \in B!Script, B!Choose(id) PROVE PlaybooksIInv'
<1>1. scriptPage \in PlaybooksPage0 BY PlaybooksTypes DEF PlaybooksSorts, PlaybooksIInv
<1>2. /\ scriptPage' \in PlaybooksPage0 /\ scriptPage'.selected = scriptPage.selected /\ scriptPage'.text = scriptPage.text /\ scriptPage'.saved = scriptPage.saved
      /\ scriptPage'.sequence = scriptPage.sequence + 1
  <2>1. PICK n : n = scriptPage.sequence + 1 OBVIOUS
  <2>2. n \in 0 .. MaxOpens BY <1>1, <2>1 DEF B!Choose, PlaybooksPage0, B!PlaybooksAssumption
  <2>3. scriptPage' = [scriptPage EXCEPT !.choice = id, !.busy = TRUE, !.failed = FALSE, !.sequence = n] BY <2>1 DEF B!Choose
  <2> QED BY <1>1, <2>1, <2>2, <2>3 DEF PlaybooksPage0
<1>3. PICK o : o = B!Opening(id, FALSE, scriptPage.sequence + 1) OBVIOUS
<1>4. scriptCalls' = scriptCalls \cup {o} BY <1>3 DEF B!Choose
<1>5. IsFiniteSet(scriptCalls') /\ Cardinality(scriptCalls') <= MaxCalls BY <1>4, PlaybooksOneMore DEF B!Choose
<1>6. \A c \in scriptCalls : c \in PlaybooksCall0 /\ PlaybooksSensible(c) BY PlaybooksTypes DEF PlaybooksSorts,
     PlaybooksIInv, PlaybooksSensibleCalls
<1>7. PlaybooksTextOfSelected' BY <1>2 DEF PlaybooksIInv, PlaybooksTextOfSelected
<1> QED BY <1>2, <1>3, <1>4, <1>5, <1>6, <1>7, PlaybooksOpenStep DEF B!Choose

LEMMA PlaybooksTypeStep == ASSUME B!PlaybooksAssumption, PlaybooksIInv, B!Type PROVE PlaybooksIInv'
<1>1. scriptPage \in PlaybooksPage0 /\ texts \in 0 .. MaxText BY PlaybooksTypes DEF PlaybooksIInv, PlaybooksSorts
<1>2. PICK text0 : text0 = [of |-> scriptPage.selected, n |-> texts + 1] OBVIOUS
<1>3. text0 \in B!Text /\ text0.of = scriptPage.selected /\ text0 # Nil
  BY <1>1, <1>2 DEF B!Type, B!Text, B!Script, B!PlaybooksAssumption
<1>4. scriptPage' = [scriptPage EXCEPT !.text = text0] BY <1>2 DEF B!Type
<1>5. /\ scriptPage' \in PlaybooksPage0 /\ scriptPage'.selected = scriptPage.selected /\ scriptPage'.text = text0 /\ scriptPage'.saved = scriptPage.saved
      /\ scriptPage'.failed = scriptPage.failed /\ scriptPage'.sequence = scriptPage.sequence
  BY <1>1, <1>3, <1>4 DEF PlaybooksPage0
<1>6. drafts' = drafts /\ scriptCalls' = scriptCalls BY DEF B!Type
<1>7. texts' \in 0 .. MaxText BY <1>1 DEF B!Type, B!PlaybooksAssumption
<1>8. B!TypeOK' BY <1>5, <1>6, <1>7, PlaybooksTypes DEF PlaybooksIInv, PlaybooksSorts, PlaybooksPage0
<1>9. PlaybooksSensibleCalls' BY <1>6 DEF PlaybooksIInv, PlaybooksSensibleCalls, PlaybooksSensible
<1>10. PlaybooksTextOfSelected' BY <1>3, <1>5 DEF PlaybooksIInv, PlaybooksTextOfSelected
<1>11. PlaybooksOneCurrent' /\ B!ScriptsKeepTheirText' BY <1>6 DEF PlaybooksIInv, PlaybooksOneCurrent,
     B!ScriptsKeepTheirText
<1>12. PlaybooksNoneAhead' BY <1>5, <1>6 DEF PlaybooksIInv, PlaybooksNoneAhead
<1>13. PlaybooksAnswersCovered' BY <1>5, <1>6 DEF PlaybooksIInv, PlaybooksAnswersCovered, B!Current,
     PlaybooksCovered, PlaybooksMends
<1>14. PlaybooksPageCovered' BY <1>5, <1>6 DEF PlaybooksIInv, PlaybooksPageCovered, PlaybooksInFlight, B!Current,
     PlaybooksCovered, PlaybooksMends
<1> QED BY <1>8, <1>9, <1>10, <1>11, <1>12, <1>13, <1>14 DEF PlaybooksIInv

LEMMA PlaybooksRefreshStep == ASSUME B!PlaybooksAssumption, PlaybooksIInv, B!Refresh PROVE PlaybooksIInv'
<1>1. PICK d : d = B!Call("list", Nil, "nothing", TRUE) OBVIOUS
<1>2. d \in PlaybooksCall0 /\ PlaybooksSensible(d) /\ d.kind # "open"
  BY <1>1 DEF B!Call, PlaybooksCall0, B!Kind, B!Then, PlaybooksSensible, B!PlaybooksAssumption
<1> QED BY <1>1, <1>2, PlaybooksSendStep DEF B!Refresh

LEMMA PlaybooksCreateStep == ASSUME B!PlaybooksAssumption, PlaybooksIInv, NEW id \in OwnScript, B!Create(id) PROVE PlaybooksIInv'
<1>1. PICK d : d = B!Call("create", id, "list", TRUE) OBVIOUS
<1>2. d \in PlaybooksCall0 /\ PlaybooksSensible(d) /\ d.kind # "open"
  BY <1>1 DEF B!Call, PlaybooksCall0, B!Kind, B!Then, PlaybooksSensible, B!Script, B!PlaybooksAssumption
<1> QED BY <1>1, <1>2, PlaybooksSendStep DEF B!Create

LEMMA PlaybooksDeleteStep == ASSUME B!PlaybooksAssumption, PlaybooksIInv, B!Delete PROVE PlaybooksIInv'
<1>1. PICK d : d = B!Call("delete", scriptPage.selected, "list", TRUE) OBVIOUS
<1>2. d \in PlaybooksCall0 /\ PlaybooksSensible(d) /\ d.kind # "open"
  BY <1>1 DEF B!Call, PlaybooksCall0, B!Kind, B!Then, PlaybooksSensible, B!Script, B!PlaybooksAssumption, B!Delete,
       B!MayAct
<1> QED BY <1>1, <1>2, PlaybooksSendStep DEF B!Delete, B!MayAct

LEMMA PlaybooksSaveStep == ASSUME B!PlaybooksAssumption, PlaybooksIInv, B!Save PROVE PlaybooksIInv'
<1>1. PICK c : c = B!Call("save", scriptPage.selected, "list", TRUE) OBVIOUS
<1>2. c = [kind |-> "save", id |-> scriptPage.selected, next |-> "list", frees |-> TRUE, sequence |-> 0, text |-> Nil,
           answer |-> Nil]
  BY <1>1 DEF B!Call
<1>3. PICK d : d = [c EXCEPT !.text = scriptPage.text] OBVIOUS
<1>4. d = [kind |-> "save", id |-> scriptPage.selected, next |-> "list", frees |-> TRUE, sequence |-> 0, text |-> scriptPage.text,
           answer |-> Nil]
  BY <1>2, <1>3
<1>5. scriptPage \in PlaybooksPage0 /\ scriptPage.selected \in OwnScript BY PlaybooksTypes DEF PlaybooksSorts,
     PlaybooksIInv, B!Save, B!MayAct
<1>6. scriptPage.text \in B!Text /\ scriptPage.text # Nil /\ scriptPage.text.of = scriptPage.selected
  BY <1>5 DEF PlaybooksIInv, PlaybooksTextOfSelected, PlaybooksPage0
<1>7. d \in PlaybooksCall0 /\ PlaybooksSensible(d) /\ d.kind # "open"
  BY <1>4, <1>5, <1>6 DEF PlaybooksCall0, B!Kind, B!Then, PlaybooksSensible, B!Script, B!PlaybooksAssumption
<1> QED BY <1>1, <1>3, <1>7, PlaybooksSendStep DEF B!Save, B!MayAct

LEMMA PlaybooksServeStep == ASSUME B!PlaybooksAssumption, PlaybooksIInv, NEW c \in scriptCalls, B!Serve(c) PROVE PlaybooksIInv'
<1>1. PICK answer : answer = [ok |-> B!Granted(c), list |-> B!Registered,
                              text |-> IF c.kind = "open" /\ B!Granted(c) THEN B!OnDisk(c.id) ELSE Nil]
  OBVIOUS
<1>2. PICK d : d = [c EXCEPT !.answer = answer] OBVIOUS
<1>3. /\ c.answer = Nil /\ scriptCalls' = (scriptCalls \ {c}) \cup {d} /\ UNCHANGED <<scriptPage, texts>>
      /\ drafts' = IF B!Writes(c) THEN [drafts EXCEPT ![c.id] = B!Written(c)] ELSE drafts
  BY <1>1, <1>2 DEF B!Serve
<1>4. c \in PlaybooksCall0 /\ PlaybooksSensible(c) /\ drafts \in [OwnScript -> B!Text \cup {Nil}] /\ scriptPage \in PlaybooksPage0
  BY PlaybooksTypes DEF PlaybooksSorts, PlaybooksIInv, PlaybooksSensibleCalls
<1>5. \A s \in B!Script : B!OnDisk(s) # Nil => B!OnDisk(s) \in B!Text /\ B!OnDisk(s).of = s
  BY <1>4, PlaybooksBuiltinText DEF B!OnDisk, B!Script, PlaybooksIInv, B!ScriptsKeepTheirText
<1>6. answer \in B!Answer /\ (c.kind = "open" /\ answer.ok => answer.text # Nil /\ answer.text = B!OnDisk(c.id)
                                                            /\ answer.text.of = c.id)
  <2>1. PICK granted : granted = B!Granted(c) OBVIOUS
  <2>2. granted \in BOOLEAN
    <3>1. CASE c.kind = "list" BY <2>1, <3>1 DEF B!Granted
    <3>2. CASE c.kind = "create"
      <4>1. granted = (drafts[c.id] = Nil) BY <2>1, <3>2 DEF B!Granted
      <4> QED BY <4>1
    <3>3. CASE c.kind \in {"open", "save", "delete"}
      <4>1. granted = (c.id \in B!Registered) BY <2>1, <3>3 DEF B!Granted
      <4> QED BY <4>1
    <3> QED BY <1>4, <3>1, <3>2, <3>3 DEF PlaybooksCall0, B!Kind
  <2>3. PICK text0 : text0 = IF c.kind = "open" /\ granted THEN B!OnDisk(c.id) ELSE Nil OBVIOUS
  <2>4. c.kind = "open" /\ granted => B!OnDisk(c.id) # Nil BY <2>1 DEF B!Granted, B!Registered
  <2>5. text0 \in B!Text \cup {Nil} BY <1>4, <1>5, <2>3, <2>4 DEF PlaybooksSensible
  <2>6. answer = [ok |-> granted, list |-> B!Registered, text |-> text0] BY <1>1, <2>1, <2>3
  <2>7. B!Registered \in SUBSET B!Script BY DEF B!Registered
  <2>8. answer \in B!Answer BY <2>2, <2>5, <2>6, <2>7 DEF B!Answer
  <2> QED BY <1>4, <1>5, <2>3, <2>4, <2>6, <2>8 DEF PlaybooksSensible
<1>7. answer # Nil BY <1>6 DEF B!PlaybooksAssumption
<1>8. /\ d \in PlaybooksCall0 /\ d.kind = c.kind /\ d.id = c.id /\ d.next = c.next /\ d.sequence = c.sequence /\ d.text = c.text
      /\ d.answer = answer
  BY <1>2, <1>4, <1>6 DEF PlaybooksCall0
<1>9. PlaybooksSensible(d) BY <1>4, <1>6, <1>8 DEF PlaybooksSensible
<1>10. IsFiniteSet(scriptCalls') /\ Cardinality(scriptCalls') <= MaxCalls
  <2>1. IsFiniteSet(scriptCalls') /\ Cardinality(scriptCalls') <= Cardinality(scriptCalls) BY <1>3, PlaybooksInPlace
  <2>2. Cardinality(scriptCalls') \in Nat BY <2>1, FS_CardinalityType
  <2> QED BY <2>1, <2>2, PlaybooksBounded DEF B!PlaybooksAssumption
<1>11. B!Writes(c) => /\ c.id \in OwnScript /\ B!Written(c) \in B!Text \cup {Nil}
                      /\ (B!Written(c) # Nil => B!Written(c).of = c.id)
                      /\ (c.kind \in {"save", "delete"} \/ drafts[c.id] = Nil)
  <2>1. B!Writes(c) => c.kind \in {"create", "save", "delete"} /\ c.id \in OwnScript BY <1>4 DEF B!Writes,
       PlaybooksSensible
  <2>2. CASE c.kind = "create"
    <3>1. [of |-> c.id, n |-> 0] \in B!Text \/ c.id \notin OwnScript BY DEF B!Text, B!Script, B!PlaybooksAssumption
    <3> QED BY <2>1, <2>2, <3>1 DEF B!Written, B!Writes, B!Granted
  <2>3. CASE c.kind = "save" BY <1>4, <2>1, <2>3 DEF B!Written, PlaybooksSensible, PlaybooksCall0
  <2>4. CASE c.kind = "delete" BY <2>1, <2>4 DEF B!Written
  <2> QED BY <2>1, <2>2, <2>3, <2>4
<1>12. drafts' \in [OwnScript -> B!Text \cup {Nil}] BY <1>3, <1>4, <1>11
<1>13. B!ScriptsKeepTheirText' BY <1>3, <1>4, <1>11 DEF PlaybooksIInv, B!ScriptsKeepTheirText
<1>14. B!TypeOK'
  <2>1. \A x \in scriptCalls' : x \in PlaybooksCall0 BY <1>3, <1>8, PlaybooksTypes DEF PlaybooksSorts, PlaybooksIInv
  <2> QED BY <1>3, <1>10, <1>12, <2>1, PlaybooksTypes DEF PlaybooksIInv, PlaybooksSorts, PlaybooksPage0,
       PlaybooksCall0
<1>15. PlaybooksSensibleCalls' BY <1>3, <1>9, <1>10 DEF PlaybooksIInv, PlaybooksSensibleCalls, PlaybooksSensible
<1>16. PlaybooksTextOfSelected' BY <1>3 DEF PlaybooksIInv, PlaybooksTextOfSelected
<1>17. PlaybooksOneCurrent' BY <1>3, <1>8 DEF PlaybooksIInv, PlaybooksOneCurrent
<1>18. PlaybooksNoneAhead' BY <1>3, <1>8 DEF PlaybooksIInv, PlaybooksNoneAhead
<1>19. ASSUME NEW s \in OwnScript, NEW v, v # Nil, PlaybooksCovered(s, v) PROVE PlaybooksCovered(s, v)'
  <2>1. CASE \E x \in scriptCalls : PlaybooksMends(x, s)
    <3>1. PICK x \in scriptCalls : PlaybooksMends(x, s) BY <2>1
    <3>2. CASE x = c
      <4>1. PlaybooksMends(d, s) BY <1>3, <1>8, <3>1, <3>2 DEF PlaybooksMends
      <4> QED BY <1>3, <4>1 DEF PlaybooksCovered, PlaybooksMends
    <3> QED BY <1>3, <3>1, <3>2 DEF PlaybooksCovered, PlaybooksMends
  <2>2. CASE drafts[s] = v
    <3>1. CASE drafts'[s] = drafts[s] BY <2>2, <3>1 DEF PlaybooksCovered
    <3>2. CASE drafts'[s] # drafts[s]
      <4>1. B!Writes(c) /\ c.id = s BY <1>3, <1>4, <3>2
      <4>2. c.kind \in {"save", "delete"} /\ B!Granted(c) BY <1>11, <1>19, <2>2, <4>1 DEF B!Writes
      <4>3. PlaybooksMends(d, s) BY <1>1, <1>7, <1>8, <4>1, <4>2 DEF PlaybooksMends
      <4> QED BY <1>3, <4>3 DEF PlaybooksCovered, PlaybooksMends
    <3> QED BY <3>1, <3>2
  <2> QED BY <1>19, <2>1, <2>2 DEF PlaybooksCovered
<1>20. PlaybooksAnswersCovered'
  <2>1. ASSUME NEW x \in scriptCalls', x.kind = "open", B!Current(x)', x.id \in OwnScript, x.answer # Nil, x.answer.ok
        PROVE  PlaybooksCovered(x.id, x.answer.text)'
    <3>1. CASE x = d
      <4>1. ~ B!Writes(c) /\ c.kind = "open" BY <1>8, <2>1, <3>1 DEF B!Writes
      <4>2. answer.text = drafts[x.id] BY <1>6, <1>8, <2>1, <3>1, PlaybooksBuiltinText DEF B!OnDisk
      <4> QED BY <1>3, <1>8, <3>1, <4>1, <4>2 DEF PlaybooksCovered
    <3>2. CASE x # d
      <4>1. x \in scriptCalls /\ B!Current(x) BY <1>3, <2>1, <3>2 DEF B!Current
      <4>2. x.answer.text # Nil BY <2>1, <4>1 DEF PlaybooksIInv, PlaybooksSensibleCalls, PlaybooksSensible
      <4> QED BY <1>19, <2>1, <4>1, <4>2 DEF PlaybooksIInv, PlaybooksAnswersCovered
    <3> QED BY <3>1, <3>2
  <2> QED BY <2>1 DEF PlaybooksAnswersCovered
<1>21. PlaybooksPageCovered'
  <2>1. PlaybooksInFlight => PlaybooksInFlight' BY <1>3, <1>8 DEF PlaybooksInFlight, B!Current
  <2> QED BY <1>3, <1>19, <2>1 DEF PlaybooksIInv, PlaybooksPageCovered, PlaybooksTextOfSelected
<1> QED BY <1>13, <1>14, <1>15, <1>16, <1>17, <1>18, <1>20, <1>21 DEF PlaybooksIInv

(* A call that nothing waits for any more is gone, and no other took its    *)
(* place; the page shows what it did.                                       *)
LEMMA PlaybooksDropStep ==
  ASSUME B!PlaybooksAssumption, PlaybooksIInv, NEW c \in scriptCalls, scriptCalls' = scriptCalls \ {c}, UNCHANGED <<drafts, texts>>,
         scriptPage' \in PlaybooksPage0, scriptPage'.selected = scriptPage.selected, scriptPage'.text = scriptPage.text, scriptPage'.saved = scriptPage.saved,
         scriptPage'.sequence = scriptPage.sequence, scriptPage.failed => scriptPage'.failed,
         \A s \in OwnScript : ~ PlaybooksMends(c, s), ~ (c.kind = "open" /\ B!Current(c)) \/ scriptPage'.failed
  PROVE  PlaybooksIInv'
<1>1. IsFiniteSet(scriptCalls') /\ Cardinality(scriptCalls') <= MaxCalls
  <2>1. IsFiniteSet(scriptCalls') /\ Cardinality(scriptCalls') <= Cardinality(scriptCalls) BY PlaybooksOneLess
  <2>2. Cardinality(scriptCalls') \in Nat BY <2>1, FS_CardinalityType
  <2> QED BY <2>1, <2>2, PlaybooksBounded DEF B!PlaybooksAssumption
<1>2. B!TypeOK'
  <2>1. \A x \in scriptCalls' : x \in PlaybooksCall0 BY PlaybooksTypes DEF PlaybooksSorts, PlaybooksIInv
  <2> QED BY <1>1, <2>1, PlaybooksTypes DEF PlaybooksIInv, PlaybooksSorts, PlaybooksPage0, PlaybooksCall0
<1>3. PlaybooksSensibleCalls' BY <1>1 DEF PlaybooksIInv, PlaybooksSensibleCalls, PlaybooksSensible
<1>4. PlaybooksTextOfSelected' BY DEF PlaybooksIInv, PlaybooksTextOfSelected
<1>5. PlaybooksOneCurrent' /\ B!ScriptsKeepTheirText' BY DEF PlaybooksIInv, PlaybooksOneCurrent,
     B!ScriptsKeepTheirText
<1>6. PlaybooksNoneAhead' BY DEF PlaybooksIInv, PlaybooksNoneAhead
<1>7. ASSUME NEW s \in OwnScript, NEW v, PlaybooksCovered(s, v) PROVE PlaybooksCovered(s, v)'
  BY <1>7 DEF PlaybooksCovered, PlaybooksMends
<1>8. PlaybooksAnswersCovered' BY <1>7 DEF PlaybooksIInv, PlaybooksAnswersCovered, B!Current
<1>9. PlaybooksPageCovered'
  <2>1. ~ scriptPage'.failed => (PlaybooksInFlight => PlaybooksInFlight') BY DEF PlaybooksInFlight, B!Current
  <2> QED BY <1>7, <2>1 DEF PlaybooksIInv, PlaybooksPageCovered
<1> QED BY <1>2, <1>3, <1>4, <1>5, <1>6, <1>8, <1>9 DEF PlaybooksIInv

LEMMA PlaybooksSeeOpenedStep == ASSUME B!PlaybooksAssumption, PlaybooksIInv, NEW c \in scriptCalls, B!SeeOpened(c) PROVE PlaybooksIInv'
<1>1. /\ c.kind = "open" /\ c.answer # Nil /\ scriptCalls' = scriptCalls \ {c} /\ UNCHANGED <<drafts, texts>>
  BY DEF B!SeeOpened
<1>2. c \in PlaybooksCall0 /\ PlaybooksSensible(c) /\ scriptPage \in PlaybooksPage0 BY PlaybooksTypes
   DEF PlaybooksSorts, PlaybooksIInv, PlaybooksSensibleCalls
<1>3. c.answer \in B!Answer /\ c.answer.ok \in BOOLEAN BY <1>1, <1>2 DEF PlaybooksCall0, B!Answer
<1>4. \A s \in OwnScript : ~ PlaybooksMends(c, s) BY <1>1 DEF PlaybooksMends
<1>5. CASE B!Current(c) /\ c.answer.ok
  <2>1. scriptPage' = [[scriptPage EXCEPT !.selected = c.id, !.text = c.answer.text, !.saved = c.answer.text] EXCEPT !.busy = FALSE]
    BY <1>5 DEF B!SeeOpened
  <2>2. c.id \in B!Script /\ c.answer.text \in B!Text /\ c.answer.text # Nil /\ c.answer.text.of = c.id
    BY <1>1, <1>2, <1>3, <1>5 DEF PlaybooksSensible, B!Answer
  <2>3. /\ scriptPage' \in PlaybooksPage0 /\ scriptPage'.selected = c.id /\ scriptPage'.text = c.answer.text /\ scriptPage'.saved = c.answer.text
        /\ scriptPage'.failed = scriptPage.failed /\ scriptPage'.sequence = scriptPage.sequence
    BY <1>2, <2>1, <2>2 DEF PlaybooksPage0
  <2>4. IsFiniteSet(scriptCalls') /\ Cardinality(scriptCalls') <= MaxCalls
    <3>1. IsFiniteSet(scriptCalls') /\ Cardinality(scriptCalls') <= Cardinality(scriptCalls) BY <1>1, PlaybooksOneLess
    <3>2. Cardinality(scriptCalls') \in Nat BY <3>1, FS_CardinalityType
    <3> QED BY <3>1, <3>2, PlaybooksBounded DEF B!PlaybooksAssumption
  <2>5. B!TypeOK'
    <3>1. \A x \in scriptCalls' : x \in PlaybooksCall0 BY <1>1, PlaybooksTypes DEF PlaybooksSorts, PlaybooksIInv
    <3> QED BY <1>1, <2>3, <2>4, <3>1, PlaybooksTypes DEF PlaybooksIInv, PlaybooksSorts, PlaybooksPage0,
         PlaybooksCall0
  <2>6. PlaybooksSensibleCalls' BY <1>1, <2>4 DEF PlaybooksIInv, PlaybooksSensibleCalls, PlaybooksSensible
  <2>7. PlaybooksTextOfSelected' BY <2>2, <2>3 DEF PlaybooksTextOfSelected
  <2>8. PlaybooksOneCurrent' /\ B!ScriptsKeepTheirText' BY <1>1 DEF PlaybooksIInv, PlaybooksOneCurrent,
       B!ScriptsKeepTheirText
  <2>9. PlaybooksNoneAhead' BY <1>1, <2>3 DEF PlaybooksIInv, PlaybooksNoneAhead
  <2>10. ASSUME NEW s \in OwnScript, NEW v, PlaybooksCovered(s, v) PROVE PlaybooksCovered(s, v)'
    BY <1>1, <1>4, <2>10 DEF PlaybooksCovered, PlaybooksMends
  <2>11. PlaybooksAnswersCovered' BY <1>1, <2>3, <2>10 DEF PlaybooksIInv, PlaybooksAnswersCovered, B!Current
  <2>12. PlaybooksPageCovered' BY <1>1, <1>5, <2>3, <2>10 DEF PlaybooksIInv, PlaybooksAnswersCovered,
       PlaybooksPageCovered
  <2> QED BY <2>5, <2>6, <2>7, <2>8, <2>9, <2>11, <2>12 DEF PlaybooksIInv
<1>6. CASE ~ (B!Current(c) /\ c.answer.ok)
  <2>1. PICK failed : failed = (scriptPage.failed \/ B!Current(c)) OBVIOUS
  <2>2. failed \in BOOLEAN BY <2>1
  <2>3. \/ scriptPage' = [[scriptPage EXCEPT !.failed = failed] EXCEPT !.busy = FALSE]
        \/ scriptPage' = [scriptPage EXCEPT !.failed = failed]
    BY <1>6, <2>1 DEF B!SeeOpened
  <2>4. /\ scriptPage' \in PlaybooksPage0 /\ scriptPage'.selected = scriptPage.selected /\ scriptPage'.text = scriptPage.text /\ scriptPage'.saved = scriptPage.saved
        /\ scriptPage'.failed = failed /\ scriptPage'.sequence = scriptPage.sequence
    BY <1>2, <2>2, <2>3 DEF PlaybooksPage0
  <2> QED BY <1>1, <1>4, <2>1, <2>4, PlaybooksDropStep
<1> QED BY <1>5, <1>6

LEMMA PlaybooksSeeListStep == ASSUME B!PlaybooksAssumption, PlaybooksIInv, NEW c \in scriptCalls, B!SeeList(c) PROVE PlaybooksIInv'
<1>1. c \in PlaybooksCall0 /\ PlaybooksSensible(c) /\ scriptPage \in PlaybooksPage0 BY PlaybooksTypes
   DEF PlaybooksSorts, PlaybooksIInv, PlaybooksSensibleCalls
<1>2. c.kind = "list" /\ c.answer # Nil /\ UNCHANGED <<drafts, texts>> BY DEF B!SeeList
<1>3. PICK list : list = IF c.answer.ok THEN c.answer.list ELSE scriptPage.list OBVIOUS
<1>4. list \in SUBSET B!Script BY <1>1, <1>2, <1>3 DEF PlaybooksCall0, B!Answer, PlaybooksPage0
<1>5. PICK listed0 : listed0 = [scriptPage EXCEPT !.list = list, !.busy = FALSE] OBVIOUS
<1>6. /\ listed0 \in PlaybooksPage0 /\ listed0.selected = scriptPage.selected /\ listed0.text = scriptPage.text /\ listed0.saved = scriptPage.saved
      /\ listed0.failed = scriptPage.failed /\ listed0.sequence = scriptPage.sequence /\ listed0.choice = scriptPage.choice
  BY <1>1, <1>4, <1>5 DEF PlaybooksPage0
<1>7. CASE c.next = "open" \/ (c.next = "choose" /\ c.id # scriptPage.choice)
  <2>1. PICK n : n = scriptPage.sequence + 1 OBVIOUS
  <2>2. scriptPage.sequence < MaxOpens /\ n \in 0 .. MaxOpens
    BY <1>1, <1>7, <2>1 DEF B!SeeList, PlaybooksPage0, B!PlaybooksAssumption
  <2>3. PICK choice : choice = IF c.next = "choose" THEN c.id ELSE listed0.choice OBVIOUS
  <2>4. c.id \in B!Script /\ choice \in B!Script BY <1>1, <1>2, <1>6, <1>7, <2>3 DEF PlaybooksSensible, PlaybooksPage0
  <2>5. scriptPage' = [listed0 EXCEPT !.choice = choice, !.busy = TRUE, !.failed = FALSE, !.sequence = n]
    BY <1>3, <1>5, <1>6, <1>7, <2>1, <2>3 DEF B!SeeList
  <2>6. /\ scriptPage' \in PlaybooksPage0 /\ scriptPage'.selected = scriptPage.selected /\ scriptPage'.text = scriptPage.text /\ scriptPage'.saved = scriptPage.saved
        /\ scriptPage'.sequence = scriptPage.sequence + 1
    BY <1>6, <2>1, <2>2, <2>4, <2>5 DEF PlaybooksPage0
  <2>7. PICK frees : frees = (c.next = "open") OBVIOUS
  <2>8. PICK o : o = B!Opening(c.id, frees, scriptPage.sequence + 1) OBVIOUS
  <2>9. scriptCalls' = (scriptCalls \ {c}) \cup {o} BY <1>7, <2>7, <2>8 DEF B!SeeList
  <2>10. IsFiniteSet(scriptCalls') /\ Cardinality(scriptCalls') <= MaxCalls
    <3>1. IsFiniteSet(scriptCalls') /\ Cardinality(scriptCalls') <= Cardinality(scriptCalls) BY <2>9, PlaybooksInPlace
    <3>2. Cardinality(scriptCalls') \in Nat BY <3>1, FS_CardinalityType
    <3> QED BY <3>1, <3>2, PlaybooksBounded DEF B!PlaybooksAssumption
  <2>11. \A x \in scriptCalls \ {c} : x \in PlaybooksCall0 /\ PlaybooksSensible(x) BY PlaybooksTypes
     DEF PlaybooksSorts, PlaybooksIInv, PlaybooksSensibleCalls
  <2>12. PlaybooksTextOfSelected' BY <2>6 DEF PlaybooksIInv, PlaybooksTextOfSelected
  <2>13. frees \in BOOLEAN BY <2>7
  <2> QED BY <1>2, <2>2, <2>4, <2>6, <2>8, <2>9, <2>10, <2>11, <2>12, <2>13, PlaybooksOpenStep
<1>8. CASE ~ (c.next = "open" \/ (c.next = "choose" /\ c.id # scriptPage.choice))
  <2>1. scriptPage' = listed0 BY <1>3, <1>5, <1>8 DEF B!SeeList
  <2>2. scriptCalls' = (scriptCalls \ {c}) \cup {} BY <1>8 DEF B!SeeList
  <2>3. \A s \in OwnScript : ~ PlaybooksMends(c, s) BY <1>2, <1>8 DEF PlaybooksMends
  <2> QED BY <1>2, <1>6, <2>1, <2>2, <2>3, PlaybooksDropStep
<1> QED BY <1>7, <1>8

LEMMA PlaybooksSeeDoneStep == ASSUME B!PlaybooksAssumption, PlaybooksIInv, NEW c \in scriptCalls, B!SeeDone(c) PROVE PlaybooksIInv'
<1>1. c \in PlaybooksCall0 /\ PlaybooksSensible(c) /\ scriptPage \in PlaybooksPage0 BY PlaybooksTypes
   DEF PlaybooksSorts, PlaybooksIInv, PlaybooksSensibleCalls
<1>2. /\ c.kind \in {"save", "create", "delete"} /\ c.answer # Nil /\ UNCHANGED <<drafts, texts>>
      /\ c.id \in OwnScript /\ c.answer \in B!Answer
  BY <1>1 DEF B!SeeDone, PlaybooksSensible, PlaybooksCall0
<1>3. c.id \in B!Script /\ c.id # Nil BY <1>2 DEF B!Script, B!PlaybooksAssumption
<1>4. PICK then : then = IF c.kind = "save" THEN "open" ELSE IF c.kind = "create" THEN "choose" ELSE "nothing" OBVIOUS
<1>5. PICK d : d = B!Call("list", c.id, then, TRUE) OBVIOUS
<1>6. d = [kind |-> "list", id |-> c.id, next |-> then, frees |-> TRUE, sequence |-> 0, text |-> Nil, answer |-> Nil]
  BY <1>5 DEF B!Call
<1>7. /\ d \in PlaybooksCall0 /\ d.kind = "list" /\ d.id = c.id /\ d.next = then
  BY <1>3, <1>4, <1>6 DEF PlaybooksCall0, B!Kind, B!Then, B!PlaybooksAssumption
<1>8. PlaybooksSensible(d) BY <1>3, <1>7 DEF PlaybooksSensible
<1>9. CASE ~ c.answer.ok
  <2>1. scriptPage' = [scriptPage EXCEPT !.busy = FALSE] /\ scriptCalls' = scriptCalls \ {c} BY <1>9 DEF B!SeeDone
  <2>2. /\ scriptPage' \in PlaybooksPage0 /\ scriptPage'.selected = scriptPage.selected /\ scriptPage'.text = scriptPage.text /\ scriptPage'.saved = scriptPage.saved
        /\ scriptPage'.failed = scriptPage.failed /\ scriptPage'.sequence = scriptPage.sequence
    BY <1>1, <2>1 DEF PlaybooksPage0
  <2>3. \A s \in OwnScript : ~ PlaybooksMends(c, s) BY <1>2, <1>9 DEF PlaybooksMends
  <2> QED BY <1>2, <2>1, <2>2, <2>3, PlaybooksDropStep
<1>10. CASE c.answer.ok /\ c.kind # "delete"
  <2>1. scriptPage' = [scriptPage EXCEPT !.busy = TRUE] /\ scriptCalls' = (scriptCalls \ {c}) \cup {d} BY <1>4,
       <1>5, <1>10 DEF B!SeeDone
  <2>2. /\ scriptPage' \in PlaybooksPage0 /\ scriptPage'.selected = scriptPage.selected /\ scriptPage'.text = scriptPage.text /\ scriptPage'.saved = scriptPage.saved
        /\ scriptPage'.failed = scriptPage.failed /\ scriptPage'.sequence = scriptPage.sequence
    BY <1>1, <2>1 DEF PlaybooksPage0
  <2>3. IsFiniteSet(scriptCalls') /\ Cardinality(scriptCalls') <= MaxCalls
    <3>1. IsFiniteSet(scriptCalls') /\ Cardinality(scriptCalls') <= Cardinality(scriptCalls) BY <2>1, PlaybooksInPlace
    <3>2. Cardinality(scriptCalls') \in Nat BY <3>1, FS_CardinalityType
    <3> QED BY <3>1, <3>2, PlaybooksBounded DEF B!PlaybooksAssumption
  <2>4. B!TypeOK'
    <3>1. \A x \in scriptCalls' : x \in PlaybooksCall0 BY <1>7, <2>1, PlaybooksTypes DEF PlaybooksSorts, PlaybooksIInv
    <3> QED BY <1>2, <2>2, <2>3, <3>1, PlaybooksTypes DEF PlaybooksIInv, PlaybooksSorts, PlaybooksPage0,
         PlaybooksCall0
  <2>5. PlaybooksSensibleCalls' BY <1>8, <2>1, <2>3 DEF PlaybooksIInv, PlaybooksSensibleCalls, PlaybooksSensible
  <2>6. PlaybooksTextOfSelected' BY <2>2 DEF PlaybooksIInv, PlaybooksTextOfSelected
  <2>7. PlaybooksOneCurrent' /\ B!ScriptsKeepTheirText' BY <1>2, <1>7, <2>1 DEF PlaybooksIInv, PlaybooksOneCurrent,
       B!ScriptsKeepTheirText
  <2>8. PlaybooksNoneAhead' BY <1>7, <2>1, <2>2 DEF PlaybooksIInv, PlaybooksNoneAhead
  <2>9. ASSUME NEW s \in OwnScript, NEW v, PlaybooksCovered(s, v) PROVE PlaybooksCovered(s, v)'
    <3>1. PlaybooksMends(c, s) => PlaybooksMends(d, s) BY <1>2, <1>4, <1>7, <1>10 DEF PlaybooksMends
    <3> QED BY <1>2, <2>1, <2>9, <3>1 DEF PlaybooksCovered, PlaybooksMends
  <2>10. PlaybooksAnswersCovered' BY <1>7, <2>1, <2>2, <2>9 DEF PlaybooksIInv, PlaybooksAnswersCovered, B!Current
  <2>11. PlaybooksPageCovered'
    <3>1. PlaybooksInFlight => PlaybooksInFlight' BY <1>2, <2>1, <2>2 DEF PlaybooksInFlight, B!Current
    <3> QED BY <2>2, <2>9, <3>1 DEF PlaybooksIInv, PlaybooksPageCovered
  <2> QED BY <2>4, <2>5, <2>6, <2>7, <2>8, <2>10, <2>11 DEF PlaybooksIInv
<1>11. CASE c.answer.ok /\ c.kind = "delete"
  <2>1. PICK n : n = scriptPage.sequence + 1 OBVIOUS
  <2>2. B!Room /\ scriptPage.sequence < MaxOpens /\ n \in 0 .. MaxOpens
    BY <1>1, <1>11, <2>1 DEF B!SeeDone, PlaybooksPage0, B!PlaybooksAssumption
  <2>3. scriptPage' = [scriptPage EXCEPT !.choice = Builtin, !.selected = Nil, !.text = Nil,
                               !.busy = TRUE, !.failed = FALSE, !.sequence = n]
    BY <1>11, <2>1 DEF B!SeeDone
  <2>4. scriptPage' \in PlaybooksPage0 /\ scriptPage'.selected = Nil /\ scriptPage'.sequence = scriptPage.sequence + 1
    BY <1>1, <2>1, <2>2, <2>3, PlaybooksBuiltinText DEF PlaybooksPage0
  <2>5. PICK base : base = (scriptCalls \ {c}) \cup {d} OBVIOUS
  <2>6. PICK o : o = B!Opening(Builtin, FALSE, scriptPage.sequence + 1) OBVIOUS
  <2>7. scriptCalls' = base \cup {o} BY <1>4, <1>5, <1>11, <2>5, <2>6 DEF B!SeeDone
  <2>8. IsFiniteSet(scriptCalls') /\ Cardinality(scriptCalls') <= MaxCalls
    <3>1. IsFiniteSet(base) /\ Cardinality(base) <= Cardinality(scriptCalls) BY <2>5, PlaybooksInPlace
    <3>2. Cardinality(base) \in Nat BY <3>1, FS_CardinalityType
    <3>3. /\ IsFiniteSet(base \cup {o})
          /\ Cardinality(base \cup {o}) = Cardinality(base) \/ Cardinality(base \cup {o}) = Cardinality(base) + 1
      BY <3>1, FS_AddElement
    <3> QED BY <2>2, <2>7, <3>1, <3>2, <3>3, PlaybooksBounded, PlaybooksRoomLeft DEF B!PlaybooksAssumption
  <2>9. \A x \in base : x \in PlaybooksCall0 /\ PlaybooksSensible(x) /\ (x.kind = "open" => x \in scriptCalls)
    BY <1>7, <1>8, <2>5, PlaybooksTypes DEF PlaybooksSorts, PlaybooksIInv, PlaybooksSensibleCalls
  <2>10. PlaybooksTextOfSelected' BY <2>4 DEF PlaybooksTextOfSelected, B!PlaybooksAssumption, B!Script
  <2> QED BY <1>2, <2>2, <2>4, <2>6, <2>7, <2>8, <2>9, <2>10, PlaybooksBuiltinText, PlaybooksOpenStep
<1> QED BY <1>9, <1>10, <1>11

LEMMA PlaybooksStep == ASSUME B!PlaybooksAssumption, PlaybooksIInv, B!Next PROVE PlaybooksIInv'
BY PlaybooksChooseStep, PlaybooksCreateStep, PlaybooksTypeStep, PlaybooksRefreshStep, PlaybooksSaveStep,
     PlaybooksDeleteStep, PlaybooksServeStep, PlaybooksSeeOpenedStep, PlaybooksSeeListStep,
   PlaybooksSeeDoneStep DEF B!Next

LEMMA PlaybooksStutter == ASSUME PlaybooksIInv, UNCHANGED B!vars PROVE PlaybooksIInv'
BY DEF PlaybooksIInv, B!vars, B!TypeOK, PlaybooksSensibleCalls, PlaybooksSensible, PlaybooksTextOfSelected,
     PlaybooksOneCurrent, PlaybooksNoneAhead, B!ScriptsKeepTheirText,
   PlaybooksAnswersCovered, PlaybooksPageCovered, PlaybooksInFlight, B!Current, PlaybooksCovered, PlaybooksMends

LEMMA PlaybooksClean == ASSUME PlaybooksIInv PROVE B!CleanMeansSaved
<1>1. SUFFICES ASSUME scriptCalls = {}, ~ scriptPage.failed, scriptPage.selected \in OwnScript, scriptPage.text = scriptPage.saved
               PROVE  drafts[scriptPage.selected] = scriptPage.text
  BY DEF B!CleanMeansSaved
<1>2. PlaybooksCovered(scriptPage.selected, scriptPage.saved) BY <1>1 DEF PlaybooksIInv, PlaybooksPageCovered,
     PlaybooksInFlight
<1> QED BY <1>1, <1>2 DEF PlaybooksCovered

-----------------------------------------------------------------------------
(* The Debian snapshots                                                     *)

(* A manifest keeps the date at which its bytes were first recorded.        *)
TrackerDatedFirst ==
  \A d \in Digest : /\ manifest[d] # Nil => captured[d] = manifest[d].says.at
                    /\ manifest[d] = Nil => captured[d] = Nil

(* The manifest is there when its temporary name is removed.                *)
TrackerManifestFirst == (import # T!Idle /\ import.step = "unlinkManifest") => manifest[import.digest] # Nil

TrackerPreviewDated == comparison # Nil => captured[comparison.digest] # Nil

TrackerIInv == T!TypeOK /\ TrackerDatedFirst /\ TrackerManifestFirst /\ TrackerPreviewDated /\ T!PreviewsStayYoung

TrackerPublishing == [step : {"data", "unlinkData", "manifest", "unlinkManifest", "reading"},
               digest : Digest, says : T!Claims, own : BOOLEAN]
TrackerFetching == [step : {"fetching"}, says : T!Claims]
TrackerImportOK == import = T!Idle \/ import \in TrackerFetching \/ import \in TrackerPublishing
TrackerFormOK == form \in [Session -> [current : Digest \cup {Nil}, candidate : Digest \cup {Nil}] \cup {Nil}]
TrackerPreviewOK == comparison = Nil \/ comparison \in [digest : Digest, at : T!Time, intact : BOOLEAN]

TrackerSorts ==
  /\ hour \in T!Time /\ data \in [Digest -> {"absent", "linked", "stored"}]
  /\ manifest \in [Digest -> T!Manifest \cup {Nil}] /\ tampered \subseteq Digest
  /\ latest \in Digest \cup {Nil} /\ selected \in Digest \cup {Nil}
  /\ TrackerImportOK /\ TrackerFormOK /\ scan \in T!Time \cup {Nil} /\ TrackerPreviewOK
  /\ captured \in [Digest -> T!Time \cup {Nil}]

LEMMA TrackerTypes == (T!TypeOK <=> TrackerSorts) /\ (T!TypeOK' <=> TrackerSorts')
BY DEF T!TypeOK, TrackerSorts, TrackerImportOK, TrackerFormOK, TrackerPreviewOK, TrackerPublishing, TrackerFetching

LEMMA TrackerSteps ==
  /\ T!Idle.step = "idle"
  /\ \A i \in TrackerFetching : i.step = "fetching" /\ i # T!Idle
  /\ \A i \in TrackerPublishing : i.step \in {"data", "unlinkData", "manifest", "unlinkManifest", "reading"} /\ i # T!Idle
BY DEF T!Idle, TrackerFetching, TrackerPublishing

LEMMA TrackerInitIInv == ASSUME T!TrackerAssumption, T!Init PROVE TrackerIInv
<1>1. T!TypeOK
  <2>1. hour \in T!Time BY DEF T!Init, T!Time, T!TrackerAssumption
  <2> QED BY <2>1, TrackerTypes DEF TrackerSorts, T!Init, TrackerImportOK, TrackerFormOK, TrackerPreviewOK
<1>2. TrackerDatedFirst BY DEF T!Init, TrackerDatedFirst
<1> QED BY <1>1, <1>2 DEF T!Init, TrackerIInv, TrackerManifestFirst, TrackerPreviewDated, T!PreviewsStayYoung

(* The steps that leave the store and the report alone.                     *)
LEMMA TrackerOtherStep ==
  ASSUME T!TrackerAssumption, TrackerIInv, UNCHANGED <<manifest, captured, comparison>>, T!TypeOK',
         import' # T!Idle /\ import'.step = "unlinkManifest" => import' = import
  PROVE  TrackerIInv'
<1>1. TrackerDatedFirst' /\ TrackerPreviewDated' /\ T!PreviewsStayYoung' BY DEF TrackerIInv, TrackerDatedFirst,
     TrackerPreviewDated, T!PreviewsStayYoung
<1>2. TrackerManifestFirst' BY DEF TrackerIInv, TrackerManifestFirst
<1> QED BY <1>1, <1>2 DEF TrackerIInv

(* An import goes on to its next step.                                      *)
LEMMA TrackerGoStep ==
  ASSUME T!TypeOK, NEW step \in {"unlinkData", "manifest", "unlinkManifest", "reading"}, NEW own \in BOOLEAN,
         import \in TrackerPublishing, T!Go(step, own)
  PROVE  /\ import' \in TrackerPublishing /\ import'.step = step /\ import'.digest = import.digest /\ import'.says = import.says
         /\ import'.own = own /\ import' # T!Idle
<1>1. import' = [import EXCEPT !.step = step, !.own = own] BY DEF T!Go
<1>2. PICK i : i = [import EXCEPT !.step = step, !.own = own] OBVIOUS
<1>3. i \in TrackerPublishing /\ i.step = step /\ i.digest = import.digest /\ i.says = import.says /\ i.own = own
  BY <1>2 DEF TrackerPublishing
<1> QED BY <1>1, <1>2, <1>3, TrackerSteps

LEMMA TrackerImportStep ==
  ASSUME T!TrackerAssumption, TrackerIInv,
         \/ \E pinned \in BOOLEAN : T!BeginImport(pinned)
         \/ \E d \in Digest : T!Fetched(d)
         \/ T!FetchFails \/ T!LinkData \/ T!UnlinkData \/ T!FinishImport
  PROVE  TrackerIInv'
<1>1. T!TypeOK /\ TrackerImportOK BY TrackerTypes DEF TrackerSorts, TrackerIInv
<1>2. ASSUME NEW pinned \in BOOLEAN, T!BeginImport(pinned) PROVE TrackerIInv'
  <2>1. import' = [step |-> "fetching", says |-> [at |-> hour, pinned |-> pinned]] BY <1>2 DEF T!BeginImport
  <2>2. import' \in TrackerFetching BY <1>1, <2>1 DEF TrackerFetching, T!Claims, T!TypeOK
  <2>3. T!TypeOK' BY <1>1, <1>2, <2>2, TrackerTypes DEF TrackerSorts, T!BeginImport, T!store, TrackerImportOK,
       TrackerFormOK, TrackerPreviewOK
  <2> QED BY <1>2, <2>1, <2>3, TrackerOtherStep DEF T!BeginImport, T!store
<1>3. ASSUME NEW d \in Digest, T!Fetched(d) PROVE TrackerIInv'
  <2>1. import \in TrackerFetching BY <1>1, <1>3, TrackerSteps DEF T!Fetched, TrackerImportOK
  <2>2. import' = [step |-> "data", digest |-> d, says |-> import.says, own |-> FALSE] BY <1>3 DEF T!Fetched
  <2>3. import' \in TrackerPublishing BY <2>1, <2>2 DEF TrackerFetching, TrackerPublishing
  <2>4. T!TypeOK' BY <1>1, <1>3, <2>3, TrackerTypes DEF TrackerSorts, T!Fetched, T!store, TrackerImportOK,
       TrackerFormOK, TrackerPreviewOK
  <2> QED BY <1>3, <2>2, <2>4, TrackerOtherStep DEF T!Fetched, T!store
<1>4. CASE T!FetchFails
  <2>1. T!TypeOK' BY <1>1, <1>4, TrackerTypes DEF TrackerSorts, T!FetchFails, T!store, TrackerImportOK,
       TrackerFormOK, TrackerPreviewOK
  <2> QED BY <1>4, <2>1, TrackerOtherStep DEF T!FetchFails, T!store
<1>5. CASE T!LinkData
  <2>1. import \in TrackerPublishing BY <1>1, <1>5, TrackerSteps DEF T!LinkData, TrackerImportOK
  <2>2. PICK d : d = import.digest OBVIOUS
  <2>3. PICK own : own = (data[d] = "absent") OBVIOUS
  <2>4. own \in BOOLEAN /\ d \in Digest BY <2>1, <2>2, <2>3 DEF TrackerPublishing
  <2>5. T!Go("unlinkData", own) BY <1>5, <2>2, <2>3 DEF T!LinkData
  <2>6. import' \in TrackerPublishing /\ import'.step = "unlinkData" BY <1>1, <2>1, <2>4, <2>5, TrackerGoStep
  <2>7. data' \in [Digest -> {"absent", "linked", "stored"}]
    <3>1. data' = data \/ data' = [data EXCEPT ![d] = "linked"] BY <1>5, <2>2 DEF T!LinkData
    <3> QED BY <1>1, <3>1 DEF T!TypeOK
  <2>8. T!TypeOK' BY <1>1, <1>5, <2>6, <2>7, TrackerTypes DEF TrackerSorts, T!LinkData, TrackerImportOK,
       TrackerFormOK, TrackerPreviewOK
  <2> QED BY <1>5, <2>6, <2>8, TrackerOtherStep DEF T!LinkData
<1>6. CASE T!UnlinkData
  <2>1. import \in TrackerPublishing BY <1>1, <1>6, TrackerSteps DEF T!UnlinkData, TrackerImportOK
  <2>2. T!Go("manifest", FALSE) BY <1>6 DEF T!UnlinkData
  <2>3. import' \in TrackerPublishing /\ import'.step = "manifest" BY <1>1, <2>1, <2>2, TrackerGoStep
  <2>4. data' \in [Digest -> {"absent", "linked", "stored"}]
    <3>1. data' = data \/ data' = [data EXCEPT ![import.digest] = "stored"] BY <1>6 DEF T!UnlinkData
    <3> QED BY <1>1, <3>1 DEF T!TypeOK
  <2>5. T!TypeOK' BY <1>1, <1>6, <2>3, <2>4, TrackerTypes DEF TrackerSorts, T!UnlinkData, TrackerImportOK,
       TrackerFormOK, TrackerPreviewOK
  <2> QED BY <1>6, <2>3, <2>5, TrackerOtherStep DEF T!UnlinkData
<1>7. CASE T!FinishImport
  <2>1. import \in TrackerPublishing BY <1>1, <1>7, TrackerSteps DEF T!FinishImport, TrackerImportOK
  <2>2. latest' \in Digest \cup {Nil} BY <1>1, <1>7, <2>1 DEF T!FinishImport, TrackerPublishing, T!TypeOK
  <2>3. T!TypeOK' BY <1>1, <1>7, <2>2, TrackerTypes DEF TrackerSorts, T!FinishImport, T!store, TrackerImportOK,
       TrackerFormOK, TrackerPreviewOK
  <2> QED BY <1>7, <2>3, TrackerOtherStep DEF T!FinishImport, T!store
<1> QED BY <1>2, <1>3, <1>4, <1>5, <1>6, <1>7

LEMMA TrackerLinkManifestStep == ASSUME T!TrackerAssumption, TrackerIInv, T!LinkManifest PROVE TrackerIInv'
<1>1. T!TypeOK /\ TrackerImportOK BY TrackerTypes DEF TrackerSorts, TrackerIInv
<1>2. import \in TrackerPublishing BY <1>1, TrackerSteps DEF T!LinkManifest, TrackerImportOK
<1>3. PICK d : d = import.digest OBVIOUS
<1>4. d \in Digest /\ import.says \in T!Claims /\ import.says.at \in T!Time BY <1>2, <1>3 DEF TrackerPublishing,
     T!Claims
<1>5. PICK own : own = (manifest[d] = Nil) OBVIOUS
<1>6. T!Go("unlinkManifest", own) /\ own \in BOOLEAN BY <1>3, <1>5 DEF T!LinkManifest
<1>7. import' \in TrackerPublishing /\ import'.step = "unlinkManifest" /\ import'.digest = d
  BY <1>1, <1>2, <1>3, <1>6, TrackerGoStep
<1>8. PICK m : m = T!Published(d) OBVIOUS
<1>9. m \in T!Manifest /\ m # Nil
  <2>1. [links |-> 2, says |-> import.says] \in T!Manifest BY <1>4 DEF T!Manifest
  <2>2. manifest[d] \in T!Manifest \cup {Nil} BY <1>1, <1>4 DEF T!TypeOK
  <2> QED BY <1>8, <2>1, <2>2 DEF T!Published, T!TrackerAssumption
<1>10. /\ manifest' = [manifest EXCEPT ![d] = m]
       /\ captured' = IF captured[d] = Nil THEN [captured EXCEPT ![d] = import.says.at] ELSE captured
  BY <1>3, <1>8 DEF T!LinkManifest
<1>11. /\ manifest' \in [Digest -> T!Manifest \cup {Nil}] /\ manifest'[d] = m
       /\ \A e \in Digest : e # d => manifest'[e] = manifest[e]
  BY <1>1, <1>4, <1>9, <1>10 DEF T!TypeOK
<1>12. /\ captured' \in [Digest -> T!Time \cup {Nil}]
       /\ \A e \in Digest : (e # d \/ captured[e] # Nil) => captured'[e] = captured[e]
       /\ captured'[d] = m.says.at
  <2>1. CASE manifest[d] = Nil
    <3>1. captured[d] = Nil /\ m.says = import.says
      BY <1>4, <1>8, <2>1 DEF TrackerIInv, TrackerDatedFirst, T!Published
    <3> QED BY <1>1, <1>4, <1>10, <3>1 DEF T!TypeOK
  <2>2. CASE manifest[d] # Nil
    <3>1. captured[d] = m.says.at /\ m.says.at \in T!Time
      BY <1>4, <1>8, <1>9, <2>2 DEF TrackerIInv, TrackerDatedFirst, T!Published, T!Manifest, T!Claims
    <3>2. captured[d] # Nil BY <3>1 DEF T!TrackerAssumption
    <3> QED BY <1>1, <1>10, <3>1, <3>2 DEF T!TypeOK
  <2> QED BY <2>1, <2>2
<1>13. UNCHANGED <<hour, data, tampered, latest, selected, form, scan, comparison>> BY DEF T!LinkManifest
<1>14. T!TypeOK' BY <1>1, <1>7, <1>11, <1>12, <1>13, TrackerTypes DEF TrackerSorts, TrackerImportOK, TrackerFormOK,
     TrackerPreviewOK
<1>15. TrackerDatedFirst' BY <1>4, <1>9, <1>11, <1>12 DEF TrackerIInv, TrackerDatedFirst
<1>16. TrackerManifestFirst' BY <1>7, <1>9, <1>11 DEF TrackerManifestFirst
<1>17. TrackerPreviewDated' /\ T!PreviewsStayYoung'
  BY <1>1, <1>12, <1>13 DEF TrackerIInv, T!TypeOK, TrackerPreviewDated, T!PreviewsStayYoung
<1> QED BY <1>14, <1>15, <1>16, <1>17 DEF TrackerIInv

LEMMA TrackerUnlinkManifestStep == ASSUME T!TrackerAssumption, TrackerIInv, T!UnlinkManifest PROVE TrackerIInv'
<1>1. T!TypeOK /\ TrackerImportOK BY TrackerTypes DEF TrackerSorts, TrackerIInv
<1>2. import \in TrackerPublishing BY <1>1, TrackerSteps DEF T!UnlinkManifest, TrackerImportOK
<1>3. PICK d : d = import.digest OBVIOUS
<1>4. d \in Digest BY <1>2, <1>3 DEF TrackerPublishing
<1>5. T!Go("reading", FALSE) BY DEF T!UnlinkManifest
<1>6. import' \in TrackerPublishing /\ import'.step = "reading" BY <1>1, <1>2, <1>5, TrackerGoStep
<1>7. PICK old : old = manifest[d] OBVIOUS
<1>8. old \in T!Manifest BY <1>1, <1>3, <1>4, <1>7 DEF T!UnlinkManifest, TrackerIInv, TrackerManifestFirst, T!TypeOK
<1>9. PICK m : m = IF import.own THEN [old EXCEPT !.links = 1] ELSE old OBVIOUS
<1>10. m \in T!Manifest /\ m.says = old.says BY <1>8, <1>9 DEF T!Manifest
<1>11. /\ manifest' \in [Digest -> T!Manifest \cup {Nil}] /\ manifest'[d] = m
       /\ \A e \in Digest : e # d => manifest'[e] = manifest[e]
  <2>1. manifest' = IF import.own THEN [manifest EXCEPT ![d] = [old EXCEPT !.links = 1]] ELSE manifest
    BY <1>3, <1>7, <1>4, <1>1 DEF T!UnlinkManifest, T!TypeOK
  <2> QED BY <1>1, <1>4, <1>7, <1>9, <1>10, <2>1 DEF T!TypeOK
<1>12. UNCHANGED <<hour, data, tampered, captured, latest, selected, form, scan, comparison>> BY DEF T!UnlinkManifest
<1>13. T!TypeOK' BY <1>1, <1>6, <1>11, <1>12, TrackerTypes DEF TrackerSorts, TrackerImportOK, TrackerFormOK,
     TrackerPreviewOK
<1>14. TrackerDatedFirst' BY <1>4, <1>7, <1>8, <1>10, <1>11, <1>12 DEF TrackerIInv, TrackerDatedFirst,
     T!TrackerAssumption
<1>15. TrackerManifestFirst' BY <1>6 DEF TrackerManifestFirst
<1>16. TrackerPreviewDated' /\ T!PreviewsStayYoung' BY <1>12 DEF TrackerIInv, TrackerPreviewDated, T!PreviewsStayYoung
<1> QED BY <1>13, <1>14, <1>15, <1>16 DEF TrackerIInv

LEMMA TrackerFinishScanStep == ASSUME T!TrackerAssumption, TrackerIInv, T!FinishScan PROVE TrackerIInv'
<1>1. T!TypeOK BY DEF TrackerIInv
<1>2. UNCHANGED <<hour, T!store, latest, selected, import, form>> /\ scan' = Nil /\ scan \in T!Time
  BY <1>1 DEF T!FinishScan, T!TypeOK
<1>3. CASE ~ (selected # Nil /\ T!Readable(selected) /\ T!Young(selected, scan))
  <2>1. comparison' = Nil BY <1>3 DEF T!FinishScan
  <2>2. T!TypeOK' BY <1>1, <1>2, <2>1, TrackerTypes DEF TrackerSorts, T!store, TrackerImportOK, TrackerFormOK,
       TrackerPreviewOK
  <2> QED BY <1>2, <2>1, <2>2 DEF TrackerIInv, TrackerDatedFirst, TrackerManifestFirst, TrackerPreviewDated,
       T!PreviewsStayYoung, T!store
<1>4. CASE selected # Nil /\ T!Readable(selected) /\ T!Young(selected, scan)
  <2>1. PICK intact : intact = (selected \notin tampered) OBVIOUS
  <2>2. intact = TRUE BY <1>4, <2>1 DEF T!Readable
  <2>3. comparison' = [digest |-> selected, at |-> scan, intact |-> intact] BY <1>4, <2>1 DEF T!FinishScan
  <2>4. selected \in Digest BY <1>1, <1>4 DEF T!TypeOK
  <2>5. comparison' \in [digest : Digest, at : T!Time, intact : BOOLEAN] BY <1>2, <2>2, <2>3, <2>4
  <2>6. T!TypeOK' BY <1>1, <1>2, <2>5, TrackerTypes DEF TrackerSorts, T!store, TrackerImportOK, TrackerFormOK,
       TrackerPreviewOK
  <2>7. manifest[selected] # Nil /\ captured[selected] = manifest[selected].says.at
    BY <1>4, <2>4 DEF T!Readable, T!ManifestReadable, TrackerIInv, TrackerDatedFirst
  <2>8. captured[selected] \in T!Time /\ captured[selected] # Nil
    BY <1>1, <2>4, <2>7 DEF T!TypeOK, T!Manifest, T!Claims, T!TrackerAssumption
  <2>9. scan <= captured[selected] + SnapshotAge BY <1>4, <2>7 DEF T!Young
  <2>10. TrackerPreviewDated' /\ T!PreviewsStayYoung'
    BY <1>2, <2>2, <2>3, <2>8, <2>9 DEF TrackerPreviewDated, T!PreviewsStayYoung, T!store
  <2> QED BY <1>2, <2>6, <2>10 DEF TrackerIInv, TrackerDatedFirst, TrackerManifestFirst, T!store
<1> QED BY <1>3, <1>4

LEMMA TrackerFormStep ==
  ASSUME T!TrackerAssumption, TrackerIInv,
         \/ \E s \in Session : T!ShowStatus(s) \/ T!Approve(s) \/ T!Disable(s)
         \/ T!StartScan \/ T!Tick \/ T!Crash \/ (\E d \in Digest : T!Tamper(d))
  PROVE  TrackerIInv'
<1>1. T!TypeOK BY DEF TrackerIInv
<1>2. ASSUME NEW s \in Session, T!ShowStatus(s) \/ T!Approve(s) \/ T!Disable(s) PROVE TrackerIInv'
  <2>1. PICK f \in [current : Digest \cup {Nil}, candidate : Digest \cup {Nil}] : form' = [form EXCEPT ![s] = f]
    <3>1. [current |-> selected, candidate |-> latest] \in [current : Digest \cup {Nil}, candidate : Digest \cup {Nil}]
      BY <1>1 DEF T!TypeOK
    <3>2. [current |-> latest, candidate |-> latest] \in [current : Digest \cup {Nil}, candidate : Digest \cup {Nil}]
      BY <1>1 DEF T!TypeOK
    <3>3. [current |-> Nil, candidate |-> latest] \in [current : Digest \cup {Nil}, candidate : Digest \cup {Nil}]
      BY <1>1 DEF T!TypeOK
    <3> QED BY <1>2, <3>1, <3>2, <3>3 DEF T!ShowStatus, T!Approve, T!Disable
  <2>2. TrackerFormOK' BY <1>1, <2>1, TrackerTypes DEF TrackerSorts, TrackerFormOK
  <2>3. selected' \in Digest \cup {Nil} BY <1>1, <1>2 DEF T!ShowStatus, T!Approve, T!Disable, T!TypeOK
  <2>4. UNCHANGED <<hour, T!store, latest, import, scan, comparison>> BY <1>2 DEF T!ShowStatus, T!Approve, T!Disable
  <2>5. T!TypeOK' BY <1>1, <2>2, <2>3, <2>4, TrackerTypes DEF TrackerSorts, T!store, TrackerImportOK, TrackerPreviewOK
  <2> QED BY <2>4, <2>5, TrackerOtherStep DEF T!store
<1>3. CASE T!StartScan
  <2>1. T!TypeOK' BY <1>1, <1>3, TrackerTypes DEF TrackerSorts, T!StartScan, T!store, TrackerImportOK,
       TrackerFormOK, TrackerPreviewOK
  <2> QED BY <1>3, <2>1, TrackerOtherStep DEF T!StartScan, T!store
<1>4. CASE T!Tick
  <2>1. hour' \in T!Time BY <1>1, <1>4 DEF T!Tick, T!TypeOK, T!Time, T!TrackerAssumption
  <2>2. T!TypeOK' BY <1>1, <1>4, <2>1, TrackerTypes DEF TrackerSorts, T!Tick, T!store, TrackerImportOK,
       TrackerFormOK, TrackerPreviewOK
  <2> QED BY <1>4, <2>2, TrackerOtherStep DEF T!Tick, T!store
<1>5. CASE T!Crash
  <2>1. T!TypeOK' BY <1>1, <1>5, TrackerTypes DEF TrackerSorts, T!Crash, T!store, TrackerImportOK, TrackerFormOK,
       TrackerPreviewOK
  <2> QED BY <1>5, <2>1, TrackerOtherStep DEF T!Crash, T!store
<1>6. ASSUME NEW d \in Digest, T!Tamper(d) PROVE TrackerIInv'
  <2>1. T!TypeOK' BY <1>1, <1>6, TrackerTypes DEF TrackerSorts, T!Tamper, TrackerImportOK, TrackerFormOK,
       TrackerPreviewOK
  <2> QED BY <1>6, <2>1, TrackerOtherStep DEF T!Tamper
<1> QED BY <1>2, <1>3, <1>4, <1>5, <1>6

LEMMA TrackerStep == ASSUME T!TrackerAssumption, TrackerIInv, T!Next PROVE TrackerIInv'
BY TrackerImportStep, TrackerLinkManifestStep, TrackerUnlinkManifestStep, TrackerFinishScanStep,
     TrackerFormStep DEF T!Next

LEMMA TrackerStutter == ASSUME TrackerIInv, UNCHANGED T!vars PROVE TrackerIInv'
BY DEF TrackerIInv, T!vars, T!store, T!TypeOK, TrackerDatedFirst, TrackerManifestFirst, TrackerPreviewDated,
     T!PreviewsStayYoung

LEMMA TrackerSelectedStep == ASSUME T!Next PROVE T!SelectedAsSeen
<1>1. ASSUME NEW s \in Session, T!Approve(s) PROVE T!SelectedAsSeen
  BY <1>1 DEF T!Approve, T!SelectionAsShown, T!SelectedAsSeen
<1>2. ASSUME NEW s \in Session, T!Disable(s) PROVE T!SelectedAsSeen
  BY <1>2 DEF T!Disable, T!SelectionAsShown, T!SelectedAsSeen
<1>3. ASSUME selected' = selected PROVE T!SelectedAsSeen BY <1>3 DEF T!SelectedAsSeen
<1> QED
  BY <1>1, <1>2, <1>3 DEF T!Next, T!BeginImport, T!Fetched, T!Tamper, T!FetchFails, T!LinkData, T!UnlinkData,
       T!LinkManifest,
     T!UnlinkManifest, T!FinishImport, T!ShowStatus, T!StartScan, T!FinishScan, T!Tick, T!Crash

-----------------------------------------------------------------------------
(* Firewall changes                                                         *)

(* A request that went beyond the form asks for something that the form and *)
(* the controller let through. It may be checked against an address that    *)
(* the row had then, so what it owes to the row is not kept.                *)
ChangeAccepted ==
  \A q \in ChangeAttempt : change[q].at \notin {"idle", "refused"} =>
    /\ change[q].thing \in Thing
    /\ G!ValidateExtraVars(change[q].thing)
    /\ change[q].thing.by = "from" /\ change[q].thing.plain => change[q].thing.what \notin Own

(* The rule is there once the command of the helper is known to have ended  *)
(* well.                                                                    *)
ChangeApplied == \A q \in ChangeAttempt : change[q].at = "post-audit" => G!Rule(change[q].thing) \in denied

ChangeIInv == G!TypeOK /\ ChangeAccepted /\ ChangeApplied /\ G!DoorStaysOpen /\ G!CompleteMeansEnforced

ChangeWaiting == {"preview", "binding", "pre-audit", "backup", "change", "post-audit"}

(* A step of a request that changes only where it is.                       *)
LEMMA ChangeBecomeType ==
  ASSUME G!TypeOK, NEW q \in ChangeAttempt, NEW stage \in G!Stage, G!Become(q, stage)
  PROVE  /\ change' \in [ChangeAttempt -> G!Task]
         /\ change'[q].at = stage /\ change'[q].thing = change[q].thing
         /\ change'[q].enforced = change[q].enforced
         /\ \A p \in ChangeAttempt : p # q => change'[p] = change[p]
<1>1. change \in [ChangeAttempt -> G!Task] BY DEF G!TypeOK
<1>2. change' = [change EXCEPT ![q] = [change[q] EXCEPT !.at = stage]] BY DEF G!Become
<1>3. change[q] \in G!Task BY <1>1
<1>4. [change[q] EXCEPT !.at = stage] \in G!Task BY <1>3 DEF G!Task
<1>5. /\ [change[q] EXCEPT !.at = stage].at = stage
      /\ [change[q] EXCEPT !.at = stage].thing = change[q].thing
      /\ [change[q] EXCEPT !.at = stage].enforced = change[q].enforced
  BY <1>3 DEF G!Task
<1> QED BY <1>1, <1>2, <1>4, <1>5

(* The rest of the invariant, when a request moves on to a stage that is    *)
(* neither the audit after its change nor the answer without reservation.   *)
LEMMA ChangeBecomeKeeps ==
  ASSUME ChangeIInv, NEW q \in ChangeAttempt, NEW stage \in G!Stage \ {"post-audit", "complete"}, G!Become(q, stage),
         change[q].at \in ChangeWaiting, denied \subseteq denied'
  PROVE  ChangeAccepted' /\ ChangeApplied' /\ G!CompleteMeansEnforced'
<1>1. /\ change'[q].at = stage /\ change'[q].thing = change[q].thing
      /\ \A p \in ChangeAttempt : p # q => change'[p] = change[p]
  BY ChangeBecomeType DEF ChangeIInv
<1>2. change[q].at \notin {"idle", "refused"} BY DEF ChangeWaiting
<1>3. ChangeAccepted' BY <1>1, <1>2 DEF ChangeIInv, ChangeAccepted, G!ValidateExtraVars
<1>4. ChangeApplied' BY <1>1 DEF ChangeIInv, ChangeApplied, G!Rule
<1>5. G!CompleteMeansEnforced' BY <1>1 DEF ChangeIInv, G!CompleteMeansEnforced, G!Rule
<1> QED BY <1>3, <1>4, <1>5

(* What the helper puts there denies no way in.                             *)
LEMMA ChangeHelperSpares ==
  ASSUME G!ChangeAssumption, ChangeIInv, NEW t \in Thing, G!HelperPermits(t), G!Managed, G!ValidateExtraVars(t),
         t.by = "from" /\ t.plain => t.what \notin Own
  PROVE  /\ G!Rule(t) \notin {<<"tcp", way.sshd>>, <<"tcp", Standard>>}
         /\ \A a \in Own \cup {way.client, way.server} : <<"from", a>> # G!Rule(t)
<1>1. way \in Way BY DEF ChangeIInv, G!TypeOK
<1>2. ~ way.told => changeRow.port = way.sshd
  <2>1. ~ way.told => way.port = way.sshd BY <1>1 DEF G!ChangeAssumption
  <2>2. changeRow.port = way.port BY DEF G!Managed, G!Reached
  <2> QED BY <2>1, <2>2
<1>3. t.by = "tcp" => t.what # Standard /\ t.what # way.sshd
  BY <1>2 DEF G!HelperPermits
<1>4. t.by = "from" => t.what \notin Own \cup {way.client, way.server}
  BY DEF G!HelperPermits
<1> QED BY <1>3, <1>4 DEF G!Rule

LEMMA ChangeIdleType == G!Idle \in G!Task /\ G!Idle.at = "idle"
BY DEF G!Idle, G!Task, G!Stage, G!Answer

LEMMA ChangeInitIInv == ASSUME G!ChangeAssumption, G!Init PROVE ChangeIInv
<1>1. change = [q \in ChangeAttempt |-> G!Idle] BY DEF G!Init
<1>2. G!Idle \in G!Task /\ G!Idle.at = "idle" BY ChangeIdleType
<1>3. \A q \in ChangeAttempt : change[q] = G!Idle BY <1>1
<1>4. G!TypeOK
  <2>1. changeRow \in G!Connection BY DEF G!Init, G!Connection
  <2>2. events \in 0 .. MaxEvents BY DEF G!Init, G!ChangeAssumption
  <2>3. change \in [ChangeAttempt -> G!Task] BY <1>1, <1>2
  <2> QED BY <2>1, <2>2, <2>3 DEF G!Init, G!TypeOK
<1>5. ChangeAccepted /\ ChangeApplied /\ G!CompleteMeansEnforced
  BY <1>2, <1>3 DEF ChangeAccepted, ChangeApplied, G!CompleteMeansEnforced
<1>6. G!DoorStaysOpen BY DEF G!Init, G!DoorStaysOpen
<1> QED BY <1>4, <1>5, <1>6 DEF ChangeIInv

(* The door: neither the rules nor the ends of the connection change.       *)
LEMMA ChangeSameDoor ==
  ASSUME ChangeIInv, UNCHANGED <<way, denied>>
  PROVE  G!DoorStaysOpen'
BY DEF ChangeIInv, G!DoorStaysOpen

LEMMA ChangeRefusedForm ==
  /\ [G!Idle EXCEPT !.at = "refused"] \in G!Task
  /\ [G!Idle EXCEPT !.at = "refused"].at = "refused"
BY ChangeIdleType DEF G!Task, G!Stage, G!Answer

LEMMA ChangeAskStep ==
  ASSUME ChangeIInv, NEW q \in ChangeAttempt, NEW way1 \in {"preview", "apply"}, NEW t \in Thing,
         NEW complete \in BOOLEAN, G!Ask(q, way1, t, complete)
  PROVE  ChangeIInv'
<1>1. PICK new : /\ change' = [change EXCEPT ![q] = new]
                 /\ new = IF complete /\ G!ValidateRemediationTarget(t)
                          THEN [at |-> IF way1 = "apply" THEN "binding" ELSE IF G!Free THEN "preview" ELSE "failed",
                                thing |-> t, row |-> changeRow, enforced |-> FALSE]
                          ELSE [G!Idle EXCEPT !.at = "refused"]
  BY DEF G!Ask
<1>2. /\ [G!Idle EXCEPT !.at = "refused"] \in G!Task
      /\ [G!Idle EXCEPT !.at = "refused"].at = "refused"
  BY ChangeRefusedForm
<1>3. new \in G!Task /\ new.at \notin {"post-audit", "complete"}
  BY <1>1, <1>2 DEF ChangeIInv, G!TypeOK, G!Task, G!Stage, G!Answer
<1>4. new.at \notin {"idle", "refused"} =>
        new.thing = t /\ G!ValidateExtraVars(t) /\ (t.by = "from" /\ t.plain => t.what \notin Own)
  BY <1>1, <1>2 DEF G!ValidateRemediationTarget, G!WouldBlockProtectedAddress
<1>5. change \in [ChangeAttempt -> G!Task] BY DEF ChangeIInv, G!TypeOK
<1>6. change' \in [ChangeAttempt -> G!Task] /\ change'[q] = new /\ \A p \in ChangeAttempt : p # q => change'[p] = change[p]
  BY <1>1, <1>3, <1>5
<1>7. UNCHANGED <<way, changeRow, firewall, denied, bar, events>> BY DEF G!Ask
<1>8. G!TypeOK' BY <1>6, <1>7 DEF ChangeIInv, G!TypeOK
<1>9. ChangeAccepted' BY <1>4, <1>6 DEF ChangeIInv, ChangeAccepted, G!ValidateExtraVars
<1>10. ChangeApplied' /\ G!CompleteMeansEnforced'
  BY <1>3, <1>6, <1>7 DEF ChangeIInv, ChangeApplied, G!CompleteMeansEnforced, G!Rule
<1> QED BY <1>7, <1>8, <1>9, <1>10, ChangeSameDoor DEF ChangeIInv

(* A step of a request that touches nothing but its stage and the bar.      *)
LEMMA ChangeMoveOn ==
  ASSUME ChangeIInv, NEW q \in ChangeAttempt, NEW stage \in G!Stage \ {"post-audit", "complete"}, G!Become(q, stage),
         change[q].at \in ChangeWaiting, bar' \in ChangeAttempt \cup {Nil, "unresolved"},
         UNCHANGED <<way, changeRow, firewall, denied, events>>
  PROVE  ChangeIInv'
<1>1. change' \in [ChangeAttempt -> G!Task] BY ChangeBecomeType DEF ChangeIInv
<1>2. G!TypeOK' BY <1>1 DEF ChangeIInv, G!TypeOK
<1>3. ChangeAccepted' /\ ChangeApplied' /\ G!CompleteMeansEnforced' BY ChangeBecomeKeeps
<1> QED BY <1>2, <1>3, ChangeSameDoor DEF ChangeIInv

LEMMA ChangeCreateStep == ASSUME ChangeIInv, NEW q \in ChangeAttempt, G!Create(q) PROVE ChangeIInv'
<1>1. change[q].at \in ChangeWaiting BY DEF G!Create, ChangeWaiting
<1>2. UNCHANGED <<way, changeRow, firewall, denied, events>> BY DEF G!Create
<1>3. CASE G!Free
  <2>1. G!Become(q, "pre-audit") /\ bar' = q BY <1>3 DEF G!Create
  <2> QED BY <1>1, <1>2, <2>1, ChangeMoveOn DEF G!Stage
<1>4. CASE ~ G!Free
  <2>1. G!Become(q, "failed") /\ bar' = bar BY <1>4 DEF G!Create
  <2> QED BY <1>1, <1>2, <2>1, ChangeMoveOn DEF G!Stage, G!Answer, ChangeIInv, G!TypeOK
<1> QED BY <1>3, <1>4

LEMMA ChangePreAuditStep == ASSUME ChangeIInv, NEW q \in ChangeAttempt, G!PreAudit(q) PROVE ChangeIInv'
<1>1. change[q].at \in ChangeWaiting BY DEF G!PreAudit, ChangeWaiting
<1>2. UNCHANGED <<way, changeRow, firewall, denied, events>> BY DEF G!PreAudit
<1>3. (G!Become(q, "backup") /\ bar' = bar) \/ (G!Become(q, "failed") /\ bar' = Nil)
  BY DEF G!PreAudit, G!Ends
<1>4. bar \in ChangeAttempt \cup {Nil, "unresolved"} BY DEF ChangeIInv, G!TypeOK
<1> QED BY <1>1, <1>2, <1>3, <1>4, ChangeMoveOn DEF G!Stage, G!Answer

LEMMA ChangeBackupStep == ASSUME ChangeIInv, NEW q \in ChangeAttempt, G!Backup(q) PROVE ChangeIInv'
<1>1. change[q].at \in ChangeWaiting BY DEF G!Backup, ChangeWaiting
<1>2. UNCHANGED <<way, changeRow, firewall, denied, events>> BY DEF G!Backup
<1>3. \/ G!Become(q, "change") /\ bar' = bar
      \/ G!Become(q, "failed") /\ bar' = Nil
      \/ G!Become(q, "unknown") /\ bar' = "unresolved"
  BY DEF G!Backup, G!Ends, G!NotKnown
<1>4. bar \in ChangeAttempt \cup {Nil, "unresolved"} BY DEF ChangeIInv, G!TypeOK
<1> QED BY <1>1, <1>2, <1>3, <1>4, ChangeMoveOn DEF G!Stage, G!Answer

LEMMA ChangePreviewStep == ASSUME ChangeIInv, NEW q \in ChangeAttempt, G!Preview(q) PROVE ChangeIInv'
<1>1. change[q].at \in ChangeWaiting BY DEF G!Preview, ChangeWaiting
<1>2. UNCHANGED <<way, changeRow, firewall, denied, bar, events>> BY DEF G!Preview
<1>3. G!Become(q, "previewed") \/ G!Become(q, "failed") BY DEF G!Preview
<1>4. bar \in ChangeAttempt \cup {Nil, "unresolved"} BY DEF ChangeIInv, G!TypeOK
<1> QED BY <1>1, <1>2, <1>3, <1>4, ChangeMoveOn DEF G!Stage, G!Answer

LEMMA ChangeChangeStep == ASSUME G!ChangeAssumption, ChangeIInv, NEW q \in ChangeAttempt, G!Change(q) PROVE ChangeIInv'
<1>1. PICK t : t = change[q].thing OBVIOUS
<1>2. t \in Thing /\ G!ValidateExtraVars(t) /\ (t.by = "from" /\ t.plain => t.what \notin Own)
  BY <1>1 DEF ChangeIInv, ChangeAccepted, G!Change
<1>3. change[q].at = "change" /\ change[q].at \in ChangeWaiting BY DEF G!Change, ChangeWaiting
<1>4. UNCHANGED <<way, changeRow, firewall, events>> BY DEF G!Change
<1>5. \/ denied' = denied
      \/ G!HelperPermits(t) /\ G!Managed /\ denied' = denied \cup {G!Rule(t)}
  BY <1>1 DEF G!Change
<1>6. \/ G!Rule(t) \in denied' /\ G!Become(q, "post-audit") /\ bar' = bar
      \/ G!Become(q, "failed") /\ bar' = Nil
      \/ G!Become(q, "unknown") /\ bar' = "unresolved"
  BY <1>1 DEF G!Change, G!Ends, G!NotKnown
<1>7. denied \subseteq denied' BY <1>5
<1>8. change' \in [ChangeAttempt -> G!Task]
  BY <1>6, ChangeBecomeType DEF ChangeIInv, G!Stage, G!Answer
<1>9. G!TypeOK'
  <2>1. G!Rule(t) \in {G!Rule(s) : s \in Thing} BY <1>2
  <2>2. denied' \subseteq {G!Rule(s) : s \in Thing} BY <1>5, <2>1 DEF ChangeIInv, G!TypeOK
  <2>3. bar' \in ChangeAttempt \cup {Nil, "unresolved"} BY <1>6 DEF ChangeIInv, G!TypeOK
  <2> QED BY <1>4, <1>8, <2>2, <2>3 DEF ChangeIInv, G!TypeOK, G!Rule
<1>10. G!DoorStaysOpen'
  <2>1. CASE denied' = denied BY <1>4, <2>1, ChangeSameDoor
  <2>2. CASE G!HelperPermits(t) /\ G!Managed /\ denied' = denied \cup {G!Rule(t)}
    <3>1. /\ G!Rule(t) \notin {<<"tcp", way.sshd>>, <<"tcp", Standard>>}
          /\ \A a \in Own \cup {way.client, way.server} : <<"from", a>> # G!Rule(t)
      BY <1>2, <2>2, ChangeHelperSpares
    <3> QED BY <1>4, <2>2, <3>1 DEF ChangeIInv, G!DoorStaysOpen
  <2> QED BY <1>5, <2>1, <2>2
<1>11. ChangeAccepted' /\ ChangeApplied' /\ G!CompleteMeansEnforced'
  <2>1. CASE G!Rule(t) \in denied' /\ G!Become(q, "post-audit")
    <3>1. /\ change'[q].at = "post-audit" /\ change'[q].thing = t
          /\ \A p \in ChangeAttempt : p # q => change'[p] = change[p]
      BY <1>1, <2>1, ChangeBecomeType DEF ChangeIInv, G!Stage
    <3>2. ChangeAccepted' BY <1>2, <3>1 DEF ChangeIInv, ChangeAccepted, G!ValidateExtraVars
    <3>3. ChangeApplied' BY <1>7, <2>1, <3>1 DEF ChangeIInv, ChangeApplied, G!Rule
    <3>4. G!CompleteMeansEnforced' BY <1>7, <3>1 DEF ChangeIInv, G!CompleteMeansEnforced, G!Rule
    <3> QED BY <3>2, <3>3, <3>4
  <2>2. CASE G!Become(q, "failed") BY <1>3, <1>7, <2>2, ChangeBecomeKeeps DEF G!Stage, G!Answer
  <2>3. CASE G!Become(q, "unknown") BY <1>3, <1>7, <2>3, ChangeBecomeKeeps DEF G!Stage, G!Answer
  <2> QED BY <1>6, <2>1, <2>2, <2>3
<1> QED BY <1>9, <1>10, <1>11 DEF ChangeIInv

(* The audit after the change sees the firewall that it answers for.        *)
LEMMA ChangeCompleteIsSeen ==
  ASSUME NEW r \in G!Observed, G!AnswerFor(r) = "complete"
  PROVE  firewall.active
<1>1. G!AssessFirewallBaseline(r) BY DEF G!AnswerFor
<1>2. r # Nil /\ r.firewall = "passed" BY <1>1 DEF G!AssessFirewallBaseline
<1> QED BY <1>2 DEF G!Observed

LEMMA ChangePostAuditStep == ASSUME ChangeIInv, NEW q \in ChangeAttempt, G!PostAudit(q) PROVE ChangeIInv'
<1>1. PICK r \in G!Observed :
        change' = [change EXCEPT ![q].at = G!AnswerFor(r), ![q].enforced = firewall.active]
  BY DEF G!PostAudit
<1>2. G!AnswerFor(r) \in {"complete", "partial"} BY DEF G!AnswerFor
<1>3. change \in [ChangeAttempt -> G!Task] /\ firewall.active \in BOOLEAN BY DEF ChangeIInv, G!TypeOK
<1>4. PICK new : new = [at |-> G!AnswerFor(r), thing |-> change[q].thing, row |-> change[q].row,
                        enforced |-> firewall.active]
  OBVIOUS
<1>5. change'[q] = new /\ \A p \in ChangeAttempt : p # q => change'[p] = change[p]
  BY <1>1, <1>3, <1>4 DEF G!Task
<1>6. new \in G!Task
  <2>1. change[q] \in G!Task BY <1>3
  <2> QED BY <1>2, <1>3, <1>4, <2>1 DEF G!Task, G!Stage, G!Answer
<1>7. change' \in [ChangeAttempt -> G!Task]
  <2>1. DOMAIN change' = ChangeAttempt /\ change' = [p \in ChangeAttempt |-> change'[p]] BY <1>1, <1>3
  <2> QED BY <1>3, <1>5, <1>6, <2>1
<1>8. UNCHANGED <<way, changeRow, firewall, denied, events>> /\ bar' = Nil BY DEF G!PostAudit
<1>9. G!TypeOK' BY <1>7, <1>8 DEF ChangeIInv, G!TypeOK
<1>10. change[q].at = "post-audit" BY DEF G!PostAudit
<1>11. ChangeAccepted' BY <1>4, <1>5, <1>10 DEF ChangeIInv, ChangeAccepted, G!ValidateExtraVars
<1>12. ChangeApplied' BY <1>2, <1>4, <1>5, <1>8 DEF ChangeIInv, ChangeApplied, G!Rule
<1>13. G!CompleteMeansEnforced'
  <2>1. G!Rule(change[q].thing) \in denied BY <1>10 DEF ChangeIInv, ChangeApplied
  <2>2. G!AnswerFor(r) = "complete" => firewall.active BY ChangeCompleteIsSeen
  <2> QED BY <1>4, <1>5, <1>8, <2>1, <2>2 DEF ChangeIInv, G!CompleteMeansEnforced, G!Rule
<1> QED BY <1>8, <1>9, <1>11, <1>12, <1>13, ChangeSameDoor DEF ChangeIInv

(* What nobody asked for: no request moves and no rule is put there.        *)
LEMMA ChangeBesides ==
  ASSUME ChangeIInv, UNCHANGED <<change, denied>>
  PROVE  ChangeAccepted' /\ ChangeApplied' /\ G!CompleteMeansEnforced'
<1>1. ChangeAccepted' BY DEF ChangeIInv, ChangeAccepted, G!ValidateExtraVars
<1>2. ChangeApplied' /\ G!CompleteMeansEnforced' BY DEF ChangeIInv, ChangeApplied, G!CompleteMeansEnforced, G!Rule
<1> QED BY <1>1, <1>2

LEMMA ChangeEventCounts == ASSUME G!ChangeAssumption, ChangeIInv, G!Event PROVE events' \in 0 .. MaxEvents
BY DEF G!ChangeAssumption, ChangeIInv, G!TypeOK, G!Event

LEMMA ChangeEditRowStep == ASSUME G!ChangeAssumption, ChangeIInv, NEW c \in G!Connection, G!EditRow(c) PROVE ChangeIInv'
<1>1. UNCHANGED <<way, firewall, denied, bar, change>> /\ changeRow' = c BY DEF G!EditRow
<1>2. G!TypeOK' BY <1>1, ChangeEventCounts DEF G!EditRow, ChangeIInv, G!TypeOK, G!Rule
<1> QED BY <1>1, <1>2, ChangeBesides, ChangeSameDoor DEF ChangeIInv

LEMMA ChangeSwitchStep == ASSUME G!ChangeAssumption, ChangeIInv, G!Switch PROVE ChangeIInv'
<1>1. UNCHANGED <<way, changeRow, denied, bar, change>> BY DEF G!Switch
<1>2. firewall' \in [backend : G!Backend, active : BOOLEAN] BY DEF G!Switch, ChangeIInv, G!TypeOK
<1>3. G!TypeOK' BY <1>1, <1>2, ChangeEventCounts DEF G!Switch, ChangeIInv, G!TypeOK, G!Rule
<1> QED BY <1>1, <1>3, ChangeBesides, ChangeSameDoor DEF ChangeIInv

LEMMA ChangeResolveStep == ASSUME ChangeIInv, G!Resolve PROVE ChangeIInv'
<1>1. UNCHANGED <<way, changeRow, firewall, denied, change, events>> /\ bar' = Nil BY DEF G!Resolve
<1>2. G!TypeOK' BY <1>1 DEF ChangeIInv, G!TypeOK, G!Rule
<1> QED BY <1>1, <1>2, ChangeBesides, ChangeSameDoor DEF ChangeIInv

(* The controller comes from an address of its own; the ends at the machine *)
(* stay.                                                                    *)
LEMMA ChangeMoveStep == ASSUME G!ChangeAssumption, ChangeIInv, NEW w \in Way, G!Move(w) PROVE ChangeIInv'
<1>1. UNCHANGED <<changeRow, firewall, denied, bar, change>> /\ way' = w /\ w.client \in Own BY DEF G!Move
<1>2. way'.sshd = way.sshd /\ way'.server = way.server
  <2>1. w["sshd"] = way["sshd"] /\ w["server"] = way["server"] BY DEF G!Move
  <2> QED BY <1>1, <2>1
<1>3. G!TypeOK' BY <1>1, ChangeEventCounts DEF G!Move, ChangeIInv, G!TypeOK, G!Rule
<1>4. G!DoorStaysOpen' BY <1>1, <1>2 DEF ChangeIInv, G!DoorStaysOpen
<1> QED BY <1>1, <1>3, <1>4, ChangeBesides DEF ChangeIInv

LEMMA ChangeStep == ASSUME G!ChangeAssumption, ChangeIInv, [G!Next]_G!vars PROVE ChangeIInv'
<1>1. CASE UNCHANGED G!vars
  <2>1. UNCHANGED <<way, changeRow, firewall, denied, bar, change, events>> BY <1>1 DEF G!vars
  <2>2. G!TypeOK' BY <2>1 DEF ChangeIInv, G!TypeOK, G!Rule
  <2> QED BY <2>1, <2>2, ChangeBesides, ChangeSameDoor DEF ChangeIInv
<1>2. CASE \E q \in ChangeAttempt, way1 \in {"preview", "apply"}, t \in Thing, complete \in BOOLEAN :
             G!Ask(q, way1, t, complete)
  BY <1>2, ChangeAskStep
<1>3. CASE \E q \in ChangeAttempt : G!Create(q) \/ G!PreAudit(q) \/ G!Backup(q) \/ G!Preview(q)
  BY <1>3, ChangeCreateStep, ChangePreAuditStep, ChangeBackupStep, ChangePreviewStep
<1>4. CASE \E q \in ChangeAttempt : G!Change(q) \/ G!PostAudit(q) BY <1>4, ChangeChangeStep, ChangePostAuditStep
<1>5. CASE \E c \in G!Connection : G!EditRow(c) BY <1>5, ChangeEditRowStep
<1>6. CASE \E w \in Way : G!Move(w) BY <1>6, ChangeMoveStep
<1>7. CASE G!Switch \/ G!Resolve BY <1>7, ChangeSwitchStep, ChangeResolveStep
<1> QED BY <1>1, <1>2, <1>3, <1>4, <1>5, <1>6, <1>7 DEF G!Next

-----------------------------------------------------------------------------
(* The CVE database and its scans                                           *)

CveRefresh == [step : {"none", "queued", "running", "stored"}, tries : 0 .. Registries]
CveWaiting  == [step : {"awaiting", "queued", "running"}, inventory : SUBSET Record]
CveAnswered == [step : {"answered"}, inventory : SUBSET Record, covered : BOOLEAN, clean : BOOLEAN, source : C!Evidence]
CveTask == {C!Idle} \cup CveWaiting \cup CveAnswered

CveWorkOK(w) ==
  \/ w = C!Idle
  \/ w \in [step : {"fetching"}]
  \/ w \in [step : {"staged", "marked", "half", "published", "registered"}, pub : Publication]
  \/ w \in [step : {"observed"}, pub : Publication, same : BOOLEAN]
  \/ w \in [step : {"opened"}, who : CveRequest]
  \/ w \in [step : {"scanning"}, who : CveRequest, before : C!Evidence, same : BOOLEAN, used : Publication \cup {Nil}]

CveCacheOK ==
  /\ file \in [{"db", "meta"} -> C!Content \cup {Nil}]
  /\ source \in C!Manifest \cup {Nil}
  /\ pending \in BOOLEAN

(* The helper's step, and that it has the lock while it is at work.         *)
CveHelperOK == /\ lock \in {"free", "helper", "orphan"} /\ CveWorkOK(work)
               /\ lock = "helper" <=> work # C!Idle

CveRequestsOK == refresh \in CveRefresh /\ cveTask \in [CveRequest -> CveTask] /\ report \in C!Report

CveSettingsOK == mode \in {"online", "offline"} /\ oldest \in Nat

CveShapes == CveCacheOK /\ CveHelperOK /\ CveRequestsOK /\ CveSettingsOK

(* A database that was registered with digests.                             *)
CveVouched == source # Nil /\ source.method \in {"download", "import"}

(* The marker is there before the first file is replaced, and the manifest  *)
(* before it goes.                                                          *)
CveMarkedFirst == /\ work.step \in {"marked", "half", "published"} => pending
                  /\ work.step = "registered" => CveVouched

CveOnePublication == CveVouched => source.db = source.meta

CveOwnDatabase == file["db"] # Nil /\ file["db"].by = "hcp" => pending \/ CveVouched

CveGoodSource(s) == s.db # s.meta => s.dbBy = "outsider" /\ s.registration \in {"legacy", "first-use"}

(* A scan whose files did not change works with the database it names.      *)
CveScanGood ==
  /\ work.step \in {"opened", "scanning"} => cveTask[work.who].step = "running"
  /\ work.step = "scanning" =>
       /\ CveGoodSource(work.before)
       /\ work.same => /\ file["db"] # Nil /\ file["db"].pub = work.before.db
                       /\ work.used \in {Nil, work.before.db}

CveAnswersGood ==
  \A r \in CveRequest : cveTask[r].step = "answered" =>
    /\ CveGoodSource(cveTask[r].source)
    /\ cveTask[r].covered /\ cveTask[r].clean =>
         C!Software(cveTask[r].inventory) \cap Vulnerable[cveTask[r].source.db] = {}

CveReportGood == /\ report.complete => CveGoodSource(report.source)
                 /\ C!CleanMeansClean

CveIInv == CveShapes /\ CveMarkedFirst /\ CveOnePublication /\ CveOwnDatabase /\ CveScanGood /\ CveAnswersGood /\ CveReportGood

-----------------------------------------------------------------------------
LEMMA CveWorkSteps ==
  ASSUME NEW w, CveWorkOK(w)
  PROVE  /\ w = C!Idle <=> w.step = "idle"
         /\ w.step = "idle" => w = C!Idle
         /\ w.step \in {"staged", "marked", "half", "published", "registered"} =>
              w = [step |-> w.step, pub |-> w.pub] /\ w.pub \in Publication
         /\ w.step = "observed" =>
              w = [step |-> "observed", pub |-> w.pub, same |-> w.same] /\ w.pub \in Publication /\ w.same \in BOOLEAN
         /\ w.step = "opened" => w = [step |-> "opened", who |-> w.who] /\ w.who \in CveRequest
         /\ w.step = "scanning" =>
              /\ w = [step |-> "scanning", who |-> w.who, before |-> w.before, same |-> w.same, used |-> w.used]
              /\ w.who \in CveRequest /\ w.before \in C!Evidence /\ w.same \in BOOLEAN /\ w.used \in Publication \cup {Nil}
BY DEF CveWorkOK, C!Idle

LEMMA CveTaskSteps ==
  ASSUME NEW t \in CveTask
  PROVE  /\ t.step = "idle" <=> t = C!Idle
         /\ t.step \in {"awaiting", "queued", "running"} =>
              t = [step |-> t.step, inventory |-> t.inventory] /\ t.inventory \subseteq Record
         /\ t.step = "answered" =>
              /\ t.inventory \subseteq Record /\ t.covered \in BOOLEAN /\ t.clean \in BOOLEAN /\ t.source \in C!Evidence
              /\ t = [step |-> "answered", inventory |-> t.inventory, covered |-> t.covered, clean |-> t.clean,
                      source |-> t.source]
BY DEF CveTask, CveWaiting, CveAnswered, C!Idle

LEMMA CveNothingClaimed == C!Partial \in C!Report /\ ~ C!Partial.complete /\ ~ C!Partial.clean
BY DEF C!Partial, C!Report

LEMMA CveInitIInv == ASSUME C!CveAssumption, C!Init PROVE CveIInv
<1>1. CveCacheOK BY DEF C!Init, CveCacheOK
<1>2. CveHelperOK BY DEF C!Init, CveHelperOK, CveWorkOK
<1>3. CveRequestsOK
  <2>1. C!NoRefresh \in CveRefresh BY DEF C!NoRefresh, CveRefresh, C!CveAssumption
  <2> QED BY <2>1, CveNothingClaimed DEF C!Init, CveRequestsOK, CveTask
<1>4. CveSettingsOK BY DEF C!Init, CveSettingsOK
<1>5. work.step = "idle" /\ \A r \in CveRequest : cveTask[r].step = "idle" BY DEF C!Init, C!Idle
<1>6. CveMarkedFirst /\ CveScanGood /\ CveAnswersGood BY <1>5 DEF CveMarkedFirst, CveScanGood, CveAnswersGood
<1>7. CveOnePublication /\ CveOwnDatabase BY DEF C!Init, CveOnePublication, CveOwnDatabase, CveVouched
<1>8. CveReportGood BY CveNothingClaimed DEF C!Init, CveReportGood, C!CleanMeansClean
<1> QED BY <1>1, <1>2, <1>3, <1>4, <1>6, <1>7, <1>8 DEF CveIInv, CveShapes

(* Steps that leave the cache alone and give no answer: requests wait, give *)
(* up or start, and reports that claim nothing are written.                 *)
LEMMA CveQuietStep ==
  ASSUME CveIInv, UNCHANGED C!cache, NEW w, work' = w,
         \/ w = work
         \/ w.step \in {"idle", "fetching", "staged", "observed"}
         \/ w.step = "opened" /\ cveTask'[w.who].step = "running",
         CveHelperOK', refresh' \in CveRefresh, cveTask' \in [CveRequest -> CveTask], report' \in {report, C!Partial}, CveSettingsOK',
         \A r \in CveRequest : \/ cveTask'[r] = cveTask[r]
                               \/ cveTask'[r].step # "answered" /\ (w = work => cveTask[r].step # "running")
  PROVE  CveIInv'
<1>1. file' = file /\ source' = source /\ pending' = pending BY DEF C!cache
<1>2. CveCacheOK' BY <1>1 DEF CveIInv, CveShapes, CveCacheOK
<1>3. CveRequestsOK' BY CveNothingClaimed DEF CveIInv, CveShapes, CveRequestsOK
<1>4. CveVouched' = CveVouched BY <1>1 DEF CveVouched
<1>5. CveMarkedFirst' BY <1>1, <1>4 DEF CveIInv, CveMarkedFirst
<1>6. CveOnePublication' /\ CveOwnDatabase' BY <1>1, <1>4 DEF CveIInv, CveOnePublication, CveOwnDatabase
<1>7. CveScanGood'
  <2>1. CASE w = work
    <3>1. ASSUME work.step \in {"opened", "scanning"} PROVE cveTask'[work.who].step = "running"
      <4>1. work.who \in CveRequest BY <3>1, CveWorkSteps DEF CveIInv, CveShapes, CveHelperOK
      <4>2. cveTask[work.who].step = "running" BY <3>1 DEF CveIInv, CveScanGood
      <4> QED BY <2>1, <4>1, <4>2
    <3> QED BY <1>1, <2>1, <3>1 DEF CveIInv, CveScanGood
  <2>2. CASE w.step # "scanning" /\ (w.step = "opened" => cveTask'[w.who].step = "running") BY <2>2 DEF CveScanGood
  <2> QED BY <2>1, <2>2
<1>8. CveAnswersGood' BY DEF CveIInv, CveAnswersGood
<1>9. CveReportGood' BY CveNothingClaimed DEF CveIInv, CveReportGood, C!CleanMeansClean
<1> QED BY <1>2, <1>3, <1>5, <1>6, <1>7, <1>8, <1>9 DEF CveIInv, CveShapes

LEMMA CveWaits == ASSUME NEW step \in {"awaiting", "queued", "running"}, NEW inventory0 \in SUBSET Record
               PROVE  [step |-> step, inventory |-> inventory0] \in CveTask
BY DEF CveTask, CveWaiting

LEMMA CveGivesUp ==
  ASSUME C!CveAssumption, CveIInv, C!TryNext
  PROVE  /\ refresh' \in CveRefresh /\ cveTask' \in [CveRequest -> CveTask] /\ report' \in {report, C!Partial}
         /\ \A r \in CveRequest : cveTask'[r] = cveTask[r] \/ (cveTask'[r].step # "answered" /\ cveTask[r].step # "running")
<1>1. cveTask \in [CveRequest -> CveTask] /\ refresh \in CveRefresh BY DEF CveIInv, CveShapes, CveRequestsOK
<1>2. CASE refresh.tries + 1 < Registries
  <2>1. refresh' = [step |-> "queued", tries |-> refresh.tries + 1] /\ UNCHANGED <<cveTask, report>> BY <1>2
     DEF C!TryNext
  <2>2. refresh.tries \in 0 .. Registries BY <1>1 DEF CveRefresh
  <2>3. refresh.tries + 1 \in 0 .. Registries BY <1>2, <2>2 DEF C!CveAssumption
  <2>4. refresh' \in CveRefresh BY <2>1, <2>3 DEF CveRefresh
  <2> QED BY <1>1, <2>1, <2>4
<1>3. CASE ~ (refresh.tries + 1 < Registries)
  <2>1. /\ refresh' = C!NoRefresh /\ report' \in {report, C!Partial}
        /\ cveTask' = [r \in CveRequest |-> IF cveTask[r].step = "awaiting" THEN C!Idle ELSE cveTask[r]]
    BY <1>3 DEF C!TryNext
  <2>2. C!NoRefresh \in CveRefresh BY DEF C!NoRefresh, CveRefresh, C!CveAssumption
  <2>3. C!Idle \in CveTask /\ C!Idle.step = "idle" BY DEF CveTask, C!Idle
  <2> QED BY <1>1, <2>1, <2>2, <2>3
<1> QED BY <1>2, <1>3

(* The helper starts when nobody has the lock, and ends with it.            *)
LEMMA CveAcquired ==
  ASSUME CveIInv, NEW w, CveWorkOK(w), w # C!Idle, C!Acquire(w)
  PROVE  CveHelperOK' /\ work' = w /\ work = C!Idle
BY DEF CveIInv, CveShapes, CveHelperOK, C!Acquire

LEMMA CveReleased == ASSUME C!Release PROVE CveHelperOK' /\ work' = C!Idle /\ C!Idle.step = "idle"
BY DEF C!Release, CveHelperOK, CveWorkOK, C!Idle

LEMMA CveHelperStays == ASSUME CveIInv, UNCHANGED <<lock, work>> PROVE CveHelperOK'
BY DEF CveIInv, CveShapes, CveHelperOK, CveWorkOK

LEMMA CveHelperGoes ==
  ASSUME CveIInv, NEW w, work' = w, CveWorkOK(w), w # C!Idle, work # C!Idle, lock' = lock
  PROVE  CveHelperOK'
<1>1. CveWorkOK(work)' BY DEF CveWorkOK
<1> QED BY <1>1 DEF CveIInv, CveShapes, CveHelperOK

LEMMA CveGivePartial ==
  ASSUME CveIInv, NEW r \in CveRequest, C!Give(r, C!Partial)
  PROVE  /\ cveTask' \in [CveRequest -> CveTask] /\ report' = C!Partial
         /\ cveTask'[r] = C!Idle /\ C!Idle.step = "idle" /\ \A q \in CveRequest : q # r => cveTask'[q] = cveTask[q]
<1>1. C!Idle \in CveTask /\ C!Idle.step = "idle" BY DEF CveTask, C!Idle
<1>2. cveTask \in [CveRequest -> CveTask] BY DEF CveIInv, CveShapes, CveRequestsOK
<1> QED BY <1>1, <1>2 DEF C!Give

LEMMA CveRefreshStep ==
  ASSUME C!CveAssumption, CveIInv,
         C!BeginRefresh \/ C!OpenDownload \/ C!DownloadWaitsTooLong \/ C!FetchFails \/ C!EndRefresh
  PROVE  CveIInv'
<1>1. CveRequestsOK /\ CveSettingsOK BY DEF CveIInv, CveShapes
<1>2. ASSUME UNCHANGED <<mode, oldest>> PROVE CveSettingsOK' BY <1>1, <1>2 DEF CveSettingsOK
<1>3. CASE C!BeginRefresh
  <2>1. /\ refresh' = [step |-> "queued", tries |-> 0]
        /\ UNCHANGED <<C!cache, lock, work, cveTask, report, mode, oldest>>
    BY <1>3 DEF C!BeginRefresh
  <2>2. refresh' \in CveRefresh BY <2>1 DEF CveRefresh, C!CveAssumption
  <2>3. CveHelperOK' BY <2>1, CveHelperStays
  <2> QED BY <1>1, <1>2, <2>1, <2>2, <2>3, CveQuietStep DEF CveRequestsOK
<1>4. CASE C!OpenDownload
  <2>1. PICK w : w = [step |-> "fetching"] OBVIOUS
  <2>2. CveWorkOK(w) /\ w # C!Idle /\ w.step = "fetching" BY <2>1 DEF CveWorkOK, C!Idle
  <2>3. /\ C!Acquire(w) /\ refresh' = [refresh EXCEPT !.step = "running"]
        /\ UNCHANGED <<C!cache, cveTask, report, mode, oldest>>
    BY <1>4, <2>1 DEF C!OpenDownload
  <2>4. CveHelperOK' /\ work' = w BY <2>2, <2>3, CveAcquired
  <2>5. refresh' \in CveRefresh BY <1>1, <2>3 DEF CveRequestsOK, CveRefresh
  <2> QED BY <1>1, <1>2, <2>2, <2>3, <2>4, <2>5, CveQuietStep DEF CveRequestsOK
<1>5. CASE C!DownloadWaitsTooLong
  <2>1. C!TryNext /\ UNCHANGED <<C!cache, lock, work, mode, oldest>> BY <1>5 DEF C!DownloadWaitsTooLong
  <2>2. CveHelperOK' BY <2>1, CveHelperStays
  <2> QED BY <1>2, <2>1, <2>2, CveGivesUp, CveQuietStep
<1>6. CASE C!FetchFails
  <2>1. C!Release /\ C!TryNext /\ UNCHANGED <<C!cache, mode, oldest>> BY <1>6 DEF C!FetchFails
  <2>2. CveHelperOK' /\ work' = C!Idle /\ C!Idle.step = "idle" BY <2>1, CveReleased
  <2> QED BY <1>2, <2>1, <2>2, CveGivesUp, CveQuietStep
<1>7. CASE C!EndRefresh
  <2>1. refresh' = C!NoRefresh /\ UNCHANGED <<C!cache, lock, work, mode, oldest>> /\ report' \in {report, C!Partial}
    BY <1>7 DEF C!EndRefresh
  <2>2. C!NoRefresh \in CveRefresh BY DEF C!NoRefresh, CveRefresh, C!CveAssumption
  <2>3. CveHelperOK' BY <2>1, CveHelperStays
  <2>4. /\ cveTask' \in [CveRequest -> CveTask]
        /\ \A r \in CveRequest : cveTask'[r] = cveTask[r] \/ (cveTask'[r].step # "answered" /\ cveTask[r].step # "running")
    <3>1. CASE C!CacheFresh
      <4>1. cveTask' = [r \in CveRequest |-> IF cveTask[r].step = "awaiting" THEN [cveTask[r] EXCEPT !.step = "queued"]
                                       ELSE cveTask[r]]
        BY <1>7, <3>1 DEF C!EndRefresh
      <4>2. ASSUME NEW r \in CveRequest, cveTask[r].step = "awaiting"
            PROVE  [cveTask[r] EXCEPT !.step = "queued"] \in CveTask /\ [cveTask[r] EXCEPT !.step = "queued"].step = "queued"
        <5>1. PICK t \in CveTask : t = cveTask[r] BY <1>1 DEF CveRequestsOK
        <5>2. t = [step |-> "awaiting", inventory |-> t.inventory] /\ t.inventory \subseteq Record
          BY <4>2, <5>1, CveTaskSteps
        <5>3. [t EXCEPT !.step = "queued"] = [step |-> "queued", inventory |-> t.inventory] BY <5>2
        <5> QED BY <5>1, <5>2, <5>3, CveWaits
      <4> QED BY <1>1, <4>1, <4>2 DEF CveRequestsOK
    <3>2. CASE ~ C!CacheFresh
      <4>1. cveTask' = [r \in CveRequest |-> IF cveTask[r].step = "awaiting" THEN C!Idle ELSE cveTask[r]]
        BY <1>7, <3>2 DEF C!EndRefresh
      <4>2. C!Idle \in CveTask /\ C!Idle.step = "idle" BY DEF CveTask, C!Idle
      <4> QED BY <1>1, <4>1, <4>2 DEF CveRequestsOK
    <3> QED BY <3>1, <3>2
  <2> QED BY <1>2, <2>1, <2>2, <2>3, <2>4, CveQuietStep
<1> QED BY <1>3, <1>4, <1>5, <1>6, <1>7

LEMMA CveRequestStep ==
  ASSUME C!CveAssumption, CveIInv, NEW r \in CveRequest,
         (\E inventory0 \in SUBSET Record : C!StartScan(r, inventory0)) \/ C!OpenScan(r) \/ C!ScanWaitsTooLong(r)
  PROVE  CveIInv'
<1>1. CveRequestsOK /\ CveSettingsOK BY DEF CveIInv, CveShapes
<1>2. ASSUME UNCHANGED <<mode, oldest>> PROVE CveSettingsOK' BY <1>1, <1>2 DEF CveSettingsOK
<1>3. ASSUME NEW inventory0 \in SUBSET Record, C!StartScan(r, inventory0) PROVE CveIInv'
  <2>1. cveTask[r] = C!Idle /\ UNCHANGED <<C!cache, lock, work, mode, oldest>> BY <1>3 DEF C!StartScan
  <2>2. CveHelperOK' BY <2>1, CveHelperStays
  <2>3. ASSUME NEW step \in {"awaiting", "queued"}, cveTask' = [cveTask EXCEPT ![r] = [step |-> step, inventory |-> inventory0]]
        PROVE  /\ cveTask' \in [CveRequest -> CveTask]
               /\ \A q \in CveRequest : cveTask'[q] = cveTask[q] \/ (cveTask'[q].step # "answered" /\ cveTask[q].step # "running")
    <3>1. PICK t \in CveTask : t = [step |-> step, inventory |-> inventory0] BY CveWaits
    <3>2. t.step = step BY <3>1
    <3>3. cveTask' = [cveTask EXCEPT ![r] = t] BY <2>3, <3>1
    <3> QED BY <1>1, <2>1, <3>2, <3>3 DEF CveRequestsOK, C!Idle
  <2>4. CASE /\ \E step \in {"awaiting", "queued"} : cveTask' = [cveTask EXCEPT ![r] = [step |-> step, inventory |-> inventory0]]
             /\ report' = report
    <3>1. refresh' \in CveRefresh BY <1>1, <1>3 DEF C!StartScan, CveRequestsOK, CveRefresh, C!CveAssumption
    <3> QED BY <1>2, <2>1, <2>2, <2>3, <2>4, <3>1, CveQuietStep
  <2>5. \/ UNCHANGED <<cveTask, refresh>> /\ report' = C!Partial
        \/ /\ \E step \in {"awaiting", "queued"} : cveTask' = [cveTask EXCEPT ![r] = [step |-> step, inventory |-> inventory0]]
           /\ report' = report
    BY <1>3 DEF C!StartScan
  <2>6. CASE UNCHANGED <<cveTask, refresh>> /\ report' = C!Partial
    BY <1>1, <1>2, <2>1, <2>2, <2>6, CveQuietStep DEF CveRequestsOK
  <2> QED BY <2>4, <2>5, <2>6
<1>4. CASE C!OpenScan(r)
  <2>1. PICK w : w = [step |-> "opened", who |-> r] OBVIOUS
  <2>2. CveWorkOK(w) /\ w # C!Idle /\ w.step = "opened" /\ w.who = r BY <2>1 DEF CveWorkOK, C!Idle
  <2>3. /\ cveTask[r].step = "queued" /\ C!Acquire(w) /\ cveTask' = [cveTask EXCEPT ![r].step = "running"]
        /\ UNCHANGED <<C!cache, refresh, report, mode, oldest>>
    BY <1>4, <2>1 DEF C!OpenScan
  <2>4. CveHelperOK' /\ work' = w /\ work = C!Idle BY <2>2, <2>3, CveAcquired
  <2>5. PICK t \in CveTask : t = cveTask[r] BY <1>1 DEF CveRequestsOK
  <2>6. PICK u : u = [t EXCEPT !.step = "running"] OBVIOUS
  <2>7. u = [step |-> "running", inventory |-> t.inventory] /\ u.step = "running" /\ u \in CveTask
    BY <2>3, <2>5, <2>6, CveTaskSteps, CveWaits
  <2>8. cveTask' = [cveTask EXCEPT ![r] = u] BY <2>3, <2>5, <2>6
  <2>9. cveTask' \in [CveRequest -> CveTask] /\ cveTask'[r] = u /\ \A q \in CveRequest : q # r => cveTask'[q] = cveTask[q]
    BY <1>1, <2>7, <2>8 DEF CveRequestsOK
  <2> QED BY <1>1, <1>2, <2>2, <2>3, <2>4, <2>7, <2>9, CveQuietStep DEF CveRequestsOK, C!Idle
<1>5. CASE C!ScanWaitsTooLong(r)
  <2>1. cveTask[r].step = "queued" /\ C!Give(r, C!Partial) /\ UNCHANGED <<C!cache, lock, work, refresh, mode, oldest>>
    BY <1>5 DEF C!ScanWaitsTooLong
  <2>2. CveHelperOK' BY <2>1, CveHelperStays
  <2> QED BY <1>1, <1>2, <2>1, <2>2, CveGivePartial, CveQuietStep DEF CveRequestsOK
<1> QED BY <1>3, <1>4, <1>5

LEMMA CveScannerOf ==
  ASSUME CveIInv, work.step \in {"opened", "scanning"}
  PROVE  work.who \in CveRequest /\ work # C!Idle /\ cveTask[work.who].step = "running"
BY CveWorkSteps DEF CveIInv, CveShapes, CveHelperOK, CveScanGood, C!Idle

LEMMA CveHelperStep ==
  ASSUME C!CveAssumption, CveIInv,
         (\E pub \in Publication : C!Fetch(pub) \/ C!OpenImport(pub)) \/ C!ScanFails \/ C!KillHelper \/ C!OrphanEnds \/ C!Restart
  PROVE  CveIInv'
<1>1. CveRequestsOK /\ CveSettingsOK BY DEF CveIInv, CveShapes
<1>2. ASSUME UNCHANGED <<mode, oldest>> PROVE CveSettingsOK' BY <1>1, <1>2 DEF CveSettingsOK
<1>3. ASSUME NEW pub \in Publication, C!Fetch(pub) PROVE CveIInv'
  <2>1. PICK w : w = [step |-> "staged", pub |-> pub] OBVIOUS
  <2>2. CveWorkOK(w) /\ w # C!Idle /\ w.step = "staged" BY <2>1 DEF CveWorkOK, C!Idle
  <2>3. /\ work.step = "fetching" /\ work' = w
        /\ UNCHANGED <<C!cache, lock, refresh, cveTask, report, mode, oldest>>
    BY <1>3, <2>1 DEF C!Fetch
  <2>4. work # C!Idle /\ lock' = lock BY <2>3 DEF C!Idle
  <2>5. CveHelperOK' BY <2>2, <2>3, <2>4, CveHelperGoes
  <2> QED BY <1>1, <1>2, <2>2, <2>3, <2>5, CveQuietStep DEF CveRequestsOK
<1>4. ASSUME NEW pub \in Publication, C!OpenImport(pub) PROVE CveIInv'
  <2>1. PICK w : w = [step |-> "observed", pub |-> pub, same |-> TRUE] OBVIOUS
  <2>2. CveWorkOK(w) /\ w # C!Idle /\ w.step = "observed" BY <2>1 DEF CveWorkOK, C!Idle
  <2>3. C!Acquire(w) /\ UNCHANGED <<C!cache, refresh, cveTask, report, mode, oldest>> BY <1>4, <2>1 DEF C!OpenImport
  <2>4. CveHelperOK' /\ work' = w BY <2>2, <2>3, CveAcquired
  <2> QED BY <1>1, <1>2, <2>2, <2>3, <2>4, CveQuietStep DEF CveRequestsOK
<1>5. CASE C!ScanFails
  <2>1. /\ work.step = "scanning" /\ C!Release /\ C!Give(work.who, C!Partial)
        /\ UNCHANGED <<C!cache, refresh, mode, oldest>>
    BY <1>5 DEF C!ScanFails
  <2>2. CveHelperOK' /\ work' = C!Idle /\ C!Idle.step = "idle" BY <2>1, CveReleased
  <2>3. PICK r \in CveRequest : r = work.who /\ work # C!Idle BY <2>1, CveScannerOf
  <2> QED BY <1>1, <1>2, <2>1, <2>2, <2>3, CveGivePartial, CveQuietStep DEF CveRequestsOK
<1>6. CASE C!KillHelper
  <2>1. /\ lock = "helper" /\ lock' \in {"orphan", "free"} /\ work' = C!Idle /\ UNCHANGED <<C!cache, mode, oldest>>
    BY <1>6 DEF C!KillHelper
  <2>2. CveHelperOK' /\ work # C!Idle /\ C!Idle.step = "idle" BY <2>1 DEF CveHelperOK, CveWorkOK, CveIInv,
       CveShapes, C!Idle
  <2>3. CASE work.step \in {"opened", "scanning"}
    <3>1. C!Give(work.who, C!Partial) /\ UNCHANGED refresh BY <1>6, <2>3 DEF C!KillHelper
    <3>2. PICK r \in CveRequest : r = work.who BY <2>3, CveScannerOf
    <3> QED BY <1>1, <1>2, <2>1, <2>2, <3>1, <3>2, CveGivePartial, CveQuietStep DEF CveRequestsOK
  <2>4. CASE work.step \notin {"opened", "scanning"} /\ refresh.step = "running"
    <3>1. C!TryNext BY <1>6, <2>4 DEF C!KillHelper
    <3> QED BY <1>2, <2>1, <2>2, <3>1, CveGivesUp, CveQuietStep
  <2>5. CASE work.step \notin {"opened", "scanning"} /\ refresh.step # "running"
    <3>1. UNCHANGED <<refresh, cveTask, report>> BY <1>6, <2>5 DEF C!KillHelper
    <3> QED BY <1>1, <1>2, <2>1, <2>2, <3>1, CveQuietStep DEF CveRequestsOK
  <2> QED BY <2>3, <2>4, <2>5
<1>7. CASE C!OrphanEnds
  <2>1. lock = "orphan" /\ lock' = "free" /\ UNCHANGED <<C!cache, work, refresh, cveTask, report, mode, oldest>>
    BY <1>7 DEF C!OrphanEnds
  <2>2. CveHelperOK' BY <2>1 DEF CveHelperOK, CveWorkOK, CveIInv, CveShapes
  <2> QED BY <1>1, <1>2, <2>1, <2>2, CveQuietStep DEF CveRequestsOK
<1>8. CASE C!Restart
  <2>1. /\ C!Release /\ refresh' = C!NoRefresh /\ cveTask' = [r \in CveRequest |-> C!Idle]
        /\ UNCHANGED <<C!cache, report, mode, oldest>>
    BY <1>8 DEF C!Restart, C!Release
  <2>2. CveHelperOK' /\ work' = C!Idle /\ C!Idle.step = "idle" BY <2>1, CveReleased
  <2>3. C!NoRefresh \in CveRefresh /\ C!Idle \in CveTask BY DEF C!NoRefresh, CveRefresh, C!CveAssumption, CveTask
  <2>4. CASE work = C!Idle
    <3>1. \A r \in CveRequest : cveTask'[r] = C!Idle BY <2>1
    <3>2. CveRequestsOK' BY <1>1, <2>1, <2>3 DEF CveRequestsOK
    <3>3. UNCHANGED <<file, source, pending>> BY <2>1 DEF C!cache
    <3>4. CveCacheOK' /\ CveMarkedFirst' /\ CveOnePublication' /\ CveOwnDatabase'
      BY <2>2, <2>4, <3>3 DEF CveIInv, CveShapes, CveCacheOK, CveMarkedFirst, CveOnePublication, CveOwnDatabase,
           CveVouched
    <3>5. CveScanGood' /\ CveAnswersGood' BY <2>2, <3>1 DEF CveScanGood, CveAnswersGood
    <3>6. CveReportGood' BY <2>1 DEF CveIInv, CveReportGood, C!CleanMeansClean
    <3> QED BY <1>2, <2>1, <2>2, <3>2, <3>4, <3>5, <3>6 DEF CveIInv, CveShapes
  <2>5. CASE work # C!Idle BY <1>1, <1>2, <2>1, <2>2, <2>3, <2>5, CveQuietStep DEF CveRequestsOK
  <2> QED BY <2>4, <2>5
<1> QED BY <1>3, <1>4, <1>5, <1>6, <1>7, <1>8

LEMMA CveSettingStep ==
  ASSUME C!CveAssumption, CveIInv, C!Expire \/ \E m \in {"online", "offline"} : C!SetMode(m)
  PROVE  CveIInv'
<1>1. UNCHANGED <<C!cache, lock, work, refresh, cveTask, report>> BY DEF C!Expire, C!SetMode
<1>2. CveSettingsOK'
  <2>1. CASE C!Expire
    <3>1. oldest \in Publication /\ oldest' = oldest + 1 /\ mode' = mode BY <2>1 DEF C!Expire
    <3> QED BY <3>1 DEF CveIInv, CveShapes, CveSettingsOK, C!CveAssumption
  <2>2. ASSUME NEW m \in {"online", "offline"}, C!SetMode(m) PROVE CveSettingsOK'
    BY <2>2 DEF CveIInv, CveShapes, CveSettingsOK, C!SetMode
  <2> QED BY <2>1, <2>2
<1>3. CveHelperOK' BY <1>1, CveHelperStays
<1> QED BY <1>1, <1>2, <1>3, CveQuietStep DEF CveIInv, CveShapes, CveRequestsOK

-----------------------------------------------------------------------------
(* Steps on the cache *)

(* A step of a download or an import that leaves the requests alone.        *)
LEMMA CveCacheStep ==
  ASSUME CveIInv, CveCacheOK', NEW w, work' = w, CveHelperOK', refresh' \in CveRefresh,
         UNCHANGED <<cveTask, report, mode, oldest>>,
         w.step \notin {"opened", "scanning"}, CveMarkedFirst', CveOnePublication', CveOwnDatabase'
  PROVE  CveIInv'
<1>1. CveRequestsOK' /\ CveSettingsOK' BY DEF CveIInv, CveShapes, CveRequestsOK, CveSettingsOK
<1>2. CveScanGood' BY DEF CveScanGood
<1>3. CveAnswersGood' BY DEF CveIInv, CveAnswersGood
<1>4. CveReportGood' BY DEF CveIInv, CveReportGood, C!CleanMeansClean
<1> QED BY <1>1, <1>2, <1>3, <1>4 DEF CveIInv, CveShapes

LEMMA CvePublishStep ==
  ASSUME C!CveAssumption, CveIInv, C!MarkPending \/ C!PutDatabase \/ C!PutMetadata \/ C!Register
  PROVE  CveIInv'
<1>1. /\ CveCacheOK /\ CveMarkedFirst /\ CveOnePublication /\ CveOwnDatabase /\ refresh \in CveRefresh
      /\ UNCHANGED <<lock, refresh, cveTask, report, mode, oldest>>
  BY DEF CveIInv, CveShapes, CveRequestsOK, C!MarkPending, C!PutDatabase, C!PutMetadata, C!Register
<1>2. work.step \in {"staged", "marked", "half", "published"} BY DEF C!MarkPending, C!PutDatabase, C!PutMetadata,
     C!Register
<1>3. PICK old : old = work OBVIOUS
<1>4. old = [step |-> old.step, pub |-> old.pub] /\ old.pub \in Publication /\ work # C!Idle
  BY <1>2, <1>3, CveWorkSteps DEF CveIInv, CveShapes, CveHelperOK, C!Idle
<1>5. PICK next : /\ next = [old EXCEPT !.step = next.step] /\ work' = next
                  /\ next.step \in {"marked", "half", "published", "registered"}
  <2>1. PICK step \in {"marked", "half", "published", "registered"} : work' = [old EXCEPT !.step = step]
    BY <1>3 DEF C!MarkPending, C!PutDatabase, C!PutMetadata, C!Register
  <2>2. [old EXCEPT !.step = step].step = step BY <1>4
  <2> QED BY <2>1, <2>2
<1>6. next = [step |-> next.step, pub |-> old.pub] BY <1>4, <1>5
<1>7. CveWorkOK(next) /\ next # C!Idle BY <1>4, <1>5, <1>6 DEF CveWorkOK, C!Idle
<1>8. CveHelperOK' BY <1>1, <1>4, <1>5, <1>7, CveHelperGoes
<1>9. CASE C!MarkPending
  <2>1. pending' = TRUE /\ UNCHANGED <<file, source>> /\ next.step = "marked"
    BY <1>3, <1>4, <1>5, <1>9 DEF C!MarkPending
  <2>2. CveCacheOK' /\ CveMarkedFirst' /\ CveOnePublication' /\ CveOwnDatabase'
    BY <1>1, <1>5, <2>1 DEF CveCacheOK, CveMarkedFirst, CveOnePublication, CveOwnDatabase, CveVouched
  <2> QED BY <1>1, <1>5, <1>8, <2>2, CveCacheStep
<1>10. CASE C!PutDatabase \/ C!PutMetadata
  <2>1. PICK f \in {"db", "meta"}, c \in C!Content : c.pub = old.pub /\ file' = [file EXCEPT ![f] = c]
    <3>1. [pub |-> old.pub, by |-> "hcp"] \in C!Content BY <1>4 DEF C!Content
    <3> QED BY <1>3, <1>10, <3>1 DEF C!PutDatabase, C!PutMetadata
  <2>2. UNCHANGED <<source, pending>> /\ next.step \in {"half", "published"} /\ pending
    BY <1>1, <1>3, <1>4, <1>5, <1>10 DEF C!PutDatabase, C!PutMetadata, CveMarkedFirst
  <2>3. CveCacheOK' BY <1>1, <2>1, <2>2 DEF CveCacheOK
  <2>4. CveMarkedFirst' /\ CveOnePublication' /\ CveOwnDatabase'
    BY <1>1, <1>5, <2>2 DEF CveMarkedFirst, CveOnePublication, CveOwnDatabase, CveVouched
  <2> QED BY <1>1, <1>5, <1>8, <2>3, <2>4, CveCacheStep
<1>11. CASE C!Register
  <2>1. PICK m \in C!Manifest : m.db = m.meta /\ m.method = "download" /\ source' = m
    <3>1. [db |-> old.pub, meta |-> old.pub, method |-> "download"] \in C!Manifest BY <1>4 DEF C!Manifest
    <3> QED BY <1>3, <1>11, <3>1 DEF C!Register
  <2>2. UNCHANGED <<file, pending>> /\ next.step = "registered" BY <1>3, <1>4, <1>5, <1>11 DEF C!Register
  <2>3. CveCacheOK' BY <1>1, <2>1, <2>2 DEF CveCacheOK
  <2>4. CveVouched' BY <2>1 DEF CveVouched, C!CveAssumption
  <2>5. CveMarkedFirst' /\ CveOnePublication' /\ CveOwnDatabase'
    BY <1>5, <2>1, <2>2, <2>4 DEF CveMarkedFirst, CveOnePublication, CveOwnDatabase
  <2> QED BY <1>1, <1>5, <1>8, <2>3, <2>5, CveCacheStep
<1> QED BY <1>9, <1>10, <1>11

LEMMA CveUnmarkStep == ASSUME C!CveAssumption, CveIInv, C!Unmark PROVE CveIInv'
<1>1. /\ CveCacheOK /\ CveMarkedFirst /\ CveOnePublication /\ CveOwnDatabase /\ refresh \in CveRefresh
      /\ pending' = FALSE /\ C!Release /\ UNCHANGED <<file, source, cveTask, report, mode, oldest>>
      /\ work.step = "registered"
  BY DEF CveIInv, CveShapes, CveRequestsOK, C!Unmark
<1>2. CveHelperOK' /\ work' = C!Idle /\ C!Idle.step = "idle" BY <1>1, CveReleased
<1>3. CveVouched /\ CveVouched' BY <1>1 DEF CveMarkedFirst, CveVouched
<1>4. CveCacheOK' BY <1>1 DEF CveCacheOK
<1>5. CveMarkedFirst' /\ CveOnePublication' /\ CveOwnDatabase'
  BY <1>1, <1>2, <1>3 DEF CveMarkedFirst, CveOnePublication, CveOwnDatabase
<1>6. refresh' \in CveRefresh BY <1>1 DEF C!Unmark, CveRefresh
<1> QED BY <1>1, <1>2, <1>4, <1>5, <1>6, CveCacheStep

LEMMA CveRegisterImportStep == ASSUME C!CveAssumption, CveIInv, C!RegisterImport PROVE CveIInv'
<1>1. /\ CveCacheOK /\ CveMarkedFirst /\ CveOnePublication /\ CveOwnDatabase /\ refresh \in CveRefresh
      /\ UNCHANGED <<file, pending, refresh, cveTask, report, mode, oldest>>
      /\ work.step = "observed"
  BY DEF CveIInv, CveShapes, CveRequestsOK, C!RegisterImport
<1>2. work.pub \in Publication /\ work # C!Idle BY <1>1, CveWorkSteps DEF CveIInv, CveShapes, CveHelperOK, C!Idle
<1>3. CASE C!Unchanged(work)
  <2>1. PICK m \in C!Manifest : m.db = m.meta /\ m.method = "import" /\ source' = m
    <3>1. [db |-> work.pub, meta |-> work.pub, method |-> "import"] \in C!Manifest BY <1>2 DEF C!Manifest
    <3> QED BY <1>3, <3>1 DEF C!RegisterImport
  <2>2. PICK w : w = [step |-> "registered", pub |-> work.pub] OBVIOUS
  <2>3. CveWorkOK(w) /\ w # C!Idle /\ w.step = "registered" BY <1>2, <2>2 DEF CveWorkOK, C!Idle
  <2>4. work' = w /\ lock' = lock BY <1>3, <2>2 DEF C!RegisterImport
  <2>5. CveHelperOK' BY <1>2, <2>3, <2>4, CveHelperGoes
  <2>6. CveCacheOK' BY <1>1, <2>1 DEF CveCacheOK
  <2>7. CveVouched' BY <2>1 DEF CveVouched, C!CveAssumption
  <2>8. CveMarkedFirst' /\ CveOnePublication' /\ CveOwnDatabase'
    BY <2>1, <2>3, <2>4, <2>7 DEF CveMarkedFirst, CveOnePublication, CveOwnDatabase
  <2> QED BY <1>1, <2>3, <2>4, <2>5, <2>6, <2>8, CveCacheStep
<1>4. CASE ~ C!Unchanged(work)
  <2>1. C!Release /\ UNCHANGED source BY <1>4 DEF C!RegisterImport
  <2>2. CveHelperOK' /\ work' = C!Idle /\ C!Idle.step = "idle" BY <2>1, CveReleased
  <2>3. CveCacheOK' BY <1>1, <2>1 DEF CveCacheOK
  <2>4. CveMarkedFirst' /\ CveOnePublication' /\ CveOwnDatabase'
    BY <1>1, <2>1, <2>2 DEF CveMarkedFirst, CveOnePublication, CveOwnDatabase, CveVouched
  <2> QED BY <1>1, <2>2, <2>3, <2>4, CveCacheStep
<1> QED BY <1>3, <1>4

(* What a scan finds usable is a pair, or somebody else put the database    *)
(* there.                                                                   *)
LEMMA CveUsableIsGood ==
  ASSUME C!CveAssumption, CveCacheOK, CveOnePublication, CveOwnDatabase, C!Usable
  PROVE  C!Observed \in C!Evidence /\ CveGoodSource(C!Observed) /\ file["db"] # Nil /\ C!Observed.db = file["db"].pub
<1>1. /\ ~ pending /\ file["db"] # Nil /\ file["meta"] # Nil
      /\ source # Nil => source.db = file["db"].pub /\ source.meta = file["meta"].pub
  BY DEF C!Usable, C!Interrupted
<1>2. /\ file["db"] \in C!Content /\ file["meta"] \in C!Content
      /\ source # Nil => source \in C!Manifest
  BY <1>1 DEF CveCacheOK
<1>3. PICK s : s = C!Observed OBVIOUS
<1>4. /\ s.db = file["db"].pub /\ s.dbBy = file["db"].by /\ s.meta = file["meta"].pub
      /\ s.registration = IF source = Nil THEN "legacy" ELSE source.method
      /\ s = [db |-> s.db, dbBy |-> s.dbBy, meta |-> s.meta, registration |-> s.registration]
  BY <1>3 DEF C!Observed
<1>5. s \in C!Evidence BY <1>2, <1>4 DEF C!Evidence, C!Content, C!Manifest
<1>6. CveGoodSource(s)
  <2>1. SUFFICES ASSUME s.db # s.meta PROVE s.dbBy = "outsider" /\ s.registration \in {"legacy", "first-use"}
    BY DEF CveGoodSource
  <2>2. ~ CveVouched BY <1>1, <1>4, <2>1 DEF CveOnePublication, CveVouched
  <2>3. s.registration \in {"legacy", "first-use"} BY <1>2, <1>4, <2>2 DEF CveVouched, C!Manifest
  <2>4. file["db"].by # "hcp" BY <1>1, <2>2 DEF CveOwnDatabase
  <2> QED BY <1>2, <1>4, <2>3, <2>4 DEF C!Content
<1> QED BY <1>1, <1>3, <1>4, <1>5, <1>6

LEMMA CveCheckSourceStep == ASSUME C!CveAssumption, CveIInv, C!CheckSource PROVE CveIInv'
<1>1. /\ work.step = "opened" /\ UNCHANGED <<C!cache, refresh, mode, oldest>> BY DEF C!CheckSource
<1>2. PICK r \in CveRequest : r = work.who /\ work # C!Idle /\ cveTask[r].step = "running" BY <1>1, CveScannerOf
<1>3. CveRequestsOK /\ CveSettingsOK /\ CveSettingsOK' BY <1>1 DEF CveIInv, CveShapes, CveSettingsOK
<1>4. CASE ~ C!Usable
  <2>1. C!Release /\ C!Give(r, C!Partial) BY <1>2, <1>4 DEF C!CheckSource
  <2>2. CveHelperOK' /\ work' = C!Idle /\ C!Idle.step = "idle" BY <2>1, CveReleased
  <2> QED BY <1>1, <1>2, <1>3, <2>1, <2>2, CveGivePartial, CveQuietStep DEF CveRequestsOK
<1>5. CASE C!Usable
  <2>1. PICK s : s = C!Observed OBVIOUS
  <2>2. s \in C!Evidence /\ CveGoodSource(s) /\ file["db"] # Nil /\ s.db = file["db"].pub
    BY <1>5, <2>1, CveUsableIsGood DEF CveIInv, CveShapes
  <2>3. PICK w : w = [step |-> "scanning", who |-> r, before |-> s, same |-> TRUE, used |-> Nil] OBVIOUS
  <2>4. /\ w.step = "scanning" /\ w.who = r /\ w.before = s /\ w.used = Nil /\ CveWorkOK(w) /\ w # C!Idle
    BY <2>2, <2>3 DEF CveWorkOK, C!Idle
  <2>5. work' = w /\ UNCHANGED <<lock, cveTask, report>> BY <1>2, <1>5, <2>1, <2>3 DEF C!CheckSource
  <2>6. CveHelperOK' BY <1>2, <2>4, <2>5, CveHelperGoes
  <2>7. UNCHANGED <<file, source, pending>> BY <1>1 DEF C!cache
  <2>8. CveScanGood' BY <1>2, <2>2, <2>4, <2>5, <2>7 DEF CveScanGood
  <2>9. CveCacheOK' /\ CveMarkedFirst' /\ CveOnePublication' /\ CveOwnDatabase'
    BY <2>4, <2>5, <2>7 DEF CveIInv, CveShapes, CveCacheOK, CveMarkedFirst, CveOnePublication, CveOwnDatabase,
         CveVouched
  <2>10. CveRequestsOK' /\ CveAnswersGood' /\ CveReportGood'
    BY <1>1, <1>3, <2>5 DEF CveIInv, CveRequestsOK, CveAnswersGood, CveReportGood, C!CleanMeansClean
  <2> QED BY <1>3, <2>6, <2>8, <2>9, <2>10 DEF CveIInv, CveShapes
<1> QED BY <1>4, <1>5

LEMMA CveOpenDatabaseStep == ASSUME C!CveAssumption, CveIInv, C!OpenDatabase PROVE CveIInv'
<1>1. /\ work.step = "scanning" /\ file["db"] # Nil
      /\ UNCHANGED <<file, source, pending, lock, refresh, cveTask, report, mode, oldest>>
  BY DEF C!OpenDatabase, C!cache
<1>2. PICK old : old = work OBVIOUS
<1>3. /\ old = [step |-> "scanning", who |-> old.who, before |-> old.before, same |-> old.same, used |-> old.used]
      /\ old.who \in CveRequest /\ old.before \in C!Evidence /\ old.same \in BOOLEAN
      /\ work # C!Idle
  BY <1>1, <1>2, CveWorkSteps DEF CveIInv, CveShapes, CveHelperOK, C!Idle
<1>4. PICK pub \in Publication : pub = file["db"].pub BY <1>1 DEF CveIInv, CveShapes, CveCacheOK, C!Content
<1>5. PICK w : w = [old EXCEPT !.used = pub] OBVIOUS
<1>6. work' = w BY <1>2, <1>4, <1>5 DEF C!OpenDatabase
<1>7. w = [step |-> "scanning", who |-> old.who, before |-> old.before, same |-> old.same, used |-> pub]
  BY <1>3, <1>5
<1>8. CveWorkOK(w) /\ w # C!Idle BY <1>3, <1>7 DEF CveWorkOK, C!Idle
<1>9. CveHelperOK' BY <1>1, <1>3, <1>6, <1>8, CveHelperGoes
<1>10. CveScanGood'
  BY <1>1, <1>2, <1>4, <1>6, <1>7 DEF CveIInv, CveScanGood
<1>11. CveCacheOK' /\ CveMarkedFirst' /\ CveOnePublication' /\ CveOwnDatabase'
  BY <1>1, <1>6, <1>7 DEF CveIInv, CveShapes, CveCacheOK, CveMarkedFirst, CveOnePublication, CveOwnDatabase,
       CveVouched
<1>12. CveRequestsOK' /\ CveSettingsOK' /\ CveAnswersGood' /\ CveReportGood'
  BY <1>1 DEF CveIInv, CveShapes, CveRequestsOK, CveSettingsOK, CveAnswersGood, CveReportGood, C!CleanMeansClean
<1> QED BY <1>9, <1>10, <1>11, <1>12 DEF CveIInv, CveShapes

LEMMA CveFinishScanStep ==
  ASSUME C!CveAssumption, CveIInv, NEW scanned \in SUBSET Record, NEW doubt \in BOOLEAN, C!FinishScan(scanned, doubt)
  PROVE  CveIInv'
<1>1. /\ work.step = "scanning" /\ work.used # Nil /\ C!Release
      /\ UNCHANGED <<file, pending, refresh, mode, oldest>>
  BY DEF C!FinishScan
<1>2. PICK r \in CveRequest : r = work.who /\ work # C!Idle /\ cveTask[r].step = "running" BY <1>1, CveScannerOf
<1>3. CveHelperOK' /\ work' = C!Idle /\ C!Idle.step = "idle" BY <1>1, CveReleased
<1>4. CveRequestsOK /\ CveSettingsOK /\ CveSettingsOK' /\ CveCacheOK BY <1>1 DEF CveIInv, CveShapes, CveSettingsOK
<1>5. CASE ~ C!Unchanged(work)
  <2>1. C!Give(r, C!Partial) /\ UNCHANGED source BY <1>2, <1>5 DEF C!FinishScan
  <2>2. UNCHANGED C!cache BY <1>1, <2>1 DEF C!cache
  <2> QED BY <1>1, <1>2, <1>3, <1>4, <2>1, <2>2, CveGivePartial, CveQuietStep DEF CveRequestsOK
<1>6. CASE C!Unchanged(work)
  <2>1. PICK s : s = work.before OBVIOUS
  <2>2. s \in C!Evidence /\ CveGoodSource(s) /\ work.used = s.db
    <3>1. work.before \in C!Evidence BY <1>1, CveWorkSteps DEF CveIInv, CveShapes, CveHelperOK
    <3> QED BY <1>1, <1>6, <2>1, <3>1 DEF CveIInv, CveScanGood, C!Unchanged
  <2>3. PICK inventory0 : inventory0 = cveTask[r].inventory OBVIOUS
  <2>4. inventory0 \subseteq Record BY <1>2, <1>4, <2>3, CveTaskSteps DEF CveRequestsOK
  <2>5. PICK covered \in BOOLEAN : covered = C!Covered(inventory0, scanned, doubt) BY DEF C!Covered
  <2>6. PICK clean \in BOOLEAN : clean = (Vulnerable[s.db] \cap scanned = {}) OBVIOUS
  <2>7. PICK t : t = [step |-> "answered", inventory |-> inventory0, covered |-> covered, clean |-> clean, source |-> s]
    OBVIOUS
  <2>8. t \in CveTask BY <2>2, <2>4, <2>7 DEF CveTask, CveAnswered
  <2>9. cveTask' = [cveTask EXCEPT ![r] = t] /\ report' = report
    BY <1>2, <1>6, <2>1, <2>2, <2>3, <2>5, <2>6, <2>7 DEF C!FinishScan
  <2>10. cveTask' \in [CveRequest -> CveTask] /\ cveTask'[r] = t /\ \A q \in CveRequest : q # r => cveTask'[q] = cveTask[q]
    BY <1>4, <2>8, <2>9 DEF CveRequestsOK
  <2>11. source' = source \/ (source = Nil /\ source' \in C!Manifest /\ source'.method = "first-use")
    <3>1. CASE source = Nil
      <4>1. source' = [db |-> s.db, meta |-> s.meta, method |-> "first-use"]
        BY <1>2, <1>6, <2>1, <3>1 DEF C!FinishScan
      <4> QED BY <2>2, <3>1, <4>1 DEF C!Manifest, C!Evidence
    <3>2. CASE source # Nil BY <1>2, <1>6, <3>2 DEF C!FinishScan
    <3> QED BY <3>1, <3>2
  <2>12. CveVouched' = CveVouched BY <2>11 DEF CveVouched
  <2>13. CveCacheOK' BY <1>1, <1>4, <2>11 DEF CveCacheOK
  <2>14. CveVouched => source' = source BY <2>11 DEF CveVouched
  <2>15. CveMarkedFirst' /\ CveOnePublication' /\ CveOwnDatabase'
    BY <1>1, <1>3, <2>12, <2>14 DEF CveIInv, CveMarkedFirst, CveOnePublication, CveOwnDatabase
  <2>16. CveScanGood' BY <1>3 DEF CveScanGood
  <2>17. CveAnswersGood'
    <3>1. covered /\ clean => C!Software(inventory0) \cap Vulnerable[s.db] = {}
      BY <2>5, <2>6 DEF C!Covered
    <3>2. t.source = s /\ t.covered = covered /\ t.clean = clean /\ t.inventory = inventory0 BY <2>7
    <3> QED BY <2>2, <2>10, <3>1, <3>2 DEF CveIInv, CveAnswersGood
  <2>18. CveRequestsOK' BY <1>1, <1>4, <2>9, <2>10 DEF CveRequestsOK
  <2>19. CveReportGood' BY <2>9 DEF CveIInv, CveReportGood, C!CleanMeansClean
  <2> QED BY <1>3, <1>4, <2>13, <2>15, <2>16, <2>17, <2>18, <2>19 DEF CveIInv, CveShapes
<1> QED BY <1>5, <1>6

LEMMA CveWriteReportStep == ASSUME C!CveAssumption, CveIInv, NEW r \in CveRequest, C!WriteReport(r) PROVE CveIInv'
<1>1. cveTask[r].step = "answered" /\ UNCHANGED <<C!cache, lock, work, refresh, mode, oldest>> BY DEF C!WriteReport
<1>2. CveRequestsOK /\ CveSettingsOK /\ CveSettingsOK' BY <1>1 DEF CveIInv, CveShapes, CveSettingsOK
<1>3. CveHelperOK' BY <1>1, CveHelperStays
<1>4. PICK t \in CveTask : t = cveTask[r] BY <1>2 DEF CveRequestsOK
<1>5. /\ t.inventory \subseteq Record /\ t.covered \in BOOLEAN /\ t.clean \in BOOLEAN /\ t.source \in C!Evidence
  BY <1>1, <1>4, CveTaskSteps
<1>6. CASE ~ (t.covered /\ C!Fresh(t.source.meta))
  <2>1. C!Give(r, C!Partial) BY <1>4, <1>6 DEF C!WriteReport
  <2> QED BY <1>1, <1>2, <1>3, <2>1, CveGivePartial, CveQuietStep DEF CveRequestsOK, C!Idle
<1>7. CASE t.covered /\ C!Fresh(t.source.meta)
  <2>1. PICK new : new = [complete |-> TRUE, clean |-> t.clean, inventory |-> t.inventory, source |-> t.source,
                          oldest |-> oldest]
    OBVIOUS
  <2>2. C!Give(r, new) BY <1>4, <1>7, <2>1 DEF C!WriteReport
  <2>3. new \in C!Report BY <1>2, <1>5, <2>1 DEF C!Report, CveSettingsOK
  <2>4. C!Idle \in CveTask /\ C!Idle.step = "idle" BY DEF CveTask, C!Idle
  <2>5. report' = new /\ cveTask' \in [CveRequest -> CveTask] /\ cveTask'[r] = C!Idle
        /\ \A q \in CveRequest : q # r => cveTask'[q] = cveTask[q]
    BY <1>2, <2>2, <2>4 DEF C!Give, CveRequestsOK
  <2>6. CveRequestsOK' BY <1>1, <1>2, <2>3, <2>5 DEF CveRequestsOK
  <2>7. UNCHANGED <<file, source, pending, work>> BY <1>1 DEF C!cache
  <2>8. CveCacheOK' /\ CveMarkedFirst' /\ CveOnePublication' /\ CveOwnDatabase'
    BY <2>7 DEF CveIInv, CveShapes, CveCacheOK, CveMarkedFirst, CveOnePublication, CveOwnDatabase, CveVouched
  <2>9. CveScanGood'
    <3>1. ASSUME work.step \in {"opened", "scanning"} PROVE cveTask'[work.who] = cveTask[work.who]
      BY <1>1, <2>5, <3>1, CveScannerOf
    <3> QED BY <2>7, <3>1 DEF CveIInv, CveScanGood
  <2>10. CveAnswersGood' BY <2>4, <2>5 DEF CveIInv, CveAnswersGood
  <2>11. CveGoodSource(t.source) /\ (t.clean => C!Software(t.inventory) \cap Vulnerable[t.source.db] = {})
    BY <1>1, <1>4, <1>7 DEF CveIInv, CveAnswersGood
  <2>12. CveReportGood'
    <3>1. /\ new.clean = t.clean /\ new.source = t.source /\ new.inventory = t.inventory /\ new.oldest = oldest
      BY <2>1
    <3> QED BY <1>7, <2>5, <2>11, <3>1 DEF CveReportGood, C!CleanMeansClean, C!Fresh
  <2> QED BY <1>2, <1>3, <2>6, <2>8, <2>9, <2>10, <2>12 DEF CveIInv, CveShapes
<1> QED BY <1>6, <1>7

LEMMA CveOutsiderStep ==
  ASSUME C!CveAssumption, CveIInv, NEW f \in {"db", "meta"}, NEW content \in {Nil} \cup [pub : Publication, by : {"outsider"}],
         C!Outsider(f, content)
  PROVE  CveIInv'
<1>1. /\ file' = [file EXCEPT ![f] = content]
      /\ UNCHANGED <<source, pending, lock, refresh, cveTask, report, mode, oldest>>
  BY DEF C!Outsider
<1>2. content \in C!Content \cup {Nil} /\ (content # Nil => content.by = "outsider") BY DEF C!Content
<1>3. CveCacheOK' BY <1>1, <1>2 DEF CveIInv, CveShapes, CveCacheOK
<1>4. PICK old, w : old = work /\ w = (IF old.step \in {"observed", "scanning"} THEN [old EXCEPT !.same = FALSE] ELSE old)
  OBVIOUS
<1>5. work' = w BY <1>4 DEF C!Outsider
<1>6. /\ CveWorkOK(w) /\ w.step = old.step /\ (w = C!Idle <=> old = C!Idle)
      /\ old.step \in {"opened", "scanning"} => w.who = old.who
      /\ old.step = "scanning" => w.before = old.before /\ ~ w.same
  <2>1. CASE old.step = "observed"
    <3>1. old = [step |-> "observed", pub |-> old.pub, same |-> old.same] /\ old.pub \in Publication
      BY <1>4, <2>1, CveWorkSteps DEF CveIInv, CveShapes, CveHelperOK
    <3>2. w = [step |-> "observed", pub |-> old.pub, same |-> FALSE] BY <1>4, <2>1, <3>1
    <3> QED BY <2>1, <3>1, <3>2 DEF CveWorkOK, C!Idle
  <2>2. CASE old.step = "scanning"
    <3>1. /\ old = [step |-> "scanning", who |-> old.who, before |-> old.before, same |-> old.same, used |-> old.used]
          /\ old.who \in CveRequest /\ old.before \in C!Evidence /\ old.used \in Publication \cup {Nil}
      BY <1>4, <2>2, CveWorkSteps DEF CveIInv, CveShapes, CveHelperOK
    <3>2. w = [step |-> "scanning", who |-> old.who, before |-> old.before, same |-> FALSE, used |-> old.used]
      BY <1>4, <2>2, <3>1
    <3> QED BY <2>2, <3>1, <3>2 DEF CveWorkOK, C!Idle
  <2>3. CASE old.step \notin {"observed", "scanning"} BY <1>4, <2>3 DEF CveIInv, CveShapes, CveHelperOK
  <2> QED BY <2>1, <2>2, <2>3
<1>7. CveHelperOK'
  <2>1. CveWorkOK(work)' BY <1>5, <1>6 DEF CveWorkOK
  <2> QED BY <1>1, <1>4, <1>5, <1>6, <2>1 DEF CveIInv, CveShapes, CveHelperOK
<1>8. CveMarkedFirst' /\ CveOnePublication' BY <1>1, <1>4, <1>5, <1>6 DEF CveIInv, CveMarkedFirst,
     CveOnePublication, CveVouched
<1>9. CveOwnDatabase'
  <2>1. file'["db"] \in {file["db"], content} BY <1>1 DEF CveIInv, CveShapes, CveCacheOK
  <2> QED BY <1>1, <1>2, <2>1 DEF CveIInv, CveOwnDatabase, CveVouched
<1>10. CveScanGood' BY <1>1, <1>4, <1>5, <1>6 DEF CveIInv, CveScanGood
<1>11. CveRequestsOK' /\ CveSettingsOK' /\ CveAnswersGood' /\ CveReportGood'
  BY <1>1 DEF CveIInv, CveShapes, CveRequestsOK, CveSettingsOK, CveAnswersGood, CveReportGood, C!CleanMeansClean
<1> QED BY <1>3, <1>7, <1>8, <1>9, <1>10, <1>11 DEF CveIInv, CveShapes

LEMMA CveStutter == ASSUME CveIInv, UNCHANGED C!vars PROVE CveIInv'
<1>1. UNCHANGED <<C!cache, lock, work, refresh, cveTask, report, mode, oldest>> BY DEF C!vars, C!cache
<1>2. CveHelperOK' BY <1>1, CveHelperStays
<1>3. CveSettingsOK' BY <1>1 DEF CveIInv, CveShapes, CveSettingsOK
<1> QED BY <1>1, <1>2, <1>3, CveQuietStep DEF CveIInv, CveShapes, CveRequestsOK

LEMMA CveStep == ASSUME C!CveAssumption, CveIInv, [C!Next]_C!vars PROVE CveIInv'
<1>1. CASE C!Download BY <1>1, CveRefreshStep, CveHelperStep, CvePublishStep, CveUnmarkStep DEF C!Download
<1>2. CASE C!Import BY <1>2, CveRegisterImportStep, CveHelperStep DEF C!Import
<1>3. CASE C!Scan
  BY <1>3, CveRequestStep, CveWriteReportStep, CveCheckSourceStep, CveOpenDatabaseStep, CveHelperStep,
       CveFinishScanStep DEF C!Scan
<1>4. CASE C!World BY <1>4, CveHelperStep, CveSettingStep, CveOutsiderStep DEF C!World
<1> QED BY <1>1, <1>2, <1>3, <1>4, CveStutter DEF C!Next

LEMMA CveTypesHold == ASSUME CveIInv PROVE C!TypeOK
<1>1. ASSUME NEW r \in CveRequest
      PROVE  \/ cveTask[r] = C!Idle
             \/ cveTask[r] \in [step : {"awaiting", "queued", "running"}, inventory : SUBSET Record]
             \/ cveTask[r] \in [step : {"answered"}, inventory : SUBSET Record, covered : BOOLEAN, clean : BOOLEAN,
                             source : C!Evidence]
  BY DEF CveIInv, CveShapes, CveRequestsOK, CveTask, CveWaiting, CveAnswered
<1>2. /\ refresh \in [step : {"none", "queued", "running", "stored"}, tries : 0 .. Registries] /\ report \in C!Report
      /\ mode \in {"online", "offline"} /\ oldest \in Nat
  BY DEF CveIInv, CveShapes, CveRequestsOK, CveRefresh, CveSettingsOK
<1>3. /\ file \in [{"db", "meta"} -> C!Content \cup {Nil}] /\ source \in C!Manifest \cup {Nil}
      /\ pending \in BOOLEAN /\ lock \in {"free", "helper", "orphan"}
  BY DEF CveIInv, CveShapes, CveCacheOK, CveHelperOK
<1>5. (lock = "helper") <=> (work # C!Idle) BY DEF CveIInv, CveShapes, CveHelperOK
<1>4. CveWorkOK(work) BY DEF CveIInv, CveShapes, CveHelperOK
<1> QED BY <1>1, <1>2, <1>3, <1>4, <1>5 DEF C!TypeOK, CveWorkOK

LEMMA CveReportsHold == ASSUME CveIInv PROVE C!CleanMeansClean /\ C!NoMixedSource
BY DEF CveIInv, CveReportGood, CveGoodSource, C!NoMixedSource

-----------------------------------------------------------------------------
(* Verdicts                                                                 *)

(* What the store has of an inventory and of an answer.                     *)
VerdictSubjectOK ==
  /\ subject.os \in System /\ subject.packages \subseteq Package /\ subject.gaps \in BOOLEAN
  /\ \A p \in subject.packages : p.manager = V!Platform(subject.os).manager

VerdictReplyOK == reply # Nil => reply.status \in V!Status /\ reply.detected \in BOOLEAN /\ reply.fresh \in BOOLEAN

VerdictFindings == {V!TrivyFinding(e) : e \in reply.about}

VerdictPartial == ~ V!ScanCoverage \/ ~ reply.fresh \/ (VerdictFindings # {} /\ V!AdvisorySourceMatch(reply.source) = "mismatch")

(* A report says what follows from the inventory and the answer.            *)
VerdictComputed ==
  assessment # Nil =>
    /\ reply # Nil
    /\ assessment = [findings |-> VerdictFindings, partial |-> VerdictPartial, clean |-> VerdictFindings = {} /\ ~ VerdictPartial]

VerdictIInv == VerdictSubjectOK /\ VerdictReplyOK /\ VerdictComputed

(* What follows from an inventory and an answer follows from nothing else.   *)
LEMMA VerdictSameReport == ASSUME UNCHANGED <<subject, reply>> PROVE VerdictFindings' = VerdictFindings /\ VerdictPartial' = VerdictPartial
<1>1. VerdictFindings' = VerdictFindings
  BY DEF VerdictFindings, V!TrivyFinding, V!AssessCveApplicability, V!StatusForVendor, V!FindingProvenance,
       V!Identified, V!Named,
     V!Software, V!PackageProvenance, V!AdvisorySourceMatch, V!Feed, V!Family
<1>2. V!ScanCoverage' = V!ScanCoverage /\ V!AdvisorySourceMatch(reply.source)' = V!AdvisorySourceMatch(reply.source)
  BY DEF V!ScanCoverage, V!Software, V!PackageProvenance, V!AdvisorySourceMatch, V!Feed, V!Family
<1> QED BY <1>1, <1>2 DEF VerdictPartial

LEMMA VerdictInitIInv == ASSUME V!Init PROVE VerdictIInv
BY DEF V!Init, VerdictIInv, VerdictSubjectOK, VerdictReplyOK, VerdictComputed

LEMMA VerdictStep == ASSUME VerdictIInv, [V!Next]_<<subject, reply, assessment>> PROVE VerdictIInv'
<1>1. CASE V!Answers
  <2>1. PICK about \in V!Entries, status \in V!Status,
               source0 \in (UNION {V!AdvisorySources[f] : f \in DOMAIN V!AdvisorySources}) \cup {Nil},
               detected, fresh \in BOOLEAN, decoded \in SUBSET {V!Ref(p) : p \in subject.packages} :
                 V!Answer(about, status, source0, detected, decoded, fresh)
    BY <1>1 DEF V!Answers
  <2>2. reply = Nil /\ UNCHANGED <<subject, assessment>> /\ assessment = Nil
    BY <2>1 DEF V!Answer, VerdictIInv, VerdictComputed
  <2>3. reply' = [about |-> about, status |-> status, source |-> source0, detected |-> detected, decoded |-> decoded,
                  fresh |-> fresh]
    BY <2>1 DEF V!Answer
  <2>4. VerdictReplyOK' BY <2>3 DEF VerdictReplyOK
  <2>5. VerdictSubjectOK' BY <2>2 DEF VerdictIInv, VerdictSubjectOK
  <2>6. VerdictComputed' BY <2>2 DEF VerdictComputed
  <2> QED BY <2>4, <2>5, <2>6 DEF VerdictIInv
<1>2. CASE V!Assess
  <2>1. /\ reply # Nil /\ UNCHANGED <<subject, reply>>
        /\ assessment' = [findings |-> VerdictFindings, partial |-> VerdictPartial, clean |-> VerdictFindings = {} /\ ~ VerdictPartial]
    BY <1>2 DEF V!Assess, VerdictFindings, VerdictPartial
  <2>2. VerdictFindings' = VerdictFindings /\ VerdictPartial' = VerdictPartial BY <2>1, VerdictSameReport
  <2>3. VerdictComputed' BY <2>1, <2>2 DEF VerdictComputed
  <2> QED BY <2>1, <2>3 DEF VerdictIInv, VerdictSubjectOK, VerdictReplyOK
<1>3. CASE UNCHANGED <<subject, reply, assessment>>
  <2>1. VerdictFindings' = VerdictFindings /\ VerdictPartial' = VerdictPartial BY <1>3, VerdictSameReport
  <2> QED BY <1>3, <2>1 DEF VerdictIInv, VerdictSubjectOK, VerdictReplyOK, VerdictComputed
<1> QED BY <1>1, <1>2, <1>3 DEF V!Next

(* Only the distributions that have advisories of their own have a feed.    *)
LEMMA VerdictOwnFeed ==
  ASSUME V!VerdictAssumption, VerdictSubjectOK, V!Feed # Nil
  PROVE  /\ V!OwnAdvisories /\ V!Feed = V!Adapter[subject.os.id].feed /\ V!Family = V!Feed
         /\ V!Feed \in {"debian", "ubuntu", "centos", "redhat", "alpine", "wolfi"}
         /\ \A p \in subject.packages : p.manager \in {"dpkg", "rpm", "apk"}
<1>1. PICK id : id = subject.os.id OBVIOUS
<1>2. id \in DOMAIN V!Adapter
  <2>1. SUFFICES ASSUME id \notin DOMAIN V!Adapter PROVE V!Feed = Nil OBVIOUS
  <2>2. CASE subject.os.like \in DOMAIN V!Adapter
    <3>1. PICK a : a = V!Adapter[subject.os.like] OBVIOUS
    <3>2. DOMAIN a = {"manager", "feed"} BY <2>2, <3>1 DEF V!Adapter
    <3>3. [a EXCEPT !.feed = Nil].feed = Nil /\ [[a EXCEPT !.feed = Nil] EXCEPT !.feed = Nil].feed = Nil BY <3>2
    <3> QED BY <1>1, <2>1, <2>2, <3>1, <3>3 DEF V!Feed, V!Platform
  <2>3. CASE subject.os.like \notin DOMAIN V!Adapter BY <1>1, <2>1, <2>3 DEF V!Feed, V!Platform
  <2> QED BY <2>2, <2>3
<1>3. PICK a : a = V!Adapter[id] OBVIOUS
<1>4. /\ a = [manager |-> a.manager, feed |-> a.feed] /\ a.manager \in {"dpkg", "rpm", "apk"}
      /\ a.feed \in {"debian", "ubuntu", "centos", "redhat", "alpine", "wolfi", Nil}
  BY <1>2, <1>3 DEF V!Adapter
<1>5. ~ (id = "centos" /\ subject.os.stream)
  <2>1. SUFFICES ASSUME id = "centos" /\ subject.os.stream PROVE V!Feed = Nil OBVIOUS
  <2> QED BY <1>1, <1>2, <1>3, <1>4, <2>1 DEF V!Feed, V!Platform
<1>6. V!Platform(subject.os) = a BY <1>1, <1>2, <1>3, <1>5 DEF V!Platform
<1>7. V!Feed = a.feed BY <1>6 DEF V!Feed
<1> QED BY <1>1, <1>2, <1>3, <1>4, <1>5, <1>6, <1>7 DEF V!OwnAdvisories, V!Family, VerdictSubjectOK

(* Packages of the maintainer are the distribution's own.                   *)
LEMMA VerdictMaintainersKnown ==
  ASSUME V!VerdictAssumption, VerdictSubjectOK, V!Feed # Nil, NEW p \in subject.packages, V!PackageProvenance(p) = "maintainer"
  PROVE  ~ V!Foreign(p)
<1>1. /\ V!Feed = V!Adapter[subject.os.id].feed /\ V!Family = V!Feed
      /\ V!Feed \in {"debian", "ubuntu", "centos", "redhat", "alpine", "wolfi"}
      /\ p.manager \in {"dpkg", "rpm", "apk"}
  BY VerdictOwnFeed
<1>2. V!Feed \in DOMAIN V!Makers BY <1>1 DEF V!Makers
<1>3. PICK makers : makers = V!Makers[V!Feed] OBVIOUS
<1>4. p.maker \in makers
  BY <1>1, <1>2, <1>3 DEF V!PackageProvenance
<1>5. Nil \notin makers BY <1>1, <1>3 DEF V!Makers, V!VerdictAssumption
<1> QED BY <1>1, <1>3, <1>4, <1>5 DEF V!Foreign

(* Two ways to look a package up agree on an entry with a verdict.          *)
LEMMA VerdictOneCopy ==
  ASSUME V!VerdictAssumption, VerdictSubjectOK, NEW e, V!Identified(e)
  PROVE  \E q \in subject.packages : V!Named(e) = {q} /\ V!PackageProvenance(q) = "maintainer"
<1>1. PICK S0 : S0 = V!Software(V!Named(e)) OBVIOUS
<1>2. S0 \subseteq subject.packages /\ IsFiniteSet(S0)
  <2>1. S0 \subseteq subject.packages BY <1>1 DEF V!Software, V!Named
  <2>2. S0 \subseteq Package BY <2>1 DEF VerdictSubjectOK
  <2> QED BY <2>1, <2>2, FS_Subset DEF V!VerdictAssumption, V!IsFiniteSet, IsFiniteSet
<1>3. PICK q : S0 = {q}
  <2>1. Cardinality(S0) = 1 BY <1>1 DEF V!Identified, V!Cardinality, Cardinality
  <2> QED BY <1>2, <2>1, FS_Singleton
<1>4. q \in V!Named(e) /\ ~ V!IsKey(q) /\ q.name = e.name /\ V!PackageProvenance(q) = "maintainer"
  BY <1>1, <1>3 DEF V!Software, V!Identified
<1>5. ASSUME NEW p \in V!Named(e) PROVE p = q
  <2>1. p.name = q.name /\ p.manager = q.manager
    <3>1. CASE e.ref # Nil BY <1>4, <1>5, <3>1 DEF V!Named, V!Ref
    <3>2. CASE e.ref = Nil BY <1>2, <1>3, <1>4, <1>5, <3>2 DEF V!Named, VerdictSubjectOK
    <3> QED BY <3>1, <3>2
  <2>2. ~ V!IsKey(p) BY <1>4, <2>1 DEF V!IsKey
  <2> QED BY <1>1, <1>3, <1>5, <2>2 DEF V!Software
<1> QED BY <1>2, <1>3, <1>4, <1>5

LEMMA VerdictTypesHold == ASSUME VerdictIInv PROVE V!TypeOK
<1>1. ASSUME assessment # Nil
      PROVE  /\ {assessment.partial, assessment.clean} \subseteq BOOLEAN
             /\ \A f \in assessment.findings :
                  /\ f.verdict \in {"not_affected", "affected", "under_investigation", "unknown"}
                  /\ f.status \in {"passed", "failed", "manual"}
  <2>1. /\ assessment.findings = VerdictFindings /\ assessment.clean = (VerdictFindings = {} /\ ~ VerdictPartial)
        /\ assessment.partial = VerdictPartial /\ reply.status \in V!Status
    BY <1>1 DEF VerdictIInv, VerdictComputed, VerdictReplyOK
  <2>2. VerdictPartial \in BOOLEAN BY DEF VerdictPartial
  <2>3. ASSUME NEW e \in reply.about
        PROVE  /\ V!AssessCveApplicability(e) \in {"not_affected", "affected", "under_investigation", "unknown"}
               /\ V!StatusForVendor \in {"passed", "failed", "manual"}
    BY <2>1 DEF V!AssessCveApplicability, V!StatusForVendor, V!Status
  <2>4. \A f \in VerdictFindings : /\ f.verdict \in {"not_affected", "affected", "under_investigation", "unknown"}
                                   /\ f.status \in {"passed", "failed", "manual"}
    BY <2>3 DEF VerdictFindings, V!TrivyFinding
  <2> QED BY <2>1, <2>2, <2>4
<1> QED BY <1>1 DEF VerdictIInv, VerdictSubjectOK, VerdictReplyOK, V!TypeOK

LEMMA VerdictEarned == ASSUME V!VerdictAssumption, VerdictIInv PROVE V!VerdictsAreEarned
<1>1. SUFFICES ASSUME assessment # Nil
      PROVE  /\ \A f \in assessment.findings :
                  /\ f.verdict # "unknown" =>
                       f.status = [not_affected |-> "passed", affected |-> "failed",
                                   under_investigation |-> "manual"][f.verdict]
                  /\ f.status # "manual" \/ f.verdict # "unknown" =>
                       /\ V!OwnAdvisories /\ reply.source \in V!AdvisorySources[V!Adapter[subject.os.id].feed] \cup {Nil}
                       /\ V!Named(f.entry) # {} /\ \A p \in V!Named(f.entry) : ~ V!Foreign(p)
             /\ assessment.clean =>
                  /\ V!OwnAdvisories /\ reply.fresh /\ reply.about = {}
                  /\ \A p \in V!Software(subject.packages) : ~ V!Foreign(p) /\ V!Ref(p) \in reply.decoded
  BY DEF V!VerdictsAreEarned
<1>2. /\ VerdictSubjectOK /\ reply.status \in V!Status /\ reply.fresh \in BOOLEAN
      /\ assessment.findings = VerdictFindings /\ assessment.clean = (VerdictFindings = {} /\ ~ VerdictPartial)
  BY <1>1 DEF VerdictIInv, VerdictComputed, VerdictReplyOK
<1>3. ASSUME NEW f \in assessment.findings
      PROVE  /\ f.verdict # "unknown" =>
                  f.status = [not_affected |-> "passed", affected |-> "failed",
                              under_investigation |-> "manual"][f.verdict]
             /\ f.status # "manual" \/ f.verdict # "unknown" =>
                  /\ V!OwnAdvisories /\ reply.source \in V!AdvisorySources[V!Adapter[subject.os.id].feed] \cup {Nil}
                  /\ V!Named(f.entry) # {} /\ \A p \in V!Named(f.entry) : ~ V!Foreign(p)
  <2>1. PICK e \in reply.about : f = V!TrivyFinding(e) BY <1>2, <1>3 DEF VerdictFindings
  <2>2. /\ f.entry = e /\ f.verdict = V!AssessCveApplicability(e)
        /\ f.status = IF V!FindingProvenance(e) # "maintainer" \/ V!AdvisorySourceMatch(reply.source) = "mismatch"
                      THEN "manual" ELSE V!StatusForVendor
    BY <2>1 DEF V!TrivyFinding
  <2>3. ASSUME f.verdict # "unknown"
        PROVE  /\ V!FindingProvenance(e) = "maintainer" /\ V!AdvisorySourceMatch(reply.source) = "matched"
               /\ f.status = V!StatusForVendor
    <3>1. V!Feed # Nil /\ V!Identified(e) /\ V!AdvisorySourceMatch(reply.source) = "matched"
      BY <2>2, <2>3 DEF V!AssessCveApplicability
    <3>2. PICK q \in subject.packages : V!Named(e) = {q} /\ V!PackageProvenance(q) = "maintainer"
      BY <1>2, <3>1, VerdictOneCopy
    <3>3. {V!PackageProvenance(p) : p \in V!Named(e)} = {"maintainer"} BY <3>2
    <3>4. V!FindingProvenance(e) = "maintainer" BY <3>1, <3>3 DEF V!FindingProvenance
    <3> QED BY <2>2, <3>1, <3>4
  <2>4. ASSUME f.verdict # "unknown"
        PROVE  f.status = [not_affected |-> "passed", affected |-> "failed", under_investigation |-> "manual"][f.verdict]
    <3>1. f.status = V!StatusForVendor BY <2>3, <2>4
    <3>2. f.verdict = CASE reply.status = "not_affected" -> "not_affected"
                         [] reply.status \in {"affected", "fixed", "will_not_fix", "fix_deferred"} -> "affected"
                         [] reply.status = "end_of_life" -> "under_investigation"
                         [] reply.status = "unknown" -> "unknown"
      BY <2>2, <2>4 DEF V!AssessCveApplicability
    <3>3. CASE reply.status = "not_affected" BY <3>1, <3>2, <3>3 DEF V!StatusForVendor
    <3>4. CASE reply.status \in {"affected", "fixed", "will_not_fix", "fix_deferred"}
      BY <3>1, <3>2, <3>4 DEF V!StatusForVendor
    <3>5. CASE reply.status = "end_of_life" BY <3>1, <3>2, <3>5 DEF V!StatusForVendor
    <3>6. CASE reply.status = "unknown" BY <2>4, <3>2, <3>6
    <3> QED BY <1>2, <3>3, <3>4, <3>5, <3>6 DEF V!Status
  <2>5. ASSUME V!FindingProvenance(e) = "maintainer", V!AdvisorySourceMatch(reply.source) # "mismatch"
        PROVE  /\ V!OwnAdvisories /\ reply.source \in V!AdvisorySources[V!Adapter[subject.os.id].feed] \cup {Nil}
               /\ V!Named(e) # {} /\ \A p \in V!Named(e) : ~ V!Foreign(p)
    <3>1. V!Feed # Nil /\ {V!PackageProvenance(p) : p \in V!Named(e)} = {"maintainer"}
      BY <2>5 DEF V!FindingProvenance
    <3>2. V!Named(e) # {} /\ \A p \in V!Named(e) : p \in subject.packages /\ V!PackageProvenance(p) = "maintainer"
      BY <3>1 DEF V!Named
    <3>3. \A p \in V!Named(e) : ~ V!Foreign(p) BY <1>2, <3>1, <3>2, VerdictMaintainersKnown
    <3>4. V!OwnAdvisories /\ V!Feed = V!Adapter[subject.os.id].feed BY <1>2, <3>1, VerdictOwnFeed
    <3>5. reply.source \in V!AdvisorySources[V!Feed] \cup {Nil} BY <2>5, <3>1 DEF V!AdvisorySourceMatch
    <3> QED BY <3>2, <3>3, <3>4, <3>5
  <2>6. ASSUME f.status # "manual" PROVE V!FindingProvenance(e) = "maintainer" /\ V!AdvisorySourceMatch(reply.source) # "mismatch"
    BY <2>2, <2>6
  <2> QED BY <2>2, <2>3, <2>4, <2>5, <2>6
<1>4. ASSUME assessment.clean
      PROVE  /\ V!OwnAdvisories /\ reply.fresh /\ reply.about = {}
             /\ \A p \in V!Software(subject.packages) : ~ V!Foreign(p) /\ V!Ref(p) \in reply.decoded
  <2>1. VerdictFindings = {} /\ V!ScanCoverage /\ reply.fresh BY <1>2, <1>4 DEF VerdictPartial
  <2>2. reply.about = {} BY <2>1 DEF VerdictFindings
  <2>3. PICK refs : refs = {V!Ref(p) : p \in V!Software(subject.packages)} OBVIOUS
  <2>4. PICK scanned : scanned = reply.decoded \cap refs OBVIOUS
  <2>5. /\ V!Feed # Nil /\ \A p \in V!Software(subject.packages) : V!PackageProvenance(p) = "maintainer"
        /\ Cardinality(scanned) = Cardinality(refs)
    BY <2>1, <2>3, <2>4 DEF V!ScanCoverage, V!Cardinality, Cardinality
  <2>6. IsFiniteSet(refs)
    <3>1. V!Software(subject.packages) \subseteq Package BY <1>2 DEF VerdictSubjectOK, V!Software
    <3>2. IsFiniteSet(V!Software(subject.packages)) BY <3>1, FS_Subset DEF V!VerdictAssumption, V!IsFiniteSet, IsFiniteSet
    <3> QED
      <4>1. PICK f : f = [p \in V!Software(subject.packages) |-> V!Ref(p)] OBVIOUS
      <4>2. f \in [V!Software(subject.packages) -> refs] /\ \A r \in refs : \E p \in V!Software(subject.packages) : f[p] = r
        BY <2>3, <4>1
      <4>3. f \in Surjection(V!Software(subject.packages), refs) BY <4>2 DEF Surjection
      <4> QED BY <3>2, <4>3, FS_Surjection
  <2>7. scanned = refs
    <3>1. scanned \subseteq refs BY <2>4
    <3> QED BY <2>5, <2>6, <3>1, FS_Subset
  <2>8. \A p \in V!Software(subject.packages) : V!Ref(p) \in reply.decoded BY <2>3, <2>4, <2>7
  <2>9. \A p \in V!Software(subject.packages) : ~ V!Foreign(p)
    BY <1>2, <2>5, VerdictMaintainersKnown DEF V!Software
  <2> QED BY <1>2, <2>1, <2>2, <2>5, <2>8, <2>9, VerdictOwnFeed
<1> QED BY <1>3, <1>4

-----------------------------------------------------------------------------
(* Policies, exceptions and their audits                                    *)

(* The policy of a selection is the one that governs in these settings.      *)
FleetResolved(s, c, tool, a) ==
  /\ s.groups = c.members[a]
  /\ IF s.group = Nil THEN environment /\ \A g \in O!Groups : ~ O!Governs(c, tool, g, a)
     ELSE O!Governs(c, tool, s.group, a) /\ s.config = c.policies[tool][s.group]

FleetAgreed ==
  scap # Nil =>
    /\ scap.exceptions = scap.agreed.exceptions
    /\ scap.kind \in O!Tool =>
         \A a \in DOMAIN scap.selections : FleetResolved(scap.selections[a], scap.agreed, scap.kind, a)

(* A report of the launch `x`, marked with what that took along.             *)
FleetMatches(r, x, a) ==
  /\ a \in DOMAIN x.selections
  /\ r.kind = x.kind /\ r.group = x.selections[a].group /\ r.config = x.selections[a].config
  /\ r.evaluated # Nil =>
       r.marked = {y \in O!Groups \X FleetRule : /\ y[1] \in x.selections[a].groups /\ y[2] \in r.failed
                                         /\ x.exceptions[y] > r.evaluated}

FleetReported == \A a \in FleetAlias : scapReports[a] # Nil => scap # Nil /\ FleetMatches(scapReports[a], scap, a)

(* A host has no result before its turn is over.                             *)
FleetAhead ==
  scap # Nil =>
    /\ scap.current \notin scap.todo
    /\ scap.stage = "runs" =>
         \A a \in DOMAIN scap.results : a = scap.current \/ a \in scap.todo => scap.results[a] = Nil

FleetShown == (\A c \in asked : c.alias = chosen) /\ (preparation # Nil => preparation.alias = chosen)

FleetIInv == O!TypeOK /\ FleetAgreed /\ FleetReported /\ FleetAhead /\ O!CompleteMeansAccounted /\ FleetShown

-----------------------------------------------------------------------------
(* What governs a host                                                      *)

LEMMA FleetFiniteGroups == ASSUME O!FleetAssumption PROVE IsFiniteSet(FleetGroup)
BY DEF O!FleetAssumption, O!IsFiniteSet, IsFiniteSet

LEMMA FleetAssigned ==
  ASSUME O!FleetAssumption, NEW tool, NEW groups
  PROVE  /\ IsFiniteSet(O!Candidates(tool, groups)) /\ Cardinality(O!Candidates(tool, groups)) \in Nat
         /\ O!Candidates(tool, groups) \subseteq groups \cap O!Groups
         /\ O!Candidates(tool, groups) = {} <=> Cardinality(O!Candidates(tool, groups)) = 0
         /\ \A g : g \in O!Candidates(tool, groups) =>
              /\ policies[tool][g] # Nil
              /\ Cardinality(O!Candidates(tool, groups)) = 1 =>
                   \A other \in groups \cap O!Groups :
                     other # g /\ policies[tool][other] # Nil => g # O!Linux /\ other = O!Linux
         /\ O!Candidates(tool, groups) = {} => \A g \in groups \cap O!Groups : policies[tool][g] = Nil
<1>1. PICK of : of = O!Candidates(tool, groups) OBVIOUS
<1>2. PICK assigned : assigned = {g \in groups \cap O!Groups : policies[tool][g] # Nil} OBVIOUS
<1>3. of = IF assigned = {O!Linux} THEN assigned ELSE assigned \ {O!Linux} BY <1>1, <1>2 DEF O!Candidates
<1>4. of \subseteq O!Groups BY <1>2, <1>3
<1>5. IsFiniteSet(O!Groups)
  BY FleetFiniteGroups, FS_AddElement DEF O!Groups
<1>6. IsFiniteSet(of) BY <1>4, <1>5, FS_Subset
<1>7. Cardinality(of) \in Nat /\ (of = {} <=> Cardinality(of) = 0) BY <1>6, FS_CardinalityType, FS_EmptySet
<1>8. Cardinality(of) = 1 => \E x : of = {x} BY <1>6, FS_Singleton
<1> QED BY <1>1, <1>2, <1>3, <1>4, <1>6, <1>7, <1>8

(* The page's handler finds the same policies.                              *)
LEMMA FleetSameCandidates ==
  ASSUME O!FleetAssumption, NEW tool, NEW groups,
         NEW specific, specific = {g \in groups \cap FleetGroup : policies[tool][g] # Nil},
         NEW of, of = IF specific # {} THEN specific ELSE {g \in groups \cap {O!Linux} : policies[tool][g] # Nil}
  PROVE  /\ of = O!Candidates(tool, groups) /\ Cardinality(specific) \in Nat
         /\ Cardinality(specific) > 1 <=> Cardinality(of) > 1
<1>1. PICK assigned : assigned = {g \in groups \cap O!Groups : policies[tool][g] # Nil} OBVIOUS
<1>2. O!Candidates(tool, groups) = IF assigned = {O!Linux} THEN assigned ELSE assigned \ {O!Linux}
  BY <1>1 DEF O!Candidates
<1>3. specific = assigned \ {O!Linux} BY <1>1 DEF O!Groups, O!FleetAssumption
<1>4. of = O!Candidates(tool, groups)
  <2>1. CASE specific # {} BY <1>2, <1>3, <2>1
  <2>2. CASE specific = {} BY <1>1, <1>2, <1>3, <2>2 DEF O!Groups
  <2> QED BY <2>1, <2>2
<1>5. IsFiniteSet(specific) /\ Cardinality(specific) \in Nat
  <2>1. specific \subseteq FleetGroup OBVIOUS
  <2> QED BY <2>1, FleetFiniteGroups, FS_Subset, FS_CardinalityType
<1>6. Cardinality(specific) > 1 <=> Cardinality(of) > 1
  <2>1. CASE specific # {} BY <2>1
  <2>2. CASE specific = {}
    <3>1. Cardinality(specific) = 0 BY <2>2, FS_EmptySet
    <3>2. of = {} \/ of = {O!Linux} BY <2>2
    <3>3. Cardinality(of) = 0 \/ Cardinality(of) = 1 BY <3>2, FS_EmptySet, FS_Singleton
    <3> QED BY <3>1, <3>3
  <2> QED BY <2>1, <2>2
<1> QED BY <1>4, <1>5, <1>6

LEMMA FleetNotRefused ==
  ASSUME NEW g, NEW c, NEW s PROVE [group |-> g, config |-> c, groups |-> s] # O!Refused
BY DEF O!Refused

(* What a launch chooses for a managed host.                                *)
LEMMA FleetResolves ==
  ASSUME O!FleetAssumption, NEW tool \in O!Kind, NEW a, O!ResolveForHost(tool, a) # O!Refused
  PROVE  /\ O!Managed(a)
         /\ tool \notin O!Tool => O!ResolveForHost(tool, a) = [group |-> Nil, config |-> Nil, groups |-> members[a]]
         /\ tool \in O!Tool =>
              \/ /\ O!Candidates(tool, members[a]) = {} /\ tool = "openscap" /\ environment
                 /\ O!ResolveForHost(tool, a) = [group |-> Nil, config |-> "environment", groups |-> members[a]]
              \/ \E g : /\ O!Candidates(tool, members[a]) = {g} /\ policies[tool][g] # O!Bare
                        /\ O!ResolveForHost(tool, a) = [group |-> g, config |-> policies[tool][g], groups |-> members[a]]
<1>1. PICK of : of = IF tool \in O!Tool THEN O!Candidates(tool, members[a]) ELSE {} OBVIOUS
<1>2. IsFiniteSet(of) /\ Cardinality(of) \in Nat /\ (of = {} <=> Cardinality(of) = 0)
  BY <1>1, FleetAssigned, FS_EmptySet
<1>3. O!Managed(a) /\ ~ (Cardinality(of) > 1) BY <1>1, <1>2 DEF O!ResolveForHost, O!Cardinality, Cardinality
<1>4. CASE tool \notin O!Tool BY <1>1, <1>2, <1>3, <1>4 DEF O!ResolveForHost, O!Cardinality, Cardinality
<1>5. CASE tool \in O!Tool /\ of = {} BY <1>1, <1>2, <1>3, <1>5 DEF O!ResolveForHost, O!Cardinality, Cardinality
<1>6. CASE tool \in O!Tool /\ of # {}
  <2>1. Cardinality(of) = 1 BY <1>2, <1>3, <1>6
  <2>2. PICK g : of = {g} BY <1>2, <2>1, FS_Singleton
  <2>3. (CHOOSE x \in of : TRUE) = g BY <2>2
  <2> QED BY <1>1, <1>3, <1>6, <2>1, <2>2, <2>3 DEF O!ResolveForHost, O!Cardinality, Cardinality
<1> QED BY <1>4, <1>5, <1>6

LEMMA FleetResolvedSelection ==
  ASSUME O!FleetAssumption, members \in [FleetAlias -> FleetMembership], policies \in [O!Tool -> [O!Groups -> Config \cup {O!Bare, Nil}]],
         NEW tool \in O!Kind, NEW a \in FleetAlias, O!ResolveForHost(tool, a) # O!Refused
  PROVE  /\ O!ResolveForHost(tool, a) \in O!Selection
         /\ tool \in O!Tool =>
              FleetResolved(O!ResolveForHost(tool, a), [members |-> members, policies |-> policies, exceptions |-> exceptions], tool, a)
<1>1. members[a] \subseteq O!Groups \cup {"all"} BY DEF O!FleetAssumption
<1>2. PICK c : c = [members |-> members, policies |-> policies, exceptions |-> exceptions] OBVIOUS
<1>3. CASE tool \notin O!Tool
  <2>1. O!ResolveForHost(tool, a) = [group |-> Nil, config |-> Nil, groups |-> members[a]] BY <1>3, FleetResolves
  <2> QED BY <1>1, <1>3, <2>1 DEF O!Selection
<1>4. CASE /\ tool \in O!Tool /\ O!Candidates(tool, members[a]) = {} /\ tool = "openscap" /\ environment
           /\ O!ResolveForHost(tool, a) = [group |-> Nil, config |-> "environment", groups |-> members[a]]
  <2>1. \A g \in members[a] \cap O!Groups : policies[tool][g] = Nil BY <1>4, FleetAssigned
  <2>2. \A g \in O!Groups : ~ O!Governs(c, tool, g, a) BY <1>2, <2>1 DEF O!Governs
  <2> QED BY <1>1, <1>2, <1>4, <2>2 DEF O!Selection, FleetResolved
<1>5. ASSUME tool \in O!Tool, NEW g, O!Candidates(tool, members[a]) = {g}, policies[tool][g] # O!Bare,
             O!ResolveForHost(tool, a) = [group |-> g, config |-> policies[tool][g], groups |-> members[a]]
      PROVE  O!ResolveForHost(tool, a) \in O!Selection /\ FleetResolved(O!ResolveForHost(tool, a), c, tool, a)
  <2>1. g \in O!Candidates(tool, members[a]) /\ Cardinality(O!Candidates(tool, members[a])) = 1 BY <1>5, FS_Singleton
  <2>2. /\ g \in members[a] \cap O!Groups /\ policies[tool][g] # Nil
        /\ \A other \in members[a] \cap O!Groups :
             other # g /\ policies[tool][other] # Nil => g # O!Linux /\ other = O!Linux
    <3>1. PICK groups : groups = members[a] OBVIOUS
    <3>2. g \in O!Candidates(tool, groups) /\ Cardinality(O!Candidates(tool, groups)) = 1 BY <2>1, <3>1
    <3>3. /\ g \in groups \cap O!Groups /\ policies[tool][g] # Nil
          /\ \A other \in groups \cap O!Groups :
               other # g /\ policies[tool][other] # Nil => g # O!Linux /\ other = O!Linux
      BY <3>2, FleetAssigned
    <3> QED BY <3>1, <3>3
  <2>3. policies[tool][g] \in Config BY <1>5, <2>2
  <2>4. O!Governs(c, tool, g, a) BY <1>2, <2>2 DEF O!Governs
  <2>5. g # Nil BY <2>2 DEF O!FleetAssumption
  <2> QED BY <1>1, <1>2, <1>5, <2>2, <2>3, <2>4, <2>5 DEF O!Selection, FleetResolved
<1> QED BY <1>2, <1>3, <1>4, <1>5, FleetResolves

(* The preparation page tells what a launch would choose.                   *)
LEMMA FleetSourceIs ==
  ASSUME O!FleetAssumption, NEW tool, NEW groups, environment \in BOOLEAN
  PROVE  /\ Cardinality(O!Candidates(tool, groups)) > 1 =>
              O!SourceStatus(tool, groups) = [state |-> "conflict", group |-> Nil]
         /\ O!Candidates(tool, groups) = {} =>
              O!SourceStatus(tool, groups) =
                [state |-> IF tool = "openscap" /\ environment THEN "configured" ELSE "missing", group |-> Nil]
         /\ \A g : O!Candidates(tool, groups) = {g} =>
              O!SourceStatus(tool, groups) =
                [state |-> IF policies[tool][g] = O!Bare THEN "incomplete" ELSE "configured", group |-> g]
<1>1. PICK specific : specific = {g \in groups \cap FleetGroup : policies[tool][g] # Nil} OBVIOUS
<1>2. PICK of : of = IF specific # {} THEN specific ELSE {g \in groups \cap {O!Linux} : policies[tool][g] # Nil} OBVIOUS
<1>3. /\ of = O!Candidates(tool, groups) /\ Cardinality(specific) \in Nat
      /\ Cardinality(specific) > 1 <=> Cardinality(of) > 1
  BY <1>1, <1>2, FleetSameCandidates
<1>4. IsFiniteSet(of) /\ Cardinality(of) \in Nat /\ (of = {} <=> Cardinality(of) = 0) BY <1>3, FleetAssigned
<1>5. O!SourceStatus(tool, groups) =
        CASE Cardinality(specific) > 1 -> [state |-> "conflict", group |-> Nil]
          [] Cardinality(specific) <= 1 /\ of = {} ->
               [state |-> IF tool = "openscap" /\ environment THEN "configured" ELSE "missing", group |-> Nil]
          [] Cardinality(specific) <= 1 /\ of # {} ->
               [state |-> IF policies[tool][CHOOSE x \in of : TRUE] = O!Bare THEN "incomplete" ELSE "configured",
                group |-> CHOOSE x \in of : TRUE]
  BY <1>1, <1>2 DEF O!SourceStatus, O!Cardinality, Cardinality
<1>6. CASE Cardinality(of) > 1
  <2>1. of # {} /\ \A g : of # {g} BY <1>4, <1>6, FS_Singleton
  <2>2. O!SourceStatus(tool, groups) = [state |-> "conflict", group |-> Nil] BY <1>3, <1>5, <1>6
  <2> QED BY <1>3, <2>1, <2>2
<1>7. CASE of = {} BY <1>3, <1>4, <1>5, <1>7
<1>8. ASSUME NEW g, of = {g}
      PROVE  O!SourceStatus(tool, groups) =
                [state |-> IF policies[tool][g] = O!Bare THEN "incomplete" ELSE "configured", group |-> g]
  <2>1. Cardinality(of) = 1 BY <1>8, FS_Singleton
  <2>2. (CHOOSE x \in of : TRUE) = g BY <1>8
  <2> QED BY <1>3, <1>5, <1>8, <2>1, <2>2
<1> QED BY <1>3, <1>6, <1>7, <1>8

LEMMA FleetPageAgrees ==
  ASSUME O!FleetAssumption, environment \in BOOLEAN, NEW tool \in O!Tool, NEW a, O!Managed(a)
  PROVE  /\ O!SourceStatus(tool, members[a]).state = "configured" <=> O!ResolveForHost(tool, a) # O!Refused
         /\ O!ResolveForHost(tool, a) # O!Refused => O!ResolveForHost(tool, a).group = O!SourceStatus(tool, members[a]).group
<1>1. PICK of, groups : of = O!Candidates(tool, groups) /\ groups = members[a] OBVIOUS
<1>2. IsFiniteSet(of) /\ Cardinality(of) \in Nat /\ (of = {} <=> Cardinality(of) = 0) BY <1>1, FleetAssigned
<1>3. O!ResolveForHost(tool, a) =
        CASE ~ O!Managed(a) \/ Cardinality(of) > 1 -> O!Refused
          [] O!Managed(a) /\ tool \notin O!Tool -> [group |-> Nil, config |-> Nil, groups |-> members[a]]
          [] O!Managed(a) /\ tool \in O!Tool /\ of = {} -> IF tool = "openscap" /\ environment
                                        THEN [group |-> Nil, config |-> "environment", groups |-> members[a]] ELSE O!Refused
          [] O!Managed(a) /\ Cardinality(of) = 1 ->
               IF policies[tool][CHOOSE x \in of : TRUE] = O!Bare THEN O!Refused
               ELSE [group |-> CHOOSE x \in of : TRUE, config |-> policies[tool][CHOOSE x \in of : TRUE], groups |-> members[a]]
  BY <1>1 DEF O!ResolveForHost, O!Cardinality, Cardinality
<1>4. CASE Cardinality(of) > 1
  <2>1. O!SourceStatus(tool, groups) = [state |-> "conflict", group |-> Nil] BY <1>1, <1>4, FleetSourceIs
  <2>2. O!ResolveForHost(tool, a) = O!Refused BY <1>2, <1>3, <1>4
  <2> QED BY <1>1, <2>1, <2>2
<1>5. CASE of = {}
  <2>0. O!Candidates(tool, groups) = {} BY <1>1, <1>5
  <2>1. O!SourceStatus(tool, groups) =
          [state |-> IF tool = "openscap" /\ environment THEN "configured" ELSE "missing", group |-> Nil]
    BY <2>0, FleetSourceIs
  <2>2. O!ResolveForHost(tool, a) =
          IF tool = "openscap" /\ environment THEN [group |-> Nil, config |-> "environment", groups |-> members[a]]
          ELSE O!Refused
    BY <1>2, <1>3, <1>5
  <2>3. [group |-> Nil, config |-> "environment", groups |-> members[a]] # O!Refused BY FleetNotRefused
  <2> QED BY <1>1, <2>1, <2>2, <2>3
<1>6. CASE Cardinality(of) = 1
  <2>1. PICK g : of = {g} BY <1>2, <1>6, FS_Singleton
  <2>2. (CHOOSE x \in of : TRUE) = g BY <2>1
  <2>0. O!Candidates(tool, groups) = {g} BY <1>1, <2>1
  <2>3. O!SourceStatus(tool, groups) =
          [state |-> IF policies[tool][g] = O!Bare THEN "incomplete" ELSE "configured", group |-> g]
    BY <2>0, FleetSourceIs
  <2>4. O!ResolveForHost(tool, a) =
          IF policies[tool][g] = O!Bare THEN O!Refused
          ELSE [group |-> g, config |-> policies[tool][g], groups |-> members[a]]
    BY <1>2, <1>3, <1>6, <2>1, <2>2
  <2>5. [group |-> g, config |-> policies[tool][g], groups |-> members[a]] # O!Refused BY FleetNotRefused
  <2> QED BY <1>1, <2>3, <2>4, <2>5
<1> QED BY <1>2, <1>4, <1>5, <1>6

(* What the page's handler answers.                                         *)
LEMMA FleetSourceSort ==
  ASSUME O!FleetAssumption, environment \in BOOLEAN, NEW tool, NEW groups
  PROVE  O!SourceStatus(tool, groups) \in O!Source
<1>1. PICK of : of = O!Candidates(tool, groups) OBVIOUS
<1>2. /\ IsFiniteSet(of) /\ Cardinality(of) \in Nat /\ (of = {} <=> Cardinality(of) = 0) /\ of \subseteq O!Groups
  BY <1>1, FleetAssigned
<1>3. CASE Cardinality(of) > 1 BY <1>1, <1>3, FleetSourceIs DEF O!Source
<1>4. CASE of = {}
  <2>1. O!Candidates(tool, groups) = {} BY <1>1, <1>4
  <2> QED BY <2>1, FleetSourceIs DEF O!Source
<1>5. CASE Cardinality(of) = 1
  <2>1. PICK g : of = {g} BY <1>2, <1>5, FS_Singleton
  <2>2. g \in O!Groups BY <1>2, <2>1
  <2>3. O!Candidates(tool, groups) = {g} BY <1>1, <2>1
  <2>4. O!SourceStatus(tool, groups) =
          [state |-> IF policies[tool][g] = O!Bare THEN "incomplete" ELSE "configured", group |-> g]
    BY <2>3, FleetSourceIs
  <2> QED BY <2>2, <2>4 DEF O!Source
<1> QED BY <1>2, <1>3, <1>4, <1>5

-----------------------------------------------------------------------------
(* Steps that leave the audits alone                                        *)

LEMMA FleetInitIInv == ASSUME O!FleetAssumption, O!Init PROVE FleetIInv
<1>1. O!TypeOK
  <2>1. exceptions \in [O!Groups \X FleetRule -> 0..LastMinute + 1] BY DEF O!Init, O!FleetAssumption
  <2>2. scapReports \in [FleetAlias -> O!Report \cup {Nil}] BY DEF O!Init
  <2>3. minute \in 0..LastMinute /\ settled \in 0..MaxEdits BY DEF O!Init, O!FleetAssumption
  <2> QED BY <2>1, <2>2, <2>3 DEF O!Init, O!TypeOK
<1> QED BY <1>1 DEF O!Init, FleetIInv, FleetAgreed, FleetReported, FleetAhead, O!CompleteMeansAccounted, FleetShown

FleetSorts == /\ environment \in BOOLEAN /\ minute \in 0..LastMinute /\ settled \in 0..MaxEdits
              /\ members \in [FleetAlias -> FleetMembership]
              /\ policies \in [O!Tool -> [O!Groups -> Config \cup {O!Bare, Nil}]]
              /\ exceptions \in [O!Groups \X FleetRule -> 0..LastMinute + 1]

FleetAuditSort == scapReports \in [FleetAlias -> O!Report \cup {Nil}] /\ (scap = Nil \/ \E hosts \in SUBSET FleetAlias : scap \in O!AuditRequest(hosts))

FleetPageSort == chosen \in FleetAlias \cup {Nil} /\ asked \subseteq O!Call /\ preparation \in O!Call \cup {Nil}

FleetAuditInv == FleetAuditSort /\ FleetAgreed /\ FleetReported /\ FleetAhead /\ O!CompleteMeansAccounted

LEMMA FleetParts == FleetIInv <=> FleetSorts /\ FleetAuditInv /\ FleetPageSort /\ FleetShown
BY DEF FleetIInv, O!TypeOK, FleetSorts, FleetAuditInv, FleetAuditSort, FleetPageSort

LEMMA FleetIdle ==
  ASSUME FleetIInv, UNCHANGED <<environment, scap, scapReports>>
  PROVE  FleetAuditInv'
BY DEF FleetIInv, O!TypeOK, FleetAuditInv, FleetAuditSort, FleetAgreed, FleetResolved, O!Governs, FleetReported,
     FleetMatches, FleetAhead, O!CompleteMeansAccounted

LEMMA FleetSettingsStep == ASSUME O!FleetAssumption, FleetIInv, O!Settings \/ O!Tick PROVE FleetIInv'
<1>1. UNCHANGED <<environment, scap, scapReports, O!pageVars>>
  BY DEF O!Settings, O!Tick, O!settings, O!UpsertPolicy, O!DeletePolicy, O!UpsertException, O!DeleteException,
       O!Move, O!Edit
<1>2. FleetAuditInv' BY <1>1, FleetIdle
<1>3. FleetPageSort' /\ FleetShown' BY <1>1 DEF FleetIInv, O!TypeOK, FleetPageSort, FleetShown, O!pageVars
<1>4. minute' \in 0..LastMinute /\ settled' \in 0..MaxEdits
  <2>1. CASE O!Settings
    <3>1. settled < MaxEdits /\ settled' = settled + 1 /\ minute' = minute
      BY <2>1 DEF O!Settings, O!UpsertPolicy, O!DeletePolicy, O!UpsertException, O!DeleteException, O!Move, O!Edit
    <3> QED BY <3>1 DEF FleetIInv, O!TypeOK, O!FleetAssumption
  <2>2. CASE O!Tick BY <2>2 DEF FleetIInv, O!TypeOK, O!FleetAssumption, O!Tick
  <2> QED BY <2>1, <2>2
<1>5. FleetSorts'
  <2>1. FleetSorts BY DEF FleetIInv, O!TypeOK, FleetSorts
  <2>2. ASSUME NEW tool \in O!Tool, NEW g \in O!Groups, O!DeletePolicy(tool, g) PROVE FleetSorts'
    BY <1>1, <1>4, <2>1, <2>2 DEF FleetSorts, O!DeletePolicy
  <2>3. ASSUME NEW tool \in O!Tool, NEW g \in O!Groups, NEW c \in Config, O!UpsertPolicy(tool, g, c) PROVE FleetSorts'
    BY <1>1, <1>4, <2>1, <2>3 DEF FleetSorts, O!UpsertPolicy
  <2>4. ASSUME NEW g \in O!Groups, NEW r \in FleetRule, NEW until \in 0..LastMinute + 1,
               exceptions' = [exceptions EXCEPT ![<<g, r>>] = until]
        PROVE  exceptions' \in [O!Groups \X FleetRule -> 0..LastMinute + 1]
    BY <2>1, <2>4 DEF FleetSorts
  <2>5. ASSUME NEW g \in O!Groups, NEW r \in FleetRule, O!DeleteException(g, r) PROVE FleetSorts'
    <3>1. 0 \in 0..LastMinute + 1 BY DEF O!FleetAssumption
    <3> QED BY <1>1, <1>4, <2>1, <2>4, <2>5, <3>1 DEF FleetSorts, O!DeleteException
  <2>6. ASSUME NEW g \in O!Groups, NEW r \in FleetRule, NEW until \in 1..LastMinute + 1, O!UpsertException(g, r, until) PROVE FleetSorts'
    <3>1. until \in 0..LastMinute + 1 BY DEF O!FleetAssumption
    <3> QED BY <1>1, <1>4, <2>1, <2>4, <2>6, <3>1 DEF FleetSorts, O!UpsertException
  <2>7. ASSUME NEW a \in FleetAlias, NEW groups \in FleetMembership, O!Move(a, groups) PROVE FleetSorts'
    BY <1>1, <1>4, <2>1, <2>7 DEF FleetSorts, O!Move
  <2>8. CASE O!Tick BY <1>1, <1>4, <2>1, <2>8 DEF FleetSorts, O!Tick, O!settings
  <2> QED BY <2>2, <2>3, <2>5, <2>6, <2>7, <2>8 DEF O!Settings
<1>6. (FleetSorts /\ FleetAuditInv /\ FleetPageSort /\ FleetShown)' BY <1>2, <1>3, <1>5
<1> QED BY <1>6, FleetParts, PTL

LEMMA FleetPageStep == ASSUME O!FleetAssumption, FleetIInv, O!Page PROVE FleetIInv'
<1>1. UNCHANGED <<O!settings, minute, settled, scap, scapReports>> BY DEF O!Page, O!Choose, O!Prepare, O!Receive
<1>2. FleetAuditInv' BY <1>1, FleetIdle DEF O!settings
<1>3. FleetSorts' BY <1>1 DEF FleetIInv, O!TypeOK, FleetSorts, O!settings
<1>4. FleetPageSort /\ FleetShown BY DEF FleetIInv, O!TypeOK, FleetPageSort
<1>5. FleetPageSort' /\ FleetShown'
  <2>1. ASSUME NEW a \in FleetAlias, O!Choose(a) PROVE FleetPageSort' /\ FleetShown'
    BY <2>1 DEF FleetPageSort, FleetShown, O!Choose, O!Ask, O!Call
  <2>2. ASSUME NEW c \in asked, O!Prepare(c) PROVE FleetPageSort' /\ FleetShown'
    <3>1. PICK answer : answer = IF O!Managed(c.alias) THEN [tool \in O!Tool |-> O!SourceStatus(tool, members[c.alias])]
                                      ELSE O!Refused
      OBVIOUS
    <3>2. \A tool \in O!Tool : O!SourceStatus(tool, members[c.alias]) \in O!Source BY FleetSourceSort DEF FleetIInv,
         O!TypeOK
    <3>3. answer \in {Nil, O!Refused} \cup [O!Tool -> O!Source] BY <3>1, <3>2
    <3>4. c \in O!Call BY <1>4 DEF FleetPageSort
    <3>5. PICK d : d = [c EXCEPT !.sources = answer] OBVIOUS
    <3>6. d \in O!Call /\ d.alias = c.alias BY <3>3, <3>4, <3>5 DEF O!Call
    <3>7. asked' = (asked \ {c}) \cup {d} /\ UNCHANGED <<chosen, preparation>> BY <2>2, <3>1, <3>5 DEF O!Prepare
    <3> QED BY <1>4, <3>6, <3>7 DEF FleetPageSort, FleetShown
  <2>3. ASSUME NEW c \in asked, O!Receive(c) PROVE FleetPageSort' /\ FleetShown'
    BY <1>4, <2>3 DEF FleetPageSort, FleetShown, O!Receive
  <2> QED BY <2>1, <2>2, <2>3 DEF O!Page
<1>6. (FleetSorts /\ FleetAuditInv /\ FleetPageSort /\ FleetShown)' BY <1>2, <1>3, <1>5
<1> QED BY <1>6, FleetParts, PTL

-----------------------------------------------------------------------------
(* The audits                                                               *)

LEMMA FleetOnlyAudit ==
  ASSUME FleetIInv, UNCHANGED <<O!settings, minute, settled, O!pageVars>>, FleetAuditInv'
  PROVE  FleetIInv'
<1>1. (FleetSorts /\ FleetPageSort /\ FleetShown)' BY DEF FleetIInv, O!TypeOK, FleetSorts, FleetPageSort,
     FleetShown, O!settings, O!pageVars
<1>2. (FleetSorts /\ FleetAuditInv /\ FleetPageSort /\ FleetShown)' BY <1>1
<1> QED BY <1>2, FleetParts, PTL

LEMMA FleetAcceptStep ==
  ASSUME O!FleetAssumption, FleetIInv, NEW by \in {"page", "scheduler"}, NEW kind \in O!Kind, NEW hosts \in SUBSET FleetAlias,
         NEW current \in hosts \cup {Nil}, O!Accept(by, kind, hosts, current)
  PROVE  FleetIInv'
<1>1. /\ scap = Nil /\ UNCHANGED <<O!settings, minute, settled, scapReports, O!pageVars>>
      /\ \A a \in hosts : O!ResolveForHost(kind, a) # O!Refused
  BY DEF O!Accept
<1>2. PICK c : c = [members |-> members, policies |-> policies, exceptions |-> exceptions] OBVIOUS
<1>3. PICK sel : sel = [a \in hosts |-> O!ResolveForHost(kind, a)] OBVIOUS
<1>4. scap' = [by |-> by, kind |-> kind, selections |-> sel, exceptions |-> exceptions, stage |-> "runs",
                current |-> current, todo |-> hosts \ {current}, results |-> [a \in hosts |-> Nil],
                done |-> [a \in hosts |-> {}], agreed |-> c]
  BY <1>2, <1>3 DEF O!Accept
<1>5. \A a \in hosts : sel[a] \in O!Selection /\ (kind \in O!Tool => FleetResolved(sel[a], c, kind, a))
  BY <1>1, <1>2, <1>3, FleetResolvedSelection DEF FleetIInv, O!TypeOK
<1>6. scap' \in O!AuditRequest(hosts)
  <2>1. sel \in [hosts -> O!Selection] BY <1>3, <1>5
  <2>2. exceptions \in [O!Groups \X FleetRule -> 0..LastMinute + 1] BY DEF FleetIInv, O!TypeOK
  <2>3. c \in [members : [FleetAlias -> FleetMembership], policies : [O!Tool -> [O!Groups -> Config \cup {O!Bare, Nil}]],
               exceptions : [O!Groups \X FleetRule -> 0..LastMinute + 1]]
    BY <1>2 DEF FleetIInv, O!TypeOK
  <2> QED BY <1>4, <2>1, <2>2, <2>3 DEF O!AuditRequest
<1>7. FleetAuditSort'
  <2>1. scapReports' \in [FleetAlias -> O!Report \cup {Nil}] BY <1>1 DEF FleetIInv, O!TypeOK
  <2> QED BY <1>6, <2>1 DEF FleetAuditSort, O!AuditRequest, O!Selection, O!Outcome, O!Deed
<1>8. \A a \in FleetAlias : scapReports[a] = Nil BY <1>1 DEF FleetIInv, FleetReported
<1>9. FleetAgreed'
  <2>1. \A a \in hosts : kind \in O!Tool => FleetResolved(sel[a], c, kind, a)' BY <1>1, <1>5 DEF FleetResolved,
       O!Governs, O!settings
  <2> QED BY <1>2, <1>3, <1>4, <2>1 DEF FleetAgreed
<1>10. FleetReported' BY <1>1, <1>8 DEF FleetReported
<1>11. FleetAhead'
  <2>1. current \notin hosts \ {current} OBVIOUS
  <2> QED BY <1>4, <2>1 DEF FleetAhead
<1>12. O!CompleteMeansAccounted'
  <2>1. Nil # "complete" BY DEF O!FleetAssumption, O!Outcome
  <2> QED BY <1>4, <2>1 DEF O!CompleteMeansAccounted
<1> QED BY <1>1, <1>7, <1>9, <1>10, <1>11, <1>12, FleetOnlyAudit DEF FleetAuditInv

(* The audit goes on: the launch stays what it was.                         *)
FleetSame(x) == /\ x.kind = scap.kind /\ x.by = scap.by /\ x.selections = scap.selections
                /\ x.exceptions = scap.exceptions /\ x.agreed = scap.agreed

LEMMA FleetHosts ==
  ASSUME O!FleetAssumption, FleetIInv, scap # Nil
  PROVE  \E hosts \in SUBSET FleetAlias :
           /\ scap \in O!AuditRequest(hosts) /\ Nil \notin hosts
           /\ DOMAIN scap.results = hosts /\ DOMAIN scap.selections = hosts /\ scap.kind \in O!Kind
           /\ scap.results \in [hosts -> O!Outcome \cup {Nil}] /\ scap.done \in [hosts -> SUBSET O!Deed]
           /\ scap.todo \subseteq hosts /\ scap.current \in hosts \cup {Nil}
           /\ scap.selections \in [hosts -> O!Selection] /\ scap.exceptions \in [O!Groups \X FleetRule -> 0..LastMinute + 1]
<1>1. PICK hosts \in SUBSET FleetAlias : scap \in O!AuditRequest(hosts) BY DEF FleetIInv, O!TypeOK
<1>2. Nil \notin hosts BY <1>1 DEF O!FleetAssumption
<1> QED BY <1>1, <1>2 DEF O!AuditRequest

(* The request with the parts that its steps change.                        *)
FleetWith(stage, current, todo, results, done) ==
  [by |-> scap.by, kind |-> scap.kind, selections |-> scap.selections, exceptions |-> scap.exceptions,
   stage |-> stage, current |-> current, todo |-> todo, results |-> results, done |-> done, agreed |-> scap.agreed]

LEMMA FleetWhole ==
  ASSUME NEW hosts, scap \in O!AuditRequest(hosts)
  PROVE  scap = [by |-> scap.by, kind |-> scap.kind, selections |-> scap.selections, exceptions |-> scap.exceptions,
                  stage |-> scap.stage, current |-> scap.current, todo |-> scap.todo, results |-> scap.results,
                  done |-> scap.done, agreed |-> scap.agreed]
BY DEF O!AuditRequest

LEMMA FleetWithSort ==
  ASSUME NEW hosts, scap \in O!AuditRequest(hosts), NEW stage \in {"runs", "scans", "dead"}, NEW current \in hosts \cup {Nil},
         NEW todo \in SUBSET hosts, NEW results \in [hosts -> O!Outcome \cup {Nil}], NEW done \in [hosts -> SUBSET O!Deed]
  PROVE  FleetWith(stage, current, todo, results, done) \in O!AuditRequest(hosts) /\ FleetSame(FleetWith(stage, current, todo, results, done))
BY DEF O!AuditRequest, FleetWith, FleetSame

LEMMA FleetGoesOn ==
  ASSUME O!FleetAssumption, FleetIInv, scap # Nil, NEW hosts \in SUBSET FleetAlias, scap \in O!AuditRequest(hosts),
         NEW x \in O!AuditRequest(hosts), scap' = x, FleetSame(x), UNCHANGED environment,
         \/ UNCHANGED scapReports
         \/ \E a \in hosts, r \in O!Report : FleetMatches(r, scap, a) /\ scapReports' = [scapReports EXCEPT ![a] = r]
  PROVE  FleetAuditSort' /\ FleetAgreed' /\ FleetReported'
<1>1. scapReports \in [FleetAlias -> O!Report \cup {Nil}] BY DEF FleetIInv, O!TypeOK
<1>2. scapReports' \in [FleetAlias -> O!Report \cup {Nil}]
  <2>1. CASE UNCHANGED scapReports BY <1>1, <2>1
  <2>2. ASSUME NEW a \in hosts, NEW r \in O!Report, scapReports' = [scapReports EXCEPT ![a] = r]
        PROVE  scapReports' \in [FleetAlias -> O!Report \cup {Nil}]
    BY <1>1, <2>2
  <2> QED BY <2>1, <2>2
<1>3. scap' # Nil BY DEF O!FleetAssumption
<1>4. FleetAuditSort' BY <1>2 DEF FleetAuditSort, O!AuditRequest, O!Selection, O!Outcome, O!Deed
<1>5. FleetAgreed' BY <1>3 DEF FleetIInv, FleetAgreed, FleetResolved, O!Governs, FleetSame
<1>6. \A a \in FleetAlias : scapReports'[a] # Nil => FleetMatches(scapReports'[a], scap, a)
  <2>1. \A a \in FleetAlias : scapReports[a] # Nil => FleetMatches(scapReports[a], scap, a) BY DEF FleetIInv,
       FleetReported
  <2>2. CASE UNCHANGED scapReports BY <2>1, <2>2
  <2>3. ASSUME NEW a \in hosts, NEW r \in O!Report, FleetMatches(r, scap, a), scapReports' = [scapReports EXCEPT ![a] = r]
        PROVE  \A b \in FleetAlias : scapReports'[b] # Nil => FleetMatches(scapReports'[b], scap, b)
    <3>1. \A b \in FleetAlias : scapReports'[b] = IF b = a THEN r ELSE scapReports[b] BY <1>1, <2>3
    <3> QED BY <2>1, <2>3, <3>1
  <2> QED BY <2>2, <2>3
<1>7. \A r : \A a \in FleetAlias : FleetMatches(r, scap, a) => FleetMatches(r, x, a) BY DEF FleetMatches, FleetSame
<1>8. FleetReported' BY <1>3, <1>6, <1>7 DEF FleetReported, FleetMatches
<1> QED BY <1>4, <1>5, <1>8

LEMMA FleetStartHostStep == ASSUME O!FleetAssumption, FleetIInv, NEW a \in FleetAlias, O!StartHost(a) PROVE FleetIInv'
<1>1. /\ scap # Nil /\ scap.stage = "runs" /\ scap.current = Nil /\ a \in scap.todo
      /\ UNCHANGED <<O!settings, minute, settled, scapReports, O!pageVars>>
  BY DEF O!StartHost, O!Free
<1>2. PICK hosts \in SUBSET FleetAlias :
           /\ scap \in O!AuditRequest(hosts) /\ Nil \notin hosts
           /\ DOMAIN scap.results = hosts /\ scap.results \in [hosts -> O!Outcome \cup {Nil}]
           /\ scap.done \in [hosts -> SUBSET O!Deed] /\ scap.todo \subseteq hosts
  BY <1>1, FleetHosts
<1>3. PICK x : /\ scap' = x /\ x \in O!AuditRequest(hosts) /\ FleetSame(x) /\ x.stage = "runs" /\ x.done = scap.done
               /\ x.todo = scap.todo \ {a}
               /\ \/ x.current = a /\ x.results = scap.results
                  \/ x.current = Nil /\ x.results = [scap.results EXCEPT ![a] = "error"]
  <2>1. CASE O!Managed(a)
    <3>1. scap' = [scap EXCEPT !.current = a, !.todo = @ \ {a}] BY <2>1 DEF O!StartHost
    <3>2. scap' = FleetWith("runs", a, scap.todo \ {a}, scap.results, scap.done) BY <1>1, <1>2, <3>1,
         FleetWhole DEF FleetWith
    <3>3. scap' \in O!AuditRequest(hosts) /\ FleetSame(scap')
      BY <1>1, <1>2, <3>2, FleetWithSort
    <3> QED BY <3>2, <3>3 DEF FleetWith
  <2>2. CASE ~ O!Managed(a)
    <3>1. scap' = [scap EXCEPT !.results[a] = "error", !.todo = @ \ {a}] BY <2>2 DEF O!StartHost
    <3>2. PICK results : results = [scap.results EXCEPT ![a] = "error"] OBVIOUS
    <3>3. results \in [hosts -> O!Outcome \cup {Nil}] BY <1>1, <1>2, <3>2 DEF O!Outcome
    <3>4. scap' = FleetWith("runs", Nil, scap.todo \ {a}, results, scap.done) BY <1>1, <1>2, <3>1, <3>2,
         FleetWhole DEF FleetWith
    <3>5. scap' \in O!AuditRequest(hosts) /\ FleetSame(scap')
      BY <1>1, <1>2, <3>3, <3>4, FleetWithSort
    <3> QED BY <3>2, <3>4, <3>5 DEF FleetWith
  <2> QED BY <2>1, <2>2
<1>4. FleetAuditSort' /\ FleetAgreed' /\ FleetReported'
  <2>1. UNCHANGED environment BY <1>1 DEF O!settings
  <2> QED BY <1>1, <1>2, <1>3, <2>1, FleetGoesOn
<1>5. FleetAhead' BY <1>1, <1>2, <1>3 DEF FleetIInv, FleetAhead
<1>6. O!CompleteMeansAccounted'
  <2>1. "error" # Nil BY DEF O!FleetAssumption, O!Outcome
  <2>2. DOMAIN x.results = hosts BY <1>2, <1>3
  <2>3. ASSUME NEW b \in hosts, x.results[b] = "complete"
        PROVE  scapReports[b] # Nil /\ "report" \in x.done[b] /\ (x.kind = "openscap" => scapReports[b].evaluated # Nil)
    <3>1. scap.results[b] = "complete" BY <1>2, <1>3, <2>3
    <3> QED BY <1>1, <1>2, <1>3, <3>1 DEF FleetIInv, O!CompleteMeansAccounted, FleetSame
  <2>4. ASSUME NEW b \in hosts, b # x.current, b \notin x.todo PROVE x.results[b] # Nil
    <3>1. CASE b = a BY <1>2, <1>3, <2>1, <2>4, <3>1
    <3>2. CASE b # a
      <4>1. b # scap.current /\ b \notin scap.todo BY <1>1, <1>2, <1>3, <2>4, <3>2
      <4>2. scap.results[b] # Nil BY <1>1, <1>2, <4>1 DEF FleetIInv, O!CompleteMeansAccounted
      <4> QED BY <1>2, <1>3, <3>2, <4>2
    <3> QED BY <3>1, <3>2
  <2> QED BY <1>1, <1>3, <2>2, <2>3, <2>4 DEF O!CompleteMeansAccounted
<1> QED BY <1>1, <1>4, <1>5, <1>6, FleetOnlyAudit DEF FleetAuditInv

(* The end of a host's turn.                                                *)
LEMMA FleetEndedIs ==
  ASSUME NEW hosts, scap \in O!AuditRequest(hosts), NEW a \in hosts, NEW outcome \in O!Outcome, NEW deeds \in SUBSET O!Deed,
         NEW r, r = [scap.results EXCEPT ![a] = outcome], NEW d, d = [scap.done EXCEPT ![a] = @ \cup deeds]
  PROVE  /\ r \in [hosts -> O!Outcome \cup {Nil}] /\ d \in [hosts -> SUBSET O!Deed]
         /\ O!Ended(a, outcome, deeds) = FleetWith(scap.stage, Nil, scap.todo, r, d)
         /\ FleetWith(scap.stage, Nil, scap.todo, r, d) \in O!AuditRequest(hosts)
         /\ FleetSame(FleetWith(scap.stage, Nil, scap.todo, r, d))
<1>1. scap.results \in [hosts -> O!Outcome \cup {Nil}] /\ scap.done \in [hosts -> SUBSET O!Deed] BY DEF O!AuditRequest
<1>2. r \in [hosts -> O!Outcome \cup {Nil}] /\ d \in [hosts -> SUBSET O!Deed] BY <1>1
<1>3. O!Ended(a, outcome, deeds) = FleetWith(scap.stage, Nil, scap.todo, r, d)
  <2>1. O!Ended(a, outcome, deeds) = [scap EXCEPT !.current = Nil, !.results = r, !.done = d] BY FleetWhole
     DEF O!Ended
  <2> QED BY <2>1, FleetWhole DEF FleetWith
<1>4. scap.stage \in {"runs", "scans", "dead"} /\ scap.todo \in SUBSET hosts BY DEF O!AuditRequest
<1> QED BY <1>2, <1>3, <1>4, FleetWithSort

LEMMA FleetRawMatches ==
  ASSUME O!FleetAssumption, NEW hosts, scap \in O!AuditRequest(hosts), NEW a \in hosts, NEW failed \in SUBSET FleetRule
  PROVE  O!RawReport(a, failed) \in O!Report /\ FleetMatches(O!RawReport(a, failed), scap, a)
<1>1. scap.selections \in [hosts -> O!Selection] /\ scap.kind \in O!Kind BY DEF O!AuditRequest
<1>2. scap.selections[a].group \in O!Groups \cup {Nil} /\ scap.selections[a].config \in Config \cup {"environment", Nil}
  BY <1>1 DEF O!Selection
<1> QED BY <1>1, <1>2 DEF O!RawReport, O!Report, FleetMatches

LEMMA FleetAnnotatedMatches ==
  ASSUME O!FleetAssumption, minute \in 0..LastMinute, NEW hosts, scap \in O!AuditRequest(hosts), NEW a \in hosts, NEW failed \in SUBSET FleetRule
  PROVE  O!Annotated(a, failed) \in O!Report /\ FleetMatches(O!Annotated(a, failed), scap, a) /\ O!Annotated(a, failed).evaluated = minute
<1>1. O!RawReport(a, failed) \in O!Report /\ FleetMatches(O!RawReport(a, failed), scap, a) BY FleetRawMatches
<1>2. O!Annotations(a, failed) \in SUBSET (O!Groups \X FleetRule) BY DEF O!Annotations
<1>3. PICK r, s : r = O!RawReport(a, failed) /\ s = [r EXCEPT !.marked = O!Annotations(a, failed), !.evaluated = minute] OBVIOUS
<1>4. s \in O!Report /\ s.kind = r.kind /\ s.group = r.group /\ s.config = r.config /\ s.failed = r.failed
      /\ s.marked = O!Annotations(a, failed) /\ s.evaluated = minute
  BY <1>1, <1>2, <1>3 DEF O!Report
<1>5. r.failed = failed BY <1>3 DEF O!RawReport
<1> QED BY <1>1, <1>3, <1>4, <1>5 DEF O!Annotated, FleetMatches, O!Annotations

LEMMA FleetFinishStep ==
  ASSUME O!FleetAssumption, FleetIInv, NEW a \in FleetAlias, NEW failed \in SUBSET FleetRule, NEW sound \in BOOLEAN, O!Finish(a, failed, sound)
  PROVE  FleetIInv'
<1>1. /\ scap # Nil /\ scap.stage = "runs" /\ scap.current = a
      /\ UNCHANGED <<O!settings, minute, settled, O!pageVars>>
  BY DEF O!Finish, O!Runs
<1>2. PICK hosts \in SUBSET FleetAlias :
           /\ scap \in O!AuditRequest(hosts) /\ Nil \notin hosts
           /\ DOMAIN scap.results = hosts /\ scap.results \in [hosts -> O!Outcome \cup {Nil}]
           /\ scap.done \in [hosts -> SUBSET O!Deed] /\ scap.todo \subseteq hosts
           /\ scap.current \in hosts \cup {Nil}
  BY <1>1, FleetHosts
<1>3. a \in hosts BY <1>1, <1>2 DEF O!FleetAssumption
<1>4. PICK outcome : outcome = O!InspectAuditReports(a, sound) OBVIOUS
<1>5. outcome \in O!Outcome /\ Nil \notin O!Outcome BY <1>4 DEF O!InspectAuditReports, O!Outcome, O!FleetAssumption
<1>6. PICK deeds \in SUBSET O!Deed : deeds = IF sound THEN {"report"} ELSE {} BY DEF O!Deed
<1>7. PICK r, d : r = [scap.results EXCEPT ![a] = outcome] /\ d = [scap.done EXCEPT ![a] = @ \cup deeds] OBVIOUS
<1>7a. /\ r \in [hosts -> O!Outcome \cup {Nil}] /\ d \in [hosts -> SUBSET O!Deed]
       /\ O!Ended(a, outcome, deeds) = FleetWith(scap.stage, Nil, scap.todo, r, d)
       /\ FleetWith(scap.stage, Nil, scap.todo, r, d) \in O!AuditRequest(hosts)
       /\ FleetSame(FleetWith(scap.stage, Nil, scap.todo, r, d))
  BY <1>2, <1>3, <1>5, <1>7, FleetEndedIs, SMTT(60)
<1>8. scap' = FleetWith("runs", Nil, scap.todo, r, d) BY <1>1, <1>4, <1>6, <1>7, <1>7a DEF O!Finish
<1>9. /\ scap'.stage = "runs" /\ scap'.current = Nil /\ scap'.todo = scap.todo /\ scap'.results = r
      /\ scap'.done = d /\ scap'.kind = scap.kind
  BY <1>8 DEF FleetWith
<1>10. PICK rep : rep = IF scap.kind = "openscap" /\ O!InventoryHostExists(a) THEN O!Annotated(a, failed) ELSE O!RawReport(a, failed)
  OBVIOUS
<1>11. scapReports' = [scapReports EXCEPT ![a] = rep] BY <1>10 DEF O!Finish
<1>12. rep \in O!Report /\ FleetMatches(rep, scap, a)
  BY <1>2, <1>3, <1>10, FleetRawMatches, FleetAnnotatedMatches DEF FleetIInv, O!TypeOK
<1>13. FleetAuditSort' /\ FleetAgreed' /\ FleetReported'
  <2>1. UNCHANGED environment BY <1>1 DEF O!settings
  <2> QED BY <1>1, <1>2, <1>3, <1>7, <1>7a, <1>8, <1>11, <1>12, <2>1, FleetGoesOn
<1>14. FleetAhead'
  <2>1. a \notin scap.todo /\ \A b \in scap.todo : scap.results[b] = Nil
    BY <1>1, <1>2 DEF FleetIInv, FleetAhead
  <2>2. \A b \in scap.todo : r[b] = Nil BY <1>2, <1>7, <1>7a, <2>1
  <2> QED BY <1>2, <1>7, <1>7a, <1>9, <2>2 DEF FleetAhead
<1>15. scapReports \in [FleetAlias -> O!Report \cup {Nil}] BY DEF FleetIInv, O!TypeOK
<1>16. O!CompleteMeansAccounted'
  <2>1. ASSUME NEW b \in hosts, r[b] = "complete"
        PROVE  scapReports'[b] # Nil /\ "report" \in d[b] /\ (scap.kind = "openscap" => scapReports'[b].evaluated # Nil)
    <3>1. CASE b = a
      <4>1. outcome = "complete" BY <1>2, <1>3, <1>7, <1>7a, <2>1, <3>1
      <4>2. /\ sound /\ (scap.by = "scheduler" => O!InventoryHostExists(a)) /\ (scap.kind \in O!Tool => O!Managed(a) \/ O!InventoryHostExists(a))
        BY <1>4, <4>1 DEF O!InspectAuditReports
      <4>3. scap.kind = "openscap" => O!InventoryHostExists(a)
        BY <4>2 DEF O!Tool, O!InventoryHostExists, O!Managed
      <4>4. scapReports'[a] = rep BY <1>3, <1>11, <1>15
      <4>5. rep # Nil BY <1>12 DEF O!FleetAssumption
      <4>6. scap.kind = "openscap" => rep.evaluated = minute
        BY <1>2, <1>3, <1>10, <4>3, FleetAnnotatedMatches DEF FleetIInv, O!TypeOK
      <4>7. minute # Nil BY DEF FleetIInv, O!TypeOK, O!FleetAssumption
      <4>8. d[a] = scap.done[a] \cup {"report"} BY <1>2, <1>3, <1>6, <1>7, <1>7a, <4>2
      <4> QED BY <3>1, <4>4, <4>5, <4>6, <4>7, <4>8
    <3>2. CASE b # a
      <4>1. r[b] = scap.results[b] /\ d[b] = scap.done[b] BY <1>2, <1>7, <1>7a, <3>2
      <4>2. scapReports'[b] = scapReports[b] BY <1>11, <1>15, <3>2
      <4> QED BY <1>1, <1>2, <2>1, <4>1, <4>2 DEF FleetIInv, O!CompleteMeansAccounted
    <3> QED BY <3>1, <3>2
  <2>2. ASSUME NEW b \in hosts, b \notin scap.todo PROVE r[b] # Nil
    <3>1. CASE b = a BY <1>2, <1>3, <1>5, <1>7, <1>7a, <3>1
    <3>2. CASE b # a
      <4>1. r[b] = scap.results[b] BY <1>2, <1>7, <1>7a, <3>2
      <4> QED BY <1>1, <1>2, <2>2, <3>2, <4>1 DEF FleetIInv, O!CompleteMeansAccounted
    <3> QED BY <3>1, <3>2
  <2>3. DOMAIN r = hosts BY <1>7, <1>7a
  <2> QED BY <1>9, <2>1, <2>2, <2>3 DEF O!CompleteMeansAccounted
<1> QED BY <1>1, <1>13, <1>14, <1>16, FleetOnlyAudit DEF FleetAuditInv

LEMMA FleetFailStep ==
  ASSUME O!FleetAssumption, FleetIInv, NEW a \in FleetAlias, NEW failed \in SUBSET FleetRule, NEW published0 \in BOOLEAN, O!Fail(a, failed, published0)
  PROVE  FleetIInv'
<1>1. /\ scap # Nil /\ scap.stage = "runs" /\ scap.current = a
      /\ UNCHANGED <<O!settings, minute, settled, O!pageVars>>
  BY DEF O!Fail, O!Runs
<1>2. PICK hosts \in SUBSET FleetAlias :
           /\ scap \in O!AuditRequest(hosts) /\ Nil \notin hosts
           /\ DOMAIN scap.results = hosts /\ scap.results \in [hosts -> O!Outcome \cup {Nil}]
           /\ scap.done \in [hosts -> SUBSET O!Deed] /\ scap.todo \subseteq hosts
           /\ scap.current \in hosts \cup {Nil}
  BY <1>1, FleetHosts
<1>3. a \in hosts BY <1>1, <1>2 DEF O!FleetAssumption
<1>4. "error" \in O!Outcome /\ Nil \notin O!Outcome /\ {} \in SUBSET O!Deed BY DEF O!Outcome, O!FleetAssumption
<1>5. PICK r, d : r = [scap.results EXCEPT ![a] = "error"] /\ d = [scap.done EXCEPT ![a] = @ \cup {}] OBVIOUS
<1>5a. /\ r \in [hosts -> O!Outcome \cup {Nil}] /\ d \in [hosts -> SUBSET O!Deed]
       /\ O!Ended(a, "error", {}) = FleetWith(scap.stage, Nil, scap.todo, r, d)
       /\ FleetWith(scap.stage, Nil, scap.todo, r, d) \in O!AuditRequest(hosts)
       /\ FleetSame(FleetWith(scap.stage, Nil, scap.todo, r, d))
  BY <1>2, <1>3, <1>4, <1>5, FleetEndedIs
<1>6. scap' = FleetWith("runs", Nil, scap.todo, r, d) BY <1>1, <1>5, <1>5a DEF O!Fail
<1>7. /\ scap'.stage = "runs" /\ scap'.current = Nil /\ scap'.todo = scap.todo /\ scap'.results = r
      /\ scap'.done = d /\ scap'.kind = scap.kind
  BY <1>6 DEF FleetWith
<1>8. PICK rep : rep = O!RawReport(a, failed) OBVIOUS
<1>9. scapReports' = scapReports \/ scapReports' = [scapReports EXCEPT ![a] = rep] BY <1>8 DEF O!Fail
<1>10. rep \in O!Report /\ FleetMatches(rep, scap, a) BY <1>2, <1>3, <1>8, FleetRawMatches
<1>11. FleetAuditSort' /\ FleetAgreed' /\ FleetReported'
  <2>1. UNCHANGED environment BY <1>1 DEF O!settings
  <2> QED BY <1>1, <1>2, <1>3, <1>5, <1>5a, <1>6, <1>9, <1>10, <2>1, FleetGoesOn
<1>12. FleetAhead'
  <2>1. a \notin scap.todo /\ \A b \in scap.todo : scap.results[b] = Nil
    BY <1>1, <1>2 DEF FleetIInv, FleetAhead
  <2>2. \A b \in scap.todo : r[b] = Nil BY <1>2, <1>5, <1>5a, <2>1
  <2> QED BY <1>2, <1>5, <1>5a, <1>7, <2>2 DEF FleetAhead
<1>13. scapReports \in [FleetAlias -> O!Report \cup {Nil}] BY DEF FleetIInv, O!TypeOK
<1>14. O!CompleteMeansAccounted'
  <2>1. ASSUME NEW b \in hosts, r[b] = "complete"
        PROVE  scapReports'[b] # Nil /\ "report" \in d[b] /\ (scap.kind = "openscap" => scapReports'[b].evaluated # Nil)
    <3>1. b # a BY <1>2, <1>3, <1>5, <1>5a, <2>1
    <3>2. r[b] = scap.results[b] /\ d[b] = scap.done[b] BY <1>2, <1>5, <1>5a, <3>1
    <3>3. scapReports'[b] = scapReports[b] BY <1>9, <1>13, <3>1
    <3> QED BY <1>1, <1>2, <2>1, <3>2, <3>3 DEF FleetIInv, O!CompleteMeansAccounted
  <2>2. ASSUME NEW b \in hosts, b \notin scap.todo PROVE r[b] # Nil
    <3>1. CASE b = a BY <1>2, <1>3, <1>4, <1>5, <1>5a, <3>1
    <3>2. CASE b # a
      <4>1. r[b] = scap.results[b] BY <1>2, <1>5, <1>5a, <3>2
      <4> QED BY <1>1, <1>2, <2>2, <3>2, <4>1 DEF FleetIInv, O!CompleteMeansAccounted
    <3> QED BY <3>1, <3>2
  <2>3. DOMAIN r = hosts BY <1>5, <1>5a
  <2> QED BY <1>7, <2>1, <2>2, <2>3 DEF O!CompleteMeansAccounted
<1> QED BY <1>1, <1>11, <1>12, <1>14, FleetOnlyAudit DEF FleetAuditInv

LEMMA FleetCrashStep ==
  ASSUME O!FleetAssumption, FleetIInv, NEW failed \in SUBSET FleetRule, NEW published0 \in BOOLEAN, O!Crash(failed, published0)
  PROVE  FleetIInv'
<1>1. /\ scap # Nil /\ scap.current # Nil
      /\ UNCHANGED <<O!settings, minute, settled, O!pageVars>>
  BY DEF O!Crash
<1>2. PICK hosts \in SUBSET FleetAlias :
           /\ scap \in O!AuditRequest(hosts) /\ Nil \notin hosts
           /\ DOMAIN scap.results = hosts /\ scap.results \in [hosts -> O!Outcome \cup {Nil}]
           /\ scap.done \in [hosts -> SUBSET O!Deed] /\ scap.todo \subseteq hosts
           /\ scap.current \in hosts \cup {Nil}
  BY <1>1, FleetHosts
<1>3. scap' = FleetWith("dead", Nil, {}, scap.results, scap.done)
  <2>1. scap' = [scap EXCEPT !.current = Nil, !.todo = {}, !.stage = "dead"] BY DEF O!Crash
  <2> QED BY <1>2, <2>1, FleetWhole DEF FleetWith
<1>4. /\ scap'.stage = "dead" /\ scap'.current = Nil /\ scap'.todo = {} /\ scap'.results = scap.results
      /\ scap'.done = scap.done /\ scap'.kind = scap.kind
  BY <1>3 DEF FleetWith
<1>5. scap' \in O!AuditRequest(hosts) /\ FleetSame(scap') BY <1>2, <1>3, FleetWithSort
<1>6. PICK a \in hosts : a = scap.current BY <1>1, <1>2
<1>7. PICK rep : rep = O!RawReport(a, failed) OBVIOUS
<1>8. scapReports' = scapReports \/ (scap.stage = "runs" /\ scapReports' = [scapReports EXCEPT ![a] = rep]) BY <1>6,
     <1>7 DEF O!Crash
<1>9. rep \in O!Report /\ FleetMatches(rep, scap, a) BY <1>2, <1>6, <1>7, FleetRawMatches
<1>10. FleetAuditSort' /\ FleetAgreed' /\ FleetReported'
  <2>1. UNCHANGED environment BY <1>1 DEF O!settings
  <2> QED BY <1>1, <1>2, <1>5, <1>6, <1>8, <1>9, <2>1, FleetGoesOn
<1>11. FleetAhead' BY <1>4 DEF FleetAhead
<1>12. O!CompleteMeansAccounted'
  <2>1. scapReports \in [FleetAlias -> O!Report \cup {Nil}] BY DEF FleetIInv, O!TypeOK
  <2>2. ASSUME NEW b \in hosts, scap.results[b] = "complete"
        PROVE  /\ scapReports'[b] # Nil /\ "report" \in scap.done[b]
               /\ scap.kind = "openscap" => scapReports'[b].evaluated # Nil
    <3>1. scap.stage = "runs" => b # a
      <4>1. scap.stage = "runs" => scap.results[a] = Nil BY <1>1, <1>2, <1>6 DEF FleetIInv, FleetAhead
      <4> QED BY <2>2, <4>1 DEF O!FleetAssumption, O!Outcome
    <3>2. scapReports'[b] = scapReports[b] BY <1>8, <2>1, <3>1
    <3> QED BY <1>1, <1>2, <2>2, <3>2 DEF FleetIInv, O!CompleteMeansAccounted
  <2> QED BY <1>2, <1>4, <2>2 DEF O!CompleteMeansAccounted
<1> QED BY <1>1, <1>10, <1>11, <1>12, FleetOnlyAudit DEF FleetAuditInv

(* While packages are scanned the reports stay.                             *)
LEMMA FleetBeginScansStep == ASSUME O!FleetAssumption, FleetIInv, O!BeginScans PROVE FleetIInv'
<1>1. /\ scap # Nil /\ scap.stage = "runs" /\ scap.current = Nil /\ scap.todo = {}
      /\ UNCHANGED <<O!settings, minute, settled, scapReports, O!pageVars>>
  BY DEF O!BeginScans, O!Free
<1>2. PICK hosts \in SUBSET FleetAlias :
           /\ scap \in O!AuditRequest(hosts) /\ Nil \notin hosts
           /\ DOMAIN scap.results = hosts /\ scap.results \in [hosts -> O!Outcome \cup {Nil}]
           /\ scap.done \in [hosts -> SUBSET O!Deed] /\ scap.todo \subseteq hosts
           /\ scap.current \in hosts \cup {Nil}
  BY <1>1, FleetHosts
<1>3. PICK todo : todo = {a \in DOMAIN scap.results : scap.results[a] # "error"} OBVIOUS
<1>4. scap' = FleetWith("scans", Nil, todo, scap.results, scap.done)
  <2>1. scap' = [scap EXCEPT !.stage = "scans", !.todo = todo] BY <1>3 DEF O!BeginScans
  <2> QED BY <1>1, <1>2, <2>1, FleetWhole DEF FleetWith
<1>5. /\ scap'.stage = "scans" /\ scap'.current = Nil /\ scap'.todo = todo /\ scap'.results = scap.results
      /\ scap'.done = scap.done /\ scap'.kind = scap.kind
  BY <1>4 DEF FleetWith
<1>6. scap' \in O!AuditRequest(hosts) /\ FleetSame(scap') BY <1>2, <1>3, <1>4, FleetWithSort
<1>7. FleetAuditSort' /\ FleetAgreed' /\ FleetReported'
  <2>1. UNCHANGED environment BY <1>1 DEF O!settings
  <2> QED BY <1>1, <1>2, <1>6, <2>1, FleetGoesOn
<1>8. FleetAhead' BY <1>2, <1>3, <1>5 DEF FleetAhead
<1>9. O!CompleteMeansAccounted'
  <2>1. \A b \in hosts : scap.results[b] # Nil BY <1>1, <1>2 DEF FleetIInv, O!CompleteMeansAccounted
  <2>2. \A b \in hosts : scap.results[b] = "complete" => b \in todo BY <1>2, <1>3
  <2> QED BY <1>1, <1>2, <1>5, <2>1, <2>2 DEF FleetIInv, O!CompleteMeansAccounted
<1> QED BY <1>1, <1>7, <1>8, <1>9, FleetOnlyAudit DEF FleetAuditInv

LEMMA FleetScanStep == ASSUME O!FleetAssumption, FleetIInv, NEW a \in FleetAlias, NEW scan0 \in O!Outcome, O!Scan(a, scan0) PROVE FleetIInv'
<1>1. /\ scap # Nil /\ scap.stage = "scans" /\ scap.current = Nil /\ a \in scap.todo
      /\ UNCHANGED <<O!settings, minute, settled, scapReports, O!pageVars>>
  BY DEF O!Scan, O!Free
<1>2. PICK hosts \in SUBSET FleetAlias :
           /\ scap \in O!AuditRequest(hosts) /\ Nil \notin hosts
           /\ DOMAIN scap.results = hosts /\ scap.results \in [hosts -> O!Outcome \cup {Nil}]
           /\ scap.done \in [hosts -> SUBSET O!Deed] /\ scap.todo \subseteq hosts
           /\ scap.current \in hosts \cup {Nil}
  BY <1>1, FleetHosts
<1>3. a \in hosts /\ a # Nil BY <1>1, <1>2
<1>4. PICK todo : todo = scap.todo \ {a} OBVIOUS
<1>5. UNCHANGED environment BY <1>1 DEF O!settings
<1>6. CASE scan0 = "error"
  <2>1. "error" \in O!Outcome /\ Nil \notin O!Outcome /\ {} \in SUBSET O!Deed BY DEF O!Outcome, O!FleetAssumption
  <2>2. PICK r, d : r = [scap.results EXCEPT ![a] = "error"] /\ d = [scap.done EXCEPT ![a] = @ \cup {}] OBVIOUS
  <2>3. /\ r \in [hosts -> O!Outcome \cup {Nil}] /\ d \in [hosts -> SUBSET O!Deed]
        /\ O!Ended(a, "error", {}) = FleetWith("scans", Nil, scap.todo, r, d)
    BY <1>1, <1>2, <1>3, <2>1, <2>2, FleetEndedIs
  <2>4. scap' = FleetWith("scans", Nil, todo, r, d)
    <3>1. scap' = [O!Ended(a, "error", {}) EXCEPT !.todo = @ \ {a}] BY <1>6 DEF O!Scan
    <3> QED BY <1>4, <2>3, <3>1 DEF FleetWith
  <2>5. /\ scap'.stage = "scans" /\ scap'.current = Nil /\ scap'.todo = todo /\ scap'.results = r
        /\ scap'.done = d /\ scap'.kind = scap.kind
    BY <2>4 DEF FleetWith
  <2>6. scap' \in O!AuditRequest(hosts) /\ FleetSame(scap') BY <1>2, <1>4, <2>3, <2>4, FleetWithSort
  <2>7. FleetAuditSort' /\ FleetAgreed' /\ FleetReported' BY <1>1, <1>2, <1>5, <2>6, FleetGoesOn
  <2>8. FleetAhead' BY <1>2, <1>4, <2>5 DEF FleetAhead
  <2>9. O!CompleteMeansAccounted'
    <3>1. ASSUME NEW b \in hosts, r[b] = "complete"
          PROVE  /\ scapReports[b] # Nil /\ "report" \in d[b] /\ (scap.kind = "openscap" => scapReports[b].evaluated # Nil)
                 /\ {"scan", "delivery"} \subseteq d[b] \/ b \in todo
      <4>1. b # a BY <1>2, <1>3, <2>2, <3>1
      <4>2. r[b] = scap.results[b] /\ d[b] = scap.done[b] BY <1>2, <2>2, <4>1
      <4>3. b # scap.current BY <1>1, <1>2
      <4> QED BY <1>1, <1>2, <1>4, <3>1, <4>1, <4>2, <4>3 DEF FleetIInv, O!CompleteMeansAccounted
    <3>2. ASSUME NEW b \in hosts, b \notin todo PROVE r[b] # Nil
      <4>1. CASE b = a BY <1>2, <1>3, <2>1, <2>2, <4>1
      <4>2. CASE b # a
        <5>1. r[b] = scap.results[b] BY <1>2, <2>2, <4>2
        <5>2. b # scap.current /\ b \notin scap.todo BY <1>1, <1>2, <1>4, <3>2, <4>2
        <5> QED BY <1>1, <1>2, <5>1, <5>2 DEF FleetIInv, O!CompleteMeansAccounted
      <4> QED BY <4>1, <4>2
    <3>3. DOMAIN r = hosts BY <2>3
    <3> QED BY <1>1, <2>5, <3>1, <3>2, <3>3 DEF O!CompleteMeansAccounted
  <2> QED BY <1>1, <2>7, <2>8, <2>9, FleetOnlyAudit DEF FleetAuditInv
<1>7. CASE scan0 # "error"
  <2>1. PICK d : d = [scap.done EXCEPT ![a] = IF scan0 = "complete" THEN @ \cup {"scan"} ELSE @] OBVIOUS
  <2>2. d \in [hosts -> SUBSET O!Deed] /\ \A b \in hosts : scap.done[b] \subseteq d[b] BY <1>2, <2>1 DEF O!Deed
  <2>3. scap' = FleetWith("scans", a, todo, scap.results, d)
    <3>1. scap' = [scap EXCEPT !.current = a, !.todo = todo, !.done = d]
      <4>1. scap' = [scap EXCEPT !.current = a, !.todo = @ \ {a},
                                   !.done[a] = IF scan0 = "complete" THEN @ \cup {"scan"} ELSE @]
        BY <1>7 DEF O!Scan
      <4> QED BY <1>2, <1>4, <2>1, <4>1, FleetWhole
    <3> QED BY <1>1, <1>2, <3>1, FleetWhole DEF FleetWith
  <2>4. /\ scap'.stage = "scans" /\ scap'.current = a /\ scap'.todo = todo /\ scap'.results = scap.results
        /\ scap'.done = d /\ scap'.kind = scap.kind
    BY <2>3 DEF FleetWith
  <2>5. scap' \in O!AuditRequest(hosts) /\ FleetSame(scap') BY <1>2, <1>3, <1>4, <2>2, <2>3, FleetWithSort
  <2>6. FleetAuditSort' /\ FleetAgreed' /\ FleetReported' BY <1>1, <1>2, <1>5, <2>5, FleetGoesOn
  <2>7. FleetAhead' BY <1>4, <2>4 DEF FleetAhead
  <2>8. O!CompleteMeansAccounted'
    <3>1. ASSUME NEW b \in hosts, scap.results[b] = "complete"
          PROVE  /\ scapReports[b] # Nil /\ "report" \in d[b] /\ (scap.kind = "openscap" => scapReports[b].evaluated # Nil)
                 /\ {"scan", "delivery"} \subseteq d[b] \/ b = a \/ b \in todo
      <4>1. b # scap.current BY <1>1, <1>2
      <4> QED BY <1>1, <1>2, <1>4, <2>2, <3>1, <4>1 DEF FleetIInv, O!CompleteMeansAccounted
    <3>2. ASSUME NEW b \in hosts, b # a, b \notin todo PROVE scap.results[b] # Nil
      <4>1. b # scap.current /\ b \notin scap.todo BY <1>1, <1>2, <1>4, <3>2
      <4> QED BY <1>1, <1>2, <4>1 DEF FleetIInv, O!CompleteMeansAccounted
    <3> QED BY <1>1, <1>2, <2>4, <3>1, <3>2 DEF O!CompleteMeansAccounted
  <2> QED BY <1>1, <2>6, <2>7, <2>8, FleetOnlyAudit DEF FleetAuditInv
<1> QED BY <1>6, <1>7

LEMMA FleetDeliverStep ==
  ASSUME O!FleetAssumption, FleetIInv, NEW a \in FleetAlias, NEW delivery \in {"accepted", "skipped", "failed"}, O!Deliver(a, delivery)
  PROVE  FleetIInv'
<1>1. /\ scap # Nil /\ scap.stage = "scans" /\ scap.current = a
      /\ UNCHANGED <<O!settings, minute, settled, scapReports, O!pageVars>>
  BY DEF O!Deliver
<1>2. PICK hosts \in SUBSET FleetAlias :
           /\ scap \in O!AuditRequest(hosts) /\ Nil \notin hosts
           /\ DOMAIN scap.results = hosts /\ scap.results \in [hosts -> O!Outcome \cup {Nil}]
           /\ scap.done \in [hosts -> SUBSET O!Deed] /\ scap.todo \subseteq hosts
           /\ scap.current \in hosts \cup {Nil}
  BY <1>1, FleetHosts
<1>3. a \in hosts BY <1>1, <1>2 DEF O!FleetAssumption
<1>4. PICK outcome : outcome = O!Overall(a, IF "scan" \in scap.done[a] THEN "complete" ELSE "partial", delivery) OBVIOUS
<1>5. outcome \in O!Outcome /\ Nil \notin O!Outcome BY <1>4 DEF O!Overall, O!Outcome, O!FleetAssumption
<1>6. PICK deeds \in SUBSET O!Deed : deeds = IF delivery = "failed" THEN {} ELSE {"delivery"} BY DEF O!Deed
<1>7. PICK r, d : r = [scap.results EXCEPT ![a] = outcome] /\ d = [scap.done EXCEPT ![a] = @ \cup deeds] OBVIOUS
<1>8. /\ r \in [hosts -> O!Outcome \cup {Nil}] /\ d \in [hosts -> SUBSET O!Deed]
      /\ O!Ended(a, outcome, deeds) = FleetWith("scans", Nil, scap.todo, r, d)
      /\ FleetWith("scans", Nil, scap.todo, r, d) \in O!AuditRequest(hosts)
      /\ FleetSame(FleetWith("scans", Nil, scap.todo, r, d))
  BY <1>1, <1>2, <1>3, <1>5, <1>7, FleetEndedIs
<1>9. scap' = FleetWith("scans", Nil, scap.todo, r, d) BY <1>4, <1>6, <1>8 DEF O!Deliver
<1>10. /\ scap'.stage = "scans" /\ scap'.current = Nil /\ scap'.todo = scap.todo /\ scap'.results = r
       /\ scap'.done = d /\ scap'.kind = scap.kind
  BY <1>9 DEF FleetWith
<1>11. FleetAuditSort' /\ FleetAgreed' /\ FleetReported'
  <2>1. UNCHANGED environment BY <1>1 DEF O!settings
  <2> QED BY <1>1, <1>2, <1>8, <1>9, <2>1, FleetGoesOn
<1>12. FleetAhead' BY <1>2, <1>10 DEF FleetAhead
<1>13. O!CompleteMeansAccounted'
  <2>1. ASSUME NEW b \in hosts, r[b] = "complete"
        PROVE  /\ scapReports[b] # Nil /\ "report" \in d[b] /\ (scap.kind = "openscap" => scapReports[b].evaluated # Nil)
               /\ {"scan", "delivery"} \subseteq d[b] \/ b \in scap.todo
    <3>1. CASE b = a
      <4>1. outcome = "complete" BY <1>2, <1>3, <1>7, <2>1, <3>1
      <4>2. scap.results[a] = "complete" /\ "scan" \in scap.done[a] /\ delivery # "failed" BY <1>4, <4>1 DEF O!Overall
      <4>3. d[a] = scap.done[a] \cup {"delivery"} BY <1>2, <1>3, <1>6, <1>7, <4>2
      <4> QED BY <1>1, <1>2, <1>3, <3>1, <4>2, <4>3 DEF FleetIInv, O!CompleteMeansAccounted
    <3>2. CASE b # a
      <4>1. r[b] = scap.results[b] /\ d[b] = scap.done[b] BY <1>2, <1>7, <3>2
      <4> QED BY <1>1, <1>2, <2>1, <3>2, <4>1 DEF FleetIInv, O!CompleteMeansAccounted
    <3> QED BY <3>1, <3>2
  <2>2. ASSUME NEW b \in hosts, b \notin scap.todo PROVE r[b] # Nil
    <3>1. CASE b = a BY <1>2, <1>3, <1>5, <1>7, <3>1
    <3>2. CASE b # a
      <4>1. r[b] = scap.results[b] BY <1>2, <1>7, <3>2
      <4> QED BY <1>1, <1>2, <2>2, <3>2, <4>1 DEF FleetIInv, O!CompleteMeansAccounted
    <3> QED BY <3>1, <3>2
  <2>3. DOMAIN r = hosts BY <1>8
  <2> QED BY <1>1, <1>10, <2>1, <2>2, <2>3 DEF O!CompleteMeansAccounted
<1> QED BY <1>1, <1>11, <1>12, <1>13, FleetOnlyAudit DEF FleetAuditInv

-----------------------------------------------------------------------------
(* All steps                                                                *)

LEMMA FleetLaunchStep ==
  ASSUME O!FleetAssumption, FleetIInv,
         \/ \E tool \in O!Tool, a \in FleetAlias : O!LaunchManual(tool, a)
         \/ \E target0 \in FleetAlias \cup O!Groups, kind \in O!Kind \ {"oval"} : O!LaunchScheduled(kind, target0)
  PROVE  FleetIInv'
<1>1. ASSUME NEW tool \in O!Tool, NEW a \in FleetAlias, O!LaunchManual(tool, a) PROVE FleetIInv'
  <2>1. tool \in O!Kind /\ {a} \in SUBSET FleetAlias /\ a \in {a} \cup {Nil} BY DEF O!Kind
  <2>2. O!Accept("page", tool, {a}, a) BY <1>1 DEF O!LaunchManual
  <2> QED BY <2>1, <2>2, FleetAcceptStep
<1>2. ASSUME NEW target0, NEW kind \in O!Kind \ {"oval"}, O!LaunchScheduled(kind, target0) PROVE FleetIInv'
  <2>1. PICK hosts : hosts = O!TargetHosts(target0) OBVIOUS
  <2>2. hosts \in SUBSET FleetAlias /\ Nil \in hosts \cup {Nil} BY <2>1 DEF O!TargetHosts
  <2>3. O!Accept("scheduler", kind, hosts, Nil) BY <1>2, <2>1 DEF O!LaunchScheduled
  <2> QED BY <2>2, <2>3, FleetAcceptStep
<1> QED BY <1>1, <1>2

LEMMA FleetStep == ASSUME O!FleetAssumption, FleetIInv, [O!Next]_O!vars PROVE FleetIInv'
<1>1. O!Failures \subseteq SUBSET FleetRule BY DEF O!Failures
<1>2. CASE O!Settings BY <1>2, FleetSettingsStep
<1>3. CASE O!Page BY <1>3, FleetPageStep
<1>4. CASE O!Audits
  <2>1. ASSUME NEW a \in FleetAlias, NEW failed \in O!Failures, NEW b \in BOOLEAN, O!StartHost(a) \/ O!Finish(a, failed, b) \/ O!Fail(a, failed, b)
        PROVE  FleetIInv'
    <3>1. failed \in SUBSET FleetRule BY <1>1
    <3> QED BY <2>1, <3>1, FleetStartHostStep, FleetFinishStep, FleetFailStep
  <2>2. ASSUME NEW failed \in O!Failures, NEW b \in BOOLEAN, O!Crash(failed, b) PROVE FleetIInv'
    <3>1. failed \in SUBSET FleetRule BY <1>1
    <3> QED BY <2>2, <3>1, FleetCrashStep
  <2>3. ASSUME NEW a \in FleetAlias, NEW scan0 \in O!Outcome, O!Scan(a, scan0) PROVE FleetIInv' BY <2>3, FleetScanStep
  <2>4. ASSUME NEW a \in FleetAlias, NEW delivery \in {"accepted", "skipped", "failed"}, O!Deliver(a, delivery) PROVE FleetIInv'
    BY <2>4, FleetDeliverStep
  <2>5. CASE O!BeginScans BY <2>5, FleetBeginScansStep
  <2>6. CASE O!Tick BY <2>6, FleetSettingsStep
  <2> QED BY <1>4, <2>1, <2>2, <2>3, <2>4, <2>5, <2>6, FleetLaunchStep DEF O!Audits
<1>5. CASE UNCHANGED O!vars
  <2>1. UNCHANGED <<O!settings, minute, settled, O!pageVars>> /\ UNCHANGED <<environment, scap, scapReports>>
    BY <1>5 DEF O!vars, O!settings, O!pageVars
  <2> QED BY <2>1, FleetIdle, FleetOnlyAudit
<1> QED BY <1>2, <1>3, <1>4, <1>5 DEF O!Next

LEMMA FleetOfTheirLaunch == ASSUME O!FleetAssumption, FleetIInv PROVE O!ReportsOfTheirLaunch
<1>1. SUFFICES ASSUME NEW a \in FleetAlias, scapReports[a] # Nil, scap.kind \in O!Tool,
                      NEW r, r = scapReports[a], NEW s, s = scap.selections[a]
               PROVE  /\ IF r.group = Nil THEN environment /\ \A g \in O!Groups : ~ O!Governs(scap.agreed, r.kind, g, a)
                         ELSE O!Governs(scap.agreed, r.kind, r.group, a) /\ r.config = scap.agreed.policies[r.kind][r.group]
                      /\ r.evaluated # Nil =>
                           \A g \in O!Groups, rule \in FleetRule :
                             <<g, rule>> \in r.marked <=> /\ g \in scap.agreed.members[a] /\ rule \in r.failed
                                                          /\ scap.agreed.exceptions[g, rule] > r.evaluated
  BY DEF O!ReportsOfTheirLaunch
<1>2. scap # Nil /\ FleetMatches(r, scap, a) BY <1>1 DEF FleetIInv, FleetReported
<1>3. /\ scap.exceptions = scap.agreed.exceptions
      /\ FleetResolved(s, scap.agreed, scap.kind, a)
  BY <1>1, <1>2 DEF FleetIInv, FleetAgreed, FleetMatches
<1>4. ASSUME NEW g \in O!Groups, NEW rule \in FleetRule, r.evaluated # Nil
      PROVE  <<g, rule>> \in r.marked <=> /\ g \in scap.agreed.members[a] /\ rule \in r.failed
                                          /\ scap.agreed.exceptions[g, rule] > r.evaluated
  <2>1. <<g, rule>> \in O!Groups \X FleetRule /\ <<g, rule>>[1] = g /\ <<g, rule>>[2] = rule OBVIOUS
  <2>2. r.marked = {y \in O!Groups \X FleetRule : /\ y[1] \in s.groups /\ y[2] \in r.failed /\ scap.exceptions[y] > r.evaluated}
    BY <1>1, <1>2, <1>4 DEF FleetMatches
  <2>3. <<g, rule>> \in r.marked <=> /\ g \in s.groups /\ rule \in r.failed /\ scap.exceptions[<<g, rule>>] > r.evaluated
    BY <2>1, <2>2
  <2> QED BY <1>3, <2>3 DEF FleetResolved
<1> QED BY <1>1, <1>2, <1>3, <1>4 DEF FleetMatches, FleetResolved

LEMMA FleetPrepared == ASSUME O!FleetAssumption, FleetIInv PROVE O!PreparationIsLaunch
<1>1. environment \in BOOLEAN BY DEF FleetIInv, O!TypeOK
<1> QED BY <1>1, FleetPageAgrees DEF FleetIInv, FleetShown, O!PreparationIsLaunch

-----------------------------------------------------------------------------
(* The text of the inventory                                                *)

(* Of finitely many places one is the first and one the last.               *)
LEMMA HasLeast ==
  ASSUME NEW n \in Nat, NEW Some \in SUBSET (1 .. n), Some # {}
  PROVE  \E i \in Some : \A j \in Some : i <= j
<1> DEFINE Below(i) == {j \in Some : j < i}
           Belows == {Below(i) : i \in Some}
<1>1. \A i \in Some : i \in Int OBVIOUS
<1>2. IsFiniteSet(Some)
  <2>1. IsFiniteSet(1 .. n) BY FS_Interval
  <2> QED BY <2>1, FS_Subset
<1>3. Belows \subseteq FiniteSubsetsOf(Some) /\ Belows # {}
  <2>1. ASSUME NEW i \in Some PROVE Below(i) \in SUBSET Some /\ IsFiniteSet(Below(i))
    <3>1. Below(i) \in SUBSET Some OBVIOUS
    <3> QED BY <1>2, <3>1, FS_Subset
  <2> QED BY <2>1 DEF FiniteSubsetsOf
<1>4. \E u \in Belows : \A v \in Belows : ~ (<<v, u>> \in StrictSubsetOrdering(Some))
  BY <1>3, FS_StrictSubsetOrderingWellFounded, WFMin
<1>5. PICK i \in Some : \A v \in Belows : ~ (<<v, Below(i)>> \in StrictSubsetOrdering(Some)) BY <1>4
<1>6. SUFFICES ASSUME NEW j \in Some, ~ (i <= j) PROVE FALSE BY <1>5
<1>7. Below(j) \subseteq Below(i) /\ j \in Below(i) /\ j \notin Below(j)
  <2>1. j < i /\ ~ (j < j) BY <1>1, <1>6
  <2>2. \A k \in Some : k < j => k < i BY <1>1, <2>1
  <2> QED BY <2>1, <2>2
<1>8. Below(j) \in SUBSET Some /\ Below(i) \in SUBSET Some /\ Below(j) # Below(i) BY <1>7
<1>9. <<Below(j), Below(i)>> \in StrictSubsetOrdering(Some) BY <1>7, <1>8 DEF StrictSubsetOrdering
<1> QED BY <1>5, <1>9

LEMMA HasGreatest ==
  ASSUME NEW n \in Nat, NEW Some \in SUBSET (1 .. n), Some # {}
  PROVE  \E i \in Some : \A j \in Some : j <= i
<1> DEFINE Mirrored == {n + 1 - i : i \in Some}
<1>1. Mirrored \in SUBSET (1 .. n) /\ Mirrored # {} OBVIOUS
<1>2. PICK m \in Mirrored : \A k \in Mirrored : m <= k BY <1>1, HasLeast
<1>3. PICK i \in Some : m = n + 1 - i BY <1>2
<1>4. \A j \in Some : j <= i
  <2> SUFFICES ASSUME NEW j \in Some PROVE j <= i OBVIOUS
  <2>1. m <= n + 1 - j BY <1>2
  <2> QED BY <2>1, <1>3
<1> QED BY <1>3, <1>4

-----------------------------------------------------------------------------
(* Lines                                                                    *)

LEMMA InventoryLinesAre ==
  ASSUME I!InventoryAssumption, NEW lines \in Seq(I!Line)
  PROVE  /\ Len(lines) \in Nat /\ DOMAIN lines = 1 .. Len(lines)
         /\ \A i \in DOMAIN lines : i \in Int /\ lines[i] \in I!Line
         /\ \A i \in DOMAIN lines : lines[i].header \in BOOLEAN
         /\ \A i \in DOMAIN lines : lines[i].header =>
              \E g \in InventoryGroup, s \in I!Section : lines[i] = I!Header(g, s)
<1>1. \A l \in I!Line : l.header \in BOOLEAN /\ (l.header => \E g \in InventoryGroup, s \in I!Section : l = I!Header(g, s))
  <2> SUFFICES ASSUME NEW l \in I!Line
               PROVE  l.header \in BOOLEAN /\ (l.header => \E g \in InventoryGroup, s \in I!Section : l = I!Header(g, s)) OBVIOUS
  <2>1. CASE \E g \in InventoryGroup, s \in I!Section : l = I!Header(g, s)
    <3>1. PICK g \in InventoryGroup, s \in I!Section : l = I!Header(g, s) BY <2>1
    <3>2. l.header = TRUE BY <3>1 DEF I!Header
    <3> QED BY <3>1, <3>2
  <2>2. CASE \E n \in InventoryAlias \cup InventoryGroup \cup Variable, x \in InventoryAddress \cup {None} : l = I!Entry(n, x)
    <3>1. PICK n \in InventoryAlias \cup InventoryGroup \cup Variable, x \in InventoryAddress \cup {None} : l = I!Entry(n, x) BY <2>2
    <3>2. l.header = FALSE BY <3>1 DEF I!Entry
    <3> QED BY <3>2
  <2> QED BY <2>1, <2>2 DEF I!Line
<1>2. Len(lines) \in Nat /\ DOMAIN lines = 1 .. Len(lines) BY LenProperties
<1>3. \A i \in DOMAIN lines : i \in Int /\ lines[i] \in I!Line BY <1>2, ElementOfSeq
<1> QED BY <1>1, <1>2, <1>3

LEMMA InventoryHeaderAt ==
  ASSUME I!InventoryAssumption, NEW lines \in Seq(I!Line), NEW i \in DOMAIN lines, NEW j \in 1 .. i, lines[j].header,
         \A k \in 1 .. i : lines[k].header => k <= j
  PROVE  I!HeaderOf(lines, i) = lines[j]
<1> DEFINE above == {k \in 1 .. i : lines[k].header}
<1>1. j \in above /\ i \in Int BY InventoryLinesAre
<1>2. (CHOOSE m \in above : \A k \in above : k <= m) = j BY <1>1
<1> QED BY <1>1, <1>2 DEF I!HeaderOf

LEMMA InventoryHeaderNone ==
  ASSUME NEW lines, NEW i, \A k \in 1 .. i : ~ lines[k].header
  PROVE  I!HeaderOf(lines, i) = I!Header("ungrouped", "hosts")
BY DEF I!HeaderOf

LEMMA InventoryHeaderThere ==
  ASSUME I!InventoryAssumption, NEW lines \in Seq(I!Line), NEW i \in DOMAIN lines, NEW m \in 1 .. i, lines[m].header
  PROVE  \E j \in 1 .. i : /\ lines[j].header /\ \A k \in 1 .. i : lines[k].header => k <= j
                           /\ I!HeaderOf(lines, i) = lines[j]
<1> DEFINE above == {k \in 1 .. i : lines[k].header}
<1>1. i \in Nat /\ above \in SUBSET (1 .. i) /\ above # {} BY InventoryLinesAre
<1>2. PICK j \in above : \A k \in above : k <= j BY <1>1, HasGreatest
<1> QED BY <1>2, InventoryHeaderAt

(* A line stands under a header of the text or, at the top, under none.     *)
LEMMA InventoryHeaderKnown ==
  ASSUME I!InventoryAssumption, NEW lines \in Seq(I!Line), NEW i \in DOMAIN lines
  PROVE  \/ \E j \in 1 .. i : lines[j].header /\ I!HeaderOf(lines, i) = lines[j]
         \/ (\A k \in 1 .. i : ~ lines[k].header) /\ I!HeaderOf(lines, i) = I!Header("ungrouped", "hosts")
BY InventoryHeaderThere, InventoryHeaderNone

(* "ungrouped" is no header that a file has.                                *)
LEMMA InventoryHeaderNamed ==
  ASSUME I!InventoryAssumption, NEW lines \in Seq(I!Line), NEW i \in DOMAIN lines
  PROVE  /\ I!HeaderOf(lines, i).name \in InventoryGroup \cup {"ungrouped"}
         /\ \A m \in 1 .. i : lines[m].header => I!HeaderOf(lines, i).name \in InventoryGroup /\ I!HeaderOf(lines, i).name # "ungrouped"
<1>1. "ungrouped" \notin InventoryGroup BY DEF I!InventoryAssumption
<1>2. \A j \in DOMAIN lines : lines[j].header => lines[j].name \in InventoryGroup BY InventoryLinesAre DEF I!Header
<1>3. I!Header("ungrouped", "hosts").name = "ungrouped" BY DEF I!Header
<1>4. \A j \in 1 .. i : j \in DOMAIN lines BY InventoryLinesAre
<1> QED BY <1>1, <1>2, <1>3, <1>4, InventoryHeaderKnown

-----------------------------------------------------------------------------
(* What an edit leaves                                                      *)

(* The lines `kept` of a text are in the new one, at the places `f`, in     *)
(* their order; all headers are kept, and a header that is new comes to     *)
(* stand above no old line but before an old header.                        *)
Keeps(old, new, kept, f) ==
  /\ kept \subseteq DOMAIN old /\ f \in [kept -> DOMAIN new]
  /\ \A i, j \in kept : i < j => f[i] < f[j]
  /\ \A i \in kept : new[f[i]] = old[i]
  /\ \A i \in DOMAIN old : old[i].header => i \in kept
  /\ \A m \in DOMAIN new, i \in kept :
       new[m].header /\ m < f[i] /\ (\A j \in kept : f[j] # m)
         => \E j \in kept : old[j].header /\ m < f[j] /\ f[j] <= f[i]

LEMMA InventoryHeaderKept ==
  ASSUME I!InventoryAssumption, NEW old \in Seq(I!Line), NEW new \in Seq(I!Line), NEW kept, NEW f, Keeps(old, new, kept, f),
         NEW i \in kept
  PROVE  I!HeaderOf(new, f[i]) = I!HeaderOf(old, i)
<1>1. i \in DOMAIN old /\ f[i] \in DOMAIN new BY DEF Keeps
<1>2. \A j \in kept : j \in DOMAIN old /\ f[j] \in DOMAIN new /\ new[f[j]] = old[j] BY DEF Keeps
<1>3. \A j, k \in kept : (j < k => f[j] < f[k]) /\ (j <= k <=> f[j] <= f[k])
  BY <1>2, InventoryLinesAre DEF Keeps
<1>4. CASE \A k \in 1 .. i : ~ old[k].header
  <2>1. ASSUME NEW m \in 1 .. f[i], new[m].header PROVE FALSE
    <3>1. m \in DOMAIN new /\ m <= f[i] BY <1>1, InventoryLinesAre
    <3>2. CASE \E j \in kept : f[j] = m
      <4>1. PICK j \in kept : f[j] = m BY <3>2
      <4>2. j \in 1 .. i /\ old[j].header BY <1>2, <1>3, <2>1, <3>1, <4>1, InventoryLinesAre
      <4> QED BY <1>4, <4>2
    <3>3. CASE \A j \in kept : f[j] # m
      <4>1. m < f[i] BY <1>1, <3>1, <3>3, InventoryLinesAre
      <4>2. PICK j \in kept : old[j].header /\ f[j] <= f[i] BY <2>1, <3>1, <3>3, <4>1 DEF Keeps
      <4>3. j \in 1 .. i BY <1>2, <1>3, <4>2, InventoryLinesAre
      <4> QED BY <1>4, <4>2, <4>3
    <3> QED BY <3>2, <3>3
  <2>2. I!HeaderOf(new, f[i]) = I!Header("ungrouped", "hosts") BY <2>1, InventoryHeaderNone
  <2> QED BY <1>4, <2>2, InventoryHeaderNone
<1>5. CASE \E k \in 1 .. i : old[k].header
  <2>1. PICK j \in 1 .. i : /\ old[j].header /\ \A k \in 1 .. i : old[k].header => k <= j
                            /\ I!HeaderOf(old, i) = old[j] BY <1>1, <1>5, InventoryHeaderThere
  <2>2. j \in kept /\ j <= i /\ j \in Int BY <1>1, <2>1, InventoryLinesAre DEF Keeps
  <2>3. f[j] \in 1 .. f[i] /\ new[f[j]].header BY <1>1, <1>2, <1>3, <2>1, <2>2, InventoryLinesAre
  <2>4. ASSUME NEW m \in 1 .. f[i], new[m].header PROVE m <= f[j]
    <3>1. m \in DOMAIN new /\ m <= f[i] BY <1>1, InventoryLinesAre
    <3>2. CASE \E k \in kept : f[k] = m
      <4>1. PICK k \in kept : f[k] = m BY <3>2
      <4>2. k \in 1 .. i /\ old[k].header BY <1>2, <1>3, <2>4, <3>1, <4>1, InventoryLinesAre
      <4>3. k <= j BY <2>1, <4>2
      <4> QED BY <1>3, <2>2, <4>1, <4>3
    <3>3. CASE \A k \in kept : f[k] # m
      <4>1. m < f[i] BY <1>1, <3>1, <3>3, InventoryLinesAre
      <4>2. PICK k \in kept : old[k].header /\ m < f[k] /\ f[k] <= f[i] BY <2>4, <3>1, <3>3, <4>1 DEF Keeps
      <4>3. k \in 1 .. i BY <1>2, <1>3, <4>2, InventoryLinesAre
      <4>4. k <= j BY <2>1, <4>2, <4>3
      <4>5. f[k] <= f[j] BY <1>3, <2>2, <4>4
      <4> QED BY <1>2, <2>2, <3>1, <4>2, <4>5, InventoryLinesAre
    <3> QED BY <3>2, <3>3
  <2>5. I!HeaderOf(new, f[i]) = new[f[j]] BY <1>1, <2>3, <2>4, InventoryHeaderAt
  <2> QED BY <1>2, <2>1, <2>2, <2>5
<1> QED BY <1>4, <1>5

(* What a section's lines say; the headers of a text.                       *)
Facts(lines, section) == {<<lines[i].name, I!HeaderOf(lines, i).name>> : i \in I!Entries(lines, section)}
Headers(lines) == {lines[i] : i \in {j \in DOMAIN lines : lines[j].header}}

LEMMA InventoryEntryKept ==
  ASSUME I!InventoryAssumption, NEW old \in Seq(I!Line), NEW new \in Seq(I!Line), NEW kept, NEW f, Keeps(old, new, kept, f),
         NEW i \in kept, NEW section
  PROVE  /\ i \in I!Entries(old, section) <=> f[i] \in I!Entries(new, section)
         /\ new[f[i]] = old[i] /\ I!HeaderOf(new, f[i]) = I!HeaderOf(old, i)
<1>1. i \in DOMAIN old /\ f[i] \in DOMAIN new /\ new[f[i]] = old[i] BY DEF Keeps
<1>2. I!HeaderOf(new, f[i]) = I!HeaderOf(old, i) BY InventoryHeaderKept
<1> QED BY <1>1, <1>2 DEF I!Entries

LEMMA InventoryFactsKept ==
  ASSUME I!InventoryAssumption, NEW old \in Seq(I!Line), NEW new \in Seq(I!Line), NEW kept, NEW f, Keeps(old, new, kept, f),
         NEW section
  PROVE  Facts(new, section) =
           {<<old[i].name, I!HeaderOf(old, i).name>> : i \in I!Entries(old, section) \cap kept}
           \cup {<<new[m].name, I!HeaderOf(new, m).name>> : m \in {k \in I!Entries(new, section) : \A i \in kept : f[i] # k}}
<1> DEFINE Stay == {<<old[i].name, I!HeaderOf(old, i).name>> : i \in I!Entries(old, section) \cap kept}
           Come == {<<new[m].name, I!HeaderOf(new, m).name>> : m \in {k \in I!Entries(new, section) : \A i \in kept : f[i] # k}}
<1>1. ASSUME NEW m \in I!Entries(new, section) PROVE <<new[m].name, I!HeaderOf(new, m).name>> \in Stay \cup Come
  <2>1. CASE \E i \in kept : f[i] = m
    <3>1. PICK i \in kept : f[i] = m BY <2>1
    <3>2. i \in I!Entries(old, section) /\ new[m] = old[i] /\ I!HeaderOf(new, m) = I!HeaderOf(old, i) BY <1>1, <3>1,
         InventoryEntryKept
    <3>3. <<new[m].name, I!HeaderOf(new, m).name>> = <<old[i].name, I!HeaderOf(old, i).name>> BY <3>2
    <3> QED BY <3>1, <3>2, <3>3
  <2>2. CASE \A i \in kept : f[i] # m BY <1>1, <2>2
  <2> QED BY <2>1, <2>2
<1>2. ASSUME NEW i \in I!Entries(old, section) \cap kept
      PROVE  <<old[i].name, I!HeaderOf(old, i).name>> \in Facts(new, section)
  <2>1. f[i] \in I!Entries(new, section) /\ new[f[i]] = old[i] /\ I!HeaderOf(new, f[i]) = I!HeaderOf(old, i) BY InventoryEntryKept
  <2>2. <<new[f[i]].name, I!HeaderOf(new, f[i]).name>> = <<old[i].name, I!HeaderOf(old, i).name>> BY <2>1
  <2> QED BY <2>1, <2>2 DEF Facts
<1>3. Facts(new, section) \subseteq Stay \cup Come BY <1>1 DEF Facts
<1>4. Stay \subseteq Facts(new, section) BY <1>2
<1>5. Come \subseteq Facts(new, section) BY DEF Facts
<1> QED BY <1>3, <1>4, <1>5

LEMMA InventoryHeadersKept ==
  ASSUME I!InventoryAssumption, NEW old \in Seq(I!Line), NEW new \in Seq(I!Line), NEW kept, NEW f, Keeps(old, new, kept, f)
  PROVE  /\ Headers(old) \subseteq Headers(new)
         /\ \A m \in DOMAIN new : new[m].header => new[m] \in Headers(old) \/ \A i \in kept : f[i] # m
<1>1. ASSUME NEW i \in DOMAIN old, old[i].header PROVE old[i] \in Headers(new)
  <2>1. i \in kept /\ f[i] \in DOMAIN new /\ new[f[i]] = old[i] BY <1>1 DEF Keeps
  <2> QED BY <1>1, <2>1 DEF Headers
<1>2. ASSUME NEW m \in DOMAIN new, new[m].header, NEW i \in kept, f[i] = m PROVE new[m] \in Headers(old)
  <2>1. i \in DOMAIN old /\ new[m] = old[i] BY <1>2 DEF Keeps
  <2> QED BY <1>2, <2>1 DEF Headers
<1> QED BY <1>1, <1>2 DEF Headers

LEMMA InventoryAddressLast ==
  ASSUME I!InventoryAssumption, NEW lines \in Seq(I!Line), NEW b, NEW i \in I!Entries(lines, "hosts"),
         lines[i].name = b, lines[i].address # None,
         \A j \in I!Entries(lines, "hosts") : lines[j].name = b /\ lines[j].address # None => j <= i
  PROVE  I!AddressOf(lines, b) = lines[i].address
<1> DEFINE told == {k \in I!Entries(lines, "hosts") : lines[k].name = b /\ lines[k].address # None}
<1>1. i \in told /\ \A j \in told : j <= i /\ j \in Int BY InventoryLinesAre DEF I!Entries
<1>2. (CHOOSE k \in told : \A j \in told : j <= k) = i BY <1>1
<1> QED BY <1>1, <1>2 DEF I!AddressOf

LEMMA InventoryAddressNone ==
  ASSUME NEW lines, NEW b, \A i \in I!Entries(lines, "hosts") : lines[i].name = b => lines[i].address = None
  PROVE  I!AddressOf(lines, b) = None
BY DEF I!AddressOf

(* The address of a host none of whose lines went or came.                  *)
LEMMA InventoryAddressKept ==
  ASSUME I!InventoryAssumption, NEW old \in Seq(I!Line), NEW new \in Seq(I!Line), NEW kept, NEW f, Keeps(old, new, kept, f),
         NEW b, \A i \in I!Entries(old, "hosts") : i \notin kept => old[i].name # b,
         \A m \in I!Entries(new, "hosts") : (\A i \in kept : f[i] # m) => new[m].name # b
  PROVE  I!AddressOf(new, b) = I!AddressOf(old, b)
<1> DEFINE told == {k \in I!Entries(old, "hosts") : old[k].name = b /\ old[k].address # None}
<1>1. ASSUME NEW m \in I!Entries(new, "hosts"), new[m].name = b, new[m].address # None
      PROVE  \E i \in told \cap kept : f[i] = m
  <2>1. PICK i \in kept : f[i] = m BY <1>1
  <2>2. i \in I!Entries(old, "hosts") /\ old[i] = new[m] BY <1>1, <2>1, InventoryEntryKept
  <2> QED BY <1>1, <2>1, <2>2
<1>2. CASE told = {}
  <2>1. I!AddressOf(old, b) = None BY <1>2, InventoryAddressNone
  <2>2. \A m \in I!Entries(new, "hosts") : new[m].name = b => new[m].address = None BY <1>1, <1>2
  <2> QED BY <2>1, <2>2, InventoryAddressNone
<1>3. CASE told # {}
  <2>1. Len(old) \in Nat /\ told \in SUBSET (1 .. Len(old)) BY InventoryLinesAre DEF I!Entries
  <2>2. PICK k \in told : \A j \in told : j <= k BY <1>3, <2>1, HasGreatest
  <2>3. I!AddressOf(old, b) = old[k].address BY <2>2, InventoryAddressLast
  <2>4. k \in kept BY <2>2
  <2>5. f[k] \in I!Entries(new, "hosts") /\ new[f[k]] = old[k] BY <2>2, <2>4, InventoryEntryKept
  <2>6. ASSUME NEW m \in I!Entries(new, "hosts"), new[m].name = b /\ new[m].address # None PROVE m <= f[k]
    <3>1. PICK i \in told \cap kept : f[i] = m BY <1>1, <2>6
    <3>2. i <= k /\ i \in Int /\ k \in Int BY <2>1, <2>2, <3>1
    <3>3. f[k] \in Int /\ m \in Int BY <2>5, <2>6, InventoryLinesAre DEF I!Entries
    <3>4. i < k => f[i] < f[k] BY <2>4, <3>1 DEF Keeps
    <3> QED BY <3>1, <3>2, <3>3, <3>4
  <2>7. I!AddressOf(new, b) = new[f[k]].address BY <2>2, <2>5, <2>6, InventoryAddressLast
  <2> QED BY <2>3, <2>5, <2>7
<1> QED BY <1>2, <1>3

-----------------------------------------------------------------------------
(* A line is put in                                                         *)

LEMMA InventoryAtIs ==
  ASSUME I!InventoryAssumption, NEW lines \in Seq(I!Line), NEW ins \in Seq(I!Line), NEW q \in 1 .. Len(lines) + 1
  PROVE  /\ I!At(lines, q, ins) \in Seq(I!Line) /\ Len(I!At(lines, q, ins)) = Len(lines) + Len(ins)
         /\ \A i \in 1 .. q - 1 : I!At(lines, q, ins)[i] = lines[i]
         /\ \A i \in 1 .. Len(ins) : I!At(lines, q, ins)[q - 1 + i] = ins[i]
         /\ \A i \in q .. Len(lines) : I!At(lines, q, ins)[i + Len(ins)] = lines[i]
<1> DEFINE before == SubSeq(lines, 1, q - 1)
           after == SubSeq(lines, q, Len(lines))
           front == before \o ins
<1>1. Len(lines) \in Nat /\ Len(ins) \in Nat /\ q \in Int /\ \A i \in 1 .. Len(lines) : lines[i] \in I!Line BY InventoryLinesAre
<1>2. before \in Seq(I!Line) /\ Len(before) = q - 1 /\ \A i \in 1 .. q - 1 : before[i] = lines[i]
  <2>1. \A i \in 1 .. q - 1 : lines[i] \in I!Line BY <1>1
  <2>2. /\ before \in Seq(I!Line) /\ Len(before) = IF 1 <= q - 1 THEN q - 1 - 1 + 1 ELSE 0
        /\ \A i \in 1 .. q - 1 - 1 + 1 : before[i] = lines[1 + i - 1]
    BY <1>1, <2>1, SubSeqProperties
  <2> QED BY <1>1, <2>2
<1>3. /\ after \in Seq(I!Line) /\ Len(after) = Len(lines) - q + 1
      /\ \A i \in 1 .. Len(lines) - q + 1 : after[i] = lines[q + i - 1]
  <2>1. \A i \in q .. Len(lines) : lines[i] \in I!Line BY <1>1
  <2>2. /\ after \in Seq(I!Line) /\ Len(after) = IF q <= Len(lines) THEN Len(lines) - q + 1 ELSE 0
        /\ \A i \in 1 .. Len(lines) - q + 1 : after[i] = lines[q + i - 1]
    BY <1>1, <2>1, SubSeqProperties
  <2> QED BY <1>1, <2>2
<1> HIDE DEF before, after
<1>4. /\ front \in Seq(I!Line) /\ Len(front) = q - 1 + Len(ins)
      /\ \A i \in 1 .. q - 1 + Len(ins) : front[i] = IF i <= q - 1 THEN before[i] ELSE ins[i - (q - 1)]
  <2>1. /\ front \in Seq(I!Line) /\ Len(front) = Len(before) + Len(ins)
        /\ \A i \in 1 .. Len(before) + Len(ins) : front[i] = IF i <= Len(before) THEN before[i] ELSE ins[i - Len(before)]
    BY <1>2, ConcatProperties
  <2> QED BY <1>2, <2>1
<1> HIDE DEF front
<1>5. /\ front \o after \in Seq(I!Line) /\ Len(front \o after) = Len(front) + Len(after)
      /\ \A i \in 1 .. Len(front) + Len(after) : (front \o after)[i] = IF i <= Len(front) THEN front[i] ELSE after[i - Len(front)]
  BY <1>3, <1>4, ConcatProperties
<1>6. I!At(lines, q, ins) = front \o after BY DEF I!At, front, before, after
<1>7. ASSUME NEW i \in 1 .. q - 1 PROVE (front \o after)[i] = lines[i]
  <2>1. i \in 1 .. q - 1 + Len(ins) /\ i <= q - 1 /\ i <= Len(front) BY <1>1, <1>4
  <2>2. i \in 1 .. Len(front) + Len(after) BY <1>1, <1>3, <1>4, <2>1
  <2>3. (front \o after)[i] = front[i] BY <1>5, <2>1, <2>2
  <2>4. front[i] = before[i] BY <1>4, <2>1
  <2> QED BY <1>2, <2>3, <2>4
<1>8. ASSUME NEW i \in 1 .. Len(ins) PROVE (front \o after)[q - 1 + i] = ins[i]
  <2>1. q - 1 + i \in 1 .. q - 1 + Len(ins) /\ ~ (q - 1 + i <= q - 1) /\ q - 1 + i - (q - 1) = i BY <1>1
  <2>2. front[q - 1 + i] = ins[i] BY <1>4, <2>1
  <2>3. q - 1 + i \in 1 .. Len(front) + Len(after) /\ q - 1 + i <= Len(front) BY <1>1, <1>3, <1>4
  <2> QED BY <1>5, <2>2, <2>3
<1>9. ASSUME NEW i \in q .. Len(lines) PROVE (front \o after)[i + Len(ins)] = lines[i]
  <2>1. /\ i + Len(ins) \in 1 .. Len(front) + Len(after) /\ ~ (i + Len(ins) <= Len(front))
        /\ i + Len(ins) - Len(front) = i - q + 1 BY <1>1, <1>3, <1>4
  <2>2. i - q + 1 \in 1 .. Len(lines) - q + 1 /\ q + (i - q + 1) - 1 = i BY <1>1
  <2>3. after[i - q + 1] = lines[i] BY <1>3, <2>2
  <2> QED BY <1>5, <2>1, <2>3
<1>10. Len(front \o after) = Len(lines) + Len(ins) BY <1>1, <1>3, <1>4, <1>5
<1> QED BY <1>5, <1>6, <1>7, <1>8, <1>9, <1>10

(* One line, right after a header; or a header and a line, at the end of a  *)
(* section.                                                                 *)
MayInsert(lines, q, ins, hd, e) ==
  \/ ins = <<e>> /\ q - 1 \in 1 .. Len(lines) /\ lines[q - 1] = hd
  \/ ins = <<hd, e>> /\ q \in 1 .. Len(lines) + 1 /\ (q <= Len(lines) => lines[q].header)

(* The new text has all the lines of the old one, and `e` at place p, right *)
(* after the header `hd`.                                                   *)
Adds(old, new, hd, e, f, p) ==
  /\ new \in Seq(I!Line) /\ Keeps(old, new, DOMAIN old, f)
  /\ p \in DOMAIN new /\ p - 1 \in DOMAIN new /\ new[p] = e /\ new[p - 1] = hd /\ I!HeaderOf(new, p) = hd
  /\ \A i \in DOMAIN old : f[i] # p
  /\ \A m \in DOMAIN new : m # p /\ m # p - 1 => \E i \in DOMAIN old : f[i] = m

LEMMA InventoryInserted ==
  ASSUME I!InventoryAssumption, NEW lines \in Seq(I!Line), NEW hd \in I!Line, NEW e \in I!Line, hd.header, ~ e.header,
         NEW q \in Int, NEW ins, MayInsert(lines, q, ins, hd, e)
  PROVE  \E f, p : Adds(lines, I!At(lines, q, ins), hd, e, f, p)
<1>1. PICK n, p : n = Len(ins) /\ p = q + n - 1 OBVIOUS
<1> DEFINE f == [i \in DOMAIN lines |-> IF i < q THEN i ELSE i + n]
<1>2. PICK new : new = I!At(lines, q, ins) OBVIOUS
<1>3. /\ ins \in Seq(I!Line) /\ n = Len(ins) /\ n \in {1, 2} /\ ins[n] = e /\ (n = 2 => ins[1] = hd)
      /\ n = 1 => q > 1 /\ lines[q - 1] = hd
      /\ n = 2 => (q <= Len(lines) => lines[q].header)
  <2>1. CASE ins = <<e>> /\ q - 1 \in 1 .. Len(lines) /\ lines[q - 1] = hd
    <3>1. ins \in Seq(I!Line) /\ n = 1 /\ ins[1] = e BY <1>1, <2>1
    <3>2. q > 1 BY <2>1
    <3> QED BY <1>1, <2>1, <3>1, <3>2
  <2>2. CASE ins = <<hd, e>> /\ (q <= Len(lines) => lines[q].header)
    <3>1. ins \in Seq(I!Line) /\ n = 2 /\ ins[1] = hd /\ ins[2] = e BY <1>1, <2>2
    <3> QED BY <1>1, <2>2, <3>1
  <2> QED BY <2>1, <2>2 DEF MayInsert
<1>4. /\ Len(lines) \in Nat /\ q \in 1 .. Len(lines) + 1 /\ q \in Int
      /\ n \in Int /\ (n = 1 \/ n = 2) /\ p \in Int /\ p = q + n - 1
  <2>1. Len(lines) \in Nat BY InventoryLinesAre
  <2> QED BY <1>1, <1>3, <2>1 DEF MayInsert
<1>5. /\ new \in Seq(I!Line) /\ Len(new) = Len(lines) + n /\ n = Len(ins)
      /\ \A i \in 1 .. q - 1 : new[i] = lines[i]
      /\ \A i \in 1 .. n : new[q - 1 + i] = ins[i]
      /\ \A i \in q .. Len(lines) : new[i + n] = lines[i]
  <2>1. new \in Seq(I!Line) /\ Len(new) = Len(lines) + Len(ins) BY <1>2, <1>3, <1>4, InventoryAtIs
  <2>2. \A i \in 1 .. q - 1 : new[i] = lines[i] BY <1>2, <1>3, <1>4, InventoryAtIs
  <2>3. \A i \in 1 .. Len(ins) : new[q - 1 + i] = ins[i] BY <1>2, <1>3, <1>4, InventoryAtIs
  <2>4. \A i \in q .. Len(lines) : new[i + Len(ins)] = lines[i] BY <1>2, <1>3, <1>4, InventoryAtIs
  <2> QED BY <1>1, <2>1, <2>2, <2>3, <2>4
<1>6. DOMAIN lines = 1 .. Len(lines) /\ DOMAIN new = 1 .. Len(lines) + n BY <1>5, InventoryLinesAre
<1>7. \A i \in DOMAIN lines : f[i] \in DOMAIN new /\ new[f[i]] = lines[i] /\ f[i] \in Int
  <2> SUFFICES ASSUME NEW i \in DOMAIN lines PROVE f[i] \in DOMAIN new /\ new[f[i]] = lines[i] /\ f[i] \in Int OBVIOUS
  <2>1. CASE i < q BY <1>3, <1>4, <1>5, <1>6, <2>1
  <2>2. CASE ~ (i < q)
    <3>1. i \in q .. Len(lines) /\ f[i] = i + n BY <1>4, <1>6, <2>2
    <3>2. new[i + n] = lines[i] BY <1>5, <3>1
    <3>3. i + n \in 1 .. Len(lines) + n /\ i + n \in Int BY <1>4, <3>1
    <3> QED BY <1>6, <3>1, <3>2, <3>3
  <2> QED BY <2>1, <2>2
<1>8. p \in DOMAIN new /\ new[p] = e /\ p \in Int
  <2>1. p = q - 1 + n /\ n \in 1 .. n BY <1>4
  <2>2. new[q - 1 + n] = ins[n] BY <1>5, <2>1
  <2> QED BY <1>3, <1>4, <1>6, <2>1, <2>2
<1>9. n = 2 => p - 1 \in DOMAIN new /\ new[p - 1] = hd /\ p - 1 = q
  <2> SUFFICES ASSUME n = 2 PROVE p - 1 \in DOMAIN new /\ new[p - 1] = hd /\ p - 1 = q OBVIOUS
  <2>1. p - 1 = q /\ q = q - 1 + 1 /\ 1 \in 1 .. n /\ q \in DOMAIN new BY <1>4, <1>6
  <2>2. new[q - 1 + 1] = ins[1] BY <1>5, <2>1
  <2> QED BY <1>3, <2>1, <2>2
<1>10. \A m \in DOMAIN new : (\A i \in DOMAIN lines : f[i] # m) <=> (m = p \/ (n = 2 /\ m = p - 1))
  <2> SUFFICES ASSUME NEW m \in DOMAIN new
               PROVE  (\A i \in DOMAIN lines : f[i] # m) <=> (m = p \/ (n = 2 /\ m = p - 1)) OBVIOUS
  <2>1. ASSUME m = p \/ (n = 2 /\ m = p - 1), NEW i \in DOMAIN lines PROVE f[i] # m
    <3>1. m >= q /\ m < q + n BY <1>4, <2>1
    <3>2. i \in Int /\ m \in Int BY <1>4, <1>6
    <3>3. CASE i < q BY <1>4, <3>1, <3>2, <3>3
    <3>4. CASE ~ (i < q) BY <1>4, <3>1, <3>2, <3>4
    <3> QED BY <3>3, <3>4
  <2>2. ASSUME ~ (m = p \/ (n = 2 /\ m = p - 1)) PROVE \E i \in DOMAIN lines : f[i] = m
    <3>1. CASE m < q
      <4>1. m \in DOMAIN lines /\ f[m] = m BY <1>4, <1>6, <3>1
      <4> QED BY <4>1
    <3>2. CASE ~ (m < q)
      <4>1. m \in Int /\ m <= Len(lines) + n /\ m >= q + n BY <1>4, <1>6, <2>2, <3>2
      <4>2. m - n \in DOMAIN lines /\ ~ (m - n < q) BY <1>4, <1>6, <4>1
      <4>3. f[m - n] = m BY <1>3, <1>6, <4>2
      <4> QED BY <4>2, <4>3
    <3> QED BY <3>1, <3>2
  <2> QED BY <2>1, <2>2
<1>11. \A i, j \in DOMAIN lines : i < j => f[i] < f[j] BY <1>3, <1>4, <1>6
<1>12. ASSUME NEW m \in DOMAIN new, NEW i \in DOMAIN lines, new[m].header /\ m < f[i] /\ (\A j \in DOMAIN lines : f[j] # m)
       PROVE  \E j \in DOMAIN lines : lines[j].header /\ m < f[j] /\ f[j] <= f[i]
  <2>1. m # p BY <1>8, <1>12
  <2>2. n = 2 /\ m = q BY <1>9, <1>10, <1>12, <2>1
  <2>3. ~ (i < q) BY <1>4, <1>6, <1>12, <2>2
  <2>4. q \in DOMAIN lines /\ lines[q].header BY <1>3, <1>4, <1>6, <2>2, <2>3
  <2>5. f[q] = q + 2 /\ f[i] = i + 2 BY <1>4, <1>6, <2>2, <2>3, <2>4
  <2> QED BY <1>4, <1>6, <2>2, <2>3, <2>4, <2>5
<1>13. Keeps(lines, new, DOMAIN lines, f)
  <2>1. f \in [DOMAIN lines -> DOMAIN new] BY <1>7
  <2>2. \A i \in DOMAIN lines : new[f[i]] = lines[i] BY <1>7
  <2> HIDE DEF f
  <2> QED BY <1>11, <1>12, <2>1, <2>2 DEF Keeps
<1>14. p - 1 \in 1 .. p /\ p - 1 \in DOMAIN new /\ new[p - 1] = hd
  <2>1. CASE n = 2 BY <1>4, <1>6, <1>8, <1>9, <2>1
  <2>2. CASE n = 1
    <3>1. p = q /\ q > 1 /\ lines[q - 1] = hd BY <1>3, <1>4, <2>2
    <3>2. q - 1 \in 1 .. q - 1 BY <1>4, <3>1
    <3>3. new[q - 1] = hd BY <1>5, <3>1, <3>2
    <3> QED BY <1>4, <1>6, <2>2, <3>1, <3>3
  <2> QED BY <1>3, <2>1, <2>2
<1>15. I!HeaderOf(new, p) = hd
  <2>1. PICK j : j = p - 1 OBVIOUS
  <2>2. \A k \in 1 .. p : new[k].header => k <= j BY <1>8, <2>1
  <2>3. new[j].header /\ j \in 1 .. p BY <1>14, <2>1
  <2>4. new \in Seq(I!Line) /\ p \in DOMAIN new BY <1>5, <1>8
  <2>5. I!HeaderOf(new, p) = new[j] BY <2>2, <2>3, <2>4, InventoryHeaderAt
  <2> QED BY <1>14, <2>1, <2>5
<1>16. \A i \in DOMAIN lines : f[i] # p BY <1>8, <1>10
<1>17. \A m \in DOMAIN new : m # p /\ m # p - 1 => \E i \in DOMAIN lines : f[i] = m BY <1>10
<1> HIDE DEF f
<1>18. Adds(lines, new, hd, e, f, p) BY <1>5, <1>8, <1>13, <1>14, <1>15, <1>16, <1>17 DEF Adds
<1> QED BY <1>2, <1>18

(* The new text says what the old one said, and what `e` says under `hd`,   *)
(* which is the last word on a host that no header named.                   *)
Gains(old, new, hd, e) ==
  /\ new \in Seq(I!Line)
  /\ \A s : Facts(new, s) = Facts(old, s) \cup (IF s = hd.section THEN {<<e.name, hd.name>>} ELSE {})
  /\ Headers(new) = Headers(old) \cup {hd}
  /\ \A b : b # e.name \/ hd.section # "hosts" => I!AddressOf(new, b) = I!AddressOf(old, b)
  /\ hd.section = "hosts" /\ e.address # None
       /\ (\A i \in I!Entries(old, "hosts") : old[i].name = e.name => I!HeaderOf(old, i).name = "ungrouped")
     => I!AddressOf(new, e.name) = e.address

LEMMA InventoryGained ==
  ASSUME I!InventoryAssumption, NEW old \in Seq(I!Line), NEW new, NEW hd \in I!Line, hd.header, NEW e \in I!Line, ~ e.header,
         \E f, p : Adds(old, new, hd, e, f, p)
  PROVE  Gains(old, new, hd, e)
<1>1. PICK f, p : Adds(old, new, hd, e, f, p) OBVIOUS
<1>2. /\ new \in Seq(I!Line) /\ Keeps(old, new, DOMAIN old, f)
      /\ p \in DOMAIN new /\ p - 1 \in DOMAIN new /\ new[p] = e /\ new[p - 1] = hd /\ I!HeaderOf(new, p) = hd
      /\ \A i \in DOMAIN old : f[i] # p
      /\ \A m \in DOMAIN new : m # p /\ m # p - 1 => \E i \in DOMAIN old : f[i] = m
  BY <1>1 DEF Adds
<1>3. \A s : p \in I!Entries(new, s) <=> s = hd.section BY <1>2 DEF I!Entries
<1>4. \A s, m : m \in I!Entries(new, s) /\ (\A i \in DOMAIN old : f[i] # m) => m = p BY <1>2 DEF I!Entries
<1>5. ASSUME NEW s
      PROVE  Facts(new, s) = Facts(old, s) \cup (IF s = hd.section THEN {<<e.name, hd.name>>} ELSE {})
  <2> DEFINE Stay == {<<old[i].name, I!HeaderOf(old, i).name>> : i \in I!Entries(old, s) \cap DOMAIN old}
             Come == {<<new[m].name, I!HeaderOf(new, m).name>> : m \in {k \in I!Entries(new, s) : \A i \in DOMAIN old : f[i] # k}}
  <2>1. Facts(new, s) = Stay \cup Come BY <1>2, InventoryFactsKept
  <2>2. Stay = Facts(old, s)
    <3>1. I!Entries(old, s) \cap DOMAIN old = I!Entries(old, s) BY DEF I!Entries
    <3> QED BY <3>1 DEF Facts
  <2>3. CASE s = hd.section
    <3>1. {k \in I!Entries(new, s) : \A i \in DOMAIN old : f[i] # k} = {p} BY <1>2, <1>3, <1>4, <2>3
    <3>2. Come = {<<e.name, hd.name>>} BY <1>2, <3>1
    <3> QED BY <2>1, <2>2, <2>3, <3>2
  <2>4. CASE s # hd.section
    <3>1. {k \in I!Entries(new, s) : \A i \in DOMAIN old : f[i] # k} = {} BY <1>3, <1>4, <2>4
    <3>2. Come = {} BY <3>1
    <3> QED BY <2>1, <2>2, <2>4, <3>2
  <2> QED BY <2>3, <2>4
<1>6. Headers(new) = Headers(old) \cup {hd}
  <2>1. Headers(old) \subseteq Headers(new) BY <1>2, InventoryHeadersKept
  <2>2. hd \in Headers(new) BY <1>2 DEF Headers
  <2>3. ASSUME NEW m \in DOMAIN new, new[m].header PROVE new[m] \in Headers(old) \cup {hd}
    <3>1. new[m] \in Headers(old) \/ \A i \in DOMAIN old : f[i] # m BY <1>2, <2>3, InventoryHeadersKept
    <3>2. ASSUME \A i \in DOMAIN old : f[i] # m PROVE new[m] = hd BY <1>2, <2>3, <3>2
    <3> QED BY <3>1, <3>2
  <2>4. Headers(new) \subseteq Headers(old) \cup {hd} BY <2>3 DEF Headers
  <2> QED BY <2>1, <2>2, <2>4
<1>7. ASSUME NEW b, b # e.name \/ hd.section # "hosts" PROVE I!AddressOf(new, b) = I!AddressOf(old, b)
  <2>1. \A i \in I!Entries(old, "hosts") : i \notin DOMAIN old => old[i].name # b BY DEF I!Entries
  <2>2. \A m \in I!Entries(new, "hosts") : (\A i \in DOMAIN old : f[i] # m) => new[m].name # b BY <1>2, <1>3, <1>4,
       <1>7
  <2> QED BY <1>2, <2>1, <2>2, InventoryAddressKept
<1>8. ASSUME hd.section = "hosts", e.address # None,
             \A i \in I!Entries(old, "hosts") : old[i].name = e.name => I!HeaderOf(old, i).name = "ungrouped"
      PROVE  I!AddressOf(new, e.name) = e.address
  <2>1. p \in I!Entries(new, "hosts") BY <1>3, <1>8
  <2>2. ASSUME NEW m \in I!Entries(new, "hosts"), new[m].name = e.name PROVE m <= p
    <3>1. CASE m = p BY <1>2, <3>1, InventoryLinesAre
    <3>2. CASE m # p
      <4>1. PICK i \in DOMAIN old : f[i] = m BY <1>4, <2>2, <3>2
      <4>2. i \in I!Entries(old, "hosts") /\ old[i] = new[m] /\ I!HeaderOf(new, m) = I!HeaderOf(old, i) BY <1>2,
           <2>2, <4>1, InventoryEntryKept
      <4>3. I!HeaderOf(new, m).name = "ungrouped" BY <1>8, <2>2, <4>2
      <4>4. m \in DOMAIN new /\ m \in Int /\ p \in Int /\ p - 1 \in 1 .. Len(new) BY <1>2, <2>2,
           InventoryLinesAre DEF I!Entries
      <4>5. SUFFICES ASSUME ~ (m <= p) PROVE FALSE OBVIOUS
      <4>6. p - 1 \in 1 .. m /\ new[p - 1].header BY <1>2, <4>4, <4>5
      <4> QED BY <1>2, <4>3, <4>4, <4>6, InventoryHeaderNamed
    <3> QED BY <3>1, <3>2
  <2>3. I!AddressOf(new, e.name) = new[p].address BY <1>2, <1>8, <2>1, <2>2, InventoryAddressLast
  <2> QED BY <1>2, <2>3
<1> QED BY <1>2, <1>5, <1>6, <1>7, <1>8 DEF Gains

-----------------------------------------------------------------------------
(* Lines are taken out                                                      *)

(* The places of the lines that stay, counted.                              *)
LEMMA Places ==
  ASSUME NEW n \in Nat, NEW kept \in SUBSET (1 .. n)
  PROVE  \E f \in [kept -> 1 .. Cardinality(kept)] :
           /\ Cardinality(kept) \in Nat
           /\ \A i \in kept : f[i] = Cardinality({j \in kept : j <= i})
           /\ \A i, j \in kept : i < j => f[i] < f[j]
           /\ \A m \in 1 .. Cardinality(kept) : \E i \in kept : f[i] = m
<1> DEFINE Upto(i) == {j \in kept : j <= i}
           f == [i \in kept |-> Cardinality(Upto(i))]
           c == Cardinality(kept)
           image == {f[i] : i \in kept}
<1>1. IsFiniteSet(kept) /\ c \in Nat
  <2>1. IsFiniteSet(1 .. n) BY FS_Interval
  <2>2. IsFiniteSet(kept) BY <2>1, FS_Subset
  <2> QED BY <2>2, FS_CardinalityType
<1>2. \A i \in kept : i \in Int OBVIOUS
<1>3. ASSUME NEW i \in kept PROVE IsFiniteSet(Upto(i)) /\ Cardinality(Upto(i)) \in 1 .. c
  <2>1. Upto(i) \in SUBSET kept /\ i \in Upto(i) BY <1>2
  <2>2. IsFiniteSet(Upto(i)) /\ Cardinality(Upto(i)) <= c BY <1>1, <2>1, FS_Subset
  <2>3. Cardinality(Upto(i)) \in Nat BY <2>2, FS_CardinalityType
  <2>4. Cardinality(Upto(i)) # 0 BY <2>1, <2>2, FS_EmptySet
  <2> QED BY <1>1, <2>2, <2>3, <2>4
<1>4. ASSUME NEW i \in kept, NEW j \in kept, i < j PROVE Cardinality(Upto(i)) < Cardinality(Upto(j))
  <2>1. \A k \in kept : k <= i => k <= j BY <1>2, <1>4
  <2>2. j \in Upto(j) /\ j \notin Upto(i) BY <1>2, <1>4
  <2>3. Upto(i) \in SUBSET Upto(j) /\ Upto(i) # Upto(j) BY <2>1, <2>2
  <2>4. /\ Cardinality(Upto(i)) <= Cardinality(Upto(j))
        /\ Cardinality(Upto(i)) # Cardinality(Upto(j)) BY <1>3, <2>3, FS_Subset
  <2> QED BY <1>3, <2>4
<1>5. f \in [kept -> 1 .. c] BY <1>3
<1>6. \A i, j \in kept : i < j => f[i] < f[j] BY <1>4
<1>7. \A i \in kept : f[i] = Cardinality({j \in kept : j <= i}) OBVIOUS
<1> HIDE DEF f, c
<1>8. image = 1 .. c
  <2>1. f \in [kept -> image] /\ (\A i \in kept : f[i] \in Int) /\ image \in SUBSET (1 .. c) BY <1>1, <1>5
  <2>2. \A i, j \in kept : f[i] = f[j] => i = j BY <1>2, <1>6, <2>1
  <2>3. f \in Bijection(kept, image) BY <2>1, <2>2 DEF Bijection, Injection, Surjection, IsInjective
  <2>4. Cardinality(image) = c BY <1>1, <2>3, FS_Bijection DEF ExistsBijection, c
  <2>5. IsFiniteSet(1 .. c) /\ Cardinality(1 .. c) = c BY <1>1, FS_Interval
  <2> QED BY <2>1, <2>4, <2>5, FS_Subset
<1>9. \A m \in 1 .. c : \E i \in kept : f[i] = m BY <1>8
<1> QED BY <1>1, <1>5, <1>6, <1>7, <1>9 DEF c

(* The new text has the lines `kept` of the old one and nothing else.       *)
Leaves(old, new, kept) ==
  new \in Seq(I!Line) /\ \E f : Keeps(old, new, kept, f) /\ \A m \in DOMAIN new : \E i \in kept : f[i] = m

LEMMA InventoryTakenOut ==
  ASSUME I!InventoryAssumption, NEW lines \in Seq(I!Line), NEW taken, \A i \in DOMAIN lines \cap taken : ~ lines[i].header
  PROVE  Leaves(lines, I!Without(lines, taken), DOMAIN lines \ taken)
<1> DEFINE kept == DOMAIN lines \ taken
           c == Cardinality(kept)
<1>1. Len(lines) \in Nat /\ kept \in SUBSET (1 .. Len(lines)) /\ \A i \in kept : i \in Int /\ lines[i] \in I!Line BY InventoryLinesAre
<1>2. PICK f \in [kept -> 1 .. c] :
        /\ c \in Nat
        /\ \A i \in kept : f[i] = Cardinality({j \in kept : j <= i})
        /\ \A i, j \in kept : i < j => f[i] < f[j]
        /\ \A m \in 1 .. c : \E i \in kept : f[i] = m
  BY <1>1, Places
<1>3. PICK new : new = I!Without(lines, taken) OBVIOUS
<1>4. new = [k \in 1 .. c |-> lines[CHOOSE i \in kept : Cardinality({j \in kept : j <= i}) = k]]
  BY <1>3 DEF I!Without, I!Cardinality, Cardinality
<1> HIDE DEF c
<1>5. ASSUME NEW k \in 1 .. c PROVE new[k] = lines[CHOOSE i \in kept : f[i] = k]
  <2>1. (CHOOSE i \in kept : f[i] = k) = (CHOOSE i \in kept : Cardinality({j \in kept : j <= i}) = k)
    BY <1>2
  <2> QED BY <1>4, <2>1
<1>6. ASSUME NEW k \in 1 .. c PROVE new[k] \in I!Line
  <2>1. (CHOOSE i \in kept : f[i] = k) \in kept BY <1>2
  <2> QED BY <1>1, <1>6, <1>5, <2>1
<1>7. new \in [1 .. c -> I!Line] BY <1>4, <1>6
<1>8. new \in Seq(I!Line) /\ DOMAIN new = 1 .. c BY <1>2, <1>7, SeqDef
<1>9. ASSUME NEW i \in kept PROVE new[f[i]] = lines[i]
  <2>1. \A j \in kept : f[j] = f[i] => j = i
    <3> SUFFICES ASSUME NEW j \in kept, f[j] = f[i], j # i PROVE FALSE OBVIOUS
    <3>1. i < j \/ j < i BY <1>1
    <3>2. f[i] < f[j] \/ f[j] < f[i] BY <1>2, <3>1
    <3>3. f[i] \in Int BY <1>2
    <3> QED BY <3>2, <3>3
  <2>2. (CHOOSE j \in kept : f[j] = f[i]) = i BY <2>1
  <2> QED BY <1>2, <1>5, <2>2
<1>10. Keeps(lines, new, kept, f)
  <2>1. \A i \in DOMAIN lines : lines[i].header => i \in kept OBVIOUS
  <2>2. \A m \in DOMAIN new : \E j \in kept : f[j] = m BY <1>2, <1>8
  <2> QED BY <1>2, <1>8, <1>9, <2>1, <2>2 DEF Keeps
<1> QED BY <1>2, <1>3, <1>8, <1>10 DEF Leaves

(* What a text says after lines of hosts were taken out.                    *)
LEMMA InventoryLost ==
  ASSUME I!InventoryAssumption, NEW old \in Seq(I!Line), NEW taken \in SUBSET I!Entries(old, "hosts"),
         NEW new, new = I!Without(old, taken)
  PROVE  /\ new \in Seq(I!Line)
         /\ Facts(new, "hosts") = {<<old[i].name, I!HeaderOf(old, i).name>> : i \in I!Entries(old, "hosts") \ taken}
         /\ \A s : s # "hosts" => Facts(new, s) = Facts(old, s)
         /\ Headers(new) = Headers(old)
         /\ \A b : (\A i \in taken : old[i].name # b) => I!AddressOf(new, b) = I!AddressOf(old, b)
<1> DEFINE kept == DOMAIN old \ taken
<1>1. \A i \in taken : i \in DOMAIN old /\ ~ old[i].header /\ I!HeaderOf(old, i).section = "hosts" BY DEF I!Entries
<1>2. Leaves(old, new, kept)
  <2>1. \A i \in DOMAIN old \cap taken : ~ old[i].header BY <1>1
  <2> QED BY <2>1, InventoryTakenOut
<1>3. new \in Seq(I!Line) BY <1>2 DEF Leaves
<1>4. PICK f : Keeps(old, new, kept, f) /\ \A m \in DOMAIN new : \E i \in kept : f[i] = m BY <1>2 DEF Leaves
<1>5. \A s : {k \in I!Entries(new, s) : \A i \in kept : f[i] # k} = {} BY <1>4 DEF I!Entries
<1>6. ASSUME NEW s
      PROVE  Facts(new, s) = {<<old[i].name, I!HeaderOf(old, i).name>> : i \in I!Entries(old, s) \cap kept}
  <2> DEFINE Stay == {<<old[i].name, I!HeaderOf(old, i).name>> : i \in I!Entries(old, s) \cap kept}
             Come == {<<new[m].name, I!HeaderOf(new, m).name>> : m \in {k \in I!Entries(new, s) : \A i \in kept : f[i] # k}}
  <2>1. Keeps(old, new, kept, f) BY <1>4
  <2>2. Facts(new, s) = Stay \cup Come BY <1>3, <2>1, InventoryFactsKept
  <2>3. Come = {} BY <1>5
  <2> QED BY <2>2, <2>3
<1>7. I!Entries(old, "hosts") \cap kept = I!Entries(old, "hosts") \ taken BY DEF I!Entries
<1>8. ASSUME NEW s, s # "hosts" PROVE Facts(new, s) = Facts(old, s)
  <2>1. I!Entries(old, s) \cap kept = I!Entries(old, s) BY <1>1, <1>8 DEF I!Entries
  <2> QED BY <1>6, <2>1 DEF Facts
<1>9. Headers(new) = Headers(old)
  <2>1. Headers(old) \subseteq Headers(new) BY <1>3, <1>4, InventoryHeadersKept
  <2>2. \A m \in DOMAIN new : new[m].header => new[m] \in Headers(old) BY <1>3, <1>4, InventoryHeadersKept
  <2> QED BY <2>1, <2>2 DEF Headers
<1>10. ASSUME NEW b, \A i \in taken : old[i].name # b PROVE I!AddressOf(new, b) = I!AddressOf(old, b)
  <2>1. \A i \in I!Entries(old, "hosts") : i \notin kept => old[i].name # b BY <1>10 DEF I!Entries
  <2>2. \A m \in I!Entries(new, "hosts") : (\A i \in kept : f[i] # m) => new[m].name # b BY <1>4 DEF I!Entries
  <2> QED BY <1>3, <1>4, <2>1, <2>2, InventoryAddressKept
<1>11. Facts(new, "hosts") = {<<old[i].name, I!HeaderOf(old, i).name>> : i \in I!Entries(old, "hosts") \ taken} BY <1>6, <1>7
<1> QED BY <1>3, <1>8, <1>9, <1>10, <1>11

-----------------------------------------------------------------------------
(* The edits                                                                *)

LEMMA InventoryLineFields ==
  ASSUME I!InventoryAssumption
  PROVE  /\ \A g \in InventoryGroup, s \in I!Section :
              /\ I!Header(g, s) \in I!Line /\ I!Header(g, s).header = TRUE
              /\ I!Header(g, s).name = g /\ I!Header(g, s).section = s
         /\ \A n \in InventoryAlias \cup InventoryGroup, x \in InventoryAddress \cup {None} :
              /\ I!Entry(n, x) \in I!Line /\ I!Entry(n, x).header = FALSE
              /\ I!Entry(n, x).name = n /\ I!Entry(n, x).address = x
         /\ "hosts" \in I!Section /\ "children" \in I!Section /\ I!Managed \in InventoryGroup
<1>1. ASSUME NEW g \in InventoryGroup, NEW s \in I!Section PROVE I!Header(g, s) \in I!Line BY DEF I!Line
<1>2. ASSUME NEW n \in InventoryAlias \cup InventoryGroup, NEW x \in InventoryAddress \cup {None} PROVE I!Entry(n, x) \in I!Line BY DEF I!Line
<1>3. \A g, s : I!Header(g, s).header = TRUE /\ I!Header(g, s).name = g /\ I!Header(g, s).section = s BY DEF I!Header
<1>4. \A n, x : I!Entry(n, x).header = FALSE /\ I!Entry(n, x).name = n /\ I!Entry(n, x).address = x BY DEF I!Entry
<1>5. "hosts" \in I!Section /\ "children" \in I!Section /\ I!Managed \in InventoryGroup BY DEF I!Section,
     I!InventoryAssumption
<1> QED BY <1>1, <1>2, <1>3, <1>4, <1>5

LEMMA InventoryFirstIs ==
  ASSUME I!InventoryAssumption, NEW lines \in Seq(I!Line), NEW hd, NEW otherwise
  PROVE  \/ I!First(lines, hd, otherwise) \in 1 .. Len(lines) /\ lines[I!First(lines, hd, otherwise)] = hd
         \/ (\A i \in DOMAIN lines : lines[i] # hd) /\ I!First(lines, hd, otherwise) = otherwise
<1> DEFINE found == {i \in DOMAIN lines : lines[i] = hd}
<1>1. Len(lines) \in Nat /\ DOMAIN lines = 1 .. Len(lines) BY InventoryLinesAre
<1>2. CASE found = {} BY <1>2 DEF I!First
<1>3. CASE found # {}
  <2>1. found \in SUBSET (1 .. Len(lines)) BY <1>1
  <2>2. \E i \in found : \A j \in found : i <= j BY <1>1, <1>3, <2>1, HasLeast
  <2>3. (CHOOSE i \in found : \A j \in found : i <= j) \in found BY <2>2
  <2>4. I!First(lines, hd, otherwise) \in found BY <1>3, <2>3 DEF I!First
  <2> QED BY <1>1, <2>4
<1> QED BY <1>2, <1>3

(* A header and its first line go to the end of a section.                  *)
LEMMA InventorySectionInserted ==
  ASSUME I!InventoryAssumption, NEW lines \in Seq(I!Line), NEW hd \in I!Line, hd.header, NEW e \in I!Line, ~ e.header
  PROVE  \E f, p : Adds(lines, I!At(lines, I!BeforeVars(lines), <<hd, e>>), hd, e, f, p)
<1>1. PICK q : q = I!BeforeVars(lines) OBVIOUS
<1>2. Len(lines) \in Nat BY InventoryLinesAre
<1>3. \/ q \in 1 .. Len(lines) /\ lines[q] = I!Header(I!Managed, "vars")
      \/ q = Len(lines) + 1
  BY <1>1, InventoryFirstIs DEF I!BeforeVars
<1>4. I!Header(I!Managed, "vars").header = TRUE BY DEF I!Header
<1>5. q \in Int /\ q \in 1 .. Len(lines) + 1 /\ (q <= Len(lines) => lines[q].header) BY <1>2, <1>3, <1>4
<1>6. MayInsert(lines, q, <<hd, e>>, hd, e) BY <1>5 DEF MayInsert
<1>7. PICK ins : ins = <<hd, e>> OBVIOUS
<1>8. \E f, p : Adds(lines, I!At(lines, q, ins), hd, e, f, p) BY <1>5, <1>6, <1>7, InventoryInserted
<1> QED BY <1>1, <1>7, <1>8

LEMMA InventoryLineInserted ==
  ASSUME I!InventoryAssumption, NEW lines \in Seq(I!Line), NEW hd \in I!Line, hd.header, NEW e \in I!Line, ~ e.header,
         NEW i \in 1 .. Len(lines), lines[i] = hd
  PROVE  \E f, p : Adds(lines, I!At(lines, i + 1, <<e>>), hd, e, f, p)
<1>1. PICK q : q = i + 1 OBVIOUS
<1>2. q \in Int /\ q - 1 = i BY <1>1, InventoryLinesAre
<1>3. MayInsert(lines, q, <<e>>, hd, e) BY <1>2 DEF MayInsert
<1>4. PICK ins : ins = <<e>> OBVIOUS
<1>5. \E f, p : Adds(lines, I!At(lines, q, ins), hd, e, f, p) BY <1>2, <1>3, <1>4, InventoryInserted
<1> QED BY <1>1, <1>4, <1>5

LEMMA InventoryGroupInserted ==
  ASSUME I!InventoryAssumption, NEW lines \in Seq(I!Line), NEW g \in InventoryGroup, NEW e \in I!Line, ~ e.header
  PROVE  \E f, p : Adds(lines, I!InsertInGroup(lines, g, e), I!Header(g, "hosts"), e, f, p)
<1>1. I!Header(g, "hosts") \in I!Line /\ I!Header(g, "hosts").header BY InventoryLineFields
<1>2. PICK i : i = I!First(lines, I!Header(g, "hosts"), 0) OBVIOUS
<1>3. CASE i = 0
  <2>1. I!InsertInGroup(lines, g, e) = I!At(lines, I!BeforeVars(lines), <<I!Header(g, "hosts"), e>>) BY <1>2,
       <1>3 DEF I!InsertInGroup
  <2> QED BY <1>1, <2>1, InventorySectionInserted
<1>4. CASE i # 0
  <2>1. i \in 1 .. Len(lines) /\ lines[i] = I!Header(g, "hosts") BY <1>2, <1>4, InventoryFirstIs
  <2>2. I!InsertInGroup(lines, g, e) = I!At(lines, i + 1, <<e>>) BY <1>2, <1>4 DEF I!InsertInGroup
  <2> QED BY <1>1, <2>1, <2>2, InventoryLineInserted
<1> QED BY <1>3, <1>4

(* The managed group has the group for a child; nothing else changes.       *)
LEMMA InventoryGroupListed ==
  ASSUME I!InventoryAssumption, NEW old \in Seq(I!Line), NEW g \in InventoryGroup, NEW new, new = I!ListGroup(old, g)
  PROVE  /\ new \in Seq(I!Line) /\ Facts(new, "hosts") = Facts(old, "hosts") /\ Facts(new, "vars") = Facts(old, "vars")
         /\ Facts(new, "children") = Facts(old, "children") \cup (IF g = I!Managed THEN {} ELSE {<<g, I!Managed>>})
         /\ Headers(old) \subseteq Headers(new) /\ Headers(new) \subseteq Headers(old) \cup {I!Header(I!Managed, "children")}
         /\ \A b : I!AddressOf(new, b) = I!AddressOf(old, b)
<1>1. PICK hd, e : hd = I!Header(I!Managed, "children") /\ e = I!Entry(g, None) OBVIOUS
<1>2. /\ hd \in I!Line /\ hd.header /\ hd.section = "children" /\ hd.name = I!Managed
      /\ e \in I!Line /\ ~ e.header /\ e.name = g BY <1>1, InventoryLineFields
<1>3. PICK i : i = I!First(old, hd, 0) OBVIOUS
<1>4. CASE g = I!Managed
  <2>1. new = old BY <1>4 DEF I!ListGroup
  <2> QED BY <1>4, <2>1
<1>5. ASSUME g # I!Managed, \E f, p : Adds(old, new, hd, e, f, p)
      PROVE  /\ new \in Seq(I!Line) /\ Facts(new, "hosts") = Facts(old, "hosts") /\ Facts(new, "vars") = Facts(old, "vars")
             /\ Facts(new, "children") = Facts(old, "children") \cup {<<g, I!Managed>>}
             /\ Headers(old) \subseteq Headers(new) /\ Headers(new) \subseteq Headers(old) \cup {I!Header(I!Managed, "children")}
             /\ \A b : I!AddressOf(new, b) = I!AddressOf(old, b)
  <2>1. Gains(old, new, hd, e) BY <1>2, <1>5, InventoryGained
  <2>2. /\ new \in Seq(I!Line)
        /\ \A s : Facts(new, s) = Facts(old, s) \cup (IF s = hd.section THEN {<<e.name, hd.name>>} ELSE {})
        /\ Headers(new) = Headers(old) \cup {hd}
        /\ \A b : b # e.name \/ hd.section # "hosts" => I!AddressOf(new, b) = I!AddressOf(old, b)
    BY <2>1 DEF Gains
  <2>3. "hosts" # hd.section /\ "vars" # hd.section BY <1>2
  <2>4. Facts(new, "hosts") = Facts(old, "hosts") /\ Facts(new, "vars") = Facts(old, "vars") BY <2>2, <2>3
  <2>5. Facts(new, "children") = Facts(old, "children") \cup {<<g, I!Managed>>} BY <1>2, <2>2
  <2> QED BY <1>1, <2>2, <2>3, <2>4, <2>5
<1>6. CASE g # I!Managed /\ i = 0
  <2>1. new = I!At(old, I!BeforeVars(old), <<hd, e>>) BY <1>1, <1>3, <1>6 DEF I!ListGroup
  <2>2. \E f, p : Adds(old, new, hd, e, f, p) BY <1>2, <2>1, InventorySectionInserted
  <2> QED BY <1>5, <1>6, <2>2
<1>7. CASE g # I!Managed /\ i # 0
  <2>1. i \in 1 .. Len(old) /\ old[i] = hd BY <1>3, <1>7, InventoryFirstIs
  <2>2. CASE \E j \in i + 1 .. Len(old) : old[j] = e /\ \A k \in i + 1 .. j : ~ old[k].header
    <3>1. new = old BY <1>1, <1>3, <1>7, <2>2 DEF I!ListGroup
    <3>2. PICK j \in i + 1 .. Len(old) : old[j] = e /\ \A k \in i + 1 .. j : ~ old[k].header BY <2>2
    <3>3. Len(old) \in Nat /\ DOMAIN old = 1 .. Len(old) BY InventoryLinesAre
    <3>4. j \in DOMAIN old /\ i \in 1 .. j /\ \A k \in 1 .. j : old[k].header => k <= i BY <2>1, <3>2, <3>3
    <3>5. I!HeaderOf(old, j) = hd BY <1>2, <2>1, <3>4, InventoryHeaderAt
    <3>6. j \in I!Entries(old, "children") BY <1>2, <3>2, <3>4, <3>5 DEF I!Entries
    <3>7. <<g, I!Managed>> \in Facts(old, "children") BY <1>2, <3>2, <3>5, <3>6 DEF Facts
    <3> QED BY <1>7, <3>1, <3>7
  <2>3. CASE ~ \E j \in i + 1 .. Len(old) : old[j] = e /\ \A k \in i + 1 .. j : ~ old[k].header
    <3>1. new = I!At(old, i + 1, <<e>>) BY <1>1, <1>3, <1>7, <2>3 DEF I!ListGroup
    <3>2. \E f, p : Adds(old, new, hd, e, f, p) BY <1>2, <2>1, <3>1, InventoryLineInserted
    <3> QED BY <1>5, <1>7, <3>2
  <2> QED BY <2>2, <2>3
<1> QED BY <1>4, <1>6, <1>7

(* A host's line is put in where none of its lines stands under a header.   *)
LEMMA InventoryHostInserted ==
  ASSUME I!InventoryAssumption, NEW old \in Seq(I!Line), NEW a \in InventoryAlias, NEW x \in InventoryAddress, NEW g \in InventoryGroup,
         NEW new, new = I!InsertHostLine(old, g, I!Entry(a, x)),
         \A i \in I!Entries(old, "hosts") : old[i].name = a => I!HeaderOf(old, i).name = "ungrouped"
  PROVE  /\ new \in Seq(I!Line)
         /\ Facts(new, "hosts") = Facts(old, "hosts") \cup {<<a, g>>} /\ Facts(new, "vars") = Facts(old, "vars")
         /\ Facts(new, "children") = Facts(old, "children") \cup (IF g = I!Managed THEN {} ELSE {<<g, I!Managed>>})
         /\ Headers(old) \cup {I!Header(g, "hosts")} \subseteq Headers(new)
         /\ Headers(new) \subseteq Headers(old) \cup {I!Header(g, "hosts"), I!Header(I!Managed, "children")}
         /\ \A b : b # a => I!AddressOf(new, b) = I!AddressOf(old, b)
         /\ I!AddressOf(new, a) = x
<1>1. PICK hd, e : hd = I!Header(g, "hosts") /\ e = I!Entry(a, x) OBVIOUS
<1>2. /\ hd \in I!Line /\ hd.header /\ hd.section = "hosts" /\ hd.name = g
      /\ e \in I!Line /\ ~ e.header /\ e.name = a /\ e.address = x
  <2>1. hd \in I!Line /\ hd.header /\ hd.section = "hosts" /\ hd.name = g BY <1>1, InventoryLineFields
  <2>2. a \in InventoryAlias \cup InventoryGroup /\ x \in InventoryAddress \cup {None} OBVIOUS
  <2>3. /\ I!Entry(a, x) \in I!Line /\ I!Entry(a, x).header = FALSE
        /\ I!Entry(a, x).name = a /\ I!Entry(a, x).address = x BY <2>2, InventoryLineFields
  <2> QED BY <1>1, <2>1, <2>3
<1>3. PICK mid : mid = I!InsertInGroup(old, g, e) OBVIOUS
<1>4. Gains(old, mid, hd, e)
  <2>1. \E f, p : Adds(old, mid, hd, e, f, p) BY <1>1, <1>2, <1>3, InventoryGroupInserted
  <2> QED BY <1>2, <2>1, InventoryGained
<1>5. x # None BY DEF I!InventoryAssumption
<1>6. /\ mid \in Seq(I!Line)
      /\ \A s : Facts(mid, s) = Facts(old, s) \cup (IF s = hd.section THEN {<<e.name, hd.name>>} ELSE {})
      /\ Headers(mid) = Headers(old) \cup {hd}
      /\ \A b : b # e.name \/ hd.section # "hosts" => I!AddressOf(mid, b) = I!AddressOf(old, b)
  BY <1>4 DEF Gains
<1>7. I!AddressOf(mid, a) = x
  <2>1. hd.section = "hosts" /\ e.address # None
        /\ (\A i \in I!Entries(old, "hosts") : old[i].name = e.name => I!HeaderOf(old, i).name = "ungrouped")
        => I!AddressOf(mid, e.name) = e.address
    BY <1>4 DEF Gains
  <2> QED BY <1>2, <1>5, <2>1
<1>8. Facts(mid, "hosts") = Facts(old, "hosts") \cup {<<a, g>>} /\ Facts(mid, "vars") = Facts(old, "vars")
      /\ Facts(mid, "children") = Facts(old, "children")
  <2>1. "vars" # hd.section /\ "children" # hd.section /\ "hosts" = hd.section BY <1>2
  <2>2. Facts(mid, "hosts") = Facts(old, "hosts") \cup {<<e.name, hd.name>>} BY <1>6, <2>1
  <2>3. Facts(mid, "vars") = Facts(old, "vars") /\ Facts(mid, "children") = Facts(old, "children") BY <1>6, <2>1
  <2> QED BY <1>2, <2>2, <2>3
<1>9. new = I!ListGroup(mid, g) BY <1>1, <1>3 DEF I!InsertHostLine
<1>10. /\ new \in Seq(I!Line) /\ Facts(new, "hosts") = Facts(mid, "hosts") /\ Facts(new, "vars") = Facts(mid, "vars")
       /\ Facts(new, "children") = Facts(mid, "children") \cup (IF g = I!Managed THEN {} ELSE {<<g, I!Managed>>})
       /\ Headers(mid) \subseteq Headers(new) /\ Headers(new) \subseteq Headers(mid) \cup {I!Header(I!Managed, "children")}
       /\ \A b : I!AddressOf(new, b) = I!AddressOf(mid, b)
  BY <1>6, <1>9, InventoryGroupListed
<1>11. \A b : b # a => I!AddressOf(new, b) = I!AddressOf(old, b) BY <1>2, <1>6, <1>10
<1>12. /\ Headers(old) \cup {I!Header(g, "hosts")} \subseteq Headers(new)
       /\ Headers(new) \subseteq Headers(old) \cup {I!Header(g, "hosts"), I!Header(I!Managed, "children")}
  BY <1>1, <1>6, <1>10
<1> QED BY <1>7, <1>8, <1>10, <1>11, <1>12

-----------------------------------------------------------------------------
(* The invariant                                                            *)

(* A child group has a section of its own.                                  *)
ParentsHaveSections(lines) == \A p \in I!Parents(lines) : I!Header(p[1], "hosts") \in Headers(lines)

InventoryIInv == I!TypeOK /\ ParentsHaveSections(text)

LEMMA InventorySaidIs ==
  ASSUME NEW lines
  PROVE  /\ I!Direct(lines) = Facts(lines, "hosts") /\ I!Parents(lines) = Facts(lines, "children")
         /\ I!Vars(lines) = Facts(lines, "vars")
         /\ I!Hosts(lines) = {d[1] : d \in I!Direct(lines)}
BY DEF I!Direct, I!Parents, I!Vars, Facts, I!Hosts

LEMMA InventoryHeaderStands ==
  ASSUME I!InventoryAssumption, NEW lines \in Seq(I!Line), NEW i \in DOMAIN lines
  PROVE  I!HeaderOf(lines, i).name = "ungrouped" \/ I!HeaderOf(lines, i) \in Headers(lines)
<1>1. I!Header("ungrouped", "hosts").name = "ungrouped" BY DEF I!Header
<1>2. \A j \in 1 .. i : j \in DOMAIN lines BY InventoryLinesAre
<1> QED BY <1>1, <1>2, InventoryHeaderKnown DEF Headers

(* No header has the name.                                                  *)
Unnamed(lines, a) == \A hd \in Headers(lines) : hd.name # a

(* A host whose name no header has is no group.                             *)
LEMMA InventoryNoHostIsGroup ==
  ASSUME I!InventoryAssumption, NEW lines \in Seq(I!Line), ParentsHaveSections(lines), NEW a \in InventoryAlias, Unnamed(lines, a)
  PROVE  /\ a \notin I!Groups(lines)
         /\ \A d \in I!Direct(lines) : d[2] # a
         /\ \A q \in I!Parents(lines) : q[1] # a /\ q[2] # a
<1>1. a # "all" /\ a # "ungrouped" BY DEF I!InventoryAssumption
<1>2. \A hd \in Headers(lines) : hd.name # a BY DEF Unnamed
<1>3. ASSUME NEW s, NEW d \in Facts(lines, s) PROVE d[2] # a
  <2>1. PICK i \in I!Entries(lines, s) : d = <<lines[i].name, I!HeaderOf(lines, i).name>> BY <1>3 DEF Facts
  <2>2. I!HeaderOf(lines, i).name = "ungrouped" \/ I!HeaderOf(lines, i) \in Headers(lines) BY InventoryHeaderStands DEF I!Entries
  <2> QED BY <1>1, <1>2, <2>1, <2>2
<1>4. ASSUME NEW q \in I!Parents(lines) PROVE q[1] # a
  <2>1. I!Header(q[1], "hosts") \in Headers(lines) BY DEF ParentsHaveSections
  <2>2. I!Header(q[1], "hosts").name = q[1] BY DEF I!Header
  <2> QED BY <1>1, <1>2, <2>1, <2>2
<1>5. \A i \in DOMAIN lines : lines[i].header => lines[i].name # a BY <1>1, <1>2 DEF Headers
<1>6. a \notin I!Groups(lines) BY <1>1, <1>4, <1>5 DEF I!Groups
<1> QED BY <1>3, <1>4, <1>6, InventorySaidIs

(* A run takes a host that stands in the managed group or in a child of it. *)
LEMMA InventoryHostTargeted ==
  ASSUME I!InventoryAssumption, NEW lines \in Seq(I!Line), ParentsHaveSections(lines), NEW a \in InventoryAlias, NEW g \in InventoryGroup,
         Unnamed(lines, a), <<a, g>> \in I!Direct(lines), g # I!Managed => <<g, I!Managed>> \in I!Parents(lines)
  PROVE  I!Targets(lines, a) = {a}
<1>1. a \in I!Hosts(lines) BY DEF I!Hosts
<1>2. I!Managed \in I!Ancestors(lines, g)
  <2> DEFINE named == {g} \cup {q[2] : q \in I!Parents(lines)}
  <2>1. I!Managed \in named
    <3>1. CASE g = I!Managed BY <3>1
    <3>2. CASE g # I!Managed
      <4>1. <<g, I!Managed>> \in I!Parents(lines) /\ <<g, I!Managed>>[2] = I!Managed BY <3>2
      <4> QED BY <4>1
    <3> QED BY <3>1, <3>2
  <2>2. ASSUME NEW Some \in SUBSET named, g \in Some, \A q \in I!Parents(lines) : q[1] \in Some => q[2] \in Some
        PROVE  I!Managed \in Some
    <3>1. CASE g = I!Managed BY <2>2, <3>1
    <3>2. CASE g # I!Managed
      <4>1. <<g, I!Managed>> \in I!Parents(lines) /\ <<g, I!Managed>>[1] = g /\ <<g, I!Managed>>[2] = I!Managed BY <3>2
      <4> QED BY <2>2, <4>1
    <3> QED BY <3>1, <3>2
  <2> QED BY <2>1, <2>2 DEF I!Ancestors
<1>3. I!Managed \in I!Membership(lines, a)
  <2>1. <<a, g>>[1] = a /\ <<a, g>>[2] = g OBVIOUS
  <2> QED BY <1>2, <2>1 DEF I!Membership
<1>4. ASSUME NEW b PROVE a \notin I!Membership(lines, b)
  <2>1. ASSUME NEW d \in I!Direct(lines) PROVE a \notin I!Ancestors(lines, d[2])
    <3>1. d[2] # a /\ \A q \in I!Parents(lines) : q[2] # a BY <2>1, InventoryNoHostIsGroup
    <3> QED BY <3>1 DEF I!Ancestors
  <2> QED BY <2>1 DEF I!Membership
<1>5. a \notin I!Groups(lines) BY InventoryNoHostIsGroup
<1> QED BY <1>1, <1>3, <1>4, <1>5 DEF I!Targets

-----------------------------------------------------------------------------
(* What every edit does to a text with the invariant                        *)

LEMMA InventorySavedInto ==
  ASSUME I!InventoryAssumption, NEW old \in Seq(I!Line), ParentsHaveSections(old),
         NEW a \in InventoryAlias, NEW x \in InventoryAddress, NEW g \in InventoryGroup, NEW new, new = I!InsertHostLine(old, g, I!Entry(a, x)),
         \A i \in I!Entries(old, "hosts") : old[i].name = a => I!HeaderOf(old, i).name = "ungrouped",
         Unnamed(old, a), a # g
  PROVE  /\ new \in Seq(I!Line) /\ ParentsHaveSections(new)
         /\ I!Direct(new) = I!Direct(old) \cup {<<a, g>>} /\ I!Vars(new) = I!Vars(old)
         /\ I!Parents(new) = I!Parents(old) \cup (IF g = I!Managed THEN {} ELSE {<<g, I!Managed>>})
         /\ \A b : b # a => I!AddressOf(new, b) = I!AddressOf(old, b)
         /\ I!AddressOf(new, a) = x
         /\ I!Targets(new, a) = {a}
<1>1. /\ new \in Seq(I!Line)
      /\ Facts(new, "hosts") = Facts(old, "hosts") \cup {<<a, g>>} /\ Facts(new, "vars") = Facts(old, "vars")
      /\ Facts(new, "children") = Facts(old, "children") \cup (IF g = I!Managed THEN {} ELSE {<<g, I!Managed>>})
      /\ Headers(old) \cup {I!Header(g, "hosts")} \subseteq Headers(new)
      /\ Headers(new) \subseteq Headers(old) \cup {I!Header(g, "hosts"), I!Header(I!Managed, "children")}
      /\ \A b : b # a => I!AddressOf(new, b) = I!AddressOf(old, b)
      /\ I!AddressOf(new, a) = x
  BY InventoryHostInserted
<1>2. /\ I!Direct(new) = I!Direct(old) \cup {<<a, g>>} /\ I!Vars(new) = I!Vars(old)
      /\ I!Parents(new) = I!Parents(old) \cup (IF g = I!Managed THEN {} ELSE {<<g, I!Managed>>})
  BY <1>1, InventorySaidIs
<1>3. ParentsHaveSections(new)
  <2> SUFFICES ASSUME NEW q \in I!Parents(new) PROVE I!Header(q[1], "hosts") \in Headers(new) BY
     DEF ParentsHaveSections
  <2>1. CASE q \in I!Parents(old) BY <1>1, <2>1 DEF ParentsHaveSections
  <2>2. CASE q = <<g, I!Managed>> BY <1>1, <2>2
  <2> QED BY <1>2, <2>1, <2>2
<1>4. <<a, g>> \in I!Direct(new) /\ (g # I!Managed => <<g, I!Managed>> \in I!Parents(new)) BY <1>2
<1>5. I!Targets(new, a) = {a}
  <2>1. I!Header(g, "hosts").name = g /\ I!Header(I!Managed, "children").name = I!Managed BY DEF I!Header
  <2>2. Unnamed(new, a) BY <1>1, <2>1 DEF Unnamed, I!InventoryAssumption
  <2> QED BY <1>1, <1>3, <1>4, <2>2, InventoryHostTargeted
<1> QED BY <1>1, <1>2, <1>3, <1>5

LEMMA InventoryTakenFrom ==
  ASSUME I!InventoryAssumption, NEW old \in Seq(I!Line), ParentsHaveSections(old), NEW a \in InventoryAlias,
         NEW taken \in SUBSET I!LinesOf(old, a), NEW new, new = I!Without(old, taken)
  PROVE  /\ new \in Seq(I!Line) /\ ParentsHaveSections(new)
         /\ I!Direct(new) = {<<old[i].name, I!HeaderOf(old, i).name>> : i \in I!Entries(old, "hosts") \ taken}
         /\ I!Others(I!Direct(new), a) = I!Others(I!Direct(old), a)
         /\ I!Parents(new) = I!Parents(old) /\ I!Vars(new) = I!Vars(old) /\ Headers(new) = Headers(old)
         /\ \A b : b # a => I!AddressOf(new, b) = I!AddressOf(old, b)
<1>1. taken \in SUBSET I!Entries(old, "hosts") /\ \A i \in taken : old[i].name = a BY DEF I!LinesOf
<1>2. /\ new \in Seq(I!Line)
      /\ Facts(new, "hosts") = {<<old[i].name, I!HeaderOf(old, i).name>> : i \in I!Entries(old, "hosts") \ taken}
      /\ \A s : s # "hosts" => Facts(new, s) = Facts(old, s)
      /\ Headers(new) = Headers(old)
      /\ \A b : (\A i \in taken : old[i].name # b) => I!AddressOf(new, b) = I!AddressOf(old, b)
  BY <1>1, InventoryLost
<1>3. I!Parents(new) = I!Parents(old) /\ I!Vars(new) = I!Vars(old) BY <1>2, InventorySaidIs
<1>4. I!Direct(new) = {<<old[i].name, I!HeaderOf(old, i).name>> : i \in I!Entries(old, "hosts") \ taken} BY <1>2,
     InventorySaidIs
<1>5. I!Others(I!Direct(new), a) = I!Others(I!Direct(old), a)
  <2>1. ASSUME NEW i \in I!Entries(old, "hosts"), <<old[i].name, I!HeaderOf(old, i).name>>[1] # a PROVE i \notin taken BY <1>1, <2>1
  <2>2. I!Direct(new) \subseteq I!Direct(old) BY <1>4 DEF I!Direct
  <2>3. ASSUME NEW d \in I!Direct(old), d[1] # a PROVE d \in I!Direct(new)
    <3>1. PICK i \in I!Entries(old, "hosts") : d = <<old[i].name, I!HeaderOf(old, i).name>> BY DEF I!Direct
    <3>2. i \notin taken BY <2>1, <2>3, <3>1
    <3> QED BY <1>4, <3>1, <3>2
  <2> QED BY <2>2, <2>3 DEF I!Others
<1>6. ParentsHaveSections(new) BY <1>2, <1>3 DEF ParentsHaveSections
<1>7. \A b : b # a => I!AddressOf(new, b) = I!AddressOf(old, b) BY <1>1, <1>2
<1> QED BY <1>2, <1>3, <1>4, <1>5, <1>6, <1>7

LEMMA InventoryNothingCollides == ASSUME NEW a, NEW g, ~ I!Collides(a, g) PROVE Unnamed(text, a) /\ a # g
BY DEF I!Collides, Unnamed, Headers

LEMMA InventoryAddedIs ==
  ASSUME I!InventoryAssumption, InventoryIInv, NEW a \in InventoryAlias, NEW x \in InventoryAddress, NEW g \in InventoryGroup, I!MayAdd(a, x, g)
  PROVE  I!Added(a, x, g) \in Seq(I!Line) /\ ParentsHaveSections(I!Added(a, x, g)) /\ I!Saved(I!Added(a, x, g), a, x, g)
<1>1. PICK new : new = I!Added(a, x, g) OBVIOUS
<1>2. text \in Seq(I!Line) /\ ParentsHaveSections(text) /\ new = I!InsertHostLine(text, g, I!Entry(a, x))
  BY <1>1 DEF InventoryIInv, I!TypeOK, I!Added
<1>3. \A i \in I!Entries(text, "hosts") : text[i].name = a => I!HeaderOf(text, i).name = "ungrouped" BY
   DEF I!MayAdd, I!Rows
<1>4. /\ new \in Seq(I!Line) /\ ParentsHaveSections(new)
      /\ I!Direct(new) = I!Direct(text) \cup {<<a, g>>} /\ I!Vars(new) = I!Vars(text)
      /\ I!Parents(new) = I!Parents(text) \cup (IF g = I!Managed THEN {} ELSE {<<g, I!Managed>>})
      /\ \A b : b # a => I!AddressOf(new, b) = I!AddressOf(text, b)
      /\ I!AddressOf(new, a) = x
      /\ I!Targets(new, a) = {a}
  <2>1. Unnamed(text, a) /\ a # g BY InventoryNothingCollides DEF I!MayAdd
  <2> QED BY <1>2, <1>3, <2>1, InventorySavedInto
<1>5. I!Others(I!Direct(new), a) = I!Others(I!Direct(text), a)
  <2>1. I!Direct(new) = I!Direct(text) \cup {<<a, g>>} /\ <<a, g>>[1] = a BY <1>4
  <2> QED BY <2>1 DEF I!Others
<1>6. I!Saved(new, a, x, g) BY <1>4, <1>5 DEF I!Saved, I!KeepsTheRest
<1> QED BY <1>1, <1>4, <1>6

LEMMA InventoryRemovedIs ==
  ASSUME I!InventoryAssumption, InventoryIInv, NEW a \in InventoryAlias, NEW new, new = I!RemoveHostLine(text, a)
  PROVE  new \in Seq(I!Line) /\ ParentsHaveSections(new) /\ I!Removed(new, a) /\ Headers(new) = Headers(text)
<1>1. text \in Seq(I!Line) /\ ParentsHaveSections(text) BY DEF InventoryIInv, I!TypeOK
<1>2. PICK taken : taken = I!LinesOf(text, a) OBVIOUS
<1>3. taken \in SUBSET I!LinesOf(text, a) /\ new = I!Without(text, taken) BY <1>2 DEF I!RemoveHostLine
<1>4. /\ new \in Seq(I!Line) /\ ParentsHaveSections(new)
      /\ I!Direct(new) = {<<text[i].name, I!HeaderOf(text, i).name>> : i \in I!Entries(text, "hosts") \ taken}
      /\ I!Others(I!Direct(new), a) = I!Others(I!Direct(text), a)
      /\ I!Parents(new) = I!Parents(text) /\ I!Vars(new) = I!Vars(text) /\ Headers(new) = Headers(text)
      /\ \A b : b # a => I!AddressOf(new, b) = I!AddressOf(text, b)
  BY <1>1, <1>3, InventoryTakenFrom
<1>5. \A i \in I!Entries(text, "hosts") \ taken : text[i].name # a BY <1>2 DEF I!LinesOf
<1>6. \A d \in I!Direct(new) : d[1] # a BY <1>4, <1>5
<1>7. I!Direct(new) = I!Others(I!Direct(text), a)
  <2>1. I!Direct(new) = I!Others(I!Direct(new), a) BY <1>6 DEF I!Others
  <2> QED BY <1>4, <2>1
<1>8. I!KeepsTheRest(new, a, {}) BY <1>4 DEF I!KeepsTheRest
<1> QED BY <1>4, <1>7, <1>8 DEF I!Removed

LEMMA InventoryUpdatedIs ==
  ASSUME I!InventoryAssumption, InventoryIInv, NEW a \in InventoryAlias, NEW x \in InventoryAddress, NEW g \in InventoryGroup, I!MayUpdate(a, x, g)
  PROVE  /\ I!Updated(a, x, g) \in Seq(I!Line) /\ ParentsHaveSections(I!Updated(a, x, g)) /\ I!Saved(I!Updated(a, x, g), a, x, g)
         /\ Cardinality({d \in I!Direct(I!Updated(a, x, g)) : d[1] = a}) = 1
<1>1. PICK mid, new : mid = I!RemoveHostLine(text, a) /\ new = I!InsertHostLine(mid, g, I!Entry(a, x)) OBVIOUS
<1>2. new = I!Updated(a, x, g) BY <1>1 DEF I!Updated
<1>3. mid \in Seq(I!Line) /\ ParentsHaveSections(mid) /\ I!Removed(mid, a) /\ Headers(mid) = Headers(text) BY <1>1,
     InventoryRemovedIs
<1>4. /\ I!Direct(mid) = I!Others(I!Direct(text), a) /\ I!Parents(mid) = I!Parents(text) /\ I!Vars(mid) = I!Vars(text)
      /\ \A b \in I!Hosts(text) \ {a} : I!AddressOf(mid, b) = I!AddressOf(text, b)
  BY <1>3 DEF I!Removed, I!KeepsTheRest
<1>5. \A i \in I!Entries(mid, "hosts") : mid[i].name # a
  <2> SUFFICES ASSUME NEW i \in I!Entries(mid, "hosts") PROVE mid[i].name # a OBVIOUS
  <2>1. <<mid[i].name, I!HeaderOf(mid, i).name>> \in I!Direct(mid) BY DEF I!Direct
  <2> QED BY <1>4, <2>1 DEF I!Others
<1>6. /\ new \in Seq(I!Line) /\ ParentsHaveSections(new)
      /\ I!Direct(new) = I!Direct(mid) \cup {<<a, g>>} /\ I!Vars(new) = I!Vars(mid)
      /\ I!Parents(new) = I!Parents(mid) \cup (IF g = I!Managed THEN {} ELSE {<<g, I!Managed>>})
      /\ \A b : b # a => I!AddressOf(new, b) = I!AddressOf(mid, b)
      /\ I!AddressOf(new, a) = x
      /\ I!Targets(new, a) = {a}
  <2>1. Unnamed(text, a) /\ a # g BY InventoryNothingCollides DEF I!MayUpdate
  <2>2. Unnamed(mid, a) BY <1>3, <2>1 DEF Unnamed
  <2> QED BY <1>1, <1>3, <1>5, <2>1, <2>2, InventorySavedInto
<1>7. I!Others(I!Direct(new), a) = I!Others(I!Direct(text), a)
  <2>1. I!Others(I!Direct(new), a) = I!Others(I!Direct(mid), a)
    <3>1. I!Direct(new) = I!Direct(mid) \cup {<<a, g>>} /\ <<a, g>>[1] = a BY <1>6
    <3> QED BY <3>1 DEF I!Others
  <2> QED BY <1>4, <2>1 DEF I!Others
<1>8. I!Saved(new, a, x, g) BY <1>4, <1>6, <1>7 DEF I!Saved, I!KeepsTheRest
<1>9. {d \in I!Direct(new) : d[1] = a} = {<<a, g>>} BY <1>4, <1>6 DEF I!Others
<1>10. Cardinality({d \in I!Direct(new) : d[1] = a}) = 1 BY <1>9, FS_Singleton
<1> QED BY <1>2, <1>6, <1>8, <1>10

LEMMA InventoryClosedOutIs ==
  ASSUME I!InventoryAssumption, InventoryIInv, NEW a \in InventoryAlias, NEW new, new = I!RemoveInventoryCloseoutHost(text, a)
  PROVE  new \in Seq(I!Line) /\ ParentsHaveSections(new) /\ I!KeepsTheRest(new, a, {})
<1>1. text \in Seq(I!Line) /\ ParentsHaveSections(text) BY DEF InventoryIInv, I!TypeOK
<1>2. PICK taken : taken = {i \in I!LinesOf(text, a) : I!HeaderOf(text, i).name # "ungrouped"} OBVIOUS
<1>3. taken \in SUBSET I!LinesOf(text, a) /\ new = I!Without(text, taken) BY <1>2 DEF I!RemoveInventoryCloseoutHost
<1>4. /\ new \in Seq(I!Line) /\ ParentsHaveSections(new)
      /\ I!Others(I!Direct(new), a) = I!Others(I!Direct(text), a)
      /\ I!Parents(new) = I!Parents(text) /\ I!Vars(new) = I!Vars(text)
      /\ \A b : b # a => I!AddressOf(new, b) = I!AddressOf(text, b)
  BY <1>1, <1>3, InventoryTakenFrom
<1> QED BY <1>4 DEF I!KeepsTheRest

LEMMA InventoryEditsOne == ASSUME I!InventoryAssumption, InventoryIInv PROVE I!EditsOneHost
<1>1. \A a \in InventoryAlias, x \in InventoryAddress, g \in InventoryGroup : I!MayAdd(a, x, g) => I!Saved(I!Added(a, x, g), a, x, g) BY InventoryAddedIs
<1>2. \A a \in InventoryAlias, x \in InventoryAddress, g \in InventoryGroup :
        I!MayUpdate(a, x, g) => /\ I!Saved(I!Updated(a, x, g), a, x, g)
                                /\ Cardinality({d \in I!Direct(I!Updated(a, x, g)) : d[1] = a}) = 1
  BY InventoryUpdatedIs
<1>3. \A a \in InventoryAlias : I!Removed(I!RemoveHostLine(text, a), a) BY InventoryRemovedIs
<1>4. \A a \in InventoryAlias : I!KeepsTheRest(I!RemoveInventoryCloseoutHost(text, a), a, {}) BY InventoryClosedOutIs
<1> QED BY <1>1, <1>2, <1>3, <1>4 DEF I!EditsOneHost, I!Cardinality, Cardinality

LEMMA InventoryInitIInv == ASSUME I!InventoryAssumption, I!Init PROVE InventoryIInv
<1>1. text \in Seq(I!Line) BY DEF I!Init, I!InventoryAssumption
<1>2. ASSUME NEW p \in I!Parents(text) PROVE I!Header(p[1], "hosts") \in Headers(text)
  <2>1. PICK i \in DOMAIN text : text[i] = I!Header(p[1], "hosts") BY DEF I!Init, I!Sound
  <2>2. text[i].header BY <2>1 DEF I!Header
  <2> QED BY <2>1, <2>2 DEF Headers
<1> QED BY <1>1, <1>2 DEF InventoryIInv, I!TypeOK, ParentsHaveSections

LEMMA InventoryEditStep == ASSUME I!InventoryAssumption, InventoryIInv, I!Next PROVE InventoryIInv'
<1>1. text' \in Seq(I!Line) /\ ParentsHaveSections(text')
  <2>1. ASSUME NEW a \in InventoryAlias, NEW x \in InventoryAddress, NEW g \in InventoryGroup, I!AddHost(a, x, g)
        PROVE  text' \in Seq(I!Line) /\ ParentsHaveSections(text') BY <2>1, InventoryAddedIs DEF I!AddHost
  <2>2. ASSUME NEW a \in InventoryAlias, NEW x \in InventoryAddress, NEW g \in InventoryGroup, I!UpdateHost(a, x, g)
        PROVE  text' \in Seq(I!Line) /\ ParentsHaveSections(text') BY <2>2, InventoryUpdatedIs DEF I!UpdateHost
  <2>3. ASSUME NEW a \in InventoryAlias, I!RemoveHost(a)
        PROVE  text' \in Seq(I!Line) /\ ParentsHaveSections(text') BY <2>3, InventoryRemovedIs DEF I!RemoveHost
  <2>4. ASSUME NEW a \in InventoryAlias, I!CloseOut(a)
        PROVE  text' \in Seq(I!Line) /\ ParentsHaveSections(text') BY <2>4, InventoryClosedOutIs DEF I!CloseOut
  <2> QED BY <2>1, <2>2, <2>3, <2>4 DEF I!Next
<1> QED BY <1>1 DEF InventoryIInv, I!TypeOK, ParentsHaveSections, Headers, I!Parents, I!Entries, I!HeaderOf

LEMMA InventoryStepIInv == ASSUME I!InventoryAssumption, InventoryIInv, I!Next \/ UNCHANGED text PROVE InventoryIInv'
<1>1. CASE I!Next BY <1>1, InventoryEditStep
<1>2. CASE UNCHANGED text
  BY <1>2 DEF InventoryIInv, I!TypeOK, ParentsHaveSections, Headers, I!Parents, I!Entries, I!HeaderOf
<1> QED BY <1>1, <1>2

-----------------------------------------------------------------------------
(* The components that have proofs of their own                             *)

HP == INSTANCE HostAccess_proofs WITH
        At <- Location, Key <- AccessKey, Request <- AccessRequest, used <- pairs, task <- accessTask, form <- attested

SP == INSTANCE RemediationSaga_proofs WITH
        Request <- SagaRequest, Page <- RecoveryPage, row <- sagaRow, req <- sagaRequest, form <- recoveryForm

RP == INSTANCE FrozenRun_proofs WITH
        Group <- All

AP == INSTANCE AuditConsole_proofs

(* Two instances of a component with the same constants and variables say   *)
(* the same.                                                                *)
LEMMA SameAccess ==
  /\ H!AccessAssumption <=> HP!AccessAssumption
  /\ H!Init <=> HP!Init
  /\ H!Next <=> HP!Next
  /\ H!EnrolOrRevoke <=> HP!EnrolOrRevoke
  /\ H!NoStrandedAccess <=> HP!NoStrandedAccess
  /\ H!KeysMatchTheirRecords <=> HP!KeysMatchTheirRecords
  /\ H!OneServerKey <=> HP!OneServerKey
<1>1. H!AccessAssumption <=> HP!AccessAssumption
  BY DEF H!AccessAssumption, HP!AccessAssumption
<1>2. H!Init <=> HP!Init
  BY DEF H!Blank, HP!Blank, H!Idle, HP!Idle, H!Init, HP!Init
<1>3. H!Next <=> HP!Next
  BY DEF H!Private, HP!Private, H!Public, HP!Public, H!Metadata, HP!Metadata, H!BootLock, HP!BootLock,
     H!Directory, HP!Directory, H!Settled, HP!Settled, H!disk, HP!disk, H!closeout, HP!closeout, H!trust,
     HP!trust, H!Blank, HP!Blank, H!Idle, HP!Idle, H!On, HP!On, H!AtStep, HP!AtStep, H!Move, HP!Move, H!Finish,
     HP!Finish, H!Verified, HP!Verified, H!Unresolved, HP!Unresolved, H!ClearForEnrolment,
     HP!ClearForEnrolment, H!SaveRecord, HP!SaveRecord, H!SaveStatus, HP!SaveStatus, H!TakeTrustLock,
     HP!TakeTrustLock, H!ReadTrusted, HP!ReadTrusted, H!SaveTrusted, HP!SaveTrusted, H!BeginBootstrap,
     HP!BeginBootstrap, H!TakeBootLock, HP!TakeBootLock, H!Release, HP!Release, H!MayPrepare, HP!MayPrepare,
     H!PrepareCredential, HP!PrepareCredential, H!Trusted, HP!Trusted, H!EnsureKey, HP!EnsureKey, H!InstallKey,
     HP!InstallKey, H!MarkVerified, HP!MarkVerified, H!BootstrapFails, HP!BootstrapFails, H!SaveHost,
     HP!SaveHost, H!DeleteHost, HP!DeleteHost, H!StartCloseout, HP!StartCloseout, H!FailWith, HP!FailWith,
     H!Refuse, HP!Refuse, H!LockCredential, HP!LockCredential, H!CheckBootLock, HP!CheckBootLock,
     H!RevokeRemote, HP!RevokeRemote, H!RecordFailure, HP!RecordFailure, H!RecordRevoked, HP!RecordRevoked,
     H!MayDelete, HP!MayDelete, H!CheckStore, HP!CheckStore, H!DeleteOrder, HP!DeleteOrder, H!NextFile,
     HP!NextFile, H!DeleteNext, HP!DeleteNext, H!RemoveRow, HP!RemoveRow, H!RecordCompleted,
     HP!RecordCompleted, H!ReleaseLock, HP!ReleaseLock, H!ReleaseClaim, HP!ReleaseClaim, H!Quiet, HP!Quiet,
     H!ClosedKey, HP!ClosedKey, H!Inspect, HP!Inspect, H!CurrentVersion, HP!CurrentVersion, H!MayRecover,
     HP!MayRecover, H!RecoverCloseout, HP!RecoverCloseout, H!ReleaseInterrupted, HP!ReleaseInterrupted,
     H!RecordAttested, HP!RecordAttested, H!Restart, HP!Restart, H!Bootstrap, HP!Bootstrap, H!Trust, HP!Trust,
     H!Decommission, HP!Decommission, H!Next, HP!Next
<1>4. H!EnrolOrRevoke <=> HP!EnrolOrRevoke
  BY DEF H!closeout, HP!closeout, H!On, HP!On, H!Enrolling, HP!Enrolling, H!Revoking, HP!Revoking,
     H!EnrolOrRevoke, HP!EnrolOrRevoke
<1>5. H!NoStrandedAccess <=> HP!NoStrandedAccess
  BY DEF H!NoStrandedAccess, HP!NoStrandedAccess
<1>6. H!KeysMatchTheirRecords <=> HP!KeysMatchTheirRecords
  BY DEF H!Private, HP!Private, H!Public, HP!Public, H!Metadata, HP!Metadata, H!Settled, HP!Settled,
     H!Verified, HP!Verified, H!Unresolved, HP!Unresolved, H!RowsHaveKeys, HP!RowsHaveKeys, H!VerifiedKeyOpens,
     HP!VerifiedKeyOpens, H!KeyFilesStayNamed, HP!KeyFilesStayNamed, H!KeysMatchTheirRecords,
     HP!KeysMatchTheirRecords
<1>7. H!OneServerKey <=> HP!OneServerKey
  BY DEF H!OneServerKey, HP!OneServerKey, H!Cardinality, HP!Cardinality
<1> QED BY <1>1, <1>2, <1>3, <1>4, <1>5, <1>6, <1>7

LEMMA SameSaga ==
  /\ S!SagaAssumption <=> SP!SagaAssumption
  /\ S!Init <=> SP!Init
  /\ S!Next <=> SP!Next
  /\ S!CallsAsPromised <=> SP!CallsAsPromised
  /\ S!AttestedAsSeen <=> SP!AttestedAsSeen
  /\ S!TargetIsRecoverable <=> SP!TargetIsRecoverable
<1>1. S!SagaAssumption <=> SP!SagaAssumption
  BY DEF S!SagaAssumption, SP!SagaAssumption
<1>2. S!Init <=> SP!Init
  BY DEF S!Txn, SP!Txn, S!NoRow, SP!NoRow, S!Asleep, SP!Asleep, S!Init, SP!Init
<1>3. S!Next <=> SP!Next
  BY DEF S!Txn, SP!Txn, S!Working, SP!Working, S!Unresolved, SP!Unresolved, S!Claimable, SP!Claimable, S!NoRow,
     SP!NoRow, S!Asleep, SP!Asleep, S!Held, SP!Held, S!Recovered, SP!Recovered, S!Updated, SP!Updated,
     S!NewVersion, SP!NewVersion, S!Update, SP!Update, S!Idle, SP!Idle, S!Newer, SP!Newer, S!To, SP!To, S!End,
     SP!End, S!Catch, SP!Catch, S!At, SP!At, S!Is, SP!Is, S!StartApply, SP!StartApply, S!StartRollback,
     SP!StartRollback, S!CreateRemediation, SP!CreateRemediation, S!ClaimedForms, SP!ClaimedForms,
     S!ClaimRollback, SP!ClaimRollback, S!AssessPreAudit, SP!AssessPreAudit, S!RunPlaybook, SP!RunPlaybook,
     S!Answered, SP!Answered, S!RecordBackup, SP!RecordBackup, S!RecordApply, SP!RecordApply,
     S!RecordPostAudit, SP!RecordPostAudit, S!RecordRollback, SP!RecordRollback, S!CommandFailed,
     SP!CommandFailed, S!FailureStatus, SP!FailureStatus, S!RecordFailure, SP!RecordFailure,
     S!CancelRemediation, SP!CancelRemediation, S!OpenRecovery, SP!OpenRecovery, S!CloseRecovery,
     SP!CloseRecovery, S!Inspect, SP!Inspect, S!Resolutions, SP!Resolutions, S!Attested, SP!Attested,
     S!CurrentVersion, SP!CurrentVersion, S!MayReconcile, SP!MayReconcile, S!Reconcile, SP!Reconcile, S!Effect,
     SP!Effect, S!Execute, SP!Execute, S!LoseConnection, SP!LoseConnection, S!StoreFails, SP!StoreFails,
     S!StoreRecovers, SP!StoreRecovers, S!Restart, SP!Restart, S!Controller, SP!Controller, S!Operator,
     SP!Operator, S!Next, SP!Next
<1>4. S!CallsAsPromised <=> SP!CallsAsPromised
  BY DEF S!CallsAsPromised, SP!CallsAsPromised
<1>5. S!AttestedAsSeen <=> SP!AttestedAsSeen
  BY DEF S!Txn, SP!Txn, S!Working, SP!Working, S!Unresolved, SP!Unresolved, S!Newer, SP!Newer, S!Resolutions,
     SP!Resolutions, S!CurrentVersion, SP!CurrentVersion, S!MayReconcile, SP!MayReconcile, S!AttestedAsSeen,
     SP!AttestedAsSeen
<1>6. S!TargetIsRecoverable <=> SP!TargetIsRecoverable
  BY DEF S!Txn, SP!Txn, S!Working, SP!Working, S!Unresolved, SP!Unresolved, S!Claimable, SP!Claimable, S!Held,
     SP!Held, S!Changed, SP!Changed, S!TargetIsRecoverable, SP!TargetIsRecoverable
<1> QED BY <1>1, <1>2, <1>3, <1>4, <1>5, <1>6

LEMMA SameRun ==
  /\ R!RunAssumption <=> RP!RunAssumption
  /\ R!Init <=> RP!Init
  /\ R!Next <=> RP!Next
  /\ R!ReportsOfTheirMachine <=> RP!ReportsOfTheirMachine
  /\ R!RunsNeverMeet <=> RP!RunsNeverMeet
<1>1. R!RunAssumption <=> RP!RunAssumption
  BY DEF R!RunAssumption, RP!RunAssumption
<1>2. R!Init <=> RP!Init
  BY DEF R!Asleep, RP!Asleep, R!Init, RP!Init
<1>3. R!Next <=> RP!Next
  BY DEF R!settings, RP!settings, R!Asleep, RP!Asleep, R!Done, RP!Done, R!Abort, RP!Abort, R!Extend, RP!Extend,
     R!Generation, RP!Generation, R!CurrentAsset, RP!CurrentAsset, R!AliasesForAsset, RP!AliasesForAsset,
     R!AssetIdle, RP!AssetIdle, R!Recordable, RP!Recordable, R!Recorded, RP!Recorded, R!StillCurrent,
     RP!StillCurrent, R!Resource, RP!Resource, R!Acquirable, RP!Acquirable, R!LeasesFor, RP!LeasesFor,
     R!InInventory, RP!InInventory, R!Targets, RP!Targets, R!SudoPossible, RP!SudoPossible, R!Frozen,
     RP!Frozen, R!NetworkBinding, RP!NetworkBinding, R!Prepared, RP!Prepared, R!RunAnsiblePlaybook,
     RP!RunAnsiblePlaybook, R!RunRegisteredPlaybook, RP!RunRegisteredPlaybook, R!RunNetworkScan,
     RP!RunNetworkScan, R!At, RP!At, R!ProbeTrustedAssetIdentity, RP!ProbeTrustedAssetIdentity, R!SameKey,
     RP!SameKey, R!CaptureAssetTarget, RP!CaptureAssetTarget, R!Suits, RP!Suits, R!Machines, RP!Machines,
     R!SelectAnsibleRuntime, RP!SelectAnsibleRuntime, R!AcquireAssetExecution, RP!AcquireAssetExecution,
     R!Reachable, RP!Reachable, R!CollectReport, RP!CollectReport, R!PublishCapturedAssetReports,
     RP!PublishCapturedAssetReports, R!Release, RP!Release, R!Finish, RP!Finish, R!EditHost, RP!EditHost,
     R!Rebind, RP!Rebind, R!Replace, RP!Replace, R!Restart, RP!Restart, R!Runs, RP!Runs, R!Next, RP!Next,
     R!Last, RP!Last
<1>4. R!ReportsOfTheirMachine <=> RP!ReportsOfTheirMachine
  BY DEF R!At, RP!At, R!ReportsOfTheirMachine, RP!ReportsOfTheirMachine
<1>5. R!RunsNeverMeet <=> RP!RunsNeverMeet
  BY DEF R!At, RP!At, R!Machines, RP!Machines, R!RunsNeverMeet, RP!RunsNeverMeet
<1> QED BY <1>1, <1>2, <1>3, <1>4, <1>5

LEMMA SameConsole ==
  /\ A!ConsoleAssumption <=> AP!ConsoleAssumption
  /\ A!Init <=> AP!Init
  /\ A!Next <=> AP!Next
  /\ A!KnownJobsStayListed <=> AP!KnownJobsStayListed
  /\ A!RepeatsAreAskedFor <=> AP!RepeatsAreAskedFor
<1>1. A!ConsoleAssumption <=> AP!ConsoleAssumption
  BY DEF A!ConsoleAssumption, AP!ConsoleAssumption
<1>2. A!Init <=> AP!Init
  BY DEF A!Empty, AP!Empty, A!Init, AP!Init
<1>3. A!Next <=> AP!Next
  BY DEF A!server, AP!server, A!page, AP!page, A!Empty, AP!Empty, A!Active, AP!Active, A!Jobs, AP!Jobs,
     A!ActiveJobs, AP!ActiveJobs, A!RowOf, AP!RowOf, A!ListAuditJobs, AP!ListAuditJobs, A!Obstacles,
     AP!Obstacles, A!CreateAuditJob, AP!CreateAuditJob, A!CreatedJob, AP!CreatedJob, A!To, AP!To, A!Begin,
     AP!Begin, A!Refused, AP!Refused, A!Execute, AP!Execute, A!PublishReport, AP!PublishReport,
     A!FinishAuditJob, AP!FinishAuditJob, A!RecordChange, AP!RecordChange, A!OtherLaunch, AP!OtherLaunch,
     A!Restart, AP!Restart, A!StartOf, AP!StartOf, A!Refresh, AP!Refresh, A!ServePoll, AP!ServePoll,
     A!FailPoll, AP!FailPoll, A!MergeAuditSnapshot, AP!MergeAuditSnapshot, A!CompletedAuditTransitions,
     AP!CompletedAuditTransitions, A!ActiveRows, AP!ActiveRows, A!Show, AP!Show, A!DeliverPoll, AP!DeliverPoll,
     A!DeliverDenial, AP!DeliverDenial, A!RunAction, AP!RunAction, A!FindRepeatAuditNotice,
     AP!FindRepeatAuditNotice, A!Send, AP!Send, A!ServeLaunch, AP!ServeLaunch, A!RememberPrevious,
     AP!RememberPrevious, A!RememberJob, AP!RememberJob, A!GiveUp, AP!GiveUp, A!VisitLogin, AP!VisitLogin,
     A!LogIn, AP!LogIn, A!Expire, AP!Expire, A!Next, AP!Next, A!Cardinality, AP!Cardinality, A!Restrict,
     AP!Restrict
<1>4. A!KnownJobsStayListed <=> AP!KnownJobsStayListed
  BY DEF A!Active, AP!Active, A!Jobs, AP!Jobs, A!ActiveJobs, AP!ActiveJobs, A!ActiveRows, AP!ActiveRows,
     A!KnownJobsStayListed, AP!KnownJobsStayListed
<1>5. A!RepeatsAreAskedFor <=> AP!RepeatsAreAskedFor
  BY DEF A!Jobs, AP!Jobs, A!RepeatsAreAskedFor, AP!RepeatsAreAskedFor, A!Cardinality, AP!Cardinality
<1> QED BY <1>1, <1>2, <1>3, <1>4, <1>5

-----------------------------------------------------------------------------
(* The controller                                                           *)

(* Each component keeps its invariant while it moves.                       *)
ControlIInv ==
  /\ part \in {"reports", "access", "cve", "tracker", "posture", "console", "runs", "onboarding",
               "saga", "inventory", "verdicts", "playbooks", "scap", "changes"}
  /\ part = "reports" => IInv
  /\ part = "access" => HP!IInv
  /\ part = "tracker" => TrackerIInv
  /\ part = "console" => AP!IInv
  /\ part = "runs" => RP!IInv
  /\ part = "onboarding" => WizardIInv
  /\ part = "saga" => SP!IInv
  /\ part = "playbooks" => PlaybooksIInv
  /\ part = "cve" => CveIInv
  /\ part = "verdicts" => VerdictIInv
  /\ part = "scap" => FleetIInv
  /\ part = "changes" => ChangeIInv
  /\ part = "posture" => PostureIInv
  /\ part = "inventory" => InventoryIInv

(* A step of the whole is a step of the component that moves, or none.      *)
LEMMA MovesOne ==
  ASSUME [ControlNext]_<<part, vars, butReports>>
  PROVE  /\ part' = part
         /\ part = "access" => H!Next \/ UNCHANGED H!vars
         /\ part = "tracker" => T!Next \/ UNCHANGED T!vars
         /\ part = "console" => A!Next \/ UNCHANGED A!vars
         /\ part = "runs" => R!Next \/ UNCHANGED R!vars
         /\ part = "onboarding" => W!Next \/ UNCHANGED W!vars
         /\ part = "saga" => S!Next \/ UNCHANGED S!vars
         /\ part = "playbooks" => B!Next \/ UNCHANGED B!vars
         /\ part = "cve" => C!Next \/ UNCHANGED C!vars
         /\ part = "verdicts" => V!Next \/ UNCHANGED verdictVars
         /\ part = "scap" => O!Next \/ UNCHANGED O!vars
         /\ part = "changes" => G!Next \/ UNCHANGED G!vars
         /\ part = "posture" => P!Next \/ UNCHANGED P!vars
         /\ part = "inventory" => I!Next \/ UNCHANGED text
         /\ part = "reports" => Next \/ UNCHANGED vars
<1>1. part' = part BY DEF ControlNext
<1>2. part = "access" => H!Next \/ UNCHANGED H!vars BY DEF ControlNext, butReports, accessVars, H!vars
<1>3. part = "tracker" => T!Next \/ UNCHANGED T!vars BY DEF ControlNext, butReports, trackerVars, T!vars
<1>4. part = "console" => A!Next \/ UNCHANGED A!vars BY DEF ControlNext, butReports, consoleVars, A!vars, A!server, A!page
<1>5. part = "runs" => R!Next \/ UNCHANGED R!vars BY DEF ControlNext, butReports, runVars, R!vars
<1>6. part = "onboarding" => W!Next \/ UNCHANGED W!vars BY DEF ControlNext, butReports, onboardingVars, W!vars
<1>7. part = "saga" => S!Next \/ UNCHANGED S!vars BY DEF ControlNext, butReports, sagaVars, S!vars
<1>8. part = "playbooks" => B!Next \/ UNCHANGED B!vars BY DEF ControlNext, butReports, scriptVars, B!vars
<1>9. part = "cve" => C!Next \/ UNCHANGED C!vars BY DEF ControlNext, butReports, cveVars, C!vars
<1>10. part = "verdicts" => V!Next \/ UNCHANGED verdictVars BY DEF ControlNext, butReports, verdictVars
<1>11. part = "scap" => O!Next \/ UNCHANGED O!vars BY DEF ControlNext, butReports, scapVars, O!vars
<1>12. part = "changes" => G!Next \/ UNCHANGED G!vars BY DEF ControlNext, butReports, changeVars, G!vars
<1>13. part = "posture" => P!Next \/ UNCHANGED P!vars BY DEF ControlNext, butReports, postureVars, P!vars
<1>14. part = "inventory" => I!Next \/ UNCHANGED text BY DEF ControlNext, butReports
<1>15. part = "reports" => Next \/ UNCHANGED vars BY DEF ControlNext
<1> QED BY <1>1, <1>2, <1>3, <1>4, <1>5, <1>6, <1>7, <1>8, <1>9, <1>10, <1>11, <1>12, <1>13, <1>14, <1>15

LEMMA ControlInitIInv == ASSUME ControlInit PROVE ControlIInv
<1>1. ASSUME part = "access" PROVE HP!IInv
  <2>1. H!Init BY <1>1 DEF ControlInit
  <2> QED BY <2>1, ControlAssumption, HP!InitIInv, SameAccess DEF ControlAssumption
<1>2. ASSUME part = "tracker" PROVE TrackerIInv
  <2>1. T!Init BY <1>2 DEF ControlInit
  <2> QED BY <2>1, ControlAssumption, TrackerInitIInv DEF ControlAssumption
<1>3. ASSUME part = "console" PROVE AP!IInv
  <2>1. A!Init BY <1>3 DEF ControlInit
  <2> QED BY <2>1, ControlAssumption, AP!InitIInv, SameConsole DEF ControlAssumption
<1>4. ASSUME part = "runs" PROVE RP!IInv
  <2>1. R!Init BY <1>4 DEF ControlInit
  <2> QED BY <2>1, ControlAssumption, RP!InitIInv, SameRun DEF ControlAssumption
<1>5. ASSUME part = "onboarding" PROVE WizardIInv
  <2>1. W!Init BY <1>5 DEF ControlInit
  <2> QED BY <2>1, ControlAssumption, WizardInitIInv DEF ControlAssumption
<1>6. ASSUME part = "saga" PROVE SP!IInv
  <2>1. S!Init BY <1>6 DEF ControlInit
  <2>2. SP!RInv BY <2>1, ControlAssumption, SP!Init_Inv, SameSaga DEF ControlAssumption
  <2> QED BY <2>2 DEF SP!RInv
<1>7. ASSUME part = "playbooks" PROVE PlaybooksIInv
  <2>1. B!Init BY <1>7 DEF ControlInit
  <2> QED BY <2>1, ControlAssumption, PlaybooksInitIInv DEF ControlAssumption
<1>8. ASSUME part = "cve" PROVE CveIInv
  <2>1. C!Init BY <1>8 DEF ControlInit
  <2> QED BY <2>1, ControlAssumption, CveInitIInv DEF ControlAssumption
<1>9. ASSUME part = "verdicts" PROVE VerdictIInv
  <2>1. V!Init BY <1>9 DEF ControlInit
  <2> QED BY <2>1, ControlAssumption, VerdictInitIInv DEF ControlAssumption
<1>10. ASSUME part = "scap" PROVE FleetIInv
  <2>1. O!Init BY <1>10 DEF ControlInit
  <2> QED BY <2>1, ControlAssumption, FleetInitIInv DEF ControlAssumption
<1>11. ASSUME part = "changes" PROVE ChangeIInv
  <2>1. G!Init BY <1>11 DEF ControlInit
  <2> QED BY <2>1, ControlAssumption, ChangeInitIInv DEF ControlAssumption
<1>12. ASSUME part = "posture" PROVE PostureIInv
  <2>1. P!Init BY <1>12 DEF ControlInit
  <2> QED BY <2>1, ControlAssumption, PostureInitIInv DEF ControlAssumption
<1>13. ASSUME part = "inventory" PROVE InventoryIInv
  <2>1. I!Init BY <1>13 DEF ControlInit
  <2> QED BY <2>1, ControlAssumption, InventoryInitIInv DEF ControlAssumption
<1>14. ASSUME part = "reports" PROVE IInv
  <2>1. Init BY <1>14 DEF ControlInit
  <2> QED BY <2>1, InitHolds
<1>15. part \in {"reports", "access", "cve", "tracker", "posture", "console", "runs", "onboarding",
                "saga", "inventory", "verdicts", "playbooks", "scap", "changes"}
  BY DEF ControlInit
<1> QED
  BY <1>1, <1>2, <1>3, <1>4, <1>5, <1>6, <1>7, <1>8, <1>9, <1>10, <1>11, <1>12, <1>13, <1>14, <1>15
  DEF ControlIInv

LEMMA ControlStep ==
  ASSUME ControlIInv, [ControlNext]_<<part, vars, butReports>>
  PROVE  ControlIInv'
<1>1. ASSUME part' = "access" PROVE HP!IInv'
  <2>1. HP!IInv /\ (H!Next \/ UNCHANGED H!vars) BY <1>1, MovesOne DEF ControlIInv
  <2> QED BY <2>1, ControlAssumption, HP!Step, SameAccess DEF ControlAssumption, H!vars, HP!vars
<1>2. ASSUME part' = "tracker" PROVE TrackerIInv'
  <2>1. TrackerIInv /\ (T!Next \/ UNCHANGED T!vars) BY <1>2, MovesOne DEF ControlIInv
  <2> QED BY <2>1, ControlAssumption, TrackerStep, TrackerStutter DEF ControlAssumption
<1>3. ASSUME part' = "console" PROVE AP!IInv'
  <2>1. AP!IInv /\ (A!Next \/ UNCHANGED A!vars) BY <1>3, MovesOne DEF ControlIInv
  <2> QED BY <2>1, ControlAssumption, AP!Step, SameConsole DEF ControlAssumption, A!vars, AP!vars, A!server, AP!server, A!page, AP!page
<1>4. ASSUME part' = "runs" PROVE RP!IInv'
  <2>1. RP!IInv /\ (R!Next \/ UNCHANGED R!vars) BY <1>4, MovesOne DEF ControlIInv
  <2> QED BY <2>1, ControlAssumption, RP!Step, SameRun DEF ControlAssumption, R!vars, RP!vars
<1>5. ASSUME part' = "onboarding" PROVE WizardIInv'
  <2>1. WizardIInv /\ (W!Next \/ UNCHANGED W!vars) BY <1>5, MovesOne DEF ControlIInv
  <2> QED BY <2>1, ControlAssumption, WizardStep, WizardStutter DEF ControlAssumption
<1>6. ASSUME part' = "saga" PROVE SP!IInv'
  <2>1. SP!IInv /\ (S!Next \/ UNCHANGED S!vars) BY <1>6, MovesOne DEF ControlIInv
  <2> QED BY <2>1, ControlAssumption, SP!Next_Inv, SameSaga DEF ControlAssumption, S!vars, SP!vars
<1>7. ASSUME part' = "playbooks" PROVE PlaybooksIInv'
  <2>1. PlaybooksIInv /\ (B!Next \/ UNCHANGED B!vars) BY <1>7, MovesOne DEF ControlIInv
  <2> QED BY <2>1, ControlAssumption, PlaybooksStep, PlaybooksStutter DEF ControlAssumption
<1>8. ASSUME part' = "cve" PROVE CveIInv'
  <2>1. CveIInv /\ (C!Next \/ UNCHANGED C!vars) BY <1>8, MovesOne DEF ControlIInv
  <2> QED BY <2>1, ControlAssumption, CveStep DEF ControlAssumption
<1>9. ASSUME part' = "verdicts" PROVE VerdictIInv'
  <2>1. VerdictIInv /\ (V!Next \/ UNCHANGED verdictVars) BY <1>9, MovesOne DEF ControlIInv
  <2> QED BY <2>1, ControlAssumption, VerdictStep DEF ControlAssumption, verdictVars
<1>10. ASSUME part' = "scap" PROVE FleetIInv'
  <2>1. FleetIInv /\ (O!Next \/ UNCHANGED O!vars) BY <1>10, MovesOne DEF ControlIInv
  <2> QED BY <2>1, ControlAssumption, FleetStep DEF ControlAssumption
<1>11. ASSUME part' = "changes" PROVE ChangeIInv'
  <2>1. ChangeIInv /\ (G!Next \/ UNCHANGED G!vars) BY <1>11, MovesOne DEF ControlIInv
  <2> QED BY <2>1, ControlAssumption, ChangeStep DEF ControlAssumption
<1>12. ASSUME part' = "posture" PROVE PostureIInv'
  <2>1. PostureIInv /\ [P!Next]_P!vars BY <1>12, MovesOne DEF ControlIInv
  <2> QED BY <2>1, ControlAssumption, PostureStepIInv DEF ControlAssumption
<1>13. ASSUME part' = "inventory" PROVE InventoryIInv'
  <2>1. InventoryIInv /\ (I!Next \/ UNCHANGED text) BY <1>13, MovesOne DEF ControlIInv
  <2> QED BY <2>1, ControlAssumption, InventoryStepIInv DEF ControlAssumption
<1>14. ASSUME part' = "reports" PROVE IInv'
  <2>1. IInv /\ (Next \/ UNCHANGED vars) BY <1>14, MovesOne DEF ControlIInv
  <2> QED BY <2>1, NextKeeps
<1>15. part' \in {"reports", "access", "cve", "tracker", "posture", "console", "runs", "onboarding",
                 "saga", "inventory", "verdicts", "playbooks", "scap", "changes"}
  BY MovesOne DEF ControlIInv
<1> QED
  BY <1>1, <1>2, <1>3, <1>4, <1>5, <1>6, <1>7, <1>8, <1>9, <1>10, <1>11, <1>12, <1>13, <1>14, <1>15
  DEF ControlIInv

(* Whatever component moves, its invariant holds in every state.            *)
THEOREM ControlInvariance == ControlSpec => []ControlIInv
<1>1. ControlInit => ControlIInv BY ControlInitIInv
<1>2. ControlIInv /\ [ControlNext]_<<part, vars, butReports>> => ControlIInv' BY ControlStep
<1> QED BY <1>1, <1>2, PTL DEF ControlSpec

(* However enrolments and closeouts of a host cross, none brings back the   *)
(* key that the other takes away, and no key keeps opening a target when    *)
(* its private half is gone (host-credentials.ts:97-105, 229-236,           *)
(* host-closeout.ts:17-27, 80-115).                                         *)
THEOREM ControlStrandsNoKey == ControlSpec => []NoStrandedAccess
<1>1. ControlIInv => NoStrandedAccess
  BY HP!Excluding, HP!NothingStranded, SameAccess DEF ControlIInv, NoStrandedAccess
<1> QED BY <1>1, ControlInvariance, PTL

(* Files, records, rows, targets and wizards agree about the keys           *)
(* (hosts/route.ts:353-424, bootstrap/route.ts:51,                          *)
(* host-credentials.ts:214-247, ssh-access.ts:242).                         *)
THEOREM ControlMatchesKeys == ControlSpec => []KeysMatchTheirRecords
<1>1. ControlIInv => KeysMatchTheirRecords
  BY HP!RecordsMatch, HP!OneKeyEach, SameAccess DEF ControlIInv, WizardIInv, KeysMatchTheirRecords
<1> QED BY <1>1, ControlInvariance, PTL

(* One audit of a host works at a time, and a needless one only for         *)
(* somebody who asked for it (run/route.ts:209-226).                        *)
THEOREM ControlRepeatsOnRequest == ControlSpec => []RepeatsAreAskedFor
<1>1. ControlIInv => RepeatsAreAskedFor
  BY AP!RepeatsKnown, SameConsole DEF ControlIInv, RepeatsAreAskedFor
<1> QED BY <1>1, ControlInvariance, PTL

(* A machine gets one command at a time, in an order its helper can bear,   *)
(* and forms attest what was seen (remediation.ts:234-273,                  *)
(* state-store.ts:1043-1105).                                               *)
THEOREM ControlCallsAsPromised == ControlSpec => []CallsAsPromised
<1>1. ControlIInv => CallsAsPromised
  BY SP!Promises, SameSaga DEF ControlIInv, CallsAsPromised
<1> QED BY <1>1, ControlInvariance, PTL

(* As long as a store that refused a write refuses the next one too, what   *)
(* was left on a machine bars it or can be rolled back (remediation.ts:247, *)
(* 325, hcp-firewall.py:895-900), and the controller can come back to do so,*)
(* since no rule that a change put there denies it the way in               *)
(* (remediation.ts:128-151, 393-400).                                       *)
THEOREM ControlIsRecoverable == ASSUME ~ Transient PROVE ControlSpec => []TargetIsRecoverable
<1> DEFINE Kept == ControlIInv /\ (part = "saga" => SP!RInv)
<1>1. ASSUME ControlInit PROVE Kept
  <2>1. ASSUME part = "saga" PROVE SP!RInv
    <3>1. S!Init BY <1>1, <2>1 DEF ControlInit
    <3> QED BY <3>1, ControlAssumption, SP!Init_Inv, SameSaga DEF ControlAssumption
  <2> QED BY <1>1, <2>1, ControlInitIInv
<1>2. ASSUME Kept, [ControlNext]_<<part, vars, butReports>> PROVE Kept'
  <2>1. ControlIInv' BY <1>2, ControlStep
  <2>2. ASSUME part' = "saga" PROVE SP!RInv'
    <3>1. SP!RInv /\ (S!Next \/ UNCHANGED S!vars) BY <1>2, <2>2, MovesOne
    <3>2. SP!Next \/ UNCHANGED SP!vars BY <3>1, SameSaga DEF S!vars, SP!vars
    <3>3. SP!TargetIsRecoverable'
      BY <3>1, <3>2, ControlAssumption, SP!Next_Recoverable, SameSaga DEF ControlAssumption
    <3>4. SP!IInv' BY <2>1, <2>2 DEF ControlIInv
    <3> QED BY <3>3, <3>4 DEF SP!RInv
  <2> QED BY <2>1, <2>2
<1>3. Kept => TargetIsRecoverable
  BY SameSaga DEF ControlIInv, ChangeIInv, SP!RInv, TargetIsRecoverable
<1> QED BY <1>1, <1>2, <1>3, PTL DEF ControlSpec

(* No rule that a change put into a firewall denies the controller the way  *)
(* in, whether or not the store can fail (remediation.ts:128-151, 393-400,  *)
(* hcp-firewall.py:183-207).                                                *)
THEOREM ChangesKeepTheDoor == ControlSpec => [](part = "changes" => G!DoorStaysOpen)
<1>1. ControlIInv => (part = "changes" => G!DoorStaysOpen) BY DEF ControlIInv, ChangeIInv
<1> QED BY <1>1, ControlInvariance, PTL

(* A page loses no running job that it has shown, and announces the end of  *)
(* each (audit-jobs-provider.tsx:27, 41, audit-job-status.ts:13).           *)
THEOREM ControlPagesKeepUp == ControlSpec => PageKeepsUp
<1>1. ASSUME ControlIInv, ControlIInv', [ControlNext]_<<part, vars, butReports>>
      PROVE  [part = "console" => A!KnownJobsStayListed /\ A!CompletionsAnnounced']_consoleVars
  <2>1. SUFFICES ASSUME part = "console", consoleVars' # consoleVars
                 PROVE  A!KnownJobsStayListed /\ A!CompletionsAnnounced'
    OBVIOUS
  <2>2. A!Next /\ part' = part
    <3>1. part' = part /\ (A!Next \/ UNCHANGED A!vars) BY <1>1, <2>1, MovesOne
    <3> QED BY <2>1, <3>1 DEF A!vars, A!server, A!page, consoleVars
  <2>3. AP!IInv /\ AP!IInv' BY <1>1, <2>1, <2>2 DEF ControlIInv
  <2>4. A!KnownJobsStayListed BY <2>2, <2>3, AP!ListedStep, SameConsole, ControlAssumption DEF ControlAssumption
  <2>5. AP!CompletionsAnnounced' BY <2>3 DEF AP!IInv
  <2>6. A!CompletionsAnnounced' BY <2>5 DEF A!CompletionsAnnounced, AP!CompletionsAnnounced
  <2> QED BY <2>4, <2>6
<1> QED BY <1>1, ControlInvariance, PTL DEF ControlSpec, PageKeepsUp

LEMMA ReportsArchive == ASSUME Next PROVE ArchivedAsShown
<1>1. CASE ApplyArchive BY <1>1 DEF ApplyArchive, Archived, ArchivedAsShown
<1>2. CASE archived' = archived BY <1>2 DEF ArchivedAsShown
<1>3. CASE Publish BY <1>2, <1>3 DEF Publish, PublishAudit, PublishPackages
<1>4. ASSUME NEW q \in Request, Begin(q) PROVE archived' = archived
  BY <1>4 DEF Begin, StartScan, StartUpload, StartDownload, StartRender
<1>5. ASSUME NEW q \in Request, End(q) PROVE archived' = archived
  BY <1>5 DEF End, FinishScan, FinishUpload, FinishDownload, FinishRender, GiveUp
<1>6. CASE Operator /\ ~ ApplyArchive
  BY <1>2, <1>6 DEF Operator, DeleteReport, DeleteDraft, AddToPlan, Confirm, Advance, CancelRow, ShowArchive
<1>7. CASE Mishap BY <1>2, <1>7 DEF Mishap, Crash, DeleteCutShort, BreakSnapshot
<1> QED BY <1>1, <1>2, <1>3, <1>4, <1>5, <1>6, <1>7 DEF Next

(* What an operator approves or applies is what his form showed: records    *)
(* that he archives (archive.ts:23), a snapshot that he selects             *)
(* (state-store.ts:633).                                                    *)
THEOREM ControlDoesAsShown == ControlSpec => DoneAsShown
<1>1. ASSUME [ControlNext]_<<part, vars, butReports>>
      PROVE  ArchivedAsShown /\ T!SelectedAsSeen
  <2>1. CASE archived' = archived /\ selected' = selected BY <2>1 DEF ArchivedAsShown, T!SelectedAsSeen
  <2>2. CASE Next /\ UNCHANGED butReports
    <3>1. selected' = selected BY <2>2 DEF butReports, trackerVars
    <3> QED BY <2>2, <3>1, ReportsArchive DEF T!SelectedAsSeen
  <2>3. CASE T!Next /\ UNCHANGED butTracker
    <3>1. archived' = archived BY <2>3 DEF butTracker, vars
    <3> QED BY <2>3, <3>1, TrackerSelectedStep DEF ArchivedAsShown
  <2> QED
    BY <1>1, <2>1, <2>2, <2>3
    DEF ControlNext, vars, trackerVars, butReports, butAccess, butCve, butPosture, butConsole, butRuns, butOnboarding,
        butSaga, butInventory, butVerdicts, butPlaybooks, butScap, butChanges
<1> QED BY <1>1, PTL DEF ControlSpec, DoneAsShown

(* "No known CVE" is true of the database that the report names, no         *)
(* interrupted download looks like a source, and comparisons use young      *)
(* snapshots (vulnerability-scan.ts:1366, hcp-trivy-source.py:257-269, 320, *)
(* debian-tracker-snapshot.ts:324-335).                                     *)
THEOREM ControlReportsClean == ControlSpec => []CleanMeansClean
<1>1. ControlIInv => CleanMeansClean
  BY CveReportsHold, ControlAssumption DEF ControlIInv, TrackerIInv, CleanMeansClean, ControlAssumption
<1> QED BY <1>1, ControlInvariance, PTL

(* A "no finding" of a CVE report rests on advisories and packages of the   *)
(* machine's own distribution, a complete audit was complete in every       *)
(* respect, a completed change is in force (vulnerability-scan.ts:793, 1005,*)
(* 1365, run/route.ts:119-167, 236-247, audit-result.ts:43-57).             *)
THEOREM ControlEarnsVerdicts == ControlSpec => []VerdictsAreEarned
<1>1. ControlIInv => VerdictsAreEarned
  BY VerdictEarned, ControlAssumption
  DEF ControlIInv, ChangeIInv, FleetIInv, VerdictsAreEarned, ControlAssumption
<1> QED BY <1>1, ControlInvariance, PTL

(* Findings go to the machine they were collected from, one authenticated   *)
(* run at a time works on a machine, and every report of a launch follows   *)
(* the policies and exceptions agreed before it (asset-execution.ts:36-62,  *)
(* state-store.ts:530, scheduled/openscap/route.ts:21-24).                  *)
THEOREM ControlReportsItsLaunch == ControlSpec => []ReportsOfTheirLaunch
<1>1. ControlIInv => ReportsOfTheirLaunch
  BY RP!MachinesMatch, RP!NeverShared, SameRun, FleetOfTheirLaunch, ControlAssumption
  DEF ControlIInv, ReportsOfTheirLaunch, ControlAssumption
<1> QED BY <1>1, ControlInvariance, PTL

(* A wizard sends the key of the connection it shows, no script is          *)
(* overwritten with the text of another, a text taken for saved is the      *)
(* file's, and a host's preparation is what a launch would choose           *)
(* (ansible-control-client.tsx:533-561, playbooks-client.tsx:82, 145-224,   *)
(* audit-preparation/route.ts:29-89).                                       *)
THEOREM ControlKeepsForms == ControlSpec => []FormsKeepTheirSubject
<1>1. ControlIInv => FormsKeepTheirSubject
  BY PlaybooksClean, FleetPrepared, ControlAssumption
  DEF ControlIInv, WizardIInv, PlaybooksIInv, FormsKeepTheirSubject, ControlAssumption
<1> QED BY <1>1, ControlInvariance, PTL

(* A recent failure on the present machine never just vanishes from the     *)
(* summary, however reports of other scopes, outcomes and dates follow it   *)
(* (audit-correlation.ts:179-306), and when the dashboard proposes nothing  *)
(* but the report, every recent failure with a risk beyond "info" was       *)
(* looked at again or belongs to a profile given up: the "info" band is not *)
(* counted (host-audit-workflow.ts:86-102, dashboard-evidence-status.ts:54).*)
THEOREM ControlLosesNoFinding == ControlSpec => []FindingsAccounted
<1>1. ASSUME PostureIInv PROVE P!FindingsAccounted /\ P!CalmIsEarned
  <2>1. P!TypeOK /\ ScansUnverified BY <1>1 DEF PostureIInv
  <2>2. P!PostureAssumption BY ControlAssumption DEF ControlAssumption
  <2> QED BY <2>1, <2>2, PostureAccounted, PostureCalmStep
<1>2. ControlIInv => FindingsAccounted BY <1>1 DEF ControlIInv, FindingsAccounted
<1> QED BY <1>2, ControlInvariance, PTL

(* What the pages take from their caches is what they would compute now,    *)
(* whatever happened to the reports, the binding and the inventory since    *)
(* (audit-correlation.ts:165-171, host-risk-summary.ts:22-31).              *)
THEOREM ControlPagesAreCurrent == ControlSpec => []PagesAreCurrent
<1>1. ControlIInv => PagesAreCurrent
  BY PostureCurrentNow, ControlAssumption DEF ControlIInv, PagesAreCurrent, ControlAssumption
<1> QED BY <1>1, ControlInvariance, PTL

(* An edit of the inventory is about one host, however the sections of the  *)
(* file are ordered, split or repeated, and whatever else it holds          *)
(* (hosts/route.ts:173-254, inventory-closeout.ts:53-66).                   *)
THEOREM ControlEditsOneHost == ControlSpec => []EditsOneHost
<1>1. ControlIInv => EditsOneHost
  BY InventoryEditsOne, ControlAssumption DEF ControlIInv, EditsOneHost, ControlAssumption
<1> QED BY <1>1, ControlInvariance, PTL

LEMMA AccessTypes == ASSUME HP!IInv PROVE H!TypeOK
<1>1. HP!TypeOK BY HP!TypesHold
<1>2. \A t : HP!TaskOK(t) => H!TaskOK(t)
  BY DEF HP!TaskOK, H!TaskOK, HP!Idle, H!Idle, HP!Status, H!Status, HP!Settled, H!Settled
<1> QED
  BY <1>1, <1>2
  DEF HP!TypeOK, H!TypeOK, HP!File, H!File, HP!Private, H!Private, HP!Public, H!Public, HP!Metadata, H!Metadata,
      HP!BootLock, H!BootLock, HP!Directory, H!Directory, HP!Status, H!Status, HP!Settled, H!Settled

LEMMA ConsoleTypes == ASSUME AP!IInv PROVE A!TypeOK
<1>1. AP!TypeOK BY AP!TypesHold, ControlAssumption, SameConsole DEF ControlAssumption
<1> QED BY <1>1 DEF AP!TypeOK, A!TypeOK, AP!Job, A!Job, AP!Row, A!Row, AP!Rows, A!Rows, AP!Status, A!Status

LEMMA RunTypes == ASSUME RP!IInv PROVE R!TypeOK
<1>1. RP!TypeOK BY RP!TypesHold
<1>2. \A t : RP!RunOK(t) => R!RunOK(t)
  BY DEF RP!RunOK, R!RunOK, RP!Asleep, R!Asleep, RP!Kind, R!Kind, RP!Partial, R!Partial, RP!Binding, R!Binding
<1> QED BY <1>1, <1>2 DEF RP!TypeOK, R!TypeOK

LEMMA SagaTypes == ASSUME SP!IInv PROVE S!TypeOK
<1>1. SP!TypeOK BY DEF SP!IInv
<1> QED
  BY <1>1
  DEF SP!TypeOK, S!TypeOK, SP!Txn, S!Txn, SP!Status, S!Status, SP!Unresolved, S!Unresolved, SP!Working, S!Working,
      SP!Claimable, S!Claimable, SP!Owner, S!Owner, SP!Op, S!Op, SP!Outcome, S!Outcome, SP!Command, S!Command,
      SP!Held, S!Held, SP!Changed, S!Changed, SP!Target, S!Target

LEMMA CveTypes == ASSUME CveIInv PROVE C!TypeOK
<1>1. CveShapes BY DEF CveIInv
<1>2. \A r \in CveRequest :
        \/ cveTask[r] = C!Idle
        \/ cveTask[r] \in [step : {"awaiting", "queued", "running"}, inventory : SUBSET Record]
        \/ cveTask[r] \in [step : {"answered"}, inventory : SUBSET Record, covered : BOOLEAN, clean : BOOLEAN,
                          source : C!Evidence]
  <2>1. \A r \in CveRequest : cveTask[r] \in CveTask BY <1>1 DEF CveShapes, CveRequestsOK
  <2> QED BY <2>1 DEF CveTask, CveWaiting, CveAnswered
<1>3. CveWorkOK(work) BY <1>1 DEF CveShapes, CveHelperOK
<1> QED
  BY <1>1, <1>2, <1>3
  DEF C!TypeOK, CveShapes, CveCacheOK, CveHelperOK, CveRequestsOK, CveRefresh, CveSettingsOK, CveWorkOK

LEMMA VerdictTypes == ASSUME VerdictIInv PROVE V!TypeOK
<1>1. VerdictSubjectOK /\ VerdictReplyOK /\ VerdictComputed BY DEF VerdictIInv
<1>2. reply # Nil => reply.status \in V!Status /\ {reply.detected, reply.fresh} \subseteq BOOLEAN
  BY <1>1 DEF VerdictReplyOK
<1>3. ASSUME assessment # Nil
      PROVE  /\ {assessment.partial, assessment.clean} \subseteq BOOLEAN
             /\ \A f \in assessment.findings : /\ f.verdict \in {"not_affected", "affected", "under_investigation", "unknown"}
                                            /\ f.status \in {"passed", "failed", "manual"}
  <2>1. reply # Nil /\ reply.status \in V!Status BY <1>2, <1>3, <1>1 DEF VerdictComputed
  <2>2. /\ assessment.findings = VerdictFindings /\ assessment.partial = VerdictPartial
        /\ assessment.clean = (VerdictFindings = {} /\ ~ VerdictPartial)
    BY <1>1, <1>3 DEF VerdictComputed
  <2>3. VerdictPartial \in BOOLEAN BY DEF VerdictPartial
  <2>4. (VerdictFindings = {} /\ ~ VerdictPartial) \in BOOLEAN OBVIOUS
  <2>5. {assessment.partial, assessment.clean} \subseteq BOOLEAN BY <2>2, <2>3, <2>4
  <2>6. ASSUME NEW f \in VerdictFindings
        PROVE  /\ f.verdict \in {"not_affected", "affected", "under_investigation", "unknown"}
               /\ f.status \in {"passed", "failed", "manual"}
    <3>1. PICK e \in reply.about : f = V!TrivyFinding(e) BY <2>6 DEF VerdictFindings
    <3>2. V!AssessCveApplicability(e) \in {"not_affected", "affected", "under_investigation", "unknown"}
      BY <2>1 DEF V!AssessCveApplicability, V!Status
    <3>3. V!StatusForVendor \in {"passed", "failed", "manual"} BY <2>1 DEF V!StatusForVendor, V!Status
    <3> QED BY <3>1, <3>2, <3>3 DEF V!TrivyFinding
  <2> QED BY <2>2, <2>5, <2>6
<1> QED BY <1>1, <1>2, <1>3 DEF V!TypeOK, VerdictSubjectOK

(* Every record of the component that moves keeps its type: rows, files,    *)
(* tasks, leases, reports and forms hold what the code that reads them      *)
(* expects (state-store.ts:470-1609, vulnerability-scan.ts:1000-1468,       *)
(* hosts/route.ts:173-254).                                                 *)
THEOREM ControlKeepsTypes == ControlSpec => []ControlTypeOK
<1>1. ASSUME ControlIInv PROVE ControlTypeOK
  <2>1. part = "reports" => TypeOK BY <1>1 DEF ControlIInv, IInv, Shapes
  <2>2. part = "access" => H!TypeOK BY <1>1, AccessTypes DEF ControlIInv
  <2>3. part = "cve" => C!TypeOK BY <1>1, CveTypes DEF ControlIInv
  <2>4. part = "tracker" => T!TypeOK BY <1>1 DEF ControlIInv, TrackerIInv
  <2>5. part = "posture" => P!TypeOK BY <1>1 DEF ControlIInv, PostureIInv
  <2>6. part = "console" => A!TypeOK BY <1>1, ConsoleTypes DEF ControlIInv
  <2>7. part = "runs" => R!TypeOK BY <1>1, RunTypes DEF ControlIInv
  <2>8. part = "onboarding" => W!TypeOK BY <1>1 DEF ControlIInv, WizardIInv
  <2>9. part = "saga" => S!TypeOK BY <1>1, SagaTypes DEF ControlIInv
  <2>10. part = "inventory" => I!TypeOK BY <1>1 DEF ControlIInv, InventoryIInv
  <2>11. part = "verdicts" => V!TypeOK BY <1>1, VerdictTypes DEF ControlIInv
  <2>12. part = "playbooks" => B!TypeOK BY <1>1 DEF ControlIInv, PlaybooksIInv
  <2>13. part = "scap" => O!TypeOK BY <1>1 DEF ControlIInv, FleetIInv
  <2>14. part = "changes" => G!TypeOK BY <1>1 DEF ControlIInv, ChangeIInv
  <2>15. part \in {"reports", "access", "cve", "tracker", "posture", "console", "runs", "onboarding",
                  "saga", "inventory", "verdicts", "playbooks", "scap", "changes"}
    BY <1>1 DEF ControlIInv
  <2>16. CASE part = "reports" BY <2>1, <2>16 DEF ControlTypeOK
  <2>17. CASE part = "access" BY <2>2, <2>17 DEF ControlTypeOK
  <2>18. CASE part = "cve" BY <2>3, <2>18 DEF ControlTypeOK
  <2>19. CASE part = "tracker" BY <2>4, <2>19 DEF ControlTypeOK
  <2>20. CASE part = "posture" BY <2>5, <2>20 DEF ControlTypeOK
  <2>21. CASE part = "console" BY <2>6, <2>21 DEF ControlTypeOK
  <2>22. CASE part = "runs" BY <2>7, <2>22 DEF ControlTypeOK
  <2>23. CASE part = "onboarding" BY <2>8, <2>23 DEF ControlTypeOK
  <2>24. CASE part = "saga" BY <2>9, <2>24 DEF ControlTypeOK
  <2>25. CASE part = "inventory" BY <2>10, <2>25 DEF ControlTypeOK
  <2>26. CASE part = "verdicts" BY <2>11, <2>26 DEF ControlTypeOK
  <2>27. CASE part = "playbooks" BY <2>12, <2>27 DEF ControlTypeOK
  <2>28. CASE part = "scap" BY <2>13, <2>28 DEF ControlTypeOK
  <2>29. CASE part = "changes" BY <2>14, <2>29 DEF ControlTypeOK
  <2> QED
    BY <2>15, <2>16, <2>17, <2>18, <2>19, <2>20, <2>21, <2>22, <2>23, <2>24, <2>25, <2>26, <2>27, <2>28, <2>29
<1> QED BY <1>1, ControlInvariance, PTL
=============================================================================
