------------------------------ MODULE Playbooks ------------------------------
(* The operators' own audit scripts: two files for each on the controller,   *)
(* and the page that lists, opens, edits, saves, creates and deletes them.   *)
(* Calls of the page are answered in any order; the effects of React run     *)
(* when the handler that caused them ends. How a script runs on a machine    *)
(* is in FrozenRun.                                                          *)
EXTENDS Naturals, FiniteSets

CONSTANTS
  Draft,      \* ids of own scripts
  Builtin,    \* the built-in script that is listed first
  MaxText,    \* bound: texts an operator types
  MaxCalls,   \* bound: calls of the page on their way at once
  MaxOpens,   \* bound: scripts opened
  Nil

VARIABLES
  files,      \* per draft the YAML and the metadata
  page,       \* the page: list, choice, opened script, its text, and whether
              \* the last opening failed
  calls,      \* requests on their way and answers not yet seen
  typed       \* how many texts were typed

vars == <<files, page, calls, typed>>

Script == Draft \cup {Builtin}
Text == [of : Script, n : 0 .. MaxText]
Kind == {"open", "list", "save", "create", "delete"}
Then == {"show", "list", "open", "choose", "nothing"}   \* what follows on an answer
Answer == [ok : BOOLEAN, list : SUBSET Script, text : Text \cup {Nil}]

(* The module that instantiates this one assumes it.                         *)
PlaybooksAssumption ==
  /\ Builtin \notin Draft /\ Nil \notin Script \cup Text \cup Answer
  /\ {MaxText, MaxCalls, MaxOpens} \subseteq Nat

(* What is on the disk of a script; the YAML and its metadata are written    *)
(* and removed together.                                                     *)
OnDisk(s) == IF s = Builtin THEN [of |-> s, n |-> 0] ELSE files[s]
Registered == {s \in Script : OnDisk(s) # Nil}

TypeOK ==
  /\ files \in [Draft -> Text \cup {Nil}]
  /\ page \in [list : SUBSET Script, choice : Script, selected : Script \cup {Nil},
               text : Text \cup {Nil}, saved : Text \cup {Nil},
               busy : BOOLEAN, failed : BOOLEAN, sequence : 0 .. MaxOpens]
  /\ Cardinality(calls) <= MaxCalls
  /\ \A c \in calls : c \in [kind : Kind, id : Script \cup {Nil}, next : Then, frees : BOOLEAN, sequence : 0 .. MaxOpens,
                            text : Text \cup {Nil}, answer : Answer \cup {Nil}]
  /\ typed \in 0 .. MaxText

Init ==
  /\ files = [s \in Draft |-> Nil]
  /\ page = [list |-> {Builtin}, choice |-> Builtin, selected |-> Builtin, text |-> OnDisk(Builtin),
             saved |-> OnDisk(Builtin), busy |-> FALSE, failed |-> FALSE, sequence |-> 0]
  /\ calls = {} /\ typed = 0

-----------------------------------------------------------------------------
(* The page sends                                                            *)

(* `next` is what the handler does with the answer, `frees` whether it ends  *)
(* with it.                                                                  *)
Call(kind, id, next, frees) ==
  [kind |-> kind, id |-> id, next |-> next, frees |-> frees, sequence |-> 0, text |-> Nil, answer |-> Nil]

Opening(id, frees, sequence) == [Call("open", id, "show", frees) EXCEPT !.sequence = sequence]

Room == Cardinality(calls) < MaxCalls

(* The list stays clickable while the page is busy.                          *)
Choose(id) ==
  /\ id \in page.list /\ id # page.choice /\ Room /\ page.sequence < MaxOpens
  /\ page' = [page EXCEPT !.choice = id, !.busy = TRUE, !.failed = FALSE, !.sequence = @ + 1]
  /\ calls' = calls \cup {Opening(id, FALSE, page.sequence + 1)}
  /\ UNCHANGED <<files, typed>>

Type ==
  /\ page.selected \in Draft /\ typed < MaxText
  /\ page' = [page EXCEPT !.text = [of |-> page.selected, n |-> typed + 1]]
  /\ typed' = typed + 1
  /\ UNCHANGED <<files, calls>>

Refresh ==
  /\ ~ page.busy /\ Room
  /\ page' = [page EXCEPT !.busy = TRUE]
  /\ calls' = calls \cup {Call("list", Nil, "nothing", TRUE)}
  /\ UNCHANGED <<files, typed>>

Create(id) ==
  /\ ~ page.busy /\ Room
  /\ page' = [page EXCEPT !.busy = TRUE]
  /\ calls' = calls \cup {Call("create", id, "list", TRUE)}
  /\ UNCHANGED <<files, typed>>

(* The script that is shown is the one that was chosen last.                 *)
MayAct == ~ page.busy /\ page.selected \in Draft /\ page.selected = page.choice /\ Room

(* Mutant: what is shown is saved as the script chosen last.                 *)
SaveChosen ==
  /\ ~ page.busy /\ page.selected \in Draft /\ page.choice \in Draft /\ Room
  /\ page' = [page EXCEPT !.busy = TRUE]
  /\ calls' = calls \cup {[Call("save", page.choice, "list", TRUE) EXCEPT !.text = page.text]}
  /\ UNCHANGED <<files, typed>>

Save ==
  /\ MayAct
  /\ page' = [page EXCEPT !.busy = TRUE]
  /\ calls' = calls \cup {[Call("save", page.selected, "list", TRUE) EXCEPT !.text = page.text]}
  /\ UNCHANGED <<files, typed>>

Delete ==
  /\ MayAct
  /\ page' = [page EXCEPT !.busy = TRUE]
  /\ calls' = calls \cup {Call("delete", page.selected, "list", TRUE)}
  /\ UNCHANGED <<files, typed>>

-----------------------------------------------------------------------------
(* The controller serves: a handler's reads and writes are not interleaved   *)

Granted(c) ==
  CASE c.kind = "list"   -> TRUE
    [] c.kind = "create" -> files[c.id] = Nil
    [] c.kind \in {"open", "save", "delete"} -> c.id \in Registered

Written(c) ==
  CASE c.kind = "create" -> [of |-> c.id, n |-> 0]
    [] c.kind = "save"   -> c.text
    [] c.kind = "delete" -> Nil

Writes(c) == c.kind \in {"create", "save", "delete"} /\ Granted(c)

Serve(c) ==
  /\ c \in calls /\ c.answer = Nil
  /\ files' = IF Writes(c) THEN [files EXCEPT ![c.id] = Written(c)] ELSE files
  /\ calls' = (calls \ {c}) \cup
       {[c EXCEPT !.answer = [ok |-> Granted(c), list |-> Registered,
                              text |-> IF c.kind = "open" /\ Granted(c) THEN OnDisk(c.id) ELSE Nil]]}
  /\ UNCHANGED <<page, typed>>

-----------------------------------------------------------------------------
(* The page sees the answers                                                 *)

(* Mutant: whatever comes is shown.                                          *)
AnyOrder(c) == TRUE

(* Only the last opening is shown.                                           *)
Current(c) == c.sequence = page.sequence

SeeOpened(c) ==
  /\ c \in calls /\ c.kind = "open" /\ c.answer # Nil
  /\ LET shown == IF Current(c) /\ c.answer.ok
                  THEN [page EXCEPT !.selected = c.id, !.text = c.answer.text, !.saved = c.answer.text]
                  ELSE [page EXCEPT !.failed = @ \/ Current(c)]
     IN page' = IF Current(c) \/ c.frees THEN [shown EXCEPT !.busy = FALSE] ELSE shown
  /\ calls' = calls \ {c}
  /\ UNCHANGED <<files, typed>>

(* A failed listing keeps the old list, and the handler goes on.             *)
SeeList(c) ==
  /\ c \in calls /\ c.kind = "list" /\ c.answer # Nil
  /\ LET listed == [page EXCEPT !.list = IF c.answer.ok THEN c.answer.list ELSE @, !.busy = FALSE]
         opens == c.next = "open" \/ (c.next = "choose" /\ c.id # page.choice)
     IN /\ opens => page.sequence < MaxOpens
        /\ page' = IF opens THEN [listed EXCEPT !.choice = IF c.next = "choose" THEN c.id ELSE @,
                                                !.busy = TRUE, !.failed = FALSE, !.sequence = @ + 1]
                   ELSE listed
        /\ calls' = (calls \ {c}) \cup (IF opens THEN {Opening(c.id, c.next = "open", page.sequence + 1)} ELSE {})
  /\ UNCHANGED <<files, typed>>

(* After a save the script is opened again, a new one is chosen; after a     *)
(* deletion the first of the list is.                                        *)
SeeDone(c) ==
  /\ c \in calls /\ c.kind \in {"save", "create", "delete"} /\ c.answer # Nil
  /\ LET lists == Call("list", c.id, IF c.kind = "save" THEN "open" ELSE IF c.kind = "create" THEN "choose" ELSE "nothing", TRUE)
     IN IF ~ c.answer.ok THEN page' = [page EXCEPT !.busy = FALSE] /\ calls' = calls \ {c}
        ELSE IF c.kind # "delete" THEN page' = [page EXCEPT !.busy = TRUE] /\ calls' = (calls \ {c}) \cup {lists}
        ELSE /\ Room /\ page.sequence < MaxOpens
             /\ page' = [page EXCEPT !.choice = Builtin, !.selected = Nil, !.text = Nil,
                                     !.busy = TRUE, !.failed = FALSE, !.sequence = @ + 1]
             /\ calls' = (calls \ {c}) \cup {lists, Opening(Builtin, FALSE, page.sequence + 1)}
  /\ UNCHANGED <<files, typed>>

Next ==
  \/ \E id \in Script : Choose(id)
  \/ \E id \in Draft : Create(id)
  \/ Type \/ Refresh \/ Save \/ Delete
  \/ \E c \in calls : Serve(c) \/ SeeOpened(c) \/ SeeList(c) \/ SeeDone(c)

-----------------------------------------------------------------------------
(* Properties                                                                *)

(* No script is overwritten with the text of another, however late the text  *)
(* on the page is (playbooks-client.tsx:196, 214).                           *)
ScriptsKeepTheirText ==
  \A s \in Draft : files[s] # Nil => files[s].of = s

(* Checks and runs are offered for a saved text only and execute the file:   *)
(* once the page has all its answers, a text that it takes for saved is what *)
(* the file holds, whatever was clicked in between and whatever order the    *)
(* answers came in, unless the last script it went to open was gone          *)
(* (playbooks-client.tsx:82, 145-171, 219-224).                              *)
CleanMeansSaved ==
  (calls = {} /\ ~ page.failed /\ page.selected \in Draft /\ page.text = page.saved)
     => files[page.selected] = page.text
=============================================================================
