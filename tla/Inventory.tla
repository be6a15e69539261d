------------------------------ MODULE Inventory ------------------------------
(* The text of ansible/inventory.ini: what it says of hosts and groups, and  *)
(* the edits that add, change and remove a host's line in a file that people *)
(* also write by hand. A line is a header or names something (a host, a      *)
(* child group or a variable, by its section); blank lines and comments are  *)
(* left out. What may be saved for which key is in Onboarding.               *)
EXTENDS Naturals, Sequences, FiniteSets

CONSTANTS
  Alias, Group, Address, Nil,
  Variable,   \* what a line may name under a header of variables
  Handwritten, \* the texts that people may have written by hand
  MaxLength   \* bound: lines of an edited text

Managed == "linux_hosts"   \* the hosts the controller works on

VARIABLE text

Header(g, section) == [header |-> TRUE, name |-> g, section |-> section, address |-> Nil]
Entry(name, x) == [header |-> FALSE, name |-> name, section |-> "", address |-> x]

Section == {"hosts", "vars", "children"}
Line == {Header(g, s) : g \in Group, s \in Section}
        \cup {Entry(n, x) : n \in Alias \cup Group \cup Variable, x \in Address \cup {Nil}}

(* The module that instantiates this one assumes it: the routes refuse hosts *)
(* and groups that are called "all" or "ungrouped", and nobody calls a host  *)
(* like the managed group, whose header may be missing in the file.          *)
InventoryAssumption ==
  /\ Managed \in Group /\ Nil \notin Address /\ MaxLength \in Nat
  /\ Managed \notin Alias /\ {"all", "ungrouped"} \cap (Alias \cup Group) = {}
  /\ Handwritten \subseteq Seq(Line)

TypeOK == text \in Seq(Line)

-----------------------------------------------------------------------------
(* What a text says: parseStaticInventory                                    *)

(* The header that line i stands under, and none at the top of the file.     *)
HeaderOf(lines, i) ==
  LET above == {j \in 1 .. i : lines[j].header} IN
    IF above = {} THEN Header("ungrouped", "hosts")
    ELSE lines[CHOOSE j \in above : \A k \in above : k <= j]

Entries(lines, section) ==
  {i \in DOMAIN lines : ~ lines[i].header /\ HeaderOf(lines, i).section = section}

Direct(lines) == {<<lines[i].name, HeaderOf(lines, i).name>> : i \in Entries(lines, "hosts")}
Parents(lines) == {<<lines[i].name, HeaderOf(lines, i).name>> : i \in Entries(lines, "children")}
Vars(lines) == {<<lines[i].name, HeaderOf(lines, i).name>> : i \in Entries(lines, "vars")}
Hosts(lines) == {d[1] : d \in Direct(lines)}

Groups(lines) ==
  {"all", "ungrouped"} \cup {lines[i].name : i \in {j \in DOMAIN lines : lines[j].header}}
  \cup {p[1] : p \in Parents(lines)}

(* Ansible takes the variables of a host's last line.                        *)
AddressOf(lines, a) ==
  LET told == {i \in Entries(lines, "hosts") : lines[i].name = a /\ lines[i].address # Nil} IN
    IF told = {} THEN Nil ELSE lines[CHOOSE i \in told : \A j \in told : j <= i].address

(* The least set with g that has the parents of its members.                 *)
Ancestors(lines, g) ==
  LET named == {g} \cup {p[2] : p \in Parents(lines)}
      Closed(S) == \A p \in Parents(lines) : p[1] \in S => p[2] \in S
  IN {h \in named : \A S \in SUBSET named : g \in S /\ Closed(S) => h \in S}

Cyclic(lines) == \E p \in Parents(lines) : p[1] \in Ancestors(lines, p[2])

Membership(lines, a) == UNION {Ancestors(lines, d[2]) : d \in {e \in Direct(lines) : e[1] = a}}

(* A name that is a host's and a group's is refused as a target; a run takes *)
(* the managed hosts.                                                        *)
Targets(lines, name) ==
  IF name \in Groups(lines) \cap Hosts(lines) THEN {}
  ELSE {a \in Hosts(lines) : Managed \in Membership(lines, a) /\ (a = name \/ name \in Membership(lines, a))}

-----------------------------------------------------------------------------
(* The edits                                                                 *)

(* The lines that are not taken, in their order.                             *)
Without(lines, taken) ==
  LET kept == DOMAIN lines \ taken
      Place(i) == Cardinality({j \in kept : j <= i})
  IN [k \in 1 .. Cardinality(kept) |-> lines[CHOOSE i \in kept : Place(i) = k]]

LinesOf(lines, a) == {i \in Entries(lines, "hosts") : lines[i].name = a}

(* Mutant: what a variable or a child group is called is taken for a host.   *)
RemoveNamed(lines, a) == Without(lines, {i \in DOMAIN lines : ~ lines[i].header /\ lines[i].name = a})

(* Mutant: only the host's first line is taken out.                          *)
RemoveFirstLine(lines, a) ==
  Without(lines, {i \in LinesOf(lines, a) : \A j \in LinesOf(lines, a) : i <= j})

RemoveHostLine(lines, a) == Without(lines, LinesOf(lines, a))

At(lines, i, new) == SubSeq(lines, 1, i - 1) \o new \o SubSeq(lines, i, Len(lines))

First(lines, header, otherwise) ==
  LET found == {i \in DOMAIN lines : lines[i] = header} IN
    IF found = {} THEN otherwise ELSE CHOOSE i \in found : \A j \in found : i <= j

BeforeVars(lines) == First(lines, Header(Managed, "vars"), Len(lines) + 1)

(* Mutant: the line goes before the variables, whatever section is there.    *)
InsertBeforeVars(lines, g, line) ==
  IF First(lines, Header(g, "hosts"), 0) = 0 THEN At(lines, BeforeVars(lines), <<Header(g, "hosts"), line>>)
  ELSE At(lines, BeforeVars(lines), <<line>>)

InsertInGroup(lines, g, line) ==
  LET i == First(lines, Header(g, "hosts"), 0) IN
    IF i = 0 THEN At(lines, BeforeVars(lines), <<Header(g, "hosts"), line>>) ELSE At(lines, i + 1, <<line>>)

(* The group becomes a child of the managed group, once.                     *)
ListGroup(lines, g) ==
  LET i == First(lines, Header(Managed, "children"), 0)
      listed == \E j \in i + 1 .. Len(lines) : lines[j] = Entry(g, Nil) /\ \A k \in i + 1 .. j : ~ lines[k].header
  IN IF g = Managed THEN lines
     ELSE IF i = 0 THEN At(lines, BeforeVars(lines), <<Header(Managed, "children"), Entry(g, Nil)>>)
     ELSE IF listed THEN lines ELSE At(lines, i + 1, <<Entry(g, Nil)>>)

InsertHostLine(lines, g, line) == ListGroup(InsertInGroup(lines, g, line), g)

(* The rows of the hosts page: those under a header.                         *)
Rows == {text[i].name : i \in {j \in Entries(text, "hosts") : HeaderOf(text, j).name # "ungrouped"}}

Collides(a, g) ==
  \/ a = g
  \/ \E i \in DOMAIN text : text[i].header /\ text[i].name = a
  \/ \E i \in Entries(text, "hosts") : text[i].name = g

Free(a, x) == \A b \in Rows \ {a} : AddressOf(text, b) # x

MayAdd(a, x, g) == ~ Collides(a, g) /\ a \notin Rows /\ Free(a, x)
MayUpdate(a, x, g) == ~ Collides(a, g) /\ a \in Rows /\ Free(a, x)

Added(a, x, g) == InsertHostLine(text, g, Entry(a, x))
Updated(a, x, g) == InsertHostLine(RemoveHostLine(text, a), g, Entry(a, x))

(* Closeout takes the lines under a header, if they do not contradict each   *)
(* other.                                                                    *)
Agree(a) ==
  \A i, j \in {k \in LinesOf(text, a) : HeaderOf(text, k).name # "ungrouped"} : text[i].address = text[j].address

RemoveInventoryCloseoutHost(lines, a) ==
  Without(lines, {i \in LinesOf(lines, a) : HeaderOf(lines, i).name # "ungrouped"})

MayRemove(a) == LinesOf(text, a) # {}
MayCloseOut(a) == a \in Rows /\ Agree(a)

-----------------------------------------------------------------------------
(* Texts that people write: no group contains itself, none is above the      *)
(* managed one, child groups have sections, as Ansible asks, and no host     *)
(* bears the name of a group.                                                *)
Sound(lines) ==
  /\ ~ Cyclic(lines) /\ Ancestors(lines, Managed) = {Managed}
  /\ \A p \in Parents(lines) : \E i \in DOMAIN lines : lines[i] = Header(p[1], "hosts")
  /\ \A i \in DOMAIN lines \ Entries(lines, "hosts") : lines[i].address = Nil
  /\ Hosts(lines) \cap Groups(lines) = {}

Init == text \in Handwritten /\ Sound(text)

AddHost(a, x, g) == MayAdd(a, x, g) /\ text' = Added(a, x, g)
UpdateHost(a, x, g) == MayUpdate(a, x, g) /\ text' = Updated(a, x, g)
RemoveHost(a) == MayRemove(a) /\ text' = RemoveHostLine(text, a)
CloseOut(a) == MayCloseOut(a) /\ text' = RemoveInventoryCloseoutHost(text, a)

Next ==
  /\ \/ \E a \in Alias, x \in Address, g \in Group : AddHost(a, x, g) \/ UpdateHost(a, x, g)
     \/ \E a \in Alias : RemoveHost(a) \/ CloseOut(a)
  /\ Len(text') <= MaxLength

-----------------------------------------------------------------------------
(* Properties                                                                *)

Others(facts, a) == {f \in facts : f[1] # a}

(* Everything the text said of other hosts, groups and variables is kept.    *)
KeepsTheRest(new, a, listed) ==
  /\ Others(Direct(new), a) = Others(Direct(text), a)
  /\ Parents(new) = Parents(text) \cup listed
  /\ Vars(new) = Vars(text)
  /\ \A b \in Hosts(text) \ {a} : AddressOf(new, b) = AddressOf(text, b)

Saved(new, a, x, g) ==
  /\ KeepsTheRest(new, a, IF g = Managed THEN {} ELSE {<<g, Managed>>})
  /\ <<a, g>> \in Direct(new) /\ AddressOf(new, a) = x
  /\ Targets(new, a) = {a}

Removed(new, a) == KeepsTheRest(new, a, {}) /\ Direct(new) = Others(Direct(text), a)

(* Whatever order the sections are in, saving a host leaves it reachable for *)
(* runs, at the address and in the group that were asked for, removing it    *)
(* leaves nothing of it, and neither touches what the file says of anything  *)
(* else (hosts/route.ts:173-254, inventory-closeout.ts:53-66).               *)
EditsOneHost ==
  /\ \A a \in Alias, x \in Address, g \in Group :
       /\ MayAdd(a, x, g) => Saved(Added(a, x, g), a, x, g)
       /\ MayUpdate(a, x, g) => Saved(Updated(a, x, g), a, x, g) /\ Cardinality({d \in Direct(Updated(a, x, g)) : d[1] = a}) = 1
  /\ \A a \in Alias : MayRemove(a) => Removed(RemoveHostLine(text, a), a)
  /\ \A a \in Alias : MayCloseOut(a) => KeepsTheRest(RemoveInventoryCloseoutHost(text, a), a, {})
=============================================================================
