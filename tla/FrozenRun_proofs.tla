-------------------------- MODULE FrozenRun_proofs ---------------------------
(* Proofs about launches, for any hosts, addresses, machines and installed  *)
(* versions of Ansible, and any number of launches that meet.               *)
EXTENDS FrozenRun, TLAPS

Entry == [asset : Machine, connection : Address]
Lease == [resource : Machine \cup Alias, alias : Alias, operation : Launch]

(* A launch on its way and one that is over, as the records that they are.  *)
Work ==
  [step : {"probing", "executing"}, kind : Kind, frozen : Partial(Alias, Address),
   captured : Partial(Alias, Binding), pins : Partial(Address, Machine),
   seen : {Nil} \cup [alias : Alias, machine : Machine], runtime : {Nil, "modern", "legacy"},
   reports : Partial(Alias, Machine)]

Over == [step : {"over"}, reports : Partial(Alias, Machine), captured : Partial(Alias, Binding)]

Shapes ==
  /\ listed \in [Alias -> Address \cup {Nil}] /\ onDemand \subseteq Alias
  /\ trusted \in [Address -> SUBSET Machine] /\ answers \in [Address -> Machine]
  /\ leases \subseteq Lease
  /\ run \in [Launch -> {Asleep} \cup Work \cup Over]

(* The store's bindings, of which no alias has too many.                    *)
Bindings(B) == B \in [Alias -> Seq(Entry)] /\ \A a \in Alias : Len(B[a]) <= MaxGeneration

(* What a launch captured is a binding that the store still has.            *)
Known(B, a, b) ==
  /\ b.generation \in 1 .. Len(B[a])
  /\ B[a][b.generation] = [asset |-> b.asset, connection |-> b.connection]

(* Targets are captured, and reports collected, of frozen aliases only.     *)
Nested(t) ==
  /\ DOMAIN t.captured \subseteq DOMAIN t.frozen
  /\ DOMAIN t.reports \subseteq DOMAIN t.frozen
  /\ t.seen # Nil => t.seen.alias \in DOMAIN t.frozen
  /\ t.step = "probing" => t.kind # "scan" /\ DOMAIN t.reports = {}
  /\ t.step = "executing" => DOMAIN t.captured = DOMAIN t.frozen

(* A scan claims no machine; who claims one has pinned its key.             *)
Claims(B, t) ==
  /\ t.kind = "scan" => \A a \in DOMAIN t.captured : t.captured[a].status = "unknown"
  /\ t.kind # "scan" => \A a \in DOMAIN t.captured :
       /\ t.captured[a].status = "verified" /\ Known(B, a, t.captured[a])
       /\ t.frozen[a] \in DOMAIN t.pins /\ t.pins[t.frozen[a]] = t.captured[a].asset

(* What an authenticated run collected comes from the machine it claims.    *)
Collected(t) ==
  t.kind # "scan" => \A a \in DOMAIN t.reports : t.reports[a] = t.captured[a].asset

InUse(t) == t.step = "executing" /\ t.kind # "scan"

(* A run at work suits its machines and has a lease of each.                *)
Held(L, r, t) ==
  InUse(t) =>
    /\ Machines(t.captured) \subseteq Supports[t.runtime]
    /\ \A m \in Machines(t.captured) : \E l \in L : l.operation = r /\ l.resource = m

Published(B, t) ==
  /\ DOMAIN t.reports \subseteq DOMAIN t.captured
  /\ \A a \in DOMAIN t.reports : t.captured[a].status = "verified" =>
       t.captured[a].asset = t.reports[a] /\ Known(B, a, t.captured[a])

Sound(B, L, r, t) ==
  /\ t.step \in {"probing", "executing"} => Nested(t) /\ Claims(B, t) /\ Collected(t) /\ Held(L, r, t)
  /\ t.step = "over" => Published(B, t)

Apart ==
  \A r, s \in Launch : r # s /\ InUse(run[r]) /\ InUse(run[s]) =>
    Machines(run[r].captured) \cap Machines(run[s].captured) = {}

IInv == Shapes /\ Bindings(bindings) /\ (\A r \in Launch : Sound(bindings, leases, r, run[r])) /\ Apart

-----------------------------------------------------------------------------
(* Partial functions                                                        *)

LEMMA PartialDomain ==
  ASSUME NEW S, NEW T, NEW f \in Partial(S, T)
  PROVE  DOMAIN f \subseteq S /\ f = [x \in DOMAIN f |-> f[x]] /\ \A x \in DOMAIN f : f[x] \in T
BY DEF Partial

LEMMA PartialIntro ==
  ASSUME NEW S, NEW T, NEW D \in SUBSET S, NEW f \in [D -> T]
  PROVE  f \in Partial(S, T)
BY DEF Partial

LEMMA NothingYet ==
  ASSUME NEW S, NEW T
  PROVE  <<>> \in Partial(S, T) /\ DOMAIN <<>> = {}
<1>1. <<>> \in [{} -> T] BY SMT
<1> QED BY <1>1, PartialIntro

LEMMA ExtendPartial ==
  ASSUME NEW S, NEW T, NEW f \in Partial(S, T), NEW x \in S, NEW y \in T
  PROVE  Extend(f, x, y) \in Partial(S, T)
<1>1. DOMAIN f \cup {x} \in SUBSET S BY PartialDomain
<1>2. Extend(f, x, y) \in [DOMAIN f \cup {x} -> T] BY PartialDomain DEF Extend
<1> QED BY <1>1, <1>2, PartialIntro

-----------------------------------------------------------------------------
(* The store's bindings grow                                                *)

Grown(B, C) ==
  \A a \in Alias : Len(B[a]) <= Len(C[a]) /\ \A i \in 1 .. Len(B[a]) : C[a][i] = B[a][i]

LEMMA KnownStays ==
  ASSUME NEW B, NEW C, Bindings(B), Bindings(C), Grown(B, C), NEW a \in Alias, NEW b, Known(B, a, b)
  PROVE  Known(C, a, b)
<1>1. Len(B[a]) \in Nat /\ Len(C[a]) \in Nat BY DEF Bindings
<1> QED BY <1>1 DEF Grown, Known

LEMMA AppendGrows ==
  ASSUME NEW B, Bindings(B), NEW a \in Alias, NEW e \in Entry, MaxGeneration \in Nat, Len(B[a]) < MaxGeneration,
         NEW C, C = [B EXCEPT ![a] = Append(B[a], e)]
  PROVE  Bindings(C) /\ Grown(B, C)
<1>1. B[a] \in Seq(Entry) /\ Len(B[a]) \in Nat BY DEF Bindings
<1>2. C[a] = Append(B[a], e) /\ \A b \in Alias : b # a => C[b] = B[b] BY DEF Bindings
<1>3. /\ Append(B[a], e) \in Seq(Entry) /\ Len(Append(B[a], e)) = Len(B[a]) + 1
      /\ Append(B[a], e)[Len(B[a]) + 1] = e
      /\ \A i \in 1 .. Len(B[a]) : Append(B[a], e)[i] = B[a][i]
  BY <1>1
<1>4. C \in [Alias -> Seq(Entry)] BY <1>3 DEF Bindings
<1>5. \A b \in Alias : Len(B[b]) \in Nat BY DEF Bindings
<1>6. \A b \in Alias : Len(C[b]) <= MaxGeneration BY <1>1, <1>2, <1>3 DEF Bindings
<1>7. Grown(B, C) BY <1>1, <1>2, <1>3, <1>5 DEF Grown
<1> QED BY <1>2, <1>3, <1>4, <1>6, <1>7 DEF Bindings

LEMMA SameGrows == ASSUME NEW B, Bindings(B) PROVE Grown(B, B)
<1>1. \A a \in Alias : Len(B[a]) \in Nat BY DEF Bindings
<1> QED BY <1>1 DEF Grown

(* The binding in force is the last one.                                    *)
LEMMA Current ==
  ASSUME RunAssumption, Bindings(bindings), NEW a \in Alias
  PROVE  /\ Generation(a) \in 0 .. MaxGeneration
         /\ Generation(a) > 0 => /\ Last(bindings[a]) = bindings[a][Generation(a)]
                                 /\ Last(bindings[a]) \in Entry
                                 /\ CurrentAsset(a) = bindings[a][Generation(a)].asset
                                 /\ CurrentAsset(a) \in Machine /\ CurrentAsset(a) # Nil
         /\ Generation(a) = 0 => CurrentAsset(a) = Nil
         /\ Resource(a) \in Machine \cup Alias
<1>1. bindings[a] \in Seq(Entry) /\ Len(bindings[a]) \in Nat /\ Len(bindings[a]) <= MaxGeneration
  BY DEF Bindings
<1>2. Generation(a) \in 0 .. MaxGeneration BY <1>1 DEF Generation, RunAssumption
<1>3. Last(bindings[a]) = bindings[a][Generation(a)] BY DEF Last, Generation
<1>4. Generation(a) > 0 => Last(bindings[a]) \in Entry BY <1>1, <1>3 DEF Generation
<1>5. Generation(a) > 0 => /\ CurrentAsset(a) = bindings[a][Generation(a)].asset
                           /\ CurrentAsset(a) \in Machine /\ CurrentAsset(a) # Nil
  BY <1>1, <1>3, <1>4 DEF CurrentAsset, Entry, RunAssumption, Generation
<1>6. Generation(a) = 0 => CurrentAsset(a) = Nil BY DEF CurrentAsset
<1>7. Resource(a) \in Machine \cup Alias BY <1>2, <1>5, <1>6 DEF Resource
<1> QED BY <1>2, <1>3, <1>4, <1>5, <1>6, <1>7

-----------------------------------------------------------------------------
(* What others do leaves a launch as it is                                  *)

LEMMA SoundStays ==
  ASSUME NEW B, NEW C, NEW L, NEW M, NEW r \in Launch, NEW t \in {Asleep} \cup Work \cup Over,
         Bindings(B), Bindings(C), Grown(B, C), \A l \in L : l.operation = r => l \in M,
         Sound(B, L, r, t)
  PROVE  Sound(C, M, r, t)
<1>1. CASE t = Asleep BY <1>1 DEF Asleep, Sound
<1>2. CASE t \in Work
  <2>1. t.step \in {"probing", "executing"} /\ t.captured \in Partial(Alias, Binding) BY <1>2 DEF Work
  <2>2. Nested(t) /\ Claims(B, t) /\ Collected(t) /\ Held(L, r, t) BY <2>1 DEF Sound
  <2>3. DOMAIN t.captured \subseteq Alias BY <2>1, PartialDomain
  <2>4. Claims(C, t) BY <2>2, <2>3, KnownStays DEF Claims
  <2>5. Held(M, r, t) BY <2>2 DEF Held
  <2> QED BY <2>1, <2>2, <2>4, <2>5 DEF Sound
<1>3. CASE t \in Over
  <2>1. t.step = "over" /\ t.captured \in Partial(Alias, Binding) BY <1>3 DEF Over
  <2>2. DOMAIN t.captured \subseteq Alias BY <2>1, PartialDomain
  <2>3. Published(B, t) BY <2>1 DEF Sound
  <2>4. Published(C, t) BY <2>2, <2>3, KnownStays DEF Published
  <2> QED BY <2>1, <2>4 DEF Sound
<1> QED BY <1>1, <1>2, <1>3

(* One launch takes a step, beside which bindings may grow and leases of    *)
(* its own come or go.                                                      *)
LEMMA OneMoves ==
  ASSUME IInv, NEW r \in Launch, NEW new \in {Asleep} \cup Work \cup Over, run' = [run EXCEPT ![r] = new],
         UNCHANGED <<listed, onDemand, trusted, answers>>,
         Bindings(bindings'), Grown(bindings, bindings'),
         leases' \subseteq Lease, \A l \in leases : l.operation # r => l \in leases',
         Sound(bindings', leases', r, new),
         \A s \in Launch \ {r} : InUse(new) /\ InUse(run[s]) =>
            Machines(new.captured) \cap Machines(run[s].captured) = {}
  PROVE  IInv'
<1>1. run \in [Launch -> {Asleep} \cup Work \cup Over] BY DEF IInv, Shapes
<1>2. run'[r] = new /\ \A s \in Launch : s # r => run'[s] = run[s] BY <1>1
<1>3. Shapes' BY <1>1 DEF IInv, Shapes, Asleep
<1>4. \A s \in Launch : Sound(bindings', leases', s, run'[s])
  <2>1. SUFFICES ASSUME NEW s \in Launch, s # r PROVE Sound(bindings', leases', s, run'[s]) BY <1>2
  <2>2. run[s] \in {Asleep} \cup Work \cup Over BY <1>1
  <2>3. Sound(bindings, leases, s, run[s]) /\ Bindings(bindings) BY DEF IInv
  <2>4. \A l \in leases : l.operation = s => l \in leases' BY <2>1
  <2>5. Sound(bindings', leases', s, run[s]) BY <2>2, <2>3, <2>4, SoundStays
  <2> QED BY <1>2, <2>1, <2>5
<1>5. Apart' BY <1>2 DEF IInv, Apart
<1> QED BY <1>3, <1>4, <1>5 DEF IInv

(* No launch moves; leases stay.                                            *)
LEMMA NoneMoves ==
  ASSUME IInv, UNCHANGED <<run, leases>>, Bindings(bindings'), Grown(bindings, bindings'),
         listed' \in [Alias -> Address \cup {Nil}], onDemand' \subseteq Alias,
         trusted' \in [Address -> SUBSET Machine], answers' \in [Address -> Machine]
  PROVE  IInv'
<1>1. Shapes' BY DEF IInv, Shapes, Asleep
<1>2. \A s \in Launch : Sound(bindings', leases', s, run'[s])
  <2>1. TAKE s \in Launch
  <2>2. run[s] \in {Asleep} \cup Work \cup Over BY DEF IInv, Shapes
  <2>3. Sound(bindings, leases, s, run[s]) /\ Bindings(bindings) BY DEF IInv
  <2>4. \A l \in leases : l.operation = s => l \in leases OBVIOUS
  <2>5. Sound(bindings', leases, s, run[s]) BY <2>2, <2>3, <2>4, SoundStays
  <2> QED BY <2>5
<1>3. Apart' BY DEF IInv, Apart
<1> QED BY <1>1, <1>2, <1>3 DEF IInv

(* A launch that is given up leaves nothing.                                *)
LEMMA AbortStep ==
  ASSUME IInv, NEW r \in Launch, Abort(r), UNCHANGED <<listed, onDemand, trusted, answers>>,
         Bindings(bindings'), Grown(bindings, bindings'), leases' = leases
  PROVE  IInv'
<1>1. PICK new : new = [step |-> "over", reports |-> <<>>, captured |-> <<>>] OBVIOUS
<1>2. new \in Over /\ ~ InUse(new) BY <1>1, NothingYet DEF Over, InUse
<1>3. run' = [run EXCEPT ![r] = new] BY <1>1 DEF Abort, Done
<1>4. Sound(bindings', leases', r, new) BY <1>1, NothingYet DEF Sound, Published
<1>5. leases' \subseteq Lease BY DEF IInv, Shapes
<1> QED BY <1>2, <1>3, <1>4, <1>5, OneMoves

-----------------------------------------------------------------------------
(* A launch                                                                 *)

LEMMA InitIInv == ASSUME RunAssumption, Init PROVE IInv
<1>1. Shapes
  <2>1. run \in [Launch -> {Asleep} \cup Work \cup Over] BY DEF Init
  <2> QED BY <2>1 DEF Init, Shapes
<1>2. Bindings(bindings)
  <2>1. <<>> \in Seq(Entry) /\ Len(<<>>) = 0 OBVIOUS
  <2> QED BY <2>1 DEF Init, Bindings, RunAssumption
<1>3. \A r \in Launch : run[r].step = "new" BY DEF Init, Asleep
<1>4. \A r \in Launch : Sound(bindings, leases, r, run[r]) BY <1>3 DEF Sound
<1>5. Apart BY <1>3 DEF Apart, InUse
<1> QED BY <1>1, <1>2, <1>4, <1>5 DEF IInv

LEMMA FrozenIs ==
  ASSUME IInv, NEW limit
  PROVE  Targets(limit) \subseteq Alias /\ Frozen(limit) \in Partial(Alias, Address)
         /\ DOMAIN Frozen(limit) = Targets(limit)
<1>1. Targets(limit) \in SUBSET Alias /\ \A a \in Targets(limit) : listed[a] \in Address
  BY DEF Targets, InInventory, IInv, Shapes
<1>2. Frozen(limit) \in [Targets(limit) -> Address] BY <1>1 DEF Frozen
<1> QED BY <1>1, <1>2, PartialIntro

LEMMA PreparedIs ==
  ASSUME IInv, NEW kind \in Kind, NEW limit
  PROVE  Prepared(kind, limit) \in Work
BY FrozenIs, NothingYet DEF Prepared, Work

(* A launch that awaits its first probe.                                    *)
LEMMA PreparedStep ==
  ASSUME IInv, NEW r \in Launch, NEW kind \in Kind \ {"scan"}, NEW limit,
         run' = [run EXCEPT ![r] = Prepared(kind, limit)],
         UNCHANGED <<settings, answers, bindings, leases>>
  PROVE  IInv'
<1>1. PICK new : new = Prepared(kind, limit) OBVIOUS
<1>2. new \in Work BY <1>1, PreparedIs
<1>3. new.step = "probing" /\ new.kind = kind /\ new.seen = Nil /\ new.captured = <<>> /\ new.reports = <<>>
  BY <1>1 DEF Prepared
<1>4. DOMAIN new.captured = {} /\ DOMAIN new.reports = {} BY <1>3, NothingYet
<1>5. Nested(new) /\ Claims(bindings, new) /\ Collected(new) /\ ~ InUse(new)
  BY <1>3, <1>4 DEF Nested, Claims, Collected, InUse
<1>6. Sound(bindings, leases, r, new) BY <1>3, <1>5 DEF Sound, Held
<1>7. UNCHANGED <<listed, onDemand, trusted, answers, bindings, leases>> BY DEF settings
<1>8. Bindings(bindings) /\ Grown(bindings, bindings) /\ leases \subseteq Lease
  BY SameGrows DEF IInv, Shapes
<1> QED BY <1>1, <1>2, <1>5, <1>6, <1>7, <1>8, OneMoves

(* The leases of a launch are for its targets, one for each asset.          *)
LEMMA LeasesForIs ==
  ASSUME RunAssumption, IInv, NEW r \in Launch, NEW captured, DOMAIN captured \subseteq Alias
  PROVE  /\ LeasesFor(r, captured) \subseteq Lease
         /\ \A l \in LeasesFor(r, captured) : l.operation = r
         /\ \A a \in DOMAIN captured : \E l \in LeasesFor(r, captured) : l.operation = r /\ l.resource = Resource(a)
<1>1. \A a \in DOMAIN captured : Resource(a) \in Machine \cup Alias BY Current DEF IInv
<1>2. \A x \in {Resource(a) : a \in DOMAIN captured} :
        (CHOOSE a \in DOMAIN captured : Resource(a) = x) \in DOMAIN captured
  OBVIOUS
<1>3. LeasesFor(r, captured) \subseteq Lease
  <2>1. SUFFICES ASSUME NEW x \in {Resource(a) : a \in DOMAIN captured}
                 PROVE  [resource |-> x, alias |-> CHOOSE a \in DOMAIN captured : Resource(a) = x,
                         operation |-> r] \in Lease
    BY DEF LeasesFor
  <2>2. x \in Machine \cup Alias BY <1>1
  <2>3. (CHOOSE a \in DOMAIN captured : Resource(a) = x) \in Alias BY <1>2
  <2> QED BY <2>2, <2>3 DEF Lease
<1>4. \A l \in LeasesFor(r, captured) : l.operation = r BY DEF LeasesFor
<1>5. ASSUME NEW a \in DOMAIN captured
      PROVE  \E l \in LeasesFor(r, captured) : l.operation = r /\ l.resource = Resource(a)
  <2>1. PICK l : l = [resource |-> Resource(a),
                      alias |-> CHOOSE b \in DOMAIN captured : Resource(b) = Resource(a), operation |-> r]
    OBVIOUS
  <2>2. l \in LeasesFor(r, captured) BY <2>1 DEF LeasesFor
  <2>3. l.operation = r /\ l.resource = Resource(a) BY <2>1
  <2> QED BY <2>2, <2>3
<1> QED BY <1>3, <1>4, <1>5

LEMMA ScanStep ==
  ASSUME RunAssumption, IInv, NEW r \in Launch, NEW limit, RunNetworkScan(r, limit)
  PROVE  IInv'
<1>1. PICK captured : captured = [a \in Targets(limit) |-> NetworkBinding(a, listed[a])] OBVIOUS
<1>2. PICK new : new = [Prepared("scan", limit) EXCEPT !.step = "executing", !.captured = captured] OBVIOUS
<1>3. Targets(limit) \in SUBSET Alias /\ DOMAIN captured = Targets(limit) BY <1>1, FrozenIs
<1>4. \A a \in Targets(limit) : captured[a] \in Binding /\ captured[a].status = "unknown"
  <2>1. TAKE a \in Targets(limit)
  <2>2. listed[a] \in Address BY DEF Targets, InInventory, IInv, Shapes
  <2>3. Generation(a) \in 0 .. MaxGeneration BY <1>3, Current DEF IInv
  <2>4. captured[a] = NetworkBinding(a, listed[a]) BY <1>1
  <2> QED BY <2>2, <2>3, <2>4 DEF NetworkBinding, Binding
<1>5. captured \in Partial(Alias, Binding)
  <2>1. captured \in [Targets(limit) -> Binding] BY <1>1, <1>4
  <2> QED BY <1>3, <2>1, PartialIntro
<1>6. Prepared("scan", limit) \in Work BY PreparedIs DEF Kind
<1>7. new \in Work BY <1>2, <1>5, <1>6 DEF Work
<1>8. /\ new.step = "executing" /\ new.kind = "scan" /\ new.captured = captured
      /\ new.seen = Nil /\ new.reports = <<>> /\ new.frozen = Frozen(limit)
  BY <1>2, <1>6 DEF Work, Prepared
<1>9. DOMAIN new.reports = {} BY <1>8, NothingYet
<1>10. Nested(new) /\ Claims(bindings, new) /\ Collected(new) /\ ~ InUse(new)
  BY <1>3, <1>4, <1>8, <1>9, FrozenIs DEF Nested, Claims, Collected, InUse
<1>11. Sound(bindings, leases', r, new) BY <1>8, <1>10 DEF Sound, Held
<1>12. /\ run' = [run EXCEPT ![r] = new]
       /\ leases' = leases \cup LeasesFor(r, captured)
       /\ UNCHANGED <<listed, onDemand, trusted, answers, bindings>>
  BY <1>1, <1>2 DEF RunNetworkScan, settings
<1>13. leases' \subseteq Lease BY <1>3, <1>12, LeasesForIs DEF IInv, Shapes
<1>14. Bindings(bindings) /\ Grown(bindings, bindings) BY SameGrows DEF IInv
<1> QED BY <1>7, <1>10, <1>11, <1>12, <1>13, <1>14, OneMoves

LEMMA AtWork ==
  ASSUME IInv, NEW r \in Launch, run[r].step \in {"probing", "executing"}
  PROVE  /\ run[r] \in Work
         /\ Nested(run[r]) /\ Claims(bindings, run[r]) /\ Collected(run[r]) /\ Held(leases, r, run[r])
<1>1. run[r] \in {Asleep} \cup Work \cup Over BY DEF IInv, Shapes
<1>2. run[r] \in Work BY <1>1 DEF Asleep, Over
<1>3. Sound(bindings, leases, r, run[r]) BY DEF IInv
<1> QED BY <1>2, <1>3 DEF Sound

LEMMA ProbeStep ==
  ASSUME IInv, NEW r \in Launch, NEW a \in Alias, ProbeTrustedAssetIdentity(r, a)
  PROVE  IInv'
<1>1. PICK m : m = answers[run[r].frozen[a]] OBVIOUS
<1>2. run[r].step = "probing" /\ a \in DOMAIN run[r].frozen BY DEF ProbeTrustedAssetIdentity, At
<1>3. run[r] \in Work /\ Nested(run[r]) /\ Claims(bindings, run[r]) /\ Collected(run[r]) BY <1>2, AtWork
<1>4. m \in Machine
  <2>1. run[r].frozen \in Partial(Alias, Address) BY <1>3 DEF Work
  <2>2. run[r].frozen[a] \in Address BY <1>2, <2>1, PartialDomain
  <2> QED BY <1>1, <2>2 DEF IInv, Shapes
<1>5. UNCHANGED <<listed, onDemand, trusted, answers, bindings, leases>>
  BY DEF ProbeTrustedAssetIdentity, settings
<1>6. Bindings(bindings) /\ Grown(bindings, bindings) /\ leases \subseteq Lease
  BY SameGrows DEF IInv, Shapes
<1>7. CASE Abort(r) BY <1>5, <1>6, <1>7, AbortStep
<1>8. CASE run' = [run EXCEPT ![r].seen = [alias |-> a, machine |-> m]]
  <2>1. PICK new : new = [run[r] EXCEPT !.seen = [alias |-> a, machine |-> m]] OBVIOUS
  <2>2. new \in Work BY <1>3, <1>4, <2>1 DEF Work
  <2>3. /\ new.step = "probing" /\ new.seen.alias = a /\ new.kind = run[r].kind /\ new.frozen = run[r].frozen
        /\ new.captured = run[r].captured /\ new.pins = run[r].pins /\ new.reports = run[r].reports
    BY <1>2, <1>3, <2>1 DEF Work
  <2>4. Nested(new) BY <1>2, <1>3, <2>3 DEF Nested
  <2>5. Claims(bindings, new) /\ Collected(new) /\ ~ InUse(new) BY <1>3, <2>3 DEF Claims, Collected, InUse
  <2>6. Sound(bindings, leases, r, new) BY <2>3, <2>4, <2>5 DEF Sound, Held
  <2>7. run' = [run EXCEPT ![r] = new] BY <1>8, <2>1
  <2> QED BY <1>5, <1>6, <2>2, <2>5, <2>6, <2>7, OneMoves
<1> QED BY <1>1, <1>7, <1>8 DEF ProbeTrustedAssetIdentity

(* Recording an observation adds a binding or finds the one that is there.  *)
LEMMA RecordedIs ==
  ASSUME RunAssumption, Bindings(bindings), NEW a \in Alias, NEW m \in Machine, NEW x \in Address,
         Recorded(a, m, x) # bindings => Generation(a) < MaxGeneration,
         NEW C, C = Recorded(a, m, x)
  PROVE  /\ Bindings(C) /\ Grown(bindings, C)
         /\ Len(C[a]) \in 1 .. MaxGeneration
         /\ C[a][Len(C[a])] = [asset |-> m, connection |-> x]
<1>1. PICK e : e = [asset |-> m, connection |-> x] OBVIOUS
<1>2. e \in Entry BY <1>1 DEF Entry
<1>3. MaxGeneration \in Nat BY DEF RunAssumption
<1>4. Generation(a) = Len(bindings[a]) /\ Generation(a) \in 0 .. MaxGeneration BY Current DEF Generation
<1>5. CASE Generation(a) > 0 /\ Last(bindings[a]) = e
  <2>1. C = bindings BY <1>1, <1>5 DEF Recorded
  <2>2. Last(bindings[a]) = bindings[a][Len(bindings[a])] BY DEF Last
  <2> QED BY <1>1, <1>3, <1>4, <1>5, <2>1, <2>2, SameGrows
<1>6. CASE ~ (Generation(a) > 0 /\ Last(bindings[a]) = e)
  <2>1. C = [bindings EXCEPT ![a] = Append(bindings[a], e)] BY <1>1, <1>6 DEF Recorded
  <2>2. C # bindings
    <3>1. SUFFICES ASSUME C = bindings PROVE FALSE OBVIOUS
    <3>2. bindings[a] \in Seq(Entry) BY DEF Bindings
    <3>3. bindings[a] = Append(bindings[a], e) BY <2>1, <3>1 DEF Bindings
    <3>4. Len(Append(bindings[a], e)) = Len(bindings[a]) + 1 /\ Len(bindings[a]) \in Nat BY <3>2
    <3> QED BY <3>3, <3>4
  <2>3. Len(bindings[a]) < MaxGeneration BY <1>4, <2>2
  <2>4. Bindings(C) /\ Grown(bindings, C)
    BY ONLY Bindings(bindings), a \in Alias, <1>2, <1>3, <2>1, <2>3, AppendGrows
  <2>5. bindings[a] \in Seq(Entry) /\ C[a] = Append(bindings[a], e) BY <2>1 DEF Bindings
  <2>6. Len(C[a]) = Len(bindings[a]) + 1 /\ C[a][Len(C[a])] = e BY <1>2, <2>5
  <2> QED BY <1>1, <1>3, <1>4, <2>3, <2>4, <2>6
<1> QED BY <1>5, <1>6

(* What a probing launch holds after it has captured one more target.       *)
LEMMA CaptureKeeps ==
  ASSUME IInv, NEW r \in Launch, NEW t, t = run[r], t.step = "probing",
         NEW a \in DOMAIN t.frozen, NEW m \in Machine, NEW x, x = t.frozen[a], SameKey(t.pins, x, m),
         NEW C, Bindings(C), Grown(bindings, C),
         NEW b \in Binding, b.status = "verified", b.asset = m, Known(C, a, b),
         NEW new, new = [t EXCEPT !.seen = Nil, !.pins = Extend(t.pins, x, m),
                                  !.captured = Extend(t.captured, a, b)]
  PROVE  new \in Work /\ ~ InUse(new) /\ \A L : Sound(C, L, r, new)
<1>1. t \in Work /\ Nested(t) /\ Claims(bindings, t) BY AtWork
<1>2. /\ t.frozen \in Partial(Alias, Address) /\ t.captured \in Partial(Alias, Binding)
      /\ t.pins \in Partial(Address, Machine)
  BY <1>1 DEF Work
<1>3. a \in Alias /\ x \in Address BY <1>2, PartialDomain
<1>4. PICK pins, captured : pins = Extend(t.pins, x, m) /\ captured = Extend(t.captured, a, b) OBVIOUS
<1>5. pins \in Partial(Address, Machine) /\ captured \in Partial(Alias, Binding)
  BY <1>2, <1>3, <1>4, ExtendPartial
<1>6. new = [t EXCEPT !.seen = Nil, !.pins = pins, !.captured = captured] BY <1>4
<1>7. new \in Work BY <1>1, <1>5, <1>6 DEF Work
<1>8. /\ new.step = "probing" /\ new.kind = t.kind /\ new.frozen = t.frozen /\ new.captured = captured
      /\ new.pins = pins /\ new.seen = Nil /\ new.reports = t.reports
  BY <1>1, <1>6 DEF Work
<1>9. /\ DOMAIN captured = DOMAIN t.captured \cup {a} /\ captured[a] = b
      /\ \A c \in DOMAIN t.captured : c # a => captured[c] = t.captured[c]
      /\ DOMAIN pins = DOMAIN t.pins \cup {x} /\ pins[x] = m
      /\ \A y \in DOMAIN t.pins : y # x => pins[y] = t.pins[y]
  BY ONLY <1>4 DEF Extend
<1>10. Nested(new) BY <1>1, <1>8, <1>9 DEF Nested
<1>11. \A y \in DOMAIN t.pins : pins[y] = t.pins[y] BY <1>9 DEF SameKey
<1>12. t.kind # "scan" BY <1>1 DEF Nested
<1>13. Claims(C, new)
  <2>1. SUFFICES ASSUME NEW c \in DOMAIN captured
                 PROVE  /\ captured[c].status = "verified" /\ Known(C, c, captured[c])
                        /\ t.frozen[c] \in DOMAIN pins /\ pins[t.frozen[c]] = captured[c].asset
    BY <1>8, <1>12 DEF Claims
  <2>2. CASE c = a BY <1>9, <2>2
  <2>3. CASE c # a
    <3>1. c \in DOMAIN t.captured /\ captured[c] = t.captured[c] BY <1>9, <2>3
    <3>2. /\ t.captured[c].status = "verified" /\ Known(bindings, c, t.captured[c])
          /\ t.frozen[c] \in DOMAIN t.pins /\ t.pins[t.frozen[c]] = t.captured[c].asset
      BY <1>1, <1>12, <3>1 DEF Claims
    <3>3. c \in Alias BY <1>2, <3>1, PartialDomain
    <3>4. Known(C, c, t.captured[c]) BY <3>2, <3>3, KnownStays DEF IInv
    <3> QED BY <1>9, <1>11, <3>1, <3>2, <3>4
  <2> QED BY <2>2, <2>3
<1>14. Collected(new) /\ ~ InUse(new)
  <2>1. DOMAIN t.reports = {} BY <1>1 DEF Nested
  <2> QED BY <1>8, <2>1 DEF Collected, InUse
<1>15. \A L : Sound(C, L, r, new) BY <1>8, <1>10, <1>13, <1>14 DEF Sound, Held
<1> QED BY <1>7, <1>14, <1>15

LEMMA CaptureStep ==
  ASSUME RunAssumption, IInv, NEW r \in Launch, CaptureAssetTarget(r)
  PROVE  IInv'
<1>1. PICK t : t = run[r] OBVIOUS
<1>2. PICK a, m : a = t.seen.alias /\ m = t.seen.machine OBVIOUS
<1>3. PICK x : x = t.frozen[a] OBVIOUS
<1>4. t.step = "probing" /\ t.seen # Nil BY <1>1 DEF CaptureAssetTarget, At
<1>5. t \in Work /\ Nested(t) BY <1>1, <1>4, AtWork
<1>6. a \in DOMAIN t.frozen BY <1>2, <1>4, <1>5 DEF Nested
<1>7. a \in Alias /\ x \in Address
  <2>1. t.frozen \in Partial(Alias, Address) BY <1>5 DEF Work
  <2> QED BY <1>3, <1>6, <2>1, PartialDomain
<1>8. m \in Machine BY <1>2, <1>4, <1>5 DEF Work
<1>9. UNCHANGED <<listed, onDemand, trusted, answers, leases>> BY DEF CaptureAssetTarget, settings
<1>10. CASE ~ Recordable(a, m, x)
  <2>1. Abort(r) /\ bindings' = bindings BY <1>1, <1>2, <1>3, <1>10 DEF CaptureAssetTarget
  <2> QED BY <1>9, <2>1, AbortStep, SameGrows DEF IInv
<1>11. CASE Recordable(a, m, x)
  <2>1. PICK C : C = Recorded(a, m, x) OBVIOUS
  <2>2. bindings' = C /\ (C # bindings => Generation(a) < MaxGeneration)
    BY <1>1, <1>2, <1>3, <1>11, <2>1 DEF CaptureAssetTarget
  <2>3. /\ Bindings(C) /\ Grown(bindings, C) /\ Len(C[a]) \in 1 .. MaxGeneration
        /\ C[a][Len(C[a])] = [asset |-> m, connection |-> x]
    BY <1>7, <1>8, <2>1, <2>2, RecordedIs DEF IInv
  <2>4. CASE ~ SameKey(t.pins, x, m)
    <3>1. Abort(r) BY <1>1, <1>2, <1>3, <1>11, <2>4 DEF CaptureAssetTarget
    <3> QED BY <1>9, <2>2, <2>3, <3>1, AbortStep
  <2>5. CASE SameKey(t.pins, x, m)
    <3>1. PICK b : b = [status |-> "verified", generation |-> Len(C[a]), asset |-> m, connection |-> x] OBVIOUS
    <3>2. b \in Binding BY <1>7, <1>8, <2>3, <3>1 DEF Binding
    <3>3. b.status = "verified" /\ b.asset = m /\ b.generation = Len(C[a]) /\ b.connection = x BY <3>1
    <3>4. Known(C, a, b)
      <4>1. Len(C[a]) \in Nat BY <1>7, <2>3 DEF Bindings
      <4> QED BY <2>3, <3>3, <4>1 DEF Known
    <3>5. PICK new : new = [t EXCEPT !.seen = Nil, !.pins = Extend(t.pins, x, m),
                                     !.captured = Extend(t.captured, a, b)]
      OBVIOUS
    <3>6. run' = [run EXCEPT ![r] = new]
      BY <1>1, <1>2, <1>3, <1>11, <2>2, <2>5, <3>1, <3>5 DEF CaptureAssetTarget
    <3>7. new \in Work /\ ~ InUse(new) /\ \A L : Sound(C, L, r, new)
      BY ONLY IInv, r \in Launch, <1>1, <1>3, <1>4, <1>6, <1>8, <2>3, <2>5, <3>2, <3>3, <3>4, <3>5, CaptureKeeps
    <3>8. leases' \subseteq Lease BY <1>9 DEF IInv, Shapes
    <3> QED BY <1>9, <2>2, <2>3, <3>6, <3>7, <3>8, OneMoves
  <2> QED BY <2>4, <2>5
<1> QED BY <1>10, <1>11

(* A binding that is still current is the one of the machine in force.      *)
LEMMA CurrentIsClaimed ==
  ASSUME RunAssumption, IInv, NEW a \in Alias, NEW b, b.status = "verified", Known(bindings, a, b),
         StillCurrent(a, b)
  PROVE  Resource(a) = b.asset
<1>1. Generation(a) = b.generation /\ Last(bindings[a]) = [asset |-> b.asset, connection |-> b.connection]
  BY DEF StillCurrent
<1>2. Len(bindings[a]) \in Nat BY DEF IInv, Bindings
<1>3. Generation(a) > 0 BY <1>1, <1>2 DEF Known, Generation
<1>4. CurrentAsset(a) # Nil /\ CurrentAsset(a) = Last(bindings[a]).asset
  BY <1>3, Current DEF IInv
<1> QED BY <1>1, <1>4 DEF Resource

LEMMA AcquireStep ==
  ASSUME RunAssumption, IInv, NEW r \in Launch, AcquireAssetExecution(r)
  PROVE  IInv'
<1>1. PICK t : t = run[r] OBVIOUS
<1>2. t.step = "probing" /\ DOMAIN t.captured = DOMAIN t.frozen BY <1>1 DEF AcquireAssetExecution, At
<1>3. t \in Work /\ Nested(t) /\ Claims(bindings, t) /\ Collected(t) BY <1>1, <1>2, AtWork
<1>4. UNCHANGED <<listed, onDemand, trusted, answers, bindings>> BY DEF AcquireAssetExecution, settings
<1>5. Bindings(bindings) /\ Grown(bindings, bindings) /\ leases \subseteq Lease
  BY SameGrows DEF IInv, Shapes
<1>6. PICK runtime : runtime = SelectAnsibleRuntime(t.captured) OBVIOUS
<1>7. CASE ~ (runtime # Nil /\ Acquirable(t.captured))
  <2>1. Abort(r) /\ leases' = leases BY <1>1, <1>6, <1>7 DEF AcquireAssetExecution
  <2> QED BY <1>4, <1>5, <2>1, AbortStep
<1>8. CASE runtime # Nil /\ Acquirable(t.captured)
  <2>1. PICK new : new = [t EXCEPT !.step = "executing", !.runtime = runtime] OBVIOUS
  <2>2. run' = [run EXCEPT ![r] = new] /\ leases' = leases \cup LeasesFor(r, t.captured)
    BY <1>1, <1>6, <1>8, <2>1 DEF AcquireAssetExecution
  <2>3. runtime \in {"modern", "legacy"} /\ Machines(t.captured) \subseteq Supports[runtime]
    BY <1>6, <1>8 DEF SelectAnsibleRuntime, Suits
  <2>4. new \in Work BY <1>3, <2>1, <2>3 DEF Work
  <2>5. /\ new.step = "executing" /\ new.runtime = runtime /\ new.kind = t.kind /\ new.frozen = t.frozen
        /\ new.captured = t.captured /\ new.pins = t.pins /\ new.seen = t.seen /\ new.reports = t.reports
    BY <1>3, <2>1 DEF Work
  <2>6. DOMAIN t.captured \subseteq Alias
    <3>1. t.captured \in Partial(Alias, Binding) BY <1>3 DEF Work
    <3> QED BY <3>1, PartialDomain
  <2>7. t.kind # "scan" BY <1>2, <1>3 DEF Nested
  <2>8. \A a \in DOMAIN t.captured : Resource(a) = t.captured[a].asset
    <3>1. TAKE a \in DOMAIN t.captured
    <3>2. t.captured[a].status = "verified" /\ Known(bindings, a, t.captured[a]) BY <1>3, <2>7 DEF Claims
    <3>3. StillCurrent(a, t.captured[a]) BY <1>8 DEF Acquirable
    <3> QED BY <2>6, <3>2, <3>3, CurrentIsClaimed
  <2>9. \A m \in Machines(t.captured) : \E l \in leases' : l.operation = r /\ l.resource = m
    <3>1. TAKE m \in Machines(t.captured)
    <3>2. PICK a \in DOMAIN t.captured : m = t.captured[a].asset BY DEF Machines
    <3>3. \E l \in LeasesFor(r, t.captured) : l.operation = r /\ l.resource = Resource(a)
      BY <2>6, LeasesForIs
    <3> QED BY <2>2, <2>8, <3>2, <3>3
  <2>10. Sound(bindings, leases', r, new)
    <3>1. Nested(new) BY <1>2, <1>3, <2>5 DEF Nested
    <3>2. Claims(bindings, new) /\ Collected(new) BY <1>3, <2>5 DEF Claims, Collected
    <3>3. Held(leases', r, new) BY <2>3, <2>5, <2>9 DEF Held
    <3> QED BY <2>5, <3>1, <3>2, <3>3 DEF Sound
  <2>11. ASSUME NEW s \in Launch \ {r}, InUse(run[s])
         PROVE  Machines(new.captured) \cap Machines(run[s].captured) = {}
    <3>1. Held(leases, s, run[s]) BY <2>11, AtWork DEF InUse
    <3>2. \A m \in Machines(run[s].captured) : \E l \in leases : l.resource = m
      BY <2>11, <3>1 DEF Held
    <3>3. \A a \in DOMAIN t.captured : \A l \in leases : l.resource # Resource(a) BY <1>8 DEF Acquirable
    <3>4. \A m \in Machines(t.captured) : \A l \in leases : l.resource # m BY <2>8, <3>3 DEF Machines
    <3> QED BY <2>5, <3>2, <3>4
  <2>12. leases' \subseteq Lease BY <1>5, <2>2, <2>6, LeasesForIs
  <2> QED BY <1>4, <1>5, <2>2, <2>4, <2>10, <2>11, <2>12, OneMoves
<1> QED BY <1>7, <1>8

(* A report is of the machine that the claimed key belongs to.              *)
LEMMA CollectStep ==
  ASSUME IInv, NEW r \in Launch, NEW a \in Alias, CollectReport(r, a)
  PROVE  IInv'
<1>1. PICK t : t = run[r] OBVIOUS
<1>2. PICK m : m = answers[t.frozen[a]] OBVIOUS
<1>3. t.step = "executing" /\ a \in DOMAIN t.frozen \ DOMAIN t.reports /\ Reachable(r, t.frozen[a])
  BY <1>1 DEF CollectReport, At
<1>4. t \in Work /\ Nested(t) /\ Claims(bindings, t) /\ Collected(t) /\ Held(leases, r, t)
  BY <1>1, <1>3, AtWork
<1>5. m \in Machine
  <2>1. t.frozen \in Partial(Alias, Address) BY <1>4 DEF Work
  <2>2. t.frozen[a] \in Address BY <1>3, <2>1, PartialDomain
  <2> QED BY <1>2, <2>2 DEF IInv, Shapes
<1>6. PICK reports : reports = Extend(t.reports, a, m) OBVIOUS
<1>7. reports \in Partial(Alias, Machine)
  <2>1. t.reports \in Partial(Alias, Machine) BY <1>4 DEF Work
  <2> QED BY <1>5, <1>6, <2>1, ExtendPartial
<1>8. PICK new : new = [t EXCEPT !.reports = reports] OBVIOUS
<1>9. new \in Work BY <1>4, <1>7, <1>8 DEF Work
<1>10. /\ new.step = "executing" /\ new.runtime = t.runtime /\ new.kind = t.kind /\ new.frozen = t.frozen
       /\ new.captured = t.captured /\ new.pins = t.pins /\ new.seen = t.seen /\ new.reports = reports
  BY <1>3, <1>4, <1>8 DEF Work
<1>11. /\ DOMAIN reports = DOMAIN t.reports \cup {a} /\ reports[a] = m
       /\ \A c \in DOMAIN t.reports : c # a => reports[c] = t.reports[c]
  BY ONLY <1>6 DEF Extend
<1>12. Nested(new) BY <1>3, <1>4, <1>10, <1>11 DEF Nested
<1>13. Claims(bindings, new) /\ Held(leases, r, new) BY <1>3, <1>4, <1>10 DEF Claims, Held, InUse
<1>14. Collected(new)
  <2>1. t.kind # "scan" => m = t.captured[a].asset
    <3>1. SUFFICES ASSUME t.kind # "scan" PROVE m = t.captured[a].asset OBVIOUS
    <3>2. a \in DOMAIN t.captured BY <1>3, <1>4 DEF Nested
    <3>3. t.pins[t.frozen[a]] = t.captured[a].asset BY <1>4, <3>1, <3>2 DEF Claims
    <3>4. m = t.pins[t.frozen[a]] BY <1>1, <1>2, <1>3, <3>1 DEF Reachable
    <3> QED BY <3>3, <3>4
  <2> QED BY <1>3, <1>4, <1>10, <1>11, <2>1 DEF Collected
<1>15. Sound(bindings, leases, r, new) BY <1>10, <1>12, <1>13, <1>14 DEF Sound
<1>16. run' = [run EXCEPT ![r] = new] /\ UNCHANGED <<listed, onDemand, trusted, answers, bindings, leases>>
  BY <1>1, <1>2, <1>6, <1>8 DEF CollectReport, settings
<1>17. Bindings(bindings) /\ Grown(bindings, bindings) /\ leases \subseteq Lease
  BY SameGrows DEF IInv, Shapes
<1>18. \A s \in Launch \ {r} : InUse(new) /\ InUse(run[s]) =>
         Machines(new.captured) \cap Machines(run[s].captured) = {}
  BY <1>1, <1>3, <1>10 DEF IInv, Apart, InUse
<1> QED BY <1>9, <1>15, <1>16, <1>17, <1>18, OneMoves

(* What a run publishes is what it collected, under the bindings captured.  *)
LEMMA FinishStep ==
  ASSUME IInv, NEW r \in Launch, Finish(r)
  PROVE  IInv'
<1>1. PICK t : t = run[r] OBVIOUS
<1>2. t.step = "executing" BY <1>1 DEF Finish, At
<1>3. t \in Work /\ Nested(t) /\ Claims(bindings, t) /\ Collected(t) BY <1>1, <1>2, AtWork
<1>4. PICK captured : captured = PublishCapturedAssetReports(t) OBVIOUS
<1>5. PICK new : new = [step |-> "over", reports |-> t.reports, captured |-> captured] OBVIOUS
<1>6. run' = [run EXCEPT ![r] = new] BY <1>1, <1>4, <1>5 DEF Finish, Done
<1>7. /\ t.frozen \in Partial(Alias, Address) /\ t.captured \in Partial(Alias, Binding)
      /\ t.reports \in Partial(Alias, Machine)
  BY <1>3 DEF Work
<1>8. DOMAIN t.reports \subseteq DOMAIN t.captured BY <1>2, <1>3 DEF Nested
<1>9. /\ DOMAIN captured = DOMAIN t.reports
      /\ \A a \in DOMAIN t.reports : captured[a] = t.captured[a]
  BY ONLY <1>4 DEF PublishCapturedAssetReports
<1>10. captured \in Partial(Alias, Binding)
  <2>1. \A a \in DOMAIN t.captured : t.captured[a] \in Binding BY <1>7, PartialDomain
  <2>2. DOMAIN t.reports \in SUBSET Alias BY <1>7, PartialDomain
  <2>3. captured \in [DOMAIN t.reports -> Binding] BY <1>4, <1>8, <2>1 DEF PublishCapturedAssetReports
  <2> QED BY <2>2, <2>3, PartialIntro
<1>11. new \in Over /\ new.step = "over" /\ new.reports = t.reports /\ new.captured = captured
  BY <1>5, <1>7, <1>10 DEF Over
<1>12. Published(bindings, new)
  <2>1. ASSUME NEW a \in DOMAIN t.reports, t.captured[a].status = "verified"
        PROVE  t.captured[a].asset = t.reports[a] /\ Known(bindings, a, t.captured[a])
    <3>1. a \in DOMAIN t.captured BY <1>8
    <3>2. t.kind # "scan" BY <1>3, <2>1, <3>1 DEF Claims
    <3> QED BY <1>3, <2>1, <3>1, <3>2 DEF Claims, Collected
  <2> QED BY <1>9, <1>11, <2>1 DEF Published
<1>13. Sound(bindings, leases', r, new) BY <1>11, <1>12 DEF Sound
<1>14. UNCHANGED <<listed, onDemand, trusted, answers, bindings>> BY DEF Finish, settings
<1>15. leases' = {l \in leases : l.operation # r} BY DEF Finish, Release
<1>16. leases' \subseteq Lease BY <1>15 DEF IInv, Shapes
<1>17. Bindings(bindings) /\ Grown(bindings, bindings) BY SameGrows DEF IInv
<1>18. ~ InUse(new) BY <1>11 DEF InUse
<1> QED BY <1>6, <1>11, <1>13, <1>14, <1>15, <1>16, <1>17, <1>18, OneMoves

-----------------------------------------------------------------------------
(* Operators and the network                                                *)

LEMMA EditHostStep == ASSUME IInv, NEW a \in Alias, NEW x \in Address, EditHost(a, x) PROVE IInv'
<1>1. UNCHANGED <<onDemand, trusted, answers, bindings, leases, run>> BY DEF EditHost
<1>2. listed' \in [Alias -> Address \cup {Nil}] BY DEF EditHost, IInv, Shapes
<1>3. Bindings(bindings') /\ Grown(bindings, bindings') BY <1>1, SameGrows DEF IInv
<1>4. UNCHANGED <<run, leases>> BY <1>1
<1>5. onDemand' \subseteq Alias /\ trusted' \in [Address -> SUBSET Machine] /\ answers' \in [Address -> Machine]
  BY <1>1 DEF IInv, Shapes
<1> QED BY <1>2, <1>3, <1>4, <1>5, NoneMoves

LEMMA ReplaceStep == ASSUME IInv, NEW x \in Address, NEW m \in Machine, Replace(x, m) PROVE IInv'
<1>1. UNCHANGED <<listed, onDemand, trusted, bindings, leases, run>> BY DEF Replace, settings
<1>2. answers' \in [Address -> Machine] BY DEF Replace, IInv, Shapes
<1>3. Bindings(bindings') /\ Grown(bindings, bindings') BY <1>1, SameGrows DEF IInv
<1>4. UNCHANGED <<run, leases>> BY <1>1
<1>5. listed' \in [Alias -> Address \cup {Nil}] /\ onDemand' \subseteq Alias /\ trusted' \in [Address -> SUBSET Machine]
  BY <1>1 DEF IInv, Shapes
<1> QED BY <1>2, <1>3, <1>4, <1>5, NoneMoves

(* Old bindings stay below the new one.                                     *)
LEMMA RebindStep == ASSUME RunAssumption, IInv, NEW a \in Alias, Rebind(a) PROVE IInv'
<1>1. PICK e : e = [asset |-> answers[listed[a]], connection |-> listed[a]] OBVIOUS
<1>2. listed[a] \in Address BY DEF Rebind, IInv, Shapes
<1>3. e \in Entry BY <1>1, <1>2 DEF Entry, IInv, Shapes
<1>4. Bindings(bindings) /\ MaxGeneration \in Nat /\ Len(bindings[a]) \in Nat
  BY DEF IInv, Bindings, RunAssumption
<1>5. Len(bindings[a]) < MaxGeneration BY <1>4 DEF Rebind, Generation
<1>6. PICK C : C = [bindings EXCEPT ![a] = Append(bindings[a], e)] OBVIOUS
<1>7. bindings' = C BY <1>1, <1>6 DEF Rebind
<1>8. Bindings(C) /\ Grown(bindings, C)
  BY ONLY a \in Alias, <1>3, <1>4, <1>5, <1>6, AppendGrows
<1>9. UNCHANGED <<listed, onDemand, trusted, answers, leases, run>> BY DEF Rebind, settings
<1>10. /\ listed' \in [Alias -> Address \cup {Nil}] /\ onDemand' \subseteq Alias
       /\ trusted' \in [Address -> SUBSET Machine] /\ answers' \in [Address -> Machine]
  BY <1>9 DEF IInv, Shapes
<1>11. UNCHANGED <<run, leases>> BY <1>9
<1> QED BY <1>7, <1>8, <1>10, <1>11, NoneMoves

(* A restart ends every run and forgets what it collected.                  *)
LEMMA RestartStep == ASSUME IInv, Restart PROVE IInv'
<1>1. PICK lost : lost = [step |-> "over", reports |-> <<>>, captured |-> <<>>] OBVIOUS
<1>2. run' = [r \in Launch |-> IF run[r].step \in {"probing", "executing"} THEN lost ELSE run[r]]
  BY <1>1 DEF Restart
<1>3. lost \in Over /\ lost.step = "over" BY <1>1, NothingYet DEF Over
<1>4. UNCHANGED <<listed, onDemand, trusted, answers, bindings>> /\ leases' = {} BY DEF Restart, settings
<1>5. run \in [Launch -> {Asleep} \cup Work \cup Over] BY DEF IInv, Shapes
<1>6. Shapes' BY <1>2, <1>3, <1>4, <1>5 DEF IInv, Shapes, Asleep
<1>7. \A B, L, r : Sound(B, L, r, lost) BY <1>1, NothingYet DEF Sound, Published
<1>8. \A r \in Launch : Sound(bindings, {}, r, run'[r])
  <2>1. TAKE r \in Launch
  <2>2. CASE run[r].step \in {"probing", "executing"} BY <1>2, <1>7, <2>2
  <2>3. CASE run[r].step \notin {"probing", "executing"}
    <3>1. run'[r] = run[r] BY <1>2, <2>3
    <3>2. Sound(bindings, leases, r, run[r]) BY DEF IInv
    <3> QED BY <2>3, <3>1, <3>2 DEF Sound
  <2> QED BY <2>2, <2>3
<1>9. Apart'
  <2>1. \A r \in Launch : run'[r].step # "executing" BY <1>2, <1>3
  <2> QED BY <2>1 DEF Apart, InUse
<1> QED BY <1>4, <1>6, <1>8, <1>9 DEF IInv

LEMMA Step == ASSUME RunAssumption, IInv, [Next]_vars PROVE IInv'
<1>1. CASE UNCHANGED vars
  <2>1. UNCHANGED <<listed, onDemand, trusted, answers, bindings, leases, run>> BY <1>1 DEF vars
  <2>2. Bindings(bindings') /\ Grown(bindings, bindings') BY <2>1, SameGrows DEF IInv
  <2>3. /\ listed' \in [Alias -> Address \cup {Nil}] /\ onDemand' \subseteq Alias
        /\ trusted' \in [Address -> SUBSET Machine] /\ answers' \in [Address -> Machine]
    BY <2>1 DEF IInv, Shapes
  <2>4. UNCHANGED <<run, leases>> BY <2>1
  <2> QED BY <2>2, <2>3, <2>4, NoneMoves
<1>2. ASSUME NEW r \in Launch, Runs(r) PROVE IInv'
  <2>1. ASSUME NEW limit, RunAnsiblePlaybook(r, limit) \/ RunRegisteredPlaybook(r, limit) PROVE IInv'
    <3>1. UNCHANGED <<settings, answers, bindings, leases>>
      BY <2>1 DEF RunAnsiblePlaybook, RunRegisteredPlaybook
    <3>2. PICK kind \in Kind \ {"scan"} : run' = [run EXCEPT ![r] = Prepared(kind, limit)]
      BY <2>1 DEF RunAnsiblePlaybook, RunRegisteredPlaybook, Kind
    <3> QED BY <3>1, <3>2, PreparedStep
  <2>2. ASSUME NEW limit, RunNetworkScan(r, limit) PROVE IInv' BY <2>2, ScanStep
  <2>3. ASSUME NEW a \in Alias, ProbeTrustedAssetIdentity(r, a) \/ CollectReport(r, a) PROVE IInv'
    BY <2>3, ProbeStep, CollectStep
  <2>4. CASE CaptureAssetTarget(r) BY <2>4, CaptureStep
  <2>5. CASE AcquireAssetExecution(r) BY <2>5, AcquireStep
  <2>6. CASE Finish(r) BY <2>6, FinishStep
  <2> QED BY <1>2, <2>1, <2>2, <2>3, <2>4, <2>5, <2>6 DEF Runs
<1>3. CASE \E a \in Alias, x \in Address : EditHost(a, x) BY <1>3, EditHostStep
<1>4. CASE \E a \in Alias : Rebind(a) BY <1>4, RebindStep
<1>5. CASE \E x \in Address, m \in Machine : Replace(x, m) BY <1>5, ReplaceStep
<1>6. CASE Restart BY <1>6, RestartStep
<1> QED BY <1>1, <1>2, <1>3, <1>4, <1>5, <1>6 DEF Next

(* The invariant holds of every behaviour.                                  *)
THEOREM Invariance == ASSUME RunAssumption PROVE Spec => []IInv
<1>1. Init => IInv BY InitIInv
<1>2. IInv /\ [Next]_vars => IInv' BY Step
<1> QED BY <1>1, <1>2, PTL DEF Spec

-----------------------------------------------------------------------------
LEMMA TypesHold == ASSUME IInv PROVE TypeOK
<1>1. ASSUME NEW r \in Launch PROVE RunOK(run[r])
  <2>1. run[r] \in {Asleep} \cup Work \cup Over BY DEF IInv, Shapes
  <2>2. CASE run[r] = Asleep BY <2>2 DEF RunOK
  <2>3. CASE run[r] \in Work
    <3>1. run[r].step \in {"probing", "executing"} BY <2>3 DEF Work
    <3>2. Nested(run[r]) BY <3>1, AtWork
    <3>3. /\ run[r].captured \in Partial(Alias, Binding) /\ run[r].reports \in Partial(Alias, Machine)
          /\ run[r].kind \in Kind /\ run[r].frozen \in Partial(Alias, Address)
          /\ run[r].pins \in Partial(Address, Machine) /\ run[r].runtime \in {Nil, "modern", "legacy"}
          /\ run[r].seen \in {Nil} \cup [alias : Alias, machine : Machine]
      BY <2>3 DEF Work
    <3>4. run[r].captured \in Partial(DOMAIN run[r].frozen, Binding)
      BY <3>2, <3>3 DEF Nested, Partial
    <3>5. run[r].reports \in Partial(DOMAIN run[r].frozen, Machine)
      BY <3>2, <3>3 DEF Nested, Partial
    <3>6. run[r].seen = Nil \/ run[r].seen \in [alias : DOMAIN run[r].frozen, machine : Machine]
      BY <3>2, <3>3 DEF Nested
    <3> QED BY <3>1, <3>3, <3>4, <3>5, <3>6 DEF RunOK
  <2>4. CASE run[r] \in Over BY <2>4 DEF Over, RunOK
  <2> QED BY <2>1, <2>2, <2>3, <2>4
<1>2. bindings \in [Alias -> Seq([asset : Machine, connection : Address])] BY DEF IInv, Bindings, Entry
<1> QED BY <1>1, <1>2 DEF IInv, Shapes, Lease, TypeOK

(* Every launch has the fields of its step, about aliases, addresses and    *)
(* machines that there are (asset-execution.ts:18-62).                      *)
THEOREM TypeCorrect == ASSUME RunAssumption PROVE Spec => []TypeOK
<1>1. IInv => TypeOK BY TypesHold
<1> QED BY <1>1, Invariance, PTL

LEMMA MachinesMatch == ASSUME IInv PROVE ReportsOfTheirMachine
<1>1. SUFFICES ASSUME IInv, NEW r \in Launch, At(r, "over"), NEW a \in DOMAIN run[r].reports,
                      run[r].captured[a].status = "verified"
               PROVE  /\ run[r].captured[a].asset = run[r].reports[a]
                      /\ bindings[a][run[r].captured[a].generation] =
                           [asset |-> run[r].captured[a].asset, connection |-> run[r].captured[a].connection]
  BY DEF ReportsOfTheirMachine
<1>2. Published(bindings, run[r]) BY <1>1 DEF At, IInv, Sound
<1> QED BY <1>1, <1>2 DEF Published, Known

(* Whatever is exchanged, edited and bound again while it runs, a launch    *)
(* attributes what it collected to the machine it came from, under a        *)
(* binding of the store (asset-execution.ts:36-44, 60-62,                   *)
(* asset-report-publication.ts:80).                                         *)
THEOREM FindingsOfTheirMachine == ASSUME RunAssumption PROVE Spec => []ReportsOfTheirMachine
<1>1. IInv => ReportsOfTheirMachine BY MachinesMatch
<1> QED BY <1>1, Invariance, PTL

LEMMA NeverShared == ASSUME IInv PROVE RunsNeverMeet
<1>1. SUFFICES ASSUME IInv, NEW r \in Launch, At(r, "executing"), run[r].kind # "scan"
               PROVE  /\ Machines(run[r].captured) \subseteq Supports[run[r].runtime]
                      /\ \A s \in Launch \ {r} : At(s, "executing") /\ run[s].kind # "scan" =>
                           Machines(run[r].captured) \cap Machines(run[s].captured) = {}
  BY DEF RunsNeverMeet
<1>2. InUse(run[r]) BY <1>1 DEF At, InUse
<1>3. Held(leases, r, run[r]) BY <1>1, AtWork DEF At
<1>4. \A s \in Launch \ {r} : At(s, "executing") /\ run[s].kind # "scan" =>
        Machines(run[r].captured) \cap Machines(run[s].captured) = {}
  BY <1>1, <1>2 DEF IInv, Apart, InUse, At
<1> QED BY <1>2, <1>3, <1>4 DEF Held

(* For any number of launches over any groups, two authenticated runs are   *)
(* never at work on one machine, and each has an Ansible that suits all its *)
(* targets (state-store.ts:530, ansible-runtime.ts:49).                     *)
THEOREM MachinesAreNotShared == ASSUME RunAssumption PROVE Spec => []RunsNeverMeet
<1>1. IInv => RunsNeverMeet BY NeverShared
<1> QED BY <1>1, Invariance, PTL
=============================================================================
