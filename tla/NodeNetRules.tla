---------------------------- MODULE NodeNetRules ----------------------------
(***************************************************************************)
(* The ingress rules of a VM are its exposes, and the tenant rules are     *)
(* those of the tenants, between the requests: for any number of VMs,      *)
(* tenants, requests, ports and slots.                                     *)
(*                                                                         *)
(* The argument: slot by slot, the rules in force (or, while a rebuild is  *)
(* under way, its snapshot) say what the records say, unless a request     *)
(* that has changed the records of that slot has still to take its own     *)
(* snapshot.  A slot that a failed boot has lost is left out: no record    *)
(* names it and nobody rebuilds for it.                                    *)
(***************************************************************************)
EXTENDS NodeNetProofs

----------------------------------------------------------------------------
(* What the records ask of the rules, slot by slot. *)

\* Whose record has slot s, the tenants among them, and their exposes.
Holds(s) == {v \in Ids : vms[v].slot = s}
Ten(s) == {vms[v].tenant : v \in Holds(s)} \ {None}
Tab(s) == UNION {Exposes(v) : v \in Holds(s)}

Linked(s, t) == s # t /\ Ten(s) \cap Ten(t) # {}
Synced(s, R) == {r \in R : r[2] = s} = Tab(s)

\* A slot that is free, that a create has, or that a VM has that may be answered
\* for.  No rebuild is owed to a slot that was lost.
Regular(s) ==
    \/ s \notin used
    \/ \E h \in Handlers : req[h].pc \in Owning /\ req[h].slot = s
    \/ \E v \in Holds(s) : v \in Vms \/ vms[v].state = "pooled"

\* A request that goes on to the ingress rules, and the slots it does so for.
Removing(h) == req[h].op \notin {"create", "fork"} \/ req[h].refused
Owed == {"record", "iso", "apply", "ingress"}
Owes(h, s) ==
    /\ req[h].pc \in Owed /\ Removing(h)
    /\ req[h].slot = s \/ (req[h].op \in Exposers /\ vms[req[h].vm].slot = s)
DueIngress(s) == \E h \in Handlers : Owes(h, s)

\* Until then, the ingress rules of a slot are the exposes in the records.
IngressOK == \A s \in Slots : Regular(s) /\ ~DueIngress(s) =>
    /\ \A h \in Handlers : At(h, "fill") => Synced(s, req[h].snap)
    /\ (\A h \in Handlers : ~At(h, "fill")) => Synced(s, dnat)

\* A request that goes on to the tenant rules, before and after its snapshot,
\* and the slots it does so for.
Before == {"resume", "record", "iso"}
After == Before \cup {"apply"}
Waits(h, s, W) ==
    /\ req[h].pc \in W
    /\ vms[req[h].vm].slot = s \/ (~At(h, "resume") /\ req[h].slot = s)
DueIso(s, W) == \E h \in Handlers : Waits(h, s, W)
Quiet(s, W) == Regular(s) /\ ~DueIso(s, W)

\* Until then, two slots are paired as the records say.
PairsOK == \A s, t \in Slots :
    /\ \A h \in Handlers : At(h, "apply") /\ Quiet(s, Before) /\ Quiet(t, Before) =>
          (<<s, t>> \in req[h].snap <=> Linked(s, t))
    /\ flags.iso /\ Quiet(s, After) /\ Quiet(t, After) => (<<s, t>> \in pairs <=> Linked(s, t))

\* A VM of the pool has no tenant, and no slot before it boots; a create that
\* removes its VM was refused.
Care(h) == req[h].pc # "idle" =>
    /\ req[h].pc \in Ending \cup {"delete", "record"} => Removing(h)
    /\ req[h].op \in Exposers => req[h].slot = None
    /\ req[h].op = "prewarm" =>
          /\ req[h].tenant = None /\ vms[req[h].vm].slot = None
          /\ ~At(h, "prewarm") => vms[req[h].vm].tenant = None
          /\ req[h].pc \in Owed => req[h].slot = None
CareOK == /\ \A h \in Handlers : Care(h)
          /\ \A p \in Ids : vms[p].state = "pooled" => vms[p].tenant = None

\* The inductive invariant of the rules.
TInv == CareOK /\ IngressOK /\ PairsOK

----------------------------------------------------------------------------

\* Rules and pairs, slot by slot.
LEMMA RulesAt == ASSUME RecordsOK, NEW s \in Slots PROVE Synced(s, Rules)
<1>1. \A v \in Ids : vms[v].slot = s => v \in Members
  BY NoneNoSlot DEF Members, Present, RecordsOK
<1>2. \A v \in Ids : \A r \in Exposes(v) : r[2] = vms[v].slot
  BY DEF Exposes
<1>3. \A v \in Members : v \in Ids
  BY Zenon DEF Members
<1>4. \A r \in Rules : r[2] = s => r \in Tab(s)
  BY <1>2, <1>3, Zenon DEF Rules, Tab, Holds
<1>5. \A r \in Tab(s) : r \in Rules /\ r[2] = s
  BY <1>1, <1>2, Zenon DEF Rules, Tab, Holds
<1> QED BY <1>4, <1>5, Zenon DEF Synced

\* The pairs of a snapshot, slot by slot.
LEMMA PairsAt ==
    ASSUME RecordsOK, NEW s \in Slots, NEW t \in Slots
    PROVE  <<s, t>> \in Pairs <=> Linked(s, t)
<1>1. \A v \in Ids : vms[v].slot \in Slots => v \in Members
  BY NoneNoSlot DEF Members, Present, RecordsOK
<1>2. \A v \in Members : v \in Ids
  BY Zenon DEF Members
<1>3. ASSUME <<s, t>> \in Pairs PROVE Linked(s, t)
  <2>1. s # t /\ \E u, v \in Members : /\ vms[u].slot = s /\ vms[v].slot = t
                                       /\ vms[u].tenant = vms[v].tenant /\ vms[u].tenant # None
    BY <1>3 DEF Pairs
  <2> QED BY <1>2, <2>1 DEF Linked, Ten, Holds
<1>4. ASSUME Linked(s, t) PROVE <<s, t>> \in Pairs
  <2>1. PICK u \in Ids, v \in Ids : /\ vms[u].slot = s /\ vms[v].slot = t
                                    /\ vms[u].tenant = vms[v].tenant /\ vms[u].tenant # None
    BY <1>4 DEF Linked, Ten, Holds
  <2>2. s # t
    BY <1>4, Zenon DEF Linked
  <2>3. u \in Members /\ v \in Members
    BY <1>1, <2>1, Zenon
  <2> QED BY <2>1, <2>2, <2>3 DEF Pairs
<1> QED BY <1>3, <1>4, Zenon

\* What the records say of a slot, when those that have it stay as they are.
LEMMA TablesOf ==
    ASSUME NEW s \in Slots,
           \A v \in Ids : /\ vms'[v].slot = s <=> vms[v].slot = s
                          /\ vms[v].slot = s => /\ vms'[v].tenant = vms[v].tenant
                                                /\ vms'[v].exposes = vms[v].exposes
    PROVE  Ten(s)' = Ten(s) /\ Tab(s)' = Tab(s)
<1>1. Holds(s)' = Holds(s)
  BY DEF Holds
<1>2. \A v \in Holds(s) : vms'[v].tenant = vms[v].tenant /\ Exposes(v)' = Exposes(v)
  BY DEF Holds, Exposes
<1>3. Ten(s)' = Ten(s)
  BY <1>1, <1>2 DEF Ten
<1>4. Tab(s)' = Tab(s)
  BY <1>1, <1>2, Zenon DEF Tab
<1> QED BY <1>3, <1>4, Zenon

\* A step that changes what the records say of the slots of E alone, and leaves
\* to each of them, if it is regular, a request that goes on to the rules.
Exposing(h, E) == \A s \in Slots :
    /\ s \notin E => /\ Tab(s)' = Tab(s) /\ (Regular(s)' => Regular(s))
                     /\ Owes(h, s) => Owes(h, s)'
                     /\ \A v \in Vms : vms[v].slot = s => vms'[v].slot = s
    /\ s \in E /\ Regular(s)' => DueIngress(s)'

Pairing(h, E) == \A s \in Slots :
    /\ s \notin E => /\ Ten(s)' = Ten(s) /\ (Regular(s)' => Regular(s))
                     /\ Waits(h, s, Before) => Waits(h, s, Before)'
                     /\ \A v \in Ids : vms[v].slot = s => vms'[v].slot = s
    /\ s \in E /\ Regular(s)' => DueIso(s, Before)'

\* Such a step leaves the ingress rules right.
LEMMA IngressStep ==
    ASSUME IngressOK, PlacesOK, NEW h \in Handlers, Others(h), NEW E, Exposing(h, E),
           req[h].pc # "fill", req'[h].pc # "fill", dnat' = dnat
    PROVE  IngressOK'
<1>1. \A s \in Slots : s \notin E /\ DueIngress(s) => DueIngress(s)'
  <2> SUFFICES ASSUME NEW s \in Slots, s \notin E, NEW g \in Handlers, Owes(g, s)
               PROVE  Owes(g, s)'
    BY Zenon DEF DueIngress
  <2>1. CASE g = h
    BY <2>1, Zenon DEF Exposing
  <2>2. CASE g # h
    <3>1. req'[g] = req[g]
      BY <2>2, Zenon DEF Others
    <3>2. req[g].op \in Exposers => req[g].vm \in Vms
      BY DEF Owes, Owed, PlacesOK, Targets, Exposers
    <3>3. \A v \in Vms : vms[v].slot = s => vms'[v].slot = s
      BY Zenon DEF Exposing
    <3> QED BY <3>1, <3>2, <3>3, Zenon DEF Owes, Removing
  <2> QED BY <2>1, <2>2
<1>2. \A g \in Handlers : /\ At(g, "fill")' <=> At(g, "fill")
                          /\ At(g, "fill") => req'[g].snap = req[g].snap
  BY Zenon DEF Others, At
<1> SUFFICES ASSUME NEW s \in Slots, Regular(s)', ~DueIngress(s)'
             PROVE  /\ \A g \in Handlers : At(g, "fill")' => Synced(s, req[g].snap)'
                    /\ (\A g \in Handlers : ~At(g, "fill")') => Synced(s, dnat)'
  BY Zenon DEF IngressOK
<1>3. s \notin E /\ Regular(s) /\ ~DueIngress(s) /\ Tab(s)' = Tab(s)
  BY <1>1, Zenon DEF Exposing
<1>4. /\ \A g \in Handlers : At(g, "fill") => Synced(s, req[g].snap)
      /\ (\A g \in Handlers : ~At(g, "fill")) => Synced(s, dnat)
  BY <1>3, Zenon DEF IngressOK
<1> QED BY <1>2, <1>3, <1>4, Zenon DEF Synced

\* Such a step leaves the tenant rules right.
LEMMA PairsStep ==
    ASSUME PairsOK, PlacesOK, NEW h \in Handlers, Others(h), NEW E, Pairing(h, E),
           req[h].pc # "apply", req'[h].pc # "apply", pairs' = pairs, flags'.iso = flags.iso
    PROVE  PairsOK'
<1>1. \A s \in Slots, W \in {Before, After} : s \notin E /\ DueIso(s, W) => DueIso(s, W)'
  <2> SUFFICES ASSUME NEW s \in Slots, s \notin E, NEW W \in {Before, After},
                      NEW g \in Handlers, Waits(g, s, W)
               PROVE  Waits(g, s, W)'
    BY Zenon DEF DueIso
  <2>1. CASE g = h
    <3>1. Waits(g, s, Before)
      BY <2>1 DEF Waits, Before, After
    <3>2. Waits(g, s, Before)'
      BY <2>1, <3>1, Zenon DEF Pairing
    <3> QED BY <3>2 DEF Waits, After
  <2>2. CASE g # h
    <3>1. req'[g] = req[g]
      BY <2>2, Zenon DEF Others
    <3>2. req[g].vm \in Ids
      BY VmOf DEF Waits, Before, After
    <3>3. \A v \in Ids : vms[v].slot = s => vms'[v].slot = s
      BY Zenon DEF Pairing
    <3> QED BY <3>1, <3>2, <3>3, Zenon DEF Waits, At
  <2> QED BY <2>1, <2>2
<1>2. \A s \in Slots : s \in E /\ Regular(s)' => DueIso(s, Before)' /\ DueIso(s, After)'
  BY Zenon DEF Pairing, DueIso, Waits, After
<1>3. \A s \in Slots, W \in {Before, After} :
         Quiet(s, W)' => s \notin E /\ Quiet(s, W) /\ Ten(s)' = Ten(s)
  BY <1>1, <1>2, Zenon DEF Quiet, Pairing
<1>4. \A g \in Handlers : At(g, "apply")' => At(g, "apply") /\ req'[g].snap = req[g].snap
  BY Zenon DEF Others, At
<1>5. \A s, t \in Slots, W \in {Before, After} :
         Quiet(s, W)' /\ Quiet(t, W)' => (Linked(s, t)' <=> Linked(s, t))
  BY <1>3, Zenon DEF Linked
<1> QED BY <1>3, <1>4, <1>5, Zenon DEF PairsOK

\* A step that gives no record another slot, and another tenant only to its own
\* before that has a slot.
Untouched(h) == \A v \in Ids :
    /\ vms'[v].slot = vms[v].slot
    /\ vms'[v].tenant = vms[v].tenant \/ (Act(h) /\ v = req[h].vm /\ vms[v].slot = None)
    /\ vms'[v].exposes = vms[v].exposes \/ vms[v].slot = None
    /\ vms'[v].state = "pooled" => vms[v].state = "pooled" /\ vms'[v].tenant = vms[v].tenant

\* The pool, and the requests that fill it: a step of another request.
LEMMA CareStep ==
    ASSUME CareOK, NEW h \in Handlers, Others(h), Care(h)',
           \A p \in Ids : vms'[p].state = "pooled" =>
              \/ vms[p].state = "pooled" /\ vms'[p].tenant = vms[p].tenant
              \/ vms'[p].tenant = None,
           \A g \in Handlers : g # h /\ Act(g) /\ req[g].op = "prewarm" =>
              /\ vms'[req[g].vm].slot = vms[req[g].vm].slot
              /\ vms'[req[g].vm].tenant = vms[req[g].vm].tenant
    PROVE  CareOK'
<1>1. \A p \in Ids : vms'[p].state = "pooled" => vms'[p].tenant = None
  BY Zenon DEF CareOK
<1>2. ASSUME NEW g \in Handlers, g # h PROVE Care(g)'
  <2>1. req'[g] = req[g] /\ Care(g)
    BY <1>2, Zenon DEF CareOK, Others
  <2>2. req[g].pc # "idle" /\ req[g].op = "prewarm" => Act(g)
    BY DEF Act, Exposers
  <2> QED BY <1>2, <2>1, <2>2, Zenon DEF Care, Removing, At
<1> QED BY <1>1, <1>2, Zenon DEF CareOK

\* A request that goes on.
LEMMA CareGoto ==
    ASSUME NEW h \in Handlers, Care(h), NEW l, Moved(h, l), req[h].pc # "idle",
           req'[h].slot = req[h].slot, req'[h].refused = req[h].refused,
           l \in Ending \cup {"delete", "record"} => Removing(h),
           req[h].op = "prewarm" =>
              /\ ~At(h, "prewarm") /\ (l \in Owed => req[h].slot = None)
              /\ vms'[req[h].vm].slot = None /\ vms'[req[h].vm].tenant = None
    PROVE  Care(h)'
BY Zenon DEF Care, Moved, Same, Removing, At

\* A step that gives back, takes or loses no slots but those of E.
Excused(h, E) == \A s \in Slots :
    /\ s \notin E => /\ s \notin used' => Regular(s)
                     /\ req'[h].pc \in Owning /\ req'[h].slot = s => Regular(s)
    /\ s \in E /\ Regular(s)' => DueIngress(s)' /\ DueIso(s, Before)'

\* Such a step leaves all rules right.
LEMMA Strolls ==
    ASSUME SInv, TInv, NEW h \in Handlers, Others(h), Untouched(h), Care(h)', NEW E,
           req[h].pc \notin Owed \cup {"resume", "fill"}, req'[h].pc \notin {"apply", "fill"},
           Excused(h, E),
           dnat' = dnat, pairs' = pairs, flags'.iso = flags.iso
    PROVE  TInv'
<1>1. PlacesOK /\ OneActor /\ CareOK /\ IngressOK /\ PairsOK
  BY Zenon DEF SInv, TInv
<1>0. \A s \in Slots : s \in E /\ Regular(s)' => DueIngress(s)' /\ DueIso(s, Before)'
  BY Zenon DEF Excused
<1>2. \A s \in Slots : Ten(s)' = Ten(s) /\ Tab(s)' = Tab(s)
  <2> SUFFICES ASSUME NEW s \in Slots PROVE Ten(s)' = Ten(s) /\ Tab(s)' = Tab(s)
    BY Zenon
  <2>1. \A v \in Ids : /\ vms'[v].slot = s <=> vms[v].slot = s
                       /\ vms[v].slot = s => /\ vms'[v].tenant = vms[v].tenant
                                             /\ vms'[v].exposes = vms[v].exposes
    BY NoneNoSlot, Zenon DEF Untouched
  <2> QED BY <2>1, TablesOf, Zenon
<1>3. \A s \in Slots : s \notin E => (Regular(s)' => Regular(s))
  <2> SUFFICES ASSUME NEW s \in Slots, s \notin E, Regular(s)' PROVE Regular(s)
    BY Zenon
  <2>1. CASE s \notin used'
    BY <2>1, Zenon DEF Excused
  <2>2. ASSUME NEW g \in Handlers, req'[g].pc \in Owning, req'[g].slot = s PROVE Regular(s)
    <3>1. CASE g = h
      BY <2>2, <3>1, Zenon DEF Excused
    <3>2. CASE g # h
      BY <2>2, <3>2, Zenon DEF Others, Regular
    <3> QED BY <3>1, <3>2
  <2>3. ASSUME NEW v \in Ids, vms'[v].slot = s, v \in Vms \/ vms'[v].state = "pooled" PROVE Regular(s)
    BY <2>3, Zenon DEF Untouched, Regular, Holds
  <2> QED BY <2>1, <2>2, <2>3, Zenon DEF Regular, Holds
<1>4. \A s \in Slots : ~Owes(h, s) /\ ~Waits(h, s, Before)
  BY DEF Owes, Waits, Owed, Before
<1>5. \A v \in Ids : vms'[v].slot = vms[v].slot
  BY Zenon DEF Untouched
<1>6. \A v \in Vms : vms'[v].slot = vms[v].slot
  BY <1>5, Zenon DEF Ids
<1>7. req[h].pc # "fill" /\ req[h].pc # "apply" /\ req'[h].pc # "fill" /\ req'[h].pc # "apply"
  BY DEF Owed
<1>8. IngressOK'
  <2>1. Exposing(h, E)
    BY <1>0, <1>2, <1>3, <1>4, <1>6, Zenon DEF Exposing
  <2> QED BY <1>1, <1>7, <2>1, IngressStep, Zenon
<1>9. PairsOK'
  <2>1. Pairing(h, E)
    BY <1>0, <1>2, <1>3, <1>4, <1>5, Zenon DEF Pairing
  <2> QED BY <1>1, <1>7, <2>1, PairsStep, Zenon
<1>10. CareOK'
  <2>1. \A g \in Handlers : g # h /\ Act(g) =>
           /\ vms'[req[g].vm].slot = vms[req[g].vm].slot
           /\ vms'[req[g].vm].tenant = vms[req[g].vm].tenant
    BY <1>1, VmOf, Zenon DEF Untouched, OneActor, Act
  <2> QED BY <1>1, <2>1, CareStep, Zenon DEF Untouched
<1> QED BY <1>8, <1>9, <1>10, Zenon DEF TInv

\* Such a step that neither takes nor gives back a slot.
LEMMA StrollsOn ==
    ASSUME SInv, TInv, NEW h \in Handlers, Others(h), Untouched(h), Care(h)',
           req[h].pc \notin Owed \cup {"resume", "fill"}, req'[h].pc \notin {"apply", "fill"},
           req'[h].pc \in Owning => req[h].pc \in Owning /\ req'[h].slot = req[h].slot,
           used' = used, dnat' = dnat, pairs' = pairs, flags' = flags
    PROVE  TInv'
<1>1. Excused(h, {})
  BY Zenon DEF Excused, Regular
<1>2. flags'.iso = flags.iso
  BY Zenon
<1> QED BY <1>1, <1>2, Strolls, Zenon

\* A step that sets the state of a record.
LEMMA StateOnly ==
    ASSUME VmsOK, NEW h, NEW v, NEW st, st # "pooled", vms' = [vms EXCEPT ![v].state = st]
    PROVE  Untouched(h)
<1>1. \A u \in Ids : /\ vms'[u].slot = vms[u].slot /\ vms'[u].tenant = vms[u].tenant
                     /\ vms'[u].exposes = vms[u].exposes
                     /\ vms'[u].state = "pooled" => vms[u].state = "pooled"
  BY Zenon DEF VmsOK, VmFields
<1> QED BY <1>1, Zenon DEF Untouched

\* A step that leaves the records.
LEMMA Stays == ASSUME NEW h, vms' = vms PROVE Untouched(h)
BY Zenon DEF Untouched

\* A request that ends.
LEMMA DoneCare == ASSUME ReqOK, NEW h \in Handlers, Done(h) PROVE Others(h) /\ Care(h)'
BY DoneIs, Zenon DEF Care

\* A request that goes on, and touches no rule.
LEMMA GoesOn ==
    ASSUME NInv, SInv, TInv, NEW h \in Handlers, NEW l, Goto(h, l), Untouched(h),
           vms'[req[h].vm].tenant = vms[req[h].vm].tenant,
           req[h].pc \notin Owed \cup {"resume", "fill", "idle", "prewarm"},
           l \notin Owed \cup {"fill"}, l \in Ending \cup {"delete"} => Removing(h),
           l \in Owning => req[h].pc \in Owning,
           used' = used, dnat' = dnat, pairs' = pairs, flags' = flags
    PROVE  TInv'
<1>1. ReqOK /\ Care(h) /\ PlacesOK
  BY Zenon DEF SInv, NInv, RInv, TInv, CareOK
<1>2. Moved(h, l) /\ req'[h].slot = req[h].slot /\ req'[h].refused = req[h].refused
  BY <1>1, GotoIs, Zenon
<1>3. req[h].pc # "idle" /\ req[h].pc # "prewarm" /\ req[h].vm \in Ids /\ l # "record"
      /\ l \notin {"apply", "fill"}
  BY <1>1, VmOf DEF Owed
<1>4. vms'[req[h].vm].slot = vms[req[h].vm].slot
  BY <1>3, Zenon DEF Untouched
<1>5. Care(h)'
  <2>1. l \in Ending \cup {"delete", "record"} => Removing(h)
    BY <1>3, Zenon
  <2>2. req[h].op = "prewarm" =>
          /\ ~At(h, "prewarm") /\ (l \in Owed => req[h].slot = None)
          /\ vms'[req[h].vm].slot = None /\ vms'[req[h].vm].tenant = None
    BY <1>1, <1>3, <1>4, Zenon DEF Care, At
  <2> QED BY <1>1, <1>2, <1>3, <2>1, <2>2, CareGoto, Zenon
<1>6. /\ Others(h) /\ req[h].pc \notin Owed \cup {"resume", "fill"}
      /\ req'[h].pc \notin {"apply", "fill"}
      /\ req'[h].pc \in Owning => req[h].pc \in Owning /\ req'[h].slot = req[h].slot
  BY <1>2, <1>3, Zenon DEF Moved
<1> QED BY <1>5, <1>6, StrollsOn, Zenon

\* A request that ends, and touches no rule.
LEMMA Ends ==
    ASSUME NInv, SInv, TInv, NEW h \in Handlers, Done(h), Untouched(h),
           req[h].pc \notin Owed \cup {"resume", "fill"},
           used' = used, dnat' = dnat, pairs' = pairs, flags' = flags
    PROVE  TInv'
<1>1. ReqOK
  BY Zenon DEF NInv, RInv
<1>2. Others(h) /\ Care(h)' /\ req'[h].pc = "idle"
  BY <1>1, DoneCare, DoneIs, Zenon
<1>3. req'[h].pc \notin {"apply", "fill"} /\ req'[h].pc \notin Owning
  BY <1>2 DEF Owning
<1> QED BY <1>2, <1>3, StrollsOn, Zenon

\* start, stop, and a delete that unpins its tap.
LEMMA RunTidy ==
    ASSUME NInv, SInv, TInv, NEW h \in Handlers, Start(h) \/ Spawn(h) \/ StopOnly(h) \/ Unpin(h)
    PROVE  TInv'
<1>1. used' = used /\ dnat' = dnat /\ pairs' = pairs /\ flags' = flags
  BY Zenon DEF Start, Spawn, StopOnly, Unpin, rules
<1>2. req[h].pc \in {"start", "spawn", "stop", "unpin"}
  BY Zenon DEF Start, Spawn, StopOnly, Unpin, At
<1>3. /\ req[h].pc \notin Owed \cup {"resume", "fill", "idle", "prewarm"}
      /\ req[h].pc \notin Owed \cup {"resume", "fill"}
  BY <1>2 DEF Owed
<1>4. VmsOK
  BY Zenon DEF NInv, VInv
<1>5. Untouched(h) /\ (vms' = vms \/ Done(h))
  BY <1>4, Stays, StateOnly, Zenon DEF Start, Spawn, StopOnly, Unpin
<1>6. CASE Done(h)
  BY <1>1, <1>3, <1>5, <1>6, Ends, Zenon
<1>7. CASE Goto(h, "spawn") /\ vms' = vms
  <2>1. "spawn" \notin Owed \cup {"fill"} /\ "spawn" \notin Ending \cup {"delete"} /\ "spawn" \notin Owning
    BY DEF Owed, Ending, Owning
  <2> QED BY <1>1, <1>3, <1>5, <1>7, <2>1, GoesOn, Zenon
<1>8. CASE Goto(h, "release") /\ vms' = vms /\ req[h].pc = "unpin"
  <2>1. "release" \notin Owed \cup {"fill"} /\ "release" \notin Owning
    BY DEF Owed, Ending, Owning
  <2>2. Removing(h)
    BY <1>8 DEF TInv, CareOK, Care, Ending
  <2> QED BY <1>1, <1>3, <1>5, <1>8, <2>1, <2>2, GoesOn, Zenon
<1> QED BY <1>6, <1>7, <1>8, <1>5, Zenon DEF Start, Spawn, StopOnly, Unpin, At

\* A create that fails.
LEMMA FailedTidy ==
    ASSUME NInv, SInv, NEW h \in Handlers, CareOK, req[h].pc \in {"slot", "tap", "boot"}, Failed(h)
    PROVE  /\ Others(h) /\ Untouched(h) /\ Care(h)' /\ req'[h].pc \in {"idle", "delete"}
           /\ req[h].pc \notin Owed \cup {"resume", "fill"} /\ req'[h].pc \notin {"apply", "fill"}
           /\ req'[h].pc \notin Owning
<1>1. ReqOK /\ VmsOK /\ Care(h) /\ PlacesOK
  BY Zenon DEF NInv, RInv, VInv, CareOK, SInv
<1>2. Untouched(h)
  BY <1>1, StateOnly, Zenon DEF Failed
<1>3. Others(h) /\ Care(h)' /\ req'[h].pc \in {"idle", "delete"}
  <2>1. CASE Done(h)
    BY <1>1, <2>1, DoneCare, DoneIs, Zenon
  <2>2. CASE Goto(h, "delete") /\ req[h].op = "prewarm"
    <3>1. /\ Moved(h, "delete") /\ req'[h].slot = req[h].slot /\ req'[h].refused = req[h].refused
      BY <1>1, <2>2, GotoIs, Zenon
    <3>2. /\ req[h].pc # "idle" /\ ~At(h, "prewarm") /\ req[h].vm \in Ids /\ "delete" \notin Owed
          /\ Removing(h)
      BY <1>1, <2>2, VmOf DEF At, Owed, Removing
    <3>3. vms'[req[h].vm].slot = vms[req[h].vm].slot
          /\ vms'[req[h].vm].tenant = vms[req[h].vm].tenant
      BY <1>1, <3>2, Zenon DEF Failed, VmsOK, VmFields
    <3>4. vms'[req[h].vm].slot = None /\ vms'[req[h].vm].tenant = None
      BY <1>1, <2>2, <3>2, <3>3, Zenon DEF Care
    <3>5. Care(h)'
      BY <1>1, <3>1, <3>2, <3>4, CareGoto, Zenon
    <3> QED BY <3>1, <3>5, Zenon DEF Moved
  <2> QED BY <2>1, <2>2, Zenon DEF Failed
<1>4. /\ req[h].pc \notin Owed \cup {"resume", "fill"} /\ req'[h].pc \notin {"apply", "fill"}
      /\ req'[h].pc \notin Owning
  BY <1>3 DEF Owed, Owning
<1> QED BY <1>2, <1>3, <1>4, Zenon

\* A slot that a record or a create has for itself, and that is lost: no other
\* record has it but one that is about to go.
LEMMA Lost ==
    ASSUME SInv, TInv, NEW s \in Slots, s \in used',
           \A g \in Handlers : req'[g].pc \in Owning => req'[g].slot # s,
           \A v \in Ids : vms'[v].slot = s /\ (v \in Vms \/ vms'[v].state = "pooled") =>
              \E g \in Handlers : At(g, "record") /\ req'[g] = req[g] /\ req[g].slot = s
    PROVE  Regular(s)' => DueIngress(s)' /\ DueIso(s, Before)'
<1> SUFFICES ASSUME Regular(s)' PROVE DueIngress(s)' /\ DueIso(s, Before)'
  BY Zenon
<1>1. PICK g \in Handlers : At(g, "record") /\ req'[g] = req[g] /\ req[g].slot = s
  BY Zenon DEF Regular, Holds
<1>2. Removing(g)
  BY <1>1 DEF TInv, CareOK, Care, At
<1>3. Removing(g)'
  BY <1>1, <1>2, Zenon DEF Removing
<1>4. Owes(g, s)' /\ Waits(g, s, Before)'
  BY <1>1, <1>3 DEF Owes, Waits, At, Owed, Before
<1> QED BY <1>4, Zenon DEF DueIngress, DueIso

\* A create takes a slot that no record has.
LEMMA ClaimSlotTidy == ASSUME NInv, SInv, TInv, NEW h \in Handlers, ClaimSlot(h) PROVE TInv'
<1>1. /\ req[h].pc = "slot" /\ dnat' = dnat /\ pairs' = pairs /\ flags' = flags
      /\ flags'.iso = flags.iso
  BY Zenon DEF ClaimSlot, At, rules
<1>2. ReqOK /\ VmsOK /\ PlacesOK /\ Care(h) /\ CareOK
  BY Zenon DEF NInv, RInv, VInv, SInv, TInv, CareOK
<1>3. req[h].pc \notin Owed \cup {"resume", "fill"}
  BY <1>1 DEF Owed
<1>4. CASE Done(h) /\ vms' = vms /\ used' = used
  BY <1>1, <1>3, <1>4, Stays, Ends, Zenon
<1>5. CASE Failed(h) /\ used' = used
  <2>1. req[h].pc \in {"slot", "tap", "boot"}
    BY <1>1
  <2> QED BY <1>1, <1>2, <1>5, <2>1, FailedTidy, StrollsOn, Zenon
<1>6. CASE FreeSlots # {} /\ LET s == Min(FreeSlots) IN
            /\ used' = used \cup {s}
            /\ req' = [req EXCEPT ![h].pc = "tap", ![h].slot = s]
            /\ UNCHANGED vms
  <2> DEFINE s == Min(FreeSlots)
  <2>1. s \notin used
    BY <1>6, MinSlot DEF FreeSlots
  <2>2. /\ Others(h) /\ Same(h) /\ req'[h].pc = "tap" /\ req'[h].slot = s
        /\ vms' = vms /\ used' = used \cup {s}
    BY <1>2, <1>6, Zenon DEF ReqOK, ReqFields, Others, Same
  <2> HIDE DEF s
  <2>3. req[h].op \notin Exposers /\ "tap" \notin Ending \cup {"delete", "record"} /\ "tap" \notin Owed
        /\ req[h].pc # "idle" /\ req[h].pc # "prewarm"
    BY <1>1, <1>2, Kinds DEF Exposers, Makers, Ending, Owed
  <2>4. Care(h)'
    BY <1>2, <2>2, <2>3, Zenon DEF Care, Same, At
  <2>5. Excused(h, {})
    BY <2>1, <2>2, Zenon DEF Excused, Regular
  <2>6. req'[h].pc \notin {"apply", "fill"} /\ Untouched(h)
    BY <2>2, Stays
  <2> QED BY <1>1, <1>3, <2>2, <2>4, <2>5, <2>6, Strolls, Zenon
<1> QED BY <1>4, <1>5, <1>6, Zenon DEF ClaimSlot

\* setup_tap: a failure gives the slot back.
LEMMA SetupTapTidy == ASSUME NInv, SInv, TInv, NEW h \in Handlers, SetupTap(h) PROVE TInv'
<1>1. /\ req[h].pc = "tap" /\ dnat' = dnat /\ pairs' = pairs /\ flags' = flags
      /\ flags'.iso = flags.iso
  BY Zenon DEF SetupTap, At, rules
<1>2. CASE Goto(h, "boot") /\ vms' = vms /\ used' = used
  <2>1. /\ req[h].pc \notin Owed \cup {"resume", "fill", "idle", "prewarm"}
        /\ "boot" \notin Owed \cup {"fill"} /\ "boot" \notin Ending \cup {"delete"}
        /\ req[h].pc \in Owning
    BY <1>1 DEF Owed, Ending, Owning
  <2> QED BY <1>1, <1>2, <2>1, Stays, GoesOn, Zenon
<1>3. CASE Failed(h) /\ used' = used \ {req[h].slot}
  <2>1. req[h].pc \in {"slot", "tap", "boot"} /\ req[h].pc \in Owning /\ CareOK
    BY <1>1, Zenon DEF Owning, TInv
  <2>2. /\ Others(h) /\ Untouched(h) /\ Care(h)'
        /\ req[h].pc \notin Owed \cup {"resume", "fill"} /\ req'[h].pc \notin {"apply", "fill"}
        /\ req'[h].pc \notin Owning
    BY <1>3, <2>1, FailedTidy, Zenon
  <2>3. Excused(h, {})
    BY <1>3, <2>1, <2>2, Zenon DEF Excused, Regular
  <2> QED BY <1>1, <2>2, <2>3, Strolls, Zenon
<1> QED BY <1>2, <1>3, Zenon DEF SetupTap

\* A boot that fails: the slot is lost, and no rule is owed to it.
LEMMA BootFails ==
    ASSUME NInv, SInv, TInv, NEW h \in Handlers, req[h].pc = "boot", Failed(h),
           used' = used, dnat' = dnat, pairs' = pairs, flags'.iso = flags.iso
    PROVE  TInv'
<1>0. PICK s : s = req[h].slot
  OBVIOUS
<1>1. req[h].pc \in {"slot", "tap", "boot"} /\ req[h].pc \in Owning /\ CareOK /\ ClaimsOK
  BY Zenon DEF Owning, TInv, SInv
<1>2. /\ Others(h) /\ Untouched(h) /\ Care(h)'
      /\ req[h].pc \notin Owed \cup {"resume", "fill"} /\ req'[h].pc \notin {"apply", "fill"}
      /\ req'[h].pc \notin Owning
  BY <1>1, FailedTidy, Zenon
<1>3. s \in Slots /\ s \in used /\ (\A v \in Ids : vms[v].slot = s => Freed(v))
      /\ \A g \in Handlers : req[g].pc \in Owning /\ req[g].slot = s => g = h
  BY <1>0, <1>1, Zenon DEF ClaimsOK
<1>4. \A g \in Handlers : req'[g].pc \in Owning => req'[g].slot # s
  BY <1>2, <1>3, Zenon DEF Others
<1>5. \A v \in Ids : vms'[v].slot = s =>
         \E g \in Handlers : At(g, "record") /\ req'[g] = req[g] /\ req[g].slot = s
  <2>1. ~At(h, "record")
    BY DEF At
  <2>2. \A v \in Ids : vms'[v].slot = s => Freed(v) /\ vms[v].slot = s
    BY <1>2, <1>3, Zenon DEF Untouched
  <2> QED BY <1>2, <2>1, <2>2, Zenon DEF Freed, Others
<1>6. Regular(s)' => DueIngress(s)' /\ DueIso(s, Before)'
  <2>1. s \in used'
    BY <1>3, Zenon
  <2> QED BY <1>3, <1>4, <1>5, <2>1, Lost, Zenon
<1>7. Excused(h, {s})
  BY <1>2, <1>6, Zenon DEF Excused, Regular
<1> QED BY <1>2, <1>7, Strolls, Zenon

\* delete: the slot is given back, with both rebuilds to come.
LEMMA ReleaseTidy == ASSUME NInv, SInv, TInv, NEW h \in Handlers, Release(h) PROVE TInv'
<1>0. PICK s : s = req[h].slot
  OBVIOUS
<1>1. /\ req[h].pc = "release" /\ dnat' = dnat /\ pairs' = pairs /\ flags'.iso = flags.iso
      /\ vms' = vms /\ used' = used \ {s} /\ Goto(h, "record")
  BY <1>0, Zenon DEF Release, At, rules
<1>2. ReqOK /\ PlacesOK /\ Care(h) /\ EndingOK
  BY Zenon DEF NInv, RInv, SInv, TInv, CareOK
<1>3. /\ Moved(h, "record") /\ req'[h].slot = req[h].slot /\ req'[h].refused = req[h].refused
  BY <1>1, <1>2, GotoIs, Zenon
<1>4. req[h].pc \in Ending /\ req[h].pc # "idle" /\ Removing(h) /\ req[h].op # "prewarm"
  BY <1>1, <1>2 DEF Ending, Care, EndingOK
<1>5. Care(h)'
  BY <1>2, <1>3, <1>4, CareGoto, Zenon
<1>6. Owes(h, s)' /\ Waits(h, s, Before)'
  <2>1. Removing(h)'
    BY <1>3, <1>4, Zenon DEF Removing, Moved, Same
  <2> QED BY <1>0, <1>3, <2>1 DEF Owes, Waits, Owed, Before, Moved, At
<1>7. Excused(h, {s})
  <2>1. req'[h].pc \notin Owning
    BY <1>3 DEF Moved, Owning
  <2> QED BY <1>1, <1>6, <2>1, Zenon DEF Excused, Regular, DueIngress, DueIso
<1>8. req[h].pc \notin Owed \cup {"resume", "fill"} /\ req'[h].pc \notin {"apply", "fill"}
  BY <1>1, <1>3 DEF Moved, Owed
<1> QED BY <1>1, <1>3, <1>5, <1>7, <1>8, Stays, Strolls, Zenon DEF Moved

\* delete: from here on the request owes its slot the rebuilds.
LEMMA StopTidy == ASSUME NInv, SInv, TInv, NEW h \in Handlers, Stop(h) PROVE TInv'
<1> DEFINE v == req[h].vm
           l == IF vms[v].slot = None THEN "record" ELSE "unpin"
<1>1. /\ req[h].pc = "delete" /\ dnat' = dnat /\ pairs' = pairs /\ flags' = flags /\ used' = used
      /\ req' = [req EXCEPT ![h].slot = vms[v].slot, ![h].pc = l]
      /\ vms' = [vms EXCEPT ![v].state = "stopped"] \/ vms' = vms
  BY Zenon DEF Stop, At, rules
<1>2. ReqOK /\ VmsOK /\ PlacesOK /\ Care(h)
  BY Zenon DEF NInv, RInv, VInv, SInv, TInv, CareOK
<1>3. /\ Others(h) /\ Same(h) /\ req'[h].pc = l /\ req'[h].slot = vms[v].slot
      /\ req'[h].refused = req[h].refused
  BY <1>1, <1>2, Zenon DEF ReqOK, ReqFields, Others, Same
<1>4. l \in {"record", "unpin"}
  BY Zenon
<1> HIDE DEF l
<1>5. Untouched(h)
  BY <1>1, <1>2, Stays, StateOnly, Zenon
<1>6. /\ v \in Ids /\ vms'[v].slot = vms[v].slot /\ vms'[v].tenant = vms[v].tenant
      /\ req[h].pc # "idle" /\ req[h].pc # "prewarm"
  BY <1>1, <1>2, VmOf, Zenon DEF VmsOK, VmFields
<1>7. Removing(h)' /\ req[h].op \notin Exposers
  <2>1. Removing(h)
    BY <1>1, <1>2, Zenon DEF Care
  <2>2. req[h].op \notin Exposers
    BY <1>1, <1>2, Working, Zenon DEF Act
  <2> QED BY <1>3, <2>1, <2>2, Zenon DEF Removing, Same
<1>8. Care(h)'
  BY <1>2, <1>3, <1>6, <1>7, Zenon DEF Care, Same, At
<1>9. /\ req[h].pc \notin Owed \cup {"resume", "fill"} /\ req'[h].pc \notin {"apply", "fill"}
      /\ req'[h].pc \notin Owning
  BY <1>1, <1>3, <1>4 DEF Owed, Owning
<1> QED BY <1>1, <1>3, <1>5, <1>8, <1>9, StrollsOn, Zenon

\* cold_create, on a record without a slot.
LEMMA ColdTidy == ASSUME NInv, SInv, TInv, NEW h \in Handlers, Cold(h) PROVE TInv'
<1> DEFINE v == req[h].vm
<1>1. /\ req[h].pc \in {"cold", "prewarm"} /\ Goto(h, "slot") /\ used' = used
      /\ dnat' = dnat /\ pairs' = pairs /\ flags' = flags
      /\ vms' = [vms EXCEPT ![v] = [NoVm EXCEPT !.state = "creating", !.tenant = req[h].tenant]]
  BY Zenon DEF Cold, At, rules
<1>2. ReqOK /\ VmsOK /\ PlacesOK /\ Care(h) /\ BareOK
  BY Zenon DEF NInv, RInv, VInv, SInv, TInv, CareOK
<1>3. /\ Moved(h, "slot") /\ req'[h].slot = req[h].slot /\ req'[h].refused = req[h].refused
  BY <1>1, <1>2, GotoIs, Zenon
<1>4. req[h].pc \in Bare /\ req[h].pc # "idle" /\ "slot" \notin Owed
      /\ "slot" \notin Ending \cup {"delete", "record"} /\ "slot" # "prewarm"
  BY <1>1 DEF Bare, Owed, Ending
<1>5. Act(h) /\ v \in Ids /\ vms[v].slot = None
  BY <1>2, <1>4, Working, Zenon DEF BareOK
<1>6. /\ vms'[v].slot = None /\ vms'[v].tenant = req[h].tenant /\ vms'[v].state = "creating"
      /\ \A u \in Ids : u # v => vms'[u] = vms[u]
  BY <1>1, <1>2, <1>5, Zenon DEF VmsOK, NoVm
<1>7. Untouched(h)
  <2>1. vms'[v].state # "pooled"
    BY <1>6
  <2> QED BY <1>5, <1>6, <2>1, Zenon DEF Untouched
<1>8. Care(h)'
  BY <1>2, <1>3, <1>4, <1>5, <1>6, Zenon DEF Care, Moved, Same, Act, At
<1>9. /\ req[h].pc \notin Owed \cup {"resume", "fill"} /\ req'[h].pc \notin {"apply", "fill"}
      /\ req'[h].pc \notin Owning /\ Others(h)
  BY <1>1, <1>3 DEF Owed, Owning, Moved
<1> QED BY <1>1, <1>7, <1>8, <1>9, StrollsOn, Zenon

\* A new request.
LEMMA BeginTidy == ASSUME NInv, SInv, TInv, NEW h \in Handlers, Begin(h) PROVE TInv'
<1>1. /\ req[h].pc = "idle" /\ vms' = vms /\ used' = used
      /\ dnat' = dnat /\ pairs' = pairs /\ flags' = flags
  BY Zenon DEF Begin, At, rules, node
<1>2. ReqOK /\ RecordsOK
  BY Zenon DEF NInv, RInv, SInv
<1>3. PICK op \in Ops, v \in Ids : Sendable(op, v) /\ Begun(h, op, v)
  BY <1>2, BegunOK, Zenon
<1>4. op \in {"create", "fork", "delete", "start", "stop", "prewarm", "expose", "unexpose"}
  BY NetAssumption, Zenon
<1>5. op = "prewarm" => vms'[v].slot = None
  BY <1>1, <1>2, <1>3 DEF Sendable, Present, RecordsOK
<1>6. /\ Others(h) /\ req'[h].op = op /\ req'[h].vm = v /\ req'[h].slot = None
      /\ req'[h].pc = (IF op = "fork" THEN "cold" ELSE op)
      /\ op = "prewarm" => req'[h].tenant = None
  BY <1>3, Zenon DEF Begun
<1>7. Care(h)'
  BY <1>4, <1>5, <1>6 DEF Care, Removing, At, Ending, Owed
<1>8. /\ req[h].pc \notin Owed \cup {"resume", "fill"} /\ req'[h].pc \notin {"apply", "fill"}
      /\ req'[h].pc \notin Owning
  BY <1>1, <1>4, <1>6 DEF Owed, Owning
<1> QED BY <1>1, <1>6, <1>7, <1>8, Stays, StrollsOn, Zenon

\* No request takes a step.
LEMMA Rests ==
    ASSUME SInv, TInv, req' = req, used' = used, dnat' = dnat, pairs' = pairs,
           flags'.iso => flags.iso,
           \A v \in Ids : /\ vms'[v].slot = vms[v].slot /\ vms'[v].tenant = vms[v].tenant
                          /\ vms'[v].exposes = vms[v].exposes
                          /\ vms'[v].state = "pooled" => vms[v].state = "pooled"
    PROVE  TInv'
<1>1. PlacesOK /\ CareOK /\ IngressOK /\ PairsOK
  BY Zenon DEF SInv, TInv
<1>2. \A s \in Slots : Ten(s)' = Ten(s) /\ Tab(s)' = Tab(s)
  BY TablesOf, Zenon
<1>3. \A s \in Slots : Regular(s)' => Regular(s)
  BY Zenon DEF Regular, Holds
<1>4. \A h \in Handlers : req[h].pc # "idle" => vms'[req[h].vm].slot = vms[req[h].vm].slot
                                            /\ vms'[req[h].vm].tenant = vms[req[h].vm].tenant
  BY <1>1, VmOf, Zenon
<1>5. \A s \in Slots : DueIngress(s) => DueIngress(s)'
  <2>1. \A h \in Handlers : req[h].pc \in Owed => req[h].pc # "idle"
    BY DEF Owed
  <2> QED BY <1>4, <2>1, Zenon DEF DueIngress, Owes, Removing
<1>6. \A s \in Slots, W \in {Before, After} : DueIso(s, W) => DueIso(s, W)'
  <2>1. \A h \in Handlers, W \in {Before, After} : req[h].pc \in W => req[h].pc # "idle"
    BY DEF Before, After
  <2> QED BY <1>4, <2>1, Zenon DEF DueIso, Waits, At
<1>7. IngressOK'
  BY <1>1, <1>2, <1>3, <1>5, Zenon DEF IngressOK, At, Synced
<1>8. PairsOK'
  <2>1. \A s \in Slots, W \in {Before, After} : Quiet(s, W)' => Quiet(s, W)
    BY <1>3, <1>6, Zenon DEF Quiet
  <2>2. \A s, t \in Slots : Linked(s, t)' <=> Linked(s, t)
    BY <1>2, Zenon DEF Linked
  <2> QED BY <1>1, <2>1, <2>2, Zenon DEF PairsOK, At
<1>9. CareOK'
  BY <1>1, <1>4, Zenon DEF CareOK, Care, Removing, At
<1> QED BY <1>7, <1>8, <1>9, Zenon DEF TInv

\* on_fc_exit.
LEMMA FcExitTidy == ASSUME NInv, SInv, TInv, NEW v \in Ids, FcExit(v) PROVE TInv'
<1>1. /\ req' = req /\ used' = used /\ dnat' = dnat /\ pairs' = pairs /\ flags' = flags
      /\ vms' = [vms EXCEPT ![v].state = "error"]
  BY Zenon DEF FcExit, rules
<1>2. VmsOK
  BY Zenon DEF NInv, VInv
<1>3. \A u \in Ids : /\ vms'[u].slot = vms[u].slot /\ vms'[u].tenant = vms[u].tenant
                     /\ vms'[u].exposes = vms[u].exposes
                     /\ vms'[u].state = "pooled" => vms[u].state = "pooled"
  BY <1>1, <1>2 DEF VmsOK, VmFields
<1> QED BY <1>1, <1>3, Rests, Zenon

FlagsOK == DOMAIN flags = {"iso", "host"}

\* The flags at the start.
LEMMA FlagsInit == Init => FlagsOK
BY Zenon DEF Init, FlagsOK

\* The flags keep their fields.
LEMMA FlagsStep == FlagsOK /\ [Next]_vars => FlagsOK'
<1> SUFFICES ASSUME FlagsOK, [Next]_vars PROVE FlagsOK'
  BY Zenon
<1>1. CASE flags' = flags
  BY <1>1, Zenon DEF FlagsOK
<1>2. CASE Booting
  BY <1>2, Zenon DEF Booting, Setup, Repin, BootRules, Again, Rebuild, rules, FlagsOK
<1>3. ASSUME NEW h \in Handlers, Apply(h) PROVE FlagsOK'
  BY <1>3 DEF Apply, Rebuild, FlagsOK
<1>4. ASSUME NEW h \in Handlers, Step(h) PROVE Apply(h) \/ flags' = flags
  BY <1>4, Zenon DEF Step, Claim, Resume, Cold, ClaimSlot, SetupTap, Boot, Refresh, Stop, Unpin,
     Release, Remove, Start, Spawn, StopOnly, Expose, Unexpose, Flush, Fill, rules
<1>5. ASSUME NEW h \in Handlers, Begin(h) PROVE flags' = flags
  BY <1>5, Zenon DEF Begin, rules
<1>6. ASSUME NEW v \in Ids, FcExit(v) PROVE flags' = flags
  BY <1>6, Zenon DEF FcExit, rules
<1>7. CASE UNCHANGED vars
  BY <1>1, <1>7, Zenon DEF vars
<1> QED BY <1>1, <1>2, <1>3, <1>4, <1>5, <1>6, <1>7, Zenon DEF Next

\* A rebuild for m that leaves the isolation in force has installed m.
LEMMA RebuildIs ==
    ASSUME FlagsOK, NEW m, Rebuild(m), flags'.iso
    PROVE  pairs' = m
BY Zenon DEF FlagsOK, Rebuild

\* The start of the agent installs both sets of rules.
LEMMA BootingTidy == ASSUME NInv, SInv, TInv, FlagsOK, Booting PROVE TInv'
<1>1. CASE Setup \/ Repin \/ Again
  <2>1. /\ req' = req /\ used' = used /\ dnat' = dnat /\ pairs' = pairs /\ vms' = vms
    BY <1>1, Zenon DEF Setup, Repin, Again, rules, node
  <2>2. flags'.iso => flags.iso
    <3>1. CASE Setup
      <4>1. PICK ok : flags' = [flags EXCEPT !.host = ok]
        BY <3>1, Zenon DEF Setup
      <4> QED BY <4>1 DEF FlagsOK
    <3>2. CASE Repin
      BY <3>2, Zenon DEF Repin, rules
    <3>3. CASE Again
      BY <3>3 DEF Again
    <3> QED BY <1>1, <3>1, <3>2, <3>3, Zenon
  <2> QED BY <2>1, <2>2, Rests, Zenon
<1>2. CASE BootRules
  <2>1. /\ boot = "iso" /\ Rebuild(Pairs) /\ req' = req /\ used' = used /\ vms' = vms
        /\ dnat' = Rules \/ dnat' = dnat
    BY <1>2, Zenon DEF BootRules, node
  <2>2. PlacesOK /\ RecordsOK /\ CareOK /\ IngressOK
    BY Zenon DEF SInv, TInv
  <2>3. \A h \in Handlers : req[h].pc = "idle"
    BY <2>1, <2>2 DEF PlacesOK
  <2>4. CareOK'
    BY <2>1, <2>2, Zenon DEF CareOK, Care, Removing, At
  <2>5. \A s \in Slots : Regular(s)' => Regular(s)
    BY <2>1, Zenon DEF Regular, Holds
  <2>6. \A s, t \in Slots : Tab(s)' = Tab(s) /\ (Linked(s, t)' <=> Linked(s, t))
    BY <2>1, TablesOf, Zenon DEF Linked
  <2>7. \A h \in Handlers : ~At(h, "fill") /\ ~At(h, "apply") /\ \A s \in Slots : ~Owes(h, s)
    BY <2>3 DEF At, Owes, Owed
  <2>8. IngressOK'
    <3>1. \A s \in Slots : Regular(s) => Synced(s, dnat) /\ Synced(s, Rules)
      BY <2>2, <2>7, RulesAt, Zenon DEF IngressOK, DueIngress
    <3>2. \A s \in Slots : Regular(s) => Synced(s, dnat)'
      BY <2>1, <2>6, <3>1, Zenon DEF Synced
    <3> QED BY <2>1, <2>5, <2>7, <3>2, Zenon DEF IngressOK, At
  <2>9. PairsOK'
    <3>1. flags'.iso => pairs' = Pairs
      BY <2>1, RebuildIs, Zenon
    <3>2. \A s, t \in Slots : <<s, t>> \in Pairs <=> Linked(s, t)
      BY <2>2, PairsAt, Zenon
    <3> QED BY <2>1, <2>6, <2>7, <3>1, <3>2, Zenon DEF PairsOK, At
  <2> QED BY <2>4, <2>8, <2>9, Zenon DEF TInv
<1> QED BY <1>1, <1>2, Zenon DEF Booting

\* A step on the rules leaves what the records say.
LEMMA Idles ==
    ASSUME NEW h \in Handlers, Others(h), vms' = vms, used' = used, req'[h].pc \notin Owning
    PROVE  \A s \in Slots : Ten(s)' = Ten(s) /\ Tab(s)' = Tab(s) /\ (Regular(s)' => Regular(s))
<1>1. \A s \in Slots : Regular(s)' => Regular(s)
  BY Zenon DEF Regular, Holds, Others
<1> QED BY <1>1, TablesOf, Zenon

\* refresh_isolation: the snapshot says what the records say.
LEMMA RefreshTidy == ASSUME NInv, SInv, TInv, NEW h \in Handlers, Refresh(h) PROVE TInv'
<1>1. /\ req[h].pc = "iso" /\ lock = None /\ vms' = vms /\ used' = used /\ pairs' = pairs
      /\ dnat' = dnat /\ flags' = flags
      /\ req' = [req EXCEPT ![h].pc = "apply", ![h].snap = Pairs]
  BY Zenon DEF Refresh, At, node
<1>2. ReqOK /\ LockIsShort /\ PlacesOK /\ RecordsOK /\ CareOK /\ Care(h) /\ IngressOK /\ PairsOK
  BY Zenon DEF NInv, RInv, SInv, TInv, CareOK
<1>3. /\ Others(h) /\ Same(h) /\ req'[h].pc = "apply" /\ req'[h].snap = Pairs
      /\ req'[h].slot = req[h].slot /\ req'[h].refused = req[h].refused
  BY <1>1, <1>2, Zenon DEF ReqOK, ReqFields, Others, Same
<1>4. \A g \in Handlers : ~At(g, "apply") /\ ~At(g, "fill")
  BY <1>1, <1>2, Zenon DEF LockIsShort
<1>5. req'[h].pc \notin Owning /\ req'[h].pc # "fill" /\ req[h].pc # "fill" /\ req[h].pc # "idle"
      /\ req[h].pc \in Owed /\ req'[h].pc \in Owed /\ "apply" \notin Ending \cup {"delete", "record"}
      /\ req[h].pc # "prewarm"
  BY <1>1, <1>3 DEF Owning, Owed, Ending
<1>6. \A s \in Slots : Ten(s)' = Ten(s) /\ Tab(s)' = Tab(s) /\ (Regular(s)' => Regular(s))
  BY <1>1, <1>3, <1>5, Idles, Zenon
<1>7. CareOK'
  <2>1. Care(h)'
    BY <1>1, <1>2, <1>3, <1>5, Zenon DEF Care, Same, At
  <2> QED BY <1>1, <1>2, <1>3, <2>1, CareStep, Zenon
<1>8. IngressOK'
  <2>1. \A s \in Slots : Owes(h, s) => Owes(h, s)'
    BY <1>1, <1>3, <1>5, Zenon DEF Owes, Removing, Same
  <2>2. Exposing(h, {})
    BY <1>1, <1>6, <2>1, Zenon DEF Exposing
  <2> QED BY <1>1, <1>2, <1>3, <1>5, <2>2, IngressStep, Zenon
<1>9. PairsOK'
  <2>1. \A g \in Handlers : At(g, "apply")' => req'[g].snap = Pairs
    BY <1>3, <1>4, Zenon DEF Others, At
  <2>2. \A s \in Slots : DueIso(s, After) => DueIso(s, After)'
    <3>1. \A s \in Slots : Waits(h, s, After) => Waits(h, s, After)'
      BY <1>1, <1>3 DEF Waits, At, Same, Before, After
    <3>2. \A g \in Handlers, s \in Slots : g # h /\ Waits(g, s, After) => Waits(g, s, After)'
      BY <1>1, <1>3, Zenon DEF Waits, Others, At
    <3> QED BY <3>1, <3>2, Zenon DEF DueIso
  <2>3. \A s, t \in Slots : Linked(s, t)' <=> Linked(s, t)
    BY <1>6, Zenon DEF Linked
  <2>4. \A s, t \in Slots : <<s, t>> \in Pairs <=> Linked(s, t)
    BY <1>2, PairsAt, Zenon
  <2>5. \A s \in Slots : Quiet(s, After)' => Quiet(s, After)
    BY <1>6, <2>2, Zenon DEF Quiet
  <2> QED BY <1>1, <1>2, <2>1, <2>3, <2>4, <2>5, Zenon DEF PairsOK
<1> QED BY <1>7, <1>8, <1>9, Zenon DEF TInv

\* rebuild_isolation: the rules say what the snapshot said, and what has
\* changed since is owed a rebuild.
LEMMA ApplyTidy == ASSUME NInv, SInv, TInv, FlagsOK, NEW h \in Handlers, Apply(h) PROVE TInv'
<1>1. /\ req[h].pc = "apply" /\ Rebuild(req[h].snap) /\ vms' = vms /\ used' = used /\ dnat' = dnat
  BY Zenon DEF Apply, At, node
<1>2. ReqOK /\ LockIsShort /\ PlacesOK /\ CareOK /\ Care(h) /\ IngressOK /\ PairsOK
  BY Zenon DEF NInv, RInv, SInv, TInv, CareOK
<1>3. /\ Others(h)
      /\ \/ Moved(h, "ingress") /\ req'[h].slot = req[h].slot /\ req'[h].refused = req[h].refused
         \/ Done(h) /\ req'[h].pc = "idle" /\ ~Removing(h)
         \/ /\ Moved(h, "delete") /\ req'[h].refused = TRUE
            /\ ~Removing(h) /\ req[h].op \in {"create", "fork"}
  <2>1. CASE Goto(h, "ingress")
    BY <1>2, <2>1, GotoIs, Zenon DEF Moved
  <2>2. CASE Done(h) /\ ~Removing(h)
    BY <1>2, <2>2, DoneIs, Zenon
  <2>3. CASE req' = [req EXCEPT ![h].pc = "delete", ![h].refused = TRUE] /\ ~Removing(h)
    <3>1. Others(h) /\ Same(h) /\ req'[h].pc = "delete" /\ req'[h].refused = TRUE
      BY <1>2, <2>3, Zenon DEF ReqOK, ReqFields, Others, Same
    <3> QED BY <2>3, <3>1, Zenon DEF Moved, Removing
  <2> QED BY <2>1, <2>2, <2>3, Zenon DEF Apply, Removing
<1>4. \A g \in Handlers : ~At(g, "apply")' /\ (At(g, "apply") \/ At(g, "fill") => g = h)
  <2>1. \A g \in Handlers : At(g, "apply") \/ At(g, "fill") => g = h
    BY <1>1, <1>2, Zenon DEF LockIsShort, At
  <2>2. req'[h].pc # "apply"
    BY <1>3 DEF Moved
  <2> QED BY <1>3, <2>1, <2>2, Zenon DEF Others, At
<1>5. /\ req'[h].pc \notin Owning /\ req[h].pc # "fill" /\ req'[h].pc # "fill"
      /\ req[h].pc # "idle" /\ req[h].pc \in Owed /\ "ingress" \in Owed /\ "delete" \notin Owed
      /\ "ingress" \notin Ending \cup {"delete", "record"} /\ req[h].pc # "prewarm"
      /\ req[h].op = "prewarm" => req[h].op \notin {"create", "fork"}
      /\ req[h].op \in {"create", "fork"} => req[h].op \notin Exposers
  BY <1>1, <1>3 DEF Owning, Owed, Ending, Moved, Exposers
<1>6. \A s \in Slots : Ten(s)' = Ten(s) /\ Tab(s)' = Tab(s) /\ (Regular(s)' => Regular(s))
  BY <1>1, <1>3, <1>5, Idles, Zenon
<1>7. CareOK'
  <2>1. Care(h)'
    <3>1. CASE Moved(h, "ingress") /\ req'[h].slot = req[h].slot /\ req'[h].refused = req[h].refused
      BY <1>1, <1>2, <1>5, <3>1, Zenon DEF Care, Moved, Same, At
    <3>2. CASE req'[h].pc = "idle"
      BY <3>2, Zenon DEF Care
    <3>3. CASE Moved(h, "delete") /\ req'[h].refused = TRUE /\ req[h].op \in {"create", "fork"}
      BY <1>5, <3>3, Zenon DEF Care, Removing, Moved, Same, At
    <3> QED BY <1>3, <3>1, <3>2, <3>3, Zenon
  <2> QED BY <1>1, <1>2, <1>3, <2>1, CareStep, Zenon
<1>8. IngressOK'
  <2>1. \A s \in Slots : Owes(h, s) => Owes(h, s)'
    BY <1>1, <1>3, <1>5, Zenon DEF Owes, Removing, Moved, Same
  <2>2. Exposing(h, {})
    BY <1>1, <1>6, <2>1, Zenon DEF Exposing
  <2> QED BY <1>1, <1>2, <1>3, <1>5, <2>2, IngressStep, Zenon
<1>9. PairsOK'
  <2>1. \A s \in Slots : DueIso(s, Before) => DueIso(s, After)'
    <3>1. \A g \in Handlers, s \in Slots : Waits(g, s, Before) => g # h /\ Waits(g, s, After)
      BY <1>1 DEF Waits, Before, After
    <3> QED BY <1>1, <1>3, <3>1, Zenon DEF Waits, Others, At, DueIso
  <2>2. \A s \in Slots : Quiet(s, After)' => Quiet(s, Before)
    BY <1>6, <2>1, Zenon DEF Quiet
  <2>3. \A s, t \in Slots : Linked(s, t)' <=> Linked(s, t)
    BY <1>6, Zenon DEF Linked
  <2>4. flags'.iso => pairs' = req[h].snap
    BY <1>1, RebuildIs, Zenon
  <2>5. \A s, t \in Slots : Quiet(s, Before) /\ Quiet(t, Before) =>
           (<<s, t>> \in req[h].snap <=> Linked(s, t))
    BY <1>1, <1>2, Zenon DEF PairsOK, At
  <2> QED BY <1>4, <2>2, <2>3, <2>4, <2>5, Zenon DEF PairsOK
<1> QED BY <1>7, <1>8, <1>9, Zenon DEF TInv

\* refresh_ingress: the snapshot says what the records say.
LEMMA FlushTidy == ASSUME NInv, SInv, TInv, NEW h \in Handlers, Flush(h) PROVE TInv'
<1>1. /\ req[h].pc = "ingress" /\ lock = None /\ vms' = vms /\ used' = used /\ pairs' = pairs
      /\ flags' = flags /\ req' = [req EXCEPT ![h].pc = "fill", ![h].snap = Rules]
  BY Zenon DEF Flush, At, node
<1>2. ReqOK /\ LockIsShort /\ PlacesOK /\ RecordsOK /\ CareOK /\ Care(h) /\ PairsOK
  BY Zenon DEF NInv, RInv, SInv, TInv, CareOK
<1>3. /\ Others(h) /\ Same(h) /\ req'[h].pc = "fill" /\ req'[h].snap = Rules
      /\ req'[h].slot = req[h].slot /\ req'[h].refused = req[h].refused
  BY <1>1, <1>2, Zenon DEF ReqOK, ReqFields, Others, Same
<1>4. \A g \in Handlers : ~At(g, "apply") /\ ~At(g, "fill")
  BY <1>1, <1>2, Zenon DEF LockIsShort
<1>5. /\ req'[h].pc \notin Owning /\ req[h].pc # "idle" /\ "fill" \notin Owed
      /\ "fill" \notin Ending \cup {"delete", "record"} /\ req[h].pc # "prewarm"
      /\ req[h].pc # "apply" /\ req'[h].pc # "apply" /\ \A s \in Slots : ~Waits(h, s, Before)
  BY <1>1, <1>3 DEF Owning, Owed, Ending, Waits, Before
<1>6. \A s \in Slots : Ten(s)' = Ten(s) /\ Tab(s)' = Tab(s) /\ (Regular(s)' => Regular(s))
  BY <1>1, <1>3, <1>5, Idles, Zenon
<1>7. CareOK'
  <2>1. Care(h)'
    BY <1>1, <1>2, <1>3, <1>5, Zenon DEF Care, Same, At
  <2> QED BY <1>1, <1>2, <1>3, <2>1, CareStep, Zenon
<1>8. IngressOK'
  <2>1. At(h, "fill")' /\ \A g \in Handlers : At(g, "fill")' => req'[g].snap = Rules
    BY <1>3, <1>4, Zenon DEF Others, At
  <2>2. \A s \in Slots : Synced(s, Rules)
    BY <1>2, RulesAt, Zenon
  <2>3. \A s \in Slots, g \in Handlers : At(g, "fill")' => Synced(s, req[g].snap)'
    BY <1>6, <2>1, <2>2, Zenon DEF Synced
  <2> QED BY <2>1, <2>3, Zenon DEF IngressOK
<1>9. PairsOK'
  <2>1. Pairing(h, {})
    BY <1>1, <1>5, <1>6, Zenon DEF Pairing
  <2> QED BY <1>1, <1>2, <1>3, <1>5, <2>1, PairsStep, Zenon
<1> QED BY <1>7, <1>8, <1>9, Zenon DEF TInv

\* refresh_ingress: the chain is filled.
LEMMA FillTidy == ASSUME NInv, SInv, TInv, NEW h \in Handlers, Fill(h) PROVE TInv'
<1>1. /\ req[h].pc = "fill" /\ vms' = vms /\ used' = used /\ pairs' = pairs /\ flags' = flags
      /\ dnat' = req[h].snap /\ Done(h)
  BY Zenon DEF Fill, At, node
<1>2. ReqOK /\ LockIsShort /\ PlacesOK /\ CareOK /\ IngressOK /\ PairsOK
  BY Zenon DEF NInv, RInv, SInv, TInv, CareOK
<1>3. Others(h) /\ req'[h].pc = "idle" /\ Care(h)'
  BY <1>1, <1>2, DoneIs, DoneCare, Zenon
<1>4. \A g \in Handlers : At(g, "apply") \/ At(g, "fill") => g = h
  BY <1>1, <1>2 DEF LockIsShort, At
<1>5. /\ req'[h].pc \notin Owning /\ req[h].pc # "apply" /\ req'[h].pc # "apply"
      /\ \A s \in Slots : ~Waits(h, s, Before) /\ ~Owes(h, s)
  BY <1>1, <1>3 DEF Owning, Owed, Owes, Waits, Before
<1>6. \A s \in Slots : Ten(s)' = Ten(s) /\ Tab(s)' = Tab(s) /\ (Regular(s)' => Regular(s))
  BY <1>1, <1>3, <1>5, Idles, Zenon
<1>7. CareOK'
  BY <1>1, <1>2, <1>3, CareStep, Zenon
<1>8. IngressOK'
  <2>1. \A s \in Slots : DueIngress(s) => DueIngress(s)'
    BY <1>1, <1>3, <1>5, Zenon DEF DueIngress, Owes, Removing, Others
  <2>2. \A g \in Handlers : ~At(g, "fill")'
    <3>1. ~At(h, "fill")'
      BY <1>3 DEF At
    <3> QED BY <1>3, <1>4, <3>1, Zenon DEF Others, At
  <2>3. \A s \in Slots : Regular(s)' /\ ~DueIngress(s)' => Synced(s, req[h].snap)
    BY <1>1, <1>2, <1>6, <2>1, Zenon DEF IngressOK, At
  <2>4. \A s \in Slots : Regular(s)' /\ ~DueIngress(s)' => Synced(s, dnat)'
    BY <1>1, <1>6, <2>3, Zenon DEF Synced
  <2> QED BY <2>2, <2>4, Zenon DEF IngressOK
<1>9. PairsOK'
  <2>1. Pairing(h, {})
    BY <1>1, <1>5, <1>6, Zenon DEF Pairing
  <2> QED BY <1>1, <1>2, <1>3, <1>5, <2>1, PairsStep, Zenon
<1> QED BY <1>7, <1>8, <1>9, Zenon DEF TInv

\* The tenants of a slot.
LEMMA TenOf ==
    ASSUME NEW s \in Slots,
           \A v \in Ids : vms'[v].slot = vms[v].slot /\ vms'[v].tenant = vms[v].tenant
    PROVE  Ten(s)' = Ten(s)
<1>1. Holds(s)' = Holds(s)
  BY DEF Holds
<1>2. \A v \in Holds(s) : vms'[v].tenant = vms[v].tenant
  BY DEF Holds
<1> QED BY <1>1, <1>2 DEF Ten

\* The slots that a step does not concern.
LEMMA Elsewhere ==
    ASSUME NEW h \in Handlers, Others(h), used' = used, req'[h].pc \notin Owning, NEW t \in Slots,
           \A v \in Ids : /\ vms'[v].slot = t <=> vms[v].slot = t
                          /\ vms[v].slot = t => vms'[v] = vms[v]
    PROVE  /\ Ten(t)' = Ten(t) /\ Tab(t)' = Tab(t) /\ (Regular(t)' => Regular(t))
           /\ \A v \in Ids : vms[v].slot = t => vms'[v].slot = t
           /\ \A v \in Vms : vms[v].slot = t => vms'[v].slot = t
<1>1. Ten(t)' = Ten(t) /\ Tab(t)' = Tab(t)
  BY TablesOf, Zenon
<1>2. \A v \in Ids : vms[v].slot = t => vms'[v].slot = t
  BY Zenon
<1>3. \A v \in Vms : vms[v].slot = t => vms'[v].slot = t
  BY <1>2, Zenon DEF Ids
<1>4. ASSUME Regular(t)' PROVE Regular(t)
  <2>1. CASE t \notin used'
    BY <2>1, Zenon DEF Regular
  <2>2. ASSUME NEW g \in Handlers, req'[g].pc \in Owning, req'[g].slot = t PROVE Regular(t)
    BY <2>2, Zenon DEF Others, Regular
  <2>3. ASSUME NEW v \in Ids, vms'[v].slot = t, v \in Vms \/ vms'[v].state = "pooled" PROVE Regular(t)
    BY <2>3, Zenon DEF Regular, Holds
  <2> QED BY <1>4, <2>1, <2>2, <2>3, Zenon DEF Regular, Holds
<1> QED BY <1>1, <1>2, <1>3, <1>4, Zenon

\* The exposes of a record, which a request of its own puts into the rules.
Exposed(h, v) ==
    /\ Goto(h, "ingress")
    /\ \A u \in Ids : /\ vms'[u].slot = vms[u].slot /\ vms'[u].tenant = vms[u].tenant
                      /\ vms'[u].state = vms[u].state
                      /\ u # v => vms'[u].exposes = vms[u].exposes

\* expose and unexpose: a port is changed, and a rebuild is owed.
LEMMA ExposedTidy ==
    ASSUME NInv, SInv, TInv, NEW h \in Handlers, req[h].pc \in Exposers, Exposed(h, req[h].vm),
           used' = used, dnat' = dnat, pairs' = pairs, flags' = flags
    PROVE  TInv'
<1>0. PICK v : v = req[h].vm
  OBVIOUS
<1>1. PICK s : s = vms[v].slot
  OBVIOUS
<1>2. ReqOK /\ PlacesOK /\ CareOK /\ Care(h) /\ IngressOK /\ PairsOK
  BY Zenon DEF NInv, RInv, SInv, TInv, CareOK
<1>3. /\ Moved(h, "ingress") /\ req'[h].slot = req[h].slot /\ req'[h].refused = req[h].refused
  BY <1>2, GotoIs, Zenon DEF Exposed
<1>4. req[h].op \in Exposers /\ req[h].op \notin {"create", "fork", "prewarm"} /\ v \in Ids
      /\ req[h].pc # "idle" /\ req[h].pc # "prewarm"
  BY <1>0, <1>2, Kinds, VmOf DEF Exposers
<1>5. \A u \in Ids : /\ vms'[u].slot = vms[u].slot /\ vms'[u].tenant = vms[u].tenant
                     /\ vms'[u].state = vms[u].state
                     /\ u # v => vms'[u].exposes = vms[u].exposes
  BY <1>0, Zenon DEF Exposed
<1>6. "ingress" \notin Ending \cup {"delete", "record"} /\ "ingress" \in Owed /\ "ingress" \notin Owning
      /\ req[h].pc # "fill" /\ "ingress" # "fill" /\ req[h].pc # "apply" /\ "ingress" # "apply"
      /\ req[h].pc \notin Owed /\ req[h].pc \notin Before
  BY DEF Ending, Owed, Owning, Exposers, Before
<1>7. CareOK'
  <2>1. Care(h)'
    BY <1>2, <1>3, <1>4, <1>6, CareGoto, Zenon
  <2>2. \A g \in Handlers : Act(g) => /\ vms'[req[g].vm].slot = vms[req[g].vm].slot
                                      /\ vms'[req[g].vm].tenant = vms[req[g].vm].tenant
    BY <1>2, <1>5, VmOf, Zenon DEF Act
  <2> QED BY <1>2, <1>3, <1>5, <2>1, <2>2, CareStep, Zenon DEF Moved
<1>8. \A t \in Slots : Regular(t)' => Regular(t)
  BY <1>3, <1>5, <1>6, Zenon DEF Regular, Holds, Moved, Others
<1>9. IngressOK'
  <2>1. \A t \in Slots : t # s => Tab(t)' = Tab(t)
    <3> SUFFICES ASSUME NEW t \in Slots, t # s PROVE Tab(t)' = Tab(t)
      BY Zenon
    <3>1. \A u \in Ids : /\ vms'[u].slot = t <=> vms[u].slot = t
                         /\ vms[u].slot = t => /\ vms'[u].tenant = vms[u].tenant
                                               /\ vms'[u].exposes = vms[u].exposes
      BY <1>1, <1>5, Zenon
    <3> QED BY <3>1, TablesOf, Zenon
  <2>2. Owes(h, s)'
    <3>1. Removing(h)'
      BY <1>3, <1>4, Zenon DEF Removing, Moved, Same
    <3>2. vms'[v].slot = s /\ req'[h].vm = v /\ req'[h].pc \in Owed /\ req'[h].op \in Exposers
      BY <1>0, <1>1, <1>3, <1>4, <1>5, <1>6, Zenon DEF Moved, Same
    <3> QED BY <3>1, <3>2, Zenon DEF Owes
  <2>3. Exposing(h, {s})
    <3>1. \A t \in Slots : t \notin {s} =>
             /\ Tab(t)' = Tab(t) /\ (Regular(t)' => Regular(t))
             /\ Owes(h, t) => Owes(h, t)'
             /\ \A w \in Vms : vms[w].slot = t => vms'[w].slot = t
      BY <1>5, <1>6, <1>8, <2>1, Zenon DEF Owes, Ids
    <3>2. \A t \in Slots : t \in {s} => DueIngress(t)'
      BY <2>2, Zenon DEF DueIngress
    <3> QED BY <3>1, <3>2, Zenon DEF Exposing
  <2> QED BY <1>2, <1>3, <1>6, <2>3, IngressStep, Zenon DEF Moved
<1>10. PairsOK'
  <2>1. \A t \in Slots : Ten(t)' = Ten(t)
    BY <1>5, TenOf, Zenon
  <2>2. Pairing(h, {})
    BY <1>5, <1>6, <1>8, <2>1, Zenon DEF Pairing, Waits
  <2> QED BY <1>2, <1>3, <1>6, <2>2, PairsStep, Zenon DEF Moved
<1> QED BY <1>7, <1>9, <1>10, Zenon DEF TInv

\* expose and unexpose.
LEMMA ExposeTidy ==
    ASSUME NInv, SInv, TInv, NEW h \in Handlers, Expose(h) \/ Unexpose(h) PROVE TInv'
<1>1. /\ req[h].pc \in Exposers /\ used' = used /\ dnat' = dnat /\ pairs' = pairs /\ flags' = flags
  BY Zenon DEF Expose, Unexpose, At, rules, Exposers
<1>2. PlacesOK /\ VmsOK /\ ReqOK
  BY Zenon DEF SInv, NInv, VInv, RInv
<1>3. CASE Done(h) /\ vms' = vms
  <2>1. req[h].pc \notin Owed \cup {"resume", "fill"}
    BY <1>1 DEF Owed, Exposers
  <2> QED BY <1>1, <1>3, <2>1, Stays, Ends, Zenon
<1>4. CASE Goto(h, "ingress") /\ \E n : vms' = [vms EXCEPT ![req[h].vm].exposes[req[h].port] = n]
  <2>1. PICK n : vms' = [vms EXCEPT ![req[h].vm].exposes[req[h].port] = n]
    BY <1>4, Zenon
  <2>2. \A u \in Ids : /\ vms'[u].slot = vms[u].slot /\ vms'[u].tenant = vms[u].tenant
                       /\ vms'[u].state = vms[u].state
                       /\ u # req[h].vm => vms'[u].exposes = vms[u].exposes
    BY <1>2, <2>1, Zenon DEF VmsOK, VmFields
  <2>3. Exposed(h, req[h].vm)
    BY <1>4, <2>2, Zenon DEF Exposed
  <2> QED BY <1>1, <2>3, ExposedTidy, Zenon
<1> QED BY <1>3, <1>4, Zenon DEF Expose, Unexpose

\* A record that has its slot for itself, and loses it.
LEMMA Dropped ==
    ASSUME SInv, TInv, NEW h \in Handlers, Others(h), used' = used, req'[h].pc \notin Owning,
           NEW v \in Ids, vms[v].slot \in Slots, ~Freed(v), ~(At(h, "record") /\ req[h].vm # v),
           \A u \in Ids : vms'[u].slot = vms[v].slot /\ (u \in Vms \/ vms'[u].state = "pooled") =>
              u # v /\ vms[u].slot = vms[v].slot
    PROVE  \A s \in Slots : s = vms[v].slot /\ Regular(s)' => DueIngress(s)' /\ DueIso(s, Before)'
<1> SUFFICES ASSUME NEW s \in Slots, s = vms[v].slot
             PROVE  Regular(s)' => DueIngress(s)' /\ DueIso(s, Before)'
  BY Zenon
<1>1. ClaimsOK /\ Alone /\ UsedOK
  BY Zenon DEF SInv
<1>2. s # None
  BY NoneNoSlot, Zenon
<1>3. s \in used'
  BY <1>1, <1>2, Zenon DEF UsedOK
<1>4. \A g \in Handlers : req'[g].pc \in Owning => req'[g].slot # s
  BY <1>1, Zenon DEF ClaimsOK, Others
<1>5. ASSUME NEW u \in Ids, vms'[u].slot = s, u \in Vms \/ vms'[u].state = "pooled"
      PROVE  \E g \in Handlers : At(g, "record") /\ req'[g] = req[g] /\ req[g].slot = s
  <2>1. u # v /\ vms[u].slot = s
    BY <1>5, Zenon
  <2>2. Freed(u)
    BY <1>1, <1>2, <2>1, Zenon DEF Alone
  <2>3. PICK g \in Handlers : At(g, "record") /\ req[g].vm = u /\ req[g].slot = s
    BY <2>1, <2>2, Zenon DEF Freed
  <2>4. g # h
    BY <2>1, <2>3, Zenon
  <2> QED BY <2>3, <2>4, Zenon DEF Others
<1> QED BY <1>3, <1>4, <1>5, Lost, Zenon

\* delete: the record goes, with both rebuilds to come.
LEMMA RemoveTidy == ASSUME NInv, SInv, TInv, NEW h \in Handlers, Remove(h) PROVE TInv'
<1>0. PICK v : v = req[h].vm
  OBVIOUS
<1>1. PICK s : s = vms[v].slot
  OBVIOUS
<1>2. /\ req[h].pc = "record" /\ dnat' = dnat /\ pairs' = pairs /\ flags' = flags /\ used' = used
      /\ vms' = [vms EXCEPT ![v] = NoVm] /\ Goto(h, "iso")
  BY <1>0, Zenon DEF Remove, At, rules
<1>3. ReqOK /\ VmsOK /\ PlacesOK /\ OneActor /\ CareOK /\ Care(h) /\ IngressOK /\ PairsOK
  BY Zenon DEF NInv, RInv, VInv, SInv, TInv, CareOK
<1>4. /\ Moved(h, "iso") /\ Others(h) /\ req'[h].slot = req[h].slot
      /\ req'[h].refused = req[h].refused
  BY <1>2, <1>3, GotoIs, Zenon DEF Moved
<1>5. /\ Act(h) /\ v \in Ids /\ req[h].pc # "idle" /\ req[h].pc # "prewarm" /\ req[h].pc # "resume"
      /\ req[h].op \notin Exposers /\ Removing(h) /\ req[h].pc \in Owed
      /\ req[h].op = "prewarm" => req[h].slot = None
  <2>1. Act(h) /\ v \in Ids
    BY <1>0, <1>2, <1>3, Working, Zenon
  <2>2. req[h].pc \in Owed
    BY <1>2 DEF Owed
  <2> QED BY <1>2, <1>3, <2>1, <2>2, Zenon DEF Care, Act
<1>6. /\ vms'[v] = NoVm /\ vms'[v].slot = None /\ vms'[v].tenant = None /\ vms'[v].state # "pooled"
      /\ \A u \in Ids : u # v => vms'[u] = vms[u]
  BY <1>2, <1>3, <1>5 DEF VmsOK, NoVm
<1>7. /\ "iso" \notin Ending \cup {"delete", "record"} /\ "iso" \in Owed /\ "iso" \notin Owning
      /\ "iso" \in Before
  BY DEF Ending, Owed, Owning, Before
<1>8. CareOK'
  <2>1. Care(h)'
    BY <1>0, <1>3, <1>4, <1>5, <1>6, <1>7, CareGoto, Zenon DEF At
  <2>2. \A g \in Handlers : g # h /\ Act(g) => req[g].vm \in Ids /\ req[g].vm # v
    BY <1>0, <1>3, <1>5, VmOf, Zenon DEF OneActor, Act
  <2> QED BY <1>3, <1>4, <1>6, <2>1, <2>2, CareStep, Zenon
<1>9. \A t \in Slots : t # s =>
         /\ Ten(t)' = Ten(t) /\ Tab(t)' = Tab(t) /\ (Regular(t)' => Regular(t))
         /\ \A u \in Ids : vms[u].slot = t => vms'[u].slot = t
         /\ \A u \in Vms : vms[u].slot = t => vms'[u].slot = t
  <2> SUFFICES ASSUME NEW t \in Slots, t # s
               PROVE  /\ Ten(t)' = Ten(t) /\ Tab(t)' = Tab(t) /\ (Regular(t)' => Regular(t))
                      /\ \A u \in Ids : vms[u].slot = t => vms'[u].slot = t
                      /\ \A u \in Vms : vms[u].slot = t => vms'[u].slot = t
    BY Zenon
  <2>1. \A u \in Ids : /\ vms'[u].slot = t <=> vms[u].slot = t
                       /\ vms[u].slot = t => vms'[u] = vms[u]
    BY <1>1, <1>6, NoneNoSlot, Zenon
  <2>2. req'[h].pc \notin Owning
    BY <1>4, <1>7, Zenon DEF Moved
  <2> QED BY <1>2, <1>4, <2>1, <2>2, Elsewhere, Zenon
<1>10. Removing(h)' /\ req'[h].pc \in Owed /\ req'[h].pc \in Before /\ req'[h].pc # "resume"
  BY <1>4, <1>5, <1>7 DEF Removing, Moved, Same
<1>11. \A t \in Slots : req[h].slot = t => Owes(h, t)' /\ Waits(h, t, Before)'
  BY <1>4, <1>10, Zenon DEF Owes, Waits, At
<1>12. \A t \in Slots : t # s => /\ Owes(h, t) => Owes(h, t)'
                                 /\ Waits(h, t, Before) => Waits(h, t, Before)'
  BY <1>0, <1>1, <1>5, <1>11, Zenon DEF Owes, Waits
<1>13. \A t \in Slots : t = s /\ Regular(t)' => DueIngress(t)' /\ DueIso(t, Before)'
  <2>1. CASE req[h].slot = s
    BY <1>11, <2>1, Zenon DEF DueIngress, DueIso
  <2>2. CASE req[h].slot # s /\ s \in Slots
    <3>1. ~Freed(v)
      <4>1. \A g \in Handlers : At(g, "record") /\ req[g].vm = v => g = h
        BY <1>0, <1>3, <1>5, Working, Zenon DEF OneActor, At
      <4> QED BY <1>1, <2>2, <4>1, Zenon DEF Freed
    <3>2. \A u \in Ids : vms'[u].slot = s => u # v /\ vms[u].slot = s
      BY <1>6, <2>2, NoneNoSlot, Zenon
    <3>3. req'[h].pc \notin Owning
      BY <1>4, <1>7, Zenon DEF Moved
    <3> QED BY <1>0, <1>1, <1>2, <1>4, <1>5, <2>2, <3>1, <3>2, <3>3, Dropped, Zenon
  <2> QED BY <2>1, <2>2, Zenon
<1>14. Exposing(h, {s}) /\ Pairing(h, {s})
  BY <1>9, <1>12, <1>13, Zenon DEF Exposing, Pairing
<1>15. req[h].pc # "fill" /\ req'[h].pc # "fill" /\ req[h].pc # "apply" /\ req'[h].pc # "apply"
  BY <1>2, <1>4 DEF Moved
<1> QED BY <1>2, <1>3, <1>4, <1>8, <1>14, <1>15, IngressStep, PairsStep, Zenon DEF TInv

\* A claimed VM is resumed, with a rebuild to come.
LEMMA ResumeRuns ==
    ASSUME NInv, SInv, TInv, NEW h \in Handlers, req[h].pc = "resume", Goto(h, "iso"),
           vms' = [vms EXCEPT ![req[h].vm].state = "running"],
           used' = used, dnat' = dnat, pairs' = pairs, flags' = flags
    PROVE  TInv'
<1>1. ReqOK /\ VmsOK /\ PlacesOK /\ OneActor /\ CareOK /\ Care(h) /\ IngressOK /\ PairsOK
  BY Zenon DEF NInv, RInv, VInv, SInv, TInv, CareOK
<1>2. /\ Moved(h, "iso") /\ Others(h) /\ req'[h].slot = req[h].slot
      /\ req'[h].refused = req[h].refused
  BY <1>1, GotoIs, Zenon DEF Moved
<1>3. req[h].op \notin Exposers \cup {"prewarm"} /\ req[h].vm \in Ids /\ req[h].pc # "idle"
      /\ req[h].pc \notin Owed /\ "iso" \in Before /\ "iso" \notin Owning /\ "iso" # "resume"
      /\ "iso" \notin Ending \cup {"delete", "record"}
      /\ req[h].pc \notin {"fill", "apply"} /\ "iso" \notin {"fill", "apply"}
  BY <1>1, Kinds, VmOf DEF Exposers, Owed, Before, Owning, Ending
<1>4. \A u \in Ids : /\ vms'[u].slot = vms[u].slot /\ vms'[u].tenant = vms[u].tenant
                     /\ vms'[u].exposes = vms[u].exposes
                     /\ vms'[u].state = "pooled" => vms[u].state = "pooled"
  BY <1>1 DEF VmsOK, VmFields
<1>5. \A u \in Vms : vms'[u].slot = vms[u].slot
  BY <1>4, Zenon DEF Ids
<1>6. \A t \in Slots : Ten(t)' = Ten(t) /\ Tab(t)' = Tab(t)
  BY <1>4, TablesOf, Zenon
<1>7. \A t \in Slots : Regular(t)' => Regular(t)
  BY <1>2, <1>3, <1>4, Zenon DEF Regular, Holds, Moved, Others
<1>8. CareOK'
  <2>1. Care(h)'
    BY <1>1, <1>2, <1>3, CareGoto, Zenon
  <2>2. \A g \in Handlers : Act(g) => req[g].vm \in Ids
    BY <1>1, VmOf, Zenon DEF Act
  <2> QED BY <1>1, <1>2, <1>4, <2>1, <2>2, CareStep, Zenon
<1>9. Exposing(h, {})
  BY <1>3, <1>5, <1>6, <1>7, Zenon DEF Exposing, Owes
<1>10. Pairing(h, {})
  <2>1. \A t \in Slots : Waits(h, t, Before) => Waits(h, t, Before)'
    BY <1>2, <1>3, <1>4, Zenon DEF Waits, At, Moved, Same
  <2> QED BY <1>4, <1>6, <1>7, <2>1, Zenon DEF Pairing
<1>11. req[h].pc # "fill" /\ req'[h].pc # "fill" /\ req[h].pc # "apply" /\ req'[h].pc # "apply"
  BY <1>2, <1>3, Zenon DEF Moved
<1> QED BY <1>1, <1>2, <1>8, <1>9, <1>10, <1>11, IngressStep, PairsStep, Zenon DEF TInv

\* A claimed VM that does not resume: its record goes back to the id of
\* the pool, with its slot and without a tenant.
LEMMA FallbackTidy ==
    ASSUME NInv, SInv, TInv, NEW h \in Handlers, req[h].pc = "resume", Fallback(h),
           used' = used, dnat' = dnat, pairs' = pairs, flags' = flags
    PROVE  TInv'
<1>0. PICK v, p, s : v = req[h].vm /\ p = req[h].pool /\ s = vms[v].slot
  OBVIOUS
<1>1. /\ ReqOK /\ VmsOK /\ PlacesOK /\ OneActor /\ CareOK /\ Care(h) /\ IngressOK /\ PairsOK
      /\ ResumesOK /\ RecordsOK
  BY Zenon DEF NInv, RInv, VInv, SInv, TInv, CareOK
<1>2. /\ Others(h) /\ req'[h].op = req[h].op /\ req'[h].vm = req[h].vm /\ req'[h].pc = "cold"
      /\ req'[h].slot = req[h].slot
  BY <1>1, Zenon DEF ReqOK, ReqFields, Others, Fallback
<1>3. /\ Act(h) /\ v \in Ids /\ v \in Vms /\ req[h].op = "create"
      /\ p \in Parked /\ p \in Ids /\ p \notin Vms /\ p # v
      /\ vms[p].slot = None
  <2>1. Act(h) /\ v \in Ids /\ req[h].op = "create"
    BY <1>0, <1>1, Working, Kinds, Zenon
  <2>2. v \in Vms
    BY <1>0, <1>1, <2>1 DEF PlacesOK, Targets
  <2>3. p \in Parked /\ vms[p].state = "absent"
    BY <1>0, <1>1, Zenon DEF ResumesOK, At
  <2>4. p \in Ids /\ p \notin Vms
    BY <2>3, NetAssumption, Zenon DEF Ids
  <2> QED BY <1>1, <2>1, <2>2, <2>3, <2>4, Zenon DEF RecordsOK
<1>4. /\ vms'[v].slot = None /\ vms'[v].state = "absent"
      /\ vms'[p].state = "error"
      /\ \A u \in Ids : u # v /\ u # p => vms'[u] = vms[u]
  <2>1. /\ vms'[v] = NoVm /\ vms'[p] = [vms[v] EXCEPT !.state = "error", !.tenant = None]
        /\ \A u \in Ids : u # v /\ u # p => vms'[u] = vms[u]
    BY <1>0, <1>1, <1>3, Zenon DEF Fallback, VmsOK
  <2>2. vms'[p].state = "error"
    BY <1>1, <1>3, <2>1, Zenon DEF VmsOK, VmFields
  <2> QED BY <2>1, <2>2 DEF NoVm
<1>5. vms'[p].slot = s
  BY <1>0, <1>1, <1>3, Zenon DEF Fallback, VmsOK, VmFields
<1>6. /\ "cold" \notin Owning \cup Owed \cup Ending \cup {"delete", "record"}
      /\ req[h].pc \notin Owed \cup {"fill", "apply", "record"} /\ "cold" \notin {"fill", "apply"}
      /\ req[h].op \notin Exposers \cup {"prewarm"}
  BY <1>3 DEF Owning, Owed, Ending, Exposers
<1>7. CareOK'
  <2>1. Care(h)'
    BY <1>2, <1>6, Zenon DEF Care
  <2>2. \A u \in Ids : vms'[u].state = "pooled" => u # v /\ u # p
    BY <1>4
  <2>3. \A g \in Handlers : g # h /\ Act(g) /\ req[g].op = "prewarm" =>
           req[g].vm \in Ids /\ req[g].vm # v /\ req[g].vm # p
    <3>1. \A g \in Handlers : g # h /\ Act(g) => req[g].vm \in Ids /\ req[g].vm # v
      BY <1>0, <1>1, <1>3, VmOf, Zenon DEF OneActor, Act
    <3>2. \A g \in Handlers : Act(g) /\ req[g].vm = p => req[g].op = "delete"
      BY <1>0, <1>1, Zenon DEF ResumesOK, At
    <3> QED BY <3>1, <3>2
  <2>4. /\ \A u \in Ids : vms'[u].state = "pooled" =>
              vms[u].state = "pooled" /\ vms'[u].tenant = vms[u].tenant
        /\ \A g \in Handlers : g # h /\ Act(g) /\ req[g].op = "prewarm" =>
              /\ vms'[req[g].vm].slot = vms[req[g].vm].slot
              /\ vms'[req[g].vm].tenant = vms[req[g].vm].tenant
    BY <1>4, <2>2, <2>3, Zenon
  <2> QED BY <1>1, <1>2, <2>1, <2>4, CareStep, Zenon
<1>8. req'[h].pc \notin Owning
  BY <1>2, <1>6, Zenon
<1>9. \A t \in Slots : t # s =>
         /\ Ten(t)' = Ten(t) /\ Tab(t)' = Tab(t) /\ (Regular(t)' => Regular(t))
         /\ \A u \in Ids : vms[u].slot = t => vms'[u].slot = t
         /\ \A u \in Vms : vms[u].slot = t => vms'[u].slot = t
  <2> SUFFICES ASSUME NEW t \in Slots, t # s
               PROVE  /\ Ten(t)' = Ten(t) /\ Tab(t)' = Tab(t) /\ (Regular(t)' => Regular(t))
                      /\ \A u \in Ids : vms[u].slot = t => vms'[u].slot = t
                      /\ \A u \in Vms : vms[u].slot = t => vms'[u].slot = t
    BY Zenon
  <2>1. \A u \in Ids : /\ vms'[u].slot = t <=> vms[u].slot = t
                       /\ vms[u].slot = t => vms'[u] = vms[u]
    BY <1>0, <1>3, <1>4, <1>5, NoneNoSlot, Zenon
  <2> QED BY <1>2, <1>8, <2>1, Elsewhere, Zenon
<1>10. \A t \in Slots : t # s => ~Owes(h, t) /\ ~Waits(h, t, Before)
  BY <1>0, <1>6, Zenon DEF Owes, Waits, At
<1>11. \A t \in Slots : t = s /\ Regular(t)' => DueIngress(t)' /\ DueIso(t, Before)'
  <2> SUFFICES ASSUME s \in Slots
               PROVE  \A t \in Slots : t = s /\ Regular(t)' => DueIngress(t)' /\ DueIso(t, Before)'
    BY Zenon
  <2>1. ~Freed(v)
    BY <1>0, <1>1, <1>3, <1>6, NotFreed, Zenon
  <2>2. \A u \in Ids : vms'[u].slot = s /\ (u \in Vms \/ vms'[u].state = "pooled") =>
           u # v /\ vms[u].slot = s
    <3>1. \A u \in Ids : u \in Vms \/ vms'[u].state = "pooled" => u # p
      BY <1>3, <1>4
    <3> QED BY <1>4, <3>1, NoneNoSlot, Zenon
  <2>3. ~At(h, "record")
    BY <1>6, Zenon DEF At
  <2> QED BY <1>0, <1>2, <1>3, <1>8, <2>1, <2>2, <2>3, Dropped, Zenon
<1>12. Exposing(h, {s}) /\ Pairing(h, {s})
  BY <1>9, <1>10, <1>11, Zenon DEF Exposing, Pairing
<1>13. req[h].pc # "fill" /\ req'[h].pc # "fill" /\ req[h].pc # "apply" /\ req'[h].pc # "apply"
  BY <1>2, <1>6, Zenon
<1> QED BY <1>1, <1>2, <1>7, <1>12, <1>13, IngressStep, PairsStep, Zenon DEF TInv

\* A claimed VM is resumed, or its record goes back.
LEMMA ResumeTidy == ASSUME NInv, SInv, TInv, NEW h \in Handlers, Resume(h) PROVE TInv'
<1>1. /\ req[h].pc = "resume" /\ used' = used /\ dnat' = dnat /\ pairs' = pairs /\ flags' = flags
  BY Zenon DEF Resume, At, rules
<1>2. CASE Goto(h, "iso") /\ vms' = [vms EXCEPT ![req[h].vm].state = "running"]
  BY <1>1, <1>2, ResumeRuns, Zenon
<1>3. CASE Fallback(h)
  BY <1>1, <1>3, FallbackTidy, Zenon
<1> QED BY <1>2, <1>3, Zenon DEF Resume, Fallback

\* claim_from_pool: the slot gets a tenant, with a rebuild to come.
LEMMA TakeoverTidy ==
    ASSUME NInv, SInv, TInv, NEW h \in Handlers, req[h].pc = "create", NEW p \in Parked,
           Takeover(h, p), used' = used, dnat' = dnat, pairs' = pairs, flags' = flags
    PROVE  TInv'
<1>0. PICK v, s : v = req[h].vm /\ s = vms[p].slot
  OBVIOUS
<1>1. /\ ReqOK /\ VmsOK /\ PlacesOK /\ OneActor /\ CareOK /\ IngressOK /\ PairsOK
      /\ PooledOK /\ BareOK
  BY Zenon DEF NInv, RInv, VInv, SInv, TInv
<1>2. /\ Others(h) /\ req'[h].op = req[h].op /\ req'[h].vm = req[h].vm /\ req'[h].pc = "resume"
  BY <1>1, Zenon DEF ReqOK, ReqFields, Others, Takeover
<1>3. /\ Act(h) /\ v \in Ids /\ v \in Vms /\ req[h].op = "create"
      /\ p \in Ids /\ p \notin Vms /\ p # v /\ vms[v].slot = None /\ vms[p].state = "pooled"
  <2>1. Act(h) /\ v \in Ids /\ req[h].op = "create" /\ vms[v].slot = None
    BY <1>0, <1>1, Working, Kinds, Zenon DEF Bare, BareOK
  <2>2. v \in Vms
    BY <1>0, <1>1, <2>1 DEF PlacesOK, Targets
  <2>3. p \in Ids /\ p \notin Vms
    BY NetAssumption, Zenon DEF Ids
  <2> QED BY <2>1, <2>2, <2>3, Zenon DEF Takeover
<1>4. /\ vms'[p].slot = None /\ vms'[p].state = "absent"
      /\ vms'[v].state = "creating" /\ vms'[v].slot = s /\ vms'[v].exposes = vms[p].exposes
      /\ \A u \in Ids : u # v /\ u # p => vms'[u] = vms[u]
  <2>1. /\ vms'[p] = NoVm
        /\ vms'[v] = [vms[p] EXCEPT !.state = "creating", !.tenant = req[h].tenant]
        /\ \A u \in Ids : u # v /\ u # p => vms'[u] = vms[u]
    BY <1>0, <1>1, <1>3, Zenon DEF Takeover, VmsOK
  <2>2. vms'[v].state = "creating" /\ vms'[v].slot = s /\ vms'[v].exposes = vms[p].exposes
    BY <1>0, <1>1, <1>3, <2>1, Zenon DEF VmsOK, VmFields
  <2> QED BY <2>1, <2>2 DEF NoVm
<1>5. /\ "resume" \notin Owning \cup Owed \cup Ending \cup {"delete", "record"} /\ "resume" \in Before
      /\ req[h].pc \notin Owed \cup Before \cup {"fill", "apply"} /\ "resume" \notin {"fill", "apply"}
      /\ req[h].op \notin Exposers \cup {"prewarm"}
  BY <1>3 DEF Owning, Owed, Ending, Exposers, Before
<1>6. CareOK'
  <2>1. Care(h)'
    BY <1>2, <1>5, Zenon DEF Care
  <2>2. \A u \in Ids : vms'[u].state = "pooled" => u # v /\ u # p
    BY <1>4
  <2>3. \A g \in Handlers : g # h /\ Act(g) /\ req[g].op = "prewarm" =>
           req[g].vm \in Ids /\ req[g].vm # v /\ req[g].vm # p
    <3>1. \A g \in Handlers : g # h /\ Act(g) => req[g].vm \in Ids /\ req[g].vm # v
      BY <1>0, <1>1, <1>3, VmOf, Zenon DEF OneActor, Act
    <3>2. \A g \in Handlers : Act(g) /\ req[g].vm = p => req[g].op = "delete"
      BY <1>1, <1>3, Zenon DEF PooledOK
    <3> QED BY <3>1, <3>2
  <2>4. /\ \A u \in Ids : vms'[u].state = "pooled" =>
              vms[u].state = "pooled" /\ vms'[u].tenant = vms[u].tenant
        /\ \A g \in Handlers : g # h /\ Act(g) /\ req[g].op = "prewarm" =>
              /\ vms'[req[g].vm].slot = vms[req[g].vm].slot
              /\ vms'[req[g].vm].tenant = vms[req[g].vm].tenant
    BY <1>4, <2>2, <2>3, Zenon
  <2> QED BY <1>1, <1>2, <2>1, <2>4, CareStep, Zenon
<1>7. \A t \in Slots : t # s =>
         /\ Ten(t)' = Ten(t) /\ Tab(t)' = Tab(t) /\ (Regular(t)' => Regular(t))
         /\ \A u \in Ids : vms[u].slot = t => vms'[u].slot = t
         /\ \A u \in Vms : vms[u].slot = t => vms'[u].slot = t
  <2> SUFFICES ASSUME NEW t \in Slots, t # s
               PROVE  /\ Ten(t)' = Ten(t) /\ Tab(t)' = Tab(t) /\ (Regular(t)' => Regular(t))
                      /\ \A u \in Ids : vms[u].slot = t => vms'[u].slot = t
                      /\ \A u \in Vms : vms[u].slot = t => vms'[u].slot = t
    BY Zenon
  <2>1. \A u \in Ids : /\ vms'[u].slot = t <=> vms[u].slot = t
                       /\ vms[u].slot = t => vms'[u] = vms[u]
    BY <1>0, <1>3, <1>4, NoneNoSlot, Zenon
  <2>2. req'[h].pc \notin Owning
    BY <1>2, <1>5, Zenon
  <2> QED BY <1>2, <2>1, <2>2, Elsewhere, Zenon
<1>8. \A t \in Slots : ~Owes(h, t) /\ ~Waits(h, t, Before)
  BY <1>5, Zenon DEF Owes, Waits
<1>9. \A t \in Slots : t = s =>
         /\ Regular(t) /\ Tab(t)' = Tab(t) /\ DueIso(t, Before)'
         /\ \A u \in Vms : vms[u].slot = t => vms'[u].slot = t
  <2> SUFFICES ASSUME NEW t \in Slots, t = s
               PROVE  /\ Regular(t) /\ Tab(t)' = Tab(t) /\ DueIso(t, Before)'
                      /\ \A u \in Vms : vms[u].slot = t => vms'[u].slot = t
    BY Zenon
  <2>1. Regular(t)
    BY <1>0, <1>3, Zenon DEF Regular, Holds
  <2>2. Tab(t)' = Tab(t)
    <3>1. Exposes(v)' = Exposes(p)
      BY <1>0, <1>4 DEF Exposes
    <3>2. \A u \in Ids : u # v /\ u # p => Exposes(u)' = Exposes(u) /\ vms'[u].slot = vms[u].slot
      BY <1>4, Zenon DEF Exposes
    <3>3. \A u \in Ids : u \in Holds(t)' <=> u = v \/ (u # p /\ u \in Holds(t))
      BY <1>0, <1>3, <1>4, <3>2, NoneNoSlot, Zenon DEF Holds
    <3>4. p \in Holds(t) /\ v \notin Holds(t) /\ v \in Holds(t)'
      BY <1>0, <1>3, <3>3, NoneNoSlot, Zenon DEF Holds
    <3>5. Holds(t) \subseteq Ids /\ Holds(t)' \subseteq Ids
      BY Zenon DEF Holds
    <3>6. \A r : r \in Tab(t)' => r \in Tab(t)
      BY <3>1, <3>2, <3>3, <3>4, <3>5, Zenon DEF Tab
    <3>7. \A r : r \in Tab(t) => r \in Tab(t)'
      BY <3>1, <3>2, <3>3, <3>4, <3>5, Zenon DEF Tab
    <3> QED BY <3>6, <3>7, Zenon
  <2>3. DueIso(t, Before)'
    BY <1>0, <1>2, <1>4, <1>5, Zenon DEF DueIso, Waits
  <2>4. \A u \in Vms : vms[u].slot = t => vms'[u].slot = t
    BY <1>3, <1>4, NoneNoSlot, Zenon DEF Ids
  <2> QED BY <2>1, <2>2, <2>3, <2>4, Zenon
<1>10. Exposing(h, {})
  BY <1>7, <1>8, <1>9, Zenon DEF Exposing
<1>11. Pairing(h, {s})
  BY <1>7, <1>8, <1>9, Zenon DEF Pairing
<1>12. req[h].pc # "fill" /\ req'[h].pc # "fill" /\ req[h].pc # "apply" /\ req'[h].pc # "apply"
  BY <1>2, <1>5, Zenon
<1> QED BY <1>1, <1>2, <1>6, <1>10, <1>11, <1>12, IngressStep, PairsStep, Zenon DEF TInv

\* claim_from_pool.
LEMMA ClaimTidy == ASSUME NInv, SInv, TInv, NEW h \in Handlers, Claim(h) PROVE TInv'
<1>1. /\ req[h].pc = "create" /\ used' = used /\ dnat' = dnat /\ pairs' = pairs /\ flags' = flags
  BY Zenon DEF Claim, At, rules
<1>2. CASE Goto(h, "cold") /\ vms' = vms
  <2>1. /\ req[h].pc \notin Owed \cup {"resume", "fill", "idle", "prewarm"}
        /\ "cold" \notin Owed \cup {"fill"} /\ "cold" \notin Ending \cup {"delete"}
        /\ "cold" \notin Owning
    BY <1>1 DEF Owed, Ending, Owning
  <2> QED BY <1>1, <1>2, <2>1, Stays, GoesOn, Zenon
<1>3. ASSUME NEW p \in Parked, Takeover(h, p) PROVE TInv'
  BY <1>1, <1>3, TakeoverTidy, Zenon
<1> QED BY <1>2, <1>3, Zenon DEF Claim, Takeover

\* A boot that succeeds: the record gets the slot; a rebuild is to come, or
\* the VM is parked and has no tenant.
LEMMA BootedTidy ==
    ASSUME NInv, SInv, TInv, NEW h \in Handlers, req[h].pc = "boot", Booted(h),
           used' = used, dnat' = dnat, pairs' = pairs, flags' = flags
    PROVE  TInv'
<1>0. PICK v, s : v = req[h].vm /\ s = req[h].slot
  OBVIOUS
<1>1. /\ ReqOK /\ VmsOK /\ PlacesOK /\ OneActor /\ CareOK /\ Care(h) /\ IngressOK /\ PairsOK
      /\ RecordsOK /\ BareOK /\ ClaimsOK
  BY Zenon DEF NInv, RInv, VInv, SInv, TInv, CareOK
<1>2. /\ Act(h) /\ v \in Ids /\ vms[v].slot = None /\ s \in Slots
      /\ req[h].op = "prewarm" => vms[v].tenant = None
  <2>1. Act(h) /\ v \in Ids /\ vms[v].slot = None
    BY <1>0, <1>1, Working, Zenon DEF BareOK, Bare
  <2>2. s \in Slots
    BY <1>0, <1>1, Zenon DEF ClaimsOK, Owning
  <2>3. req[h].op = "prewarm" => vms[v].tenant = None
    BY <1>0, <1>1 DEF Care, At
  <2> QED BY <2>1, <2>2, <2>3, Zenon
<1>3. /\ vms'[v].slot = s /\ vms'[v].exposes = vms[v].exposes /\ vms'[v].tenant = vms[v].tenant
      /\ vms'[v].state = "pooled" => req[h].op = "prewarm"
      /\ \A u \in Ids : u # v => vms'[u] = vms[u]
  BY <1>0, <1>1, <1>2, Zenon DEF VmsOK, VmFields, Booted
<1>4. /\ Others(h) /\ Care(h)' /\ req'[h].pc \in {"idle", "iso"}
      /\ req[h].op # "prewarm" => req'[h].pc = "iso" /\ req'[h].vm = v
  <2>1. CASE Done(h) /\ req[h].op = "prewarm"
    BY <1>1, <2>1, DoneIs, DoneCare, Zenon
  <2>2. CASE Goto(h, "iso") /\ req[h].op # "prewarm"
    <3>1. Moved(h, "iso") /\ req'[h].slot = req[h].slot /\ req'[h].refused = req[h].refused
      BY <1>1, <2>2, GotoIs, Zenon
    <3>2. "iso" \notin Ending \cup {"delete", "record"} /\ req[h].pc # "idle"
      BY DEF Ending
    <3>3. Care(h)'
      BY <1>1, <2>2, <3>1, <3>2, CareGoto, Zenon
    <3> QED BY <1>0, <2>2, <3>1, <3>3, Zenon DEF Moved, Same
  <2> QED BY <2>1, <2>2, Zenon DEF Booted
<1>5. /\ req'[h].pc \notin Owning \cup {"fill", "apply"}
      /\ req[h].pc \in Owning /\ req[h].pc \notin Owed \cup Before \cup {"fill", "apply"}
      /\ "iso" \in Before
  BY <1>4 DEF Owning, Owed, Before
<1>6. CareOK'
  <2>1. \A p \in Ids : vms'[p].state = "pooled" =>
              \/ vms[p].state = "pooled" /\ vms'[p].tenant = vms[p].tenant
              \/ vms'[p].tenant = None
    BY <1>2, <1>3, Zenon
  <2>2. \A g \in Handlers : g # h /\ Act(g) /\ req[g].op = "prewarm" =>
           /\ vms'[req[g].vm].slot = vms[req[g].vm].slot
           /\ vms'[req[g].vm].tenant = vms[req[g].vm].tenant
    BY <1>0, <1>1, <1>2, <1>3, VmOf, Zenon DEF OneActor, Act
  <2> QED BY <1>1, <1>4, <2>1, <2>2, CareStep, Zenon
<1>7. \A t \in Slots : t # s => Ten(t)' = Ten(t) /\ Tab(t)' = Tab(t) /\ (Regular(t)' => Regular(t))
  <2> SUFFICES ASSUME NEW t \in Slots, t # s
               PROVE  Ten(t)' = Ten(t) /\ Tab(t)' = Tab(t) /\ (Regular(t)' => Regular(t))
    BY Zenon
  <2>1. \A u \in Ids : /\ vms'[u].slot = t <=> vms[u].slot = t
                       /\ vms[u].slot = t => vms'[u] = vms[u]
    BY <1>2, <1>3, NoneNoSlot, Zenon
  <2>2. req'[h].pc \notin Owning
    BY <1>5, Zenon
  <2> QED BY <1>4, <2>1, <2>2, Elsewhere, Zenon
<1>8. Regular(s)
  BY <1>0, <1>5, Zenon DEF Regular
<1>9. \A u \in Ids : u \in Holds(s)' <=> u = v \/ u \in Holds(s)
  BY <1>2, <1>3, Zenon DEF Holds
<1>10. Holds(s) \subseteq Ids /\ Holds(s)' \subseteq Ids /\ v \notin Holds(s)
  BY <1>2, NoneNoSlot, Zenon DEF Holds
<1>11. Tab(s)' = Tab(s)
  <2>1. Exposes(v)' = {}
    BY <1>1, <1>2, <1>3 DEF Exposes, RecordsOK
  <2>2. \A u \in Holds(s) : Exposes(u)' = Exposes(u)
    BY <1>3, <1>10, Zenon DEF Exposes
  <2>3. \A r : r \in Tab(s)' <=> r \in Tab(s)
    BY <1>9, <1>10, <2>1, <2>2, Zenon DEF Tab
  <2> QED BY <2>3, Zenon
<1>12. req[h].op = "prewarm" => Ten(s)' = Ten(s)
  <2> SUFFICES ASSUME req[h].op = "prewarm" PROVE Ten(s)' = Ten(s)
    BY Zenon
  <2>1. vms'[v].tenant = None
    BY <1>2, <1>3, Zenon
  <2>2. \A u \in Holds(s) : vms'[u].tenant = vms[u].tenant
    BY <1>3, <1>10, Zenon
  <2> QED BY <1>9, <1>10, <2>1, <2>2 DEF Ten
<1>13. /\ \A t \in Slots : ~Owes(h, t) /\ ~Waits(h, t, Before)
       /\ \A t \in Slots : \A u \in Ids : vms[u].slot = t => vms'[u].slot = t
       /\ \A t \in Slots : \A u \in Vms : vms[u].slot = t => vms'[u].slot = t
  <2>1. \A t \in Slots : ~Owes(h, t) /\ ~Waits(h, t, Before)
    BY <1>5, Zenon DEF Owes, Waits
  <2>2. \A t \in Slots : \A u \in Ids : vms[u].slot = t => vms'[u].slot = t
    BY <1>2, <1>3, NoneNoSlot, Zenon
  <2> QED BY <2>1, <2>2, Zenon DEF Ids
<1>14. Exposing(h, {})
  BY <1>7, <1>8, <1>11, <1>13, Zenon DEF Exposing
<1>15. PairsOK'
  <2>1. req[h].pc # "apply" /\ req'[h].pc # "apply"
    BY <1>5, Zenon
  <2>2. CASE req[h].op = "prewarm"
    <3>1. Pairing(h, {})
      BY <1>7, <1>8, <1>12, <1>13, <2>2, Zenon DEF Pairing
    <3> QED BY <1>1, <1>4, <2>1, <3>1, PairsStep, Zenon
  <2>3. CASE req[h].op # "prewarm"
    <3>1. DueIso(s, Before)'
      BY <1>3, <1>4, <1>5, <2>3, Zenon DEF DueIso, Waits
    <3>2. Pairing(h, {s})
      BY <1>7, <1>13, <3>1, Zenon DEF Pairing
    <3> QED BY <1>1, <1>4, <2>1, <3>2, PairsStep, Zenon
  <2> QED BY <2>2, <2>3, Zenon
<1>16. IngressOK'
  <2>1. req[h].pc # "fill" /\ req'[h].pc # "fill"
    BY <1>5, Zenon
  <2> QED BY <1>1, <1>4, <1>14, <2>1, IngressStep, Zenon
<1> QED BY <1>6, <1>15, <1>16, Zenon DEF TInv

\* spawn_and_configure.
LEMMA BootTidy == ASSUME NInv, SInv, TInv, NEW h \in Handlers, Boot(h) PROVE TInv'
<1>1. /\ req[h].pc = "boot" /\ used' = used /\ dnat' = dnat /\ pairs' = pairs /\ flags' = flags
      /\ flags'.iso = flags.iso
  BY Zenon DEF Boot, At, rules
<1>2. CASE Booted(h)
  BY <1>1, <1>2, BootedTidy, Zenon
<1>3. CASE Failed(h)
  BY <1>1, <1>3, BootFails, Zenon
<1> QED BY <1>2, <1>3, Zenon DEF Boot, Booted

----------------------------------------------------------------------------

\* A start finds no exposes, and reports no isolation.
LEMMA TInitSound == Init => TInv
<1> SUFFICES ASSUME Init PROVE TInv
  BY Zenon
<1>1. PICK A \in SUBSET DOMAIN AdoptedAt, t \in [DOMAIN AdoptedAt -> Tenants],
           st \in {"running", "stopped"} :
         vms = [v \in Ids |-> IF v \notin A THEN NoVm ELSE
                  [NoVm EXCEPT !.state = st, !.tenant = t[v], !.slot = AdoptedAt[v]]]
  BY Zenon DEF Init
<1>2. \A v \in Ids : /\ vms[v].state # "pooled"
                     /\ \A p \in Ports : vms[v].exposes[p] = None
  <2>1. \A v \in Ids : v \notin A => /\ vms[v].state # "pooled"
                                     /\ \A p \in Ports : vms[v].exposes[p] = None
    BY <1>1, Zenon DEF NoVm
  <2>2. \A v \in Ids : v \in A => /\ vms[v].state # "pooled"
                                  /\ \A p \in Ports : vms[v].exposes[p] = None
    BY <1>1, Zenon DEF NoVm
  <2> QED BY <2>1, <2>2, Zenon
<1>3. \A h \in Handlers : req[h].pc = "idle"
  BY Zenon DEF Init, Idle
<1>4. dnat = {} /\ ~flags.iso
  BY Zenon DEF Init
<1>5. \A s \in Slots : Tab(s) = {}
  BY <1>2 DEF Tab, Holds, Exposes
<1>6. CareOK
  BY <1>2, <1>3, Zenon DEF CareOK, Care
<1>7. \A h \in Handlers : ~At(h, "fill") /\ ~At(h, "apply")
  BY <1>3 DEF At
<1>8. IngressOK
  BY <1>4, <1>5, <1>7 DEF IngressOK, Synced
<1>9. PairsOK
  BY <1>4, <1>7, Zenon DEF PairsOK
<1> QED BY <1>6, <1>8, <1>9, Zenon DEF TInv

\* The invariant of the rules is inductive.
LEMMA TStepSound == NInv /\ SInv /\ FlagsOK /\ TInv /\ [Next]_vars => TInv'
<1> SUFFICES ASSUME NInv, SInv, FlagsOK, TInv, [Next]_vars PROVE TInv'
  BY Zenon
<1>1. CASE UNCHANGED vars
  <2>1. /\ req' = req /\ used' = used /\ dnat' = dnat /\ pairs' = pairs /\ flags' = flags
        /\ vms' = vms
    BY <1>1, Zenon DEF vars
  <2> QED BY <2>1, Rests, Zenon
<1>2. ASSUME NEW h \in Handlers, Step(h) PROVE TInv'
  BY Zenon, <1>2, ClaimTidy, ResumeTidy, ColdTidy, ClaimSlotTidy, SetupTapTidy, BootTidy,
     RefreshTidy, ApplyTidy, StopTidy, RunTidy, ReleaseTidy, RemoveTidy, ExposeTidy, FlushTidy,
     FillTidy DEF Step
<1> QED BY <1>1, <1>2, BootingTidy, BeginTidy, FcExitTidy, Zenon DEF Next

----------------------------------------------------------------------------
(* What the records and the rules of a slot say of the VM that has it. *)

\* A VM whose requests are answered has its slot for itself, and nobody owes
\* that slot a rebuild.
LEMMA Settles ==
    ASSUME NInv, SInv, TInv, NEW v \in Vms, Settled(v), NEW s, s = vms[v].slot
    PROVE  /\ s \in Slots /\ Regular(s)
           /\ \A h \in Handlers : req[h].pc \in {"record", "iso", "apply"} => req[h].slot # s
           /\ \A u \in Ids : vms[u].slot = s => u = v
<1>1. /\ PlacesOK /\ RecordsOK /\ Alone /\ CareOK /\ v \in Ids
  BY Zenon DEF SInv, TInv, Ids
<1>2. s \in Slots /\ s # None
  BY <1>1, Zenon DEF RecordsOK, Settled
<1>3. Regular(s)
  BY <1>1, Zenon DEF Regular, Holds
<1>4. ASSUME NEW h \in Handlers, req[h].pc \in {"record", "iso", "apply"} PROVE req[h].slot # s
  <2>1. req[h].op \in {"create", "fork", "delete", "prewarm"} /\ req[h].pc # "idle"
    BY <1>1, <1>4, Kinds DEF Makers
  <2>2. CASE req[h].op = "prewarm"
    BY <1>1, <1>2, <1>4, <2>1, <2>2 DEF CareOK, Care, Owed
  <2>3. CASE req[h].op # "prewarm"
    BY <2>1, <2>3 DEF Settled, Unsettled
  <2> QED BY <2>2, <2>3, Zenon
<1>5. ASSUME NEW u \in Ids, vms[u].slot = s, u # v PROVE FALSE
  <2>1. Freed(u) \/ Freed(v)
    BY <1>1, <1>2, <1>5, Zenon DEF Alone
  <2>2. PICK h \in Handlers : At(h, "record") /\ req[h].slot = s
    BY <1>5, <2>1, Zenon DEF Freed
  <2> QED BY <1>4, <2>2 DEF At
<1> QED BY <1>2, <1>3, <1>4, <1>5, Zenon

\* Its ingress rules are its exposes.
LEMMA SettledIngress == NInv /\ SInv /\ TInv => IngressRules
<1> SUFFICES ASSUME NInv, SInv, TInv, NEW v \in Vms, Settled(v),
                    \A h \in Handlers : ~At(h, "fill") /\ req[h].vm # v
             PROVE  {r \in dnat : r[2] = vms[v].slot} = Exposes(v)
  BY Zenon DEF IngressRules
<1>1. PICK s : s = vms[v].slot
  OBVIOUS
<1>2. PlacesOK /\ CareOK /\ IngressOK /\ v \in Ids
  BY Zenon DEF SInv, TInv, Ids
<1>3. /\ s \in Slots /\ s # None /\ Regular(s)
      /\ \A h \in Handlers : req[h].pc \in {"record", "iso", "apply"} => req[h].slot # s
      /\ \A u \in Ids : vms[u].slot = s => u = v
  BY <1>1, Settles, NoneNoSlot, Zenon
<1>4. ASSUME NEW h \in Handlers, Owes(h, s) PROVE FALSE
  <2>1. req[h].pc # "idle" /\ req[h].pc \in Owed
    BY <1>4 DEF Owes, Owed
  <2>2. CASE req[h].op \in Exposers
    <3>1. req[h].slot = None /\ req[h].vm \in Ids
      BY <1>2, <2>1, <2>2, VmOf, Zenon DEF CareOK, Care
    <3> QED BY <1>3, <1>4, <3>1, Zenon DEF Owes
  <2>3. CASE req[h].op = "prewarm"
    <3>1. req[h].slot = None
      BY <1>2, <2>1, <2>3, Zenon DEF CareOK, Care
    <3> QED BY <1>3, <1>4, <2>3, <3>1 DEF Owes, Exposers
  <2>4. CASE req[h].op \notin Exposers \cup {"prewarm"}
    <3>1. req[h].op \in {"create", "fork", "delete"}
      BY <1>2, <2>1, <2>4 DEF PlacesOK, Fits, Exposers, Makers, Owed
    <3>2. req[h].slot = vms[v].slot
      BY <1>1, <1>4, <2>4, Zenon DEF Owes
    <3> QED BY <3>1, <3>2, Zenon DEF Settled, Unsettled
  <2> QED BY <2>2, <2>3, <2>4, Zenon
<1>5. Synced(s, dnat)
  BY <1>2, <1>3, <1>4, Zenon DEF IngressOK, DueIngress
<1>6. Tab(s) = Exposes(v)
  <2>1. Holds(s) = {v}
    BY <1>1, <1>2, <1>3 DEF Holds
  <2> QED BY <2>1 DEF Tab
<1> QED BY <1>1, <1>5, <1>6, Zenon DEF Synced

\* Its slot is quiet, and has its tenant.
LEMMA SettledQuiet ==
    ASSUME NInv, SInv, TInv, NEW v \in Vms, Settled(v), NEW s, s = vms[v].slot
    PROVE  s \in Slots /\ Quiet(s, After) /\ Ten(s) = {vms[v].tenant} \ {None}
<1>1. PlacesOK /\ CareOK /\ v \in Ids
  BY Zenon DEF SInv, TInv, Ids
<1>2. /\ s \in Slots /\ s # None /\ Regular(s)
      /\ \A h \in Handlers : req[h].pc \in {"record", "iso", "apply"} => req[h].slot # s
      /\ \A u \in Ids : vms[u].slot = s => u = v
  BY Settles, NoneNoSlot, Zenon
<1>3. ASSUME NEW h \in Handlers, Waits(h, s, After) PROVE FALSE
  <2>1. req[h].pc \in {"resume", "record", "iso", "apply"}
    BY <1>3 DEF Waits, After, Before
  <2>2. req[h].pc # "idle" /\ req[h].vm \in Ids /\ req[h].op \in {"create", "fork", "delete", "prewarm"}
    BY <1>1, <2>1, VmOf, Kinds DEF Makers
  <2>3. vms[req[h].vm].slot = s
    BY <1>2, <1>3, <2>1 DEF Waits, At
  <2>4. req[h].vm = v
    BY <1>2, <2>2, <2>3, Zenon
  <2>5. req[h].op # "prewarm"
    BY <1>1, <1>2, <2>2, <2>3, Zenon DEF CareOK, Care
  <2> QED BY <2>2, <2>4, <2>5 DEF Settled, Unsettled
<1>4. Quiet(s, After)
  BY <1>2, <1>3, Zenon DEF Quiet, DueIso
<1>5. Ten(s) = {vms[v].tenant} \ {None}
  <2>1. Holds(s) = {v}
    BY <1>1, <1>2 DEF Holds
  <2> QED BY <2>1 DEF Ten
<1> QED BY <1>2, <1>4, <1>5, Zenon

\* Its slot is paired with those of its tenant.
LEMMA SettledTenants == NInv /\ SInv /\ TInv => TenantRules
<1> SUFFICES ASSUME NInv, SInv, TInv, NEW u \in Vms, NEW v \in Vms, flags.iso, u # v,
                    Settled(u), Settled(v)
             PROVE  <<vms[u].slot, vms[v].slot>> \in pairs
                       <=> vms[u].tenant = vms[v].tenant /\ vms[u].tenant # None
  BY Zenon DEF TenantRules
<1>1. PICK s, t : s = vms[u].slot /\ t = vms[v].slot
  OBVIOUS
<1>2. /\ s \in Slots /\ Quiet(s, After) /\ Ten(s) = {vms[u].tenant} \ {None}
      /\ t \in Slots /\ Quiet(t, After) /\ Ten(t) = {vms[v].tenant} \ {None}
  BY <1>1, SettledQuiet, Zenon
<1>3. s # t
  BY <1>1, Settles, Zenon DEF Ids
<1>4. <<s, t>> \in pairs <=> Linked(s, t)
  BY <1>2, Zenon DEF TInv, PairsOK
<1>5. Linked(s, t) <=> vms[u].tenant = vms[v].tenant /\ vms[u].tenant # None
  BY <1>2, <1>3 DEF Linked
<1> QED BY <1>1, <1>4, <1>5, Zenon

\* Between two rebuilds, the ingress rules of a VM whose requests are answered
\* are its exposes.
THEOREM IngressStaysTrue == Spec => []IngressRules
BY InitSound, StepSound, SInitSound, SStepSound, FlagsInit, FlagsStep, TInitSound, TStepSound,
   SettledIngress, PTL DEF Spec

\* While isolation is reported in force, two VMs whose requests are answered
\* may talk if and only if they are of one tenant.
THEOREM TenantsStayApart == Spec => []TenantRules
BY InitSound, StepSound, SInitSound, SStepSound, FlagsInit, FlagsStep, TInitSound, TStepSound,
   SettledTenants, PTL DEF Spec
=============================================================================
