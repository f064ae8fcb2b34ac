--------------------------- MODULE NodeNetProofs ---------------------------
(***************************************************************************)
(* Two rebuilds of rules never mix, a node port leads to one guest, and no *)
(* guest is on a tap that is not pinned: for any number of VMs, requests,  *)
(* ports and slots.                                                        *)
(*                                                                         *)
(* The argument for the ports: a port is picked among those that no record *)
(* has, under the lock of the records; a record that is gone has none; and *)
(* a claim moves the ports of a record with its id.  The rules in force    *)
(* are a picture of the records that was taken under that lock.            *)
(*                                                                         *)
(* The argument for the taps: a slot is the slot of one record, or of one  *)
(* create, except that a delete gives its slot back before its record      *)
(* goes.  By then its guest is stopped, so that the guest on a tap is      *)
(* always that of the record that has the slot for itself, and only a      *)
(* request that has the slot touches the tap.                              *)
(***************************************************************************)
EXTENDS NodeNet, WellFoundedInduction, TLAPS

VmFields == {"state", "tenant", "slot", "exposes"}
ReqFields == {"op", "vm", "pc", "tenant", "pool", "slot", "port", "snap", "refused"}

\* Every record and every request has its fields.
VmsOK == /\ DOMAIN vms = Ids
         /\ \A v \in Ids : DOMAIN vms[v] = VmFields /\ DOMAIN vms[v].exposes = Ports
ReqOK == DOMAIN req = Handlers /\ \A h \in Handlers : DOMAIN req[h] = ReqFields

\* A record that is not there exposes nothing.
AbsentIsBare ==
    \A v \in Ids : vms[v].state = "absent" => \A p \in Ports : vms[v].exposes[p] = None

\* The first half of OneTarget.
PortsUnique ==
    \A u, v \in Ids, p, q \in Ports :
        vms[u].exposes[p] # None /\ vms[u].exposes[p] = vms[v].exposes[q] => u = v /\ p = q

\* A set of rules with one target per node port.
OneEach(R) == \A r1, r2 \in R : r1[1] = r2[1] => r1 = r2

VInv == VmsOK /\ AbsentIsBare /\ PortsUnique

\* Where a request holds the lock of the rules, and where it claims a parked VM
\* for the id it was sent.
Holding == {"apply", "fill"}
Claiming == {"create", "resume"}

RInv == /\ ReqOK /\ LockIsShort
        /\ OneEach(dnat)
        /\ \A h \in Handlers : At(h, "fill") => OneEach(req[h].snap)
        /\ \A h \in Handlers : req[h].pc \in Claiming => req[h].vm \in Ids

----------------------------------------------------------------------------
(* The requests. *)

\* A request that moves between places without the lock disturbs no rebuild.
LEMMA Calm ==
    ASSUME RInv, ReqOK', lock' = lock, dnat' = dnat, NEW h \in Handlers,
           \A g \in Handlers \ {h} : req'[g] = req[g],
           req[h].pc \notin Holding, req'[h].pc \notin Holding,
           req'[h].pc \in Claiming => req'[h].vm \in Ids
    PROVE  RInv'
<1>1. LockIsShort'
  BY Zenon DEF RInv, LockIsShort, At, Holding
<1>2. \A g \in Handlers : At(g, "fill")' => OneEach(req[g].snap)'
  BY Zenon DEF RInv, At, Holding, OneEach
<1>3. \A g \in Handlers : req'[g].pc \in Claiming => req'[g].vm \in Ids
  BY Zenon DEF RInv
<1> QED BY <1>1, <1>2, <1>3 DEF RInv, OneEach

\* So does a step that moves none.
LEMMA Unmoved ==
    ASSUME RInv, lock' = lock, OneEach(dnat'), req' = req
    PROVE  RInv'
BY Zenon DEF RInv, ReqOK, LockIsShort, At, OneEach

\* A change of place.
LEMMA GotoOK ==
    ASSUME ReqOK, NEW h \in Handlers, NEW l, Goto(h, l)
    PROVE  ReqOK' /\ (\A g \in Handlers \ {h} : req'[g] = req[g]) /\ req'[h].pc = l
BY Zenon DEF ReqOK, ReqFields, Goto

\* The end of a request.
LEMMA DoneOK ==
    ASSUME ReqOK, NEW h \in Handlers, Done(h)
    PROVE  ReqOK' /\ (\A g \in Handlers \ {h} : req'[g] = req[g]) /\ req'[h].pc = "idle"
BY Zenon DEF ReqOK, ReqFields, Done, Idle

\* A create that fails.
LEMMA FailedOK ==
    ASSUME ReqOK, NEW h \in Handlers, Failed(h)
    PROVE  /\ ReqOK' /\ (\A g \in Handlers \ {h} : req'[g] = req[g])
           /\ req'[h].pc \in {"idle", "delete"}
BY GotoOK, DoneOK, Zenon DEF Failed

\* A request that takes the lock finds it free, and is the only one.
LEMMA Takes ==
    ASSUME RInv, ReqOK', lock = None, NEW h \in Handlers, lock' = h, OneEach(dnat'),
           \A g \in Handlers \ {h} : req'[g] = req[g],
           req'[h].pc \in Holding, req'[h].pc = "fill" => OneEach(req'[h].snap)
    PROVE  RInv'
<1>1. \A g \in Handlers : ~At(g, "apply") /\ ~At(g, "fill")
  BY Zenon DEF RInv, LockIsShort
<1>2. LockIsShort'
  <2>1. \A g \in Handlers : (At(g, "apply") \/ At(g, "fill"))' <=> g = h
    BY <1>1, Zenon DEF At, Holding
  <2>2. h # None
    BY NetAssumption, Zenon
  <2> QED BY <2>1, <2>2 DEF LockIsShort
<1>3. \A g \in Handlers : At(g, "fill")' => OneEach(req[g].snap)'
  BY <1>1, Zenon DEF At, OneEach
<1>4. \A g \in Handlers : req'[g].pc \in Claiming => req'[g].vm \in Ids
  BY Zenon DEF RInv, Holding, Claiming
<1> QED BY <1>2, <1>3, <1>4 DEF RInv, OneEach

\* A request that gives it back was the only one to have it.
LEMMA Gives ==
    ASSUME RInv, ReqOK', NEW h \in Handlers, lock' = None, OneEach(dnat'),
           \A g \in Handlers \ {h} : req'[g] = req[g],
           req[h].pc \in Holding, req'[h].pc \notin Holding \cup Claiming
    PROVE  RInv'
<1>1. \A g \in Handlers \ {h} : ~At(g, "apply") /\ ~At(g, "fill")
  BY Zenon DEF RInv, LockIsShort, At, Holding
<1>2. \A g \in Handlers : ~At(g, "apply")' /\ ~At(g, "fill")'
  BY <1>1, Zenon DEF At, Holding
<1>3. \A g \in Handlers : req'[g].pc \in Claiming => req'[g].vm \in Ids
  BY Zenon DEF RInv
<1> QED BY <1>2, <1>3 DEF RInv, LockIsShort, OneEach

----------------------------------------------------------------------------
(* The records. *)

\* Records that keep their exposes or lose them all.
LEMMA Kept ==
    ASSUME VInv, VmsOK',
           \A v \in Ids :
              \/ /\ vms'[v].exposes = vms[v].exposes
                 /\ vms'[v].state = "absent" => vms[v].state = "absent"
              \/ \A p \in Ports : vms'[v].exposes[p] = None
    PROVE  VInv'
<1>1. AbsentIsBare'
  BY Zenon DEF VInv, AbsentIsBare
<1>2. PortsUnique'
  BY DEF VInv, PortsUnique
<1> QED BY <1>1, <1>2 DEF VInv

\* No record.
LEMMA NoVmOK ==
    /\ DOMAIN NoVm = VmFields /\ DOMAIN NoVm.exposes = Ports
    /\ \A p \in Ports : NoVm.exposes[p] = None
BY Zenon DEF NoVm, VmFields

\* A change of state.
LEMMA StateOK ==
    ASSUME VInv, NEW x, NEW st, st # "absent", vms' = [vms EXCEPT ![x].state = st]
    PROVE  VInv'
<1>1. VmsOK' /\ \A v \in Ids : /\ vms'[v].exposes = vms[v].exposes
                               /\ vms'[v].state = "absent" => vms[v].state = "absent"
  BY Zenon DEF VInv, VmsOK, VmFields
<1> QED BY <1>1, Kept

\* A record moves to another id, and what was there goes.
LEMMA MoveOK ==
    ASSUME VInv, NEW x \in Ids, NEW y, NEW r, DOMAIN r = VmFields, r.exposes = vms[x].exposes,
           r.state # "absent", vms' = [vms EXCEPT ![x] = NoVm, ![y] = r]
    PROVE  VInv'
<1>1. /\ DOMAIN vms' = Ids
      /\ \A v \in Ids : vms'[v] = IF v = y THEN r ELSE IF v = x THEN NoVm ELSE vms[v]
  BY Zenon DEF VInv, VmsOK
<1>2. VmsOK'
  BY <1>1, NoVmOK, Zenon DEF VInv, VmsOK
<1>3. AbsentIsBare'
  BY <1>1, NoVmOK DEF VInv, AbsentIsBare
<1>4. PortsUnique'
  <2> SUFFICES ASSUME NEW u \in Ids, NEW v \in Ids, NEW p \in Ports, NEW q \in Ports,
                      vms'[u].exposes[p] # None, vms'[u].exposes[p] = vms'[v].exposes[q]
               PROVE  u = v /\ p = q
    BY DEF PortsUnique
  <2>1. u \in {x, y} /\ u # y => FALSE
    BY <1>1, NoVmOK, Zenon
  <2>2. v \in {x, y} /\ v # y => FALSE
    BY <1>1, NoVmOK, Zenon
  <2>3. CASE u = y /\ v = y
    BY <1>1, <2>3 DEF VInv, PortsUnique
  <2>4. CASE u = y /\ v # y
    BY <1>1, <2>2, <2>4 DEF VInv, PortsUnique
  <2>5. CASE u # y /\ v = y
    BY <1>1, <2>1, <2>5 DEF VInv, PortsUnique
  <2>6. CASE u # y /\ v # y
    BY <1>1, <2>1, <2>2, <2>6 DEF VInv, PortsUnique
  <2> QED BY <2>3, <2>4, <2>5, <2>6
<1> QED BY <1>2, <1>3, <1>4 DEF VInv

\* A picture of the records has one target per port.
LEMMA RulesOneEach == ASSUME VInv PROVE OneEach(Rules)
<1> SUFFICES ASSUME NEW r1 \in Rules, NEW r2 \in Rules, r1[1] = r2[1] PROVE r1 = r2
  BY Zenon DEF OneEach
<1>1. PICK u \in Ids, p \in Ports :
         vms[u].exposes[p] # None /\ r1 = <<vms[u].exposes[p], vms[u].slot, p>>
  BY Zenon DEF Rules, Exposes, Members
<1>2. PICK v \in Ids, q \in Ports :
         vms[v].exposes[q] # None /\ r2 = <<vms[v].exposes[q], vms[v].slot, q>>
  BY DEF Rules, Exposes, Members
<1> QED BY <1>1, <1>2 DEF VInv, PortsUnique

LEMMA NotBelow == ASSUME NEW x \in Nat, NEW y \in Nat, ~(y < x) PROVE x <= y
OBVIOUS

\* A set of numbers that is not empty has a lowest one.
LEMMA LowestOK == ASSUME NEW S, S \subseteq Nat, S # {} PROVE Min(S) \in S
<1> DEFINE R == {ss \in Nat \X Nat : ss[1] < ss[2]}
<1>2. IsWellFoundedOn(R, Nat)
  BY NatLessThanWellFounded, Zenon DEF OpToRel
<1>3. PICK x \in S : \A y \in S : ~(<<y, x>> \in R)
  <2> HIDE DEF R
  <2> QED BY <1>2, WFMin, Zenon
<1>4. ASSUME NEW y \in S PROVE x <= y
  <2>1. x \in Nat /\ y \in Nat /\ <<y, x>> \in Nat \X Nat
    BY Zenon
  <2>2. ~(y < x)
    BY <1>3, <2>1, Zenon
  <2> QED BY <2>1, <2>2, NotBelow, Zenon
<1> QED BY <1>4, Zenon DEF Min

LEMMA MinOK == ASSUME NEW S, S \subseteq NodePorts, S # {} PROVE Min(S) \in S
<1>1. S \subseteq Nat
  BY NetAssumption DEF NodePorts
<1> QED BY <1>1, LowestOK, Zenon

LEMMA MinSlot == ASSUME NEW S, S \subseteq Slots, S # {} PROVE Min(S) \in S
<1>1. S \subseteq Nat
  BY NetAssumption DEF Slots
<1> QED BY <1>1, LowestOK, Zenon

\* A port that no record has, or none, is set.
LEMMA PortOK ==
    ASSUME VInv, NEW x \in Ids, NEW q, NEW n, n # None => n \notin Taken /\ Present(x),
           vms' = [vms EXCEPT ![x].exposes[q] = n]
    PROVE  VInv'
<1>1. VmsOK' /\ \A v \in Ids : vms'[v].state = vms[v].state
  BY Zenon DEF VInv, VmsOK, VmFields
<1>2. \A v \in Ids, p \in Ports :
         vms'[v].exposes[p] = IF v = x /\ p = q THEN n ELSE vms[v].exposes[p]
  BY Zenon DEF VInv, VmsOK, VmFields
<1>3. AbsentIsBare'
  BY <1>1, <1>2 DEF VInv, AbsentIsBare, Present
<1>4. n # None => \A v \in Ids, p \in Ports : vms[v].exposes[p] # n
  BY DEF Taken, VInv, AbsentIsBare, Present
<1>5. PortsUnique'
  BY <1>2, <1>4 DEF VInv, PortsUnique
<1> QED BY <1>1, <1>3, <1>5 DEF VInv

----------------------------------------------------------------------------
(* The steps. *)

\* The inductive invariant.
NInv == VInv /\ RInv

\* The start of the agent leaves the records alone, and takes its ingress rules
\* from them.
LEMMA BootingSound == ASSUME NInv, Booting PROVE NInv'
<1>1. vms' = vms /\ req' = req /\ lock' = lock /\ dnat' \in {dnat, Rules}
  BY Zenon DEF Booting, Setup, Repin, BootRules, Again, node, rules
<1>2. VInv'
  BY <1>1 DEF NInv, VInv, VmsOK, AbsentIsBare, PortsUnique
<1>3. OneEach(dnat')
  BY <1>1, RulesOneEach, Zenon DEF NInv, RInv
<1> QED BY <1>1, <1>2, <1>3, Unmoved DEF NInv

\* A Firecracker that exits.
LEMMA FcExitSound == ASSUME NInv, NEW v \in Ids, FcExit(v) PROVE NInv'
<1>1. /\ vms' = [vms EXCEPT ![v].state = "error"]
      /\ req' = req /\ lock' = lock /\ dnat' = dnat
  BY Zenon DEF FcExit, rules
<1>2. VInv'
  BY <1>1, StateOK, Zenon DEF NInv
<1> QED BY <1>1, <1>2, Unmoved DEF NInv, RInv

\* A request begins outside of the lock.
LEMMA BeginSound == ASSUME NInv, NEW h \in Handlers, Begin(h) PROVE NInv'
<1>1. vms' = vms /\ lock' = lock /\ dnat' = dnat /\ At(h, "idle")
  BY Zenon DEF Begin, node, rules
<1> DEFINE T(op) == CASE op = "create" -> Tenants
                      [] op = "fork" -> {vms[u].tenant : u \in {w \in Vms : vms[w].state = "running"}}
                      [] OTHER -> {None}
           P(op) == IF op \in {"expose", "unexpose"} THEN Ports ELSE {None}
           X(op, v, t, p) == [Idle EXCEPT !.op = op, !.vm = v, !.tenant = t, !.port = p,
                                          !.pc = IF op = "fork" THEN "cold" ELSE op]
<1>2. PICK op \in Ops, v \in Ids : \E t \in T(op), p \in P(op) :
         req' = [req EXCEPT ![h] = X(op, v, t, p)]
  BY Zenon DEF Begin
<1> HIDE DEF T, P
<1>a. PICK t, p : req' = [req EXCEPT ![h] = X(op, v, t, p)]
  BY <1>2, Zenon
<1> DEFINE x == X(op, v, t, p)
<1>3. DOMAIN x = ReqFields /\ x.vm = v /\ x.pc = IF op = "fork" THEN "cold" ELSE op
  BY Zenon DEF Idle, ReqFields
<1>4. x.pc \notin Holding
  BY <1>3, NetAssumption DEF Holding
<1> HIDE DEF x
<1>5. ReqOK' /\ (\A g \in Handlers \ {h} : req'[g] = req[g]) /\ req'[h] = x
  BY <1>a, <1>3, Zenon DEF NInv, RInv, ReqOK, x
<1>6. VInv'
  BY <1>1 DEF NInv, VInv, VmsOK, AbsentIsBare, PortsUnique
<1>7. req'[h].vm \in Ids
  BY <1>3, <1>5, Zenon
<1> QED BY <1>1, <1>4, <1>5, <1>6, <1>7, Calm DEF NInv, RInv, At, Holding

\* Rebuilds take the lock and give it back.
LEMMA RebuildSound ==
    ASSUME NInv, NEW h \in Handlers, Refresh(h) \/ Apply(h) \/ Flush(h) \/ Fill(h)
    PROVE  NInv'
<1>1. vms' = vms
  BY Zenon DEF Refresh, Apply, Flush, Fill, node
<1>2. VInv'
  BY <1>1 DEF NInv, VInv, VmsOK, AbsentIsBare, PortsUnique
<1>3. ReqOK /\ OneEach(dnat)
  BY Zenon DEF NInv, RInv
<1>4. CASE Refresh(h)
  <2>1. /\ lock = None /\ lock' = h /\ dnat' = dnat
        /\ req' = [req EXCEPT ![h].pc = "apply", ![h].snap = Pairs]
    BY <1>4, Zenon DEF Refresh
  <2>2. ReqOK' /\ (\A g \in Handlers \ {h} : req'[g] = req[g]) /\ req'[h].pc = "apply"
    BY <1>3, <2>1, Zenon DEF ReqOK, ReqFields
  <2> QED BY <1>2, <1>3, <2>1, <2>2, Takes, Zenon DEF NInv, Holding
<1>5. CASE Flush(h)
  <2>1. /\ lock = None /\ lock' = h /\ dnat' = {}
        /\ req' = [req EXCEPT ![h].pc = "fill", ![h].snap = Rules]
    BY <1>5, Zenon DEF Flush
  <2>2. /\ ReqOK' /\ (\A g \in Handlers \ {h} : req'[g] = req[g])
        /\ req'[h].pc = "fill" /\ req'[h].snap = Rules
    BY <1>3, <2>1, Zenon DEF ReqOK, ReqFields
  <2>3. OneEach(dnat') /\ OneEach(req'[h].snap)
    BY <2>1, <2>2, RulesOneEach, Zenon DEF NInv, OneEach
  <2> QED BY <1>2, <2>1, <2>2, <2>3, Takes, Zenon DEF NInv, Holding
<1>6. CASE Apply(h)
  <2>1. req[h].pc = "apply" /\ lock' = None /\ dnat' = dnat
    BY <1>6, Zenon DEF Apply, At
  <2>2. \/ Goto(h, "ingress") \/ Done(h)
        \/ req' = [req EXCEPT ![h].pc = "delete", ![h].refused = TRUE]
    BY <1>6, Zenon DEF Apply
  <2>3. /\ ReqOK' /\ (\A g \in Handlers \ {h} : req'[g] = req[g])
        /\ req'[h].pc \in {"ingress", "idle", "delete"}
    <3>1. CASE req' = [req EXCEPT ![h].pc = "delete", ![h].refused = TRUE]
      BY <1>3, <3>1, Zenon DEF ReqOK, ReqFields
    <3> QED BY <1>3, <2>2, <3>1, GotoOK, DoneOK
  <2> QED BY <1>2, <1>3, <2>1, <2>3, Gives DEF NInv, Holding, Claiming
<1>7. CASE Fill(h)
  <2>1. req[h].pc = "fill" /\ lock' = None /\ dnat' = req[h].snap /\ Done(h)
    BY <1>7, Zenon DEF Fill, At
  <2>2. OneEach(dnat')
    BY <2>1, Zenon DEF NInv, RInv, At
  <2> QED BY <1>2, <1>3, <2>1, <2>2, DoneOK, Gives DEF NInv, Holding, Claiming
<1> QED BY <1>4, <1>5, <1>6, <1>7

\* A parked VM is claimed: its ports, if any, go with the record.
LEMMA ClaimSound == ASSUME NInv, NEW h \in Handlers, Claim(h) PROVE NInv'
<1>1. /\ lock' = lock /\ dnat' = dnat /\ ReqOK
      /\ req[h].pc = "create" /\ req[h].vm \in Ids
  BY Zenon DEF Claim, rules, At, NInv, RInv, Claiming
<1>2. CASE vms' = vms /\ Goto(h, "cold")
  <2>1. VInv'
    BY <1>2 DEF NInv, VInv, VmsOK, AbsentIsBare, PortsUnique
  <2> QED BY <1>1, <1>2, <2>1, GotoOK, Calm DEF NInv, Holding, Claiming
<1>3. ASSUME NEW p \in Parked,
             vms' = [vms EXCEPT ![p] = NoVm,
                       ![req[h].vm] = [vms[p] EXCEPT !.state = "creating", !.tenant = req[h].tenant]],
             req' = [req EXCEPT ![h].pc = "resume", ![h].pool = p]
      PROVE  NInv'
  <2> DEFINE r == [vms[p] EXCEPT !.state = "creating", !.tenant = req[h].tenant]
  <2>1. p \in Ids /\ DOMAIN r = VmFields /\ r.exposes = vms[p].exposes /\ r.state # "absent"
    BY Zenon DEF Ids, NInv, VInv, VmsOK, VmFields
  <2>2. vms' = [vms EXCEPT ![p] = NoVm, ![req[h].vm] = r]
    BY <1>3, Zenon
  <2> HIDE DEF r
  <2>3. VInv'
    BY <2>1, <2>2, MoveOK, Zenon DEF NInv
  <2>4. /\ ReqOK' /\ (\A g \in Handlers \ {h} : req'[g] = req[g])
        /\ req'[h].pc = "resume" /\ req'[h].vm = req[h].vm
    BY <1>1, <1>3, Zenon DEF ReqOK, ReqFields
  <2> QED BY <1>1, <2>3, <2>4, Calm DEF NInv, Holding, Claiming
<1> QED BY <1>2, <1>3, Zenon DEF Claim

\* A claimed VM is resumed, or its record goes back to the id it came from.
LEMMA ResumeSound == ASSUME NInv, NEW h \in Handlers, Resume(h) PROVE NInv'
<1>1. /\ lock' = lock /\ dnat' = dnat /\ ReqOK
      /\ req[h].pc = "resume" /\ req[h].vm \in Ids
  BY Zenon DEF Resume, rules, At, NInv, RInv, Claiming
<1>2. CASE vms' = [vms EXCEPT ![req[h].vm].state = "running"] /\ Goto(h, "iso")
  <2>1. VInv'
    BY <1>2, StateOK, Zenon DEF NInv
  <2> QED BY <1>1, <1>2, <2>1, GotoOK, Calm DEF NInv, Holding, Claiming
<1>3. CASE /\ vms' = [vms EXCEPT ![req[h].vm] = NoVm,
                        ![req[h].pool] = [vms[req[h].vm] EXCEPT !.state = "error", !.tenant = None]]
           /\ req' = [req EXCEPT ![h].pc = "cold", ![h].pool = None]
  <2> DEFINE v == req[h].vm
             y == req[h].pool
             r == [vms[v] EXCEPT !.state = "error", !.tenant = None]
  <2>1. v \in Ids /\ DOMAIN r = VmFields /\ r.exposes = vms[v].exposes /\ r.state # "absent"
    BY <1>1, Zenon DEF NInv, VInv, VmsOK, VmFields
  <2>2. vms' = [vms EXCEPT ![v] = NoVm, ![y] = r]
    BY <1>3, Zenon
  <2> HIDE DEF r, v, y
  <2>3. VInv'
    BY <2>1, <2>2, MoveOK, Zenon DEF NInv
  <2>4. /\ ReqOK' /\ (\A g \in Handlers \ {h} : req'[g] = req[g])
        /\ req'[h].pc = "cold"
    BY <1>1, <1>3, Zenon DEF ReqOK, ReqFields
  <2> QED BY <1>1, <2>3, <2>4, Calm DEF NInv, Holding, Claiming
<1> QED BY <1>2, <1>3 DEF Resume

\* Steps of a create that leave the exposes of the record empty or as they are.
LEMMA CreateSound ==
    ASSUME NInv, NEW h \in Handlers,
           Cold(h) \/ ClaimSlot(h) \/ SetupTap(h) \/ Boot(h)
    PROVE  NInv'
<1>1. /\ lock' = lock /\ dnat' = dnat /\ ReqOK
      /\ req[h].pc \in {"cold", "prewarm", "slot", "tap", "boot"}
  BY Zenon DEF Cold, ClaimSlot, SetupTap, Boot, rules, At, NInv, RInv
<1>2. ASSUME Failed(h) PROVE NInv'
  <2>1. VInv'
    BY <1>2, StateOK, Zenon DEF Failed, NInv
  <2> QED BY <1>1, <1>2, <2>1, FailedOK, Calm DEF NInv, Holding, Claiming
<1>3. ASSUME vms' = vms, Goto(h, "boot") \/ Done(h) PROVE NInv'
  <2>1. VInv'
    BY <1>3 DEF NInv, VInv, VmsOK, AbsentIsBare, PortsUnique
  <2> QED BY <1>1, <1>3, <2>1, GotoOK, DoneOK, Calm DEF NInv, Holding, Claiming
<1>4. CASE Cold(h)
  <2> DEFINE v == req[h].vm
             r == [NoVm EXCEPT !.state = "creating", !.tenant = req[h].tenant]
  <2>1. DOMAIN r = VmFields /\ r.exposes = NoVm.exposes
    BY Zenon DEF NoVm, VmFields
  <2>2. vms' = [vms EXCEPT ![v] = r] /\ Goto(h, "slot")
    BY <1>4, Zenon DEF Cold
  <2> HIDE DEF r, v
  <2>3. VmsOK' /\ \A u \in Ids : vms'[u] = IF u = v THEN r ELSE vms[u]
    BY <2>1, <2>2, NoVmOK, Zenon DEF NInv, VInv, VmsOK
  <2>4. VInv'
    BY <2>1, <2>3, NoVmOK, Kept, Zenon DEF NInv
  <2> QED BY <1>1, <2>2, <2>4, GotoOK, Calm DEF NInv, Holding, Claiming
<1>5. CASE ClaimSlot(h)
  <2>1. CASE vms' = vms /\ \E s : req' = [req EXCEPT ![h].pc = "tap", ![h].slot = s]
    <3>1. VInv'
      BY <2>1 DEF NInv, VInv, VmsOK, AbsentIsBare, PortsUnique
    <3>2. /\ ReqOK' /\ (\A g \in Handlers \ {h} : req'[g] = req[g])
          /\ req'[h].pc = "tap"
      BY <1>1, <2>1, Zenon DEF ReqOK, ReqFields
    <3> QED BY <1>1, <3>1, <3>2, Calm DEF NInv, Holding, Claiming
  <2> QED BY <1>2, <1>3, <1>5, <2>1 DEF ClaimSlot
<1>6. CASE SetupTap(h)
  BY <1>2, <1>3, <1>6, Zenon DEF SetupTap
<1>7. CASE Boot(h)
  <2>1. ASSUME NEW s, NEW st, st # "absent",
               vms' = [vms EXCEPT ![req[h].vm].slot = s, ![req[h].vm].state = st],
               Done(h) \/ Goto(h, "iso")
        PROVE  NInv'
    <3>1. VmsOK' /\ \A v \in Ids : /\ vms'[v].exposes = vms[v].exposes
                                   /\ vms'[v].state = "absent" => vms[v].state = "absent"
      BY <2>1, Zenon DEF NInv, VInv, VmsOK, VmFields
    <3>2. VInv'
      BY <3>1, Kept, Zenon DEF NInv
    <3> QED BY <1>1, <2>1, <3>2, GotoOK, DoneOK, Calm DEF NInv, Holding, Claiming
  <2>2. CASE Failed(h)
    BY <1>2, <2>2, Zenon
  <2>3. CASE ~Failed(h)
    <3> DEFINE st == IF req[h].op = "prewarm" THEN "pooled" ELSE "running"
    <3>1. /\ vms' = [vms EXCEPT ![req[h].vm].slot = req[h].slot, ![req[h].vm].state = st]
          /\ Done(h) \/ Goto(h, "iso")
          /\ st # "absent"
      BY <1>7, <2>3, Zenon DEF Boot
    <3> QED BY <2>1, <3>1, Zenon
  <2> QED BY <2>2, <2>3
<1> QED BY <1>4, <1>5, <1>6, <1>7

\* The steps of a delete: the record loses its ports only when it goes.
LEMMA DeleteSound ==
    ASSUME NInv, NEW h \in Handlers, Stop(h) \/ Unpin(h) \/ Release(h) \/ Remove(h)
    PROVE  NInv'
<1>1. /\ lock' = lock /\ dnat' = dnat /\ ReqOK
      /\ req[h].pc \in {"delete", "unpin", "release", "record"}
  BY Zenon DEF Stop, Unpin, Release, Remove, rules, At, NInv, RInv
<1>2. CASE Stop(h)
  <2> DEFINE l == IF vms[req[h].vm].slot = None THEN "record" ELSE "unpin"
  <2>1. /\ vms' = vms \/ vms' = [vms EXCEPT ![req[h].vm].state = "stopped"]
        /\ req' = [req EXCEPT ![h].slot = vms[req[h].vm].slot, ![h].pc = l]
    BY <1>2, Zenon DEF Stop
  <2>2. l \in {"record", "unpin"}
    BY Zenon
  <2> HIDE DEF l
  <2>3. VInv'
    <3>1. CASE vms' = vms
      BY <3>1 DEF NInv, VInv, VmsOK, AbsentIsBare, PortsUnique
    <3> QED BY <2>1, <3>1, StateOK DEF NInv
  <2>4. /\ ReqOK' /\ (\A g \in Handlers \ {h} : req'[g] = req[g])
        /\ req'[h].pc = l
    BY <1>1, <2>1, Zenon DEF ReqOK, ReqFields
  <2> QED BY <1>1, <2>2, <2>3, <2>4, Calm DEF NInv, Holding, Claiming
<1>3. CASE Unpin(h) \/ Release(h)
  <2>1. vms' = vms /\ (Goto(h, "release") \/ Goto(h, "record"))
    BY <1>3, Zenon DEF Unpin, Release
  <2>2. VInv'
    BY <2>1 DEF NInv, VInv, VmsOK, AbsentIsBare, PortsUnique
  <2> QED BY <1>1, <2>1, <2>2, GotoOK, Calm DEF NInv, Holding, Claiming
<1>4. CASE Remove(h)
  <2> DEFINE v == req[h].vm
  <2>1. vms' = [vms EXCEPT ![v] = NoVm] /\ Goto(h, "iso")
    BY <1>4, Zenon DEF Remove
  <2> HIDE DEF v
  <2>2. VmsOK' /\ \A u \in Ids : vms'[u] = IF u = v THEN NoVm ELSE vms[u]
    BY <2>1, NoVmOK, Zenon DEF NInv, VInv, VmsOK
  <2>3. VInv'
    BY <2>2, NoVmOK, Kept, Zenon DEF NInv
  <2> QED BY <1>1, <2>1, <2>3, GotoOK, Calm DEF NInv, Holding, Claiming
<1> QED BY <1>2, <1>3, <1>4

\* start and stop change the state of a record.
LEMMA RunSound ==
    ASSUME NInv, NEW h \in Handlers, Start(h) \/ Spawn(h) \/ StopOnly(h)
    PROVE  NInv'
<1>1. /\ lock' = lock /\ dnat' = dnat /\ ReqOK
      /\ req[h].pc \in {"start", "spawn", "stop"}
      /\ Done(h) \/ Goto(h, "spawn")
  BY Zenon DEF Start, Spawn, StopOnly, rules, At, NInv, RInv
<1>2. VInv'
  <2>1. CASE vms' = vms
    BY <2>1 DEF NInv, VInv, VmsOK, AbsentIsBare, PortsUnique
  <2>2. CASE \E st \in {"running", "stopped"} : vms' = [vms EXCEPT ![req[h].vm].state = st]
    BY <2>2, StateOK, Zenon DEF NInv
  <2> QED BY <2>1, <2>2 DEF Start, Spawn, StopOnly
<1> QED BY <1>1, <1>2, GotoOK, DoneOK, Calm DEF NInv, Holding, Claiming

\* expose picks a port that no record has.
LEMMA ExposeSound ==
    ASSUME NInv, NEW h \in Handlers, Expose(h) \/ Unexpose(h)
    PROVE  NInv'
<1> DEFINE v == req[h].vm
           q == req[h].port
<1>1. /\ lock' = lock /\ dnat' = dnat /\ ReqOK
      /\ req[h].pc \in {"expose", "unexpose"}
      /\ Done(h) \/ Goto(h, "ingress")
  BY Zenon DEF Expose, Unexpose, rules, At, NInv, RInv
<1>2. VInv'
  <2>1. \/ vms' = vms
        \/ \E n : /\ vms' = [vms EXCEPT ![v].exposes[q] = n]
                  /\ n # None => n \notin Taken /\ Present(v)
    <3>1. CASE Free(v) # {}
      <4>1. Min(Free(v)) \notin Taken
        BY <3>1, MinOK DEF Free
      <4> QED BY <4>1, Zenon DEF Expose, Unexpose
    <3> QED BY <3>1, Zenon DEF Expose, Unexpose
  <2>2. CASE vms' = vms
    BY <2>2 DEF NInv, VInv, VmsOK, AbsentIsBare, PortsUnique
  <2>3. CASE v \notin Ids
    <3>1. VmsOK' /\ \A u \in Ids : vms'[u] = vms[u]
      BY <2>1, <2>3, Zenon DEF NInv, VInv, VmsOK
    <3> QED BY <3>1, Kept DEF NInv
  <2> HIDE DEF v, q
  <2>4. CASE v \in Ids
    BY <2>1, <2>2, <2>4, PortOK, Zenon DEF NInv
  <2> QED BY <2>3, <2>4
<1> QED BY <1>1, <1>2, GotoOK, DoneOK, Calm DEF NInv, Holding, Claiming

----------------------------------------------------------------------------
\* What a start finds.
LEMMA InitSound == Init => NInv
<1> SUFFICES ASSUME Init PROVE NInv
  BY Zenon
<1>1. PICK A \in SUBSET DOMAIN AdoptedAt, t \in [DOMAIN AdoptedAt -> Tenants],
           st \in {"running", "stopped"} :
         vms = [v \in Ids |-> IF v \notin A THEN NoVm ELSE
                  [NoVm EXCEPT !.state = st, !.tenant = t[v], !.slot = AdoptedAt[v]]]
  BY Zenon DEF Init
<1>2. /\ VmsOK
      /\ \A v \in Ids, p \in Ports : vms[v].exposes[p] = None
  BY <1>1, Zenon DEF VmsOK, NoVm, VmFields
<1>3. VInv
  BY <1>2, Zenon DEF VInv, AbsentIsBare, PortsUnique
<1>4. req = [h \in Handlers |-> Idle] /\ lock = None /\ dnat = {}
  BY Zenon DEF Init
<1>5. ReqOK /\ \A h \in Handlers : req[h].pc = "idle"
  BY <1>4, Zenon DEF ReqOK, ReqFields, Idle
<1> QED BY <1>3, <1>4, <1>5 DEF NInv, RInv, LockIsShort, OneEach, At, Claiming

\* Every step keeps the invariant.
LEMMA StepSound == NInv /\ [Next]_vars => NInv'
<1> SUFFICES ASSUME NInv, [Next]_vars PROVE NInv'
  BY Zenon
<1>1. CASE UNCHANGED vars
  <2>1. VInv'
    BY <1>1 DEF vars, NInv, VInv, VmsOK, AbsentIsBare, PortsUnique
  <2> QED BY <1>1, <2>1, Unmoved DEF vars, NInv, RInv
<1>2. ASSUME NEW h \in Handlers, Step(h) PROVE NInv'
  BY Zenon, <1>2, ClaimSound, ResumeSound, CreateSound, RebuildSound, DeleteSound, RunSound,
     ExposeSound DEF Step
<1> QED BY <1>1, <1>2, BootingSound, BeginSound, FcExitSound DEF Next

\* Two rebuilds of rules never mix their commands, and no request waits for
\* ruleset_lock while it holds it.
THEOREM RebuildsExclude == Spec => []LockIsShort
<1>1. NInv => LockIsShort
  BY Zenon DEF NInv, RInv
<1> QED BY InitSound, StepSound, <1>1, PTL DEF Spec

\* A node port leads to one guest, in the records and in the rules in force.
THEOREM PortsStayUnique == Spec => []OneTarget
<1>1. NInv => OneTarget
  BY Zenon DEF NInv, VInv, RInv, PortsUnique, OneEach, OneTarget
<1> QED BY InitSound, StepSound, <1>1, PTL DEF Spec

----------------------------------------------------------------------------
(* Who has a slot. *)

Makers == {"create", "fork", "prewarm"}
Exposers == {"expose", "unexpose"}
Owning == {"tap", "boot"}
Ending == {"unpin", "release"}
Bare == {"create", "cold", "prewarm", "slot", "tap", "boot"}

\* The places of each kind of request, and the ids it is sent for.
Fits(op, l) ==
    \/ op = "create" /\ l \in {"create", "resume"}
    \/ op \in {"create", "fork"} /\ l = "cold"
    \/ op = "prewarm" /\ l = "prewarm"
    \/ op \in Makers /\ l \in {"slot", "tap", "boot"}
    \/ op \in Makers \cup {"delete"} /\ l \in Ending \cup {"delete", "record", "iso", "apply"}
    \/ op \in Makers \cup Exposers \cup {"delete"} /\ l \in {"ingress", "fill"}
    \/ op = "start" /\ l \in {"start", "spawn"}
    \/ op = "stop" /\ l = "stop"
    \/ op \in Exposers /\ l = op
Targets(op) == IF op = "prewarm" THEN Parked ELSE IF op = "delete" THEN Ids ELSE Vms

\* A request at work on its VM.
Act(h) == req[h].pc # "idle" /\ req[h].op \notin Exposers

PlacesOK == \A h \in Handlers : req[h].pc # "idle" =>
    boot = "serve" /\ Fits(req[h].op, req[h].pc) /\ req[h].vm \in Targets(req[h].op)

\* feluccad has one request at work on a VM.
OneActor == \A g, h \in Handlers : Act(g) /\ Act(h) /\ req[g].vm = req[h].vm => g = h

\* The exposes of a VM are gone with its address.
RecordsOK == \A v \in Ids :
    /\ vms[v].slot \in Slots \cup {None}
    /\ vms[v].state = "absent" => vms[v].slot = None
    /\ vms[v].slot = None => \A p \in Ports : vms[v].exposes[p] = None

\* A guest is on the tap of the slot in its record.
GuestsOK == \A s \in Slots : guest[s] # None => guest[s] \in Ids /\ vms[guest[s]].slot = s

\* A record whose slot is already given back, by a delete about to drop it.
Freed(v) == \E h \in Handlers : At(h, "record") /\ req[h].vm = v /\ req[h].slot = vms[v].slot

\* Two records have a slot only while the first is about to go.
Alone == \A u, v \in Ids :
    vms[u].slot # None /\ vms[u].slot = vms[v].slot /\ u # v => Freed(u) \/ Freed(v)

\* A create has its slot for itself.
ClaimsOK == \A h \in Handlers : req[h].pc \in Owning =>
    /\ req[h].slot \in Slots \cap used
    /\ \A v \in Ids : vms[v].slot = req[h].slot => Freed(v)
    /\ \A g \in Handlers : req[g].pc \in Owning /\ req[g].slot = req[h].slot => g = h

UsedOK == \A v \in Ids : vms[v].slot # None /\ ~Freed(v) => vms[v].slot \in used

\* A delete works on the slot of its record, whose guest is stopped.
EndingOK == \A h \in Handlers :
    /\ req[h].pc \in Ending => req[h].slot = vms[req[h].vm].slot /\ req[h].slot # None
    /\ req[h].pc \in Ending \cup {"record"} =>
          \A s \in Slots : guest[s] # None => guest[s] # req[h].vm

BareOK == \A h \in Handlers : req[h].pc \in Bare => vms[req[h].vm].slot = None

\* What a create may claim: nobody works on it but a delete that has not begun.
PooledOK == \A p \in Ids : vms[p].state = "pooled" =>
    /\ p \in Parked
    /\ \A h \in Handlers : Act(h) /\ req[h].vm = p => At(h, "delete") /\ req[h].op = "delete"

\* The id that a claimed record came from stays free for it.
ResumesOK == \A h \in Handlers : At(h, "resume") =>
    /\ req[h].pool \in Parked /\ vms[req[h].pool].state = "absent"
    /\ \A g \in Handlers : /\ Act(g) /\ req[g].vm = req[h].pool => req[g].op = "delete"
                           /\ At(g, "resume") /\ req[g].pool = req[h].pool => g = h

SpawnsOK == \A h \in Handlers : At(h, "spawn") => vms[req[h].vm].slot # None

\* No guest is, or is about to be, on a bare tap.
TapsOK ==
    /\ boot \notin {"setup", "repin"} =>
          \A s \in Slots : guest[s] # None => tap[s] # "bare"
    /\ \A h \in Handlers :
          /\ At(h, "boot") => tap[req[h].slot] # "bare"
          /\ At(h, "spawn") => tap[vms[req[h].vm].slot] # "bare"

NodeOK == DOMAIN guest = Slots /\ DOMAIN tap = Slots

\* The inductive invariant of the slots.
SInv == /\ NodeOK /\ PlacesOK /\ OneActor /\ RecordsOK /\ GuestsOK /\ Alone /\ ClaimsOK
        /\ UsedOK /\ EndingOK /\ BareOK /\ PooledOK /\ ResumesOK /\ SpawnsOK /\ TapsOK

----------------------------------------------------------------------------
(* What a step changes. *)

Others(h) == \A g \in Handlers : g # h => req'[g] = req[g]
Same(h) == /\ req'[h].op = req[h].op /\ req'[h].vm = req[h].vm /\ req'[h].pool = req[h].pool
           /\ req'[h].tenant = req[h].tenant
Moved(h, l) == Others(h) /\ Same(h) /\ req'[h].pc = l
SlotsKept == \A v \in Ids : vms'[v].slot = vms[v].slot
FreedGrows == \A v \in Ids : Freed(v) => Freed(v)'
GuestsFade == \A s \in Slots : guest'[s] \in {guest[s], None}

\* No slot, and no address, is None.
LEMMA NoneNoSlot == None \notin Slots
BY NetAssumption DEF Slots

\* No id is None.
LEMMA NoneNoId == None \notin Ids
BY NetAssumption, Zenon DEF Ids

\* A request that is under way is for a VM.
LEMMA VmOf == ASSUME PlacesOK, NEW h \in Handlers, req[h].pc # "idle" PROVE req[h].vm \in Ids
BY Zenon DEF PlacesOK, Targets, Ids

\* What a request that goes on keeps.
LEMMA GotoIs == ASSUME ReqOK, NEW h \in Handlers, NEW l, Goto(h, l)
    PROVE  Moved(h, l) /\ req'[h].slot = req[h].slot /\ req'[h].refused = req[h].refused
           /\ req'[h].snap = req[h].snap
BY Zenon DEF ReqOK, ReqFields, Goto, Moved, Others, Same

\* What a request that ends leaves.
LEMMA DoneIs == ASSUME ReqOK, NEW h \in Handlers, Done(h)
    PROVE  Others(h) /\ req'[h] = Idle /\ req'[h].pc = "idle" /\ req'[h].slot = None
BY Zenon DEF ReqOK, ReqFields, Done, Others, Idle

\* Requests.
LEMMA PlacesStep ==
    ASSUME PlacesOK, NEW h \in Handlers, Others(h), boot' = boot,
           req'[h].pc # "idle" =>
              boot = "serve" /\ Fits(req'[h].op, req'[h].pc) /\ req'[h].vm \in Targets(req'[h].op)
    PROVE  PlacesOK'
BY Zenon DEF PlacesOK, Others, Targets, Ids

\* One request at work on a VM: a step that begins none.
LEMMA ActorStep ==
    ASSUME OneActor, NEW h \in Handlers, Others(h),
           Act(h)' => Act(h) /\ req'[h].vm = req[h].vm
    PROVE  OneActor'
BY Zenon DEF OneActor, Others, Act

\* A freed record stays freed until its delete takes the next step.
LEMMA FreedStep ==
    ASSUME NEW h \in Handlers, Others(h), SlotsKept, ~At(h, "record")
    PROVE  FreedGrows
BY Zenon DEF Others, SlotsKept, Freed, FreedGrows, At

\* Slots: a step that gives no record another.
LEMMA AloneStep == ASSUME Alone, SlotsKept, FreedGrows PROVE Alone'
BY Zenon DEF Alone, SlotsKept, FreedGrows

\* Slots in use: a step that gives none back.
LEMMA UsedStep == ASSUME UsedOK, SlotsKept, FreedGrows, used \subseteq used' PROVE UsedOK'
BY Zenon DEF UsedOK, SlotsKept, FreedGrows

\* The slot of a create: a step in which none is taken.
LEMMA ClaimsStep ==
    ASSUME ClaimsOK, SlotsKept, FreedGrows, used \subseteq used', NEW h \in Handlers, Others(h),
           req'[h].pc \in Owning => req[h].pc \in Owning /\ req'[h].slot = req[h].slot
    PROVE  ClaimsOK'
<1>1. \A g \in Handlers : req'[g].pc \in Owning =>
         req[g].pc \in Owning /\ req'[g].slot = req[g].slot
  BY Zenon DEF Others
<1>2. \A g \in Handlers : req'[g].pc \in Owning => req'[g].slot \in Slots \cap used'
  BY <1>1 DEF ClaimsOK
<1>3. \A g \in Handlers : req'[g].pc \in Owning =>
         \A v \in Ids : vms'[v].slot = req'[g].slot => Freed(v)'
  BY <1>1, Zenon DEF ClaimsOK, SlotsKept, FreedGrows
<1>4. \A f, g \in Handlers : req'[f].pc \in Owning /\ req'[g].pc \in Owning
         /\ req'[f].slot = req'[g].slot => f = g
  BY <1>1, Zenon DEF ClaimsOK
<1> QED BY <1>2, <1>3, <1>4, Zenon DEF ClaimsOK

\* Records without a slot: a step that gives none.
LEMMA BareStep ==
    ASSUME PlacesOK, BareOK, SlotsKept, NEW h \in Handlers, Others(h),
           req'[h].pc \in Bare => vms'[req'[h].vm].slot = None
    PROVE  BareOK'
<1>1. \A g \in Handlers : req[g].pc \in Bare => req[g].vm \in Ids
  BY VmOf, Zenon DEF Bare
<1> QED BY <1>1, Zenon DEF BareOK, SlotsKept, Others

\* The address of a VM that is started.
LEMMA SpawnStep ==
    ASSUME PlacesOK, SpawnsOK, SlotsKept, NEW h \in Handlers, Others(h),
           At(h, "spawn")' => vms'[req'[h].vm].slot # None
    PROVE  SpawnsOK'
<1>1. \A g \in Handlers : At(g, "spawn") => req[g].vm \in Ids
  BY VmOf, Zenon DEF At
<1> QED BY <1>1, Zenon DEF SpawnsOK, SlotsKept, Others, At

\* Records: a step that removes none.
LEMMA RecordsStep ==
    ASSUME RecordsOK, SlotsKept, \A v \in Ids : vms'[v].state = "absent" => vms[v].state = "absent",
           \A v \in Ids : vms[v].slot = None => vms'[v].exposes = vms[v].exposes
                                             \/ \A p \in Ports : vms'[v].exposes[p] = None
    PROVE  RecordsOK'
BY Zenon DEF RecordsOK, SlotsKept

\* Guests: a step that starts none.
LEMMA GuestsStep == ASSUME GuestsOK, SlotsKept, GuestsFade PROVE GuestsOK'
<1>1. \A s \in Slots : guest'[s] # None => guest'[s] = guest[s]
  BY Zenon DEF GuestsFade
<1> QED BY <1>1, Zenon DEF GuestsOK, SlotsKept

\* A delete that goes on, or begins with a guest that is stopped.
LEMMA EndingStep ==
    ASSUME PlacesOK, EndingOK, SlotsKept, NEW h \in Handlers, Others(h), GuestsFade,
           req'[h].pc \in Ending => req'[h].slot = vms'[req'[h].vm].slot /\ req'[h].slot # None,
           req'[h].pc \in Ending \cup {"record"} =>
              \A s \in Slots : guest'[s] # None => guest'[s] # req'[h].vm
    PROVE  EndingOK'
<1>1. \A g \in Handlers : req[g].pc \in Ending => req[g].vm \in Ids
  BY VmOf, Zenon DEF Ending
<1>2. \A g \in Handlers : req'[g].pc \in Ending =>
         req'[g].slot = vms'[req'[g].vm].slot /\ req'[g].slot # None
  BY <1>1 DEF EndingOK, SlotsKept, Others
<1>3. \A s \in Slots : guest'[s] # None => guest'[s] = guest[s]
  BY Zenon DEF GuestsFade
<1>4. \A g \in Handlers : req'[g].pc \in Ending \cup {"record"} =>
         \A s \in Slots : guest'[s] # None => guest'[s] # req'[g].vm
  BY <1>3, Zenon DEF EndingOK, Others
<1> QED BY <1>2, <1>4, Zenon DEF EndingOK

\* The pool: a step that parks no VM.
LEMMA PooledStep ==
    ASSUME PooledOK, \A v \in Ids : vms'[v].state = "pooled" => vms[v].state = "pooled",
           NEW h \in Handlers, Others(h), Act(h)' => req'[h].vm = req[h].vm /\ Act(h),
           At(h, "delete") => vms'[req[h].vm].state # "pooled"
    PROVE  PooledOK'
BY DEF PooledOK, Others, Act, At

\* The ids that claimed records came from: a step of another request.
LEMMA ResumesStep ==
    ASSUME ResumesOK, PlacesOK, NEW h \in Handlers, Others(h), ~At(h, "resume")',
           \A v \in Ids : v # req[h].vm \/ ~Act(h) \/ req[h].op = "delete" =>
                             (vms[v].state = "absent" => vms'[v].state = "absent"),
           Act(h)' => Act(h) /\ req'[h].vm = req[h].vm /\ req'[h].op = req[h].op
    PROVE  ResumesOK'
<1>1. \A g \in Handlers : At(g, "resume")' => g # h /\ At(g, "resume") /\ req'[g] = req[g]
  BY Zenon DEF Others, At
<1>2. \A g \in Handlers : At(g, "resume")' => req[g].pool \in Ids
  BY <1>1, Zenon DEF ResumesOK, Ids
<1>3. \A g \in Handlers : At(g, "resume")' => vms'[req'[g].pool].state = "absent"
  BY <1>1, <1>2 DEF ResumesOK
<1>4. \A f, g \in Handlers : At(f, "resume")' /\ Act(g)' /\ req'[g].vm = req'[f].pool
         => req'[g].op = "delete"
  BY <1>1 DEF ResumesOK, Others, Act
<1> QED BY <1>1, <1>3, <1>4 DEF ResumesOK

\* Taps: a step that makes no tap bare.
LEMMA TapsStep ==
    ASSUME PlacesOK, TapsOK, GuestsFade, SlotsKept, boot' = boot, NEW h \in Handlers, Others(h),
           NodeOK, ClaimsOK, SpawnsOK, RecordsOK,
           \A s \in Slots : tap[s] # "bare" => tap'[s] # "bare",
           At(h, "boot")' => tap'[req'[h].slot] # "bare",
           At(h, "spawn")' => tap'[vms'[req'[h].vm].slot] # "bare"
    PROVE  TapsOK'
<1>1. \A s \in Slots : guest'[s] # None => guest'[s] = guest[s]
  BY Zenon DEF GuestsFade
<1>2. (boot \notin {"setup", "repin"} => \A s \in Slots : guest[s] # None => tap[s] # "bare")'
  BY <1>1, Zenon DEF TapsOK
<1>3. \A g \in Handlers : At(g, "boot")' => tap'[req'[g].slot] # "bare"
  <2>1. \A g \in Handlers : At(g, "boot") => req[g].slot \in Slots
    BY Zenon DEF ClaimsOK, Owning, At
  <2> QED BY <2>1, Zenon DEF TapsOK, Others, At
<1>4. \A g \in Handlers : At(g, "spawn")' => tap'[vms'[req'[g].vm].slot] # "bare"
  <2>1. \A g \in Handlers : At(g, "spawn") =>
           req[g].vm \in Ids /\ vms[req[g].vm].slot \in Slots
    BY VmOf, Zenon DEF At, SpawnsOK, RecordsOK
  <2>2. \A g \in Handlers : At(g, "spawn") =>
           vms'[req[g].vm].slot = vms[req[g].vm].slot /\ tap'[vms[req[g].vm].slot] # "bare"
    BY <2>1, Zenon DEF TapsOK, SlotsKept
  <2> QED BY <2>2, Zenon DEF Others, At
<1> QED BY <1>2, <1>3, <1>4, Zenon DEF TapsOK

\* A request goes on with its work, or ends it, and the slots stay in the records.
Walking(h) ==
    /\ Others(h) /\ boot' = boot /\ SlotsKept /\ NodeOK'
    /\ ~At(h, "record") /\ ~At(h, "resume")'
    /\ req'[h].pc # "idle" => req[h].pc # "idle" /\ Same(h) /\ Fits(req[h].op, req'[h].pc)
    /\ req'[h].pc \in Bare => req[h].pc \in Bare
    /\ At(h, "spawn")' => vms[req[h].vm].slot # None

\* What it may do to records: change the state of its own, or its ports.
Keeping(h) ==
    /\ \A v \in Ids : /\ vms'[v].state = "pooled" => vms[v].state = "pooled"
                      /\ vms'[v].state = "absent" => vms[v].state = "absent"
                      /\ v # req[h].vm \/ ~Act(h) \/ req[h].op = "delete" =>
                            (vms[v].state = "absent" => vms'[v].state = "absent")
                      /\ vms[v].slot = None => vms'[v].exposes = vms[v].exposes
                                            \/ \A p \in Ports : vms'[v].exposes[p] = None
    /\ At(h, "delete") => vms'[req[h].vm].state # "pooled"

\* Such a step keeps the invariant but for what is about slots and taps.
LEMMA Walks ==
    ASSUME SInv, NEW h \in Handlers, Walking(h), Keeping(h),
           GuestsOK', ClaimsOK', UsedOK', EndingOK', TapsOK'
    PROVE  SInv'
<1>1. PlacesOK /\ OneActor /\ RecordsOK /\ Alone /\ BareOK /\ PooledOK /\ ResumesOK /\ SpawnsOK
  BY Zenon DEF SInv
<1>2. /\ Others(h) /\ boot' = boot /\ SlotsKept /\ NodeOK'
      /\ ~At(h, "record") /\ ~At(h, "resume")'
  BY Zenon DEF Walking
<1>3. Act(h)' => Act(h) /\ req'[h].vm = req[h].vm /\ req'[h].op = req[h].op
  BY Zenon DEF Walking, Act, Same
<1>4. PlacesOK'
  <2>1. req'[h].pc # "idle" => boot = "serve" /\ req[h].vm \in Targets(req[h].op)
    BY <1>1, Zenon DEF PlacesOK, Walking
  <2> QED BY <1>1, <1>2, <2>1, PlacesStep, Zenon DEF Walking, Same
<1>5. OneActor'
  BY <1>1, <1>2, <1>3, ActorStep, Zenon
<1>6. FreedGrows
  BY <1>2, FreedStep, Zenon
<1>7. Alone'
  BY <1>1, <1>2, <1>6, AloneStep, Zenon
<1>8. RecordsOK'
  BY <1>1, <1>2, RecordsStep, Zenon DEF Keeping
<1>9. BareOK'
  <2>1. req'[h].pc \in Bare => vms'[req'[h].vm].slot = None
    <3> SUFFICES ASSUME req'[h].pc \in Bare PROVE vms'[req'[h].vm].slot = None
      BY Zenon
    <3>1. req[h].pc \in Bare /\ req'[h].pc # "idle" /\ req[h].pc # "idle"
      BY Zenon DEF Walking, Bare
    <3>2. req[h].vm \in Ids /\ req'[h].vm = req[h].vm
      BY <1>1, <3>1, VmOf, Zenon DEF Walking, Same
    <3> QED BY <1>1, <1>2, <3>1, <3>2, Zenon DEF BareOK, SlotsKept
  <2> QED BY <1>1, <1>2, <2>1, BareStep, Zenon
<1>10. SpawnsOK'
  <2>1. At(h, "spawn")' => vms'[req'[h].vm].slot # None
    <3> SUFFICES ASSUME At(h, "spawn")' PROVE vms'[req'[h].vm].slot # None
      BY Zenon
    <3>1. req[h].pc # "idle" /\ vms[req[h].vm].slot # None /\ req'[h].vm = req[h].vm
      BY Zenon DEF Walking, At, Same
    <3>2. req[h].vm \in Ids
      BY <1>1, <3>1, VmOf, Zenon
    <3> QED BY <1>2, <3>1, <3>2, Zenon DEF SlotsKept
  <2> QED BY <1>1, <1>2, <2>1, SpawnStep, Zenon
<1>11. PooledOK'
  <2>1. \A v \in Ids : vms'[v].state = "pooled" => vms[v].state = "pooled"
    BY Zenon DEF Keeping
  <2>2. At(h, "delete") => vms'[req[h].vm].state # "pooled"
    BY Zenon DEF Keeping
  <2> QED BY <1>1, <1>2, <1>3, <2>1, <2>2, PooledStep, Zenon
<1>12. ResumesOK'
  <2>1. \A v \in Ids : v # req[h].vm \/ ~Act(h) \/ req[h].op = "delete" =>
           (vms[v].state = "absent" => vms'[v].state = "absent")
    BY Zenon DEF Keeping
  <2> QED BY <1>1, <1>2, <1>3, <2>1, ResumesStep, Zenon
<1> QED BY <1>2, <1>4, <1>5, <1>7, <1>8, <1>9, <1>10, <1>11, <1>12, Zenon DEF SInv

\* Such a request, when it takes no slot and gives none back, and guests only go.
LEMMA WalksOn ==
    ASSUME SInv, NEW h \in Handlers, Walking(h), Keeping(h), GuestsFade, used' = used,
           req'[h].pc \in Owning => req[h].pc \in Owning /\ req'[h].slot = req[h].slot,
           req'[h].pc \in Ending => req'[h].slot = vms[req[h].vm].slot /\ req'[h].slot # None,
           req'[h].pc \in Ending \cup {"record"} =>
              \A s \in Slots : guest'[s] # None => guest'[s] # req[h].vm,
           TapsOK'
    PROVE  SInv'
<1>1. /\ PlacesOK /\ GuestsOK /\ ClaimsOK /\ UsedOK /\ EndingOK
      /\ Others(h) /\ SlotsKept /\ ~At(h, "record")
  BY Zenon DEF SInv, Walking
<1>2. FreedGrows
  BY <1>1, FreedStep, Zenon
<1>3. GuestsOK'
  BY <1>1, GuestsStep, Zenon
<1>4. ClaimsOK' /\ UsedOK'
  <2>1. used \subseteq used'
    BY Zenon
  <2> QED BY <1>1, <1>2, <2>1, ClaimsStep, UsedStep, Zenon
<1>5. EndingOK'
  <2>1. req'[h].pc \in Ending \cup {"record"} => req'[h].vm = req[h].vm /\ req[h].vm \in Ids
    <3> SUFFICES ASSUME req'[h].pc \in Ending \cup {"record"}
                 PROVE  req'[h].vm = req[h].vm /\ req[h].vm \in Ids
      BY Zenon
    <3>1. req'[h].pc # "idle"
      BY Zenon DEF Ending
    <3> QED BY <1>1, <3>1, VmOf, Zenon DEF Walking, Same
  <2>2. req'[h].pc \in Ending => req'[h].slot = vms'[req'[h].vm].slot /\ req'[h].slot # None
    BY <1>1, <2>1, Zenon DEF SlotsKept
  <2>3. req'[h].pc \in Ending \cup {"record"} =>
           \A s \in Slots : guest'[s] # None => guest'[s] # req'[h].vm
    BY <2>1, Zenon
  <2> QED BY <1>1, <2>2, <2>3, EndingStep, Zenon
<1> QED BY <1>3, <1>4, <1>5, Walks, Zenon

\* Such a request, when it touches no tap and needs none.
LEMMA WalksDry ==
    ASSUME SInv, NEW h \in Handlers, Walking(h), Keeping(h), GuestsFade, used' = used, tap' = tap,
           req'[h].pc \notin Owning \cup {"spawn"},
           req'[h].pc \in Ending => req'[h].slot = vms[req[h].vm].slot /\ req'[h].slot # None,
           req'[h].pc \in Ending \cup {"record"} =>
              \A s \in Slots : guest'[s] # None => guest'[s] # req[h].vm
    PROVE  SInv'
<1>1. /\ PlacesOK /\ TapsOK /\ SlotsKept /\ boot' = boot /\ Others(h)
      /\ NodeOK /\ ClaimsOK /\ SpawnsOK /\ RecordsOK
  BY Zenon DEF SInv, Walking
<1>2. ~At(h, "boot")' /\ ~At(h, "spawn")' /\ \A s \in Slots : tap[s] # "bare" => tap'[s] # "bare"
  BY Zenon DEF At, Owning
<1>3. TapsOK'
  BY <1>1, <1>2, TapsStep, Zenon
<1>4. req'[h].pc \notin Owning
  BY Zenon
<1> QED BY <1>3, <1>4, WalksOn, Zenon

\* The records keep their slots when nothing happens to them, or when one of
\* them changes its state.
LEMMA VmsStay ==
    ASSUME NEW h \in Handlers, vms' = vms, ~At(h, "delete")
    PROVE  SlotsKept /\ Keeping(h)
BY Zenon DEF SlotsKept, Keeping

\* A request that sets the state of its record.
LEMMA StateSet ==
    ASSUME VmsOK, NEW h \in Handlers, Act(h), req[h].op # "delete", ~At(h, "delete"),
           NEW st, st \notin {"pooled", "absent"}, vms' = [vms EXCEPT ![req[h].vm].state = st]
    PROVE  SlotsKept /\ Keeping(h)
<1>1. \A v \in Ids : /\ vms'[v].slot = vms[v].slot /\ vms'[v].exposes = vms[v].exposes
                     /\ vms'[v].state = IF v = req[h].vm THEN st ELSE vms[v].state
  BY Zenon DEF VmsOK, VmFields
<1> QED BY <1>1 DEF SlotsKept, Keeping

\* A request moves on to a place of its kind.
LEMMA Onward ==
    ASSUME PlacesOK, NEW h \in Handlers, NEW l, Moved(h, l), boot' = boot, SlotsKept, NodeOK',
           req[h].pc \notin {"idle", "record"}, l # "resume", Fits(req[h].op, l),
           l \in Bare => req[h].pc \in Bare, l = "spawn" => vms[req[h].vm].slot # None
    PROVE  Walking(h)
BY Zenon DEF Moved, Walking, At

\* A request ends.
LEMMA Over ==
    ASSUME NEW h \in Handlers, Others(h), req'[h].pc = "idle", boot' = boot, SlotsKept, NodeOK',
           req[h].pc # "record"
    PROVE  Walking(h)
BY Zenon DEF Walking, At, Bare

\* A step that touches no guest and no tap.
LEMMA NodeStays == ASSUME NodeOK, guest' = guest, tap' = tap PROVE NodeOK' /\ GuestsFade
BY Zenon DEF NodeOK, GuestsFade

\* Rebuilds leave the node alone.
LEMMA RebuildKeeps ==
    ASSUME NInv, SInv, NEW h \in Handlers, Refresh(h) \/ Apply(h) \/ Flush(h) \/ Fill(h)
    PROVE  SInv'
<1>1. /\ vms' = vms /\ used' = used /\ guest' = guest /\ tap' = tap /\ boot' = boot
      /\ req[h].pc \in {"iso", "apply", "ingress", "fill"}
  BY Zenon DEF Refresh, Apply, Flush, Fill, node, At
<1>2. ReqOK /\ NodeOK /\ PlacesOK
  BY Zenon DEF NInv, RInv, SInv
<1>3. SlotsKept /\ Keeping(h) /\ NodeOK' /\ GuestsFade
  BY <1>1, <1>2, VmsStay, NodeStays, Zenon DEF At
<1>4. Fits(req[h].op, req[h].pc)
  BY <1>1, <1>2, Zenon DEF PlacesOK
<1>5. CASE Refresh(h)
  <2>1. Moved(h, "apply") /\ req[h].pc = "iso"
    BY <1>2, <1>5, Zenon DEF Refresh, ReqOK, ReqFields, Moved, Others, Same, At
  <2>2. Fits(req[h].op, "apply")
    BY <1>4, <2>1 DEF Fits, Ending, Exposers
  <2>3. Walking(h)
    BY <1>1, <1>2, <1>3, <2>1, <2>2, Onward, Zenon DEF Bare
  <2> QED BY <1>1, <1>3, <2>1, <2>3, WalksDry, Zenon DEF Moved, Owning, Ending
<1>6. CASE Flush(h)
  <2>1. Moved(h, "fill") /\ req[h].pc = "ingress"
    BY <1>2, <1>6, Zenon DEF Flush, ReqOK, ReqFields, Moved, Others, Same, At
  <2>2. Fits(req[h].op, "fill")
    BY <1>4, <2>1 DEF Fits, Ending, Exposers
  <2>3. Walking(h)
    BY <1>1, <1>2, <1>3, <2>1, <2>2, Onward, Zenon DEF Bare
  <2> QED BY <1>1, <1>3, <2>1, <2>3, WalksDry, Zenon DEF Moved, Owning, Ending
<1>7. ASSUME Done(h) PROVE SInv'
  <2>1. Others(h) /\ req'[h].pc = "idle"
    BY <1>2, <1>7, DoneIs, Zenon
  <2>2. Walking(h)
    BY <1>1, <1>3, <2>1, Over, Zenon
  <2> QED BY <1>1, <1>3, <2>1, <2>2, WalksDry, Zenon DEF Owning, Ending
<1>8. CASE Apply(h)
  <2>1. req[h].pc = "apply"
    BY <1>8, Zenon DEF Apply, At
  <2>2. \/ Goto(h, "ingress") \/ Done(h)
        \/ req' = [req EXCEPT ![h].pc = "delete", ![h].refused = TRUE]
    BY <1>8, Zenon DEF Apply
  <2>3. ASSUME NEW l \in {"ingress", "delete"}, Moved(h, l) PROVE SInv'
    <3>1. Fits(req[h].op, l)
      BY <1>4, <2>1 DEF Fits, Ending, Exposers
    <3>2. Walking(h)
      BY <1>1, <1>2, <1>3, <2>3, <3>1, Onward, Zenon DEF Bare
    <3> QED BY <1>1, <1>3, <2>3, <3>2, WalksDry, Zenon DEF Moved, Owning, Ending
  <2>4. CASE Goto(h, "ingress")
    BY <1>2, <2>3, <2>4, GotoIs, Zenon
  <2>5. CASE req' = [req EXCEPT ![h].pc = "delete", ![h].refused = TRUE]
    <3>1. Moved(h, "delete")
      BY <1>2, <2>5, Zenon DEF ReqOK, ReqFields, Moved, Others, Same
    <3> QED BY <2>3, <3>1, Zenon
  <2> QED BY <1>7, <2>2, <2>4, <2>5, Zenon
<1>9. CASE Fill(h)
  BY <1>7, <1>9, Zenon DEF Fill
<1> QED BY <1>5, <1>6, <1>8, <1>9

\* The kind of a request, from its place.
LEMMA Kinds ==
    ASSUME PlacesOK, NEW h \in Handlers
    PROVE  /\ req[h].pc \in {"create", "resume"} => req[h].op = "create"
           /\ req[h].pc = "cold" => req[h].op \in {"create", "fork"}
           /\ req[h].pc = "prewarm" => req[h].op = "prewarm"
           /\ req[h].pc \in {"slot", "tap", "boot"} => req[h].op \in Makers
           /\ req[h].pc \in Ending \cup {"delete", "record", "iso", "apply"} =>
                 req[h].op \in Makers \cup {"delete"}
           /\ req[h].pc \in {"start", "spawn"} => req[h].op = "start"
           /\ req[h].pc = "stop" => req[h].op = "stop"
           /\ req[h].pc \in {"expose", "unexpose"} => req[h].op = req[h].pc
BY DEF PlacesOK, Fits, Ending, Exposers, Makers

\* All of them but the exposes are at work on their VM.
LEMMA Working ==
    ASSUME PlacesOK, NEW h \in Handlers,
           req[h].pc \in Bare \cup Ending \cup {"resume", "delete", "record", "iso", "apply",
                                                "start", "spawn", "stop"}
    PROVE  Act(h) /\ req[h].vm \in Ids
<1>1. req[h].pc # "idle"
  BY DEF Bare, Ending
<1>2. req[h].op \notin Exposers
  BY Kinds DEF Bare, Ending, Makers, Exposers
<1> QED BY <1>1, <1>2, VmOf, Zenon DEF Act

\* A create that fails.
LEMMA FailedWalks ==
    ASSUME NInv, SInv, NEW h \in Handlers, req[h].pc \in {"slot", "tap", "boot"}, Failed(h),
           boot' = boot, NodeOK'
    PROVE  Walking(h) /\ Keeping(h) /\ req'[h].pc \in {"idle", "delete"}
<1>1. ReqOK /\ VmsOK /\ PlacesOK
  BY Zenon DEF NInv, RInv, VInv, SInv
<1>2. Act(h)
  BY <1>1, Working, Zenon DEF Bare
<1>3. req[h].op \in Makers
  BY <1>1, Kinds, Zenon
<1>4. SlotsKept /\ Keeping(h)
  <2>1. vms' = [vms EXCEPT ![req[h].vm].state = "error"]
    BY Zenon DEF Failed
  <2>2. req[h].op # "delete" /\ ~At(h, "delete")
    BY <1>3, Zenon DEF At, Makers
  <2>3. "error" \notin {"pooled", "absent"}
    BY Zenon
  <2> QED BY <1>1, <1>2, <2>1, <2>2, <2>3, StateSet, Zenon
<1>5. CASE Goto(h, "delete")
  <2>1. Moved(h, "delete")
    BY <1>1, <1>5, GotoIs, Zenon
  <2>2. Fits(req[h].op, "delete")
    BY <1>3, Zenon DEF Fits
  <2>3. Walking(h)
    BY <1>1, <1>4, <2>1, <2>2, Onward, Zenon DEF Bare
  <2> QED BY <1>4, <2>1, <2>3, Zenon DEF Moved
<1>6. CASE Done(h)
  <2>1. Others(h) /\ req'[h].pc = "idle"
    BY <1>1, <1>6, DoneIs, Zenon
  <2> QED BY <1>4, <2>1, Over, Zenon
<1> QED BY <1>5, <1>6, Zenon DEF Failed

\* cold_create and the steps of a create that finds no slot, no tap or no VM.
LEMMA ColdKeeps == ASSUME NInv, SInv, NEW h \in Handlers, Cold(h) PROVE SInv'
<1>1. ReqOK /\ VmsOK /\ PlacesOK /\ BareOK /\ NodeOK
  BY Zenon DEF NInv, RInv, VInv, SInv
<1>2. req[h].pc \in {"cold", "prewarm"} /\ req[h].pc \in Bare
  BY Zenon DEF Cold, At, Bare
<1>3. Act(h) /\ req[h].vm \in Ids /\ req[h].op \in Makers /\ vms[req[h].vm].slot = None
  <2>1. req[h].op \in Makers
    BY <1>1, <1>2, Kinds, Zenon DEF Makers
  <2> QED BY <1>1, <1>2, <2>1, Working, Zenon DEF BareOK
<1> DEFINE r == [NoVm EXCEPT !.state = "creating", !.tenant = req[h].tenant]
<1>4. vms' = [vms EXCEPT ![req[h].vm] = r] /\ Goto(h, "slot")
  BY Zenon DEF Cold
<1>5. r.slot = None /\ r.state = "creating" /\ \A p \in Ports : r.exposes[p] = None
  BY Zenon DEF NoVm
<1> HIDE DEF r
<1>6. \A v \in Ids : vms'[v] = IF v = req[h].vm THEN r ELSE vms[v]
  BY <1>1, <1>4, Zenon DEF VmsOK
<1>7. SlotsKept
  BY <1>3, <1>5, <1>6, Zenon DEF SlotsKept
<1>8. Keeping(h)
  <2>1. ~At(h, "delete") /\ req[h].op # "delete"
    BY <1>2, <1>3, Zenon DEF At, Makers
  <2> QED BY <1>3, <1>5, <1>6, <2>1 DEF Keeping
<1>9. /\ boot' = boot /\ used' = used /\ tap' = tap /\ NodeOK' /\ GuestsFade
  BY <1>1, NodeStays, Zenon DEF Cold
<1>10. Moved(h, "slot") /\ Fits(req[h].op, "slot")
  BY <1>1, <1>3, <1>4, GotoIs, Zenon DEF Fits
<1>11. Walking(h)
  BY <1>1, <1>2, <1>7, <1>9, <1>10, Onward, Zenon
<1> QED BY <1>8, <1>9, <1>10, <1>11, WalksDry, Zenon DEF Moved, Owning, Ending

\* A request for whose slot there is nothing to do.
LEMMA DoneKeeps ==
    ASSUME NInv, SInv, NEW h \in Handlers, req[h].pc \notin {"record"}, Done(h), Keeping(h),
           SlotsKept, boot' = boot, used' = used, tap' = tap, NodeOK', GuestsFade
    PROVE  SInv'
<1>1. Others(h) /\ req'[h].pc = "idle"
  BY DoneIs, Zenon DEF NInv, RInv
<1>2. Walking(h)
  BY <1>1, Over, Zenon
<1> QED BY <1>1, <1>2, WalksDry, Zenon DEF Owning, Ending

\* A create that fails, its slot apart.
LEMMA FailedKeeps ==
    ASSUME NInv, SInv, NEW h \in Handlers, req[h].pc \in {"slot", "tap", "boot"}, Failed(h),
           boot' = boot, used' = used, tap' = tap, guest' = guest
    PROVE  SInv'
<1>1. NodeOK' /\ GuestsFade
  BY NodeStays, Zenon DEF SInv
<1>2. Walking(h) /\ Keeping(h) /\ req'[h].pc \in {"idle", "delete"}
  BY <1>1, FailedWalks, Zenon
<1> QED BY <1>1, <1>2, WalksDry, Zenon DEF Owning, Ending

\* A free slot goes to one create.
LEMMA ClaimSlotKeeps == ASSUME NInv, SInv, NEW h \in Handlers, ClaimSlot(h) PROVE SInv'
<1>1. /\ ReqOK /\ PlacesOK /\ NodeOK /\ ClaimsOK /\ UsedOK /\ GuestsOK /\ EndingOK /\ TapsOK
      /\ SpawnsOK /\ RecordsOK
  BY Zenon DEF NInv, RInv, SInv
<1>2. /\ req[h].pc = "slot" /\ boot' = boot /\ guest' = guest /\ tap' = tap
  BY Zenon DEF ClaimSlot, At
<1>3. NodeOK' /\ GuestsFade
  BY <1>1, <1>2, NodeStays, Zenon
<1>4. CASE Failed(h) /\ used' = used
  BY <1>2, <1>4, FailedKeeps, Zenon
<1>5. CASE Done(h) /\ vms' = vms /\ used' = used
  <2>1. SlotsKept /\ Keeping(h)
    BY <1>2, <1>5, VmsStay, Zenon DEF At
  <2> QED BY <1>2, <1>3, <1>5, <2>1, DoneKeeps, Zenon
<1>6. ASSUME NEW s, s \in FreeSlots, vms' = vms, used' = used \cup {s},
             req' = [req EXCEPT ![h].pc = "tap", ![h].slot = s]
      PROVE  SInv'
  <2>1. Moved(h, "tap") /\ req'[h].slot = s
    BY <1>1, <1>6, Zenon DEF ReqOK, ReqFields, Moved, Others, Same
  <2>2. SlotsKept /\ Keeping(h)
    BY <1>2, <1>6, VmsStay, Zenon DEF At
  <2>3. Fits(req[h].op, "tap")
    BY <1>1, <1>2, Kinds, Zenon DEF Fits
  <2>4. Walking(h)
    BY <1>1, <1>2, <1>3, <2>1, <2>2, <2>3, Onward, Zenon DEF Bare
  <2>5. Others(h) /\ FreedGrows
    BY <1>2, <2>1, <2>2, FreedStep, Zenon DEF Moved, At
  <2>6. UsedOK'
    <3>1. used \subseteq used'
      BY <1>6, Zenon
    <3> QED BY <1>1, <2>2, <2>5, <3>1, UsedStep, Zenon
  <2>7. ClaimsOK'
    <3>1. s \in Slots /\ s \notin used /\ s # None
      BY <1>6, NoneNoSlot, Zenon DEF FreeSlots
    <3>2. \A g \in Handlers : req[g].pc \in Owning =>
             /\ req[g].slot \in Slots \cap used
             /\ \A v \in Ids : vms[v].slot = req[g].slot => Freed(v)
      BY <1>1, Zenon DEF ClaimsOK
    <3>3. \A v \in Ids : vms'[v].slot = s => Freed(v)'
      <4>1. \A v \in Ids : vms[v].slot = s => Freed(v)
        BY <1>1, <3>1, Zenon DEF UsedOK
      <4> QED BY <2>2, <2>5, <4>1, Zenon DEF SlotsKept, FreedGrows
    <3>4. \A g \in Handlers : req'[g].pc \in Owning =>
             req'[g].slot \in Slots \cap used' /\ \A v \in Ids : vms'[v].slot = req'[g].slot => Freed(v)'
      <4> SUFFICES ASSUME NEW g \in Handlers, req'[g].pc \in Owning
                   PROVE  /\ req'[g].slot \in Slots \cap used'
                          /\ \A v \in Ids : vms'[v].slot = req'[g].slot => Freed(v)'
        BY Zenon
      <4>1. CASE g = h
        <5>1. req'[g].slot = s
          BY <2>1, <4>1, Zenon
        <5>2. s \in Slots \cap used'
          BY <1>6, <3>1
        <5> QED BY <3>3, <5>1, <5>2, Zenon
      <4>2. CASE g # h
        <5>1. req'[g] = req[g] /\ req[g].pc \in Owning
          BY <2>5, <4>2, Zenon DEF Others
        <5>2. \A v \in Ids : vms'[v].slot = req[g].slot => Freed(v)'
          BY <2>2, <2>5, <3>2, <5>1, Zenon DEF SlotsKept, FreedGrows
        <5>3. req[g].slot \in Slots \cap used'
          BY <1>6, <3>2, <5>1
        <5> QED BY <5>1, <5>2, <5>3, Zenon
      <4> QED BY <4>1, <4>2
    <3>5. \A f, g \in Handlers : req'[f].pc \in Owning /\ req'[g].pc \in Owning
             /\ req'[f].slot = req'[g].slot => f = g
      <4>1. \A g \in Handlers : g # h /\ req'[g].pc \in Owning => req'[g].slot # s
        BY <2>5, <3>1, <3>2 DEF Others
      <4>2. \A f, g \in Handlers : f # h /\ g # h /\ req'[f].pc \in Owning /\ req'[g].pc \in Owning
               /\ req'[f].slot = req'[g].slot => f = g
        BY <1>1, <2>5 DEF Others, ClaimsOK
      <4> QED BY <2>1, <4>1, <4>2
    <3> QED BY <3>4, <3>5 DEF ClaimsOK
  <2>8. GuestsOK'
    BY <1>1, <1>3, <2>2, GuestsStep, Zenon
  <2>9. req'[h].pc = "tap"
    BY <2>1, Zenon DEF Moved
  <2>10. EndingOK'
    BY <1>1, <1>3, <2>2, <2>5, <2>9, EndingStep, Zenon DEF Ending
  <2>11. TapsOK'
    BY <1>1, <1>2, <1>3, <2>2, <2>5, <2>9, TapsStep, Zenon DEF At
  <2> QED BY <2>2, <2>4, <2>6, <2>7, <2>8, <2>10, <2>11, Walks, Zenon
<1>7. ASSUME FreeSlots # {}, used' = used \cup {Min(FreeSlots)}, vms' = vms,
             req' = [req EXCEPT ![h].pc = "tap", ![h].slot = Min(FreeSlots)]
      PROVE  SInv'
  <2>1. Min(FreeSlots) \in FreeSlots
    BY <1>7, MinSlot DEF FreeSlots
  <2> QED BY <1>6, <1>7, <2>1, Zenon
<1> QED BY <1>4, <1>5, <1>7, Zenon DEF ClaimSlot

\* A slot is given back.
LEMMA GiveBack ==
    ASSUME ClaimsOK, UsedOK, SlotsKept, FreedGrows, NEW s, used' = used \ {s},
           \A v \in Ids : vms[v].slot = s => Freed(v)',
           \A g \in Handlers : req'[g].pc \in Owning =>
              req[g].pc \in Owning /\ req'[g].slot = req[g].slot /\ req[g].slot # s
    PROVE  ClaimsOK' /\ UsedOK'
<1>1. UsedOK'
  BY DEF UsedOK, SlotsKept, FreedGrows
<1>2. \A g \in Handlers : req'[g].pc \in Owning => req'[g].slot \in Slots \cap used'
  BY DEF ClaimsOK
<1>3. \A g \in Handlers : req'[g].pc \in Owning =>
         \A v \in Ids : vms'[v].slot = req'[g].slot => Freed(v)'
  BY Zenon DEF ClaimsOK, SlotsKept, FreedGrows
<1>4. \A f, g \in Handlers : req'[f].pc \in Owning /\ req'[g].pc \in Owning
         /\ req'[f].slot = req'[g].slot => f = g
  BY Zenon DEF ClaimsOK
<1> QED BY <1>1, <1>2, <1>3, <1>4, Zenon DEF ClaimsOK

\* ensure_pinned_tap bares no tap.
LEMMA PinCalm ==
    ASSUME NodeOK, NEW s, PinTap(s)
    PROVE  DOMAIN tap' = Slots /\ \A t \in Slots : tap[t] # "bare" => tap'[t] # "bare"
BY DEF NodeOK, PinTap

\* A tap is pinned for a create, or its slot is given back.
LEMMA SetupTapKeeps == ASSUME NInv, SInv, NEW h \in Handlers, SetupTap(h) PROVE SInv'
<1> DEFINE s == req[h].slot
<1>1. /\ ReqOK /\ PlacesOK /\ NodeOK /\ ClaimsOK /\ UsedOK /\ GuestsOK /\ EndingOK /\ TapsOK
      /\ SpawnsOK /\ RecordsOK
  BY Zenon DEF NInv, RInv, SInv
<1>2. /\ req[h].pc = "tap" /\ boot' = boot /\ guest' = guest /\ PinTap(s)
  BY Zenon DEF SetupTap, At
<1>3. /\ NodeOK' /\ GuestsFade
      /\ \A t \in Slots : tap[t] # "bare" => tap'[t] # "bare"
  BY <1>1, <1>2, PinCalm, Zenon DEF NodeOK, GuestsFade
<1>4. CASE tap'[s] = "pinned"
  <2>1. Goto(h, "boot") /\ vms' = vms /\ used' = used
    BY <1>4, Zenon DEF SetupTap
  <2>2. Moved(h, "boot") /\ req'[h].slot = s /\ Others(h) /\ req'[h].pc = "boot"
    BY <1>1, <2>1, GotoIs, Zenon DEF Moved
  <2>3. SlotsKept /\ Keeping(h)
    BY <1>2, <2>1, VmsStay, Zenon DEF At
  <2>4. Fits(req[h].op, "boot")
    BY <1>1, <1>2, Kinds, Zenon DEF Fits
  <2>5. Walking(h)
    BY <1>1, <1>2, <1>3, <2>2, <2>3, <2>4, Onward, Zenon DEF Bare
  <2>6. tap'[req'[h].slot] # "bare"
    BY <1>4, <2>2
  <2>7. TapsOK'
    BY <1>1, <1>2, <1>3, <2>2, <2>3, <2>6, TapsStep, Zenon DEF At
  <2> QED BY <1>2, <1>3, <2>1, <2>2, <2>3, <2>5, <2>7, WalksOn, Zenon DEF Owning, Ending
<1>5. CASE tap'[s] # "pinned"
  <2>1. Failed(h) /\ used' = used \ {s}
    BY <1>5, Zenon DEF SetupTap
  <2>2. Walking(h) /\ Keeping(h) /\ req'[h].pc \in {"idle", "delete"}
    BY <1>2, <1>3, <2>1, FailedWalks, Zenon
  <2>3. Others(h) /\ SlotsKept /\ FreedGrows
    BY <2>2, FreedStep, Zenon DEF Walking
  <2>4. ClaimsOK' /\ UsedOK'
    <3>1. \A v \in Ids : vms[v].slot = s => Freed(v)'
      BY <1>1, <1>2, <2>3, Zenon DEF ClaimsOK, Owning, FreedGrows
    <3>2. \A g \in Handlers : req'[g].pc \in Owning =>
             req[g].pc \in Owning /\ req'[g].slot = req[g].slot /\ req[g].slot # s
      <4>1. \A g \in Handlers : req'[g].pc \in Owning => g # h /\ req'[g] = req[g]
        BY <2>2, <2>3 DEF Others, Owning
      <4>2. req[h].pc \in Owning
        BY <1>2, Zenon DEF Owning
      <4> QED BY <1>1, <4>1, <4>2, Zenon DEF ClaimsOK
    <3> QED BY <1>1, <2>1, <2>3, <3>1, <3>2, GiveBack, Zenon
  <2>5. GuestsOK'
    BY <1>1, <1>3, <2>3, GuestsStep, Zenon
  <2>6. EndingOK'
    BY <1>1, <1>3, <2>2, <2>3, EndingStep, Zenon DEF Ending
  <2>7. TapsOK'
    BY <1>1, <1>2, <1>3, <2>2, <2>3, TapsStep, Zenon DEF At
  <2> QED BY <2>2, <2>4, <2>5, <2>6, <2>7, Walks, Zenon
<1> QED BY <1>4, <1>5

----------------------------------------------------------------------------
(* delete, start and stop. *)

\* A record is given up only by the request that is at work on it.
LEMMA NotFreed ==
    ASSUME PlacesOK, OneActor, NEW h \in Handlers, Act(h), req[h].pc # "record"
    PROVE  ~Freed(req[h].vm)
<1> SUFFICES ASSUME NEW g \in Handlers, At(g, "record"), req[g].vm = req[h].vm PROVE FALSE
  BY Zenon DEF Freed
<1>1. Act(g)
  BY Working, Zenon DEF At
<1> QED BY <1>1, Zenon DEF OneActor, At

\* While a delete works on its slot, nobody else has it.
LEMMA Vacant ==
    ASSUME SInv, NEW h \in Handlers, req[h].pc \in Ending
    PROVE  /\ req[h].slot \in Slots
           /\ \A u \in Ids : vms[u].slot = req[h].slot /\ u # req[h].vm => Freed(u)
           /\ guest[req[h].slot] = None
           /\ \A g \in Handlers : req[g].pc \in Owning => req[g].slot # req[h].slot
           /\ \A g \in Handlers : At(g, "spawn") => vms[req[g].vm].slot # req[h].slot
<1> DEFINE s == req[h].slot
           v == req[h].vm
<1>1. /\ PlacesOK /\ OneActor /\ Alone /\ ClaimsOK /\ EndingOK /\ GuestsOK /\ RecordsOK
  BY Zenon DEF SInv
<1>2. Act(h) /\ v \in Ids /\ ~Freed(v) /\ vms[v].slot = s /\ s # None
  <2>1. Act(h) /\ v \in Ids
    BY <1>1, Working, Zenon
  <2>2. req[h].pc # "record"
    BY Zenon DEF Ending
  <2> QED BY <1>1, <2>1, <2>2, NotFreed, Zenon DEF EndingOK
<1>3. s \in Slots
  BY <1>1, <1>2 DEF RecordsOK
<1>4. \A u \in Ids : vms[u].slot = s /\ u # v => Freed(u)
  BY <1>1, <1>2, Zenon DEF Alone
<1>5. guest[s] = None
  <2> SUFFICES ASSUME guest[s] # None PROVE FALSE
    BY Zenon
  <2>1. guest[s] \in Ids /\ vms[guest[s]].slot = s
    BY <1>1, <1>3, Zenon DEF GuestsOK
  <2>2. guest[s] # v
    BY <1>1, <1>3, Zenon DEF EndingOK
  <2>3. PICK d \in Handlers : At(d, "record") /\ req[d].vm = guest[s]
    BY <1>4, <2>1, <2>2, Zenon DEF Freed
  <2> QED BY <1>1, <1>3, <2>3, Zenon DEF EndingOK, At
<1>6. \A g \in Handlers : req[g].pc \in Owning => req[g].slot # s
  BY <1>1, <1>2, Zenon DEF ClaimsOK
<1>7. \A g \in Handlers : At(g, "spawn") => vms[req[g].vm].slot # s
  <2> SUFFICES ASSUME NEW g \in Handlers, At(g, "spawn"), vms[req[g].vm].slot = s PROVE FALSE
    BY Zenon
  <2>1. Act(g) /\ req[g].vm \in Ids
    BY <1>1, Working, Zenon DEF At
  <2>2. ~Freed(req[g].vm)
    BY <1>1, <2>1, NotFreed, Zenon DEF At
  <2>3. req[g].vm # v
    BY <1>1, <1>2, <2>1, Zenon DEF OneActor, At, Ending
  <2> QED BY <1>4, <2>1, <2>2, <2>3, Zenon
<1> QED BY <1>3, <1>4, <1>5, <1>6, <1>7

\* delete: the slot is read and the guest is stopped.
LEMMA StopKeeps == ASSUME NInv, SInv, NEW h \in Handlers, Stop(h) PROVE SInv'
<1> DEFINE v == req[h].vm
           l == IF vms[v].slot = None THEN "record" ELSE "unpin"
<1>1. ReqOK /\ VmsOK /\ PlacesOK /\ NodeOK
  BY Zenon DEF NInv, RInv, VInv, SInv
<1>2. /\ req[h].pc = "delete" /\ boot' = boot /\ used' = used /\ tap' = tap
      /\ guest' = [s \in Slots |-> IF guest[s] = v THEN None ELSE guest[s]]
      /\ vms' = IF Present(v) THEN [vms EXCEPT ![v].state = "stopped"] ELSE vms
      /\ req' = [req EXCEPT ![h].slot = vms[v].slot, ![h].pc = l]
  BY Zenon DEF Stop, At
<1>3. \A u \in Ids : /\ vms'[u].slot = vms[u].slot /\ vms'[u].exposes = vms[u].exposes
                     /\ vms'[u].state = vms[u].state \/ (vms'[u].state = "stopped" /\ Present(u))
  BY <1>1, <1>2, Zenon DEF VmsOK, VmFields
<1>4. v \in Ids
  BY <1>1, <1>2, Working, Zenon
<1>5. vms'[v].state \in {"stopped", "absent"}
  BY <1>1, <1>2, <1>4, Zenon DEF VmsOK, VmFields, Present
<1>6. SlotsKept /\ Keeping(h)
  BY <1>3, <1>5 DEF SlotsKept, Keeping, Present
<1>7. /\ NodeOK' /\ GuestsFade
      /\ \A s \in Slots : guest'[s] # None => guest'[s] # v
  BY <1>1, <1>2, Zenon DEF NodeOK, GuestsFade
<1>8. Moved(h, l) /\ req'[h].slot = vms[v].slot
  BY <1>1, <1>2, Zenon DEF ReqOK, ReqFields, Moved, Others, Same
<1>9. /\ req'[h].pc = l /\ l \in {"record", "unpin"} /\ (l = "unpin" => vms[v].slot # None)
  BY <1>8, Zenon DEF Moved
<1>10. Fits(req[h].op, l)
  <2>1. req[h].op \in Makers \cup {"delete"}
    BY <1>1, <1>2, Kinds, Zenon
  <2> QED BY <1>9, <2>1, Zenon DEF Fits, Ending
<1> HIDE DEF l
<1>11. Walking(h)
  BY <1>1, <1>2, <1>6, <1>7, <1>8, <1>9, <1>10, Onward DEF Bare
<1> QED BY <1>2, <1>6, <1>7, <1>8, <1>9, <1>11, WalksDry, Zenon DEF Owning, Ending

\* delete: the tap is unpinned, with no guest on it.
LEMMA UnpinKeeps == ASSUME NInv, SInv, NEW h \in Handlers, Unpin(h) PROVE SInv'
<1> DEFINE s == req[h].slot
<1>1. ReqOK /\ PlacesOK /\ NodeOK /\ EndingOK /\ TapsOK /\ ClaimsOK
  BY Zenon DEF NInv, RInv, SInv
<1>2. /\ req[h].pc = "unpin" /\ req[h].pc \in Ending
      /\ boot' = boot /\ used' = used /\ guest' = guest /\ vms' = vms
      /\ tap' = [tap EXCEPT ![s] = IF @ = "none" THEN @ ELSE "bare"]
      /\ Goto(h, "release")
  BY Zenon DEF Unpin, At, Ending
<1>3. /\ NodeOK' /\ GuestsFade /\ \A t \in Slots : t # s => tap'[t] = tap[t]
  BY <1>1, <1>2 DEF NodeOK, GuestsFade
<1>4. SlotsKept /\ Keeping(h)
  BY <1>2, VmsStay, Zenon DEF At
<1>5. /\ Moved(h, "release") /\ req'[h].slot = s /\ Others(h) /\ req'[h].pc = "release"
      /\ Fits(req[h].op, "release")
  <2>1. req[h].op \in Makers \cup {"delete"}
    BY <1>1, <1>2, Kinds, Zenon
  <2> QED BY <1>1, <1>2, <2>1, GotoIs, Zenon DEF Moved, Fits, Ending
<1>6. Walking(h)
  BY <1>1, <1>2, <1>3, <1>4, <1>5, Onward, Zenon DEF Bare
<1>7. TapsOK'
  <2>1. /\ s \in Slots /\ guest[s] = None
        /\ \A g \in Handlers : req[g].pc \in Owning => req[g].slot # s
        /\ \A g \in Handlers : At(g, "spawn") => vms[req[g].vm].slot # s
    BY <1>2, Vacant, Zenon
  <2>2. (boot \notin {"setup", "repin"} => \A t \in Slots : guest[t] # None => tap[t] # "bare")'
    BY <1>1, <1>2, <1>3, <2>1 DEF TapsOK
  <2>3. \A g \in Handlers : At(g, "boot")' => tap'[req'[g].slot] # "bare"
    <3>1. \A g \in Handlers : At(g, "boot")' => At(g, "boot") /\ req'[g] = req[g]
      BY <1>5 DEF At, Others
    <3>2. \A g \in Handlers : At(g, "boot") => req[g].slot \in Slots /\ req[g].slot # s
      BY <1>1, <2>1, Zenon DEF ClaimsOK, Owning, At
    <3> QED BY <1>1, <1>3, <3>1, <3>2 DEF TapsOK
  <2>4. \A g \in Handlers : At(g, "spawn")' => tap'[vms'[req'[g].vm].slot] # "bare"
    <3>1. \A g \in Handlers : At(g, "spawn")' => At(g, "spawn") /\ req'[g] = req[g]
      BY <1>5 DEF At, Others
    <3>2. \A g \in Handlers : At(g, "spawn") =>
             vms[req[g].vm].slot \in Slots /\ vms[req[g].vm].slot # s
      BY <1>1, <2>1, VmOf, Zenon DEF SInv, At, SpawnsOK, RecordsOK
    <3> QED BY <1>1, <1>2, <1>3, <3>1, <3>2 DEF TapsOK
  <2> QED BY <2>2, <2>3, <2>4, Zenon DEF TapsOK
<1>8. /\ s = vms[req[h].vm].slot /\ s # None
      /\ \A t \in Slots : guest'[t] # None => guest'[t] # req[h].vm
  BY <1>1, <1>2, Zenon DEF EndingOK
<1>9. req'[h].pc \notin Owning
  BY <1>5, Zenon DEF Owning
<1> QED BY <1>2, <1>3, <1>4, <1>5, <1>6, <1>7, <1>8, <1>9, WalksOn, Zenon

\* delete: the slot is given back, and its record is freed.
LEMMA ReleaseKeeps == ASSUME NInv, SInv, NEW h \in Handlers, Release(h) PROVE SInv'
<1> DEFINE s == req[h].slot
           v == req[h].vm
<1>1. /\ ReqOK /\ PlacesOK /\ NodeOK /\ EndingOK /\ TapsOK /\ ClaimsOK /\ UsedOK /\ GuestsOK
      /\ SpawnsOK /\ RecordsOK
  BY Zenon DEF NInv, RInv, SInv
<1>2. /\ req[h].pc = "release" /\ req[h].pc \in Ending
      /\ boot' = boot /\ used' = used \ {s} /\ guest' = guest /\ vms' = vms
      /\ tap' = [tap EXCEPT ![s] = "none"]
      /\ Goto(h, "record")
  BY Zenon DEF Release, At, Ending
<1>3. /\ NodeOK' /\ GuestsFade /\ \A t \in Slots : tap[t] # "bare" => tap'[t] # "bare"
  BY <1>1, <1>2 DEF NodeOK, GuestsFade
<1>4. SlotsKept /\ Keeping(h)
  BY <1>2, VmsStay, Zenon DEF At
<1>5. /\ Moved(h, "record") /\ req'[h].slot = s /\ Others(h) /\ req'[h].pc = "record"
      /\ Fits(req[h].op, "record")
  <2>1. req[h].op \in Makers \cup {"delete"}
    BY <1>1, <1>2, Kinds, Zenon
  <2> QED BY <1>1, <1>2, <2>1, GotoIs, Zenon DEF Moved, Fits
<1>6. Walking(h)
  BY <1>1, <1>2, <1>3, <1>4, <1>5, Onward, Zenon DEF Bare
<1>7. FreedGrows
  BY <1>2, <1>4, <1>5, FreedStep, Zenon DEF At
<1>8. /\ s = vms[v].slot /\ s # None /\ req'[h].vm = v
      /\ \A t \in Slots : guest'[t] # None => guest'[t] # req'[h].vm
  BY <1>1, <1>2, <1>5, Zenon DEF EndingOK, Moved, Same
<1>9. ClaimsOK' /\ UsedOK'
  <2>1. /\ \A u \in Ids : vms[u].slot = s /\ u # v => Freed(u)
        /\ \A g \in Handlers : req[g].pc \in Owning => req[g].slot # s
    BY <1>2, Vacant, Zenon
  <2>2. \A u \in Ids : u = v => Freed(u)'
    <3>1. At(h, "record")' /\ req'[h].vm = v /\ req'[h].slot = vms'[v].slot
      BY <1>2, <1>5, <1>8, Zenon DEF At
    <3> QED BY <3>1, Zenon DEF Freed
  <2>3. \A u \in Ids : vms[u].slot = s => Freed(u)'
    BY <1>7, <2>1, <2>2, Zenon DEF FreedGrows
  <2>4. \A g \in Handlers : req'[g].pc \in Owning =>
           req[g].pc \in Owning /\ req'[g].slot = req[g].slot /\ req[g].slot # s
    BY <1>5, <2>1, Zenon DEF Others, Owning
  <2> QED BY <1>1, <1>2, <1>4, <1>7, <2>3, <2>4, GiveBack, Zenon
<1>10. GuestsOK'
  BY <1>1, <1>3, <1>4, GuestsStep, Zenon
<1>11. EndingOK'
  BY <1>1, <1>3, <1>4, <1>5, <1>8, EndingStep, Zenon DEF Ending
<1>12. TapsOK'
  BY <1>1, <1>2, <1>3, <1>4, <1>5, TapsStep, Zenon DEF At
<1> QED BY <1>4, <1>6, <1>9, <1>10, <1>11, <1>12, Walks, Zenon

\* start: the tap is pinned first.
LEMMA StartKeeps == ASSUME NInv, SInv, NEW h \in Handlers, Start(h) PROVE SInv'
<1> DEFINE s == vms[req[h].vm].slot
<1>1. /\ ReqOK /\ VmsOK /\ PlacesOK /\ NodeOK /\ TapsOK /\ ClaimsOK /\ SpawnsOK /\ RecordsOK
  BY Zenon DEF NInv, RInv, VInv, SInv
<1>2. /\ req[h].pc = "start" /\ boot' = boot /\ used' = used /\ guest' = guest
  BY Zenon DEF Start, At
<1>3. Act(h) /\ req[h].vm \in Ids /\ req[h].op = "start"
  BY <1>1, <1>2, Working, Kinds, Zenon
<1>4. CASE s = None /\ vms' = [vms EXCEPT ![req[h].vm].state = "running"] /\ Done(h) /\ tap' = tap
  <2>1. "running" \notin {"pooled", "absent"} /\ req[h].op # "delete" /\ ~At(h, "delete")
    BY <1>2, <1>3, Zenon DEF At
  <2>2. SlotsKept /\ Keeping(h)
    BY <1>1, <1>3, <1>4, <2>1, StateSet, Zenon
  <2>3. NodeOK' /\ GuestsFade
    BY <1>1, <1>2, <1>4, NodeStays, Zenon
  <2> QED BY <1>2, <1>4, <2>2, <2>3, DoneKeeps, Zenon
<1>5. CASE /\ s # None /\ PinTap(s) /\ vms' = vms
           /\ IF tap'[s] = "pinned" THEN Goto(h, "spawn") ELSE Done(h)
  <2>1. SlotsKept /\ Keeping(h)
    BY <1>2, <1>5, VmsStay, Zenon DEF At
  <2>2. /\ NodeOK' /\ GuestsFade
        /\ \A t \in Slots : tap[t] # "bare" => tap'[t] # "bare"
    BY <1>1, <1>2, <1>5, PinCalm, Zenon DEF NodeOK, GuestsFade
  <2>3. CASE Goto(h, "spawn") /\ tap'[s] = "pinned"
    <3>1. Moved(h, "spawn") /\ Others(h) /\ req'[h].pc = "spawn" /\ req'[h].vm = req[h].vm
      BY <1>1, <2>3, GotoIs, Zenon DEF Moved, Same
    <3>2. Walking(h)
      BY <1>1, <1>2, <1>3, <1>5, <2>1, <2>2, <3>1, Onward, Zenon DEF Bare, Fits
    <3>3. TapsOK'
      <4>1. tap'[vms'[req'[h].vm].slot] # "bare"
        BY <1>5, <2>3, <3>1
      <4> QED BY <1>1, <1>2, <2>1, <2>2, <3>1, <4>1, TapsStep, Zenon DEF At
    <3> QED BY <1>2, <2>1, <2>2, <3>1, <3>2, <3>3, WalksOn, Zenon DEF Owning, Ending
  <2>4. CASE Done(h)
    <3>1. Others(h) /\ req'[h].pc = "idle"
      BY <1>1, <2>4, DoneIs, Zenon
    <3>2. Walking(h)
      BY <1>2, <2>1, <2>2, <3>1, Over, Zenon
    <3>3. TapsOK'
      BY <1>1, <1>2, <2>1, <2>2, <3>1, TapsStep, Zenon DEF At
    <3> QED BY <1>2, <2>1, <2>2, <3>1, <3>2, <3>3, WalksOn, Zenon DEF Owning, Ending
  <2> QED BY <1>5, <2>3, <2>4, Zenon
<1> QED BY <1>4, <1>5, Zenon DEF Start

\* stop.
LEMMA StopOnlyKeeps == ASSUME NInv, SInv, NEW h \in Handlers, StopOnly(h) PROVE SInv'
<1>1. ReqOK /\ VmsOK /\ PlacesOK /\ NodeOK
  BY Zenon DEF NInv, RInv, VInv, SInv
<1>2. /\ req[h].pc = "stop" /\ boot' = boot /\ used' = used /\ tap' = tap /\ Done(h)
      /\ vms' = [vms EXCEPT ![req[h].vm].state = "stopped"]
      /\ guest' = [s \in Slots |-> IF guest[s] = req[h].vm THEN None ELSE guest[s]]
  BY Zenon DEF StopOnly, At
<1>3. Act(h) /\ req[h].op = "stop"
  BY <1>1, <1>2, Working, Kinds, Zenon
<1>4. "stopped" \notin {"pooled", "absent"} /\ req[h].op # "delete" /\ ~At(h, "delete")
  BY <1>2, <1>3, Zenon DEF At
<1>5. SlotsKept /\ Keeping(h)
  BY <1>1, <1>2, <1>3, <1>4, StateSet, Zenon
<1>6. NodeOK' /\ GuestsFade
  BY <1>1, <1>2, Zenon DEF NodeOK, GuestsFade
<1> QED BY <1>2, <1>5, <1>6, DoneKeeps, Zenon

\* A guest starts on a tap that is still pinned.
LEMMA SpawnKeeps == ASSUME NInv, SInv, NEW h \in Handlers, Spawn(h) PROVE SInv'
<1> DEFINE v == req[h].vm
           s == vms[v].slot
<1>1. /\ ReqOK /\ VmsOK /\ PlacesOK /\ NodeOK /\ TapsOK /\ ClaimsOK /\ SpawnsOK /\ RecordsOK
      /\ OneActor /\ GuestsOK /\ EndingOK /\ UsedOK
  BY Zenon DEF NInv, RInv, VInv, SInv
<1>2. /\ req[h].pc = "spawn" /\ boot' = boot /\ used' = used /\ tap' = tap /\ Done(h)
  BY Zenon DEF Spawn, At
<1>3. Act(h) /\ v \in Ids /\ req[h].op = "start" /\ s # None /\ s \in Slots
  <2>1. Act(h) /\ v \in Ids /\ req[h].op = "start" /\ s # None
    BY <1>1, <1>2, Working, Kinds, Zenon DEF SpawnsOK, At
  <2> QED BY <1>1, <2>1 DEF RecordsOK
<1>4. CASE vms' = vms /\ guest' = guest
  <2>1. SlotsKept /\ Keeping(h)
    BY <1>2, <1>4, VmsStay, Zenon DEF At
  <2>2. NodeOK' /\ GuestsFade
    BY <1>1, <1>2, <1>4, NodeStays, Zenon
  <2> QED BY <1>2, <2>1, <2>2, DoneKeeps, Zenon
<1>5. CASE /\ guest' = [guest EXCEPT ![s] = v]
           /\ vms' = [vms EXCEPT ![v].state = "running"]
  <2>1. "running" \notin {"pooled", "absent"} /\ req[h].op # "delete" /\ ~At(h, "delete")
    BY <1>2, <1>3, Zenon DEF At
  <2>2. SlotsKept /\ Keeping(h)
    BY <1>1, <1>3, <1>5, <2>1, StateSet, Zenon
  <2>3. /\ NodeOK' /\ \A t \in Slots : guest'[t] = IF t = s THEN v ELSE guest[t]
    BY <1>1, <1>2, <1>5, Zenon DEF NodeOK
  <2>4. Others(h) /\ req'[h].pc = "idle"
    BY <1>1, <1>2, DoneIs, Zenon
  <2>5. Walking(h)
    BY <1>2, <2>2, <2>3, <2>4, Over, Zenon
  <2>6. GuestsOK'
    BY <1>1, <1>3, <2>2, <2>3 DEF GuestsOK, SlotsKept
  <2>7. ClaimsOK' /\ UsedOK'
    <3>1. FreedGrows /\ used \subseteq used'
      BY <1>2, <2>2, <2>4, FreedStep, Zenon DEF At
    <3> QED BY <1>1, <2>2, <2>4, <3>1, ClaimsStep, UsedStep, Zenon DEF Owning
  <2>8. \A g \in Handlers : req'[g].pc # "idle" => g # h /\ req'[g] = req[g]
    BY <2>4, Zenon DEF Others
  <2>9. EndingOK'
    <3>1. \A g \in Handlers : req'[g].pc \in Ending \cup {"record"} =>
             /\ g # h /\ req'[g] = req[g] /\ req[g].vm \in Ids /\ req[g].vm # v
      <4> SUFFICES ASSUME NEW g \in Handlers, req'[g].pc \in Ending \cup {"record"}
                   PROVE  g # h /\ req'[g] = req[g] /\ req[g].vm \in Ids /\ req[g].vm # v
        BY Zenon
      <4>1. g # h /\ req'[g] = req[g]
        BY <2>8, Zenon DEF Ending
      <4>2. Act(g) /\ req[g].vm \in Ids
        BY <1>1, <4>1, Working, Zenon
      <4> QED BY <1>1, <1>3, <4>1, <4>2, Zenon DEF OneActor
    <3>2. \A g \in Handlers : req'[g].pc \in Ending =>
             req'[g].slot = vms'[req'[g].vm].slot /\ req'[g].slot # None
      BY <1>1, <2>2, <3>1 DEF EndingOK, SlotsKept
    <3>3. \A g \in Handlers : req'[g].pc \in Ending \cup {"record"} =>
             \A t \in Slots : guest'[t] # None => guest'[t] # req'[g].vm
      BY <1>1, <2>3, <3>1 DEF EndingOK
    <3> QED BY <3>2, <3>3, Zenon DEF EndingOK
  <2>10. TapsOK'
    <3>1. tap[s] # "bare"
      BY <1>1, <1>2, Zenon DEF TapsOK, At
    <3>2. (boot \notin {"setup", "repin"} => \A t \in Slots : guest[t] # None => tap[t] # "bare")'
      BY <1>1, <1>2, <2>3, <3>1 DEF TapsOK
    <3>3. \A g \in Handlers : At(g, "boot")' => tap'[req'[g].slot] # "bare"
      BY <1>1, <1>2, <2>8, Zenon DEF TapsOK, At
    <3>4. \A g \in Handlers : At(g, "spawn")' => tap'[vms'[req'[g].vm].slot] # "bare"
      <4>1. \A g \in Handlers : At(g, "spawn")' => At(g, "spawn") /\ req'[g] = req[g] /\ req[g].vm \in Ids
        BY <1>1, <2>8, VmOf, Zenon DEF At
      <4> QED BY <1>1, <1>2, <2>2, <4>1 DEF TapsOK, SlotsKept
    <3> QED BY <3>2, <3>3, <3>4, Zenon DEF TapsOK
  <2> QED BY <2>2, <2>5, <2>6, <2>7, <2>9, <2>10, Walks, Zenon
<1> QED BY <1>4, <1>5, Zenon DEF Spawn

\* Ports are exposed only on a record with an address.
LEMMA ExposeKeeps ==
    ASSUME NInv, SInv, NEW h \in Handlers, Expose(h) \/ Unexpose(h) PROVE SInv'
<1> DEFINE v == req[h].vm
           q == req[h].port
<1>1. ReqOK /\ VmsOK /\ PlacesOK /\ NodeOK /\ RecordsOK
  BY Zenon DEF NInv, RInv, VInv, SInv
<1>2. /\ req[h].pc \in Exposers /\ boot' = boot /\ used' = used /\ guest' = guest /\ tap' = tap
  BY Zenon DEF Expose, Unexpose, At, Exposers
<1>3. NodeOK' /\ GuestsFade
  BY <1>1, <1>2, NodeStays, Zenon
<1>4. req[h].pc \notin {"idle", "record", "delete"} /\ req[h].op \in Exposers
  BY <1>1, <1>2, Kinds DEF Exposers
<1>5. CASE Done(h) /\ vms' = vms
  <2>1. SlotsKept /\ Keeping(h)
    BY <1>4, <1>5, VmsStay, Zenon DEF At
  <2> QED BY <1>2, <1>3, <1>4, <1>5, <2>1, DoneKeeps, Zenon
<1>6. ASSUME NEW n, vms' = [vms EXCEPT ![v].exposes[q] = n], n = None \/ vms[v].slot # None,
             Goto(h, "ingress")
      PROVE  SInv'
  <2>1. \A u \in Ids : /\ vms'[u].slot = vms[u].slot /\ vms'[u].state = vms[u].state
                       /\ u # v => vms'[u].exposes = vms[u].exposes
                       /\ \A p \in Ports : vms'[u].exposes[p] \in {vms[u].exposes[p], n}
    BY <1>1, <1>6, Zenon DEF VmsOK, VmFields
  <2>2. SlotsKept
    BY <2>1, Zenon DEF SlotsKept
  <2>3. Keeping(h)
    <3>1. \A u \in Ids : vms[u].slot = None => vms'[u].exposes = vms[u].exposes
                                            \/ \A p \in Ports : vms'[u].exposes[p] = None
      <4>1. \A u \in Ids : vms[u].slot = None => \A p \in Ports : vms[u].exposes[p] = None
        BY <1>1, Zenon DEF RecordsOK
      <4> QED BY <1>6, <2>1, <4>1
    <3>2. ~At(h, "delete")
      BY <1>4, Zenon DEF At
    <3> QED BY <2>1, <3>1, <3>2, Zenon DEF Keeping
  <2>4. Moved(h, "ingress") /\ Fits(req[h].op, "ingress")
    BY <1>1, <1>4, <1>6, GotoIs, Zenon DEF Fits
  <2>5. Walking(h)
    BY <1>1, <1>2, <1>3, <1>4, <2>2, <2>4, Onward, Zenon DEF Bare
  <2> QED BY <1>2, <1>3, <2>3, <2>4, <2>5, WalksDry, Zenon DEF Moved, Owning, Ending
<1> QED BY <1>5, <1>6, Zenon DEF Expose, Unexpose

----------------------------------------------------------------------------
(* The start of the agent, the start of a request and the exit of a guest. *)

\* Steps of no request.
LEMMA Still ==
    ASSUME SInv, req' = req, SlotsKept, used' = used, GuestsFade, NodeOK', PlacesOK', TapsOK',
           \A v \in Ids : /\ vms'[v].state = "pooled" => vms[v].state = "pooled"
                          /\ vms'[v].state = "absent" <=> vms[v].state = "absent"
                          /\ vms'[v].exposes = vms[v].exposes
    PROVE  SInv'
<1>1. /\ PlacesOK /\ OneActor /\ RecordsOK /\ Alone /\ BareOK /\ PooledOK /\ ResumesOK /\ SpawnsOK
      /\ ClaimsOK /\ UsedOK /\ GuestsOK /\ EndingOK
  BY Zenon DEF SInv
<1>2. FreedGrows
  BY Zenon DEF FreedGrows, Freed, SlotsKept, At
<1>3. OneActor'
  BY <1>1, Zenon DEF OneActor, Act
<1>4. RecordsOK'
  BY <1>1, Zenon DEF RecordsOK, SlotsKept
<1>5. Alone' /\ GuestsOK'
  BY <1>1, <1>2, AloneStep, GuestsStep, Zenon
<1>6. ClaimsOK'
  BY <1>1, <1>2, Zenon DEF ClaimsOK, SlotsKept, FreedGrows
<1>7. UsedOK'
  BY <1>1, <1>2, Zenon DEF UsedOK, SlotsKept, FreedGrows
<1>8. \A g \in Handlers : req[g].pc \in Bare \cup Ending \cup {"spawn"} => req[g].vm \in Ids
  BY <1>1, Working, Zenon
<1>9. EndingOK'
  <2>1. \A s \in Slots : guest'[s] # None => guest'[s] = guest[s]
    BY Zenon DEF GuestsFade
  <2> QED BY <1>1, <1>8, <2>1 DEF EndingOK, SlotsKept
<1>10. BareOK' /\ SpawnsOK'
  BY <1>1, <1>8, Zenon DEF BareOK, SpawnsOK, SlotsKept, At
<1>11. PooledOK'
  BY <1>1, Zenon DEF PooledOK, Act, At
<1>12. ResumesOK'
  <2>1. \A g \in Handlers : At(g, "resume") => req[g].pool \in Ids
    BY <1>1, Zenon DEF ResumesOK, Ids
  <2> QED BY <1>1, <2>1, Zenon DEF ResumesOK, Act, At
<1> QED BY <1>3, <1>4, <1>5, <1>6, <1>7, <1>9, <1>10, <1>11, <1>12, Zenon DEF SInv

\* The start of the agent.
LEMMA BootingKeeps == ASSUME NInv, SInv, Booting PROVE SInv'
<1>1. NodeOK /\ PlacesOK /\ TapsOK
  BY Zenon DEF SInv
<1>2. /\ vms' = vms /\ used' = used /\ guest' = guest /\ req' = req /\ boot # "serve"
  BY Zenon DEF Booting, Setup, Repin, BootRules, Again, node
<1>3. \A h \in Handlers : req[h].pc = "idle"
  BY <1>1, <1>2, Zenon DEF PlacesOK
<1>4. SlotsKept /\ GuestsFade /\ PlacesOK'
  BY <1>2, <1>3, Zenon DEF SlotsKept, GuestsFade, PlacesOK
<1>5. NodeOK'
  BY <1>1, <1>2, Zenon DEF NodeOK, Booting, Setup, Repin, BootRules, Again, node
<1>6. (boot \notin {"setup", "repin"} => \A s \in Slots : guest[s] # None => tap[s] # "bare")'
  <2>1. CASE Setup \/ Again
    BY <2>1, Zenon DEF Setup, Again
  <2>2. CASE Repin
    BY <2>2 DEF Repin
  <2>3. CASE BootRules
    BY <1>1, <2>3 DEF BootRules, TapsOK, node
  <2> QED BY <2>1, <2>2, <2>3 DEF Booting
<1>7. TapsOK'
  BY <1>2, <1>3, <1>6, Zenon DEF TapsOK, At
<1> QED BY <1>2, <1>4, <1>5, <1>7, Still, Zenon

\* on_fc_exit.
LEMMA FcExitKeeps == ASSUME NInv, SInv, NEW v \in Ids, FcExit(v) PROVE SInv'
<1>1. NodeOK /\ PlacesOK /\ TapsOK /\ VmsOK
  BY Zenon DEF SInv, NInv, VInv
<1>2. /\ vms' = [vms EXCEPT ![v].state = "error"] /\ vms[v].state # "absent"
      /\ used' = used /\ tap' = tap /\ req' = req /\ boot' = boot
      /\ \E s \in Slots : guest' = [guest EXCEPT ![s] = None]
  BY Zenon DEF FcExit
<1>3. \A u \in Ids : /\ vms'[u].slot = vms[u].slot /\ vms'[u].exposes = vms[u].exposes
                     /\ vms'[u].state = IF u = v THEN "error" ELSE vms[u].state
  BY <1>1, <1>2, Zenon DEF VmsOK, VmFields
<1>4. SlotsKept /\ NodeOK' /\ GuestsFade
  BY <1>1, <1>2, <1>3, Zenon DEF SlotsKept, NodeOK, GuestsFade
<1>5. PlacesOK'
  BY <1>1, <1>2, Zenon DEF PlacesOK
<1>6. TapsOK'
  <2>1. \A g \in Handlers : At(g, "spawn") => req[g].vm \in Ids
    BY <1>1, VmOf, Zenon DEF At
  <2>2. \A s \in Slots : guest'[s] # None => guest'[s] = guest[s]
    BY <1>4, Zenon DEF GuestsFade
  <2> QED BY <1>1, <1>2, <1>4, <2>1, <2>2 DEF TapsOK, SlotsKept, At
<1>7. \A u \in Ids : /\ vms'[u].state = "pooled" => vms[u].state = "pooled"
                     /\ vms'[u].state = "absent" <=> vms[u].state = "absent"
                     /\ vms'[u].exposes = vms[u].exposes
  BY <1>2, <1>3
<1> QED BY <1>2, <1>4, <1>5, <1>6, <1>7, Still, Zenon

\* What a request is when it begins.
Begun(h, op, v) ==
    /\ Others(h) /\ req'[h].op = op /\ req'[h].vm = v
    /\ req'[h].pc = IF op = "fork" THEN "cold" ELSE op
    /\ req'[h].slot = None /\ req'[h].refused = FALSE
    /\ op = "prewarm" => req'[h].tenant = None

\* What a new request is.
LEMMA BegunOK ==
    ASSUME ReqOK, NEW h \in Handlers, Begin(h)
    PROVE  \E op \in Ops, v \in Ids : Sendable(op, v) /\ Begun(h, op, v)
<1> DEFINE T(op) == CASE op = "create" -> Tenants
                      [] op = "fork" -> {vms[u].tenant : u \in {w \in Vms : vms[w].state = "running"}}
                      [] OTHER -> {None}
           P(op) == IF op \in {"expose", "unexpose"} THEN Ports ELSE {None}
           X(op, v, t, p) == [Idle EXCEPT !.op = op, !.vm = v, !.tenant = t, !.port = p,
                                          !.pc = IF op = "fork" THEN "cold" ELSE op]
<1>1. PICK op \in Ops, v \in Ids : Sendable(op, v) /\ \E t \in T(op), p \in P(op) :
         req' = [req EXCEPT ![h] = X(op, v, t, p)]
  BY Zenon DEF Begin
<1>2. op = "prewarm" => T(op) = {None}
  OBVIOUS
<1> HIDE DEF T, P
<1>3. PICK t, p : req' = [req EXCEPT ![h] = X(op, v, t, p)] /\ t \in T(op)
  BY <1>1, Zenon
<1>4. op = "prewarm" => t = None
  BY <1>2, <1>3
<1>5. Begun(h, op, v)
  BY <1>3, <1>4, Zenon DEF ReqOK, Begun, Others, Idle
<1> QED BY <1>1, <1>5, Zenon

\* A request begins on a VM that no other is at work on.
LEMMA BeginKeeps == ASSUME NInv, SInv, NEW h \in Handlers, Begin(h) PROVE SInv'
<1>1. /\ ReqOK /\ PlacesOK /\ OneActor /\ RecordsOK /\ Alone /\ BareOK /\ PooledOK /\ ResumesOK
      /\ SpawnsOK /\ ClaimsOK /\ UsedOK /\ GuestsOK /\ EndingOK /\ NodeOK /\ TapsOK
  BY Zenon DEF SInv, NInv, RInv
<1>2. /\ boot = "serve" /\ boot' = boot /\ At(h, "idle")
      /\ vms' = vms /\ used' = used /\ guest' = guest /\ tap' = tap
  BY Zenon DEF Begin, node
<1>3. PICK op \in Ops, v \in Ids : Sendable(op, v) /\ Begun(h, op, v)
  BY BegunOK, <1>1, Zenon
<1> DEFINE l == IF op = "fork" THEN "cold" ELSE op
<1>4. /\ Others(h) /\ req'[h].op = op /\ req'[h].vm = v /\ req'[h].pc = l
  BY <1>3, Zenon DEF Begun
<1>5. /\ op \in Makers => vms[v].state = "absent"
      /\ op \in {"start", "stop"} => vms[v].state # "pooled"
      /\ op \notin Exposers => ~Busy(v)
      /\ v \in Targets(op)
      /\ op \in Makers \cup Exposers \cup {"delete", "start", "stop"}
  BY <1>3 DEF Sendable, Present, Makers, Exposers, Targets
<1>6. l \in {"create", "cold", "prewarm"} => vms[v].slot = None
  BY <1>1, <1>5 DEF RecordsOK, Makers, Exposers
<1>7. l \notin Owning \cup Ending \cup {"record", "resume", "spawn", "boot", "idle"}
  BY <1>5 DEF Makers, Exposers, Owning, Ending
<1>8. Fits(op, l)
  BY <1>5 DEF Fits, Makers, Exposers, Ending
<1>9. l \in Bare => l \in {"create", "cold", "prewarm"}
  BY <1>5 DEF Bare, Makers, Exposers
<1>10. op \notin Exposers => \A g \in Handlers : Act(g) =>
          req[g].vm # v /\ req[g].pool # v
  BY <1>5, Zenon DEF Busy, Act, Exposers
<1>11. op = "delete" => l = "delete"
  BY Zenon
<1> HIDE DEF l
<1>12. SlotsKept /\ GuestsFade /\ NodeOK' /\ FreedGrows
  BY <1>1, <1>2, <1>4, NodeStays, FreedStep, Zenon DEF SlotsKept, At
<1>13. PlacesOK'
  BY <1>1, <1>2, <1>4, <1>5, <1>8, PlacesStep, Zenon
<1>14. OneActor'
  <2>1. ~Act(h) /\ \A g \in Handlers : g # h => (Act(g)' <=> Act(g)) /\ req'[g] = req[g]
    BY <1>2, <1>4, Zenon DEF Act, At, Others
  <2>2. Act(h)' => \A g \in Handlers : Act(g) => req[g].vm # v
    BY <1>4, <1>10, Zenon DEF Act
  <2> QED BY <1>1, <1>4, <2>1, <2>2 DEF OneActor
<1>15. RecordsOK'
  BY <1>1, <1>2, Zenon DEF RecordsOK
<1>16. Alone' /\ GuestsOK'
  BY <1>1, <1>12, AloneStep, GuestsStep, Zenon
<1>17. ClaimsOK' /\ UsedOK'
  <2>1. used \subseteq used'
    BY <1>2, Zenon
  <2> QED BY <1>1, <1>4, <1>7, <1>12, <2>1, ClaimsStep, UsedStep, Zenon
<1>18. EndingOK'
  BY <1>1, <1>4, <1>7, <1>12, EndingStep, Zenon
<1>19. BareOK' /\ SpawnsOK'
  <2>1. /\ req'[h].pc \in Bare => vms'[req'[h].vm].slot = None
        /\ ~At(h, "spawn")'
    BY <1>2, <1>4, <1>6, <1>7, <1>9, Zenon DEF At
  <2> QED BY <1>1, <1>4, <1>12, <2>1, BareStep, SpawnStep, Zenon
<1>20. PooledOK'
  <2>1. vms[v].state = "pooled" => op \notin Makers \cup {"start", "stop"}
    BY <1>5
  <2>2. vms[v].state = "pooled" /\ Act(h)' => At(h, "delete")' /\ req'[h].op = "delete"
    BY <1>4, <1>5, <1>11, <2>1 DEF Act, At, Exposers
  <2> QED BY <1>1, <1>2, <1>4, <2>2 DEF PooledOK, Others, Act, At
<1>21. ResumesOK'
  <2>1. \A g \in Handlers : At(g, "resume")' => g # h /\ At(g, "resume") /\ Act(g) /\ req'[g] = req[g]
    <3>1. \A g \in Handlers : At(g, "resume")' => g # h /\ At(g, "resume") /\ req'[g] = req[g]
      BY <1>4, <1>7, Zenon DEF At, Others
    <3> QED BY <1>1, <3>1, Working, Zenon DEF At
  <2>2. \A g \in Handlers : At(g, "resume")' => (Act(h)' => v # req[g].pool)
    BY <1>4, <1>10, <2>1, Zenon DEF Act
  <2> QED BY <1>1, <1>2, <1>4, <2>1, <2>2 DEF ResumesOK, Others, Act
<1>22. TapsOK'
  BY <1>1, <1>2, <1>4, <1>7, <1>12, TapsStep, Zenon DEF At
<1> QED BY <1>12, <1>13, <1>14, <1>15, <1>16, <1>17, <1>18, <1>19, <1>20, <1>21, <1>22, Zenon DEF SInv

----------------------------------------------------------------------------
(* The steps that move a slot between records. *)

\* The step of h changes the slots of the records in C, of which x alone may
\* have one, that nobody else has.
Shifts(h, C, x) ==
    /\ Others(h) /\ used' = used /\ req[h].vm \in C /\ x \in Ids
    /\ \A u \in Ids : u \notin C => vms'[u].slot = vms[u].slot
    /\ \A u \in Ids : u \in C /\ u # x => vms'[u].slot = None
    /\ vms'[x].slot # None =>
          /\ vms'[x].slot \in used
          /\ \A u \in Ids : u \notin C /\ vms[u].slot = vms'[x].slot => Freed(u)
          /\ \A g \in Handlers : g # h /\ req[g].pc \in Owning => req[g].slot # vms'[x].slot
    /\ req'[h].pc \notin Owning \cup Ending \cup {"spawn"}
    /\ \A g \in Handlers : g # h /\ req[g].pc \in Bare \cup Ending \cup {"spawn"} => req[g].vm \notin C
    /\ req'[h].pc \in Bare => vms'[req'[h].vm].slot = None

\* Slots and claims, when a record takes over the slot of another.
LEMMA ShiftKeeps ==
    ASSUME SInv, NEW h \in Handlers, NEW C, NEW x, Shifts(h, C, x)
    PROVE  /\ Alone' /\ ClaimsOK' /\ UsedOK' /\ BareOK' /\ SpawnsOK'
           /\ \A g \in Handlers : req'[g].pc \in Ending =>
                 req'[g].slot = vms'[req'[g].vm].slot /\ req'[g].slot # None
           /\ \A g \in Handlers : At(g, "spawn")' =>
                 At(g, "spawn") /\ req'[g] = req[g] /\ vms'[req[g].vm].slot = vms[req[g].vm].slot
<1>1. /\ PlacesOK /\ Alone /\ ClaimsOK /\ UsedOK /\ BareOK /\ SpawnsOK /\ EndingOK
  BY Zenon DEF SInv
<1>2. /\ Others(h) /\ used' = used /\ req[h].vm \in C /\ x \in Ids
      /\ \A u \in Ids : u \notin C => vms'[u].slot = vms[u].slot
      /\ \A u \in Ids : u \in C /\ u # x => vms'[u].slot = None
  BY Zenon DEF Shifts
<1>3. \A u \in Ids : u \notin C /\ Freed(u) => Freed(u)'
  <2> SUFFICES ASSUME NEW u \in Ids, u \notin C, Freed(u) PROVE Freed(u)'
    BY Zenon
  <2>1. PICK d \in Handlers : At(d, "record") /\ req[d].vm = u /\ req[d].slot = vms[u].slot
    BY Zenon DEF Freed
  <2>2. req'[d] = req[d] /\ vms'[u].slot = vms[u].slot
    BY <1>2, <2>1, Zenon DEF Others
  <2> QED BY <2>1, <2>2, Zenon DEF Freed, At
<1>4. vms'[x].slot # None =>
         /\ vms'[x].slot \in used
         /\ \A u \in Ids : u \notin C /\ vms[u].slot = vms'[x].slot => Freed(u)
         /\ \A g \in Handlers : g # h /\ req[g].pc \in Owning => req[g].slot # vms'[x].slot
  BY Zenon DEF Shifts
<1>5. Alone'
  <2>1. \A u \in Ids : u # x /\ vms'[u].slot # None => u \notin C /\ vms'[u].slot = vms[u].slot
    BY <1>2, Zenon
  <2>2. \A u, w \in Ids : u # x /\ w # x /\ vms'[u].slot # None /\ vms'[u].slot = vms'[w].slot
           /\ u # w => Freed(u)' \/ Freed(w)'
    BY <1>1, <1>3, <2>1, Zenon DEF Alone
  <2>3. \A u \in Ids : u # x /\ vms'[x].slot # None /\ vms'[u].slot = vms'[x].slot => Freed(u)'
    BY <1>3, <1>4, <2>1, Zenon
  <2>4. \A u, w \in Ids : vms'[u].slot # None /\ vms'[u].slot = vms'[w].slot /\ u # w
           => Freed(u)' \/ Freed(w)'
    BY <2>2, <2>3
  <2> QED BY <2>4, Zenon DEF Alone
<1>6. \A g \in Handlers : req'[g].pc \in Owning => g # h /\ req'[g] = req[g]
  BY <1>2, Zenon DEF Others, Shifts
<1>7. ClaimsOK'
  <2>1. \A g \in Handlers : req'[g].pc \in Owning => req'[g].slot \in Slots \cap used'
    BY <1>1, <1>2, <1>6, Zenon DEF ClaimsOK
  <2>2. \A g \in Handlers : req'[g].pc \in Owning =>
           \A u \in Ids : vms'[u].slot = req'[g].slot => Freed(u)'
    <3> SUFFICES ASSUME NEW g \in Handlers, req'[g].pc \in Owning,
                        NEW u \in Ids, vms'[u].slot = req'[g].slot
                 PROVE  Freed(u)'
      BY Zenon
    <3>1. g # h /\ req'[g] = req[g] /\ req[g].slot # None
      BY <1>1, <1>6, NoneNoSlot, Zenon DEF ClaimsOK
    <3>2. u # x
      BY <1>4, <1>6, <3>1, Zenon
    <3>3. u \notin C /\ vms[u].slot = req[g].slot
      BY <1>2, <3>1, <3>2, Zenon
    <3> QED BY <1>1, <1>3, <1>6, <3>1, <3>3, Zenon DEF ClaimsOK
  <2>3. \A f, g \in Handlers : req'[f].pc \in Owning /\ req'[g].pc \in Owning
           /\ req'[f].slot = req'[g].slot => f = g
    BY <1>1, <1>6, Zenon DEF ClaimsOK
  <2> QED BY <2>1, <2>2, <2>3, Zenon DEF ClaimsOK
<1>8. UsedOK'
  <2>1. \A u \in Ids : u # x /\ vms'[u].slot # None => u \notin C /\ vms'[u].slot = vms[u].slot
    BY <1>2, Zenon
  <2>2. \A u \in Ids : u # x /\ vms'[u].slot # None /\ ~Freed(u)' => vms'[u].slot \in used'
    BY <1>1, <1>2, <1>3, <2>1, Zenon DEF UsedOK
  <2>3. \A u \in Ids : vms'[u].slot # None /\ ~Freed(u)' => vms'[u].slot \in used'
    BY <1>2, <1>4, <2>2, Zenon
  <2> QED BY <2>3, Zenon DEF UsedOK
<1>9. \A g \in Handlers : req[g].pc \in Bare \cup Ending \cup {"spawn"} => req[g].vm \in Ids
  BY <1>1, Working, Zenon
<1>10. \A g \in Handlers : g # h /\ req[g].pc \in Bare \cup Ending \cup {"spawn"} =>
          vms'[req[g].vm].slot = vms[req[g].vm].slot
  BY <1>2, <1>9, Zenon DEF Shifts
<1>11. BareOK'
  BY <1>1, <1>2, <1>10 DEF BareOK, Shifts, Others
<1>12. \A g \in Handlers : req'[g].pc \in Ending \cup {"spawn"} => g # h /\ req'[g] = req[g]
  BY <1>2, Zenon DEF Shifts, Others
<1>13. \A g \in Handlers : At(g, "spawn")' =>
          At(g, "spawn") /\ req'[g] = req[g] /\ vms'[req[g].vm].slot = vms[req[g].vm].slot
  BY <1>10, <1>12, Zenon DEF At
<1>14. SpawnsOK'
  BY <1>1, <1>13, Zenon DEF SpawnsOK, At
<1>15. \A g \in Handlers : req'[g].pc \in Ending =>
          req'[g].slot = vms'[req'[g].vm].slot /\ req'[g].slot # None
  BY <1>1, <1>10, <1>12, Zenon DEF EndingOK
<1> QED BY <1>5, <1>7, <1>8, <1>11, <1>13, <1>14, <1>15, Zenon

\* A record is dropped with the slot it no longer has.
LEMMA RemoveKeeps == ASSUME NInv, SInv, NEW h \in Handlers, Remove(h) PROVE SInv'
<1> DEFINE v == req[h].vm
<1>1. /\ ReqOK /\ VmsOK /\ PlacesOK /\ OneActor /\ RecordsOK /\ GuestsOK /\ EndingOK /\ PooledOK
      /\ ResumesOK /\ NodeOK /\ TapsOK
  BY Zenon DEF SInv, NInv, RInv, VInv
<1>2. /\ req[h].pc = "record" /\ boot' = boot /\ used' = used /\ guest' = guest /\ tap' = tap
      /\ vms' = [vms EXCEPT ![v] = NoVm] /\ Goto(h, "iso")
  BY Zenon DEF Remove, At
<1>3. Act(h) /\ v \in Ids /\ req[h].op \in Makers \cup {"delete"}
  BY <1>1, <1>2, Working, Kinds, Zenon
<1>4. \A u \in Ids : vms'[u] = IF u = v THEN NoVm ELSE vms[u]
  BY <1>1, <1>2, Zenon DEF VmsOK
<1>5. /\ NoVm.slot = None /\ NoVm.state = "absent" /\ \A p \in Ports : NoVm.exposes[p] = None
  BY Zenon DEF NoVm
<1>6. /\ Others(h) /\ req'[h].pc = "iso" /\ req'[h].vm = v /\ req'[h].op = req[h].op
  BY <1>1, <1>2, GotoIs, Zenon DEF Moved, Same
<1>7. \A g \in Handlers : g # h /\ Act(g) => req[g].vm # v
  BY <1>1, <1>3, Zenon DEF OneActor
<1>8. Shifts(h, {v}, v)
  <2>1. \A g \in Handlers : g # h /\ req[g].pc \in Bare \cup Ending \cup {"spawn"} => req[g].vm \notin {v}
    BY <1>1, <1>7, Working, Zenon
  <2> QED BY <1>2, <1>3, <1>4, <1>5, <1>6, <2>1 DEF Shifts, Owning, Ending, Bare
<1>9. /\ Alone' /\ ClaimsOK' /\ UsedOK' /\ BareOK' /\ SpawnsOK'
      /\ \A g \in Handlers : req'[g].pc \in Ending =>
            req'[g].slot = vms'[req'[g].vm].slot /\ req'[g].slot # None
      /\ \A g \in Handlers : At(g, "spawn")' =>
            At(g, "spawn") /\ req'[g] = req[g] /\ vms'[req[g].vm].slot = vms[req[g].vm].slot
  BY <1>8, ShiftKeeps, Zenon
<1>10. PlacesOK'
  <2>1. Fits(req[h].op, "iso") /\ boot = "serve" /\ v \in Targets(req[h].op)
    BY <1>1, <1>2, <1>3, Zenon DEF Fits, PlacesOK
  <2> QED BY <1>1, <1>2, <1>6, <2>1, PlacesStep, Zenon
<1>11. OneActor'
  BY <1>1, <1>3, <1>6, ActorStep, Zenon
<1>12. RecordsOK'
  BY <1>1, <1>4, <1>5 DEF RecordsOK
<1>13. GuestsOK'
  BY <1>1, <1>2, <1>4 DEF GuestsOK, EndingOK
<1>14. EndingOK'
  <2>1. \A g \in Handlers : req'[g].pc \in Ending \cup {"record"} =>
           \A s \in Slots : guest'[s] # None => guest'[s] # req'[g].vm
    <3>1. \A g \in Handlers : req'[g].pc \in Ending \cup {"record"} => req'[g] = req[g]
      BY <1>6 DEF Ending, Others
    <3> QED BY <1>1, <1>2, <3>1, Zenon DEF EndingOK
  <2> QED BY <1>9, <2>1, Zenon DEF EndingOK
<1>15. PooledOK'
  <2>1. \A u \in Ids : vms'[u].state = "pooled" => u # v /\ vms[u].state = "pooled"
    BY <1>4, <1>5, Zenon
  <2> QED BY <1>1, <1>6, <2>1 DEF PooledOK, Act, At, Others
<1>16. ResumesOK'
  <2>1. \A g \in Handlers : At(g, "resume")' => g # h /\ At(g, "resume") /\ req'[g] = req[g]
    BY <1>6, Zenon DEF At, Others
  <2>2. \A g \in Handlers : At(g, "resume")' => vms'[req'[g].pool].state = "absent"
    BY <1>1, <1>4, <1>5, <2>1 DEF ResumesOK, Ids
  <2> QED BY <1>1, <1>3, <1>6, <2>1, <2>2 DEF ResumesOK, Others, Act
<1>17. TapsOK'
  <2>1. \A g \in Handlers : At(g, "boot")' => At(g, "boot") /\ req'[g] = req[g]
    BY <1>6 DEF At, Others
  <2> QED BY <1>1, <1>2, <1>9, <2>1 DEF TapsOK
<1>18. NodeOK'
  BY <1>1, <1>2, NodeStays, Zenon
<1> QED BY <1>9, <1>10, <1>11, <1>12, <1>13, <1>14, <1>15, <1>16, <1>17, <1>18, Zenon DEF SInv

\* A parked VM is claimed.
Takeover(h, p) ==
    /\ vms[p].state = "pooled"
    /\ vms' = [vms EXCEPT ![p] = NoVm,
                 ![req[h].vm] = [vms[p] EXCEPT !.state = "creating", !.tenant = req[h].tenant]]
    /\ guest' = [s \in Slots |-> IF guest[s] = p THEN req[h].vm ELSE guest[s]]
    /\ req' = [req EXCEPT ![h].pc = "resume", ![h].pool = p]

\* It keeps its slot, and its guest its tap, when it gets another id.
LEMMA ClaimMoves ==
    ASSUME NInv, SInv, NEW h \in Handlers, req[h].pc = "create", NEW p \in Parked, Takeover(h, p),
           boot' = boot, used' = used, tap' = tap
    PROVE  SInv'
<1> DEFINE v == req[h].vm
           r == [vms[p] EXCEPT !.state = "creating", !.tenant = req[h].tenant]
<1>1. /\ ReqOK /\ VmsOK /\ PlacesOK /\ OneActor /\ RecordsOK /\ GuestsOK /\ EndingOK /\ PooledOK
      /\ ResumesOK /\ NodeOK /\ TapsOK /\ BareOK /\ Alone /\ UsedOK /\ ClaimsOK
  BY Zenon DEF SInv, NInv, RInv, VInv
<1>2. /\ Act(h) /\ v \in Ids /\ p \in Ids /\ req[h].op = "create" /\ vms[v].slot = None /\ v \in Vms
      /\ v # p /\ v \notin Parked
  <2>1. Act(h) /\ v \in Ids /\ p \in Ids /\ req[h].op = "create" /\ vms[v].slot = None
    BY <1>1, Working, Kinds, Zenon DEF Bare, BareOK, Ids
  <2>2. v \in Vms
    BY <1>1, <2>1, Zenon DEF PlacesOK, Targets
  <2> QED BY <2>1, <2>2, NetAssumption
<1>3. /\ r.slot = vms[p].slot /\ r.exposes = vms[p].exposes /\ r.state = "creating"
      /\ vms' = [vms EXCEPT ![p] = NoVm, ![v] = r] /\ vms[p].state = "pooled"
  BY <1>1, <1>2, Zenon DEF VmsOK, VmFields, Takeover
<1> HIDE DEF r
<1>4. \A u \in Ids : vms'[u] = IF u = v THEN r ELSE IF u = p THEN NoVm ELSE vms[u]
  BY <1>1, <1>3, Zenon DEF VmsOK
<1>5. /\ NoVm.slot = None /\ NoVm.state = "absent" /\ \A q \in Ports : NoVm.exposes[q] = None
  BY Zenon DEF NoVm
<1>6. /\ Others(h) /\ req'[h].pc = "resume" /\ req'[h].vm = v /\ req'[h].op = req[h].op
      /\ req'[h].pool = p
  BY <1>1, Zenon DEF ReqOK, ReqFields, Others, Takeover
<1>7. \A g \in Handlers : g # h /\ Act(g) => req[g].vm # v
  BY <1>1, <1>2, Zenon DEF OneActor
<1>8. \A g \in Handlers : Act(g) /\ req[g].vm = p => At(g, "delete") /\ req[g].op = "delete"
  BY <1>1, <1>2, <1>3, Zenon DEF PooledOK
<1>9. ~Freed(p)
  <2> SUFFICES ASSUME NEW g \in Handlers, At(g, "record"), req[g].vm = p PROVE FALSE
    BY Zenon DEF Freed
  <2>1. Act(g)
    BY <1>1, Working, Zenon DEF At
  <2> QED BY <1>8, <2>1, Zenon DEF At
<1>10. Shifts(h, {v, p}, v)
  <2>1. \A g \in Handlers : g # h /\ req[g].pc \in Bare \cup Ending \cup {"spawn"} =>
           req[g].vm \notin {v, p}
    <3>1. "delete" \notin Bare \cup Ending \cup {"spawn"}
      BY Zenon DEF Bare, Ending
    <3> QED BY <1>1, <1>7, <1>8, <3>1, Working, Zenon DEF At
  <2>2. vms'[v].slot = vms[p].slot
    BY <1>2, <1>3, <1>4, Zenon
  <2>3. vms[p].slot # None =>
           /\ vms[p].slot \in used
           /\ \A u \in Ids : u \notin {v, p} /\ vms[u].slot = vms[p].slot => Freed(u)
           /\ \A g \in Handlers : g # h /\ req[g].pc \in Owning => req[g].slot # vms[p].slot
    BY <1>1, <1>2, <1>9, Zenon DEF UsedOK, Alone, ClaimsOK
  <2>4. /\ \A u \in Ids : u \notin {v, p} => vms'[u].slot = vms[u].slot
        /\ \A u \in Ids : u \in {v, p} /\ u # v => vms'[u].slot = None
    BY <1>4, <1>5
  <2>5. req'[h].pc \notin Owning \cup Ending \cup {"spawn"} /\ req'[h].pc \notin Bare
    BY <1>6 DEF Owning, Ending, Bare
  <2> QED BY <1>2, <1>6, <2>1, <2>2, <2>3, <2>4, <2>5, Zenon DEF Shifts
<1>11. /\ Alone' /\ ClaimsOK' /\ UsedOK' /\ BareOK' /\ SpawnsOK'
       /\ \A g \in Handlers : req'[g].pc \in Ending =>
             req'[g].slot = vms'[req'[g].vm].slot /\ req'[g].slot # None
       /\ \A g \in Handlers : At(g, "spawn")' =>
             At(g, "spawn") /\ req'[g] = req[g] /\ vms'[req[g].vm].slot = vms[req[g].vm].slot
  BY <1>10, ShiftKeeps, Zenon
<1>12. PlacesOK'
  <2>1. Fits(req[h].op, "resume") /\ boot = "serve" /\ v \in Targets(req[h].op)
    BY <1>1, <1>2, Zenon DEF Fits, PlacesOK
  <2> QED BY <1>1, <1>6, <2>1, PlacesStep, Zenon
<1>13. OneActor'
  BY <1>1, <1>2, <1>6, ActorStep, Zenon
<1>14. RecordsOK'
  <2>1. /\ r.slot \in Slots \cup {None} /\ (r.slot = None => \A q \in Ports : r.exposes[q] = None)
    BY <1>1, <1>2, <1>3, Zenon DEF RecordsOK
  <2> SUFFICES ASSUME NEW u \in Ids
               PROVE  /\ vms'[u].slot \in Slots \cup {None}
                      /\ vms'[u].state = "absent" => vms'[u].slot = None
                      /\ vms'[u].slot = None => \A q \in Ports : vms'[u].exposes[q] = None
    BY Zenon DEF RecordsOK
  <2>2. CASE u = v
    BY <1>3, <1>4, <2>1, <2>2, Zenon
  <2>3. CASE u # v /\ u = p
    BY <1>4, <1>5, <2>3, Zenon
  <2>4. CASE u # v /\ u # p
    BY <1>1, <1>4, <2>4, Zenon DEF RecordsOK
  <2> QED BY <2>2, <2>3, <2>4
<1>15. NodeOK' /\ \A s \in Slots : guest'[s] = IF guest[s] = p THEN v ELSE guest[s]
  BY <1>1, Zenon DEF Takeover, NodeOK
<1>16. \A s \in Slots : guest[s] # None => guest[s] # v
  BY <1>1, <1>2, NoneNoSlot, Zenon DEF GuestsOK
<1>17. GuestsOK'
  <2> SUFFICES ASSUME NEW s \in Slots, guest'[s] # None
               PROVE  guest'[s] \in Ids /\ vms'[guest'[s]].slot = s
    BY Zenon DEF GuestsOK
  <2>1. CASE guest[s] = p
    BY <1>1, <1>2, <1>3, <1>4, <1>15, <2>1, NoneNoId, Zenon DEF GuestsOK
  <2>2. CASE guest[s] # p
    BY <1>1, <1>4, <1>15, <1>16, <2>2 DEF GuestsOK
  <2> QED BY <2>1, <2>2
<1>18. EndingOK'
  <2>1. \A g \in Handlers : req'[g].pc \in Ending \cup {"record"} =>
           req'[g] = req[g] /\ req[g].vm # v
    <3> SUFFICES ASSUME NEW g \in Handlers, req'[g].pc \in Ending \cup {"record"}
                 PROVE  req'[g] = req[g] /\ req[g].vm # v
      BY Zenon
    <3>1. g # h /\ req'[g] = req[g]
      BY <1>6 DEF Ending, Others
    <3>2. Act(g)
      BY <1>1, <3>1, Working, Zenon
    <3> QED BY <1>7, <3>1, <3>2, Zenon
  <2>2. \A g \in Handlers : req'[g].pc \in Ending \cup {"record"} =>
           \A s \in Slots : guest'[s] # None => guest'[s] # req'[g].vm
    BY <1>1, <1>15, <2>1 DEF EndingOK
  <2> QED BY <1>11, <2>2, Zenon DEF EndingOK
<1>19. PooledOK'
  <2>1. \A u \in Ids : vms'[u].state = "pooled" => u # v /\ u # p /\ vms[u].state = "pooled"
    BY <1>2, <1>3, <1>4, <1>5
  <2> QED BY <1>1, <1>6, <2>1 DEF PooledOK, Act, At, Others
<1>20. ResumesOK'
  <2>1. \A g \in Handlers : g # h /\ At(g, "resume")' =>
           At(g, "resume") /\ req'[g] = req[g] /\ req[g].pool \in Ids
           /\ req[g].pool \in Parked /\ req[g].pool # p
    BY <1>1, <1>3, <1>6 DEF At, Others, ResumesOK, Ids
  <2>2. \A g \in Handlers : At(g, "resume")' =>
           req'[g].pool \in Parked /\ vms'[req'[g].pool].state = "absent"
    BY <1>1, <1>2, <1>4, <1>5, <1>6, <2>1 DEF ResumesOK
  <2>3. \A g \in Handlers : Act(g)' => Act(g) /\ req'[g].vm = req[g].vm /\ req'[g].op = req[g].op
    BY <1>2, <1>6 DEF Act, Others
  <2>4. \A f, g \in Handlers : At(f, "resume")' /\ Act(g)' /\ req'[g].vm = req'[f].pool
           => req'[g].op = "delete"
    <3> SUFFICES ASSUME NEW f \in Handlers, NEW g \in Handlers, At(f, "resume")', Act(g)',
                        req'[g].vm = req'[f].pool
                 PROVE  req'[g].op = "delete"
      BY Zenon
    <3>1. CASE f = h
      BY <1>6, <1>8, <2>3, <3>1, Zenon
    <3>2. CASE f # h
      BY <1>1, <2>1, <2>3, <3>2 DEF ResumesOK
    <3> QED BY <3>1, <3>2
  <2>5. \A f, g \in Handlers : At(f, "resume")' /\ At(g, "resume")' /\ req'[f].pool = req'[g].pool
           => f = g
    <3>1. \A f, g \in Handlers : f # h /\ g # h /\ At(f, "resume")' /\ At(g, "resume")'
             /\ req'[f].pool = req'[g].pool => f = g
      BY <1>1, <2>1, Zenon DEF ResumesOK
    <3>2. \A g \in Handlers : g # h /\ At(g, "resume")' => req'[g].pool # req'[h].pool
      BY <1>6, <2>1, Zenon
    <3> QED BY <3>1, <3>2
  <2> QED BY <2>2, <2>4, <2>5, Zenon DEF ResumesOK
<1>21. TapsOK'
  <2>1. \A g \in Handlers : At(g, "boot")' => At(g, "boot") /\ req'[g] = req[g]
    BY <1>6 DEF At, Others
  <2>2. (boot \notin {"setup", "repin"} => \A s \in Slots : guest[s] # None => tap[s] # "bare")'
    BY <1>1, <1>2, <1>15, NoneNoId DEF TapsOK
  <2>3. \A g \in Handlers : At(g, "boot")' => tap'[req'[g].slot] # "bare"
    BY <1>1, <2>1, Zenon DEF TapsOK
  <2>4. \A g \in Handlers : At(g, "spawn")' => tap'[vms'[req'[g].vm].slot] # "bare"
    BY <1>1, <1>11 DEF TapsOK
  <2> QED BY <2>2, <2>3, <2>4, Zenon DEF TapsOK
<1> QED BY <1>11, <1>12, <1>13, <1>14, <1>15, <1>17, <1>18, <1>19, <1>20, <1>21, Zenon DEF SInv

\* claim_from_pool.
LEMMA ClaimKeeps == ASSUME NInv, SInv, NEW h \in Handlers, Claim(h) PROVE SInv'
<1>1. ReqOK /\ PlacesOK /\ NodeOK
  BY Zenon DEF SInv, NInv, RInv
<1>2. req[h].pc = "create" /\ boot' = boot /\ used' = used /\ tap' = tap
  BY Zenon DEF Claim, At
<1>3. CASE Goto(h, "cold") /\ vms' = vms /\ guest' = guest
  <2>1. SlotsKept /\ Keeping(h) /\ NodeOK' /\ GuestsFade
    BY <1>1, <1>2, <1>3, VmsStay, NodeStays, Zenon DEF At
  <2>2. Moved(h, "cold") /\ Fits(req[h].op, "cold")
    BY <1>1, <1>2, <1>3, GotoIs, Kinds, Zenon DEF Fits
  <2>3. Walking(h)
    BY <1>1, <1>2, <2>1, <2>2, Onward, Zenon DEF Bare
  <2> QED BY <1>2, <2>1, <2>2, <2>3, WalksDry, Zenon DEF Moved, Owning, Ending
<1>4. ASSUME NEW p \in Parked, Takeover(h, p) PROVE SInv'
  BY <1>2, <1>4, ClaimMoves, Zenon
<1> QED BY <1>3, <1>4, Zenon DEF Claim, Takeover

\* A claimed VM that does not resume.
Fallback(h) ==
    /\ vms' = [vms EXCEPT ![req[h].vm] = NoVm,
                 ![req[h].pool] = [vms[req[h].vm] EXCEPT !.state = "error", !.tenant = None]]
    /\ guest' = [s \in Slots |-> IF guest[s] = req[h].vm THEN None ELSE guest[s]]
    /\ req' = [req EXCEPT ![h].pc = "cold", ![h].pool = None]

\* Its slot goes back with the record.
LEMMA FallbackMoves ==
    ASSUME NInv, SInv, NEW h \in Handlers, req[h].pc = "resume", Fallback(h),
           boot' = boot, used' = used, tap' = tap
    PROVE  SInv'
<1> DEFINE v == req[h].vm
           p == req[h].pool
           r == [vms[v] EXCEPT !.state = "error", !.tenant = None]
<1>1. /\ ReqOK /\ VmsOK /\ PlacesOK /\ OneActor /\ RecordsOK /\ GuestsOK /\ EndingOK /\ PooledOK
      /\ ResumesOK /\ NodeOK /\ TapsOK /\ BareOK /\ Alone /\ UsedOK /\ ClaimsOK
  BY Zenon DEF SInv, NInv, RInv, VInv
<1>2. /\ Act(h) /\ v \in Ids /\ p \in Ids /\ req[h].op = "create" /\ v \in Vms /\ p \in Parked
      /\ v # p /\ v \notin Parked /\ vms[p].state = "absent" /\ vms[p].slot = None
  <2>1. /\ Act(h) /\ v \in Ids /\ req[h].op = "create" /\ p \in Parked /\ p \in Ids
        /\ vms[p].state = "absent"
    BY <1>1, Working, Kinds, Zenon DEF ResumesOK, At, Ids
  <2>2. v \in Vms
    BY <1>1, <2>1, Zenon DEF PlacesOK, Targets
  <2>3. vms[p].slot = None
    BY <1>1, <2>1, Zenon DEF RecordsOK
  <2> QED BY <2>1, <2>2, <2>3, NetAssumption
<1>3. /\ r.slot = vms[v].slot /\ r.exposes = vms[v].exposes /\ r.state = "error"
      /\ vms' = [vms EXCEPT ![v] = NoVm, ![p] = r]
  BY <1>1, <1>2, Zenon DEF VmsOK, VmFields, Fallback
<1> HIDE DEF r
<1>4. \A u \in Ids : vms'[u] = IF u = p THEN r ELSE IF u = v THEN NoVm ELSE vms[u]
  BY <1>1, <1>3, Zenon DEF VmsOK
<1>5. /\ NoVm.slot = None /\ NoVm.state = "absent" /\ \A q \in Ports : NoVm.exposes[q] = None
  BY Zenon DEF NoVm
<1>6. /\ Others(h) /\ req'[h].pc = "cold" /\ req'[h].vm = v /\ req'[h].op = req[h].op
  BY <1>1, Zenon DEF ReqOK, ReqFields, Others, Fallback
<1>7. \A g \in Handlers : g # h /\ Act(g) => req[g].vm # v
  BY <1>1, <1>2, Zenon DEF OneActor
<1>8. \A g \in Handlers : Act(g) /\ req[g].vm = p => req[g].op = "delete"
  BY <1>1, Zenon DEF ResumesOK, At
<1>9. ~Freed(v)
  BY <1>1, <1>2, NotFreed, Zenon
<1>10. Shifts(h, {v, p}, p)
  <2>1. \A g \in Handlers : g # h /\ req[g].pc \in Bare \cup Ending \cup {"spawn"} =>
           req[g].vm \notin {v, p}
    <3> SUFFICES ASSUME NEW g \in Handlers, g # h, req[g].pc \in Bare \cup Ending \cup {"spawn"}
                 PROVE  req[g].vm # v /\ req[g].vm # p
      BY Zenon
    <3>1. Act(g)
      BY <1>1, Working, Zenon
    <3>2. CASE req[g].pc \in Ending
      <4>1. vms[req[g].vm].slot # None
        BY <1>1, <3>2, Zenon DEF EndingOK
      <4> QED BY <1>2, <1>7, <3>1, <4>1, Zenon
    <3>3. CASE req[g].pc \in Bare \cup {"spawn"}
      <4>1. req[g].op # "delete"
        BY <1>1, <3>3, Kinds DEF Bare, Makers
      <4> QED BY <1>7, <1>8, <3>1, <4>1, Zenon
    <3> QED BY <3>2, <3>3, Zenon
  <2>2. vms'[p].slot = vms[v].slot
    BY <1>2, <1>3, <1>4, Zenon
  <2>3. vms[v].slot # None =>
           /\ vms[v].slot \in used
           /\ \A u \in Ids : u \notin {v, p} /\ vms[u].slot = vms[v].slot => Freed(u)
           /\ \A g \in Handlers : g # h /\ req[g].pc \in Owning => req[g].slot # vms[v].slot
    BY <1>1, <1>2, <1>9, Zenon DEF UsedOK, Alone, ClaimsOK
  <2>4. /\ \A u \in Ids : u \notin {v, p} => vms'[u].slot = vms[u].slot
        /\ \A u \in Ids : u \in {v, p} /\ u # p => vms'[u].slot = None
        /\ vms'[v].slot = None
    BY <1>2, <1>4, <1>5
  <2>5. req'[h].pc \notin Owning \cup Ending \cup {"spawn"}
    BY <1>6 DEF Owning, Ending
  <2> QED BY <1>2, <1>6, <2>1, <2>2, <2>3, <2>4, <2>5, Zenon DEF Shifts
<1>11. /\ Alone' /\ ClaimsOK' /\ UsedOK' /\ BareOK' /\ SpawnsOK'
       /\ \A g \in Handlers : req'[g].pc \in Ending =>
             req'[g].slot = vms'[req'[g].vm].slot /\ req'[g].slot # None
       /\ \A g \in Handlers : At(g, "spawn")' =>
             At(g, "spawn") /\ req'[g] = req[g] /\ vms'[req[g].vm].slot = vms[req[g].vm].slot
  BY <1>10, ShiftKeeps, Zenon
<1>12. PlacesOK'
  <2>1. Fits(req[h].op, "cold") /\ boot = "serve" /\ v \in Targets(req[h].op)
    BY <1>1, <1>2, Zenon DEF Fits, PlacesOK
  <2> QED BY <1>1, <1>6, <2>1, PlacesStep, Zenon
<1>13. OneActor'
  BY <1>1, <1>2, <1>6, ActorStep, Zenon
<1>14. RecordsOK'
  <2>1. /\ r.slot \in Slots \cup {None} /\ (r.slot = None => \A q \in Ports : r.exposes[q] = None)
    BY <1>1, <1>2, <1>3, Zenon DEF RecordsOK
  <2> SUFFICES ASSUME NEW u \in Ids
               PROVE  /\ vms'[u].slot \in Slots \cup {None}
                      /\ vms'[u].state = "absent" => vms'[u].slot = None
                      /\ vms'[u].slot = None => \A q \in Ports : vms'[u].exposes[q] = None
    BY Zenon DEF RecordsOK
  <2>2. CASE u = p
    BY <1>3, <1>4, <2>1, <2>2, Zenon
  <2>3. CASE u # p /\ u = v
    BY <1>4, <1>5, <2>3, Zenon
  <2>4. CASE u # p /\ u # v
    BY <1>1, <1>4, <2>4, Zenon DEF RecordsOK
  <2> QED BY <2>2, <2>3, <2>4
<1>15. NodeOK' /\ \A s \in Slots : guest'[s] = IF guest[s] = v THEN None ELSE guest[s]
  BY <1>1, Zenon DEF Fallback, NodeOK
<1>16. \A s \in Slots : guest[s] # None => guest[s] # p
  BY <1>1, <1>2, NoneNoSlot, Zenon DEF GuestsOK
<1>17. GuestsOK'
  BY <1>1, <1>4, <1>15, <1>16 DEF GuestsOK
<1>18. EndingOK'
  <2>1. \A g \in Handlers : req'[g].pc \in Ending \cup {"record"} => req'[g] = req[g]
    BY <1>6 DEF Ending, Others
  <2>2. \A g \in Handlers : req'[g].pc \in Ending \cup {"record"} =>
           \A s \in Slots : guest'[s] # None => guest'[s] # req'[g].vm
    BY <1>1, <1>15, <2>1 DEF EndingOK
  <2> QED BY <1>11, <2>2, Zenon DEF EndingOK
<1>19. PooledOK'
  <2>1. \A u \in Ids : vms'[u].state = "pooled" => u # v /\ u # p /\ vms[u].state = "pooled"
    BY <1>2, <1>3, <1>4, <1>5
  <2> QED BY <1>1, <1>6, <2>1 DEF PooledOK, Act, At, Others
<1>20. ResumesOK'
  <2>1. \A g \in Handlers : At(g, "resume")' =>
           g # h /\ At(g, "resume") /\ req'[g] = req[g] /\ req[g].pool \in Ids
           /\ req[g].pool \in Parked /\ req[g].pool # p
    BY <1>1, <1>6 DEF At, Others, ResumesOK, Ids
  <2>2. \A g \in Handlers : At(g, "resume")' =>
           req'[g].pool \in Parked /\ vms'[req'[g].pool].state = "absent"
    BY <1>1, <1>4, <1>5, <2>1 DEF ResumesOK
  <2>3. \A g \in Handlers : Act(g)' => Act(g) /\ req'[g].vm = req[g].vm /\ req'[g].op = req[g].op
    BY <1>2, <1>6 DEF Act, Others
  <2> QED BY <1>1, <2>1, <2>2, <2>3 DEF ResumesOK
<1>21. TapsOK'
  <2>1. \A g \in Handlers : At(g, "boot")' => At(g, "boot") /\ req'[g] = req[g]
    BY <1>6 DEF At, Others
  <2>2. (boot \notin {"setup", "repin"} => \A s \in Slots : guest[s] # None => tap[s] # "bare")'
    BY <1>1, <1>15 DEF TapsOK
  <2>3. \A g \in Handlers : At(g, "boot")' => tap'[req'[g].slot] # "bare"
    BY <1>1, <2>1, Zenon DEF TapsOK
  <2>4. \A g \in Handlers : At(g, "spawn")' => tap'[vms'[req'[g].vm].slot] # "bare"
    BY <1>1, <1>11 DEF TapsOK
  <2> QED BY <2>2, <2>3, <2>4, Zenon DEF TapsOK
<1> QED BY <1>11, <1>12, <1>13, <1>14, <1>15, <1>17, <1>18, <1>19, <1>20, <1>21, Zenon DEF SInv

\* A claimed VM is resumed, or its record goes back.
LEMMA ResumeKeeps == ASSUME NInv, SInv, NEW h \in Handlers, Resume(h) PROVE SInv'
<1>1. ReqOK /\ VmsOK /\ PlacesOK /\ NodeOK
  BY Zenon DEF SInv, NInv, RInv, VInv
<1>2. req[h].pc = "resume" /\ boot' = boot /\ used' = used /\ tap' = tap
  BY Zenon DEF Resume, At
<1>3. CASE Goto(h, "iso") /\ vms' = [vms EXCEPT ![req[h].vm].state = "running"] /\ guest' = guest
  <2>1. "running" \notin {"pooled", "absent"} /\ ~At(h, "delete") /\ Act(h) /\ req[h].op = "create"
    BY <1>1, <1>2, Working, Kinds, Zenon DEF At
  <2>2. SlotsKept /\ Keeping(h)
    BY <1>1, <1>3, <2>1, StateSet, Zenon
  <2>3. NodeOK' /\ GuestsFade
    BY <1>1, <1>2, <1>3, NodeStays, Zenon
  <2>4. Moved(h, "iso") /\ Fits(req[h].op, "iso")
    BY <1>1, <1>3, <2>1, GotoIs, Zenon DEF Fits, Makers
  <2>5. Walking(h)
    BY <1>1, <1>2, <2>2, <2>3, <2>4, Onward, Zenon DEF Bare
  <2> QED BY <1>2, <2>2, <2>3, <2>4, <2>5, WalksDry, Zenon DEF Moved, Owning, Ending
<1>4. CASE Fallback(h)
  BY <1>2, <1>4, FallbackMoves, Zenon
<1> QED BY <1>3, <1>4, Zenon DEF Resume, Fallback

\* A VM that boots.
Booted(h) ==
    /\ vms' = [vms EXCEPT ![req[h].vm].slot = req[h].slot,
                 ![req[h].vm].state = IF req[h].op = "prewarm" THEN "pooled" ELSE "running"]
    /\ guest' = [guest EXCEPT ![req[h].slot] = req[h].vm]
    /\ IF req[h].op = "prewarm" THEN Done(h) ELSE Goto(h, "iso")

\* Its record gets the slot that the create had for itself.
LEMMA BootedMoves ==
    ASSUME NInv, SInv, NEW h \in Handlers, req[h].pc = "boot", Booted(h),
           boot' = boot, used' = used, tap' = tap
    PROVE  SInv'
<1> DEFINE v == req[h].vm
           s == req[h].slot
<1>1. /\ ReqOK /\ VmsOK /\ PlacesOK /\ OneActor /\ RecordsOK /\ GuestsOK /\ EndingOK /\ PooledOK
      /\ ResumesOK /\ NodeOK /\ TapsOK /\ BareOK /\ Alone /\ UsedOK /\ ClaimsOK
  BY Zenon DEF SInv, NInv, RInv, VInv
<1>2. /\ Act(h) /\ v \in Ids /\ req[h].op \in Makers /\ vms[v].slot = None
      /\ s \in Slots /\ s \in used /\ s # None
      /\ v \in Targets(req[h].op)
  <2>1. /\ Act(h) /\ v \in Ids /\ req[h].op \in Makers /\ vms[v].slot = None
        /\ v \in Targets(req[h].op)
    BY <1>1, Working, Kinds, Zenon DEF BareOK, Bare, PlacesOK
  <2>2. s \in Slots /\ s \in used
    BY <1>1, Zenon DEF ClaimsOK, Owning
  <2> QED BY <2>1, <2>2, NoneNoSlot, Zenon
<1>3. \A u \in Ids :
         /\ vms'[u].slot = IF u = v THEN s ELSE vms[u].slot
         /\ vms'[u].exposes = vms[u].exposes
         /\ vms'[u].state = IF u = v THEN (IF req[h].op = "prewarm" THEN "pooled" ELSE "running")
                            ELSE vms[u].state
  BY <1>1, <1>2, Zenon DEF VmsOK, VmFields, Booted
<1>4. /\ Others(h) /\ req'[h].pc \in {"idle", "iso"}
      /\ Act(h)' => /\ req'[h].vm = v /\ req'[h].op = req[h].op /\ req'[h].pc = "iso"
                    /\ req[h].op # "prewarm"
  <2>1. CASE Done(h) /\ req[h].op = "prewarm"
    BY <1>1, <2>1, DoneIs, Zenon DEF Act
  <2>2. CASE Goto(h, "iso") /\ req[h].op # "prewarm"
    BY <1>1, <2>2, GotoIs, Zenon DEF Moved, Same
  <2> QED BY <2>1, <2>2, Zenon DEF Booted
<1>5. req'[h].pc # "idle" =>
         req'[h].vm = v /\ req'[h].op = req[h].op /\ req'[h].pc = "iso"
  <2>1. CASE Done(h)
    BY <1>1, <2>1, DoneIs, Zenon
  <2>2. CASE Goto(h, "iso")
    BY <1>1, <2>2, GotoIs, Zenon DEF Moved, Same
  <2> QED BY <2>1, <2>2, Zenon DEF Booted
<1>6. NodeOK' /\ \A t \in Slots : guest'[t] = IF t = s THEN v ELSE guest[t]
  BY <1>1, <1>2, Zenon DEF Booted, NodeOK
<1>7. \A g \in Handlers : g # h /\ Act(g) => req[g].vm # v
  BY <1>1, <1>2, Zenon DEF OneActor
<1>8. Shifts(h, {v}, v)
  <2>1. \A g \in Handlers : g # h /\ req[g].pc \in Bare \cup Ending \cup {"spawn"} =>
           req[g].vm \notin {v}
    BY <1>1, <1>7, Working, Zenon
  <2>2. vms'[v].slot = s
    BY <1>2, <1>3, Zenon
  <2>3. /\ \A u \in Ids : u \notin {v} /\ vms[u].slot = s => Freed(u)
        /\ \A g \in Handlers : g # h /\ req[g].pc \in Owning => req[g].slot # s
    BY <1>1, Zenon DEF ClaimsOK, Owning
  <2>4. /\ \A u \in Ids : u \notin {v} => vms'[u].slot = vms[u].slot
        /\ \A u \in Ids : u \in {v} /\ u # v => vms'[u].slot = None
    BY <1>3, Zenon
  <2>5. req'[h].pc \notin Owning \cup Ending \cup {"spawn"} /\ req'[h].pc \notin Bare
    BY <1>4 DEF Owning, Ending, Bare
  <2> QED BY <1>2, <1>4, <2>1, <2>2, <2>3, <2>4, <2>5, Zenon DEF Shifts
<1>9. /\ Alone' /\ ClaimsOK' /\ UsedOK' /\ BareOK' /\ SpawnsOK'
      /\ \A g \in Handlers : req'[g].pc \in Ending =>
            req'[g].slot = vms'[req'[g].vm].slot /\ req'[g].slot # None
      /\ \A g \in Handlers : At(g, "spawn")' =>
            At(g, "spawn") /\ req'[g] = req[g] /\ vms'[req[g].vm].slot = vms[req[g].vm].slot
  BY <1>8, ShiftKeeps, Zenon
<1>10. PlacesOK'
  <2>1. Fits(req[h].op, "iso") /\ boot = "serve"
    BY <1>1, <1>2, Zenon DEF Fits, PlacesOK
  <2> QED BY <1>1, <1>2, <1>4, <1>5, <2>1, PlacesStep, Zenon
<1>11. OneActor'
  BY <1>1, <1>2, <1>4, ActorStep, Zenon
<1>12. RecordsOK'
  BY <1>1, <1>2, <1>3 DEF RecordsOK
<1>13. \A t \in Slots : guest[t] # None => guest[t] # v
  BY <1>1, <1>2, NoneNoSlot, Zenon DEF GuestsOK
<1>14. GuestsOK'
  BY <1>1, <1>2, <1>3, <1>6, <1>13 DEF GuestsOK
<1>15. EndingOK'
  <2>1. \A g \in Handlers : req'[g].pc \in Ending \cup {"record"} =>
           req'[g] = req[g] /\ req[g].vm # v
    <3> SUFFICES ASSUME NEW g \in Handlers, req'[g].pc \in Ending \cup {"record"}
                 PROVE  req'[g] = req[g] /\ req[g].vm # v
      BY Zenon
    <3>1. g # h /\ req'[g] = req[g]
      BY <1>4 DEF Ending, Others
    <3>2. Act(g)
      BY <1>1, <3>1, Working, Zenon
    <3> QED BY <1>7, <3>1, <3>2, Zenon
  <2>2. \A g \in Handlers : req'[g].pc \in Ending \cup {"record"} =>
           \A t \in Slots : guest'[t] # None => guest'[t] # req'[g].vm
    BY <1>1, <1>6, <2>1 DEF EndingOK
  <2> QED BY <1>9, <2>2, Zenon DEF EndingOK
<1>16. PooledOK'
  <2>1. \A g \in Handlers : g # h => (Act(g)' <=> Act(g)) /\ req'[g] = req[g]
    BY <1>4, Zenon DEF Act, Others
  <2> SUFFICES ASSUME NEW u \in Ids, vms'[u].state = "pooled"
               PROVE  /\ u \in Parked
                      /\ \A g \in Handlers : Act(g)' /\ req'[g].vm = u =>
                            At(g, "delete")' /\ req'[g].op = "delete"
    BY Zenon DEF PooledOK
  <2>2. CASE u = v
    <3>1. req[h].op = "prewarm"
      BY <1>3, <2>2
    <3>2. u \in Parked
      BY <1>2, <2>2, <3>1, Zenon DEF Targets
    <3>3. \A g \in Handlers : Act(g)' => req'[g].vm # u
      BY <1>4, <1>7, <2>1, <2>2, <3>1, Zenon
    <3> QED BY <3>2, <3>3, Zenon
  <2>3. CASE u # v
    <3>1. vms[u].state = "pooled"
      BY <1>3, <2>3, Zenon
    <3>2. \A g \in Handlers : Act(g)' /\ req'[g].vm = u => g # h
      BY <1>4, <2>3, Zenon
    <3>3. \A g \in Handlers : Act(g)' /\ req'[g].vm = u => Act(g) /\ req'[g] = req[g]
      BY <2>1, <3>2, Zenon
    <3> QED BY <1>1, <3>1, <3>3, Zenon DEF PooledOK, At
  <2> QED BY <2>2, <2>3
<1>17. ResumesOK'
  <2>1. \A g \in Handlers : At(g, "resume")' =>
           At(g, "resume") /\ req'[g] = req[g] /\ req[g].pool \in Ids /\ req[g].pool # v
    <3>1. \A g \in Handlers : At(g, "resume")' => At(g, "resume") /\ req'[g] = req[g]
      BY <1>4 DEF At, Others
    <3>2. req[h].op # "delete"
      BY <1>2 DEF Makers
    <3>3. \A g \in Handlers : At(g, "resume") => req[g].pool \in Ids /\ req[g].pool # v
      BY <1>1, <1>2, <3>2, Zenon DEF ResumesOK, Ids
    <3> QED BY <3>1, <3>3, Zenon
  <2>2. \A g \in Handlers : At(g, "resume")' =>
           req'[g].pool \in Parked /\ vms'[req'[g].pool].state = "absent"
    BY <1>1, <1>3, <2>1 DEF ResumesOK
  <2>3. \A g \in Handlers : Act(g)' => Act(g) /\ req'[g].vm = req[g].vm /\ req'[g].op = req[g].op
    BY <1>2, <1>4 DEF Act, Others
  <2> QED BY <1>1, <2>1, <2>2, <2>3 DEF ResumesOK
<1>18. TapsOK'
  <2>1. \A g \in Handlers : At(g, "boot")' => At(g, "boot") /\ req'[g] = req[g]
    BY <1>4 DEF At, Others
  <2>2. (boot \notin {"setup", "repin"} => \A t \in Slots : guest[t] # None => tap[t] # "bare")'
    <3>1. tap[s] # "bare"
      BY <1>1, Zenon DEF TapsOK, At
    <3> QED BY <1>1, <1>6, <3>1 DEF TapsOK
  <2>3. \A g \in Handlers : At(g, "boot")' => tap'[req'[g].slot] # "bare"
    BY <1>1, <2>1, Zenon DEF TapsOK
  <2>4. \A g \in Handlers : At(g, "spawn")' => tap'[vms'[req'[g].vm].slot] # "bare"
    BY <1>1, <1>9 DEF TapsOK
  <2> QED BY <2>2, <2>3, <2>4, Zenon DEF TapsOK
<1> QED BY <1>6, <1>9, <1>10, <1>11, <1>12, <1>14, <1>15, <1>16, <1>17, <1>18, Zenon DEF SInv

\* spawn_and_configure.
LEMMA BootKeeps == ASSUME NInv, SInv, NEW h \in Handlers, Boot(h) PROVE SInv'
<1>1. req[h].pc = "boot" /\ boot' = boot /\ used' = used /\ tap' = tap
  BY Zenon DEF Boot, At
<1>2. CASE Booted(h)
  BY <1>1, <1>2, BootedMoves, Zenon
<1>3. CASE Failed(h) /\ guest' = guest
  BY <1>1, <1>3, FailedKeeps, Zenon
<1> QED BY <1>2, <1>3, Zenon DEF Boot, Booted

----------------------------------------------------------------------------

\* What a start of the agent finds.
LEMMA SInitSound == Init => SInv
<1> SUFFICES ASSUME Init PROVE SInv
  BY Zenon
<1>1. PICK A \in SUBSET DOMAIN AdoptedAt, t \in [DOMAIN AdoptedAt -> Tenants],
           st \in {"running", "stopped"} :
         vms = [v \in Ids |-> IF v \notin A THEN NoVm ELSE
                  [NoVm EXCEPT !.state = st, !.tenant = t[v], !.slot = AdoptedAt[v]]]
  BY Zenon DEF Init
<1>2. \A v \in Ids : /\ v \notin A => vms[v].slot = None /\ vms[v].state = "absent"
                     /\ v \in A => vms[v].slot = AdoptedAt[v] /\ vms[v].state = st
                     /\ \A p \in Ports : vms[v].exposes[p] = None
  BY <1>1, Zenon DEF NoVm
<1>3. /\ boot = "setup" /\ req = [h \in Handlers |-> Idle]
      /\ used = {vms[v].slot : v \in Members}
      /\ guest = [s \in Slots |->
            IF \E v \in Ids : vms[v].slot = s /\ vms[v].state = "running"
            THEN CHOOSE v \in Ids : vms[v].slot = s ELSE None]
      /\ tap \in {f \in [Slots -> {"none", "bare", "pinned"}] :
                    \A s \in Slots : guest[s] = None <=> f[s] = "none"}
  BY Zenon DEF Init
<1>4. \A h \in Handlers : req[h].pc = "idle"
  BY <1>3, Zenon DEF Idle
<1>5. NodeOK
  BY <1>3, Zenon DEF NodeOK
<1>6. PlacesOK /\ OneActor /\ ClaimsOK /\ EndingOK /\ BareOK /\ ResumesOK /\ SpawnsOK
  BY <1>4 DEF PlacesOK, OneActor, ClaimsOK, EndingOK, BareOK, ResumesOK, SpawnsOK, Act, At,
              Owning, Ending, Bare
<1>7. RecordsOK
  <2>1. \A v \in A : AdoptedAt[v] \in Slots
    BY NetAssumption, Zenon DEF Slots
  <2> QED BY <1>2, <2>1 DEF RecordsOK
<1>8. GuestsOK
  <2> SUFFICES ASSUME NEW s \in Slots, guest[s] # None
               PROVE  guest[s] \in Ids /\ vms[guest[s]].slot = s
    BY Zenon DEF GuestsOK
  <2>1. \E v \in Ids : vms[v].slot = s
    BY <1>3, Zenon
  <2>2. guest[s] = CHOOSE v \in Ids : vms[v].slot = s
    BY <1>3, Zenon
  <2> QED BY <2>1, <2>2, Zenon
<1>9. Alone
  <2>1. \A u, v \in A : AdoptedAt[u] = AdoptedAt[v] => u = v
    BY NetAssumption, Zenon
  <2> QED BY <1>2, <2>1 DEF Alone
<1>10. UsedOK
  <2>1. \A v \in Ids : vms[v].slot # None => v \in Members
    BY <1>2 DEF Members, Present
  <2> QED BY <1>3, <2>1, Zenon DEF UsedOK
<1>11. PooledOK
  BY <1>2, Zenon DEF PooledOK
<1>12. TapsOK
  BY <1>3, <1>4, Zenon DEF TapsOK, At
<1> QED BY <1>5, <1>6, <1>7, <1>8, <1>9, <1>10, <1>11, <1>12, Zenon DEF SInv

\* The invariant of the slots is inductive.
LEMMA SStepSound == NInv /\ SInv /\ [Next]_vars => SInv'
<1> SUFFICES ASSUME NInv, SInv, [Next]_vars PROVE SInv'
  BY Zenon
<1>1. CASE UNCHANGED vars
  <2>1. /\ req' = req /\ used' = used /\ boot' = boot /\ vms' = vms /\ guest' = guest /\ tap' = tap
    BY <1>1, Zenon DEF vars
  <2>2. SlotsKept /\ GuestsFade
    BY <2>1, Zenon DEF SlotsKept, GuestsFade
  <2>3. NodeOK' /\ PlacesOK' /\ TapsOK'
    BY <2>1, Zenon DEF SInv, NodeOK, PlacesOK, TapsOK, At
  <2> QED BY <2>1, <2>2, <2>3, Still, Zenon
<1>2. ASSUME NEW h \in Handlers, Step(h) PROVE SInv'
  BY Zenon, <1>2, ClaimKeeps, ResumeKeeps, ColdKeeps, ClaimSlotKeeps, SetupTapKeeps, BootKeeps,
     RebuildKeeps, StopKeeps, UnpinKeeps, ReleaseKeeps, RemoveKeeps, StartKeeps, SpawnKeeps,
     StopOnlyKeeps, ExposeKeeps DEF Step
<1> QED BY <1>1, <1>2, BootingKeeps, BeginKeeps, FcExitKeeps DEF Next

\* No guest is ever on a tap that is not pinned to its address: the slot of a
\* tap that is unpinned or set up belongs to the request that does it.
THEOREM TapsStayPinned == Spec => []PinnedTaps
<1>1. SInv => PinnedTaps
  BY DEF SInv, TapsOK, PinnedTaps
<1> QED BY InitSound, StepSound, SInitSound, SStepSound, <1>1, PTL DEF Spec
=============================================================================
