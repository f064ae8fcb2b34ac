------------------------------ MODULE NodeNet ------------------------------
(***************************************************************************)
(* The guest network of one worker: taps and their pins, the tenant rules  *)
(* and the ingress rules (rust/agent/src/net.rs), and the operations of    *)
(* the VM manager that change who is on the bridge (rust/agent/src/vm).    *)
(*                                                                         *)
(* Requests are handlers that run at once.  The records are changed under  *)
(* one lock; a rebuild of rules holds another one, takes its snapshot of   *)
(* the records and shells out to nft after the first lock is released.     *)
(* An address is its slot.  What happens to processes, snapshots and       *)
(* meta.json is the subject of AgentVm.                                    *)
(***************************************************************************)
EXTENDS Integers, FiniteSets, FiniteSetsExt

CONSTANTS
    Vms,       \* ids of sandboxes
    Parked,    \* ids of warm-pool VMs
    Tenants,
    MaxSlots,  \* addresses of the guest CIDR
    MaxPort,   \* NODE_PORT_MIN .. NODE_PORT_MAX
    Ports,     \* guest ports
    Handlers,  \* requests that run at once
    MaxOps,    \* bound: requests of a behaviour
    Ops,       \* the requests of a run
    AdoptedAt, \* the slots of VMs that may be there when the agent starts
    Faults,    \* a subset of {"nft", "tap", "boot", "fence"}
    None

ASSUME NetAssumption ==
    /\ {MaxSlots, MaxPort, MaxOps} \subseteq Nat \ {0}
    /\ Ops \subseteq {"create", "fork", "delete", "start", "stop", "prewarm",
                      "expose", "unexpose"}
    /\ Faults \subseteq {"nft", "tap", "boot", "fence"}
    /\ Vms \cap Parked = {}
    /\ None \notin Vms \cup Parked \cup Handlers \cup (1 .. MaxPort) \cup (1 .. MaxSlots)
    /\ DOMAIN AdoptedAt \subseteq Vms
    /\ \A u, v \in DOMAIN AdoptedAt :
          AdoptedAt[v] \in 1 .. MaxSlots /\ (AdoptedAt[u] = AdoptedAt[v] => u = v)

Slots == 1 .. MaxSlots
NodePorts == 1 .. MaxPort

VARIABLES
    boot,   \* how far the start of the agent is
    vms,    \* the records
    used,   \* slots that are claimed
    guest,  \* whose Firecracker is on the tap of a slot
    tap,    \* each tap: none, bare or pinned to its slot
    pairs,  \* the set tenant_pairs of the tenant rules
    dnat,   \* the ingress rules: node port, slot, guest port
    flags,  \* ISOLATION_OK and HOST_FILTER_OK
    lock,   \* who holds ruleset_lock
    req,    \* the requests
    left    \* requests that may still come

vars == <<boot, vms, used, guest, tap, pairs, dnat, flags, lock, req, left>>

NoVm == [state |-> "absent", tenant |-> None, slot |-> None,
         exposes |-> [p \in Ports |-> None]]
Idle == [op |-> None, vm |-> None, pc |-> "idle", tenant |-> None, pool |-> None,
         slot |-> None, port |-> None, snap |-> {}, refused |-> FALSE]

Ids == Vms \cup Parked
Present(v) == vms[v].state # "absent"

\* (tenant, address) of every VM that holds an address.
Members == {v \in Ids : Present(v) /\ vms[v].slot # None}

\* tenant_pair_elements: ordered pairs of distinct addresses of one tenant.
\* A VM without a tenant joins no pair.
Pairs == {m \in Slots \X Slots :
            /\ m[1] # m[2]
            /\ \E u, v \in Members : /\ <<vms[u].slot, vms[v].slot>> = m
                                     /\ vms[u].tenant = vms[v].tenant
                                     /\ vms[u].tenant # None}

\* (node_port, guest_ip, guest_port) of every expose.
Exposes(v) == {<<vms[v].exposes[p], vms[v].slot, p>> :
                 p \in {q \in Ports : vms[v].exposes[q] # None}}
Rules == UNION {Exposes(v) : v \in Members}

----------------------------------------------------------------------------
(* The start of the agent. *)

\* What a start finds: some of the VMs that may have been left, each with its
\* address.  After an upgrade in place their guests are still there, on taps
\* that an older agent may have left without a pin, under rules that may be
\* old; after a reboot of the host there are no guests, no taps and no rules.
Init ==
    /\ boot = "setup"
    /\ \E A \in SUBSET DOMAIN AdoptedAt, t \in [DOMAIN AdoptedAt -> Tenants],
          st \in {"running", "stopped"} :
          vms = [v \in Ids |-> IF v \notin A THEN NoVm ELSE
                   [NoVm EXCEPT !.state = st, !.tenant = t[v], !.slot = AdoptedAt[v]]]
    /\ used = {vms[v].slot : v \in Members}
    /\ guest = [s \in Slots |->
          IF \E v \in Ids : vms[v].slot = s /\ vms[v].state = "running"
          THEN CHOOSE v \in Ids : vms[v].slot = s ELSE None]
    /\ tap \in {f \in [Slots -> {"none", "bare", "pinned"}] :
                  \A s \in Slots : guest[s] = None <=> f[s] = "none"}
    /\ pairs \in {{}, Pairs} /\ dnat = {}
    /\ flags = [iso |-> FALSE, host |-> FALSE]
    /\ lock = None
    /\ req = [h \in Handlers |-> Idle]
    /\ left = MaxOps

rules == <<pairs, dnat, flags, lock>>
node == <<vms, used, guest, tap>>

\* setup_host and ensure_bridge: a fence that cannot be installed is noted.
Setup ==
    /\ boot = "setup"
    /\ \E ok \in {TRUE} \cup (IF "fence" \in Faults THEN {FALSE} ELSE {}) :
          flags' = [flags EXCEPT !.host = ok]
    /\ boot' = "repin"
    /\ UNCHANGED <<node, pairs, dnat, lock, req, left>>

\* ensure_pinned_tap: the tap is up and pinned, or it is torn down.
PinTap(s) ==
    \/ tap' = [tap EXCEPT ![s] = "pinned"]
    \/ "tap" \in Faults /\ tap' = [tap EXCEPT ![s] = "none"]

\* reconcile: the taps of adopted guests are pinned again.
Repin ==
    /\ boot = "repin"
    /\ tap' \in [Slots -> {"none", "bare", "pinned"}]
    /\ \A s \in Slots :
          IF guest[s] = None THEN tap'[s] = tap[s]
          ELSE tap'[s] \in {"pinned"} \cup (IF "tap" \in Faults THEN {"none"} ELSE {})
    /\ boot' = "iso"
    /\ UNCHANGED <<vms, used, guest, rules, req, left>>

\* rebuild_isolation for the members m: one nft transaction, and a look at
\* br_netfilter.
Rebuild(m) ==
    \E br \in {TRUE} \cup (IF "nft" \in Faults THEN {FALSE} ELSE {}),
       applied \in {TRUE} \cup (IF "nft" \in Faults THEN {FALSE} ELSE {}) :
        /\ pairs' = IF applied THEN m ELSE pairs
        /\ flags' = [flags EXCEPT !.iso = br /\ applied]

\* main: the agent serves nobody while a fence is missing.
BootRules ==
    /\ boot = "iso"
    /\ Rebuild(Pairs)
    /\ boot' = IF flags'.iso /\ flags.host THEN "serve" ELSE "down"
    /\ dnat' = IF boot' = "serve" THEN Rules ELSE dnat
    /\ UNCHANGED <<node, lock, req, left>>

\* The service manager starts it again.
Again ==
    /\ boot = "down"
    /\ boot' = "setup"
    /\ flags' = [iso |-> FALSE, host |-> FALSE]
    /\ UNCHANGED <<node, pairs, dnat, lock, req, left>>

----------------------------------------------------------------------------
(* Requests. *)

Goto(h, l) == req' = [req EXCEPT ![h].pc = l]
At(h, l) == req[h].pc = l
Done(h) == req' = [req EXCEPT ![h] = Idle]

\* feluccad has one request at work on a sandbox, besides exposes.
Busy(v) == \E h \in Handlers : v \in {req[h].vm, req[h].pool}
                                 /\ req[h].op \notin {"expose", "unexpose"}

\* Which request may be sent for a VM.
Sendable(op, v) ==
    \/ op \in {"create", "fork"} /\ v \in Vms /\ ~Present(v) /\ ~Busy(v)
    \/ op = "prewarm" /\ v \in Parked /\ ~Present(v) /\ ~Busy(v)
    \/ op = "delete" /\ Present(v) /\ ~Busy(v)
    \/ op = "start" /\ v \in Vms /\ vms[v].state \in {"stopped", "error"} /\ ~Busy(v)
    \/ op = "stop" /\ v \in Vms /\ vms[v].state = "running" /\ ~Busy(v)
    \/ op \in {"expose", "unexpose"} /\ v \in Vms

Begin(h) ==
    /\ boot = "serve" /\ At(h, "idle") /\ left > 0
    /\ \E op \in Ops, v \in Ids :
          /\ Sendable(op, v)
          /\ \E t \in CASE op = "create" -> Tenants
                        [] op = "fork" -> {vms[u].tenant : u \in {w \in Vms : vms[w].state = "running"}}
                        [] OTHER -> {None},
                p \in IF op \in {"expose", "unexpose"} THEN Ports ELSE {None} :
                req' = [req EXCEPT ![h] = [Idle EXCEPT !.op = op, !.vm = v, !.tenant = t,
                                             !.port = p, !.pc = IF op = "fork" THEN "cold" ELSE op]]
    /\ left' = left - 1
    /\ UNCHANGED <<boot, node, rules>>

\* claim_from_pool: a parked VM gets the id and the tenant of the request.
Claim(h) ==
    LET v == req[h].vm
        pooled == {p \in Parked : vms[p].state = "pooled"}
    IN  /\ At(h, "create")
        /\ \/ pooled = {} /\ Goto(h, "cold") /\ UNCHANGED <<vms, guest>>
           \/ \E p \in pooled :
                /\ vms' = [vms EXCEPT ![p] = NoVm,
                             ![v] = [vms[p] EXCEPT !.state = "creating", !.tenant = req[h].tenant]]
                /\ guest' = [s \in Slots |-> IF guest[s] = p THEN v ELSE guest[s]]
                /\ req' = [req EXCEPT ![h].pc = "resume", ![h].pool = p]
        /\ UNCHANGED <<boot, used, tap, rules, left>>

\* The VM is resumed, or the record goes back to the pool's id as a dead one
\* and the request boots a VM of its own.
Resume(h) ==
    LET v == req[h].vm
        p == req[h].pool
    IN  /\ At(h, "resume")
        /\ \/ /\ \E s \in Slots : guest[s] = v
              /\ vms' = [vms EXCEPT ![v].state = "running"]
              /\ Goto(h, "iso")
              /\ UNCHANGED guest
           \/ /\ "boot" \in Faults
              /\ vms' = [vms EXCEPT ![v] = NoVm,
                           ![p] = [vms[v] EXCEPT !.state = "error", !.tenant = None]]
              /\ guest' = [s \in Slots |-> IF guest[s] = v THEN None ELSE guest[s]]
              /\ req' = [req EXCEPT ![h].pc = "cold", ![h].pool = None]
        /\ UNCHANGED <<boot, used, tap, rules, left>>

\* cold_create, and fork once it has copied the parent.
Cold(h) ==
    /\ At(h, "cold") \/ At(h, "prewarm")
    /\ vms' = [vms EXCEPT ![req[h].vm] = [NoVm EXCEPT !.state = "creating",
                                                     !.tenant = req[h].tenant]]
    /\ Goto(h, "slot")
    /\ UNCHANGED <<boot, used, guest, tap, rules, left>>

\* A create that fails leaves its record in error; the pool deletes it.
Failed(h) ==
    /\ vms' = [vms EXCEPT ![req[h].vm].state = "error"]
    /\ IF req[h].op = "prewarm" THEN Goto(h, "delete") ELSE Done(h)

FreeSlots == Slots \ used

\* A fork that finds no slot leaves its record as it is.
ClaimSlot(h) ==
    /\ At(h, "slot")
    /\ \/ /\ FreeSlots = {}
          /\ IF req[h].op = "fork" THEN Done(h) /\ UNCHANGED vms ELSE Failed(h)
          /\ UNCHANGED used
       \/ FreeSlots # {} /\ LET s == Min(FreeSlots) IN
            /\ used' = used \cup {s}
            /\ req' = [req EXCEPT ![h].pc = "tap", ![h].slot = s]
            /\ UNCHANGED vms
    /\ UNCHANGED <<boot, guest, tap, rules, left>>

SetupTap(h) ==
    /\ At(h, "tap")
    /\ PinTap(req[h].slot)
    /\ IF tap'[req[h].slot] = "pinned"
       THEN Goto(h, "boot") /\ UNCHANGED <<vms, used>>
       ELSE Failed(h) /\ used' = used \ {req[h].slot}
    /\ UNCHANGED <<boot, guest, rules, left>>

\* spawn_and_configure and the record's address.  A boot that fails keeps the
\* slot, which no record names.
Boot(h) ==
    /\ At(h, "boot")
    /\ \/ /\ vms' = [vms EXCEPT ![req[h].vm].slot = req[h].slot,
                       ![req[h].vm].state = IF req[h].op = "prewarm" THEN "pooled" ELSE "running"]
          /\ guest' = [guest EXCEPT ![req[h].slot] = req[h].vm]
          /\ IF req[h].op = "prewarm" THEN Done(h) ELSE Goto(h, "iso")
       \/ "boot" \in Faults /\ Failed(h) /\ UNCHANGED guest
    /\ UNCHANGED <<boot, used, tap, rules, left>>

\* Mutation of Refresh: the members are read before the lock of the rules.
RefreshUnlocked(h) ==
    /\ UNCHANGED <<boot, node, pairs, dnat, flags, left>>
    /\ \/ /\ At(h, "iso")
          /\ req' = [req EXCEPT ![h].pc = "wait", ![h].snap = Pairs]
          /\ UNCHANGED lock
       \/ At(h, "wait") /\ lock = None /\ lock' = h /\ Goto(h, "apply")

\* refresh_isolation: the lock of the rules, and a snapshot under the lock of
\* the records.
Refresh(h) ==
    /\ At(h, "iso") /\ lock = None
    /\ lock' = h
    /\ req' = [req EXCEPT ![h].pc = "apply", ![h].snap = Pairs]
    /\ UNCHANGED <<boot, node, pairs, dnat, flags, left>>

\* Mutation of Apply: the new VM is removed while the lock is still held.
ApplyHolding(h) ==
    /\ At(h, "apply")
    /\ Rebuild(req[h].snap)
    /\ IF req[h].op \notin {"create", "fork"} \/ req[h].refused
       THEN Goto(h, "ingress") /\ lock' = None
       ELSE IF flags'.iso THEN Done(h) /\ lock' = None
       ELSE req' = [req EXCEPT ![h].pc = "delete", ![h].refused = TRUE] /\ UNCHANGED lock
    /\ UNCHANGED <<boot, node, dnat, left>>

\* rebuild_isolation and commit_or_isolate: a create or fork without rules in
\* force removes its VM again; a delete goes on to the ingress rules.
Apply(h) ==
    /\ At(h, "apply")
    /\ Rebuild(req[h].snap)
    /\ lock' = None
    /\ IF req[h].op \notin {"create", "fork"} \/ req[h].refused THEN Goto(h, "ingress")
       ELSE IF flags'.iso THEN Done(h)
       ELSE req' = [req EXCEPT ![h].pc = "delete", ![h].refused = TRUE]
    /\ UNCHANGED <<boot, node, dnat, left>>

----------------------------------------------------------------------------
(* delete. *)

\* Mutation of Stop: the slot is given back together with the process.
StopFreed(h) ==
    LET v == req[h].vm IN
    /\ At(h, "delete")
    /\ vms' = IF Present(v) THEN [vms EXCEPT ![v].state = "stopped"] ELSE vms
    /\ guest' = [s \in Slots |-> IF guest[s] = v THEN None ELSE guest[s]]
    /\ used' = used \ {vms[v].slot}
    /\ req' = [req EXCEPT ![h].slot = vms[v].slot,
                          ![h].pc = IF vms[v].slot = None THEN "record" ELSE "unpin"]
    /\ UNCHANGED <<boot, tap, rules, left>>

\* The slot is read and the Firecracker is stopped.
Stop(h) ==
    LET v == req[h].vm IN
    /\ At(h, "delete")
    /\ vms' = IF Present(v) THEN [vms EXCEPT ![v].state = "stopped"] ELSE vms
    /\ guest' = [s \in Slots |-> IF guest[s] = v THEN None ELSE guest[s]]
    /\ req' = [req EXCEPT ![h].slot = vms[v].slot,
                          ![h].pc = IF vms[v].slot = None THEN "record" ELSE "unpin"]
    /\ UNCHANGED <<boot, used, tap, rules, left>>

Unpin(h) ==
    /\ At(h, "unpin")
    /\ tap' = [tap EXCEPT ![req[h].slot] = IF @ = "none" THEN @ ELSE "bare"]
    /\ Goto(h, "release")
    /\ UNCHANGED <<boot, vms, used, guest, rules, left>>

Release(h) ==
    /\ At(h, "release")
    /\ tap' = [tap EXCEPT ![req[h].slot] = "none"]
    /\ used' = used \ {req[h].slot}
    /\ Goto(h, "record")
    /\ UNCHANGED <<boot, vms, guest, rules, left>>

Remove(h) ==
    /\ At(h, "record")
    /\ vms' = [vms EXCEPT ![req[h].vm] = NoVm]
    /\ Goto(h, "iso")
    /\ UNCHANGED <<boot, used, guest, tap, rules, left>>

----------------------------------------------------------------------------
(* start, stop and the exit of a Firecracker. *)

\* start and wake: a VM without an address has no tap to pin.
Start(h) ==
    LET s == vms[req[h].vm].slot IN
    /\ At(h, "start")
    /\ \/ s = None /\ vms' = [vms EXCEPT ![req[h].vm].state = "running"] /\ Done(h) /\ UNCHANGED tap
       \/ /\ s # None
          /\ PinTap(s)
          /\ IF tap'[s] = "pinned" THEN Goto(h, "spawn") ELSE Done(h)
          /\ UNCHANGED vms
    /\ UNCHANGED <<boot, used, guest, rules, left>>

Spawn(h) ==
    /\ At(h, "spawn")
    /\ \/ /\ guest' = [guest EXCEPT ![vms[req[h].vm].slot] = req[h].vm]
          /\ vms' = [vms EXCEPT ![req[h].vm].state = "running"]
       \/ "boot" \in Faults /\ UNCHANGED <<guest, vms>>
    /\ Done(h)
    /\ UNCHANGED <<boot, used, tap, rules, left>>

\* stop and sleep leave the tap, the slot and the rules.
StopOnly(h) ==
    /\ At(h, "stop")
    /\ vms' = [vms EXCEPT ![req[h].vm].state = "stopped"]
    /\ guest' = [s \in Slots |-> IF guest[s] = req[h].vm THEN None ELSE guest[s]]
    /\ Done(h)
    /\ UNCHANGED <<boot, used, tap, rules, left>>

\* on_fc_exit.
FcExit(v) ==
    /\ "boot" \in Faults /\ boot = "serve"
    /\ vms[v].state \in {"creating", "running", "pooled"}
    /\ \E s \in Slots : guest[s] = v /\ guest' = [guest EXCEPT ![s] = None]
    /\ vms' = [vms EXCEPT ![v].state = "error"]
    /\ UNCHANGED <<boot, used, tap, rules, req, left>>

----------------------------------------------------------------------------
(* Ingress. *)

Taken == {vms[v].exposes[p] : v \in {w \in Ids : Present(w)}, p \in Ports} \ {None}

\* Mutation of Free: the ports of the VM itself are all that is looked at.
FreeOwn(v) == NodePorts \ {vms[v].exposes[p] : p \in Ports}

Free(v) == NodePorts \ Taken

Expose(h) ==
    LET v == req[h].vm
        p == req[h].port
    IN  /\ At(h, "expose")
        /\ IF ~Present(v) \/ vms[v].slot = None \/ vms[v].exposes[p] # None \/ Free(v) = {}
           THEN Done(h) /\ UNCHANGED vms
           ELSE /\ vms' = [vms EXCEPT ![v].exposes[p] = Min(Free(v))]
                /\ Goto(h, "ingress")
        /\ UNCHANGED <<boot, used, guest, tap, rules, left>>

Unexpose(h) ==
    LET v == req[h].vm
        p == req[h].port
    IN  /\ At(h, "unexpose")
        /\ IF ~Present(v) \/ vms[v].exposes[p] = None
           THEN Done(h) /\ UNCHANGED vms
           ELSE vms' = [vms EXCEPT ![v].exposes[p] = None] /\ Goto(h, "ingress")
        /\ UNCHANGED <<boot, used, guest, tap, rules, left>>

\* Mutation of Flush: the snapshot is taken before the lock of the rules.
FlushUnlocked(h) ==
    /\ UNCHANGED <<boot, node, pairs, flags, left>>
    /\ \/ /\ At(h, "ingress")
          /\ req' = [req EXCEPT ![h].pc = "flush", ![h].snap = Rules]
          /\ UNCHANGED <<lock, dnat>>
       \/ At(h, "flush") /\ lock = None /\ lock' = h /\ dnat' = {} /\ Goto(h, "fill")

\* refresh_ingress: the chain is flushed, and filled rule by rule.
Flush(h) ==
    /\ At(h, "ingress") /\ lock = None
    /\ lock' = h
    /\ req' = [req EXCEPT ![h].pc = "fill", ![h].snap = Rules]
    /\ dnat' = {}
    /\ UNCHANGED <<boot, node, pairs, flags, left>>

Fill(h) ==
    /\ At(h, "fill")
    /\ dnat' = req[h].snap
    /\ lock' = None
    /\ Done(h)
    /\ UNCHANGED <<boot, node, pairs, flags, left>>

Step(h) ==
    \/ Claim(h) \/ Resume(h) \/ Cold(h) \/ ClaimSlot(h) \/ SetupTap(h) \/ Boot(h)
    \/ Refresh(h) \/ Apply(h) \/ Stop(h) \/ Unpin(h) \/ Release(h) \/ Remove(h)
    \/ Start(h) \/ Spawn(h) \/ StopOnly(h)
    \/ Expose(h) \/ Unexpose(h) \/ Flush(h) \/ Fill(h)

Booting == Setup \/ Repin \/ BootRules \/ Again

Next ==
    \/ Booting
    \/ \E h \in Handlers : Begin(h) \/ Step(h)
    \/ \E v \in Ids : FcExit(v)

Spec == Init /\ [][Next]_vars

----------------------------------------------------------------------------
\* The requests that may still change what the rules say of VM v: those on v,
\* and a delete that had its slot.
Unsettled(v) == \E h \in Handlers :
    req[h].op \in {"create", "fork", "delete"} /\ (req[h].vm = v \/ req[h].slot = vms[v].slot)

Settled(v) == boot = "serve" /\ vms[v].state = "running" /\ vms[v].slot # None /\ ~Unsettled(v)

\* While the agent reports that isolation is in force, the rules let two VMs
\* whose requests are answered talk if and only if they are of one tenant:
\* whatever rebuilds, creates, deletes and reuses of a slot run at once, and
\* whichever of them have failed.
TenantRules ==
    \A u, v \in Vms : flags.iso /\ u # v /\ Settled(u) /\ Settled(v) =>
        (<<vms[u].slot, vms[v].slot>> \in pairs
            <=> vms[u].tenant = vms[v].tenant /\ vms[u].tenant # None)

\* Once the agent serves, no guest is on a tap that is not pinned to the
\* address of its slot, although the tap of a slot is unpinned and torn down
\* by one request and set up again by the next ("the pin is keyed on the device
\* name, which the next VM to claim this slot will reuse").
PinnedTaps ==
    boot = "serve" => \A s \in Slots : guest[s] # None => tap[s] # "bare"

\* Between two rebuilds, the ingress rules that lead to a VM whose requests are
\* answered are its exposes: none is missing, and none is left over from the
\* VM that had the address before.
IngressRules ==
    \A v \in Vms :
        /\ Settled(v)
        /\ \A h \in Handlers : ~At(h, "fill") /\ req[h].vm # v
        => {r \in dnat : r[2] = vms[v].slot} = Exposes(v)

\* A node port leads to one guest, in the records and in the rules, although
\* exposes and deletes run at once ("node ports are unique across ALL VMs").
OneTarget ==
    /\ \A u, v \in Ids, p, q \in Ports :
          vms[u].exposes[p] # None /\ vms[u].exposes[p] = vms[v].exposes[q] => u = v /\ p = q
    /\ \A r1, r2 \in dnat : r1[1] = r2[1] => r1 = r2

\* ruleset_lock is held by the request whose rebuild is under way and by no
\* other: two rebuilds never mix their nft commands, and nobody waits for a
\* lock while holding it, also not the removal of a VM whose rules could not be
\* installed.
LockIsShort ==
    {h \in Handlers : At(h, "apply") \/ At(h, "fill")} = {lock} \ {None}
=============================================================================
