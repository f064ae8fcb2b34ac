---------------------------- MODULE ControlPlane ----------------------------
(***************************************************************************)
(* The sandbox records of feluccad (go/internal/server/server.go,          *)
(* lifecycle.go, usage.go and go/internal/state/state.go) over one worker  *)
(* node: the request handlers, the lifecycle sweep, the snapshots in the   *)
(* store, the usage ledger and what the agent holds for each sandbox.      *)
(*                                                                         *)
(* A handler holds the state lock only in its critical sections and never  *)
(* across a call to the agent, nor from one call of the state package to   *)
(* the next: every critical section, agent call and persist is an action.  *)
(* A request that is refused before it changes anything is a stutter.      *)
(* The agent is the one of module AgentVm, one step per call (external).   *)
(***************************************************************************)
EXTENDS Integers, FiniteSets

CONSTANTS
    Ids,           \* sandbox ids
    Reqs,          \* requests of clients
    Sweeper,       \* the goroutine of LifecycleLoop
    Ops,           \* what clients ask for
    Faults,        \* "fail", "lost" (see Answers), "exit", "store"
    Orderly,       \* TRUE: one client request at a time for a sandbox
    MaxSandboxes,  \* the quota of the tenant, 0 for none
    IdleS, TtlS,   \* its policies in seconds, 0 for none
    MaxTime,       \* bound on the clock
    MaxCrashes,    \* bound on the restarts of feluccad
    NoId

ASSUME ControlAssumption ==
    /\ Sweeper \notin Reqs
    /\ NoId \notin Ids
    /\ MaxSandboxes \in Nat /\ IdleS \in Nat /\ TtlS \in Nat
    /\ MaxTime \in Nat /\ MaxCrashes \in Nat
    /\ IsFiniteSet(Ids)

VARIABLES
    now,      \* the clock
    sb,       \* State.Sandboxes: state, LastActivity and SleptAt
    saved,    \* the last snapshot in the store
    billed,   \* the sandboxes with an open interval in the usage ledger
    req,      \* the handlers and the action of the sweep in progress
    acts,     \* what the sweep has decided and not yet done
    swept,    \* when it decided
    deaf,     \* its unreachable set, for one node and tenant
    vm,       \* the agent's records, and since when each VM is asleep
    crashes   \* how often feluccad has been restarted

store == <<saved, billed>>
sweep == <<acts, swept, deaf>>
vars == <<now, sb, saved, billed, req, acts, swept, deaf, vm, crashes>>

NoSandbox == [state |-> "absent", last |-> 0, slept |-> 0]
Idle == [op |-> "none", id |-> NoId, src |-> NoId, pc |-> "idle", ok |-> "none"]

Init ==
    /\ now = 1
    /\ sb = [i \in Ids |-> NoSandbox]
    /\ saved = sb
    /\ billed = {}
    /\ req = [r \in Reqs \cup {Sweeper} |-> Idle]
    /\ acts = {} /\ swept = 0 /\ deaf = FALSE
    /\ vm = [i \in Ids |-> [state |-> "absent", since |-> 0]]
    /\ crashes = 0

----------------------------------------------------------------------------
Exists(i) == sb[i].state # "absent"

At(r, pc) == req[r].pc = pc

Goto(r, pc) == req' = [req EXCEPT ![r].pc = pc]

Done(r) == req' = [req EXCEPT ![r] = Idle]

Enter(r, op, i, src, pc) ==
    req' = [req EXCEPT ![r] = [Idle EXCEPT !.op = op, !.id = i, !.src = src, !.pc = pc]]

Owned == {i \in Ids : Exists(i)}

\* SetSandboxState: nothing happens to a sandbox that is gone.
SetSandboxState(i, s) == sb' = [sb EXCEPT ![i].state = IF Exists(i) THEN s ELSE @]

Busy(i) == \E r \in Reqs : i \in {req[r].id, req[r].src}

\* The states from which each request makes sense: the state diagram of
\* ARCHITECTURE.md, and the stop of a paused VM, which nothing refuses.
From(op) == CASE op = "start" -> {"stopped", "error"}
              [] op = "wake" -> {"sleeping"}
              [] op = "sleep" -> {"running", "paused"}
              [] op = "pause" -> {"running"}
              [] op = "resume" -> {"paused"}
              [] op = "stop" -> {"running", "paused"}
              [] op = "fork" -> {"running", "paused", "sleeping"}
              [] OTHER -> {"running", "paused", "sleeping", "stopped", "error"}

Admit(r, op, i) ==
    /\ op \in Ops /\ At(r, "idle") /\ Exists(i)
    /\ Orderly => ~Busy(i) /\ sb[i].state \in From(op)

\* nextID draws an id that was never used before.
Unused(i) ==
    /\ ~Exists(i) /\ saved[i] = NoSandbox /\ i \notin billed /\ vm[i].state = "absent"
    /\ \A r \in DOMAIN req : i \notin {req[r].id, req[r].src}

\* Mutation: off by one at the limit.
QuotaExceededLate == MaxSandboxes > 0 /\ Cardinality(Owned) > MaxSandboxes

\* quotaExceededLocked, for the number of sandboxes; zero means unlimited.
QuotaExceeded == MaxSandboxes > 0 /\ Cardinality(Owned) + 1 > MaxSandboxes

Fresh == [state |-> "creating", last |-> now, slept |-> 0]

----------------------------------------------------------------------------
(* The handlers, up to the release of the first lock.                      *)

\* createSandbox: the quota is checked in the critical section that inserts.
CreateSandbox(r, i) ==
    /\ "create" \in Ops /\ At(r, "idle") /\ Unused(i)
    /\ ~QuotaExceeded
    /\ sb' = [sb EXCEPT ![i] = Fresh]
    /\ Enter(r, "create", i, NoId, "record")
    /\ UNCHANGED <<now, store, sweep, vm, crashes>>

\* forkSandbox, whose second critical section checks everything again.
ForkSandbox(r, p, c) ==
    /\ Admit(r, "fork", p)
    /\ Unused(c)
    /\ ~QuotaExceeded
    /\ sb[p].state \in {"running", "paused", "sleeping"}
    /\ sb' = [sb EXCEPT ![c] = Fresh,
                        ![p].last = now,
                        ![p].slept = IF sb[p].state = "sleeping" THEN now ELSE @]
    /\ Enter(r, "fork", c, p, "record")
    /\ UNCHANGED <<now, store, sweep, vm, crashes>>

\* sandboxAction, sleepSandbox, wakeSandbox and deleteSandbox look the node up.
Request(r, op, i) ==
    /\ op \in {"start", "stop", "pause", "resume", "sleep", "wake", "delete", "force"}
    /\ Admit(r, op, i)
    /\ Enter(r, op, i, NoId, "call")
    /\ UNCHANGED <<now, sb, store, sweep, vm, crashes>>

\* execSandbox restarts the idle clock, and so does traffic at the gateway.
Exec(i) ==
    /\ "exec" \in Ops /\ sb[i].state = "running"
    /\ sb' = [sb EXCEPT ![i].last = now]
    /\ UNCHANGED <<now, store, req, sweep, vm, crashes>>

RoutesActivity(i) ==
    /\ "traffic" \in Ops /\ Exists(i)
    /\ sb' = [sb EXCEPT ![i].last = now]
    /\ UNCHANGED <<now, store, req, sweep, vm, crashes>>

----------------------------------------------------------------------------
(* The lifecycle sweep.                                                    *)

IsIdle(i) == sb[i].state = "running" /\ IdleS > 0 /\ now - sb[i].last >= IdleS

IsExpired(i) ==
    sb[i].state = "sleeping" /\ sb[i].slept # 0 /\ TtlS > 0 /\ now - sb[i].slept >= TtlS

\* lifecycleSweep decides for every sandbox under one lock, and stamps the
\* sleepers that have no slept_at.
Sweep ==
    /\ At(Sweeper, "idle") /\ acts = {}
    /\ acts' = {i \in Ids : IsIdle(i)} \X {"autosleep"}
               \cup {i \in Ids : IsExpired(i)} \X {"autodelete"}
    /\ sb' = [i \in Ids |-> IF sb[i].state = "sleeping" /\ sb[i].slept = 0
                            THEN [sb[i] EXCEPT !.slept = now] ELSE sb[i]]
    /\ swept' = now
    /\ deaf' = FALSE
    /\ UNCHANGED <<now, store, req, vm, crashes>>

\* autoSleep and autoDelete look at the state of the sandbox once more.
AutoAct(i, op) ==
    /\ At(Sweeper, "idle") /\ <<i, op>> \in acts
    /\ op = "autodelete" => acts \cap (Ids \X {"autosleep"}) = {}
    /\ acts' = acts \ {<<i, op>>}
    /\ IF sb[i].state = (IF op = "autosleep" THEN "running" ELSE "sleeping") /\ ~deaf
       THEN Enter(Sweeper, op, i, NoId, "call")
       ELSE UNCHANGED req
    /\ UNCHANGED <<now, sb, store, swept, deaf, vm, crashes>>

----------------------------------------------------------------------------
(* The calls to the agent.                                                 *)

IsBuild(op) == op \in {"create", "fork"}
IsSleep(op) == op \in {"sleep", "autosleep"}
IsDelete(op) == op \in {"delete", "force", "autodelete"}

\* What the agent does to a VM in state s (of a fork: whose parent is in state
\* p), and its answer: a set of pairs.  wake has no guard, and works when there
\* are snapshot files; the stop of a VM that is being built is overridden.
Outcomes(op, s, p) ==
    LET done(t) == {<<t, "ok">>}
        refused == {<<s, "refused">>}
    IN  CASE op = "stop" -> IF s = "absent" THEN refused
                            ELSE IF s = "creating" THEN done(s) ELSE done("stopped")
          [] op = "start" -> IF s \in {"running", "stopped", "error"} THEN done("running")
                             ELSE refused
          [] op = "pause" -> IF s \in {"running", "paused"} THEN done("paused") ELSE refused
          [] op = "resume" -> IF s \in {"running", "paused"} THEN done("running") ELSE refused
          [] IsSleep(op) -> IF s \in {"running", "paused", "sleeping"} THEN done("sleeping")
                            ELSE refused
          [] op = "wake" -> IF s \in {"running", "sleeping"} THEN done("running")
                            ELSE IF s \in {"paused", "stopped", "error"}
                            THEN done("running") \cup refused ELSE refused
          [] IsDelete(op) -> done("absent")
          [] op = "fork" -> IF p \in From("fork") THEN done("creating") ELSE refused
          [] OTHER -> done("creating")

\* "fail": the agent answers with an error; "lost": the node cannot be reached,
\* or the answer does not arrive within the 30 seconds of the client.
Answers(op, s, p) ==
    LET all == Outcomes(op, s, p)
    IN  all \cup (IF "fail" \in Faults THEN {<<s, "refused">>} ELSE {})
            \cup (IF "lost" \in Faults THEN {<<a[1], "lost">> : a \in all} \cup {<<s, "lost">>}
                  ELSE {})

\* A delete that overtakes a build makes the build fail.
CutShort(i) == [r \in DOMAIN req |-> IF At(r, "building") /\ req[r].id = i
                                     THEN [req[r] EXCEPT !.pc = "answered", !.ok = "refused"]
                                     ELSE req[r]]

AgentCall(r) ==
    /\ At(r, "call")
    /\ LET i == req[r].id
           op == req[r].op
           parent == IF op = "fork" THEN vm[req[r].src].state ELSE "absent"
       IN  \E a \in Answers(op, vm[i].state, parent) :
             /\ vm' = [vm EXCEPT ![i] = [state |-> a[1],
                                         since |-> IF a[1] # "sleeping" THEN 0
                                                   ELSE IF vm[i].state = "sleeping" THEN @.since
                                                   ELSE IF op = "autosleep" THEN swept ELSE now]]
             /\ LET rest == IF a[1] = "absent" THEN CutShort(i) ELSE req
                IN  req' = [rest EXCEPT
                             ![r].pc = IF IsBuild(op) /\ a[2] = "ok" THEN "building"
                                       ELSE "answered",
                             ![r].ok = a[2]]
             /\ deaf' = (deaf \/ (r = Sweeper /\ a[2] = "lost"))
    /\ UNCHANGED <<now, sb, store, acts, swept, crashes>>

\* The agent builds the VM of a create or a fork, also for a caller that is gone.
AgentBuilt(i) ==
    /\ vm[i].state = "creating"
    /\ \E s \in {"running"} \cup (IF "fail" \in Faults THEN {"error"} ELSE {}) :
         /\ vm' = [vm EXCEPT ![i].state = s]
         /\ req' = [r \in DOMAIN req |->
                      IF At(r, "building") /\ req[r].id = i
                      THEN [req[r] EXCEPT !.pc = "answered",
                                          !.ok = IF s = "running" THEN "ok" ELSE "refused"]
                      ELSE req[r]]
    /\ UNCHANGED <<now, sb, store, sweep, crashes>>

CallTimesOut(r) ==
    /\ At(r, "building") /\ "lost" \in Faults
    /\ req' = [req EXCEPT ![r].pc = "answered", ![r].ok = "lost"]
    /\ UNCHANGED <<now, sb, store, sweep, vm, crashes>>

----------------------------------------------------------------------------
(* What the handlers and the sweep do with the answer.                     *)

Goal(op) == CASE op = "stop" -> "stopped"
              [] op = "pause" -> "paused"
              [] IsSleep(op) -> "sleeping"
              [] OTHER -> "running"

\* Mutation: every delete is best-effort about the call to the agent.
ApplyBestEffort(r) ==
    /\ At(r, "answered")
    /\ LET i == req[r].id
           op == req[r].op
       IN  IF req[r].ok = "ok" \/ IsDelete(op)
           THEN IF IsDelete(op)
                THEN sb' = [sb EXCEPT ![i] = NoSandbox] /\ Goto(r, "persist")
                ELSE /\ SetSandboxState(i, Goal(op))
                     /\ Goto(r, IF IsSleep(op) \/ op = "wake" THEN "stamp" ELSE "persist")
           ELSE IF IsBuild(op) THEN SetSandboxState(i, "error") /\ Goto(r, "persist")
           ELSE Done(r) /\ UNCHANGED sb
    /\ UNCHANGED <<now, store, sweep, vm, crashes>>

\* SetSandboxState or RemoveSandbox; a failed build is an error, any other
\* failure leaves the record alone, unless an administrator forces a delete.
Apply(r) ==
    /\ At(r, "answered")
    /\ LET i == req[r].id
           op == req[r].op
       IN  IF req[r].ok = "ok" \/ op = "force"
           THEN IF IsDelete(op)
                THEN sb' = [sb EXCEPT ![i] = NoSandbox] /\ Goto(r, "persist")
                ELSE /\ SetSandboxState(i, Goal(op))
                     /\ Goto(r, IF IsSleep(op) \/ op = "wake" THEN "stamp" ELSE "persist")
           ELSE IF IsBuild(op) THEN SetSandboxState(i, "error") /\ Goto(r, "persist")
           ELSE Done(r) /\ UNCHANGED sb
    /\ UNCHANGED <<now, store, sweep, vm, crashes>>

\* Mutation: the clocks are stamped and the ledger is forgotten.
StampUnmetered(r) ==
    /\ At(r, "stamp")
    /\ LET i == req[r].id
       IN  sb' = [sb EXCEPT ![i].slept = IF ~Exists(i) \/ req[r].op = "wake" THEN 0 ELSE now]
    /\ Goto(r, "persist")
    /\ UNCHANGED <<now, store, sweep, vm, crashes>>

\* sleep, autoSleep and wake take the lock again for the clocks and the ledger.
\* sleep and wake return without a persist when the sandbox is lost by then.
Stamp(r) ==
    /\ At(r, "stamp")
    /\ LET i == req[r].id
           op == req[r].op
       IN  IF Exists(i)
           THEN /\ sb' = [sb EXCEPT ![i] = IF op = "wake"
                                           THEN [@ EXCEPT !.last = now, !.slept = 0]
                                           ELSE [@ EXCEPT !.slept = IF op = "autosleep"
                                                                    THEN swept ELSE now]]
                /\ billed' = IF op = "wake" THEN billed \cup {i} ELSE billed \ {i}
                /\ Goto(r, "persist")
           ELSE /\ UNCHANGED <<sb, billed>>
                /\ IF op = "autosleep" THEN Goto(r, "persist") ELSE Done(r)
    /\ UNCHANGED <<now, saved, sweep, vm, crashes>>

\* SaveSnapshot writes all records in one transaction; a failure is logged and
\* the handler goes on.  For a build it also comes before the call (pc "record").
Persist(r) ==
    /\ req[r].pc \in {"record", "persist"}
    /\ saved' \in {sb} \cup (IF "store" \in Faults THEN {saved} ELSE {})
    /\ LET op == req[r].op
       IN  IF At(r, "record") THEN Goto(r, "call")
           ELSE IF IsDelete(op) \/ (req[r].ok = "ok" /\ ~IsSleep(op) /\ op # "wake")
           THEN Goto(r, "usage") ELSE Done(r)
    /\ UNCHANGED <<now, sb, billed, sweep, vm, crashes>>

\* Mutation: the shape read before the call is used without a second look.
RecordUsageBlind(r) ==
    /\ At(r, "usage")
    /\ LET i == req[r].id
           op == req[r].op
       IN  billed' = IF IsDelete(op) \/ Goal(op) # "running" THEN billed \ {i}
                     ELSE billed \cup {i}
    /\ Done(r)
    /\ UNCHANGED <<now, sb, saved, sweep, vm, crashes>>

\* recordUsage: a delete uses the shape it read at first, the others look the
\* sandbox up again.
RecordUsage(r) ==
    /\ At(r, "usage")
    /\ LET i == req[r].id
           op == req[r].op
       IN  billed' = IF IsDelete(op) THEN billed \ {i}
                     ELSE IF ~Exists(i) THEN billed
                     ELSE IF Goal(op) = "running" THEN billed \cup {i} ELSE billed \ {i}
    /\ Done(r)
    /\ UNCHANGED <<now, sb, saved, sweep, vm, crashes>>

----------------------------------------------------------------------------
Tick ==
    /\ now < MaxTime
    /\ now' = now + 1
    /\ UNCHANGED <<sb, store, req, sweep, vm, crashes>>

\* A Firecracker exits; feluccad never hears of it.
VmDies(i) ==
    /\ "exit" \in Faults /\ vm[i].state \in {"running", "paused"}
    /\ vm' = [vm EXCEPT ![i].state = "error"]
    /\ UNCHANGED <<now, sb, store, req, sweep, crashes>>

\* feluccad dies and LoadInto reads the last snapshot.  A call that has not
\* reached the agent by then never does.
Crash ==
    /\ crashes < MaxCrashes
    /\ crashes' = crashes + 1
    /\ sb' = saved
    /\ req' = [r \in DOMAIN req |-> Idle]
    /\ acts' = {} /\ swept' = 0 /\ deaf' = FALSE
    /\ UNCHANGED <<now, store, vm>>

Handle(r) ==
    \/ AgentCall(r) \/ CallTimesOut(r)
    \/ Apply(r) \/ Stamp(r) \/ Persist(r) \/ RecordUsage(r)

Next ==
    \/ \E r \in Reqs, i \in Ids : \/ CreateSandbox(r, i)
                                  \/ \E c \in Ids : ForkSandbox(r, i, c)
                                  \/ \E op \in Ops : Request(r, op, i)
    \/ \E r \in Reqs \cup {Sweeper} : Handle(r)
    \/ Sweep
    \/ \E i \in Ids, op \in {"autosleep", "autodelete"} : AutoAct(i, op)
    \/ \E i \in Ids : Exec(i) \/ RoutesActivity(i) \/ AgentBuilt(i) \/ VmDies(i)
    \/ Tick
    \/ Crash

Spec == Init /\ [][Next]_vars

----------------------------------------------------------------------------
\* "concurrent creates cannot all admit against the same pre-request totals"
\* (createSandbox): creates and forks that run at once stay within the quota.
QuotaRespected == MaxSandboxes > 0 => Cardinality(Owned) <= MaxSandboxes

\* A VM is never left on a node without a record that leads to it: "the sweep
\* never abandons a VM on its own" and "[force] is the only way a live VM can be
\* abandoned here" (autoDelete, deleteSandbox).  It holds across a crash, too.
NoVmForgotten == \A i \in Ids : vm[i].state # "absent" => Exists(i) /\ saved[i] # NoSandbox

Deleting(i) == \E r \in DOMAIN req : req[r].id = i /\ IsDelete(req[r].op)

\* The ledger has no open interval for a sandbox that is gone: whatever a late
\* create, wake or start appends, "deleted" comes after it (usage.go runEnd).
BillingStops == \A i \in billed : Exists(i) \/ Deleting(i) \/ crashes > 0

Quiet(i) == \A r \in DOMAIN req : i \notin {req[r].id, req[r].src}

\* Usage is metered for the sandboxes that are shown as running and no others
\* ("intervals open on created/started/resumed/woken/forked, close on
\* paused/slept/stopped/deleted", ADR-0009), once nothing works on them.
UsageMatchesState ==
    crashes = 0 => \A i \in Ids : Quiet(i) => (i \in billed <=> sb[i].state = "running")

\* "auto-deletes sleeping ones past their TTL" (API-V2.md): what the sweep
\* deletes is asleep, and has been for the whole of its TTL.
TtlRespected ==
    [][\A i \in Ids :
         At(Sweeper, "call") /\ req[Sweeper].op = "autodelete" /\ req[Sweeper].id = i
           /\ vm[i].state # "absent" /\ vm'[i].state = "absent" /\ req'[Sweeper].pc = "answered"
         => vm[i].state = "sleeping" /\ now - vm[i].since >= TtlS]_vars
=============================================================================
