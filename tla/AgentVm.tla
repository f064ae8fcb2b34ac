------------------------------ MODULE AgentVm ------------------------------
(***************************************************************************)
(* The VM manager of felucca-agent (rust/agent/src/vm/mod.rs, reconcile.rs *)
(* and the request handlers of server.rs): the VM records, the guest slot  *)
(* allocator, the rootfs captures, the instance directories and the        *)
(* Firecracker (FC) processes of one worker node.                          *)
(*                                                                         *)
(* The manager has one mutex, `inner`, and releases it across every await; *)
(* nothing serialises two requests on the same VM.  A request is therefore *)
(* a process of its own: one action per critical section or call to an FC, *)
(* with the values read under an earlier lock kept in req[r].              *)
(*                                                                         *)
(* A request that returns before it changes anything (NotFound,            *)
(* InvalidState, an idempotent Ok) is a stuttering step, so the conditions *)
(* of those early returns are the guards of the actions that start one.    *)
(***************************************************************************)
EXTENDS Naturals, FiniteSets

CONSTANTS
    Ids,      \* VM ids, which also name the instance directories
    Reqs,     \* request tasks
    Pids,     \* process ids
    Slots,    \* indices of the guest addresses of net_cidr
    Ops,      \* the requests that clients send
    Faults,   \* what can go wrong, a subset of FaultKinds
    Orderly,  \* TRUE: see Admit
    None      \* Rust's None

FaultKinds == {"fail",      \* a step on the host or in an FC returns an error
               "litter",    \* an instance directory cannot be removed
               "exit",      \* an FC exits by itself
               "restart",   \* the agent is killed and started again
               "reboot",    \* the host goes down: every FC dies with the agent
               "drop",      \* a client goes away and its handler is cancelled
               "stubborn",  \* an FC survives SIGKILL for more than 5 seconds
               "reuse"}     \* the host reuses a pid that a meta.json still names

ASSUME AgentAssumption ==
    /\ Slots \subseteq Nat
    /\ Pids \subseteq Nat
    /\ None \notin Ids \cup Pids \cup Slots
    /\ Faults \subseteq FaultKinds
    /\ Orderly \in BOOLEAN

VARIABLES
    vms,        \* the record of each VM, with its pid and its slot
    used,       \* the slots the allocator holds as taken
    capturing,  \* the VMs whose rootfs is being streamed
    fc,         \* the FC processes of the host
    disk,       \* the instance directories
    req         \* the requests in progress

vars == <<vms, used, capturing, fc, disk, req>>

NoVm == [state |-> "absent", pid |-> None, slot |-> None]
Gone == [dir |-> None, live |-> FALSE, paused |-> FALSE, term |-> FALSE, child |-> FALSE]
NoDir == [here |-> FALSE, meta |-> NoVm, snap |-> "none"]
Idle == [op |-> "none", id |-> None, src |-> None, pc |-> "idle",
         pid |-> None, slot |-> None, hot |-> FALSE]

Init ==
    /\ vms = [i \in Ids |-> NoVm]
    /\ used = {}
    /\ capturing = {}
    /\ fc = [p \in Pids |-> Gone]
    /\ disk = [i \in Ids |-> NoDir]
    /\ req = [r \in Reqs |-> Idle]

----------------------------------------------------------------------------
Exists(i) == vms[i].state # "absent"

\* kill(pid, 0): an FC that is dead but not yet waited for is still there.
PidAlive(p) == fc[p].live \/ fc[p].child

\* Some FC serves the API socket of the instance.
Answers(i, p) == fc[p].live /\ fc[p].dir = i

\* The host gives a new process the lowest pid that is not in use.
Named(p) ==
    \/ PidAlive(p)
    \/ \E i \in Ids : p = vms[i].pid
    \/ \E r \in Reqs : p = req[r].pid
    \/ "reuse" \notin Faults /\ \E i \in Ids : p = disk[i].meta.pid

FreshPid(p) == ~Named(p) /\ \A q \in Pids : q < p => Named(q)

\* Allocator::claim: the lowest slot that is not used.
LowestFree(s) == s \notin used /\ \A t \in Slots \ used : s <= t

SetState(i, s) == vms' = [vms EXCEPT ![i].state = IF Exists(i) THEN s ELSE @]

SetPid(i, p) == vms' = [vms EXCEPT ![i].pid = IF Exists(i) THEN p ELSE @]

\* write_meta: fails when the record or the directory is gone.
CanWriteMeta(i) == Exists(i) /\ disk[i].here

WriteMeta(i, vm) == disk' = [disk EXCEPT ![i].meta = IF disk[i].here THEN vm ELSE @]

\* SIGKILL and waitpid; the reaper task of a child still has to run.
Killed(p) == [fc EXCEPT ![p] = IF fc[p].child
                               THEN [Gone EXCEPT !.dir = fc[p].dir, !.child = TRUE]
                               ELSE Gone]

Kill(p) == fc' = IF p = None THEN fc ELSE Killed(p)

Enter(r, op, i, pc, pid, slot) ==
    req' = [req EXCEPT ![r] = [op |-> op, id |-> i, src |-> None, pc |-> pc,
                               pid |-> pid, slot |-> slot, hot |-> FALSE]]

Goto(r, pc) == req' = [req EXCEPT ![r].pc = pc]

Done(r) == req' = [req EXCEPT ![r] = Idle]

At(r, pc) == req[r].pc = pc

IsBuild(r) == req[r].op \in {"create", "fork"}

IsDelete(r) == req[r].op \in {"delete", "rollback"}

Busy(i) == \E r \in Reqs : i \in {req[r].id, req[r].src}

\* The states from which each request makes sense: the state diagram of
\* ARCHITECTURE.md, and the stop of a paused VM, which nothing refuses.
From(op) == CASE op = "create" -> {"absent"}
              [] op = "start" -> {"stopped", "error"}
              [] op = "wake" -> {"sleeping"}
              [] op = "sleep" -> {"running", "paused"}
              [] op = "pause" -> {"running"}
              [] op = "resume" -> {"paused"}
              [] op = "stop" -> {"running", "paused"}
              [] op = "capture" -> {"stopped"}
              [] op = "fork" -> {"running", "paused", "sleeping"}
              [] op = "delete" -> {"running", "paused", "sleeping", "stopped", "error"}

\* Orderly callers send one request at a time to a VM and follow the
\* documented state machine.  Neither feluccad nor the agent enforces it.
Admit(r, op, i) ==
    /\ op \in Ops
    /\ At(r, "idle")
    /\ Orderly => ~Busy(i) /\ vms[i].state \in From(op)

\* feluccad mints the id of a new VM at random, so nothing on the node has it.
Unused(i) ==
    /\ ~Exists(i) /\ ~Busy(i) /\ ~disk[i].here
    /\ \A p \in Pids : fc[p].dir # i

----------------------------------------------------------------------------
(* The requests, up to the release of the first lock.                      *)

Create(r, i) ==
    /\ Admit(r, "create", i)
    /\ Unused(i)
    /\ vms' = [vms EXCEPT ![i] = [NoVm EXCEPT !.state = "creating"]]
    /\ Enter(r, "create", i, "image", None, None)
    /\ UNCHANGED <<used, capturing, fc, disk>>

Start(r, i) ==
    /\ Admit(r, "start", i)
    /\ i \notin capturing
    /\ vms[i].state \in {"stopped", "error"}
    /\ vms[i].pid # None => ~PidAlive(vms[i].pid)
    /\ Enter(r, "start", i, "spawn", None, vms[i].slot)
    /\ UNCHANGED <<vms, used, capturing, fc, disk>>

Wake(r, i) ==
    /\ Admit(r, "wake", i)
    /\ Exists(i) /\ vms[i].state # "running"
    /\ Enter(r, "wake", i, "spawn", None, vms[i].slot)
    /\ UNCHANGED <<vms, used, capturing, fc, disk>>

Sleep(r, i) ==
    /\ Admit(r, "sleep", i)
    /\ Exists(i) /\ vms[i].state # "sleeping"
    /\ Enter(r, "sleep", i, "patch", vms[i].pid, None)
    /\ UNCHANGED <<vms, used, capturing, fc, disk>>

Pause(r, i) ==
    /\ Admit(r, "pause", i)
    /\ vms[i].state = "running"
    /\ Enter(r, "pause", i, "patch", None, None)
    /\ UNCHANGED <<vms, used, capturing, fc, disk>>

Resume(r, i) ==
    /\ Admit(r, "resume", i)
    /\ vms[i].state = "paused"
    /\ Enter(r, "resume", i, "patch", None, None)
    /\ UNCHANGED <<vms, used, capturing, fc, disk>>

Stop(r, i) ==
    /\ Admit(r, "stop", i)
    /\ Exists(i)
    /\ Enter(r, "stop", i, "setstate", vms[i].pid, None)
    /\ UNCHANGED <<vms, used, capturing, fc, disk>>

\* delete reads the slot, then runs stop.
EnterDelete(r, op, i) == Enter(r, op, i, "stop", None, vms[i].slot)

Delete(r, i) ==
    /\ Admit(r, "delete", i)
    /\ Exists(i) \/ disk[i].here
    /\ EnterDelete(r, "delete", i)
    /\ UNCHANGED <<vms, used, capturing, fc, disk>>

BeginCapture(r, i) ==
    /\ Admit(r, "capture", i)
    /\ vms[i].state = "stopped"
    /\ i \notin capturing
    /\ capturing' = capturing \cup {i}
    /\ Enter(r, "capture", i, "stream", None, None)
    /\ UNCHANGED <<vms, used, fc, disk>>

\* fork notes whether the parent runs: then it is paused for its snapshot and
\* resumed (hot).
Fork(r, i, c) ==
    /\ Admit(r, "fork", i)
    /\ Exists(i)
    /\ c # i /\ Unused(c)
    /\ req' = [req EXCEPT ![r] =
                 [op |-> "fork", id |-> c, src |-> i, pid |-> None, slot |-> None,
                  pc |-> "look", hot |-> vms[i].state = "running"]]
    /\ UNCHANGED <<vms, used, capturing, fc, disk>>

----------------------------------------------------------------------------
(* The later steps of the requests.  The steps that several requests share *)
(* are one action; r's pc says which comes next.                           *)

\* fork looks at the parent again: the snapshot files of a sleeping parent are
\* used as they are.
ForkLooks(r) ==
    /\ At(r, "look")
    /\ LET parent == vms[req[r].src].state
       IN  IF parent = "absent" THEN Done(r)
           ELSE IF parent = "sleeping" THEN Goto(r, "copy")
           ELSE IF req[r].hot THEN Goto(r, "patch") ELSE Goto(r, "snapshot")
    /\ UNCHANGED <<vms, used, capturing, fc, disk>>

\* The stop inside delete reads the pid; on a missing record it is ignored.
StopLooks(r) ==
    /\ At(r, "stop")
    /\ IF Exists(req[r].id)
       THEN req' = [req EXCEPT ![r].pid = vms[req[r].id].pid, ![r].pc = "setstate"]
       ELSE Goto(r, "unslot")
    /\ UNCHANGED <<vms, used, capturing, fc, disk>>

\* create_instance_dir, ensure_image, copy_rootfs and grow_rootfs.
PrepareDir(r) ==
    /\ At(r, "image")
    /\ LET made == [disk EXCEPT ![req[r].id].here = TRUE] IN
         \/ disk' = made /\ Goto(r, "slot")
         \/ "fail" \in Faults /\ disk' \in {disk, made} /\ Goto(r, "fail")
    /\ UNCHANGED <<vms, used, capturing, fc>>

\* IpPoolExhausted marks a created VM as failed, but leaves a fork child alone.
ClaimSlot(r) ==
    /\ At(r, "slot")
    /\ \/ \E s \in Slots :
            /\ LowestFree(s)
            /\ used' = used \cup {s}
            /\ req' = [req EXCEPT ![r].slot = s, ![r].pc = "spawn"]
       \/ /\ Slots \subseteq used
          /\ IF req[r].op = "create" THEN Goto(r, "fail") ELSE Done(r)
          /\ UNCHANGED used
    /\ UNCHANGED <<vms, capturing, fc, disk>>

\* Mutation of TapFails: start and wake give the slot of their VM back, too.
TapFailsFreeing(r) ==
    /\ At(r, "spawn")
    /\ "fail" \in Faults
    /\ used' = used \ {req[r].slot}
    /\ IF IsBuild(r) THEN Goto(r, "fail") ELSE Done(r)
    /\ UNCHANGED <<vms, capturing, fc, disk>>

\* ensure_pinned_tap fails: only a VM that is being built gives its slot back.
TapFails(r) ==
    /\ At(r, "spawn")
    /\ "fail" \in Faults
    /\ used' = IF IsBuild(r) THEN used \ {req[r].slot} ELSE used
    /\ IF IsBuild(r) THEN Goto(r, "fail") ELSE Done(r)
    /\ UNCHANGED <<vms, capturing, fc, disk>>

Spawn(r) ==
    /\ At(r, "spawn")
    /\ disk[req[r].id].here
    /\ \E p \in Pids :
         /\ FreshPid(p)
         /\ fc' = [fc EXCEPT ![p] = [dir |-> req[r].id, live |-> TRUE,
                                     paused |-> FALSE, term |-> FALSE,
                                     child |-> TRUE]]
         /\ req' = [req EXCEPT ![r].pid = p, ![r].pc = "boot"]
    /\ UNCHANGED <<vms, used, capturing, disk>>

\* serial.log cannot be opened or the process cannot be started.
SpawnFails(r) ==
    /\ At(r, "spawn")
    /\ \/ "fail" \in Faults
       \/ ~disk[req[r].id].here
       \/ \A p \in Pids : ~FreshPid(p)
    /\ IF req[r].op = "create" THEN Goto(r, "fail") ELSE Done(r)
    /\ UNCHANGED <<vms, used, capturing, fc, disk>>

\* configure_guest for a cold boot, put_snapshot_load for wake and fork.
CanBoot(r) ==
    /\ \E p \in Pids : Answers(req[r].id, p)
    /\ req[r].op \in {"wake", "fork"} => disk[req[r].id].snap # "none"

\* The guest runs and writes to its rootfs: an older snapshot no longer fits it.
Boot(r) ==
    /\ At(r, "boot")
    /\ CanBoot(r)
    /\ disk' = [disk EXCEPT ![req[r].id].snap = IF @ = "none" THEN @ ELSE "stale"]
    /\ Goto(r, IF IsBuild(r) THEN "publish" ELSE "setpid")
    /\ UNCHANGED <<vms, used, capturing, fc>>

\* Mutation of BootFails: the half-configured FC is left running.
BootFailsLeaking(r) ==
    /\ At(r, "boot")
    /\ "fail" \in Faults \/ ~CanBoot(r)
    /\ IF IsBuild(r) THEN Goto(r, "fail") ELSE Done(r)
    /\ UNCHANGED <<vms, used, capturing, fc, disk>>

BootFails(r) ==
    /\ At(r, "boot")
    /\ "fail" \in Faults \/ ~CanBoot(r)
    /\ Kill(req[r].pid)
    /\ IF IsBuild(r) THEN Goto(r, "fail") ELSE Done(r)
    /\ UNCHANGED <<vms, used, capturing, disk>>

\* The last critical section of cold_create_inner and fork.
Publish(r) ==
    /\ At(r, "publish")
    /\ LET i == req[r].id IN
         vms' = [vms EXCEPT ![i] = IF Exists(i)
                                   THEN [state |-> "running", pid |-> req[r].pid,
                                         slot |-> req[r].slot]
                                   ELSE @]
    /\ Goto(r, "meta")
    /\ UNCHANGED <<used, capturing, fc, disk>>

\* cold_create's handling of an error; fork does the same by itself.
MarkFailed(r) ==
    /\ At(r, "fail")
    /\ SetState(req[r].id, "error")
    /\ Done(r)
    /\ UNCHANGED <<used, capturing, fc, disk>>

RecordPid(r) ==
    /\ At(r, "setpid")
    /\ SetPid(req[r].id, req[r].pid)
    /\ Goto(r, "setstate")
    /\ UNCHANGED <<used, capturing, fc, disk>>

Goal(op) == CASE op \in {"start", "wake", "resume"} -> "running"
              [] op = "pause" -> "paused"
              [] op = "sleep" -> "sleeping"
              [] OTHER -> "stopped"    \* stop, and the stop inside delete

RecordState(r) ==
    /\ At(r, "setstate")
    /\ SetState(req[r].id, Goal(req[r].op))
    /\ Goto(r, IF req[r].op = "stop" \/ IsDelete(r) THEN "clearpid" ELSE "meta")
    /\ UNCHANGED <<used, capturing, fc, disk>>

\* stop and sleep clear the pid before they signal, for on_fc_exit.
ClearPid(r) ==
    /\ At(r, "clearpid")
    /\ SetPid(req[r].id, None)
    /\ Goto(r, "kill")
    /\ UNCHANGED <<used, capturing, fc, disk>>

\* Mutation of SleepKill: the FC is not killed after its snapshot.
SleepKeep(r) ==
    /\ At(r, "kill") /\ req[r].op = "sleep"
    /\ Goto(r, "setstate")
    /\ UNCHANGED <<vms, used, capturing, fc, disk>>

SleepKill(r) ==
    /\ At(r, "kill") /\ req[r].op = "sleep"
    /\ Kill(req[r].pid)
    /\ Goto(r, "setstate")
    /\ UNCHANGED <<vms, used, capturing, disk>>

\* stop sends SIGTERM, to which an FC reacts in its own time.
Terminate(r) ==
    /\ At(r, "kill") /\ req[r].op # "sleep"
    /\ fc' = IF req[r].pid = None THEN fc
             ELSE [fc EXCEPT ![req[r].pid].term = fc[req[r].pid].live]
    /\ Goto(r, "wait")
    /\ UNCHANGED <<vms, used, capturing, disk>>

\* Mutation of StopWaited: stop returns once it has sent SIGTERM.
StopUnwaited(r) ==
    /\ At(r, "wait")
    /\ IF IsDelete(r) THEN Goto(r, "unslot") ELSE Done(r)
    /\ UNCHANGED <<vms, used, capturing, fc, disk>>

\* stop polls until the signalled FC is gone; it gives up after 10 seconds.
StopWaited(r) ==
    /\ At(r, "wait")
    /\ \/ req[r].pid = None
       \/ req[r].pid # None /\ ~PidAlive(req[r].pid)
       \/ "stubborn" \in Faults
    /\ IF IsDelete(r) THEN Goto(r, "unslot") ELSE Done(r)
    /\ UNCHANGED <<vms, used, capturing, fc, disk>>

\* Mutation of FreeSlot: the slot of the request is set instead of cleared.
FreeSlotInverted(r) ==
    /\ At(r, "unslot")
    /\ used' = used \cup {req[r].slot}
    /\ Goto(r, "remove")
    /\ UNCHANGED <<vms, capturing, fc, disk>>

FreeSlot(r) ==
    /\ At(r, "unslot")
    /\ used' = used \ {req[r].slot}
    /\ Goto(r, "remove")
    /\ UNCHANGED <<vms, capturing, fc, disk>>

\* remove_dir_all, whose failure is logged and ignored.
RemoveDir(r) ==
    /\ At(r, "remove")
    /\ disk' \in {[disk EXCEPT ![req[r].id] = NoDir]}
               \cup (IF "litter" \in Faults THEN {disk} ELSE {})
    /\ Goto(r, "forget")
    /\ UNCHANGED <<vms, used, capturing, fc>>

RemoveRecord(r) ==
    /\ At(r, "forget")
    /\ vms' = [vms EXCEPT ![req[r].id] = NoVm]
    /\ Done(r)
    /\ UNCHANGED <<used, capturing, fc, disk>>

\* The FC that a patch or a snapshot talks to.
Subject(r) == IF req[r].op = "fork" THEN req[r].src ELSE req[r].id

\* patch_vm_state, before (hot forks and sleeps: to freeze) or for the request.
PatchVm(r) ==
    /\ At(r, "patch")
    /\ \E p \in Pids :
         /\ Answers(Subject(r), p)
         /\ fc' = [fc EXCEPT ![p].paused = req[r].op # "resume"]
    /\ Goto(r, IF req[r].op \in {"sleep", "fork"} THEN "snapshot" ELSE "setstate")
    /\ UNCHANGED <<vms, used, capturing, disk>>

\* put_snapshot_create, which Firecracker accepts for a paused VM only.
Snapshot(r) ==
    /\ At(r, "snapshot")
    /\ \E p \in Pids : Answers(Subject(r), p) /\ fc[p].paused
    /\ disk' = [disk EXCEPT ![Subject(r)].snap = IF disk[Subject(r)].here THEN "fresh" ELSE @]
    /\ Goto(r, IF req[r].op = "sleep" THEN "clearpid"
               ELSE IF req[r].hot THEN "thaw" ELSE "copy")
    /\ UNCHANGED <<vms, used, capturing, fc>>

Thaw(r) ==
    /\ At(r, "thaw")
    /\ \E p \in Pids :
         /\ Answers(Subject(r), p)
         /\ fc' = [fc EXCEPT ![p].paused = FALSE]
    /\ disk' = [disk EXCEPT ![Subject(r)].snap = IF @ = "none" THEN @ ELSE "stale"]
    /\ Goto(r, "copy")
    /\ UNCHANGED <<vms, used, capturing>>

\* Mutation of FcCallFails: sleep goes on when its snapshot could not be taken.
FcCallIgnored(r) ==
    /\ req[r].pc \in {"patch", "snapshot", "thaw"}
    /\ \/ "fail" \in Faults
       \/ \A p \in Pids : ~Answers(Subject(r), p)
       \/ At(r, "snapshot") /\ \A p \in Pids : Answers(Subject(r), p) => ~fc[p].paused
    /\ IF At(r, "snapshot") /\ req[r].op = "sleep" THEN Goto(r, "clearpid") ELSE Done(r)
    /\ UNCHANGED <<vms, used, capturing, fc, disk>>

\* Any of these calls to the FC returns an error, and the request with it.
FcCallFails(r) ==
    /\ req[r].pc \in {"patch", "snapshot", "thaw"}
    /\ \/ "fail" \in Faults
       \/ \A p \in Pids : ~Answers(Subject(r), p)
       \/ At(r, "snapshot") /\ \A p \in Pids : Answers(Subject(r), p) => ~fc[p].paused
    /\ Done(r)
    /\ UNCHANGED <<vms, used, capturing, fc, disk>>

\* fork copies the rootfs and the snapshot of the parent as they are now.
CopyParent(r) ==
    /\ At(r, "copy")
    /\ LET src == disk[req[r].src] IN
         \/ /\ src.snap # "none"
            /\ disk' = [disk EXCEPT ![req[r].id] = [NoDir EXCEPT !.here = TRUE,
                                                                 !.snap = src.snap]]
            /\ Goto(r, "register")
         \/ /\ src.snap = "none" \/ "fail" \in Faults
            /\ disk' = [disk EXCEPT ![req[r].id] = [NoDir EXCEPT !.here = TRUE]]
            /\ Done(r)
    /\ UNCHANGED <<vms, used, capturing, fc>>

\* Mutation of Register: the child's record is a clone of the parent's.
RegisterClone(r) ==
    /\ At(r, "register")
    /\ vms' = [vms EXCEPT ![req[r].id] = [vms[req[r].src] EXCEPT !.state = "creating"]]
    /\ Goto(r, "slot")
    /\ UNCHANGED <<used, capturing, fc, disk>>

Register(r) ==
    /\ At(r, "register")
    /\ vms' = [vms EXCEPT ![req[r].id] = [NoVm EXCEPT !.state = "creating"]]
    /\ Goto(r, "slot")
    /\ UNCHANGED <<used, capturing, fc, disk>>

\* Mutation of SaveMeta: only a new VM is written to disk.
SaveMetaOnce(r) ==
    /\ At(r, "meta")
    /\ IF IsBuild(r) THEN WriteMeta(req[r].id, vms[req[r].id]) /\ Goto(r, "commit")
       ELSE Done(r) /\ UNCHANGED disk
    /\ UNCHANGED <<vms, used, capturing, fc>>

SaveMeta(r) ==
    /\ At(r, "meta")
    /\ WriteMeta(req[r].id, vms[req[r].id])
    /\ IF ~IsBuild(r) THEN Done(r)
       ELSE IF CanWriteMeta(req[r].id) THEN Goto(r, "commit")
       ELSE IF req[r].op = "create" THEN Goto(r, "fail") ELSE Done(r)
    /\ UNCHANGED <<vms, used, capturing, fc>>

\* commit_or_isolate: a VM that cannot be isolated is deleted again.
Commit(r) ==
    /\ At(r, "commit")
    /\ \/ Done(r)
       \/ "fail" \in Faults /\ EnterDelete(r, "rollback", req[r].id)
    /\ UNCHANGED <<vms, used, capturing, fc, disk>>

\* The stream ends or the client disconnects: CaptureStream is dropped.
EndCapture(r) ==
    /\ At(r, "stream")
    /\ capturing' = capturing \ {req[r].id}
    /\ Done(r)
    /\ UNCHANGED <<vms, used, fc, disk>>

\* Mutation: the work of create and fork is not shielded.
CancelAny(r) ==
    /\ "drop" \in Faults
    /\ req[r].op # "none"
    /\ ~At(r, "kill")
    /\ Done(r)
    /\ UNCHANGED <<vms, used, capturing, fc, disk>>

\* create and fork run in a task of their own; the other handlers are cancelled
\* at their next await when the client goes away.
Cancel(r) ==
    /\ "drop" \in Faults
    /\ req[r].op \in {"start", "wake", "sleep", "pause", "resume", "stop", "delete"}
    /\ ~At(r, "kill")
    /\ Done(r)
    /\ UNCHANGED <<vms, used, capturing, fc, disk>>

----------------------------------------------------------------------------
(* The processes, the background loops and the restart.                    *)

\* An FC exits because a stop asked it to, or for reasons of its own.
FcExits(p) ==
    /\ fc[p].live
    /\ "exit" \in Faults \/ fc[p].term
    /\ fc' = Killed(p)
    /\ UNCHANGED <<vms, used, capturing, disk, req>>

\* on_fc_exit: an exit that nobody asked for turns the record into an error.
HasProcess(s) == s \in {"creating", "running", "paused"}

\* Mutation of OnFcExit: a VM that has snapshot files is taken to be asleep.
OnFcExitAsleep(i, p) ==
    IF vms[i].pid = p /\ HasProcess(vms[i].state)
    THEN LET s == IF disk[i].snap = "none" THEN "error" ELSE "sleeping"
             vm == [vms[i] EXCEPT !.state = s, !.pid = None]
         IN  vms' = [vms EXCEPT ![i] = vm] /\ WriteMeta(i, vm)
    ELSE UNCHANGED <<vms, disk>>

OnFcExit(i, p) ==
    IF vms[i].pid = p /\ HasProcess(vms[i].state)
    THEN LET vm == [vms[i] EXCEPT !.state = "error", !.pid = None]
         IN  vms' = [vms EXCEPT ![i] = vm] /\ WriteMeta(i, vm)
    ELSE UNCHANGED <<vms, disk>>

\* The task that spawn_and_configure, wake_vm and fork detach for each child.
Reap(p) ==
    /\ fc[p].child /\ ~fc[p].live
    /\ OnFcExit(fc[p].dir, p)
    /\ fc' = [fc EXCEPT ![p] = Gone]
    /\ UNCHANGED <<used, capturing, req>>

\* Mutation of SweepDead: only paused VMs are looked at.
SweepDeadPaused(i) ==
    /\ vms[i].pid # None /\ ~PidAlive(vms[i].pid)
    /\ vms[i].state = "paused"
    /\ OnFcExit(i, vms[i].pid)
    /\ UNCHANGED <<used, capturing, fc, req>>

\* sweep_dead, for the FCs that are not children of this agent.
SweepDead(i) ==
    /\ vms[i].pid # None /\ ~PidAlive(vms[i].pid)
    /\ HasProcess(vms[i].state)
    /\ OnFcExit(i, vms[i].pid)
    /\ UNCHANGED <<used, capturing, fc, req>>

\* reconcile_one, given the FCs that are still there.
Reconciled(d, alive) ==
    LET m == d.meta
        seen == m.state \in {"running", "paused"} /\ m.pid # None
    IN  [state |-> IF seen /\ m.pid \notin alive
                   THEN IF d.snap # "none" THEN "sleeping" ELSE "stopped"
                   ELSE m.state,
         pid |-> IF seen /\ m.pid \in alive THEN m.pid ELSE None,
         slot |-> m.slot]

\* The agent dies at any point and starts again: requests, captures, reaper
\* tasks and records are lost, and reconcile rebuilds the records from disk.
Comeback(procs) ==
    /\ fc' = procs
    /\ vms' = [i \in Ids |-> Reconciled(disk[i], {p \in Pids : procs[p].live})]
    /\ used' = {s \in Slots : \E i \in Ids : disk[i].meta.slot = s}
    /\ capturing' = {}
    /\ req' = [r \in Reqs |-> Idle]
    /\ UNCHANGED disk

Restart ==
    /\ "restart" \in Faults
    /\ Comeback([p \in Pids |-> IF fc[p].live THEN [fc[p] EXCEPT !.child = FALSE]
                                ELSE Gone])

Reboot ==
    /\ "reboot" \in Faults
    /\ Comeback([p \in Pids |-> Gone])

----------------------------------------------------------------------------
Begin(r, i) ==
    \/ Create(r, i) \/ Start(r, i) \/ Wake(r, i) \/ Sleep(r, i)
    \/ Pause(r, i) \/ Resume(r, i) \/ Stop(r, i) \/ Delete(r, i)
    \/ BeginCapture(r, i)
    \/ \E c \in Ids : Fork(r, i, c)

Step(r) ==
    \/ PrepareDir(r) \/ ClaimSlot(r) \/ TapFails(r) \/ Spawn(r) \/ SpawnFails(r)
    \/ Boot(r) \/ BootFails(r) \/ Publish(r) \/ MarkFailed(r) \/ RecordPid(r)
    \/ RecordState(r) \/ ClearPid(r) \/ SleepKill(r) \/ Terminate(r) \/ StopWaited(r)
    \/ FreeSlot(r) \/ RemoveDir(r) \/ RemoveRecord(r)
    \/ PatchVm(r) \/ Snapshot(r) \/ Thaw(r) \/ FcCallFails(r)
    \/ ForkLooks(r) \/ StopLooks(r) \/ CopyParent(r) \/ Register(r) \/ SaveMeta(r) \/ Commit(r)

Next ==
    \/ \E r \in Reqs, i \in Ids : Begin(r, i)
    \/ \E r \in Reqs : Step(r) \/ EndCapture(r) \/ Cancel(r)
    \/ \E p \in Pids : FcExits(p) \/ Reap(p)
    \/ \E i \in Ids : SweepDead(i)
    \/ Restart \/ Reboot

Spec == Init /\ [][Next]_vars

\* The tasks of the runtime, the reapers and the 5 second sweep all make
\* progress, and a signalled FC exits; nothing makes an FC exit by itself.
Fairness ==
    /\ \A r \in Reqs : WF_vars(Step(r))
    /\ \A p \in Pids : WF_vars(Reap(p)) /\ WF_vars(fc[p].term /\ FcExits(p))
    /\ \A i \in Ids : WF_vars(SweepDead(i))

FairSpec == Spec /\ Fairness

----------------------------------------------------------------------------
Vm == [state : {"absent", "creating", "running", "paused", "sleeping", "stopped", "error"},
       pid : Pids \cup {None},
       slot : Slots \cup {None}]

Pcs == {"idle", "image", "slot", "spawn", "boot", "publish", "setpid", "setstate",
        "clearpid", "kill", "wait", "unslot", "remove", "patch", "snapshot", "thaw",
        "copy", "register", "meta", "commit", "fail", "stream", "look", "stop", "forget"}

OpNames == {"create", "start", "wake", "sleep", "pause", "resume", "stop", "delete",
            "rollback", "capture", "fork", "none"}

Process == [dir : Ids \cup {None}, live : BOOLEAN, paused : BOOLEAN, term : BOOLEAN,
            child : BOOLEAN]

Directory == [here : BOOLEAN, meta : Vm, snap : {"none", "fresh", "stale"}]

Request == [op : OpNames, id : Ids \cup {None}, src : Ids \cup {None}, pc : Pcs,
            pid : Pids \cup {None}, slot : Slots \cup {None}, hot : BOOLEAN]

\* Every variable of the manager keeps its type.
TypeOK ==
    /\ vms \in [Ids -> Vm]
    /\ used \subseteq Slots
    /\ capturing \subseteq Ids
    /\ fc \in [Pids -> Process]
    /\ disk \in [Ids -> Directory]
    /\ req \in [Reqs -> Request]

RunsOn(i) == {p \in Pids : fc[p].live /\ fc[p].dir = i}

\* A request signals the pid it read from a record, and reconcile adopts the pid
\* it reads from a meta.json: a live process that a record names is the FC of
\* that very VM (vm/mod.rs stop and sleep_vm, vm/reconcile.rs reconcile_one).
PidOwned ==
    \A i \in Ids : vms[i].pid # None /\ fc[vms[i].pid].live => fc[vms[i].pid].dir = i

\* "only valid when no FC owns the instance" (start): two Firecrackers never
\* run over one instance directory and its rootfs.
OneFcPerInstance ==
    \A p, q \in Pids : fc[p].live /\ fc[q].live /\ fc[p].dir = fc[q].dir => p = q

\* An FC is reachable: it is the recorded process of its VM, or a request that
\* is still at work holds its pid and will record or kill it.
NoOrphanFc ==
    \A p \in Pids : fc[p].live => \/ vms[fc[p].dir].pid = p
                                  \/ \E r \in Reqs : req[r].pid = p

\* delete frees the slot before it removes the record.
Leaving(i) == \E r \in Reqs : req[r].id = i /\ IsDelete(r) /\ req[r].pc \in {"remove", "forget"}

Holds(i) == vms[i].slot # None /\ ~Leaving(i)

\* Two VMs never have the same guest slot, hence never the same address, tap
\* and MAC, and the allocator knows every slot that a VM has.
SlotsExclusive ==
    /\ \A i \in Ids : Holds(i) => vms[i].slot \in used
    /\ \A i, j \in Ids : Holds(i) /\ Holds(j) /\ vms[i].slot = vms[j].slot => i = j

\* A sleeping VM has its snapshot on disk and no Firecracker process
\* (API-V2.md section 1), until a request works on it.
SleepingIsCold ==
    \A i \in Ids : vms[i].state = "sleeping" /\ ~Busy(i) =>
        disk[i].snap # "none" /\ RunsOn(i) = {}

\* wake resumes the guest where it fell asleep: the memory it loads is never
\* older than the rootfs it is loaded over (wake_vm, put_snapshot_load).
WakeIsFresh ==
    [][\A r \in Reqs : At(r, "boot") /\ req[r].op = "wake" /\ req'[r].pc = "setpid"
           => disk[req[r].id].snap = "fresh"]_vars

\* "a capture can never read a rootfs that is still being flushed" (ADR-0008):
\* no Firecracker runs over an instance whose rootfs is being captured.
CaptureIsQuiet == \A i \in capturing : RunsOn(i) = {}

\* "creating --> error : spawn/config failure" (ARCHITECTURE.md section 3): a
\* record is only ever in creating while a request is building that VM.
CreatingIsWorkedOn ==
    \A i \in Ids : vms[i].state = "creating" => \E r \in Reqs : req[r].id = i

Recovered(i) == Reconciled(disk[i], {p \in Pids : fc[p].live})

\* "Sleeping VMs survive agent restarts" (ARCHITECTURE.md section 6): what is
\* recorded as sleeping, in the manager or on disk, has its snapshot files,
\* whatever other requests, cancellations and restarts come in between.
SleepingHasSnapshot ==
    \A i \in Ids : "sleeping" \in {vms[i].state, disk[i].meta.state} => disk[i].snap # "none"

\* A restart of the agent loses nothing that a request has finished: a running,
\* paused or sleeping VM comes back in its state, with its process and its slot.
RestartKeepsGuests ==
    \A i \in Ids : vms[i].state \in {"running", "paused", "sleeping"} /\ ~Busy(i)
        /\ (vms[i].pid # None => fc[vms[i].pid].live)
        => Recovered(i) = vms[i]

\* "meta.json (state, ...) survives agent restarts" (ARCHITECTURE.md section 9):
\* the same of a VM that was stopped.
RestartKeepsStopped ==
    \A i \in Ids : vms[i].state = "stopped" /\ ~Busy(i) => Recovered(i).state = "stopped"

\* "an unexpected Firecracker exit flips the VM to error within seconds": a VM
\* is not reported as running or paused for ever without a process.
ExitIsNoticed ==
    \A i \in Ids : (vms[i].state \in {"running", "paused"} /\ RunsOn(i) = {})
        ~> (vms[i].state \notin {"running", "paused"} \/ RunsOn(i) # {})
=============================================================================
