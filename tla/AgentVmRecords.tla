--------------------------- MODULE AgentVmRecords ---------------------------
(***************************************************************************)
(* What the VM manager keeps about its VMs, for any number of VMs,         *)
(* requests, processes and slots: who holds which network slot, who works  *)
(* on a VM in creating, the snapshot of a sleeping VM, and the guests a    *)
(* restart finds again in the meta.json files.                             *)
(***************************************************************************)
EXTENDS AgentVmProofs

----------------------------------------------------------------------------
(* The guest slots.                                                        *)

\* A build between the claim of its slot and the record that holds it.
Claiming(r) == IsBuild(r) /\ req[r].pc \in {"spawn", "boot", "publish"}

\* VM i has slot s, in its record or in the request that builds it.
Owns(i, s) == \/ Holds(i) /\ vms[i].slot = s
              \/ \E r \in Reqs : req[r].id = i /\ Claiming(r) /\ req[r].slot = s

\* What a request x knows of the slot of its VM.
Slotted(x, own) ==
    /\ x.op \in {"create", "fork"} /\ x.pc \notin {"meta", "commit"} => own = None
    /\ x.op \in {"delete", "rollback"} /\ x.pc \notin {"remove", "forget"} => x.slot = own

\* The inductive invariant of the allocator.
SlotInv == /\ \A i, j \in Ids, s \in Slots : Owns(i, s) /\ Owns(j, s) => i = j
           /\ \A i \in Ids, s \in Slots : Owns(i, s) => s \in used
           /\ \A r \in Reqs : req[r].pc # "idle" => Slotted(req[r], vms[req[r].id].slot)

\* Every step keeps the slots apart.
LEMMA SlotStep == TypeInv /\ OInv /\ SlotInv /\ Undisturbed /\ [Next]_vars => SlotInv'

\* Slots that no VM gains.
<1>SlotFrame. ASSUME SlotInv, \A i \in Ids, s \in Slots : Owns(i, s)' => Owns(i, s) /\ s \in used',
                     \A r \in Reqs : req'[r].pc # "idle" => Slotted(req'[r], vms'[req'[r].id].slot)
              PROVE  SlotInv'
  BY <1>SlotFrame, Zenon DEF SlotInv

\* A request that ends, or goes on without a slot changing hands.
<1>SlotQuiet. ASSUME TypeInv, OInv, SlotInv, NEW r \in Reqs, Others(r), used \subseteq used',
                     \A j \in Ids : vms'[j].slot = vms[j].slot, req[r].pc # "idle",
                     req[r].op \in {"delete", "rollback"} /\ req[r].pc \in {"remove", "forget"}
                        => req'[r].pc = "forget" /\ req'[r].op = req[r].op /\ req'[r].id = req[r].id,
                     \/ req'[r].pc = "idle"
                     \/ /\ req'[r].id = req[r].id /\ req'[r].op = req[r].op /\ req'[r].slot = req[r].slot
                        /\ req[r].op \in {"create", "fork"} =>
                              /\ req'[r].pc \in {"spawn", "boot", "publish"} => req[r].pc \in {"spawn", "boot", "publish"}
                              /\ req[r].pc \in {"meta", "commit"} => req'[r].pc \in {"meta", "commit"}
              PROVE  SlotInv'
  <2> USE <1>SlotQuiet, Zenon
  <2>1. ASSUME NEW j \in Ids PROVE Holds(j)' => Holds(j) /\ vms'[j].slot = vms[j].slot
    <3>1. ASSUME Leaving(j) PROVE Leaving(j)'
      BY <3>1, SMT DEF Leaving, IsDelete, Others
    <3> QED BY <3>1 DEF Holds
  <2>2. ASSUME NEW q \in Reqs, Claiming(q)' PROVE Claiming(q) /\ req'[q].id = req[q].id /\ req'[q].slot = req[q].slot
    BY <2>2, SMT DEF Claiming, IsBuild, Others
  <2>3. \A i \in Ids, s \in Slots : Owns(i, s)' => Owns(i, s)
    BY <2>1, <2>2 DEF Owns
  <2>4. ASSUME NEW q \in Reqs, req'[q].pc # "idle" PROVE Slotted(req'[q], vms'[req'[q].id].slot)
    <3> USE <2>4
    <3>1. CASE q # r
      <4>1. req'[q] = req[q] /\ req[q].pc # "idle" /\ req[q].id \in Ids
        BY <3>1 DEF Others, TypeInv, RequestsOK
      <4> QED BY <4>1 DEF SlotInv
    <3>2. CASE q = r
      <4> USE <3>2
      <4>1. req[r].id \in Ids
        BY DEF TypeInv, RequestsOK
      <4>2. vms'[req'[r].id].slot = vms[req[r].id].slot
        BY <4>1, SMT
      <4>3. Slotted(req[r], vms[req[r].id].slot)
        BY DEF SlotInv
      <4> QED BY <4>2, <4>3, SMT DEF Slotted
    <3> QED BY <3>1, <3>2, SMT
  <2>5. \A i \in Ids, s \in Slots : Owns(i, s)' => s \in used'
    BY <2>3 DEF SlotInv
  <2> QED BY <2>3, <2>4, <2>5, <1>SlotFrame

\* A request that ends.
<1>SlotDone. ASSUME TypeInv, OInv, SlotInv, NEW r \in Reqs, Done(r), used' = used,
                    \A j \in Ids : vms'[j].slot = vms[j].slot, req[r].pc \notin {"idle", "remove", "forget"}
             PROVE  SlotInv'
  <2> USE <1>SlotDone
  <2>1. Others(r) /\ req'[r].pc = "idle"
    BY DEF Done, Others, Idle, TypeInv, RequestsOK
  <2> QED BY <2>1, <1>SlotQuiet

\* A request that goes on.
<1>SlotGoto. ASSUME TypeInv, OInv, SlotInv, NEW r \in Reqs, NEW l, Goto(r, l), used' = used, req[r].pc # "idle",
                    \A j \in Ids : vms'[j].slot = vms[j].slot, req[r].pc \in {"remove", "forget"} => l = "forget",
                    req[r].op \in {"create", "fork"} =>
                        \/ l \in {"boot", "publish"} /\ req[r].pc \in {"spawn", "boot"}
                        \/ l = "commit"
                        \/ l \notin {"spawn", "boot", "publish"} /\ req[r].pc \notin {"meta", "commit"}
             PROVE  SlotInv'
  <2> USE <1>SlotGoto
  <2>1. /\ Others(r) /\ req'[r].pc = l /\ req'[r].op = req[r].op /\ req'[r].id = req[r].id
        /\ req'[r].slot = req[r].slot
    BY DEF Goto, Others, TypeInv, RequestsOK, Request
  <2> QED BY <2>1, <1>SlotQuiet

\* The steps that leave the records and the allocator alone.
<1>SlotAside. ASSUME TypeInv, OInv, SlotInv, NEW r \in Reqs,
                     \/ PrepareDir(r) \/ SpawnFails(r) \/ Boot(r) \/ BootFails(r) \/ SleepKill(r) \/ Terminate(r)
                     \/ StopWaited(r) \/ RemoveDir(r) \/ PatchVm(r) \/ Snapshot(r) \/ Thaw(r) \/ FcCallFails(r)
                     \/ ForkLooks(r) \/ CopyParent(r) \/ EndCapture(r)
              PROVE  SlotInv'
  <2> USE <1>SlotAside
  <2>1. used' = used /\ vms' = vms
    BY Zenon DEF PrepareDir, SpawnFails, Boot, BootFails, SleepKill, Terminate, StopWaited, RemoveDir,
       PatchVm, Snapshot, Thaw, FcCallFails, ForkLooks, CopyParent, EndCapture
  <2>2. \/ Done(r) /\ req[r].pc \notin {"idle", "remove", "forget"}
        \/ \E l : /\ Goto(r, l)
                  /\ \/ req[r].pc = "remove" /\ l = "forget"
                     \/ req[r].pc = "boot" /\ l \in {"publish", "setpid", "fail"}
                     \/ /\ req[r].pc \notin {"idle", "remove", "forget", "meta", "commit"}
                        /\ l \in {"slot", "fail", "setstate", "wait", "unslot", "snapshot", "clearpid",
                                  "thaw", "copy", "patch", "register"}
    <3>1. CASE PrepareDir(r) \/ SpawnFails(r) \/ BootFails(r)
      BY <3>1 DEF PrepareDir, SpawnFails, BootFails, At
    <3>2. CASE Boot(r)
      BY <3>2 DEF Boot, At
    <3>3. CASE SleepKill(r) \/ Terminate(r) \/ StopWaited(r) \/ RemoveDir(r)
      BY <3>3 DEF SleepKill, Terminate, StopWaited, RemoveDir, At
    <3>4. CASE PatchVm(r) \/ Snapshot(r)
      BY <3>4 DEF PatchVm, Snapshot, At
    <3>5. CASE Thaw(r) \/ FcCallFails(r) \/ CopyParent(r) \/ EndCapture(r)
      BY <3>5 DEF Thaw, FcCallFails, CopyParent, EndCapture, At
    <3>6. CASE ForkLooks(r)
      BY <3>6, Zenon DEF ForkLooks, At
    <3> QED BY <3>1, <3>2, <3>3, <3>4, <3>5, <3>6, Zenon
  <2>3. CASE Done(r) /\ req[r].pc \notin {"idle", "remove", "forget"}
    BY <2>1, <2>3, <1>SlotDone, Zenon
  <2>4. ASSUME NEW l, Goto(r, l),
               \/ req[r].pc = "remove" /\ l = "forget"
               \/ req[r].pc = "boot" /\ l \in {"publish", "setpid", "fail"}
               \/ /\ req[r].pc \notin {"idle", "remove", "forget", "meta", "commit"}
                  /\ l \in {"slot", "fail", "setstate", "wait", "unslot", "snapshot", "clearpid",
                            "thaw", "copy", "patch", "register"}
        PROVE  SlotInv'
    <3>1. req[r].op \in {"create", "fork"} => req[r].pc # "remove"
      BY Zenon DEF OInv, Turns, Fits
    <3> QED BY <2>1, <2>4, <3>1, <1>SlotGoto
  <2> QED BY <2>2, <2>3, <2>4, Zenon

\* The steps that record something else than a slot.
<1>SlotRecords. ASSUME TypeInv, OInv, SlotInv, NEW r \in Reqs,
                       MarkFailed(r) \/ RecordPid(r) \/ RecordState(r) \/ ClearPid(r) \/ SaveMeta(r)
                PROVE  SlotInv'
  <2> USE <1>SlotRecords, Zenon
  <2> PICK x \in Request, i \in Ids : x = req[r] /\ i = x.id /\ Work(x, i) /\ Fits(x.op, x.pc)
    BY AtWork DEF MarkFailed, RecordPid, RecordState, ClearPid, SaveMeta, At
  <2>2. used' = used
    BY DEF MarkFailed, RecordPid, RecordState, ClearPid, SaveMeta
  <2>3. \A j \in Ids : vms'[j].slot = vms[j].slot
    <3>1. vms' = vms \/ (\E s : SetState(i, s)) \/ (\E p : SetPid(i, p))
      BY DEF MarkFailed, RecordPid, RecordState, ClearPid, SaveMeta
    <3>2. ASSUME NEW s, SetState(i, s) PROVE \A j \in Ids : vms'[j].slot = vms[j].slot
      BY <3>2, SMT DEF SetState, TypeInv, StoreOK, Vm
    <3>3. ASSUME NEW p, SetPid(i, p) PROVE \A j \in Ids : vms'[j].slot = vms[j].slot
      BY <3>3, SMT DEF SetPid, TypeInv, StoreOK, Vm
    <3> QED BY <3>1, <3>2, <3>3
  <2>4. \/ Done(r) /\ x.pc \in {"fail", "meta"}
        \/ \E l : Goto(r, l) /\ \/ x.pc = "meta" /\ l = "commit"
                                \/ x.pc \in {"setpid", "setstate", "clearpid"}
                                   /\ l \in {"setstate", "clearpid", "meta", "kill"}
    <3>1. x.op \in {"create", "fork"} /\ x.pc = "meta" => CanWriteMeta(i)
      BY DEF Work, CanWriteMeta, Exists
    <3> QED BY <3>1 DEF MarkFailed, RecordPid, RecordState, ClearPid, SaveMeta, At, IsBuild
  <2>5. CASE Done(r) /\ x.pc \in {"fail", "meta"}
    BY <2>2, <2>3, <2>5, <1>SlotDone
  <2>6. ASSUME NEW l, Goto(r, l), \/ x.pc = "meta" /\ l = "commit"
                                  \/ x.pc \in {"setpid", "setstate", "clearpid"}
                                     /\ l \in {"setstate", "clearpid", "meta", "kill"}
        PROVE  SlotInv'
    BY <2>2, <2>3, <2>6, <1>SlotGoto, SMT
  <2> QED BY <2>4, <2>5, <2>6

\* spawn and the stop inside delete take a pid.
<1>SlotPids. ASSUME TypeInv, OInv, SlotInv, NEW r \in Reqs, Spawn(r) \/ StopLooks(r)
             PROVE  SlotInv'
  <2> USE <1>SlotPids
  <2>1. PICK l, p : \/ req' = [req EXCEPT ![r].pid = p, ![r].pc = l]
                    \/ Goto(r, l)
    BY Zenon DEF Spawn, StopLooks
  <2>2. /\ Others(r) /\ req'[r].id = req[r].id /\ req'[r].op = req[r].op /\ req'[r].slot = req[r].slot
    BY <2>1 DEF Goto, Others, TypeInv, RequestsOK, Request
  <2>3. used' = used /\ vms' = vms
    BY Zenon DEF Spawn, StopLooks
  <2>4. \/ req[r].pc = "spawn" /\ req'[r].pc = "boot"
        \/ req[r].pc = "stop" /\ req'[r].pc \in {"setstate", "unslot"}
    <3>1. CASE Spawn(r)
      <4>1. req[r].pc = "spawn" /\ \E q \in Pids : req' = [req EXCEPT ![r].pid = q, ![r].pc = "boot"]
        BY <3>1, Zenon DEF Spawn, At
      <4> QED BY <4>1 DEF TypeInv, RequestsOK, Request
    <3>2. CASE StopLooks(r)
      <4> USE <3>2
      <4>1. CASE Exists(req[r].id)
        BY <4>1 DEF StopLooks, At, TypeInv, RequestsOK, Request
      <4>2. CASE ~Exists(req[r].id)
        BY <4>2 DEF StopLooks, Goto, At, TypeInv, RequestsOK, Request
      <4> QED BY <4>1, <4>2
    <3> QED BY <3>1, <3>2
  <2>5. req[r].pc = "stop" => req[r].op \notin {"create", "fork"}
    BY DEF OInv, Turns, Fits
  <2> QED BY <2>2, <2>3, <2>4, <2>5, <1>SlotQuiet

\* A step of request r that changes the slot of its own VM i alone.
<1>SlotTurn. ASSUME TypeInv, OInv, SlotInv, NEW r \in Reqs, NEW i \in Ids, Others(r), req[r].id \in {i, None},
                    \A q \in Reqs : q # r => req[q].id # i, req'[r].id \in {i, None},
                    \A j \in Ids : j # i => vms'[j].slot = vms[j].slot,
                    \A s \in Slots : Owns(i, s)' => Owns(i, s),
                    \A j \in Ids, s \in Slots : Owns(j, s) /\ Owns(j, s)' => s \in used',
                    req'[r].pc # "idle" => req'[r].id = i /\ Slotted(req'[r], vms'[i].slot)
             PROVE  SlotInv'
  <2> USE <1>SlotTurn, Zenon
  <2>1. ASSUME NEW j \in Ids, j # i, NEW s \in Slots, Owns(j, s)' PROVE Owns(j, s)
    <3> USE <2>1
    <3>1. ASSUME Leaving(j) PROVE Leaving(j)'
      <4> PICK q \in Reqs : req[q].id = j /\ IsDelete(q) /\ req[q].pc \in {"remove", "forget"}
        BY <3>1 DEF Leaving
      <4>2. req'[q] = req[q]
        BY NoneNoVm, SMT DEF Others
      <4> QED BY <4>2 DEF Leaving, IsDelete
    <3>2. ASSUME NEW q \in Reqs, req'[q].id = j, Claiming(q)', req'[q].slot = s PROVE Owns(j, s)
      <4> USE <3>2
      <4>1. req'[q] = req[q]
        BY NoneNoVm, SMT DEF Others
      <4> QED BY <4>1 DEF Owns, Claiming, IsBuild
    <3> QED BY <3>1, <3>2 DEF Owns, Holds
  <2>2. ASSUME NEW q \in Reqs, req'[q].pc # "idle" PROVE Slotted(req'[q], vms'[req'[q].id].slot)
    <3> USE <2>2
    <3>1. CASE q # r
      <4>1. req'[q] = req[q] /\ req[q].pc # "idle" /\ req[q].id \in Ids /\ req[q].id # i
        BY <3>1 DEF Others, TypeInv, RequestsOK
      <4> QED BY <4>1 DEF SlotInv
    <3>2. CASE q = r
      BY <3>2
    <3> QED BY <3>1, <3>2, SMT
  <2> QED BY <2>1, <2>2, <1>SlotFrame

\* No other request has the VM.
<1>Alone. ASSUME TypeInv, OInv, NEW r \in Reqs, req[r].pc # "idle"
          PROVE  /\ req[r].id \in Ids
                 /\ \A q \in Reqs : q # r => req[q].id # req[r].id
  <2> USE <1>Alone
  <2>1. req[r].id \in Ids
    BY Zenon DEF TypeInv, RequestsOK
  <2> QED BY <2>1, NoneNoVm, Zenon DEF OInv, Turns

\* ip_alloc.
<1>SlotClaim. ASSUME TypeInv, OInv, SlotInv, NEW r \in Reqs, ClaimSlot(r)
              PROVE  SlotInv'
  <2> USE <1>SlotClaim
  <2> PICK i \in Ids : i = req[r].id /\ \A q \in Reqs : q # r => req[q].id # i
    BY <1>Alone DEF ClaimSlot, At
  <2>2. vms' = vms /\ req[r].pc = "slot" /\ req[r].op \in {"create", "fork"}
    BY DEF ClaimSlot, At, OInv, Turns, Fits
  <2>3. CASE used' = used /\ (Goto(r, "fail") \/ Done(r))
    BY <2>2, <2>3, <1>SlotGoto, <1>SlotDone
  <2>4. ASSUME NEW s \in Slots, LowestFree(s), used' = used \cup {s},
               req' = [req EXCEPT ![r].slot = s, ![r].pc = "spawn"]
        PROVE  SlotInv'
    <3> USE <2>4
    <3>1. /\ Others(r) /\ req'[r].id = i /\ req'[r].op = req[r].op /\ req'[r].pc = "spawn" /\ req'[r].slot = s
      BY DEF Others, TypeInv, RequestsOK, Request
    <3>2. ASSUME NEW j \in Ids, Leaving(j) PROVE Leaving(j)'
      <4> PICK q \in Reqs : req[q].id = j /\ IsDelete(q) /\ req[q].pc \in {"remove", "forget"}
        BY <3>2 DEF Leaving
      <4>2. req'[q] = req[q]
        BY <2>2, <3>1, Zenon DEF Others
      <4> QED BY <4>2, Zenon DEF Leaving, IsDelete
    <3>3. ASSUME NEW j \in Ids, NEW t \in Slots, Owns(j, t)', ~(j = i /\ t = s) PROVE Owns(j, t)
      <4> USE <3>3
      <4>1. ASSUME NEW q \in Reqs, req'[q].id = j, Claiming(q)', req'[q].slot = t PROVE Owns(j, t)
        <5> USE <4>1
        <5>1. req'[q] = req[q]
          BY <3>1, Zenon DEF Others
        <5> QED BY <5>1, Zenon DEF Owns, Claiming, IsBuild
      <4> QED BY <2>2, <3>2, <4>1, Zenon DEF Owns, Holds
    <3>4. \A j \in Ids : ~Owns(j, s)
      BY Zenon DEF SlotInv, LowestFree
    <3>5. /\ \A j, k \in Ids, t \in Slots : Owns(j, t)' /\ Owns(k, t)' => j = k
          /\ \A j \in Ids, t \in Slots : Owns(j, t)' => t \in used'
      BY <3>3, <3>4, Zenon DEF SlotInv
    <3>6. ASSUME NEW q \in Reqs, req'[q].pc # "idle" PROVE Slotted(req'[q], vms'[req'[q].id].slot)
      <4>1. CASE q # r
        BY <2>2, <3>1, <3>6, <4>1, Zenon DEF Others, SlotInv
      <4>2. CASE q = r
        <5>1. Slotted(req[r], vms[i].slot)
          BY <2>2 DEF SlotInv
        <5> QED BY <2>2, <3>1, <4>2, <5>1 DEF Slotted
      <4> QED BY <4>1, <4>2
    <3> QED BY <3>5, <3>6, Zenon DEF SlotInv
  <2> QED BY <2>3, <2>4, Zenon DEF ClaimSlot

\* A build that has no tap gives its slot back.
<1>SlotTap. ASSUME TypeInv, OInv, SlotInv, NEW r \in Reqs, TapFails(r)
            PROVE  SlotInv'
  <2> USE <1>SlotTap
  <2> PICK i \in Ids : i = req[r].id /\ \A q \in Reqs : q # r => req[q].id # i
    BY <1>Alone DEF TapFails, At
  <2>2. vms' = vms /\ req[r].pc = "spawn"
    BY DEF TapFails, At
  <2>3. CASE ~IsBuild(r)
    BY <2>2, <2>3, <1>SlotDone DEF TapFails
  <2>4. CASE IsBuild(r)
    <3> USE <2>4
    <3>1. used' = used \ {req[r].slot} /\ Goto(r, "fail")
      BY Zenon DEF TapFails
    <3>2. Others(r) /\ req'[r].pc = "fail" /\ req'[r].id = i /\ req'[r].op = req[r].op
      BY <3>1, GotoMoves, Zenon
    <3>3. vms[i].slot = None
      BY <2>2 DEF SlotInv, Slotted, IsBuild
    <3>4. \A s \in Slots : ~Owns(i, s)'
      <4>1. None \notin Slots
        BY AgentAssumption
      <4>2. ~Claiming(r)'
        BY <3>2 DEF Claiming
      <4>3. \A q \in Reqs : q # r => req'[q].id # i
        BY <3>2, Zenon DEF Others
      <4> QED BY <2>2, <3>3, <4>1, <4>2, <4>3, Zenon DEF Owns, Holds
    <3>5. \A s \in Slots : s = req[r].slot => Owns(i, s)
      BY <2>2 DEF Owns, Claiming
    <3>6. \A j \in Ids, s \in Slots : Owns(j, s) /\ Owns(j, s)' => s \in used'
      BY <3>1, <3>4, <3>5 DEF SlotInv
    <3>7. Slotted(req'[r], vms'[i].slot)
      BY <2>2, <3>2, <3>3 DEF Slotted, IsBuild
    <3> QED BY <2>2, <3>2, <3>4, <3>6, <3>7, <1>SlotTurn, Zenon
  <2> QED BY <2>3, <2>4

\* delete gives the slot back before it forgets the VM.
<1>SlotFree. ASSUME TypeInv, OInv, SlotInv, NEW r \in Reqs, FreeSlot(r)
             PROVE  SlotInv'
  <2> USE <1>SlotFree
  <2> PICK i \in Ids : i = req[r].id /\ \A q \in Reqs : q # r => req[q].id # i
    BY <1>Alone DEF FreeSlot, At
  <2>2. /\ vms' = vms /\ req[r].pc = "unslot" /\ Goto(r, "remove") /\ used' = used \ {req[r].slot}
        /\ req[r].op \in {"delete", "rollback"}
    BY DEF FreeSlot, At, OInv, Turns, Fits
  <2>3. Others(r) /\ req'[r].pc = "remove" /\ req'[r].id = i /\ req'[r].op = req[r].op
    BY <2>2, GotoMoves, Zenon
  <2>4. req[r].slot = vms[i].slot
    BY <2>2 DEF SlotInv, Slotted
  <2>5. \A q \in Reqs : q # r => req'[q].id # i
    BY <2>3, Zenon DEF Others
  <2>6. \A s : ~Owns(i, s)'
    <3>1. ~Claiming(r)' /\ Leaving(i)'
      BY <2>2, <2>3 DEF Claiming, IsBuild, Leaving, IsDelete
    <3> QED BY <2>5, <3>1, Zenon DEF Owns, Holds
  <2>7. \A s \in Slots : s = req[r].slot => Owns(i, s)
    <3>1. ~Leaving(i)
      BY <2>2 DEF Leaving
    <3> QED BY <2>4, <3>1, AgentAssumption DEF Owns, Holds
  <2>8. \A j \in Ids, s \in Slots : Owns(j, s) /\ Owns(j, s)' => s \in used'
    BY <2>2, <2>6, <2>7 DEF SlotInv
  <2>9. Slotted(req'[r], vms'[i].slot)
    BY <2>2, <2>3 DEF Slotted
  <2> QED BY <2>2, <2>3, <2>6, <2>8, <2>9, <1>SlotTurn

\* The record takes over the slot that its build has claimed.
<1>SlotPublish. ASSUME TypeInv, OInv, SlotInv, NEW r \in Reqs, Publish(r)
                PROVE  SlotInv'
  <2> USE <1>SlotPublish
  <2> PICK i \in Ids : i = req[r].id /\ \A q \in Reqs : q # r => req[q].id # i
    BY <1>Alone DEF Publish, At
  <2>2. used' = used /\ req[r].pc = "publish" /\ Goto(r, "meta") /\ req[r].op \in {"create", "fork"}
    BY DEF Publish, At, OInv, Turns, Fits
  <2>3. Others(r) /\ req'[r].pc = "meta" /\ req'[r].id = i /\ req'[r].op = req[r].op
    BY <2>2, GotoMoves, Zenon
  <2>4. /\ \A j \in Ids : j # i => vms'[j].slot = vms[j].slot
        /\ vms'[i].slot \in {vms[i].slot, req[r].slot}
    BY DEF Publish, TypeInv, StoreOK
  <2>5. vms[i].slot = None
    BY <2>2 DEF SlotInv, Slotted
  <2>6. \A q \in Reqs : q # r => req'[q].id # i
    BY <2>3, Zenon DEF Others
  <2>7. \A s \in Slots : Owns(i, s)' => Owns(i, s)
    <3>1. ~Claiming(r)'
      BY <2>3 DEF Claiming
    <3>2. \A s \in Slots : s = req[r].slot => Owns(i, s)
      BY <2>2 DEF Owns, Claiming, IsBuild
    <3>3. \A s \in Slots : Owns(i, s)' => s = req[r].slot
      BY <2>4, <2>5, <2>6, <3>1, AgentAssumption DEF Owns, Holds
    <3> QED BY <3>2, <3>3
  <2>8. \A j \in Ids, s \in Slots : Owns(j, s) /\ Owns(j, s)' => s \in used'
    BY <2>2, Zenon DEF SlotInv
  <2>9. Slotted(req'[r], vms'[i].slot)
    BY <2>2, <2>3 DEF Slotted
  <2> QED BY <2>3, <2>4, <2>7, <2>8, <2>9, <1>SlotTurn, Zenon

\* A record that is removed, or registered anew.
<1>SlotRecord. ASSUME TypeInv, OInv, SlotInv, NEW r \in Reqs, RemoveRecord(r) \/ Register(r)
               PROVE  SlotInv'
  <2> USE <1>SlotRecord
  <2> PICK i \in Ids : i = req[r].id /\ \A q \in Reqs : q # r => req[q].id # i
    BY <1>Alone DEF RemoveRecord, Register, At
  <2>2. Done(r) \/ Goto(r, "slot")
    BY Zenon DEF RemoveRecord, Register
  <2>3. /\ Others(r)
        /\ \/ req'[r].pc = "idle" /\ req'[r].id = None
           \/ req'[r].pc = "slot" /\ req'[r].id = i /\ req'[r].op = req[r].op /\ req[r].op = "fork"
    <3>1. CASE Done(r)
      BY <3>1 DEF Done, Idle, Others, TypeInv, RequestsOK
    <3>2. CASE Register(r)
      <4>1. Goto(r, "slot") /\ req[r].op = "fork"
        BY <3>2 DEF Register, At, OInv, Turns, Fits
      <4> QED BY <4>1, GotoMoves, Zenon
    <3> QED BY <3>1, <3>2 DEF RemoveRecord
  <2>4. /\ \A j \in Ids : j # i => vms'[j].slot = vms[j].slot
        /\ vms'[i].slot = None
    BY DEF RemoveRecord, Register, NoVm, TypeInv, StoreOK
  <2>5. \A q \in Reqs : q # r => req'[q].id # i
    BY <2>3, Zenon DEF Others
  <2>6. \A s \in Slots : ~Owns(i, s)'
    <3>1. ~Claiming(r)'
      BY <2>3 DEF Claiming
    <3> QED BY <2>4, <2>5, <3>1, Zenon DEF Owns, Holds
  <2>7. \A j \in Ids, s \in Slots : Owns(j, s) /\ Owns(j, s)' => s \in used'
    <3>1. used' = used
      BY Zenon DEF RemoveRecord, Register
    <3> QED BY <3>1, Zenon DEF SlotInv
  <2>8. req'[r].pc # "idle" => req'[r].id = i /\ Slotted(req'[r], vms'[i].slot)
    BY <2>3, <2>4 DEF Slotted
  <2> QED BY <2>3, <2>4, <2>6, <2>7, <2>8, <1>SlotTurn

\* A request that takes a VM over as it is: the rollback of a build, and the
\* beginning of any request.
<1>SlotEnter. ASSUME TypeInv, OInv, SlotInv, NEW r \in Reqs, NEW i \in Ids, Others(r), req[r].id \in {i, None},
                     \A q \in Reqs : q # r => req[q].id # i, req[r].op \notin {"delete", "rollback"} \/ req[r].id = None,
                     req'[r].id = i, used' = used, \A j \in Ids : j # i => vms'[j].slot = vms[j].slot,
                     vms'[i].slot \in {vms[i].slot, None}, req'[r].pc \notin {"boot", "publish"},
                     req'[r].pc = "spawn" => req'[r].op \notin {"create", "fork"},
                     Slotted(req'[r], vms'[i].slot)
              PROVE  SlotInv'
  <2> USE <1>SlotEnter
  <2>1. ~Leaving(i)
    BY NoneNoVm DEF Leaving, IsDelete
  <2>2. ~Claiming(r)'
    BY DEF Claiming, IsBuild
  <2>3. \A q \in Reqs : q # r => req'[q].id # i
    BY Zenon DEF Others
  <2>4. \A s \in Slots : Owns(i, s)' => Owns(i, s)
    <3>1. None \notin Slots
      BY AgentAssumption
    <3> QED BY <2>1, <2>2, <2>3, <3>1 DEF Owns, Holds
  <2>5. \A j \in Ids, s \in Slots : Owns(j, s) /\ Owns(j, s)' => s \in used'
    BY Zenon DEF SlotInv
  <2>6. req'[r].id \in {i, None}
    OBVIOUS
  <2> QED BY <2>4, <2>5, <2>6, <1>SlotTurn, Zenon

\* A build that is committed, or rolled back.
<1>SlotCommit. ASSUME TypeInv, OInv, SlotInv, NEW r \in Reqs, Commit(r)
               PROVE  SlotInv'
  <2> USE <1>SlotCommit
  <2> PICK i \in Ids : i = req[r].id /\ \A q \in Reqs : q # r => req[q].id # i
    BY <1>Alone DEF Commit, At
  <2>2. used' = used /\ vms' = vms /\ req[r].pc = "commit" /\ req[r].op \notin {"delete", "rollback"}
    BY DEF Commit, At, OInv, Turns, Fits
  <2>3. CASE Done(r)
    BY <2>2, <2>3, <1>SlotDone
  <2>4. CASE EnterDelete(r, "rollback", i)
    <3>1. /\ Others(r) /\ req'[r].pc = "stop" /\ req'[r].op = "rollback" /\ req'[r].id = i
          /\ req'[r].slot = vms[i].slot
      BY <2>4 DEF Others, EnterDelete, Enter, TypeInv, RequestsOK
    <3>2. Slotted(req'[r], vms'[i].slot)
      BY <2>2, <3>1 DEF Slotted
    <3> QED BY <2>2, <3>1, <3>2, <1>SlotEnter
  <2> QED BY <2>3, <2>4, Zenon DEF Commit

\* Every request begins with the slot of its VM.
<1>SlotBegin. ASSUME TypeInv, OInv, SlotInv, Undisturbed, NEW r \in Reqs, NEW k \in Ids, Begin(r, k)
              PROVE  SlotInv'
  <2> USE <1>SlotBegin
  <2>1. req[r].id = None /\ used' = used
    <3> USE Zenon
    <3>1. req[r].pc = "idle"
      BY DEF Begin, Create, Start, Wake, Sleep, Pause, Resume, Stop, Delete, BeginCapture, Fork,
         Admit, At
    <3>2. used' = used
      BY DEF Begin, Create, Start, Wake, Sleep, Pause, Resume, Stop, Delete, BeginCapture, Fork
    <3> QED BY <3>1, <3>2 DEF OInv, Turns
  <2>2. CASE Create(r, k)
    <3> USE <2>2
    <3>1. ~Busy(k)
      BY Admitted, Zenon DEF Create
    <3>2. /\ Others(r) /\ req'[r].pc = "image" /\ req'[r].op = "create" /\ req'[r].id = k
      BY DEF Create, Enter, Others, TypeInv, RequestsOK
    <3>3. vms'[k].slot = None /\ \A j \in Ids : j # k => vms'[j].slot = vms[j].slot
      BY DEF Create, NoVm, TypeInv, StoreOK
    <3>4. Slotted(req'[r], vms'[k].slot)
      BY <3>2, <3>3 DEF Slotted
    <3>5. \A q \in Reqs : req[q].id # k
      BY <3>1 DEF Busy
    <3> QED BY <2>1, <3>2, <3>3, <3>4, <3>5, <1>SlotEnter
  <2>3. CASE \E i \in Ids : Fork(r, k, i)
    <3> PICK i \in Ids : Fork(r, k, i)
      BY <2>3
    <3>2. ~Busy(i) /\ vms' = vms
      BY Zenon DEF Fork, Unused
    <3>3. /\ Others(r) /\ req'[r].pc = "look" /\ req'[r].op = "fork" /\ req'[r].id = i
      BY DEF Fork, Others, TypeInv, RequestsOK
    <3>4. vms[i].slot = None
      <4>1. ~Exists(i)
        BY Zenon DEF Fork, Unused
      <4> QED BY <4>1 DEF Exists, OInv, Rooted, NoVm
    <3>5. Slotted(req'[r], vms'[i].slot)
      BY <3>2, <3>3, <3>4 DEF Slotted
    <3>6. \A q \in Reqs : req[q].id # i
      BY <3>2 DEF Busy
    <3> QED BY <2>1, <3>2, <3>3, <3>5, <3>6, <1>SlotEnter, Zenon
  <2>4. CASE \/ Start(r, k) \/ Wake(r, k) \/ Sleep(r, k) \/ Pause(r, k) \/ Resume(r, k) \/ Stop(r, k)
             \/ Delete(r, k) \/ BeginCapture(r, k)
    <3> USE <2>4
    <3> PICK op, l, pid, slot :
            /\ Enter(r, op, k, l, pid, slot) /\ Admit(r, op, k)
            /\ op \in {"start", "wake", "sleep", "pause", "resume", "stop", "delete", "capture"}
            /\ l \in {"spawn", "patch", "setstate", "stop", "stream"}
            /\ op = "delete" => slot = vms[k].slot
      <4>1. CASE Start(r, k) \/ Wake(r, k)
        BY <4>1, Zenon DEF Start, Wake
      <4>2. CASE Sleep(r, k) \/ Pause(r, k) \/ Resume(r, k)
        BY <4>2 DEF Sleep, Pause, Resume
      <4>3. CASE Stop(r, k) \/ BeginCapture(r, k)
        BY <4>3 DEF Stop, BeginCapture
      <4>4. CASE Delete(r, k)
        BY <4>4, Zenon DEF Delete, EnterDelete
      <4> QED BY <4>1, <4>2, <4>3, <4>4, Zenon
    <3>2. /\ Others(r) /\ req'[r].pc = l /\ req'[r].op = op /\ req'[r].id = k /\ req'[r].slot = slot
      BY Zenon DEF Enter, Others, TypeInv, RequestsOK
    <3>3. ~Busy(k)
      BY Admitted, Zenon
    <3>4. vms' = vms
      BY Zenon DEF Start, Wake, Sleep, Pause, Resume, Stop, Delete, BeginCapture
    <3>5. Slotted(req'[r], vms'[k].slot)
      BY <3>2, <3>4, Zenon DEF Slotted
    <3>6. \A q \in Reqs : req[q].id # k
      BY <3>3 DEF Busy
    <3>7. req'[r].pc \notin {"boot", "publish"} /\ req'[r].op \notin {"create", "fork"}
      BY <3>2
    <3> QED BY <2>1, <3>2, <3>4, <3>5, <3>6, <3>7, <1>SlotEnter, Zenon
  <2> QED BY <2>2, <2>3, <2>4, Zenon DEF Begin

\* Processes and background loops have no say in the slots.
<1>SlotBackground. ASSUME TypeInv, SlotInv, req' = req, used' = used, \A j \in Ids : vms'[j].slot = vms[j].slot
                   PROVE  SlotInv'
  <2> USE <1>SlotBackground, Zenon
  <2>1. \A j : Leaving(j)' <=> Leaving(j)
    BY DEF Leaving, IsDelete
  <2>2. \A r : Claiming(r)' <=> Claiming(r)
    BY DEF Claiming, IsBuild
  <2>3. \A j \in Ids, s \in Slots : Owns(j, s)' => Owns(j, s)
    BY <2>1, <2>2 DEF Owns, Holds
  <2>4. \A r \in Reqs : req'[r].pc # "idle" => Slotted(req'[r], vms'[req'[r].id].slot)
    BY DEF SlotInv, TypeInv, RequestsOK
  <2>5. \A j \in Ids, s \in Slots : Owns(j, s)' => s \in used'
    BY <2>3 DEF SlotInv
  <2> QED BY <2>3, <2>4, <2>5, <1>SlotFrame

<1> QED
  <2> USE Zenon
  <2> SUFFICES ASSUME TypeInv, OInv, SlotInv, Undisturbed, [Next]_vars PROVE SlotInv'
    OBVIOUS
  <2>1. ASSUME NEW r \in Reqs, Step(r) \/ EndCapture(r) PROVE SlotInv'
    BY <2>1, <1>SlotAside, <1>SlotRecords, <1>SlotPids, <1>SlotClaim, <1>SlotTap, <1>SlotFree,
       <1>SlotPublish, <1>SlotRecord, <1>SlotCommit DEF Step
  <2>2. ASSUME NEW r \in Reqs, Cancel(r) PROVE SlotInv'
    BY <2>2, SMT DEF Cancel, Undisturbed
  <2>3. CASE Restart \/ Reboot
    BY <2>3, SMT DEF Restart, Reboot, Undisturbed
  <2>4. ASSUME NEW i, NEW p, OnFcExit(i, p) PROVE \A j \in Ids : vms'[j].slot = vms[j].slot
    <3>1. vms \in [Ids -> Vm]
      BY DEF TypeInv, StoreOK
    <3>2. vms' = vms \/ vms' = [vms EXCEPT ![i] = [vms[i] EXCEPT !.state = "error", !.pid = None]]
      BY <2>4 DEF OnFcExit
    <3>3. \A j \in Ids : j # i => vms'[j] = vms[j]
      BY <3>1, <3>2, SMT
    <3>4. i \in Ids => vms'[i].slot = vms[i].slot
      BY <3>1, <3>2 DEF Vm
    <3> QED BY <3>3, <3>4, SMT
  <2>5. CASE (\E p \in Pids : FcExits(p) \/ Reap(p)) \/ (\E i \in Ids : SweepDead(i))
    <3>1. req' = req /\ used' = used /\ (vms' = vms \/ \E i, p : OnFcExit(i, p))
      BY <2>5 DEF FcExits, Reap, SweepDead
    <3> QED BY <2>4, <3>1, <1>SlotBackground
  <2>6. CASE UNCHANGED vars
    BY <2>6, <1>SlotBackground, SMT DEF vars
  <2> QED BY <2>1, <2>2, <2>3, <2>5, <2>6, <1>SlotBegin DEF Next

\* With orderly callers, two VMs never have the same guest slot, and the
\* allocator knows every slot that a VM has.
THEOREM SlotsStayExclusive == ASSUME Undisturbed PROVE Spec => []SlotsExclusive
<1>1. Init => SlotInv
  <2>1. SUFFICES ASSUME Init PROVE SlotInv
    OBVIOUS
  <2>2. \A r \in Reqs : req[r].pc = "idle" /\ ~Claiming(r)
    BY <2>1 DEF Init, Idle, Claiming, IsBuild
  <2>3. \A i \in Ids : vms[i].slot = None
    BY <2>1 DEF Init, NoVm
  <2> QED BY <2>2, <2>3, Zenon DEF SlotInv, Owns, Holds
<1>2. TypeInv /\ OInv /\ SlotInv /\ [Next]_vars => SlotInv'
  BY SlotStep
<1>3. TypeInv /\ SlotInv => SlotsExclusive
  <2>1. SUFFICES ASSUME TypeInv, SlotInv PROVE SlotsExclusive
    OBVIOUS
  <2>2. \A i \in Ids : Holds(i) => vms[i].slot \in Slots /\ Owns(i, vms[i].slot)
    BY <2>1 DEF Holds, Owns, TypeInv, StoreOK, Vm
  <2> QED BY <2>1, <2>2, Zenon DEF SlotInv, SlotsExclusive
<1> QED BY <1>1, <1>2, <1>3, OrderlyInvariant, PTL DEF Spec

----------------------------------------------------------------------------
(* Any callers: where a request can be.                                    *)

Placed == \A r \in Reqs : IF req[r].pc = "idle" THEN req[r].op = "none" ELSE Fits(req[r].op, req[r].pc)

\* How a request enters.
LEMMA EnterKinds ==
    ASSUME NEW r \in Reqs, NEW i \in Ids, Begin(r, i)
    PROVE  \/ \E op, l, pid, slot :
                /\ Enter(r, op, i, l, pid, slot)
                /\ \/ op = "create" /\ l = "image" /\ Create(r, i)
                   \/ op \in {"start", "wake"} /\ l = "spawn" /\ vms' = vms
                   \/ op \in {"sleep", "pause", "resume"} /\ l = "patch" /\ vms' = vms
                   \/ op = "stop" /\ l = "setstate" /\ vms' = vms
                   \/ op = "delete" /\ l = "stop" /\ vms' = vms
                   \/ op = "capture" /\ l = "stream" /\ vms' = vms
           \/ \E c \in Ids : Fork(r, i, c)
<1> USE Zenon
<1>1. CASE Create(r, i)
  BY <1>1 DEF Create
<1>2. CASE Start(r, i) \/ Wake(r, i)
  BY <1>2 DEF Start, Wake
<1>3. CASE Sleep(r, i) \/ Pause(r, i) \/ Resume(r, i)
  BY <1>3 DEF Sleep, Pause, Resume
<1>4. CASE Stop(r, i) \/ Delete(r, i) \/ BeginCapture(r, i)
  BY <1>4 DEF Stop, Delete, EnterDelete, BeginCapture
<1> QED BY <1>1, <1>2, <1>3, <1>4 DEF Begin

\* Every step leaves the requests in their places.
LEMMA PlacedStep == TypeInv /\ Placed /\ [Next]_vars => Placed'
<1> USE Zenon

\* A request that goes on to a place of its kind.
<1>PlacedGoto. ASSUME TypeInv, Placed, NEW r \in Reqs, NEW l, Goto(r, l), Fits(req[r].op, l)
               PROVE  Placed'
  <2> USE <1>PlacedGoto
  <2>1. Others(r) /\ req'[r].pc = l /\ req'[r].op = req[r].op
    BY GotoMoves
  <2>2. l # "idle"
    BY SMT DEF Fits
  <2> QED BY <2>1, <2>2 DEF Placed, Others

\* A request that ends.
<1>PlacedDone. ASSUME TypeInv, Placed, NEW r \in Reqs, Done(r) PROVE Placed'
  <2> USE <1>PlacedDone
  <2>1. Others(r) /\ req'[r].pc = "idle" /\ req'[r].op = "none"
    BY SMT DEF Done, Others, Idle, TypeInv, RequestsOK
  <2> QED BY <2>1 DEF Placed, Others

\* The steps of the requests.
<1>PlacedSteps. ASSUME TypeInv, Placed, NEW r \in Reqs, Step(r)
                PROVE  Placed'
  <2> USE <1>PlacedSteps
  <2> PICK x \in Request : x = req[r] /\ (x.pc # "idle" => Fits(x.op, x.pc))
    BY DEF TypeInv, RequestsOK, Placed
  <2>1. \A l : Goto(r, l) /\ Fits(x.op, l) => Placed'
    BY <1>PlacedGoto
  <2>2. Done(r) => Placed'
    BY <1>PlacedDone
  <2>3. CASE PrepareDir(r)
    <3> USE <2>3
    <3>1. Fits(x.op, "slot") /\ Fits(x.op, "fail")
      BY SMT DEF PrepareDir, At, Fits
    <3> QED BY <2>1, <3>1 DEF PrepareDir
  <2>4. CASE ClaimSlot(r)
    <3> USE <2>4
    <3>1. Fits(x.op, "spawn") /\ Fits(x.op, "fail")
      BY SMT DEF ClaimSlot, At, Fits
    <3>2. ASSUME NEW s, req' = [req EXCEPT ![r].slot = s, ![r].pc = "spawn"] PROVE Placed'
      <4>1. Others(r) /\ req'[r].pc = "spawn" /\ req'[r].op = x.op
        BY <3>2, SMT DEF Others, TypeInv, RequestsOK, Request
      <4> QED BY <3>1, <4>1 DEF Placed, Others
    <3> QED BY <2>1, <2>2, <3>1, <3>2 DEF ClaimSlot
  <2>5. CASE TapFails(r) \/ SpawnFails(r) \/ BootFails(r)
    <3>1. x.op \in {"create", "fork"} => Fits(x.op, "fail")
      BY SMT DEF Fits
    <3>2. Done(r) \/ (Goto(r, "fail") /\ x.op \in {"create", "fork"})
      BY <2>5, SMT DEF TapFails, SpawnFails, BootFails, IsBuild
    <3> QED BY <2>1, <2>2, <3>1, <3>2
  <2>6. CASE Spawn(r)
    <3> USE <2>6
    <3>1. Fits(x.op, "boot")
      BY SMT DEF Spawn, At, Fits
    <3>2. PICK p : req' = [req EXCEPT ![r].pid = p, ![r].pc = "boot"]
      BY DEF Spawn
    <3>3. Others(r) /\ req'[r].pc = "boot" /\ req'[r].op = x.op
      BY <3>2, SMT DEF Others, TypeInv, RequestsOK, Request
    <3> QED BY <3>1, <3>3 DEF Placed, Others
  <2>7. CASE Boot(r)
    <3> USE <2>7
    <3>1. Fits(x.op, IF IsBuild(r) THEN "publish" ELSE "setpid")
      BY SMT DEF Boot, At, Fits, IsBuild
    <3> QED BY <2>1, <3>1 DEF Boot
  <2>8. CASE Publish(r) \/ RecordPid(r)
    <3>1. x.pc = "publish" => Fits(x.op, "meta")
      BY SMT DEF Fits
    <3>2. x.pc = "setpid" => Fits(x.op, "setstate")
      BY SMT DEF Fits
    <3> QED BY <2>1, <2>8, <3>1, <3>2 DEF Publish, RecordPid, At
  <2>9. CASE RecordState(r)
    <3> USE <2>9
    <3>1. Fits(x.op, IF x.op = "stop" \/ IsDelete(r) THEN "clearpid" ELSE "meta")
      BY SMT DEF RecordState, At, Fits, IsDelete
    <3> QED BY <2>1, <3>1 DEF RecordState
  <2>10. CASE ClearPid(r) \/ SleepKill(r) \/ Terminate(r)
    <3>1. x.pc = "clearpid" => Fits(x.op, "kill")
      BY SMT DEF Fits
    <3>2. x.pc = "kill" => Fits(x.op, IF x.op = "sleep" THEN "setstate" ELSE "wait")
      BY SMT DEF Fits
    <3>3. \/ x.pc = "clearpid" /\ Goto(r, "kill")
          \/ x.pc = "kill" /\ x.op = "sleep" /\ Goto(r, "setstate")
          \/ x.pc = "kill" /\ x.op # "sleep" /\ Goto(r, "wait")
      BY <2>10 DEF ClearPid, SleepKill, Terminate, At
    <3> QED BY <2>1, <3>1, <3>2, <3>3
  <2>11. CASE StopWaited(r)
    <3>1. IsDelete(r) => Fits(x.op, "unslot")
      BY SMT DEF Fits, IsDelete
    <3> QED BY <2>1, <2>2, <2>11, <3>1 DEF StopWaited
  <2>12. CASE FreeSlot(r) \/ RemoveDir(r)
    <3> USE <2>12
    <3>1. Fits(x.op, "remove") /\ Fits(x.op, "forget")
      BY SMT DEF FreeSlot, RemoveDir, At, Fits
    <3> QED BY <2>1, <3>1 DEF FreeSlot, RemoveDir
  <2>13. CASE PatchVm(r)
    <3> USE <2>13
    <3>1. Fits(x.op, IF x.op \in {"sleep", "fork"} THEN "snapshot" ELSE "setstate")
      BY SMT DEF PatchVm, At, Fits
    <3> QED BY <2>1, <3>1 DEF PatchVm
  <2>14. CASE Snapshot(r)
    <3> USE <2>14
    <3>1. Fits(x.op, IF x.op = "sleep" THEN "clearpid" ELSE IF x.hot THEN "thaw" ELSE "copy")
      BY SMT DEF Snapshot, At, Fits
    <3> QED BY <2>1, <3>1 DEF Snapshot
  <2>15. CASE Thaw(r) \/ ForkLooks(r)
    <3> USE <2>15
    <3>1. Fits(x.op, "copy") /\ Fits(x.op, "patch") /\ Fits(x.op, "snapshot")
      BY SMT DEF Thaw, ForkLooks, At, Fits
    <3> QED BY <2>1, <2>2, <3>1 DEF Thaw, ForkLooks
  <2>16. CASE StopLooks(r)
    <3> USE <2>16
    <3>1. Fits(x.op, "setstate") /\ Fits(x.op, "unslot")
      BY SMT DEF StopLooks, At, Fits
    <3>2. ASSUME NEW p, req' = [req EXCEPT ![r].pid = p, ![r].pc = "setstate"] PROVE Placed'
      <4>1. Others(r) /\ req'[r].pc = "setstate" /\ req'[r].op = x.op
        BY <3>2, SMT DEF Others, TypeInv, RequestsOK, Request
      <4> QED BY <3>1, <4>1 DEF Placed, Others
    <3> QED BY <2>1, <3>1, <3>2 DEF StopLooks
  <2>17. CASE CopyParent(r) \/ Register(r)
    <3> USE <2>17
    <3>1. Fits(x.op, "register") /\ Fits(x.op, "slot")
      BY SMT DEF CopyParent, Register, At, Fits
    <3> QED BY <2>1, <2>2, <3>1 DEF CopyParent, Register
  <2>18. CASE SaveMeta(r)
    <3>1. IsBuild(r) => Fits(x.op, "commit") /\ Fits(x.op, "fail")
      BY SMT DEF Fits, IsBuild
    <3> QED BY <2>1, <2>2, <2>18, <3>1 DEF SaveMeta
  <2>19. CASE Commit(r)
    <3>1. Fits("rollback", "stop")
      BY SMT DEF Fits
    <3>2. ASSUME EnterDelete(r, "rollback", req[r].id) PROVE Placed'
      <4>1. Others(r) /\ req'[r].pc = "stop" /\ req'[r].op = "rollback"
        BY <3>2, SMT DEF EnterDelete, Enter, Others, TypeInv, RequestsOK
      <4> QED BY <3>1, <4>1 DEF Placed, Others
    <3> QED BY <2>2, <2>19, <3>2 DEF Commit
  <2> QED BY <2>2, <2>3, <2>4, <2>5, <2>6, <2>7, <2>8, <2>9, <2>10, <2>11, <2>12, <2>13, <2>14,
             <2>15, <2>16, <2>17, <2>18, <2>19 DEF Step, MarkFailed, RemoveRecord, FcCallFails

<1> QED
  <2> SUFFICES ASSUME TypeInv, Placed, [Next]_vars PROVE Placed'
    OBVIOUS
  <2>1. ASSUME NEW r \in Reqs, NEW i \in Ids, Begin(r, i) PROVE Placed'
    <3>1. ASSUME NEW op, NEW l, NEW pid, NEW slot, Enter(r, op, i, l, pid, slot), Fits(op, l) PROVE Placed'
      <4> USE <3>1
      <4>1. Others(r) /\ req'[r].pc = l /\ req'[r].op = op
        BY SMT DEF Enter, Others, TypeInv, RequestsOK
      <4>2. l # "idle"
        BY SMT DEF Fits
      <4> QED BY <4>1, <4>2 DEF Placed, Others
    <3>2. /\ Fits("create", "image") /\ Fits("stop", "setstate") /\ Fits("delete", "stop")
          /\ Fits("capture", "stream") /\ Fits("fork", "look")
          /\ \A op \in {"start", "wake"} : Fits(op, "spawn")
          /\ \A op \in {"sleep", "pause", "resume"} : Fits(op, "patch")
      BY SMT DEF Fits
    <3>3. ASSUME NEW c \in Ids, Fork(r, i, c) PROVE Placed'
      <4>1. Others(r) /\ req'[r].pc = "look" /\ req'[r].op = "fork"
        BY <3>3, SMT DEF Fork, Others, TypeInv, RequestsOK
      <4> QED BY <3>2, <4>1 DEF Placed, Others
    <3> QED BY <2>1, <3>1, <3>2, <3>3, EnterKinds
  <2>2. ASSUME NEW r \in Reqs, EndCapture(r) \/ Cancel(r) PROVE Placed'
    BY <2>2, <1>PlacedDone DEF EndCapture, Cancel
  <2>3. CASE Restart \/ Reboot
    <3>1. \A r \in Reqs : req'[r].pc = "idle" /\ req'[r].op = "none"
      BY <2>3, SMT DEF Restart, Reboot, Comeback, Idle
    <3> QED BY <3>1 DEF Placed
  <2>4. CASE req' = req
    BY <2>4 DEF Placed
  <2> QED BY <2>1, <2>2, <2>3, <2>4, <1>PlacedSteps DEF Next, FcExits, Reap, SweepDead, vars

----------------------------------------------------------------------------
(* Creating.                                                               *)

Builds == {"image", "slot", "spawn", "boot", "publish", "fail"}

\* Create r has still to publish its VM or to mark it as failed.
Building(r) == req[r].op = "create" /\ req[r].pc \in Builds

\* Without forks a record in creating has its create; nothing saves such a record.
CInv == /\ \A r \in Reqs : /\ req[r].op # "fork"
                           /\ req[r].pc = "meta" => vms[req[r].id].state # "creating"
        /\ \A i \in Ids : /\ vms[i].state = "creating" => \E r \in Reqs : req[r].id = i /\ Building(r)
                          /\ disk[i].meta.state # "creating"

\* No step but a create puts a record in creating.
NoneNew == \A j \in Ids : vms'[j].state = "creating" => vms[j].state = "creating"

NoneSaved == \A j \in Ids : disk'[j].meta.state # "creating"

\* Every step of a manager that takes no forks.
LEMMA CStep ==
    ASSUME "fork" \notin Ops, TypeInv, Placed, CInv, [Next]_vars
    PROVE  CInv'

\* A step of request r.
<1>CFrame. ASSUME TypeInv, CInv, NoneNew, NoneSaved, NEW r \in Reqs, Others(r), req'[r].op # "fork",
                  req'[r].pc = "meta" => vms'[req'[r].id].state # "creating",
                  Building(r) => \/ req'[r].id = req[r].id /\ Building(r)'
                                 \/ vms'[req[r].id].state # "creating"
           PROVE  CInv'
  <2> USE <1>CFrame, Zenon
  <2>1. ASSUME NEW q \in Reqs PROVE /\ req'[q].op # "fork"
                                    /\ req'[q].pc = "meta" => vms'[req'[q].id].state # "creating"
    <3>1. CASE q # r
      <4>1. req'[q] = req[q]
        BY <3>1 DEF Others
      <4>2. req[q].pc = "meta" => req[q].id \in Ids
        BY DEF TypeInv, RequestsOK
      <4> QED BY <4>1, <4>2 DEF CInv, NoneNew
    <3> QED BY <3>1
  <2>2. ASSUME NEW i \in Ids, vms'[i].state = "creating"
        PROVE  \E q \in Reqs : req'[q].id = i /\ Building(q)'
    <3> USE <2>2
    <3> PICK q \in Reqs : req[q].id = i /\ Building(q)
      BY DEF CInv, NoneNew
    <3>2. CASE q # r
      BY <3>2 DEF Others, Building
    <3> QED BY <3>2
  <2> QED BY <2>1, <2>2 DEF CInv, NoneSaved

\* Request r goes on to l.
<1>CGoes. ASSUME TypeInv, CInv, NoneNew, NoneSaved, NEW r \in Reqs, NEW l, Goto(r, l),
                 Building(r) => l \in Builds \/ vms'[req[r].id].state # "creating",
                 l = "meta" => vms'[req[r].id].state # "creating"
          PROVE  CInv'
  <2> USE <1>CGoes, Zenon
  <2>1. Others(r) /\ req'[r].pc = l /\ req'[r].op = req[r].op /\ req'[r].id = req[r].id
    BY GotoMoves
  <2>2. Building(r) /\ l \in Builds => Building(r)'
    BY <2>1 DEF Building
  <2> QED BY <2>1, <2>2, <1>CFrame DEF CInv

\* Request r ends.
<1>CEnds. ASSUME TypeInv, CInv, NoneNew, NoneSaved, NEW r \in Reqs, Done(r),
                 Building(r) => vms'[req[r].id].state # "creating"
          PROVE  CInv'
  <2> USE <1>CEnds
  <2>1. Others(r) /\ req'[r].op = "none" /\ req'[r].pc = "idle"
    BY DEF Done, Others, Idle, TypeInv, RequestsOK
  <2> QED BY <2>1, <1>CFrame, Zenon

\* The steps of the requests.
<1>CSteps. ASSUME TypeInv, Placed, CInv, NEW r \in Reqs, Step(r)
           PROVE  CInv'
  <2> USE <1>CSteps
  <2> PICK x \in Request : x = req[r] /\ (x.pc # "idle" => Fits(x.op, x.pc) /\ x.id \in Ids)
    BY Zenon DEF TypeInv, RequestsOK, Placed
  <2>1. x.op # "fork" /\ (x.pc = "meta" => vms[x.id].state # "creating")
    BY Zenon DEF CInv
  <2>2. /\ vms' = vms => NoneNew
        /\ disk' = disk => NoneSaved
    BY Zenon DEF NoneNew, NoneSaved, CInv
  <2>3. IsBuild(r) <=> x.op = "create"
    BY <2>1, Zenon DEF IsBuild
  <2>4. Building(r) <=> x.op = "create" /\ x.pc \in Builds
    BY Zenon DEF Building
  <2>5. ASSUME NEW l, Goto(r, l), NoneNew, NoneSaved, x.op = "create" => l \in Builds, l # "meta" PROVE CInv'
    BY <2>4, <2>5, <1>CGoes, Zenon
  <2>6. ASSUME Done(r), NoneNew, NoneSaved, x.op # "create" \/ x.pc \notin Builds PROVE CInv'
    BY <2>4, <2>6, <1>CEnds, Zenon
  <2>7. CASE PrepareDir(r)
    <3> USE <2>7
    <3>1. NoneSaved
      <4>1. \A j \in Ids : disk'[j].meta = disk[j].meta
        BY DEF PrepareDir, TypeInv, StoreOK, Directory
      <4> QED BY <4>1, Zenon DEF NoneSaved, CInv
    <3>2. vms' = vms /\ (Goto(r, "slot") \/ Goto(r, "fail"))
      BY Zenon DEF PrepareDir
    <3>3. "slot" \in Builds /\ "fail" \in Builds
      BY DEF Builds
    <3> QED BY <2>2, <2>5, <3>1, <3>2, <3>3
  <2>8. CASE ClaimSlot(r)
    <3> USE <2>8
    <3>1. vms' = vms /\ disk' = disk /\ x.pc = "slot" /\ x.op = "create"
      BY <2>1 DEF ClaimSlot, At, Fits
    <3>2. ASSUME NEW s, req' = [req EXCEPT ![r].slot = s, ![r].pc = "spawn"] PROVE CInv'
      <4>1. Others(r) /\ req'[r].pc = "spawn" /\ req'[r].op = x.op /\ req'[r].id = x.id
        BY <3>2 DEF Others, TypeInv, RequestsOK, Request
      <4>2. Building(r)'
        BY <3>1, <4>1 DEF Building, Builds
      <4> QED BY <2>1, <2>2, <3>1, <4>1, <4>2, <1>CFrame
    <3>3. Goto(r, "fail") => CInv'
      BY <2>2, <2>5, <3>1 DEF Builds
    <3> QED BY <3>1, <3>2, <3>3, Zenon DEF ClaimSlot
  <2>9. CASE TapFails(r) \/ SpawnFails(r) \/ BootFails(r)
    <3>1. vms' = vms /\ disk' = disk /\ (Goto(r, "fail") \/ (Done(r) /\ x.op # "create"))
      BY <2>3, <2>9, Zenon DEF TapFails, SpawnFails, BootFails
    <3>2. "fail" \in Builds
      BY DEF Builds
    <3> QED BY <2>2, <2>5, <2>6, <3>1, <3>2
  <2>10. CASE Spawn(r)
    <3> USE <2>10
    <3>1. PICK p : req' = [req EXCEPT ![r].pid = p, ![r].pc = "boot"]
      BY Zenon DEF Spawn
    <3>2. Others(r) /\ req'[r].pc = "boot" /\ req'[r].op = x.op /\ req'[r].id = x.id
      BY <3>1 DEF Others, TypeInv, RequestsOK, Request
    <3>3. Building(r) => Building(r)'
      BY <2>4, <3>2 DEF Building, Builds
    <3>4. vms' = vms /\ disk' = disk
      BY Zenon DEF Spawn
    <3> QED BY <2>1, <2>2, <3>2, <3>3, <3>4, <1>CFrame
  <2>11. CASE Boot(r)
    <3> USE <2>11
    <3>1. NoneSaved
      <4>1. \A j \in Ids : disk'[j].meta = disk[j].meta
        BY DEF Boot, TypeInv, StoreOK, Directory
      <4> QED BY <4>1, Zenon DEF NoneSaved, CInv
    <3>2. vms' = vms /\ Goto(r, IF x.op = "create" THEN "publish" ELSE "setpid")
      BY <2>3, Zenon DEF Boot
    <3>3. x.op = "create" => "publish" \in Builds
      BY DEF Builds
    <3> QED BY <2>2, <2>5, <3>1, <3>2, <3>3
  <2>12. CASE Publish(r)
    <3>1. /\ vms'[x.id].state # "creating" /\ \A j \in Ids : j # x.id => vms'[j] = vms[j]
          /\ disk' = disk /\ Goto(r, "meta")
      BY <2>12 DEF Publish, At, Exists, TypeInv, StoreOK
    <3> QED BY <2>2, <3>1, <1>CGoes, Zenon DEF NoneNew
  <2>13. CASE MarkFailed(r)
    <3>1. /\ vms'[x.id].state # "creating" /\ \A j \in Ids : j # x.id => vms'[j] = vms[j]
          /\ disk' = disk /\ Done(r)
      BY <2>13 DEF MarkFailed, SetState, At, Exists, TypeInv, StoreOK, Vm
    <3> QED BY <2>2, <3>1, <1>CEnds, Zenon DEF NoneNew
  <2>14. CASE RecordPid(r) \/ ClearPid(r)
    <3> USE <2>14
    <3>1. \A j \in Ids : vms'[j].state = vms[j].state
      BY DEF RecordPid, ClearPid, SetPid, TypeInv, StoreOK, Vm
    <3>2. disk' = disk /\ x.op # "create" /\ (Goto(r, "setstate") \/ Goto(r, "kill"))
      BY DEF RecordPid, ClearPid, At, Fits
    <3> QED BY <2>2, <2>5, <3>1, <3>2 DEF NoneNew
  <2>15. CASE RecordState(r)
    <3> USE <2>15
    <3>1. vms'[x.id].state # "creating" /\ \A j \in Ids : j # x.id => vms'[j] = vms[j]
      BY DEF RecordState, SetState, Goal, At, Exists, TypeInv, StoreOK, Vm
    <3>2. disk' = disk /\ (Goto(r, "clearpid") \/ Goto(r, "meta")) /\ x.id \in Ids
      BY Zenon DEF RecordState, At
    <3> QED BY <2>2, <3>1, <3>2, <1>CGoes, Zenon DEF NoneNew
  <2>16. CASE SleepKill(r) \/ Terminate(r) \/ FreeSlot(r) \/ StopLooks(r) \/ PatchVm(r)
    <3> USE <2>16
    <3>0. x.op # "create"
      BY DEF SleepKill, Terminate, FreeSlot, StopLooks, PatchVm, At, Fits
    <3>1. vms' = vms /\ disk' = disk
      BY Zenon DEF SleepKill, Terminate, FreeSlot, StopLooks, PatchVm
    <3>2. \/ \E l \in {"setstate", "wait", "remove", "unslot", "snapshot"} : Goto(r, l)
          \/ \E p : req' = [req EXCEPT ![r].pid = p, ![r].pc = "setstate"]
      BY Zenon DEF SleepKill, Terminate, FreeSlot, StopLooks, PatchVm
    <3>3. ASSUME NEW p, req' = [req EXCEPT ![r].pid = p, ![r].pc = "setstate"] PROVE CInv'
      <4>1. Others(r) /\ req'[r].pc = "setstate" /\ req'[r].op = x.op
        BY <3>3 DEF Others, TypeInv, RequestsOK, Request
      <4> QED BY <2>1, <2>2, <2>4, <3>0, <3>1, <4>1, <1>CFrame, Zenon
    <3> QED BY <2>2, <2>5, <3>0, <3>1, <3>2, <3>3, Zenon
  <2>17. CASE StopWaited(r)
    <3>1. x.op # "create" /\ vms' = vms /\ disk' = disk /\ (Goto(r, "unslot") \/ Done(r))
      BY <2>17 DEF StopWaited, At, Fits
    <3> QED BY <2>2, <2>5, <2>6, <3>1
  <2>18. CASE RemoveDir(r)
    <3> USE <2>18
    <3>1. NoneSaved
      <4>1. \A j \in Ids : disk'[j] = disk[j] \/ disk'[j] = NoDir
        BY Zenon DEF RemoveDir, TypeInv, StoreOK
      <4>2. NoDir.meta.state = "absent"
        BY Zenon DEF NoDir, NoVm
      <4> QED BY <4>1, <4>2 DEF NoneSaved, CInv
    <3>2. x.op # "create" /\ vms' = vms /\ Goto(r, "forget")
      BY Zenon DEF RemoveDir, At, Fits
    <3> QED BY <2>2, <2>5, <3>1, <3>2
  <2>19. CASE RemoveRecord(r)
    <3> USE <2>19
    <3>1. NoneNew
      <4>1. \A j \in Ids : vms'[j] = vms[j] \/ vms'[j] = NoVm
        BY DEF RemoveRecord, TypeInv, StoreOK
      <4>2. NoVm.state = "absent"
        BY DEF NoVm
      <4> QED BY <4>1, <4>2 DEF NoneNew
    <3>2. x.op # "create" /\ disk' = disk /\ Done(r)
      BY DEF RemoveRecord, At, Fits
    <3> QED BY <2>2, <2>6, <3>1, <3>2, Zenon
  <2>20. CASE Snapshot(r)
    <3> USE <2>20
    <3>1. x.op = "sleep" /\ vms' = vms /\ Goto(r, "clearpid")
      BY <2>1 DEF Snapshot, At, Fits
    <3>2. NoneSaved
      <4>1. \A j \in Ids : disk'[j].meta = disk[j].meta
        BY DEF Snapshot, TypeInv, StoreOK, Directory
      <4> QED BY <4>1, Zenon DEF NoneSaved, CInv
    <3> QED BY <2>2, <2>5, <3>1, <3>2
  <2>21. CASE Thaw(r) \/ ForkLooks(r) \/ CopyParent(r) \/ Register(r)
    BY <2>1, <2>21 DEF Thaw, ForkLooks, CopyParent, Register, At, Fits
  <2>22. CASE FcCallFails(r)
    <3>1. x.op # "create" /\ vms' = vms /\ disk' = disk /\ Done(r)
      BY <2>22 DEF FcCallFails, Fits
    <3> QED BY <2>2, <2>6, <3>1
  <2>23. CASE SaveMeta(r)
    <3> USE <2>23
    <3>1. x.pc = "meta" /\ x.pc \notin Builds /\ vms' = vms
      BY Zenon DEF SaveMeta, At, Builds
    <3>2. NoneSaved
      <4>1. \A j \in Ids : disk'[j].meta \in {disk[j].meta, vms[x.id]}
        BY DEF SaveMeta, WriteMeta, TypeInv, StoreOK, Directory
      <4> QED BY <2>1, <3>1, <4>1, Zenon DEF NoneSaved, CInv
    <3>3. Done(r) \/ Goto(r, "commit") \/ Goto(r, "fail")
      BY Zenon DEF SaveMeta
    <3> QED BY <2>2, <2>4, <2>6, <3>1, <3>2, <3>3, <1>CGoes
  <2>24. CASE Commit(r)
    <3> USE <2>24
    <3>1. x.pc = "commit" /\ x.pc \notin Builds /\ vms' = vms /\ disk' = disk
      BY Zenon DEF Commit, At, Builds
    <3>2. ASSUME EnterDelete(r, "rollback", req[r].id) PROVE CInv'
      <4>1. Others(r) /\ req'[r].pc = "stop" /\ req'[r].op = "rollback"
        BY <3>2, Zenon DEF EnterDelete, Enter, Others, TypeInv, RequestsOK
      <4> QED BY <2>2, <2>4, <3>1, <4>1, <1>CFrame
    <3> QED BY <2>2, <2>6, <3>1, <3>2 DEF Commit
  <2> QED BY <2>7, <2>8, <2>9, <2>10, <2>11, <2>12, <2>13, <2>14, <2>15, <2>16, <2>17, <2>18, <2>19,
          <2>20, <2>21, <2>22, <2>23, <2>24, Zenon DEF Step

\* on_fc_exit saves an error, whoever calls it.
<1>CExits. ASSUME TypeInv, CInv, NEW i, NEW p, OnFcExit(i, p), req' = req
           PROVE  CInv'
  <2> USE <1>CExits
  <2>1. NoneNew /\ NoneSaved
    <3>1. CASE vms' = vms /\ disk' = disk
      BY <3>1, Zenon DEF NoneNew, NoneSaved, CInv
    <3>2. CASE ~(vms' = vms /\ disk' = disk)
      <4> PICK vm : vm = [vms[i] EXCEPT !.state = "error", !.pid = None]
        OBVIOUS
      <4>2. vms' = [vms EXCEPT ![i] = vm] /\ WriteMeta(i, vm)
        BY <3>2, Zenon DEF OnFcExit
      <4>3. ASSUME NEW j \in Ids PROVE /\ vms'[j].state \in {vms[j].state, "error"}
                                       /\ disk'[j].meta.state \in {disk[j].meta.state, "error"}
        <5>1. CASE j = i
          <6> USE <5>1
          <6>1. vms[i] \in Vm
            BY DEF TypeInv, StoreOK
          <6>2. vm.state = "error"
            BY <6>1 DEF Vm
          <6> QED BY <4>2, <6>2 DEF WriteMeta, TypeInv, StoreOK, Directory
        <5>2. CASE j # i
          BY <4>2, <5>2 DEF WriteMeta, TypeInv, StoreOK, Directory
        <5> QED BY <5>1, <5>2
      <4> QED BY <4>3 DEF NoneNew, NoneSaved, CInv
    <3> QED BY <3>1, <3>2
  <2>2. \A r \in Reqs : Building(r)' <=> Building(r)
    BY Zenon DEF Building
  <2>3. \A r \in Reqs : req[r].pc = "meta" => req[r].id \in Ids
    BY Zenon DEF TypeInv, RequestsOK
  <2> QED BY <2>1, <2>2, <2>3, Zenon DEF CInv, NoneNew, NoneSaved

<1>0. NoneSaved \/ disk' # disk
  BY Zenon DEF NoneSaved, CInv
<1>1. ASSUME NEW r \in Reqs, NEW i \in Ids, Begin(r, i) PROVE CInv'
  <2> USE <1>1
  <2>1. /\ req[r].pc = "idle" /\ disk' = disk
    BY Zenon DEF Begin, Create, Start, Wake, Sleep, Pause, Resume, Stop, Delete, BeginCapture, Fork,
       Admit, At
  <2>2. ~Building(r)
    BY <2>1 DEF Building, Builds
  <2>3. ASSUME NEW op, NEW l, NEW pid, NEW slot, Enter(r, op, i, l, pid, slot), op # "fork", l # "meta", vms' = vms
        PROVE  CInv'
    <3> USE <2>3
    <3>1. Others(r) /\ req'[r].pc = l /\ req'[r].op = op
      BY DEF Enter, Others, TypeInv, RequestsOK
    <3>2. NoneNew
      BY Zenon DEF NoneNew
    <3> QED BY <1>0, <2>1, <2>2, <3>1, <3>2, <1>CFrame, Zenon
  <2>4. ASSUME Create(r, i) PROVE CInv'
    <3> USE <2>4
    <3>1. Others(r) /\ req'[r].pc = "image" /\ req'[r].op = "create" /\ req'[r].id = i
      BY DEF Create, Enter, Others, TypeInv, RequestsOK
    <3>2. Building(r)'
      BY <3>1 DEF Building, Builds
    <3>3. \A j \in Ids : j # i => vms'[j] = vms[j]
      BY DEF Create, TypeInv, StoreOK
    <3>4. \A q \in Reqs : q # r => req'[q] = req[q] /\ req[q].id # i /\ (Building(q) => Building(q)')
      BY <3>1, Zenon DEF Create, Unused, Busy, Others, Building
    <3>5. \A q \in Reqs : req[q].pc = "meta" => req[q].id \in Ids
      BY Zenon DEF TypeInv, RequestsOK
    <3>6. \A q \in Reqs : /\ req'[q].op # "fork"
                          /\ req'[q].pc = "meta" => vms'[req'[q].id].state # "creating"
      BY <3>1, <3>3, <3>4, <3>5 DEF CInv
    <3>7. ASSUME NEW j \in Ids, vms'[j].state = "creating" PROVE \E q \in Reqs : req'[q].id = j /\ Building(q)'
      <4>1. CASE j = i
        BY <3>1, <3>2, <4>1
      <4>2. CASE j # i
        <5>1. PICK q \in Reqs : req[q].id = j /\ Building(q)
          BY <3>3, <3>7, <4>2, Zenon DEF CInv
        <5> QED BY <2>2, <3>4, <5>1
      <4> QED BY <4>1, <4>2
    <3> QED BY <2>1, <3>6, <3>7, Zenon DEF CInv
  <2>5. ~(\E c \in Ids : Fork(r, i, c))
    BY Zenon DEF Fork, Admit
  <2> QED BY <2>3, <2>4, <2>5, EnterKinds
<1>2. ASSUME NEW r \in Reqs, EndCapture(r) \/ Cancel(r) PROVE CInv'
  <2> USE <1>2
  <2>1. vms' = vms /\ disk' = disk /\ Done(r)
    BY Zenon DEF EndCapture, Cancel
  <2>2. ~Building(r)
    BY DEF EndCapture, Cancel, Building, Builds, At
  <2>3. NoneNew
    BY <2>1, Zenon DEF NoneNew
  <2> QED BY <1>0, <2>1, <2>2, <2>3, <1>CEnds
<1>3. CASE Restart \/ Reboot
  <2> USE <1>3
  <2>1. \A r \in Reqs : req'[r].pc = "idle" /\ req'[r].op = "none"
    BY DEF Restart, Reboot, Comeback, Idle
  <2>2. PICK alive : vms' = [i \in Ids |-> Reconciled(disk[i], alive)]
    BY Zenon DEF Restart, Reboot, Comeback
  <2>3. ASSUME NEW i \in Ids PROVE vms'[i].state # "creating"
    <3>1. vms'[i].state \in {"sleeping", "stopped", disk[i].meta.state}
      BY <2>2 DEF Reconciled
    <3> QED BY <3>1 DEF CInv
  <2>4. disk' = disk
    BY Zenon DEF Restart, Reboot, Comeback
  <2> QED BY <2>1, <2>3, <2>4 DEF CInv
<1>4. CASE vms' = vms /\ disk' = disk /\ req' = req
  BY <1>4, Zenon DEF CInv, Building
<1> QED BY <1>1, <1>2, <1>3, <1>4, <1>CSteps, <1>CExits, Zenon DEF Next, FcExits, Reap, SweepDead, vars

\* While no client forks, a record is in creating only as long as its create is
\* at work: no failure, cancelled handler, exit or restart leaves one behind.
THEOREM CreatesComplete ==
    ASSUME "fork" \notin Ops
    PROVE  Spec => []CreatingIsWorkedOn
<1> DEFINE IInv == TypeInv /\ Placed /\ CInv
<1>1. Init => IInv
  <2> SUFFICES ASSUME Init PROVE Placed /\ CInv
    BY InitType, Zenon
  <2>1. \A r \in Reqs : req[r].pc = "idle" /\ req[r].op = "none"
    BY DEF Init, Idle
  <2>2. \A i \in Ids : vms[i].state = "absent" /\ disk[i].meta.state = "absent"
    BY DEF Init, NoVm, NoDir
  <2> QED BY <2>1, <2>2 DEF Placed, CInv
<1>2. IInv /\ [Next]_vars => IInv'
  BY NextType, PlacedStep, CStep, Zenon
<1>3. IInv => CreatingIsWorkedOn
  BY Zenon DEF CInv, CreatingIsWorkedOn
<1> QED BY <1>1, <1>2, <1>3, PTL DEF Spec

----------------------------------------------------------------------------
(* Sleeping VMs and their snapshots.                                       *)

Homed == \A p \in Pids : fc[p].live => fc[p].dir \in Ids /\ disk[fc[p].dir].here

\* VM i has its snapshot if it sleeps; there is no meta.json without a directory.
Cold(i) == /\ "sleeping" \in {vms[i].state, disk[i].meta.state} => disk[i].snap # "none"
           /\ ~disk[i].here => disk[i].meta.state # "sleeping"

\* A fork whose child has no record yet.
Early(r) == req[r].op = "fork" /\ req[r].pc \in {"look", "patch", "snapshot", "thaw", "copy", "register"}

\* A sleep that has taken its snapshot.
Slept(r) == req[r].op = "sleep" /\ req[r].pc \in {"clearpid", "kill", "setstate"}

Sole(r, i) == \A q \in Reqs : q # r => req[q].id # i

\* Without deletes a snapshot stays; the child of an early fork is the fork's only.
FInv == /\ Homed
        /\ \A i \in Ids : Cold(i)
        /\ \A r \in Reqs :
             /\ req[r].op \notin {"delete", "rollback"}
             /\ Early(r) => /\ vms[req[r].id].state = "absent"
                            /\ disk[req[r].id].meta.state # "sleeping"
                            /\ Sole(r, req[r].id)
             /\ Slept(r) => disk[req[r].id].snap # "none"

SnapKept(j) == disk[j].snap # "none" => disk'[j].snap # "none"

\* What a step leaves as it is on VM j.
Tame(j) == /\ vms'[j].state = vms[j].state /\ disk'[j].meta = disk[j].meta
           /\ disk[j].here => disk'[j].here
           /\ SnapKept(j)

\* The processes of a step that starts none.
NoneBorn == \A p \in Pids : fc'[p].live => fc[p].live /\ fc'[p].dir = fc[p].dir

\* A kill starts none.
LEMMA KillsOnly == ASSUME TypeInv, NEW p, p = None \/ p \in Pids, Kill(p) PROVE NoneBorn
BY DEF Kill, Killed, Gone, NoneBorn, TypeInv, StoreOK, Process

\* Every step of a manager that deletes nothing.
LEMMA FStep ==
    ASSUME "delete" \notin Ops, "fail" \notin Faults, TypeInv, Placed, FInv, [Next]_vars
    PROVE  FInv'

\* A tame VM stays cold.
<1>TameCold. ASSUME NEW j \in Ids, Cold(j), Tame(j) PROVE Cold(j)'
  BY <1>TameCold DEF Cold, Tame, SnapKept

\* A process that lives has lived before, over the same directory.
<1>HomedStays. ASSUME Homed, \A p \in Pids : fc'[p].live => fc[p].live /\ fc'[p].dir = fc[p].dir,
                      \A j \in Ids : disk[j].here => disk'[j].here
               PROVE  Homed'
  BY <1>HomedStays, Zenon DEF Homed

\* A step of request r on VM i.
<1>FFrame. ASSUME TypeInv, FInv, Homed', NEW r \in Reqs, NEW i \in Ids, Others(r),
                  \A q \in Reqs : q # r /\ Early(q) => req[q].id # i,
                  req'[r].op \notin {"delete", "rollback"}, req'[r].id \in {i, None},
                  \A j \in Ids : j # i => Tame(j), Cold(i)',
                  SnapKept(i) \/ Sole(r, i),
                  req'[r].pc # "idle" => req'[r].id = i,
                  Early(r)' => /\ vms'[i].state = "absent" /\ disk'[i].meta.state # "sleeping"
                               /\ Sole(r, i),
                  Slept(r)' => disk'[i].snap # "none"
           PROVE  FInv'
  <2> USE <1>FFrame, Zenon
  <2>1. ASSUME NEW q \in Reqs, q # r
        PROVE  /\ req'[q].op \notin {"delete", "rollback"}
               /\ Early(q)' => /\ vms'[req'[q].id].state = "absent"
                               /\ disk'[req'[q].id].meta.state # "sleeping"
                               /\ Sole(q, req[q].id)'
               /\ Slept(q)' => disk'[req'[q].id].snap # "none"
    <3> USE <2>1
    <3>1. req'[q] = req[q]
      BY DEF Others
    <3>2. ASSUME Early(q)' PROVE /\ vms'[req'[q].id].state = "absent"
                                 /\ disk'[req'[q].id].meta.state # "sleeping"
                                 /\ Sole(q, req[q].id)'
      <4>1. Early(q)
        BY <3>1, <3>2 DEF Early
      <4>2. req[q].pc # "idle"
        BY <4>1, SMT DEF Early
      <4>3. req[q].id \in Ids /\ req[q].id # i
        BY <4>1, <4>2 DEF TypeInv, RequestsOK
      <4>4. Tame(req[q].id)
        BY <4>3, SMT
      <4>5. ASSUME NEW s \in Reqs, s # q PROVE req'[s].id # req[q].id
        <5>1. CASE s = r
          BY <4>3, <5>1, NoneNoVm, SMT
        <5>2. CASE s # r
          BY <4>1, <4>5, <5>2, ZenonT(30) DEF FInv, Sole, Others
        <5> QED BY <5>1, <5>2, SMT
      <4>6. Sole(q, req[q].id)'
        BY <3>1, <4>5 DEF Sole
      <4>7. vms[req[q].id].state = "absent" /\ disk[req[q].id].meta.state # "sleeping"
        BY <4>1 DEF FInv
      <4> QED BY <3>1, <4>4, <4>6, <4>7 DEF Tame
    <3>3. ASSUME Slept(q)' PROVE disk'[req'[q].id].snap # "none"
      <4>1. Slept(q)
        BY <3>1, <3>3 DEF Slept
      <4>2. req[q].pc # "idle"
        BY <4>1 DEF Slept
      <4>3. req[q].id \in Ids /\ disk[req[q].id].snap # "none"
        BY <4>1, <4>2 DEF TypeInv, RequestsOK, FInv
      <4>4. SnapKept(req[q].id)
        BY <4>3 DEF Tame, Sole
      <4> QED BY <3>1, <4>3, <4>4 DEF SnapKept
    <3> QED BY <3>1, <3>2, <3>3 DEF FInv
  <2>2. /\ Early(r)' => /\ vms'[req'[r].id].state = "absent"
                        /\ disk'[req'[r].id].meta.state # "sleeping"
                        /\ Sole(r, req[r].id)'
        /\ Slept(r)' => disk'[req'[r].id].snap # "none"
    <3>1. Early(r)' \/ Slept(r)' => req'[r].id = i
      BY DEF Early, Slept
    <3>2. Sole(r, i) /\ req'[r].id = i => Sole(r, req[r].id)'
      BY DEF Sole, Others
    <3> QED BY <3>1, <3>2
  <2>3. \A j \in Ids : Cold(j)'
    BY <1>TameCold DEF FInv
  <2> QED BY <2>1, <2>2, <2>3 DEF FInv

\* The request at work, and the other requests on its VM.
<1>FAtWork. ASSUME TypeInv, Placed, FInv, NEW r \in Reqs, req[r].pc # "idle"
            PROVE  \E x \in Request, i \in Ids :
                      /\ x = req[r] /\ i = x.id /\ Fits(x.op, x.pc) /\ x.op \notin {"delete", "rollback"}
                      /\ \A q \in Reqs : q # r /\ Early(q) => req[q].id # i
                      /\ Early(r) => /\ vms[i].state = "absent" /\ disk[i].meta.state # "sleeping"
                                     /\ Sole(r, i)
                      /\ Slept(r) => disk[i].snap # "none"
  <2> USE <1>FAtWork, Zenon
  <2>1. req[r] \in Request /\ req[r].id \in Ids /\ Fits(req[r].op, req[r].pc)
    BY DEF TypeInv, RequestsOK, Placed
  <2>2. \A q \in Reqs : q # r /\ Early(q) => req[q].id # req[r].id
    BY DEF FInv, Sole
  <2> QED BY <2>1, <2>2 DEF FInv

\* A request that goes on over tame VMs.
<1>FGoes. ASSUME TypeInv, Placed, FInv, Homed', NEW r \in Reqs, req[r].pc # "idle", \A j \in Ids : Tame(j),
                 Others(r), req'[r].op = req[r].op, req'[r].id = req[r].id,
                 Early(r)' => Early(r), Slept(r)' => Slept(r) \/ disk'[req[r].id].snap # "none"
          PROVE  FInv'
  <2> USE <1>FGoes, Zenon
  <2> PICK x \in Request, i \in Ids :
                /\ x = req[r] /\ i = x.id /\ Fits(x.op, x.pc) /\ x.op \notin {"delete", "rollback"}
                /\ \A q \in Reqs : q # r /\ Early(q) => req[q].id # i
                /\ Early(r) => /\ vms[i].state = "absent" /\ disk[i].meta.state # "sleeping"
                               /\ Sole(r, i)
                /\ Slept(r) => disk[i].snap # "none"
    BY <1>FAtWork
  <2>2. Cold(i)'
    BY <1>TameCold DEF FInv
  <2>3. Tame(i)
    BY SMT
  <2>4. /\ Early(r)' => vms'[i].state = "absent" /\ disk'[i].meta.state # "sleeping" /\ Sole(r, i)
        /\ Slept(r)' => disk'[i].snap # "none"
        /\ SnapKept(i)
    BY <2>3 DEF Tame, SnapKept
  <2>5. req'[r].op \notin {"delete", "rollback"} /\ req'[r].id = i
    OBVIOUS
  <2> QED BY <2>2, <2>4, <2>5, <1>FFrame

\* A request that ends.
<1>FEnds. ASSUME TypeInv, FInv, Homed', NEW r \in Reqs, NEW i \in Ids, Done(r), \A j \in Ids : j # i => Tame(j),
                 \A q \in Reqs : q # r /\ Early(q) => req[q].id # i,
                 Cold(i)', SnapKept(i) \/ Sole(r, i)
          PROVE  FInv'
  <2> USE <1>FEnds
  <2>1. Others(r) /\ req'[r].op = "none" /\ req'[r].pc = "idle" /\ req'[r].id = None
    BY Zenon DEF Done, Others, Idle, TypeInv, RequestsOK
  <2>2. ~Early(r)' /\ ~Slept(r)'
    BY <2>1 DEF Early, Slept
  <2> QED BY <2>1, <2>2, <1>FFrame, Zenon

\* A step that leaves the records and the directories alone.
<1>AllTame. ASSUME \/ vms' = vms
                   \/ \A j \in Ids : vms'[j].state = vms[j].state,
                   disk' = disk
            PROVE  \A j \in Ids : Tame(j)
  BY <1>AllTame, Zenon DEF Tame, SnapKept

\* The steps of the requests.
<1>FSteps. ASSUME "fail" \notin Faults, TypeInv, Placed, FInv, NEW r \in Reqs, Step(r)
           PROVE  FInv'
  <2> USE <1>FSteps
  <2>0. req[r].pc # "idle"
    BY Zenon DEF Step, PrepareDir, ClaimSlot, TapFails, Spawn, SpawnFails, Boot, BootFails, Publish, MarkFailed,
           RecordPid, RecordState, ClearPid, SleepKill, Terminate, StopWaited, FreeSlot, RemoveDir, RemoveRecord,
           PatchVm, Snapshot, Thaw, FcCallFails, ForkLooks, StopLooks, CopyParent, Register, SaveMeta, Commit, At
  <2> PICK x \in Request, i \in Ids :
                /\ x = req[r] /\ i = x.id /\ Fits(x.op, x.pc) /\ x.op \notin {"delete", "rollback"}
                /\ \A q \in Reqs : q # r /\ Early(q) => req[q].id # i
                /\ Early(r) => /\ vms[i].state = "absent" /\ disk[i].meta.state # "sleeping"
                               /\ Sole(r, i)
                /\ Slept(r) => disk[i].snap # "none"
    BY <2>0, <1>FAtWork, Zenon
  <2>2. /\ Early(r) <=> x.op = "fork" /\ x.pc \in {"look", "patch", "snapshot", "thaw", "copy", "register"}
        /\ Slept(r) <=> x.op = "sleep" /\ x.pc \in {"clearpid", "kill", "setstate"}
    BY Zenon DEF Early, Slept
  <2>3. Homed /\ Cold(i) /\ \A j \in Ids : Cold(j)
    BY Zenon DEF FInv
  <2>4. fc' = fc => NoneBorn
    BY Zenon DEF NoneBorn
  <2>5. ASSUME NoneBorn, \A j \in Ids : disk[j].here => disk'[j].here PROVE Homed'
    BY <2>3, <2>5, <1>HomedStays, Zenon DEF NoneBorn
  <2>6. ASSUME NEW l, Goto(r, l)
        PROVE  /\ Others(r) /\ req'[r].pc = l /\ req'[r].op = x.op /\ req'[r].id = i
               /\ Early(r)' <=> x.op = "fork" /\ l \in {"look", "patch", "snapshot", "thaw", "copy", "register"}
               /\ Slept(r)' <=> x.op = "sleep" /\ l \in {"clearpid", "kill", "setstate"}
    BY <2>6, GotoMoves, Zenon DEF Early, Slept
  <2>7. ASSUME NEW l, Goto(r, l), NoneBorn, \A j \in Ids : Tame(j),
               l \notin {"look", "patch", "snapshot", "thaw", "copy", "register"} \/ Early(r) \/ x.op # "fork",
               l \notin {"clearpid", "kill", "setstate"} \/ Slept(r) \/ x.op # "sleep"
        PROVE  FInv'
    <3> USE <2>7, Zenon
    <3>1. Homed'
      BY <2>5 DEF Tame
    <3>2. req[r].op = x.op /\ req[r].id = i
      OBVIOUS
    <3> QED BY <2>0, <2>6, <3>1, <3>2, <1>FGoes
  <2>8. ASSUME Done(r), NoneBorn, \A j \in Ids : Tame(j) PROVE FInv'
    <3> USE <2>8, Zenon
    <3>1. Homed'
      BY <2>5 DEF Tame
    <3>2. Cold(i)' /\ SnapKept(i)
      BY <2>3, <1>TameCold DEF Tame
    <3> QED BY <3>1, <3>2, <1>FEnds
  \* A step on the record or the directory of i alone.
  <2>9. ASSUME NEW l, Goto(r, l), l \notin {"look", "patch", "snapshot", "thaw", "copy", "register"} \/ x.op # "fork",
               l \notin {"clearpid", "kill", "setstate"} \/ x.op # "sleep",
               Homed', \A j \in Ids : j # i => Tame(j), Cold(i)', SnapKept(i) \/ Sole(r, i)
        PROVE  FInv'
    <3> USE <2>9
    <3>1. ~Early(r)' /\ ~Slept(r)' /\ Others(r) /\ req'[r].op = x.op /\ req'[r].id = i
      BY <2>6, Zenon
    <3> QED BY <3>1, <1>FFrame, Zenon
  <2>10. CASE PrepareDir(r)
    <3> USE <2>10
    <3>1. \A j \in Ids : Tame(j)
      BY DEF PrepareDir, Tame, SnapKept, TypeInv, StoreOK, Directory
    <3>2. fc' = fc /\ (Goto(r, "slot") \/ Goto(r, "fail"))
      BY Zenon DEF PrepareDir
    <3> QED BY <2>4, <2>7, <3>1, <3>2, ZenonT(30)
  <2>11. CASE ClaimSlot(r)
    <3> USE <2>11
    <3>1. vms' = vms /\ disk' = disk /\ fc' = fc
      BY Zenon DEF ClaimSlot
    <3>2. \A j \in Ids : Tame(j)
      BY <3>1, <1>AllTame
    <3>3. ASSUME NEW s, req' = [req EXCEPT ![r].slot = s, ![r].pc = "spawn"] PROVE FInv'
      <4>1. Others(r) /\ req'[r].pc = "spawn" /\ req'[r].op = x.op /\ req'[r].id = x.id
        BY <3>3 DEF Others, TypeInv, RequestsOK, Request
      <4>2. ~Early(r)' /\ ~Slept(r)'
        BY <4>1, Zenon DEF Early, Slept
      <4>3. Homed'
        BY <2>4, <2>5, <3>1, Zenon
      <4> QED BY <2>0, <3>2, <4>1, <4>2, <4>3, <1>FGoes, Zenon
    <3>4. Goto(r, "fail") \/ Done(r) => FInv'
      BY <2>4, <2>7, <2>8, <3>1, <3>2, Zenon
    <3> QED BY <3>3, <3>4, Zenon DEF ClaimSlot
  <2>12. CASE SpawnFails(r) \/ BootFails(r)
    <3> USE <2>12
    <3>1. vms' = vms /\ disk' = disk /\ (Goto(r, "fail") \/ Done(r))
      BY Zenon DEF SpawnFails, BootFails
    <3>2. \A j \in Ids : Tame(j)
      BY <3>1, <1>AllTame
    <3>3. NoneBorn
      <4>1. x.pid = None \/ x.pid \in Pids
        BY Zenon DEF Request
      <4> QED BY <2>4, <4>1, KillsOnly, Zenon DEF SpawnFails, BootFails
    <3> QED BY <2>7, <2>8, <3>1, <3>2, <3>3
  <2>13. CASE Spawn(r)
    <3> USE <2>13
    <3> PICK p \in Pids : /\ fc' = [fc EXCEPT ![p] = [dir |-> i, live |-> TRUE, paused |-> FALSE,
                                                       term |-> FALSE, child |-> TRUE]]
                            /\ req' = [req EXCEPT ![r].pid = p, ![r].pc = "boot"]
      BY Zenon DEF Spawn
    <3>2. Others(r) /\ req'[r].pc = "boot" /\ req'[r].op = x.op /\ req'[r].id = x.id
      BY DEF Others, TypeInv, RequestsOK, Request
    <3>3. ~Early(r)' /\ ~Slept(r)'
      BY <3>2 DEF Early, Slept
    <3>4. vms' = vms /\ disk' = disk /\ disk[i].here
      BY Zenon DEF Spawn
    <3>5. Homed'
      <4> SUFFICES ASSUME NEW q \in Pids, fc'[q].live PROVE fc'[q].dir \in Ids /\ disk'[fc'[q].dir].here
        BY Zenon DEF Homed
      <4>1. CASE q = p
        BY <3>4, <4>1 DEF TypeInv, StoreOK
      <4>2. CASE q # p
        BY <2>3, <3>4, <4>2 DEF TypeInv, StoreOK, Homed
      <4> QED BY <4>1, <4>2
    <3>6. \A j \in Ids : Tame(j)
      BY <3>4, <1>AllTame
    <3> QED BY <2>0, <3>2, <3>3, <3>5, <3>6, <1>FGoes, Zenon
  <2>14. CASE Boot(r)
    <3> USE <2>14
    <3>1. \A j \in Ids : Tame(j)
      BY DEF Boot, Tame, SnapKept, TypeInv, StoreOK, Directory
    <3>2. fc' = fc /\ (Goto(r, "publish") \/ Goto(r, "setpid"))
      BY Zenon DEF Boot
    <3> QED BY <2>4, <2>7, <3>1, <3>2, Zenon
  <2>15. CASE Publish(r) \/ MarkFailed(r) \/ RecordState(r)
    <3> USE <2>15
    <3>0. disk' = disk /\ fc' = fc
      BY Zenon DEF Publish, MarkFailed, RecordState
    <3>1. \A j \in Ids : j # i => Tame(j)
      <4>1. \A j \in Ids : j # i => vms'[j] = vms[j]
        BY DEF Publish, MarkFailed, RecordState, SetState, TypeInv, StoreOK
      <4> QED BY <3>0, <4>1, Zenon DEF Tame, SnapKept
    <3>2. Cold(i)' /\ SnapKept(i)
      <4>1. \/ vms'[i].state = vms[i].state \/ vms'[i].state # "sleeping"
            \/ RecordState(r) /\ Goal(x.op) = "sleeping"
        BY DEF Publish, MarkFailed, RecordState, SetState, TypeInv, StoreOK, Vm
      <4>2. Goal(x.op) = "sleeping" => x.op = "sleep"
        BY DEF Goal
      <4>3. RecordState(r) /\ x.op = "sleep" => disk[i].snap # "none"
        BY <2>2, Zenon DEF RecordState, At
      <4> QED BY <2>3, <3>0, <4>1, <4>2, <4>3, Zenon DEF Cold, SnapKept
    <3>3. Homed'
      BY <2>4, <2>5, <3>0, Zenon
    <3>4. \/ Done(r) \/ Goto(r, "meta")
          \/ Goto(r, "clearpid") /\ x.op # "sleep"
      BY Zenon DEF Publish, MarkFailed, RecordState, IsDelete
    <3> QED BY <2>9, <3>1, <3>2, <3>3, <3>4, <1>FEnds, Zenon
  <2>16. CASE RecordPid(r) \/ ClearPid(r)
    <3> USE <2>16
    <3>1. \A j \in Ids : vms'[j].state = vms[j].state
      BY DEF RecordPid, ClearPid, SetPid, TypeInv, StoreOK, Vm
    <3>2. disk' = disk /\ fc' = fc
      BY Zenon DEF RecordPid, ClearPid
    <3>3. \A j \in Ids : Tame(j)
      BY <3>1, <3>2, <1>AllTame
    <3>4. \/ Goto(r, "setstate") /\ x.op # "sleep"
          \/ Goto(r, "kill") /\ (x.op = "sleep" => Slept(r))
      BY <2>2, Zenon DEF RecordPid, ClearPid, At, Fits
    <3> QED BY <2>4, <2>7, <3>2, <3>3, <3>4
  <2>17. CASE SleepKill(r) \/ Terminate(r) \/ StopWaited(r)
    <3> USE <2>17
    <3>1. vms' = vms /\ disk' = disk
      BY Zenon DEF SleepKill, Terminate, StopWaited
    <3>2. \A j \in Ids : Tame(j)
      BY <3>1, <1>AllTame, Zenon
    <3>3. NoneBorn
      <4>1. x.pid = None \/ x.pid \in Pids
        BY Zenon DEF Request
      <4>2. Terminate(r) => NoneBorn
        BY <4>1 DEF Terminate, NoneBorn, TypeInv, StoreOK, Process
      <4> QED BY <2>4, <4>1, <4>2, KillsOnly, Zenon DEF SleepKill, StopWaited
    <3>4. \/ Goto(r, "setstate") /\ Slept(r)
          \/ Goto(r, "wait") \/ Goto(r, "unslot") \/ Done(r)
      BY <2>2 DEF SleepKill, Terminate, StopWaited, At
    <3> QED BY <2>7, <2>8, <3>2, <3>3, <3>4, Zenon
  <2>18. CASE FreeSlot(r) \/ RemoveDir(r) \/ RemoveRecord(r) \/ StopLooks(r)
    BY <2>18 DEF FreeSlot, RemoveDir, RemoveRecord, StopLooks, At, Fits
  <2>19. CASE PatchVm(r) \/ ForkLooks(r) \/ FcCallFails(r) \/ Commit(r)
    <3> USE <2>19
    <3>1. vms' = vms /\ disk' = disk
      BY Zenon DEF PatchVm, ForkLooks, FcCallFails, Commit
    <3>2. \A j \in Ids : Tame(j)
      BY <3>1, <1>AllTame, Zenon
    <3>3. NoneBorn
      <4>1. PatchVm(r) => NoneBorn
        BY DEF PatchVm, NoneBorn, TypeInv, StoreOK, Process
      <4> QED BY <2>4, <4>1, Zenon DEF ForkLooks, FcCallFails, Commit
    <3>4. \/ Done(r)
          \/ Goto(r, "setstate") /\ x.op # "sleep"
          \/ Goto(r, "snapshot") /\ (x.op = "fork" => Early(r))
          \/ Early(r) /\ (Goto(r, "copy") \/ Goto(r, "patch"))
      BY <2>2 DEF PatchVm, ForkLooks, FcCallFails, Commit, At, Fits
    <3> QED BY <2>7, <2>8, <3>2, <3>3, <3>4, Zenon
  <2>20. CASE Snapshot(r) \/ Thaw(r)
    <3> USE <2>20
    <3>1. \A j \in Ids : Tame(j)
      BY DEF Snapshot, Thaw, Tame, SnapKept, TypeInv, StoreOK, Directory
    <3>2. NoneBorn
      <4>1. Thaw(r) => NoneBorn
        BY DEF Thaw, NoneBorn, TypeInv, StoreOK, Process
      <4> QED BY <2>4, <4>1, Zenon DEF Snapshot
    <3>3. CASE x.op = "fork"
      <4>1. Early(r) /\ (Goto(r, "thaw") \/ Goto(r, "copy"))
        BY <2>2, <3>3 DEF Snapshot, Thaw, At
      <4> QED BY <2>7, <3>1, <3>2, <4>1, Zenon
    <3>4. CASE x.op # "fork"
      <4>1. Snapshot(r) /\ x.op = "sleep" /\ Goto(r, "clearpid") /\ Subject(r) = i
        BY <3>4 DEF Snapshot, Thaw, At, Fits, Subject
      <4>2. disk[i].here
        BY <2>3, <4>1, Zenon DEF Snapshot, Answers, Homed
      <4>3. disk'[i].snap # "none"
        BY <4>1, <4>2 DEF Snapshot, TypeInv, StoreOK, Directory
      <4>4. Homed'
        BY <2>5, <3>1, <3>2, Zenon DEF Tame
      <4>5. Early(r)' => Early(r)
        BY <2>6, <4>1, Zenon
      <4> QED BY <2>0, <2>6, <3>1, <4>1, <4>3, <4>4, <4>5, <1>FGoes, Zenon
    <3> QED BY <3>3, <3>4, Zenon
  <2>21. CASE CopyParent(r) \/ Register(r)
    <3> USE <2>21
    <3>1. Early(r) /\ x.op = "fork"
      BY <2>2 DEF CopyParent, Register, At, Fits
    <3>2. \A j \in Ids : j # i => vms'[j] = vms[j] /\ disk'[j] = disk[j]
      BY DEF CopyParent, Register, TypeInv, StoreOK
    <3>3. \A j \in Ids : j # i => Tame(j)
      BY <3>2, Zenon DEF Tame, SnapKept
    <3>4. /\ vms'[i].state = IF CopyParent(r) THEN "absent" ELSE "creating"
          /\ disk[i].here => disk'[i].here
          /\ disk'[i].meta.state # "sleeping"
          /\ fc' = fc
      <4>1. CASE CopyParent(r)
        <5> USE <4>1
        <5>1. vms' = vms /\ fc' = fc
          BY Zenon DEF CopyParent
        <5>2. disk'[i].here /\ disk'[i].meta = NoVm
          BY Zenon DEF CopyParent, NoDir, TypeInv, StoreOK
        <5> QED BY <3>1, <5>1, <5>2 DEF NoVm
      <4>2. CASE Register(r) /\ ~CopyParent(r)
        <5> USE <4>2
        <5>1. disk' = disk /\ fc' = fc
          BY Zenon DEF Register
        <5>2. vms'[i].state = "creating"
          BY DEF Register, NoVm, TypeInv, StoreOK
        <5> QED BY <3>1, <5>1, <5>2, Zenon
      <4> QED BY <4>1, <4>2, Zenon
    <3>5. Cold(i)'
      BY <3>4, Zenon DEF Cold
    <3>6. Homed'
      BY <2>4, <2>5, <3>2, <3>4, Zenon
    <3>7. ASSUME Goto(r, "register"), CopyParent(r) PROVE FInv'
      <4> USE <3>7
      <4>1. vms'[i].state = "absent"
        BY <3>4, Zenon
      <4>2. Others(r) /\ req'[r].op = x.op /\ req'[r].id = i /\ ~Slept(r)'
        BY <2>6, <3>1, Zenon
      <4> QED BY <3>1, <3>3, <3>4, <3>5, <3>6, <4>1, <4>2, <1>FFrame, Zenon
    <3>8. Goto(r, "slot") => FInv'
      BY <2>9, <3>1, <3>3, <3>5, <3>6, Zenon
    <3>9. Done(r) => FInv'
      BY <3>1, <3>3, <3>5, <3>6, <1>FEnds, Zenon
    <3> QED BY <3>7, <3>8, <3>9, Zenon DEF CopyParent, Register
  <2>22. CASE SaveMeta(r)
    <3> USE <2>22, Zenon
    <3>1. /\ vms' = vms /\ fc' = fc
          /\ \A j \in Ids : j # i => disk'[j] = disk[j]
          /\ disk'[i].here = disk[i].here /\ disk'[i].snap = disk[i].snap
          /\ disk'[i].meta = IF disk[i].here THEN vms[i] ELSE disk[i].meta
      BY SMT DEF SaveMeta, WriteMeta, TypeInv, StoreOK, Directory
    <3>2. Cold(i)' /\ SnapKept(i)
      BY <2>3, <3>1 DEF Cold, SnapKept
    <3>3. \A j \in Ids : j # i => Tame(j)
      BY <3>1 DEF Tame, SnapKept
    <3>4. Homed'
      BY <2>4, <2>5, <3>1
    <3>5. Goto(r, "commit") \/ Goto(r, "fail") \/ Done(r)
      BY DEF SaveMeta
    <3> QED BY <2>9, <3>2, <3>3, <3>4, <3>5, <1>FEnds
  <2> QED BY <2>10, <2>11, <2>12, <2>13, <2>14, <2>15, <2>16, <2>17, <2>18, <2>19, <2>20, <2>21, <2>22,
          Zenon DEF Step, TapFails

\* on_fc_exit writes an error over a record that had a process.
<1>FExits. ASSUME TypeInv, FInv, Homed', NEW i, NEW p, OnFcExit(i, p), req' = req
           PROVE  FInv'
  <2> USE <1>FExits
  <2>1. ASSUME NEW j \in Ids
        PROVE  /\ vms'[j].state = vms[j].state \/ (vms'[j].state = "error" /\ vms[j].state # "absent")
               /\ disk'[j].meta.state \in {disk[j].meta.state, "error"}
               /\ disk'[j].here = disk[j].here /\ disk'[j].snap = disk[j].snap
    <3>1. CASE vms' = vms /\ disk' = disk
      BY <3>1, Zenon
    <3>2. CASE ~(vms' = vms /\ disk' = disk)
      <4> PICK vm : vm = [vms[i] EXCEPT !.state = "error", !.pid = None]
        OBVIOUS
      <4>2. vms' = [vms EXCEPT ![i] = vm] /\ WriteMeta(i, vm) /\ HasProcess(vms[i].state)
        BY <3>2, Zenon DEF OnFcExit
      <4>3. CASE j = i
        <5> USE <4>3
        <5>1. vms[i] \in Vm
          BY DEF TypeInv, StoreOK
        <5>2. vm.state = "error"
          BY <5>1 DEF Vm
        <5>3. vms[i].state # "absent"
          BY <4>2 DEF HasProcess
        <5> QED BY <4>2, <5>2, <5>3 DEF WriteMeta, TypeInv, StoreOK, Directory
      <4>4. CASE j # i
        BY <4>2, <4>4 DEF WriteMeta, TypeInv, StoreOK, Directory
      <4> QED BY <4>3, <4>4
    <3> QED BY <3>1, <3>2
  <2>2. \A j \in Ids : Cold(j)'
    <3> SUFFICES ASSUME NEW j \in Ids PROVE Cold(j)'
      OBVIOUS
    <3>1. Cold(j)
      BY Zenon DEF FInv
    <3> QED BY <2>1, <3>1, Zenon DEF Cold
  <2>3. ASSUME NEW r \in Reqs
        PROVE  /\ req'[r].op \notin {"delete", "rollback"}
               /\ Early(r)' => /\ vms'[req'[r].id].state = "absent"
                               /\ disk'[req'[r].id].meta.state # "sleeping"
                               /\ Sole(r, req[r].id)'
               /\ Slept(r)' => disk'[req'[r].id].snap # "none"
    <3>1. /\ Early(r)' <=> Early(r)
          /\ Slept(r)' <=> Slept(r)
          /\ Sole(r, req[r].id)' <=> Sole(r, req[r].id)
      BY Zenon DEF Early, Slept, Sole
    <3>2. Early(r) \/ Slept(r) => req[r].pc # "idle"
      BY DEF Early, Slept
    <3>3. Early(r) \/ Slept(r) => req[r].id \in Ids
      BY <3>2, Zenon DEF TypeInv, RequestsOK
    <3>4. /\ req[r].op \notin {"delete", "rollback"}
          /\ Early(r) => /\ vms[req[r].id].state = "absent"
                         /\ disk[req[r].id].meta.state # "sleeping"
                         /\ Sole(r, req[r].id)
          /\ Slept(r) => disk[req[r].id].snap # "none"
      BY Zenon DEF FInv
    <3>5. CASE Early(r)
      <4> USE <3>5
      <4>1. ~Slept(r)
        BY DEF Early, Slept
      <4> QED BY <2>1, <3>1, <3>3, <3>4, <4>1, Zenon
    <3>6. CASE Slept(r)
      <4> USE <3>6
      <4>1. ~Early(r)
        BY DEF Early, Slept
      <4> QED BY <2>1, <3>1, <3>3, <3>4, <4>1, Zenon
    <3> QED BY <3>1, <3>4, <3>5, <3>6, Zenon
  <2> QED BY <2>2, <2>3, Zenon DEF FInv

\* The requests a client sends.
<1>FBegins. ASSUME "delete" \notin Ops, TypeInv, Placed, FInv, NEW r \in Reqs, NEW i \in Ids, Begin(r, i)
            PROVE  FInv'
  <2> USE <1>FBegins
  <2>1. disk' = disk /\ fc' = fc
    BY Zenon DEF Begin, Create, Start, Wake, Sleep, Pause, Resume, Stop, Delete, BeginCapture, Fork
  <2>2. Homed' /\ \A j \in Ids : Cold(j)
    BY <2>1, Zenon DEF Homed, FInv
  <2>3. ASSUME NEW j \in Ids, Exists(j) \/ ~Busy(j) PROVE \A q \in Reqs : q # r /\ Early(q) => req[q].id # j
    BY <2>3, Zenon DEF FInv, Exists, Busy
  <2>4. ASSUME vms' = vms, Exists(i), NEW op, NEW l, NEW pid, NEW slot, Enter(r, op, i, l, pid, slot),
               op \notin {"fork", "delete", "rollback"}, op # "sleep" \/ l = "patch"
        PROVE  FInv'
    <3> USE <2>4
    <3>1. Others(r) /\ req'[r].pc = l /\ req'[r].op = op /\ req'[r].id = i
      BY Zenon DEF Enter, Others, TypeInv, RequestsOK
    <3>2. ~Early(r)' /\ ~Slept(r)'
      BY <3>1, Zenon DEF Early, Slept
    <3>3. \A j \in Ids : Tame(j)
      BY <2>1, <1>AllTame
    <3>4. Cold(i)' /\ SnapKept(i)
      BY <2>2, <3>3, <1>TameCold, Zenon DEF Tame
    <3> QED BY <2>2, <2>3, <3>1, <3>2, <3>3, <3>4, <1>FFrame, Zenon
  <2>5. CASE Create(r, i)
    <3> USE <2>5
    <3>1. Others(r) /\ req'[r].pc = "image" /\ req'[r].op = "create" /\ req'[r].id = i
      BY DEF Create, Enter, Others, TypeInv, RequestsOK
    <3>2. ~Early(r)' /\ ~Slept(r)'
      BY <3>1 DEF Early, Slept
    <3>3. /\ \A j \in Ids : j # i => vms'[j] = vms[j]
          /\ vms'[i].state = "creating"
      BY DEF Create, NoVm, TypeInv, StoreOK
    <3>4. \A j \in Ids : j # i => Tame(j)
      BY <2>1, <3>3, Zenon DEF Tame, SnapKept
    <3>5. Cold(i)' /\ SnapKept(i)
      BY <2>1, <2>2, <3>3 DEF Create, Unused, Cold, SnapKept
    <3> QED BY <2>2, <2>3, <3>1, <3>2, <3>4, <3>5, <1>FFrame DEF Create, Unused
  <2>6. ASSUME NEW c \in Ids, Fork(r, i, c) PROVE FInv'
    <3> USE <2>6, Zenon
    <3>1. Others(r) /\ req'[r].pc = "look" /\ req'[r].op = "fork" /\ req'[r].id = c
      BY DEF Fork, Others, TypeInv, RequestsOK
    <3>2. ~Slept(r)'
      BY <3>1, SMT DEF Slept
    <3>3. vms' = vms /\ ~Exists(c) /\ ~Busy(c) /\ ~disk[c].here
      BY DEF Fork, Unused
    <3>4. \A j \in Ids : Tame(j)
      BY <2>1, <3>3, <1>AllTame, SMT
    <3>5. Cold(c)' /\ SnapKept(c)
      BY <2>2, <3>4, <1>TameCold DEF Tame
    <3>6. vms'[c].state = "absent" /\ disk'[c].meta.state # "sleeping" /\ Sole(r, c)
      BY <2>1, <2>2, <3>3 DEF Exists, Cold, Busy, Sole
    <3> QED BY <2>2, <2>3, <3>1, <3>2, <3>3, <3>4, <3>5, <3>6, <1>FFrame
  <2>7. ~Delete(r, i)
    BY Zenon DEF Delete, Admit
  <2>8. CASE Start(r, i) \/ Wake(r, i) \/ Sleep(r, i)
    <3> USE <2>8
    <3>1. Exists(i) /\ vms' = vms
      BY Zenon DEF Start, Wake, Sleep, Exists
    <3> QED BY <2>4, <3>1 DEF Start, Wake, Sleep
  <2>9. CASE Pause(r, i) \/ Resume(r, i)
    <3> USE <2>9
    <3>1. Exists(i) /\ vms' = vms
      BY Zenon DEF Pause, Resume, Exists
    <3> QED BY <2>4, <3>1, Zenon DEF Pause, Resume
  <2>10. CASE Stop(r, i) \/ BeginCapture(r, i)
    <3> USE <2>10
    <3>1. Exists(i) /\ vms' = vms
      BY DEF Stop, BeginCapture, Exists
    <3> QED BY <2>4, <3>1 DEF Stop, BeginCapture
  <2> QED BY <2>5, <2>6, <2>7, <2>8, <2>9, <2>10, Zenon DEF Begin

<1>0. ASSUME NoneBorn, \A j \in Ids : disk[j].here => disk'[j].here PROVE Homed'
  BY <1>0, <1>HomedStays, Zenon DEF NoneBorn, FInv
<1>1. ASSUME NEW r \in Reqs, EndCapture(r) \/ Cancel(r) PROVE FInv'
  <2>1. vms' = vms /\ disk' = disk /\ fc' = fc /\ Done(r) /\ req[r].pc # "idle"
    <3>1. Cancel(r) => req[r].pc # "idle"
      BY DEF Cancel, Placed
    <3> QED BY <1>1, <3>1 DEF EndCapture, Cancel, At
  <2>2. \A j \in Ids : Tame(j)
    BY <2>1, <1>AllTame
  <2>3. Homed'
    BY <1>0, <2>1 DEF NoneBorn
  <2>4. PICK i \in Ids : \A q \in Reqs : q # r /\ Early(q) => req[q].id # i
    BY <2>1, <1>FAtWork, Zenon
  <2>5. Cold(i)' /\ SnapKept(i)
    BY <2>2, <1>TameCold, Zenon DEF Tame, FInv
  <2> QED BY <2>1, <2>2, <2>3, <2>4, <2>5, <1>FEnds, Zenon
<1>2. ASSUME NEW p \in Pids, FcExits(p) PROVE FInv'
  <2>1. vms' = vms /\ disk' = disk /\ req' = req /\ Kill(p)
    BY <1>2, NoneNoVm, Zenon DEF FcExits, Kill
  <2>2. Homed'
    BY <1>0, <2>1, KillsOnly
  <2> QED BY <2>1, <2>2, Zenon DEF FInv, Cold, Early, Slept, Sole
<1>3. ASSUME NEW i, NEW p, OnFcExit(i, p), req' = req, NoneBorn PROVE FInv'
  <2> USE <1>3
  <2>1. \A j \in Ids : disk[j].here => disk'[j].here
    BY DEF OnFcExit, WriteMeta, TypeInv, StoreOK, Directory
  <2> QED BY <1>0, <2>1, <1>FExits
<1>4. ASSUME NEW p \in Pids, Reap(p) PROVE FInv'
  <2> USE <1>4
  <2>1. NoneBorn
    BY DEF Reap, Gone, NoneBorn, TypeInv, StoreOK
  <2> QED BY <1>3, <2>1, Zenon DEF Reap
<1>5. ASSUME NEW i \in Ids, SweepDead(i) PROVE FInv'
  <2> USE <1>5
  <2>1. NoneBorn
    BY Zenon DEF SweepDead, NoneBorn
  <2> QED BY <1>3, <2>1, Zenon DEF SweepDead
<1>6. CASE Restart \/ Reboot
  <2> USE <1>6
  <2>1. \A r \in Reqs : req'[r].pc = "idle" /\ req'[r].op = "none"
    BY DEF Restart, Reboot, Comeback, Idle
  <2>2. PICK alive : vms' = [i \in Ids |-> Reconciled(disk[i], alive)]
    BY Zenon DEF Restart, Reboot, Comeback
  <2>3. disk' = disk
    BY Zenon DEF Restart, Reboot, Comeback
  <2>4. ASSUME NEW i \in Ids PROVE Cold(i)'
    <3>1. vms'[i].state = "sleeping" => disk[i].meta.state = "sleeping" \/ disk[i].snap # "none"
      BY <2>2 DEF Reconciled
    <3>2. Cold(i)
      BY Zenon DEF FInv
    <3> QED BY <2>3, <3>1, <3>2 DEF Cold
  <2>5. NoneBorn
    BY DEF Restart, Reboot, Comeback, NoneBorn, Gone, TypeInv, StoreOK, Process
  <2>6. Homed'
    BY <1>0, <2>3, <2>5
  <2>7. \A r \in Reqs : ~Early(r)' /\ ~Slept(r)'
    BY <2>1 DEF Early, Slept
  <2> QED BY <2>1, <2>4, <2>6, <2>7, Zenon DEF FInv
<1>7. CASE UNCHANGED vars
  BY <1>7, Zenon DEF vars, FInv, Homed, Cold, Early, Slept, Sole
<1> QED BY <1>1, <1>2, <1>4, <1>5, <1>6, <1>7, <1>FBegins, <1>FSteps, Zenon DEF Next

\* While nothing is deleted and no step on the host fails, what sleeps, in the
\* manager or on disk, has its snapshot, however sleeps, wakes, forks, exits,
\* cancelled handlers and restarts cross, orderly or not.
THEOREM SleepersKeepSnapshots ==
    ASSUME "delete" \notin Ops, "fail" \notin Faults
    PROVE  Spec => []SleepingHasSnapshot
<1> DEFINE IInv == TypeInv /\ Placed /\ FInv
<1>1. Init => IInv
  <2> SUFFICES ASSUME Init PROVE Placed /\ FInv
    BY InitType, Zenon
  <2>1. \A r \in Reqs : req[r].pc = "idle" /\ req[r].op = "none"
    BY DEF Init, Idle
  <2>2. \A i \in Ids : vms[i].state = "absent" /\ disk[i].meta.state = "absent"
    BY DEF Init, NoVm, NoDir
  <2>3. \A p \in Pids : ~fc[p].live
    BY DEF Init, Gone
  <2>4. \A i \in Ids : Cold(i)
    BY <2>2 DEF Cold
  <2>5. \A r \in Reqs : ~Early(r) /\ ~Slept(r)
    BY <2>1 DEF Early, Slept
  <2> QED BY <2>1, <2>3, <2>4, <2>5 DEF Placed, FInv, Homed
<1>2. IInv /\ [Next]_vars => IInv'
  BY NextType, PlacedStep, FStep, Zenon
<1>3. IInv => SleepingHasSnapshot
  BY Zenon DEF FInv, Cold, SleepingHasSnapshot
<1> QED BY <1>1, <1>2, <1>3, PTL DEF Spec

----------------------------------------------------------------------------
(* Orderly callers and restarts.                                           *)

\* How a step changes the request that takes it.
Goes(r) == /\ Others(r)
           /\ \/ req'[r].pc = "idle" /\ req'[r].id = None /\ req'[r].src = None
              \/ /\ req'[r].pc # "idle" /\ req[r].pc # "idle" /\ req'[r].id = req[r].id
                 /\ req'[r].src \in {req[r].src, None}

\* A request that is done ends.
LEMMA DoneGoes == ASSUME TypeInv, NEW r \in Reqs, Done(r) PROVE Goes(r)
<1>1. req'[r] = Idle /\ Others(r)
  BY SMT DEF Done, Others, TypeInv, RequestsOK
<1>2. Idle.pc = "idle" /\ Idle.id = None /\ Idle.src = None
  BY SMT DEF Idle
<1> QED BY <1>1, <1>2, Zenon DEF Goes

\* A request goes on on its VM, or ends.
LEMMA Moves == ASSUME TypeInv, NEW r \in Reqs, Step(r) PROVE Goes(r)
<1> USE Zenon
<1>0. req[r].pc # "idle"
  BY DEF Step, PrepareDir, ClaimSlot, TapFails, Spawn, SpawnFails, Boot, BootFails, Publish,
     MarkFailed, RecordPid, RecordState, ClearPid, SleepKill, Terminate, StopWaited, FreeSlot,
     RemoveDir, RemoveRecord, PatchVm, Snapshot, Thaw, FcCallFails, ForkLooks, StopLooks, CopyParent,
     Register, SaveMeta, Commit, At
<1>1. Done(r) => Goes(r)
  BY DoneGoes
<1>2. ASSUME NEW l, Goto(r, l), l # "idle" PROVE Goes(r)
  BY <1>0, <1>2, GotoMoves DEF Goes
<1>3. ASSUME NEW p, NEW l, req' = [req EXCEPT ![r].pid = p, ![r].pc = l], l # "idle" PROVE Goes(r)
  BY <1>0, <1>3, SMT DEF Goes, Others, TypeInv, RequestsOK, Request
<1>4. ASSUME NEW s, req' = [req EXCEPT ![r].slot = s, ![r].pc = "spawn"] PROVE Goes(r)
  BY <1>0, <1>4, SMT DEF Goes, Others, TypeInv, RequestsOK, Request
<1>5. EnterDelete(r, "rollback", req[r].id) => Goes(r)
  BY <1>0, SMT DEF EnterDelete, Enter, Goes, Others, TypeInv, RequestsOK
<1>7. CASE \/ PrepareDir(r) \/ TapFails(r) \/ SpawnFails(r) \/ BootFails(r) \/ Publish(r) \/ MarkFailed(r)
           \/ RecordPid(r) \/ ClearPid(r) \/ SleepKill(r) \/ Terminate(r) \/ StopWaited(r)
  BY <1>1, <1>2, <1>7 DEF PrepareDir, TapFails, SpawnFails, BootFails, Publish, MarkFailed,
     RecordPid, ClearPid, SleepKill, Terminate, StopWaited
<1>8. CASE \/ FreeSlot(r) \/ RemoveDir(r) \/ RemoveRecord(r) \/ Thaw(r) \/ FcCallFails(r) \/ ForkLooks(r)
           \/ CopyParent(r) \/ Register(r) \/ SaveMeta(r)
  BY <1>1, <1>2, <1>8 DEF FreeSlot, RemoveDir, RemoveRecord, Thaw, FcCallFails, ForkLooks,
     CopyParent, Register, SaveMeta
<1>9. CASE Boot(r) \/ RecordState(r) \/ PatchVm(r)
  <2>1. \E l \in {"publish", "setpid", "clearpid", "meta", "snapshot", "setstate"} : Goto(r, l)
    BY <1>9, SMT DEF Boot, RecordState, PatchVm
  <2> QED BY <1>2, <2>1
<1>10. CASE Snapshot(r)
  <2>1. \E l \in {"clearpid", "thaw", "copy"} : Goto(r, l)
    BY <1>10, SMT DEF Snapshot
  <2> QED BY <1>2, <2>1
<1>11. CASE ClaimSlot(r)
  BY <1>1, <1>2, <1>4, <1>11 DEF ClaimSlot
<1>12. CASE Spawn(r) \/ StopLooks(r)
  BY <1>2, <1>3, <1>12 DEF Spawn, StopLooks
<1>13. CASE Commit(r)
  BY <1>1, <1>5, <1>13 DEF Commit
<1> QED BY <1>7, <1>8, <1>9, <1>10, <1>11, <1>12, <1>13 DEF Step

\* Orderly callers send one request at a time to a VM.
LEMMA TurnsStep ==
    ASSUME Orderly, TypeInv, Placed, Turns, [Next]_vars
    PROVE  Turns'
<1>0. \A r \in Reqs : req'[r].pc # "idle" => Fits(req[r].op, req[r].pc)'
  BY PlacedStep, Zenon DEF Placed
<1>1. ASSUME NEW r \in Reqs, Others(r),
             req'[r].pc = "idle" => req'[r].id = None /\ req'[r].src = None,
             req'[r].pc # "idle" => req'[r].id # req'[r].src,
             \A q \in Reqs : q # r => {req[r].id, req[r].src}' \cap {req[q].id, req[q].src} \subseteq {None}
      PROVE  Turns'
  <2> USE <1>1
  <2>1. \A q \in Reqs : q # r => req'[q] = req[q]
    BY Zenon DEF Others
  <2>2. \A q, s \in Reqs : q # s => {req[q].id, req[q].src}' \cap {req[s].id, req[s].src}' \subseteq {None}
    <3> SUFFICES ASSUME NEW q \in Reqs, NEW s \in Reqs, q # s
                 PROVE  {req[q].id, req[q].src}' \cap {req[s].id, req[s].src}' \subseteq {None}
      OBVIOUS
    <3>1. CASE q # r /\ s # r
      BY <2>1, <3>1, Zenon DEF Turns
    <3> QED BY <2>1, <3>1
  <2>3. \A q \in Reqs : /\ req'[q].pc = "idle" => req'[q].id = None /\ req'[q].src = None
                        /\ req'[q].pc # "idle" => req'[q].id # req'[q].src
    BY <2>1, Zenon DEF Turns
  <2> QED BY <1>0, <2>2, <2>3, Zenon DEF Turns
<1>2. ASSUME NEW r \in Reqs, Goes(r) PROVE Turns'
  <2> USE <1>2
  <2>1. \A q \in Reqs : q # r => {req[r].id, req[r].src}' \cap {req[q].id, req[q].src} \subseteq {None}
    BY SMT DEF Goes, Turns
  <2>2. req'[r].pc # "idle" => req'[r].id # req'[r].src
    <3>1. req[r].pc # "idle" => req[r].id \in Ids
      BY Zenon DEF TypeInv, RequestsOK
    <3> QED BY <3>1, NoneNoVm DEF Goes, Turns
  <2>3. Others(r) /\ (req'[r].pc = "idle" => req'[r].id = None /\ req'[r].src = None)
    BY Zenon DEF Goes
  <2> QED BY <1>1, <2>1, <2>2, <2>3, Zenon
<1>3. ASSUME NEW r \in Reqs, NEW i \in Ids, Begin(r, i) PROVE Turns'
  <2> USE <1>3
  <2>0. ~Busy(i)
    BY Zenon DEF Begin, Create, Start, Wake, Sleep, Pause, Resume, Stop, Delete, BeginCapture, Fork,
       Admit
  <2>1. ASSUME NEW op, NEW l, NEW pid, NEW slot, Enter(r, op, i, l, pid, slot), l # "idle" PROVE Turns'
    <3> USE <2>1
    <3>1. Others(r) /\ req'[r].pc = l /\ req'[r].id = i /\ req'[r].src = None
      BY DEF Enter, Others, TypeInv, RequestsOK
    <3>2. \A q \in Reqs : q # r => {req[r].id, req[r].src}' \cap {req[q].id, req[q].src} \subseteq {None}
      BY <2>0, <3>1, ZenonT(30) DEF Busy
    <3> QED BY <1>1, <3>1, <3>2, NoneNoVm
  <2>2. ASSUME NEW c \in Ids, Fork(r, i, c) PROVE Turns'
    <3> USE <2>2
    <3>1. Others(r) /\ req'[r].pc = "look" /\ req'[r].id = c /\ req'[r].src = i
      BY Zenon DEF Fork, Others, TypeInv, RequestsOK
    <3>2. ~Busy(c) /\ c # i
      BY Zenon DEF Fork, Unused
    <3>3. \A q \in Reqs : q # r => {req[r].id, req[r].src}' \cap {req[q].id, req[q].src} \subseteq {None}
      BY <2>0, <3>1, <3>2 DEF Busy
    <3> QED BY <1>1, <3>1, <3>2, <3>3, Zenon
  <2> QED BY <2>1, <2>2, EnterKinds
<1>4. ASSUME NEW r \in Reqs, EndCapture(r) \/ Cancel(r) PROVE Turns'
  <2>1. Goes(r)
    BY <1>4, DoneGoes, Zenon DEF EndCapture, Cancel
  <2> QED BY <1>2, <2>1
<1>5. CASE Restart \/ Reboot
  <2>1. \A r \in Reqs : req'[r].pc = "idle" /\ req'[r].id = None /\ req'[r].src = None
    BY <1>5 DEF Restart, Reboot, Comeback, Idle
  <2>2. \A q, s \in Reqs : {req[q].id, req[q].src}' \cap {req[s].id, req[s].src}' \subseteq {None}
    BY <2>1
  <2> QED BY <2>1, <2>2, Zenon DEF Turns
<1>6. CASE req' = req
  BY <1>6, Zenon DEF Turns
<1> QED BY <1>2, <1>3, <1>4, <1>5, <1>6, Moves, Zenon DEF Next, FcExits, Reap, SweepDead, vars

\* The states that reconcile brings back.
Kept(s) == s \in {"running", "paused", "sleeping"}

\* meta.json agrees with the record, or with one that reconcile made of it.
Matches(i) ==
    /\ vms[i].slot = disk[i].meta.slot
    /\ \/ /\ vms[i].state = disk[i].meta.state /\ vms[i].pid = disk[i].meta.pid
          /\ disk[i].meta.state = "sleeping" => disk[i].meta.pid = None
       \/ /\ vms[i].state = "sleeping" /\ vms[i].pid = None /\ disk[i].snap # "none"
          /\ Up(disk[i].meta.state) /\ disk[i].meta.pid # None /\ ~fc[disk[i].meta.pid].live

Saved(i) == Kept(vms[i].state) => Matches(i)

Grounded(i) == /\ Kept(vms[i].state) => disk[i].here
               /\ ~disk[i].here => disk[i].meta.state = "absent"
               /\ disk[i].meta.state = "sleeping" => disk[i].meta.pid = None

\* Where a request has changed the record and not yet saved it.
Dirty(x) == \/ x.pc = "meta"
            \/ x.op = "wake" /\ x.pc = "setstate"
            \/ x.op = "sleep" /\ x.pc \in {"kill", "setstate"}

\* A VM i, with the request x at work on it.
Safe(x, i) ==
    /\ Dirty(x) \/ Saved(i)
    /\ \/ x.op \in {"sleep", "pause", "resume"}
       \/ x.op \in {"start", "wake", "create", "fork"} /\ x.pc \in {"boot", "publish", "setpid", "setstate", "meta"}
       => disk[i].here
    /\ x.op \in {"stop", "delete", "rollback"} /\ x.pc \notin {"stop", "setstate"} => ~Kept(vms[i].state)
    /\ x.op \in {"create", "fork", "start"} /\ x.pc \notin {"meta", "commit"} => ~Kept(vms[i].state)
    /\ x.op = "sleep" /\ x.pc \in {"kill", "setstate"} /\ Exists(i) => vms[i].pid = None
    /\ x.pc = "meta" /\ vms[i].state = "sleeping" => vms[i].pid = None

\* The inductive invariant of orderly callers on an agent that restarts.
RInv == /\ \A i \in Ids : Grounded(i) /\ (~Worked(i) => Saved(i))
        /\ \A r \in Reqs : \A x \in {req[r]} : x.pc # "idle" => Safe(x, x.id)

\* The recorded process of VM j, if dead, stays dead.
StaysDead(j) == \A p \in {disk[j].meta.pid} : p # None /\ ~fc[p].live => ~fc'[p].live

\* What a step leaves as it is on VM j.
Still(j) == /\ vms'[j] = vms[j] /\ disk'[j].meta = disk[j].meta
            /\ disk[j].here => disk'[j].here
            /\ SnapKept(j) /\ StaysDead(j)

\* A stop or a delete that is killing the FC has given the record up.
LEMMA SafeInStop ==
    ASSUME NEW x, NEW i, Safe(x, i), Fits(x.op, x.pc), x.op # "sleep", x.pc \in {"kill", "wait", "unslot"}
    PROVE  Saved(i) /\ \A y : y.op = x.op /\ y.pc \in {"wait", "unslot", "remove"} => Safe(y, i)
<1>1. x.op \in {"stop", "delete", "rollback"}
  BY DEF Fits
<1>2. Saved(i) /\ ~Kept(vms[i].state)
  BY <1>1 DEF Safe, Dirty
<1> QED BY <1>1, <1>2, ZenonT(30) DEF Safe

\* What reconcile makes of a directory whose FC is still there, of one whose FC
\* is not, and of one that names none.
LEMMA ReconciledIs ==
    ASSUME NEW d, NEW alive, NEW v, v = Reconciled(d, alive)
    PROVE  /\ v.slot = d.meta.slot
           /\ d.meta.state \in {"running", "paused"} /\ d.meta.pid # None =>
                 IF d.meta.pid \in alive
                 THEN v.state = d.meta.state /\ v.pid = d.meta.pid
                 ELSE v.state = (IF d.snap # "none" THEN "sleeping" ELSE "stopped") /\ v.pid = None
           /\ ~(d.meta.state \in {"running", "paused"} /\ d.meta.pid # None) =>
                 v.state = d.meta.state /\ v.pid = None
BY SMT DEF Reconciled

\* Every step of orderly callers on an agent that restarts.
LEMMA RStep ==
    ASSUME Orderly, Faults \cap {"drop", "reuse"} = {}, TypeInv, Turns, RInv, [Next]_vars
    PROVE  RInv'
<1> USE Zenon

\* A VM that is left alone stays grounded and saved, and so does a request's.
<1>StillSafe. ASSUME NEW j \in Ids, Still(j)
              PROVE  /\ Grounded(j) => Grounded(j)'
                     /\ Saved(j) => Saved(j)'
                     /\ \A x : Safe(x, j) => Safe(x, j)'
  <2> USE <1>StillSafe
  <2>1. Grounded(j) => Grounded(j)'
    BY SMT DEF Grounded, Still
  <2>2. Saved(j) => Saved(j)'
    BY DEF Saved, Matches, Still, SnapKept, StaysDead
  <2>3. vms'[j] = vms[j] /\ (Exists(j)' <=> Exists(j)) /\ (disk[j].here => disk'[j].here)
    BY DEF Still, Exists
  <2>4. ASSUME NEW x, Safe(x, j) PROVE Safe(x, j)'
    <3>1. Dirty(x)' <=> Dirty(x)
      BY DEF Dirty
    <3> QED BY <2>2, <2>3, <2>4, <3>1 DEF Safe
  <2> QED BY <2>1, <2>2, <2>4

\* A step of request r on VM i.
<1>RFrame. ASSUME TypeInv, RInv, NEW r \in Reqs, NEW i \in Ids, Others(r),
                  \A q \in Reqs : q # r => req[q].id # i, req[r].id \in {i, None},
                  \A j \in Ids : j # i => Still(j), Grounded(i)',
                  req'[r].pc = "idle" => Saved(i)',
                  \A x \in {req'[r]} : x.pc # "idle" => x.id = i /\ Safe(x, i)'
           PROVE  RInv'
  <2> USE <1>RFrame
  <2>1. ASSUME NEW j \in Ids PROVE Grounded(j)' /\ (~Worked(j)' => Saved(j)')
    <3>1. CASE j = i
      BY <3>1 DEF Worked
    <3>2. CASE j # i
      <4> USE <3>2
      <4>1. ~Worked(j)' => ~Worked(j)
        BY NoneNoVm DEF Worked, Others
      <4>2. Grounded(j) /\ (~Worked(j) => Saved(j)) /\ Still(j)
        BY DEF RInv
      <4> QED BY <4>1, <4>2, <1>StillSafe
    <3> QED BY <3>1, <3>2, SMT
  <2>2. ASSUME NEW q \in Reqs, NEW x \in {req'[q]}, x.pc # "idle" PROVE Safe(x, x.id)'
    <3> USE <2>2
    <3>1. CASE q = r
      BY <3>1, SMT
    <3>2. CASE q # r
      <4> USE <3>2
      <4>1. x = req[q] /\ x \in {req[q]}
        BY SMT DEF Others
      <4>2. x.id \in Ids /\ x.id # i
        BY <4>1 DEF TypeInv, RequestsOK
      <4>3. Safe(x, x.id)
        BY <4>1 DEF RInv
      <4> QED BY <4>2, <4>3, <1>StillSafe
    <3> QED BY <3>1, <3>2, SMT
  <2> QED BY <2>1, <2>2 DEF RInv

\* The request at work, and its VM.
<1>RAtWork. ASSUME TypeInv, Turns, RInv, NEW r \in Reqs, req[r].pc # "idle"
            PROVE  \E x \in Request, i \in Ids :
                      /\ x = req[r] /\ i = x.id /\ x.src # i /\ Fits(x.op, x.pc) /\ Safe(x, i) /\ Grounded(i)
                      /\ \A q \in Reqs : q # r => req[q].id # i
  <2> USE <1>RAtWork
  <2>1. req[r] \in Request /\ req[r].id \in Ids
    BY DEF TypeInv, RequestsOK
  <2>2. Fits(req[r].op, req[r].pc) /\ req[r].id # req[r].src
    BY DEF Turns
  <2>3. \A q \in Reqs : q # r => req[q].id # req[r].id
    BY <2>1, NoneNoVm DEF Turns
  <2>4. Grounded(req[r].id) /\ \A x \in {req[r]} : Safe(x, x.id)
    BY <2>1 DEF RInv
  <2> QED BY <2>1, <2>2, <2>3, <2>4

\* A request that goes on, and leaves the VMs alone.
<1>RGoes. ASSUME TypeInv, Turns, RInv, NEW r \in Reqs, req[r].pc # "idle", \A j \in Ids : Still(j), Goes(r),
                 req'[r].pc = "idle" => Saved(req[r].id),
                 \A x \in {req'[r]} : x.pc # "idle" => Safe(x, req[r].id)
          PROVE  RInv'
  <2> USE <1>RGoes
  <2> PICK x \in Request, i \in Ids :
                /\ x = req[r] /\ i = x.id /\ x.src # i /\ Fits(x.op, x.pc) /\ Safe(x, i) /\ Grounded(i)
                /\ \A q \in Reqs : q # r => req[q].id # i
    BY <1>RAtWork
  <2>2. /\ Grounded(i)' /\ (Saved(i) => Saved(i)')
        /\ \A y : Safe(y, i) => Safe(y, i)'
    BY <1>StillSafe
  <2>3. \A y \in {req'[r]} : y.pc # "idle" => y.id = i /\ Safe(y, i)'
    BY <2>2 DEF Goes
  <2>4. Others(r) /\ req[r].id = i /\ (req'[r].pc = "idle" => Saved(i)')
    BY <2>2 DEF Goes
  <2> QED BY <2>2, <2>3, <2>4, <1>RFrame

\* No process starts: the dead stay dead.
<1>DeadStay. ASSUME TypeInv, NoneBorn, NEW j \in Ids
             PROVE  StaysDead(j)
  <2> USE <1>DeadStay
  <2>1. disk[j].meta.pid \in Pids \cup {None}
    BY SMT DEF TypeInv, StoreOK, Directory, Vm
  <2> QED BY <2>1, SMT DEF NoneBorn, StaysDead

\* A step that leaves the records and the directories alone.
<1>AllStill. ASSUME TypeInv, NoneBorn, vms' = vms, disk' = disk
             PROVE  \A j \in Ids : Still(j)
  BY <1>AllStill, <1>DeadStay DEF Still, SnapKept

\* A step that leaves the records and each meta.json alone.
<1>MetaStill. ASSUME TypeInv, NoneBorn, vms' = vms,
                     \A j \in Ids : disk'[j].meta = disk[j].meta /\ SnapKept(j) /\ (disk[j].here => disk'[j].here)
              PROVE  \A j \in Ids : Still(j)
  <2> USE <1>MetaStill
  <2> SUFFICES ASSUME NEW j \in Ids PROVE Still(j)
    BY SMT
  <2>1. StaysDead(j)
    BY <1>DeadStay, SMT
  <2> QED BY <2>1 DEF Still

\* The steps of the requests that touch no record and no meta.json.
<1>RStills. ASSUME "reuse" \notin Faults, TypeInv, Turns, RInv, NEW r \in Reqs,
                   \/ PrepareDir(r) \/ ClaimSlot(r) \/ TapFails(r) \/ Spawn(r) \/ SpawnFails(r)
                   \/ Boot(r) \/ BootFails(r) \/ SleepKill(r) \/ Terminate(r) \/ StopWaited(r)
                   \/ FreeSlot(r) \/ PatchVm(r) \/ Snapshot(r) \/ Thaw(r) \/ FcCallFails(r)
                   \/ ForkLooks(r) \/ StopLooks(r) \/ Commit(r)
            PROVE  RInv'
  <2> USE <1>RStills
  <2>0. Step(r) /\ req[r].pc # "idle"
    BY DEF Step, PrepareDir, ClaimSlot, TapFails, Spawn, SpawnFails, Boot, BootFails, SleepKill,
       Terminate, StopWaited, FreeSlot, PatchVm, Snapshot, Thaw, FcCallFails, ForkLooks, StopLooks,
       Commit, At
  <2> PICK x \in Request, i \in Ids :
                /\ x = req[r] /\ i = x.id /\ x.src # i /\ Fits(x.op, x.pc) /\ Safe(x, i) /\ Grounded(i)
                /\ \A q \in Reqs : q # r => req[q].id # i
    BY <2>0, <1>RAtWork
  <2>2. Goes(r)
    BY <2>0, Moves, Zenon
  <2>3. fc' = fc => NoneBorn
    BY DEF NoneBorn
  <2>4. ASSUME NEW l, Goto(r, l), \A j \in Ids : Still(j), \A y : y.op = x.op /\ y.pc = l => Safe(y, i) PROVE RInv'
    <3> USE <2>4
    <3>1. req'[r].pc = l /\ req'[r].op = x.op
      BY GotoMoves
    <3>2. \A y \in {req'[r]} : Safe(y, req[r].id)
      BY <3>1
    <3>3. req'[r].pc = "idle" => Saved(req[r].id)
      <4>1. req'[r].pc = "idle" => \A y \in {req'[r]} : ~Dirty(y)
        BY DEF Dirty
      <4> QED BY <3>2, <4>1 DEF Safe
    <3> QED BY <2>0, <2>2, <3>2, <3>3, <1>RGoes
  <2>5. ASSUME Done(r), \A j \in Ids : Still(j), Saved(i) PROVE RInv'
    <3> USE <2>5
    <3>1. req'[r].pc = "idle"
      BY DEF Done, Idle, TypeInv, RequestsOK
    <3> QED BY <2>0, <2>2, <3>1, <1>RGoes
  <2>6. ASSUME NEW op, NEW l, req'[r].op = op, req'[r].pc = l, \A j \in Ids : Still(j),
               l # "idle", \A y : y.op = op /\ y.pc = l => Safe(y, i)
        PROVE  RInv'
    <3> USE <2>6
    <3>1. \A y \in {req'[r]} : Safe(y, req[r].id)
      OBVIOUS
    <3> QED BY <2>0, <2>2, <3>1, <1>RGoes
  <2>7. CASE PrepareDir(r)
    <3> USE <2>7
    <3>1. x.op = "create" /\ x.pc = "image" /\ (Goto(r, "slot") \/ Goto(r, "fail"))
      BY SMT DEF PrepareDir, At, Fits
    <3>2. NoneBorn /\ vms' = vms
      BY <2>3 DEF PrepareDir
    <3>3. \A j \in Ids : disk'[j].meta = disk[j].meta /\ SnapKept(j) /\ (disk[j].here => disk'[j].here)
      BY SMT DEF PrepareDir, TypeInv, StoreOK, Directory, SnapKept
    <3>4. \A j \in Ids : Still(j)
      BY <3>2, <3>3, <1>MetaStill
    <3>5. \A y : y.op = x.op /\ y.pc \in {"slot", "fail"} => Safe(y, i)
      BY <3>1 DEF Safe, Dirty
    <3> QED BY <2>4, <3>1, <3>4, <3>5, Zenon
  <2>8. CASE ClaimSlot(r)
    <3> USE <2>8
    <3>1. IsBuild(r) /\ x.op \in {"create", "fork"} /\ x.pc = "slot" /\ vms' = vms /\ disk' = disk /\ NoneBorn
      BY <2>3, SMT DEF ClaimSlot, At, Fits, IsBuild
    <3>2. \A j \in Ids : Still(j)
      BY <3>1, <1>AllStill, Zenon
    <3>3. Saved(i) /\ \A y : y.op = x.op /\ y.pc \in {"spawn", "fail"} => Safe(y, i)
      BY <3>1 DEF Safe, Dirty
    <3>4. ASSUME NEW s, req' = [req EXCEPT ![r].slot = s, ![r].pc = "spawn"] PROVE RInv'
      <4>1. req'[r].pc = "spawn" /\ req'[r].op = x.op
        BY <3>4, SMT DEF TypeInv, RequestsOK, Request
      <4> QED BY <2>6, <3>2, <3>3, <4>1
    <3>5. Done(r) \/ Goto(r, "fail") => RInv'
      BY <2>4, <2>5, <3>2, <3>3
    <3> QED BY <3>4, <3>5 DEF ClaimSlot
  <2>9. CASE TapFails(r) \/ SpawnFails(r) \/ BootFails(r)
    <3> USE <2>9
    <3>1. NoneBorn
      <4>1. x.pid = None \/ x.pid \in Pids
        BY DEF Request
      <4> QED BY <2>3, <4>1, KillsOnly DEF TapFails, SpawnFails, BootFails
    <3>2. \A j \in Ids : Still(j)
      BY <3>1, <1>AllStill DEF TapFails, SpawnFails, BootFails
    <3>3. Saved(i) /\ (x.op \in {"create", "fork"} => \A y : y.op = x.op /\ y.pc = "fail" => Safe(y, i))
      BY DEF Safe, Dirty, TapFails, SpawnFails, BootFails, At
    <3>4. Done(r) \/ (Goto(r, "fail") /\ x.op \in {"create", "fork"})
      BY DEF TapFails, SpawnFails, BootFails, IsBuild
    <3> QED BY <2>4, <2>5, <3>2, <3>3, <3>4, Zenon
  <2>10. CASE Spawn(r)
    <3> USE <2>10
    <3> PICK p \in Pids : /\ FreshPid(p)
                            /\ fc' = [fc EXCEPT ![p] = [dir |-> i, live |-> TRUE, paused |-> FALSE,
                                                        term |-> FALSE, child |-> TRUE]]
                            /\ req' = [req EXCEPT ![r].pid = p, ![r].pc = "boot"]
      BY DEF Spawn
    <3>2. vms' = vms /\ disk' = disk /\ disk[i].here /\ x.pc = "spawn"
      BY DEF Spawn, At
    <3>3. ASSUME NEW j \in Ids PROVE StaysDead(j)
      <4>1. disk[j].meta.pid # p
        BY DEF FreshPid, Named
      <4>2. disk[j].meta.pid \in Pids \cup {None}
        BY SMT DEF TypeInv, StoreOK, Directory, Vm
      <4> QED BY <4>1, <4>2, SMT DEF StaysDead, TypeInv, StoreOK
    <3>4. \A j \in Ids : Still(j)
      BY <3>2, <3>3 DEF Still, SnapKept
    <3>5. req'[r].pc = "boot" /\ req'[r].op = x.op
      BY SMT DEF TypeInv, RequestsOK, Request
    <3>6. \A y : y.op = x.op /\ y.pc = "boot" => Safe(y, i)
      BY <3>2 DEF Safe, Dirty, Fits
    <3> QED BY <2>6, <3>4, <3>5, <3>6
  <2>11. CASE Boot(r)
    <3> USE <2>11
    <3>1. NoneBorn /\ vms' = vms /\ x.pc = "boot"
      BY <2>3 DEF Boot, At
    <3>2. \A j \in Ids : disk'[j].meta = disk[j].meta /\ SnapKept(j) /\ (disk[j].here => disk'[j].here)
      BY SMT DEF Boot, TypeInv, StoreOK, Directory, SnapKept
    <3>3. \A j \in Ids : Still(j)
      BY <3>1, <3>2, <1>MetaStill
    <3>4. \A y : y.op = x.op /\ y.pc \in {"publish", "setpid"} => Safe(y, i)
      BY <3>1 DEF Safe, Dirty, Fits
    <3>5. Goto(r, "publish") \/ Goto(r, "setpid")
      BY DEF Boot
    <3> QED BY <2>4, <3>3, <3>4, <3>5
  <2>12. CASE SleepKill(r) \/ Terminate(r) \/ StopWaited(r) \/ FreeSlot(r)
    <3> USE <2>12
    <3>1. NoneBorn
      <4>1. x.pid = None \/ x.pid \in Pids
        BY ZenonT(30) DEF Request
      <4>2. Terminate(r) => NoneBorn
        BY <4>1, SMT DEF Terminate, NoneBorn, TypeInv, StoreOK, Process
      <4> QED BY <2>3, <4>1, <4>2, KillsOnly DEF SleepKill, StopWaited, FreeSlot
    <3>2. \A j \in Ids : Still(j)
      BY <3>1, <1>AllStill DEF SleepKill, Terminate, StopWaited, FreeSlot
    <3>3. CASE SleepKill(r)
      <4> USE <3>3
      <4>1. \A y : y.op = x.op /\ y.pc = "setstate" => Safe(y, i)
        BY DEF Safe, Dirty, SleepKill, At
      <4> QED BY <2>4, <3>2, <4>1 DEF SleepKill
    <3>4. CASE Terminate(r) \/ StopWaited(r) \/ FreeSlot(r)
      <4> USE <3>4
      <4>1. Saved(i) /\ \A y : y.op = x.op /\ y.pc \in {"wait", "unslot", "remove"} => Safe(y, i)
        <5>1. x.pc \in {"kill", "wait", "unslot"} /\ x.op # "sleep"
          BY DEF Terminate, StopWaited, FreeSlot, At, Fits
        <5> QED BY <5>1, SafeInStop
      <4>2. Done(r) \/ Goto(r, "wait") \/ Goto(r, "unslot") \/ Goto(r, "remove")
        BY DEF Terminate, StopWaited, FreeSlot
      <4> QED BY <2>4, <2>5, <3>2, <4>1, <4>2
    <3> QED BY <3>3, <3>4
  <2>13. CASE Snapshot(r) \/ Thaw(r)
    <3> USE <2>13
    <3>1. NoneBorn /\ vms' = vms
      <4>1. Thaw(r) => NoneBorn
        BY SMT DEF Thaw, NoneBorn, TypeInv, StoreOK, Process
      <4> QED BY <2>3, <4>1 DEF Snapshot, Thaw
    <3>2. \A j \in Ids : disk'[j].meta = disk[j].meta /\ SnapKept(j) /\ (disk[j].here => disk'[j].here)
      BY SMT DEF Snapshot, Thaw, TypeInv, StoreOK, Directory, SnapKept
    <3>3. \A j \in Ids : Still(j)
      BY <3>1, <3>2, <1>MetaStill
    <3>4. \/ x.op = "sleep" /\ Goto(r, "clearpid")
          \/ x.op = "fork" /\ (Goto(r, "thaw") \/ Goto(r, "copy"))
      BY DEF Snapshot, Thaw, At, Fits
    <3>5. /\ x.op = "sleep" => \A y : y.op = x.op /\ y.pc = "clearpid" => Safe(y, i)
          /\ x.op = "fork" => \A y : y.op = x.op /\ y.pc \in {"thaw", "copy"} => Safe(y, i)
      BY ZenonT(30) DEF Safe, Dirty, Snapshot, Thaw, At
    <3> QED BY <2>4, <3>3, <3>4, <3>5
  <2>14. CASE PatchVm(r) \/ ForkLooks(r) \/ FcCallFails(r)
    <3> USE <2>14
    <3>1. NoneBorn
      <4>1. PatchVm(r) => NoneBorn
        BY SMT DEF PatchVm, NoneBorn, TypeInv, StoreOK, Process
      <4> QED BY <2>3, <4>1 DEF ForkLooks, FcCallFails
    <3>2. \A j \in Ids : Still(j)
      BY <3>1, <1>AllStill DEF PatchVm, ForkLooks, FcCallFails
    <3>3. /\ x.pc \in {"look", "patch", "snapshot", "thaw"}
          /\ \/ Done(r)
             \/ x.op \in {"sleep", "fork"} /\ Goto(r, "snapshot")
             \/ x.op \in {"pause", "resume"} /\ Goto(r, "setstate")
             \/ x.op = "fork" /\ (Goto(r, "copy") \/ Goto(r, "patch"))
      BY SMT DEF PatchVm, ForkLooks, FcCallFails, At, Fits
    <3>4. /\ Saved(i)
          /\ x.op \in {"sleep", "fork"} => \A y : y.op = x.op /\ y.pc = "snapshot" => Safe(y, i)
          /\ x.op \in {"pause", "resume"} => \A y : y.op = x.op /\ y.pc = "setstate" => Safe(y, i)
          /\ x.op = "fork" => \A y : y.op = x.op /\ y.pc \in {"copy", "patch"} => Safe(y, i)
      BY <3>3 DEF Safe, Dirty
    <3> QED BY <2>4, <2>5, <3>2, <3>3, <3>4
  <2>15. CASE StopLooks(r)
    <3> USE <2>15
    <3>1. \A j \in Ids : Still(j)
      BY <2>3, <1>AllStill DEF StopLooks
    <3>2. x.op \in {"delete", "rollback"} /\ x.pc = "stop" /\ Saved(i)
      BY SMT DEF StopLooks, At, Fits, Safe, Dirty
    <3>3. CASE Exists(i)
      <4>1. \A y : y.op = x.op /\ y.pc = "setstate" => Safe(y, i)
        BY <3>2 DEF Safe, Dirty
      <4>2. req'[r].pc = "setstate" /\ req'[r].op = x.op
        BY <3>3, SMT DEF StopLooks, TypeInv, RequestsOK, Request
      <4> QED BY <2>6, <3>1, <4>1, <4>2
    <3>4. CASE ~Exists(i)
      <4> USE <3>4
      <4>1. ~Kept(vms[i].state)
        BY DEF Exists, Kept
      <4>2. \A y : y.op = x.op /\ y.pc = "unslot" => Safe(y, i)
        BY <3>2, <4>1 DEF Safe, Dirty
      <4> QED BY <2>4, <3>1, <4>2 DEF StopLooks
    <3> QED BY <3>3, <3>4
  <2>16. CASE Commit(r)
    <3> USE <2>16
    <3>1. \A j \in Ids : Still(j)
      BY <2>3, <1>AllStill DEF Commit
    <3>2. Saved(i)
      BY DEF Commit, At, Safe, Dirty, Fits
    <3>3. ASSUME EnterDelete(r, "rollback", req[r].id) PROVE RInv'
      <4>1. req'[r].pc = "stop" /\ req'[r].op = "rollback"
        BY <3>3, Zenon DEF EnterDelete, Enter, TypeInv, RequestsOK
      <4>2. \A y : y.op = "rollback" /\ y.pc = "stop" => Safe(y, i)
        BY <3>2 DEF Safe, Dirty
      <4> QED BY <2>6, <3>1, <4>1, <4>2
    <3> QED BY <2>5, <3>1, <3>2, <3>3 DEF Commit
  <2> QED BY <2>7, <2>8, <2>9, <2>10, <2>11, <2>12, <2>13, <2>14, <2>15, <2>16

\* A request that goes on, and changes its VM only.
<1>RWorks. ASSUME TypeInv, Turns, RInv, NEW r \in Reqs, req[r].pc # "idle", Goes(r), fc' = fc,
                  NEW i \in Ids, i = req[r].id,
                  \A j \in Ids : j # i => vms'[j] = vms[j] /\ disk'[j] = disk[j],
                  Grounded(i)', req'[r].pc = "idle" => Saved(i)',
                  \A y \in {req'[r]} : y.pc # "idle" => Safe(y, i)'
           PROVE  RInv'
  <2> USE <1>RWorks
  <2>1. \A q \in Reqs : q # r => req[q].id # i
    BY NoneNoVm, ZenonT(30) DEF Turns
  <2>2. NoneBorn
    BY DEF NoneBorn
  <2>3. ASSUME NEW j \in Ids, j # i PROVE Still(j)
    <3>1. StaysDead(j)
      BY <2>2, <1>DeadStay
    <3> QED BY <2>3, <3>1 DEF Still, SnapKept
  <2>4. Others(r) /\ \A y \in {req'[r]} : y.pc # "idle" => y.id = i
    BY DEF Goes
  <2> QED BY <2>1, <2>3, <2>4, <1>RFrame

\* The steps of the requests that change a record or a meta.json.
<1>RChanges. ASSUME TypeInv, Turns, RInv, NEW r \in Reqs,
                    \/ Publish(r) \/ MarkFailed(r) \/ RecordPid(r) \/ RecordState(r) \/ ClearPid(r)
                    \/ RemoveDir(r) \/ RemoveRecord(r) \/ CopyParent(r) \/ Register(r) \/ SaveMeta(r)
             PROVE  RInv'
  <2> USE <1>RChanges
  <2>0. Step(r) /\ req[r].pc # "idle" /\ fc' = fc
    BY DEF Step, Publish, MarkFailed, RecordPid, RecordState, ClearPid, RemoveDir, RemoveRecord,
       CopyParent, Register, SaveMeta, At
  <2> PICK x \in Request, i \in Ids :
                /\ x = req[r] /\ i = x.id /\ x.src # i /\ Fits(x.op, x.pc) /\ Safe(x, i) /\ Grounded(i)
                /\ \A q \in Reqs : q # r => req[q].id # i
    BY <2>0, <1>RAtWork
  <2>2. Goes(r)
    BY <2>0, Moves
  <2>3. vms[i] \in Vm /\ disk[i] \in Directory
    BY DEF TypeInv, StoreOK
  <2>4. ASSUME NEW l, Goto(r, l), Grounded(i)', Saved(i)' \/ l # "idle",
               \A j \in Ids : j # i => vms'[j] = vms[j] /\ disk'[j] = disk[j],
               \A y : y.op = x.op /\ y.pc = l => Safe(y, i)'
        PROVE  RInv'
    <3> USE <2>4
    <3>1. req'[r].pc = l /\ req'[r].op = x.op
      BY GotoMoves
    <3>2. \A y \in {req'[r]} : Safe(y, i)'
      BY <3>1
    <3> QED BY <2>0, <2>2, <3>1, <3>2, <1>RWorks
  <2>5. ASSUME Done(r), Grounded(i)', Saved(i)',
               \A j \in Ids : j # i => vms'[j] = vms[j] /\ disk'[j] = disk[j]
        PROVE  RInv'
    <3> USE <2>5
    <3>1. req'[r].pc = "idle"
      BY DEF Done, Idle, TypeInv, RequestsOK
    <3> QED BY <2>0, <2>2, <3>1, <1>RWorks
  <2>6. CASE Publish(r)
    <3>1. /\ disk' = disk /\ \A j \in Ids : j # i => vms'[j] = vms[j]
          /\ vms'[i].state \in {"running", "absent"} /\ Goto(r, "meta") /\ x.pc = "publish"
      BY <2>3, <2>6 DEF Publish, At, Exists, TypeInv, StoreOK, Vm
    <3>2. x.op \in {"create", "fork"} /\ disk[i].here
      BY <3>1 DEF Safe, Fits
    <3>3. Grounded(i)'
      BY <3>1, <3>2 DEF Grounded
    <3>4. \A y : y.op = x.op /\ y.pc = "meta" => Safe(y, i)'
      BY <3>1, <3>2 DEF Safe, Dirty
    <3> QED BY <2>4, <3>1, <3>3, <3>4
  <2>7. CASE MarkFailed(r) \/ RemoveRecord(r) \/ Register(r)
    <3> USE <2>7
    <3>1. /\ disk' = disk /\ \A j \in Ids : j # i => vms'[j] = vms[j]
          /\ vms'[i].state \in {"error", "absent", "creating"}
      BY <2>3, SMT DEF MarkFailed, RemoveRecord, Register, SetState, Exists, NoVm, TypeInv, StoreOK,
         Vm
    <3>2. Grounded(i)' /\ Saved(i)'
      BY <3>1 DEF Grounded, Saved, Kept
    <3>3. Done(r) \/ (Goto(r, "slot") /\ x.op = "fork")
      BY SMT DEF MarkFailed, RemoveRecord, Register, At, Fits
    <3>4. x.op = "fork" => \A y : y.op = x.op /\ y.pc = "slot" => Safe(y, i)'
      BY <3>1, <3>2 DEF Safe, Kept
    <3> QED BY <2>4, <2>5, <3>1, <3>2, <3>3, <3>4
  <2>8. CASE RecordPid(r)
    <3>1. /\ disk' = disk /\ \A j \in Ids : j # i => vms'[j] = vms[j]
          /\ vms'[i].state = vms[i].state /\ Goto(r, "setstate") /\ x.pc = "setpid" /\ x.op \in {"start", "wake"}
      BY <2>3, <2>8, SMT DEF RecordPid, SetPid, At, Fits, TypeInv, StoreOK, Vm
    <3>2. disk[i].here /\ (x.op = "start" => ~Kept(vms[i].state))
      BY <3>1 DEF Safe
    <3>3. Grounded(i)' /\ \A y : y.op = x.op /\ y.pc = "setstate" => Safe(y, i)'
      BY <3>1, <3>2 DEF Grounded, Safe, Dirty, Saved
    <3> QED BY <2>4, <3>1, <3>3
  <2>9. CASE RecordState(r)
    <3>1. /\ disk' = disk /\ \A j \in Ids : j # i => vms'[j] = vms[j]
          /\ vms'[i].pid = vms[i].pid /\ vms'[i].state = IF Exists(i) THEN Goal(x.op) ELSE "absent"
          /\ x.pc = "setstate"
          /\ Goto(r, IF x.op = "stop" \/ x.op \in {"delete", "rollback"} THEN "clearpid" ELSE "meta")
      BY <2>3, <2>9, SMT DEF RecordState, IsDelete, SetState, At, Exists, TypeInv, StoreOK, Vm
    <3>2. CASE x.op \in {"stop", "delete", "rollback"}
      <4> USE <3>2
      <4>1. vms'[i].state \in {"stopped", "absent"} /\ Goto(r, "clearpid")
        BY <3>1, SMT DEF Goal
      <4>2. Grounded(i)' /\ \A y : y.op = x.op /\ y.pc = "clearpid" => Safe(y, i)'
        BY <3>1, <4>1 DEF Grounded, Safe, Saved, Kept
      <4> QED BY <2>4, <3>1, <4>1, <4>2
    <3>3. CASE x.op \notin {"stop", "delete", "rollback"}
      <4>1. Goto(r, "meta") /\ x.op \in {"start", "wake", "resume", "pause", "sleep"}
        BY <3>1, <3>3 DEF Fits
      <4>2. disk[i].here /\ (x.op = "sleep" /\ Exists(i) => vms[i].pid = None)
        BY <3>1, <4>1 DEF Safe
      <4>3. vms'[i].state = "sleeping" => x.op = "sleep" /\ Exists(i)
        BY <3>1, <4>1, SMT DEF Goal
      <4>4. Grounded(i)' /\ \A y : y.op = x.op /\ y.pc = "meta" => Safe(y, i)'
        BY <3>1, <4>1, <4>2, <4>3 DEF Grounded, Safe, Dirty
      <4> QED BY <2>4, <3>1, <4>1, <4>4
    <3> QED BY <3>2, <3>3
  <2>10. CASE ClearPid(r)
    <3>1. /\ disk' = disk /\ \A j \in Ids : j # i => vms'[j] = vms[j]
          /\ vms'[i].state = vms[i].state /\ (Exists(i) => vms'[i].pid = None) /\ Goto(r, "kill")
          /\ x.pc = "clearpid" /\ x.op \in {"stop", "delete", "rollback", "sleep"}
      BY <2>3, <2>10, SMT DEF ClearPid, SetPid, At, Fits, TypeInv, StoreOK, Vm
    <3>2. (x.op # "sleep" => ~Kept(vms[i].state)) /\ (x.op = "sleep" => disk[i].here)
      BY <3>1 DEF Safe
    <3>3. Grounded(i)' /\ \A y : y.op = x.op /\ y.pc = "kill" => Safe(y, i)'
      BY <3>1, <3>2 DEF Grounded, Safe, Dirty, Saved, Exists
    <3> QED BY <2>4, <3>1, <3>3
  <2>11. CASE RemoveDir(r)
    <3>1. /\ vms' = vms /\ \A j \in Ids : j # i => disk'[j] = disk[j]
          /\ disk'[i] \in {NoDir, disk[i]} /\ Goto(r, "forget")
          /\ x.pc = "remove" /\ x.op \in {"delete", "rollback"}
      BY <2>3, <2>11 DEF RemoveDir, At, Fits, TypeInv, StoreOK
    <3>2. ~Kept(vms[i].state)
      BY <3>1 DEF Safe
    <3>3. NoDir.meta.state = "absent"
      BY DEF NoDir, NoVm
    <3>4. Grounded(i)'
      BY <3>1, <3>2, <3>3 DEF Grounded
    <3>5. \A y : y.op = x.op /\ y.pc = "forget" => Safe(y, i)'
      BY <3>1, <3>2 DEF Safe, Saved
    <3> QED BY <2>4, <3>1, <3>4, <3>5
  <2>12. CASE CopyParent(r)
    <3> USE <2>12
    <3>0. PICK d : disk' = [disk EXCEPT ![i] = d] /\ d.here /\ d.meta.state = "absent"
      <4>1. \A s : [NoDir EXCEPT !.here = TRUE, !.snap = s].here
                   /\ [NoDir EXCEPT !.here = TRUE, !.snap = s].meta.state = "absent"
        BY SMT DEF NoDir, NoVm
      <4>2. [NoDir EXCEPT !.here = TRUE].here /\ [NoDir EXCEPT !.here = TRUE].meta.state = "absent"
        BY SMT DEF NoDir, NoVm
      <4> QED BY <4>1, <4>2 DEF CopyParent
    <3>1. /\ vms' = vms /\ \A j \in Ids : j # i => disk'[j] = disk[j]
          /\ disk'[i].here /\ disk'[i].meta.state = "absent" /\ (Done(r) \/ Goto(r, "register"))
          /\ x.pc = "copy" /\ x.op = "fork"
      BY <3>0, SMT DEF CopyParent, At, Fits, TypeInv, StoreOK
    <3>2. ~Kept(vms[i].state)
      BY <3>1 DEF Safe
    <3>3. Grounded(i)' /\ Saved(i)' /\ \A y : y.op = x.op /\ y.pc = "register" => Safe(y, i)'
      BY <3>1, <3>2 DEF Grounded, Saved, Safe
    <3> QED BY <2>4, <2>5, <3>1, <3>3
  <2>13. CASE SaveMeta(r)
    <3> USE <2>13
    <3>1. /\ vms' = vms /\ \A j \in Ids : j # i => disk'[j] = disk[j]
          /\ disk'[i].here = disk[i].here /\ disk'[i].snap = disk[i].snap
          /\ disk'[i].meta = (IF disk[i].here THEN vms[i] ELSE disk[i].meta) /\ x.pc = "meta"
      BY <2>3, SMT DEF SaveMeta, WriteMeta, At, TypeInv, StoreOK, Directory
    <3>2. vms[i].state = "sleeping" => vms[i].pid = None
      BY <3>1 DEF Safe
    <3>3. Grounded(i)'
      BY <3>1, <3>2 DEF Grounded
    <3>4. Saved(i)'
      <4>1. Kept(vms[i].state) => disk'[i].meta = vms[i]
        BY <3>1 DEF Grounded
      <4> QED BY <3>1, <3>2, <4>1 DEF Saved, Matches
    <3>5. \/ Done(r) \/ (Goto(r, "commit") /\ x.op \in {"create", "fork"})
          \/ (Goto(r, "fail") /\ x.op = "create" /\ ~CanWriteMeta(i))
      BY DEF SaveMeta, IsBuild
    <3>6. x.op \in {"create", "fork"} => \A y : y.op = x.op /\ y.pc = "commit" => Safe(y, i)'
      BY <3>4, Zenon DEF Safe
    <3>7. ~CanWriteMeta(i) => ~Kept(vms[i].state)
      BY DEF CanWriteMeta, Grounded, Exists, Kept
    <3>8. x.op = "create" /\ ~CanWriteMeta(i) => \A y : y.op = x.op /\ y.pc = "fail" => Safe(y, i)'
      BY <3>1, <3>4, <3>7 DEF Safe
    <3> QED BY <2>4, <2>5, <3>1, <3>3, <3>4, <3>5, <3>6, <3>8
  <2> QED BY <2>6, <2>7, <2>8, <2>9, <2>10, <2>11, <2>12, <2>13

\* An exit that turns a record into an error.
<1>RExits. ASSUME TypeInv, RInv, NEW i \in Ids \cup {None}, NEW p, OnFcExit(i, p), NoneBorn, req' = req
           PROVE  RInv'
  <2> USE <1>RExits
  <2>1. ASSUME NEW j \in Ids
        PROVE  \/ Still(j)
               \/ /\ vms'[j].state = "error" /\ vms'[j].pid = None /\ disk'[j].here = disk[j].here
                  /\ (disk'[j].meta.state = "error" /\ disk[j].here) \/ disk'[j].meta = disk[j].meta
    <3>0. StaysDead(j)
      BY <1>DeadStay, SMT
    <3>1. CASE vms' = vms /\ disk' = disk
      BY <3>0, <3>1 DEF Still, SnapKept
    <3>2. CASE ~(vms' = vms /\ disk' = disk)
      <4> PICK vm : vm = [vms[i] EXCEPT !.state = "error", !.pid = None]
        BY SMT
      <4>2. vms' = [vms EXCEPT ![i] = vm] /\ WriteMeta(i, vm)
        BY <3>2 DEF OnFcExit
      <4>3. CASE j = i
        <5> USE <4>3
        <5>1. vms[i] \in Vm
          BY SMT DEF TypeInv, StoreOK
        <5>2. vm.state = "error" /\ vm.pid = None
          BY <5>1, SMT DEF Vm
        <5> QED BY <4>2, <5>2, SMT DEF WriteMeta, TypeInv, StoreOK, Directory
      <4>4. CASE j # i
        <5>1. vms'[j] = vms[j] /\ disk'[j] = disk[j]
          BY <4>2, <4>4, SMT DEF WriteMeta, TypeInv, StoreOK
        <5> QED BY <3>0, <5>1 DEF Still, SnapKept
      <4> QED BY <4>3, <4>4
    <3> QED BY <3>1, <3>2
  <2>2. ASSUME NEW j \in Ids, ~Still(j), Grounded(j)
        PROVE  Grounded(j)' /\ Saved(j)' /\ \A x : Safe(x, j) => Safe(x, j)'
    <3> USE <2>2
    <3>1. vms'[j].state = "error" /\ vms'[j].pid = None /\ disk'[j].here = disk[j].here
      BY <2>1, SMT
    <3>2. Grounded(j)' /\ Saved(j)'
      BY <2>1, <3>1, SMT DEF Grounded, Saved, Kept
    <3> QED BY <3>1, <3>2 DEF Safe, Kept
  <2>3. ASSUME NEW j \in Ids, Grounded(j)
        PROVE  Grounded(j)' /\ (Saved(j) => Saved(j)') /\ \A x : Safe(x, j) => Safe(x, j)'
    BY <2>2, <2>3, <1>StillSafe
  <2>4. ASSUME NEW j \in Ids PROVE Grounded(j)' /\ (~Worked(j)' => Saved(j)')
    BY <2>3 DEF RInv, Worked
  <2>5. ASSUME NEW q \in Reqs, NEW x \in {req'[q]}, x.pc # "idle" PROVE Safe(x, x.id)'
    <3> USE <2>5
    <3>1. x.id \in Ids
      BY DEF TypeInv, RequestsOK
    <3>2. Safe(x, x.id) /\ Grounded(x.id)
      BY <3>1 DEF RInv
    <3> QED BY <2>3, <3>1, <3>2
  <2> QED BY <2>4, <2>5 DEF RInv

\* The requests an orderly client sends.
<1>RBegins. ASSUME Orderly, TypeInv, Turns, RInv, NEW r \in Reqs, NEW i \in Ids, Begin(r, i)
            PROVE  RInv'
  <2> USE <1>RBegins
  <2>1. /\ disk' = disk /\ fc' = fc /\ ~Busy(i) /\ req[r].pc = "idle"
    BY DEF Begin, Create, Start, Wake, Sleep, Pause, Resume, Stop, Delete, BeginCapture, Fork,
       Admit, At
  <2>2. req[r].id = None
    BY <2>1 DEF Turns
  <2>3. ASSUME NEW c \in Ids, ~Busy(c) PROVE Grounded(c) /\ Saved(c) /\ \A q \in Reqs : req[q].id # c
    <3>1. ~Worked(c) /\ \A q \in Reqs : req[q].id # c
      BY <2>3 DEF Busy, Worked
    <3> QED BY <3>1 DEF RInv
  <2>4. vms' = vms => \A j \in Ids : Still(j)
    BY <2>1, <1>AllStill DEF NoneBorn
  <2>5. ASSUME NEW c \in Ids, ~Busy(c), Others(r), vms' = vms, req'[r].pc # "idle", req'[r].id = c,
               \A y \in {req'[r]} : Safe(y, c)
        PROVE  RInv'
    <3> USE <2>5
    <3>1. Grounded(c)' /\ \A y \in {req'[r]} : Safe(y, c)'
      BY <2>3, <2>4, <1>StillSafe
    <3> QED BY <2>2, <2>3, <2>4, <3>1, <1>RFrame
  <2>6. ASSUME NEW op, NEW l, NEW pid, NEW slot, Enter(r, op, i, l, pid, slot), vms' = vms, l # "idle",
               \A y : y.op = op /\ y.pc = l => Safe(y, i)
        PROVE  RInv'
    <3> USE <2>6
    <3>1. Others(r) /\ req'[r].pc = l /\ req'[r].op = op /\ req'[r].id = i
      BY DEF Enter, Others, TypeInv, RequestsOK
    <3>2. \A y \in {req'[r]} : Safe(y, i)
      BY <3>1
    <3> QED BY <2>1, <2>5, <3>1, <3>2
  <2>7. Grounded(i) /\ Saved(i)
    BY <2>1, <2>3
  <2>8. CASE Create(r, i)
    <3> USE <2>8
    <3>1. Others(r) /\ req'[r].pc = "image" /\ req'[r].op = "create" /\ req'[r].id = i
      BY SMT DEF Create, Enter, Others, TypeInv, RequestsOK
    <3>2. (\A j \in Ids : j # i => vms'[j] = vms[j]) /\ vms'[i].state = "creating"
      BY SMT DEF Create, NoVm, TypeInv, StoreOK
    <3>3. ASSUME NEW j \in Ids, j # i PROVE Still(j)
      <4>1. StaysDead(j)
        BY <2>1, <1>DeadStay DEF NoneBorn
      <4> QED BY <2>1, <3>2, <3>3, <4>1 DEF Still, SnapKept
    <3>4. Grounded(i)' /\ Saved(i)'
      BY <2>1, <2>7, <3>2 DEF Grounded, Saved, Kept
    <3>5. \A y : y.op = "create" /\ y.pc = "image" => Safe(y, i)'
      BY <3>2, <3>4 DEF Safe, Kept
    <3>6. \A y \in {req'[r]} : Safe(y, i)'
      BY <3>1, <3>5
    <3>7. /\ \A q \in Reqs : q # r => req[q].id # i
          /\ \A y \in {req'[r]} : y.pc # "idle" => y.id = i /\ Safe(y, i)'
      BY <2>1, <2>3, <3>1, <3>6
    <3> QED BY <2>2, <3>1, <3>3, <3>4, <3>7, <1>RFrame
  <2>9. ASSUME NEW c \in Ids, Fork(r, i, c) PROVE RInv'
    <3> USE <2>9
    <3>1. Others(r) /\ req'[r].pc = "look" /\ req'[r].op = "fork" /\ req'[r].id = c
      BY DEF Fork, Others, TypeInv, RequestsOK
    <3>2. vms' = vms /\ vms[c].state = "absent" /\ ~Busy(c)
      BY DEF Fork, Unused, Exists
    <3>3. \A y : y.op = "fork" /\ y.pc = "look" => Safe(y, c)
      BY <2>3, <3>2 DEF Safe, Kept
    <3>4. \A y \in {req'[r]} : Safe(y, c)
      BY <3>1, <3>3
    <3> QED BY <2>5, <3>1, <3>2, <3>4
  <2>10. CASE Start(r, i) \/ Wake(r, i)
    <3>1. Start(r, i) => ~Kept(vms[i].state)
      BY DEF Start, Kept
    <3>2. /\ ~Kept(vms[i].state) => \A y : y.op = "start" /\ y.pc = "spawn" => Safe(y, i)
          /\ \A y : y.op = "wake" /\ y.pc = "spawn" => Safe(y, i)
      BY <2>7 DEF Safe
    <3> QED BY <2>6, <2>10, <3>1, <3>2 DEF Start, Wake
  <2>11. CASE Sleep(r, i) \/ Pause(r, i) \/ Resume(r, i)
    <3> USE <2>11
    <3>1. Kept(vms[i].state)
      BY SMT DEF Sleep, Pause, Resume, Admit, From, Kept
    <3>2. \A y : y.op \in {"sleep", "pause", "resume"} /\ y.pc = "patch" => Safe(y, i)
      BY <2>7, <3>1 DEF Safe, Grounded
    <3> QED BY <2>6, <3>2 DEF Sleep, Pause, Resume
  <2>12. CASE Stop(r, i) \/ Delete(r, i) \/ BeginCapture(r, i)
    <3>1. \A y : \/ y.op = "stop" /\ y.pc = "setstate"
                 \/ y.op = "delete" /\ y.pc = "stop"
                 \/ y.op = "capture" /\ y.pc = "stream"
                 => Safe(y, i)
      BY <2>7, SMT DEF Safe
    <3> QED BY <2>6, <2>12, <3>1 DEF Stop, Delete, EnterDelete, BeginCapture
  <2> QED BY <2>8, <2>9, <2>10, <2>11, <2>12 DEF Begin

\* What reconcile makes of a directory agrees with it.
<1>ReconciledMatches. ASSUME TypeInv, RInv, NEW procs, Comeback(procs), NEW i \in Ids
                      PROVE  Grounded(i)' /\ Saved(i)'
  <2> USE <1>ReconciledMatches
  <2> PICK v : v = vms'[i]
    BY SMT
  <2>2. v = Reconciled(disk[i], {p \in Pids : procs[p].live}) /\ fc' = procs /\ disk' = disk
    BY DEF Comeback
  <2>3. Grounded(i)
    BY DEF RInv
  <2>4. disk[i].meta.pid \in Pids \cup {None}
    BY SMT DEF TypeInv, StoreOK, Directory, Vm
  <2> PICK m : m = disk[i].meta
    BY SMT
  <2>6. v.slot = m.slot
    BY <2>2, ReconciledIs, SMT
  <2>7. CASE m.state \in {"running", "paused"} /\ m.pid # None
    <3> USE <2>7
    <3>1. CASE procs[m.pid].live
      <4>1. v.state = m.state /\ v.pid = m.pid
        <5>1. m.pid \in {p \in Pids : procs[p].live}
          BY <2>4, <3>1
        <5> QED BY <2>2, <5>1, ReconciledIs, SMT
      <4>2. Grounded(i)'
        BY <2>2, <2>3, <4>1 DEF Grounded, Kept
      <4>3. Matches(i)'
        BY <2>2, <2>6, <4>1, ZenonT(30) DEF Matches
      <4> QED BY <4>2, <4>3 DEF Saved
    <3>2. CASE ~procs[m.pid].live
      <4> USE <3>2
      <4>1. v.pid = None /\ v.state = IF disk[i].snap # "none" THEN "sleeping" ELSE "stopped"
        BY <2>2, ReconciledIs, SMT
      <4>2. Grounded(i)'
        BY <2>2, <2>3, <4>1, ZenonT(30) DEF Grounded, Kept
      <4>3. v.state = "sleeping" => Matches(i)'
        BY <2>2, <2>6, <4>1 DEF Matches, Up
      <4>4. Kept(v.state) => v.state = "sleeping"
        BY <4>1, SMT DEF Kept
      <4> QED BY <4>2, <4>3, <4>4 DEF Saved
    <3> QED BY <3>1, <3>2, SMT
  <2>8. CASE ~(m.state \in {"running", "paused"} /\ m.pid # None)
    <3> USE <2>8
    <3>1. v.state = m.state /\ v.pid = None
      BY <2>2, ReconciledIs, SMT
    <3>2. Kept(m.state) => m.pid = None /\ disk[i].here
      BY <2>3, SMT DEF Kept, Grounded
    <3>3. Grounded(i)'
      BY <2>2, <2>3, <3>1, <3>2 DEF Grounded
    <3>4. Kept(m.state) => Matches(i)'
      BY <2>2, <2>6, <3>1, <3>2 DEF Matches
    <3> QED BY <3>1, <3>3, <3>4 DEF Saved
  <2> QED BY <2>7, <2>8, SMT

<1>0. "drop" \notin Faults /\ "reuse" \notin Faults
  BY SMT
<1>1. ASSUME NEW r \in Reqs, Step(r) PROVE RInv'
  BY <1>0, <1>1, <1>RStills, <1>RChanges DEF Step
<1>2. ASSUME NEW r \in Reqs, EndCapture(r) PROVE RInv'
  <2>1. vms' = vms /\ disk' = disk /\ fc' = fc /\ Done(r) /\ req[r].pc = "stream"
    BY <1>2 DEF EndCapture, At
  <2>2. \A j \in Ids : Still(j)
    BY <2>1, <1>AllStill DEF NoneBorn
  <2>3. Goes(r) /\ req'[r].pc = "idle"
    BY <2>1, SMT DEF Done, Goes, Others, Idle, TypeInv, RequestsOK
  <2>4. \A x \in {req[r]} : Safe(x, x.id)
    BY <2>1, SMT DEF RInv
  <2>5. Saved(req[r].id)
    BY <2>1, <2>4 DEF Safe, Dirty
  <2> QED BY <2>1, <2>2, <2>3, <2>5, <1>RGoes, SMT
<1>3. ASSUME NEW r \in Reqs, Cancel(r) PROVE FALSE
  BY <1>0, <1>3 DEF Cancel
<1>4. ASSUME \A j \in Ids : Still(j), req' = req PROVE RInv'
  <2> USE <1>4
  <2>1. ASSUME NEW j \in Ids PROVE Grounded(j)' /\ (~Worked(j)' => Saved(j)')
    BY <1>StillSafe DEF RInv, Worked
  <2>2. ASSUME NEW q \in Reqs, NEW x \in {req'[q]}, x.pc # "idle" PROVE Safe(x, x.id)'
    <3> USE <2>2
    <3>1. x.id \in Ids
      BY DEF TypeInv, RequestsOK
    <3>2. Safe(x, x.id)
      BY DEF RInv
    <3> QED BY <3>1, <3>2, <1>StillSafe
  <2> QED BY <2>1, <2>2 DEF RInv
<1>5. ASSUME NEW p \in Pids, FcExits(p) PROVE RInv'
  <2>1. vms' = vms /\ disk' = disk /\ req' = req /\ Kill(p)
    BY <1>5, NoneNoVm DEF FcExits, Kill
  <2> QED BY <1>4, <2>1, KillsOnly, <1>AllStill, SMT
<1>6. ASSUME NEW p \in Pids, Reap(p) PROVE RInv'
  <2> USE <1>6
  <2>1. NoneBorn /\ fc[p].dir \in Ids \cup {None}
    BY SMT DEF Reap, Gone, NoneBorn, TypeInv, StoreOK, Process
  <2> QED BY <2>1, <1>RExits DEF Reap
<1>7. ASSUME NEW i \in Ids, SweepDead(i) PROVE RInv'
  <2> USE <1>7
  <2>1. NoneBorn
    BY DEF SweepDead, NoneBorn
  <2> QED BY <2>1, <1>RExits, SMT DEF SweepDead
<1>8. CASE Restart \/ Reboot
  <2> PICK procs : Comeback(procs)
    BY <1>8 DEF Restart, Reboot
  <2>2. \A r \in Reqs : req'[r].pc = "idle"
    BY SMT DEF Comeback, Idle
  <2> QED BY <2>2, <1>ReconciledMatches DEF RInv
<1>9. CASE UNCHANGED vars
  <2>1. vms' = vms /\ disk' = disk /\ req' = req /\ NoneBorn
    BY <1>9 DEF vars, NoneBorn
  <2> QED BY <1>4, <2>1, <1>AllStill, SMT
<1> QED BY <1>1, <1>2, <1>3, <1>5, <1>6, <1>7, <1>8, <1>9, <1>RBegins DEF Next

\* With orderly callers that stay to the end of their requests, and while no
\* pid that a meta.json names is given to another process, a restart of the
\* agent at any point between two requests loses nothing: each running, paused
\* or sleeping VM comes back in its state, with its process and its slot.
THEOREM RestartsKeepGuests ==
    ASSUME Orderly, Faults \cap {"drop", "reuse"} = {}
    PROVE  Spec => []RestartKeepsGuests
<1> DEFINE IInv == TypeInv /\ Placed /\ Turns /\ RInv
<1>1. Init => IInv
  <2> SUFFICES ASSUME Init PROVE Placed /\ Turns /\ RInv
    BY InitType, Zenon
  <2>1. \A r \in Reqs : req[r].pc = "idle" /\ req[r].op = "none" /\ req[r].id = None /\ req[r].src = None
    BY DEF Init, Idle
  <2>2. \A i \in Ids : vms[i].state = "absent" /\ disk[i].meta.state = "absent"
    BY DEF Init, NoVm, NoDir
  <2>3. \A i \in Ids : Grounded(i) /\ Saved(i)
    BY <2>2 DEF Grounded, Saved, Kept
  <2> QED BY <2>1, <2>3 DEF Placed, Turns, RInv
<1>2. IInv /\ [Next]_vars => IInv'
  BY NextType, PlacedStep, TurnsStep, RStep, Zenon
<1>3. IInv => RestartKeepsGuests
  <2> SUFFICES ASSUME IInv, NEW i \in Ids, vms[i].state \in {"running", "paused", "sleeping"}, ~Busy(i),
                      vms[i].pid # None => fc[vms[i].pid].live
               PROVE  Recovered(i) = vms[i]
    BY Zenon DEF RestartKeepsGuests
  <2>1. Matches(i)
    <3>1. ~Worked(i)
      BY Zenon DEF Worked, Busy
    <3> QED BY <3>1, Zenon DEF RInv, Saved, Kept
  <2>2. vms[i] \in Vm /\ disk[i].meta \in Vm
    BY DEF TypeInv, StoreOK, Directory
  <2> PICK v, m : v = vms[i] /\ m = disk[i].meta
    OBVIOUS
  <2> PICK w : w = Recovered(i)
    OBVIOUS
  <2>5. w.slot = v.slot /\ w.pid = v.pid /\ w.state = v.state
    BY <2>1, <2>2, Zenon DEF Recovered, Reconciled, Matches, Up, Vm
  <2>6. v = [state |-> v.state, pid |-> v.pid, slot |-> v.slot]
    BY <2>2 DEF Vm
  <2>7. w = [state |-> w.state, pid |-> w.pid, slot |-> w.slot]
    BY ZenonT(30) DEF Recovered, Reconciled
  <2> QED BY <2>5, <2>6, <2>7
<1> QED BY <1>1, <1>2, <1>3, PTL DEF Spec
=============================================================================
