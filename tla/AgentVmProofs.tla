--------------------------- MODULE AgentVmProofs ---------------------------
(***************************************************************************)
(* What holds of the VM manager for any number of VMs, requests, processes *)
(* and slots.                                                              *)
(***************************************************************************)
EXTENDS AgentVm, TLAPS

StoreOK ==
    /\ vms \in [Ids -> Vm]
    /\ used \subseteq Slots
    /\ capturing \subseteq Ids
    /\ fc \in [Pids -> Process]
    /\ disk \in [Ids -> Directory]

\* The pcs at which a request needs a snapshot.
Snapshotting == {"look", "snapshot", "thaw", "copy", "register"}

\* A request under way names its VM, a fork its parent, and only a sleep and a
\* fork take snapshots: what the steps of a request rely on.
RequestsOK ==
    /\ req \in [Reqs -> Request]
    /\ \A r \in Reqs :
         /\ req[r].pc # "idle" => req[r].id \in Ids
         /\ req[r].op = "fork" => req[r].src \in Ids
         /\ req[r].pc \in Snapshotting =>
              req[r].op = "fork" \/ (req[r].pc = "snapshot" /\ req[r].op = "sleep")

TypeInv == StoreOK /\ RequestsOK

\* The constant records have their types.
LEMMA ConstantRecords ==
    /\ NoVm \in Vm
    /\ Gone \in Process
    /\ NoDir \in Directory
    /\ Idle \in Request
BY AgentAssumption, Zenon DEF NoVm, Gone, NoDir, Idle, Vm, Process, Directory, Request, OpNames, Pcs

\* The manager starts well typed.
LEMMA InitType == Init => TypeInv
BY ConstantRecords DEF Init, TypeInv, StoreOK, RequestsOK, Snapshotting, Idle

\* TypeInv is inductive.
LEMMA NextType == TypeInv /\ [Next]_vars => TypeInv'
<1> USE Zenon

\* Moving on to another pc keeps the requests well formed.
<1>GotoType. ASSUME RequestsOK, NEW r \in Reqs, NEW pc \in Pcs, Goto(r, pc),
                    req[r].pc # "idle",
                    pc \in Snapshotting =>
                        req[r].op = "fork" \/ (pc = "snapshot" /\ req[r].op = "sleep")
             PROVE  RequestsOK'
  BY <1>GotoType, ZenonT(30) DEF RequestsOK, Goto, Request

\* So does finishing a request, with or without success.
<1>DoneType. ASSUME RequestsOK, NEW r \in Reqs, Done(r)
             PROVE  RequestsOK'
  BY <1>DoneType, ConstantRecords DEF RequestsOK, Done, Idle, Request, Snapshotting

\* set_state and set_pid keep the records well typed.
<1>SetType. ASSUME StoreOK, NEW i \in Ids,
                   \/ \E s \in {"running", "paused", "sleeping", "stopped", "error"} : SetState(i, s)
                   \/ \E p \in Pids \cup {None} : SetPid(i, p)
            PROVE  vms' \in [Ids -> Vm]
  BY <1>SetType, SMT DEF StoreOK, SetState, SetPid, Vm

\* A killed process leaves a well-typed process table.
<1>KilledType. ASSUME StoreOK, NEW p \in Pids
               PROVE  Killed(p) \in [Pids -> Process]
  BY <1>KilledType, ConstantRecords DEF StoreOK, Killed, Gone, Process

\* So does one that is frozen or thawed.
<1>PausedType. ASSUME StoreOK, NEW p \in Pids, NEW b \in BOOLEAN
               PROVE  [fc EXCEPT ![p].paused = b] \in [Pids -> Process]
  BY <1>PausedType DEF StoreOK, Process

\* A request that fails returns to the caller or marks its VM as failed.
<1>FailType. ASSUME RequestsOK, NEW r \in Reqs, req[r].pc # "idle", Goto(r, "fail") \/ Done(r)
             PROVE  RequestsOK'
  BY <1>FailType, <1>GotoType, <1>DoneType DEF Pcs, Snapshotting

\* Each way of starting a request keeps the types.
<1>BeginType. ASSUME TypeInv, NEW r \in Reqs, NEW i \in Ids, Begin(r, i)
              PROVE  TypeInv'
  <2> USE <1>BeginType
  <2> USE ConstantRecords, AgentAssumption DEF TypeInv, StoreOK, RequestsOK, Snapshotting
  <2>1. CASE Create(r, i)
    BY <2>1, SMT DEF Create, NoVm, Vm, Enter, Request, OpNames, Pcs
  <2>2. CASE Start(r, i)
    BY <2>2, SMT DEF Start, Enter, Vm, Request, OpNames, Pcs
  <2>3. CASE Wake(r, i)
    BY <2>3, SMT DEF Wake, Enter, Vm, Request, OpNames, Pcs
  <2>4. CASE Sleep(r, i)
    BY <2>4, SMT DEF Sleep, Enter, Vm, Request, OpNames, Pcs
  <2>5. CASE Pause(r, i)
    BY <2>5, ZenonT(30) DEF Pause, Enter, Vm, Request, OpNames, Pcs
  <2>6. CASE Resume(r, i)
    BY <2>6, SMT DEF Resume, Enter, Vm, Request, OpNames, Pcs
  <2>7. CASE Stop(r, i)
    BY <2>7, SMT DEF Stop, Enter, Vm, Request, OpNames, Pcs
  <2>8. CASE Delete(r, i)
    BY <2>8, SMT DEF Delete, EnterDelete, Enter, Vm, Request, OpNames, Pcs
  <2>9. CASE BeginCapture(r, i)
    BY <2>9, ZenonT(30) DEF BeginCapture, Enter, Vm, Request, OpNames, Pcs
  <2>10. CASE \E c \in Ids : Fork(r, i, c)
    BY <2>10, SMT DEF Fork, Vm, Request, OpNames, Pcs
  <2> QED
    BY <2>1, <2>2, <2>3, <2>4, <2>5, <2>6, <2>7, <2>8, <2>9, <2>10 DEF Begin

\* Each later step of a request keeps the types.
<1>StepType. ASSUME TypeInv, NEW r \in Reqs, Step(r)
             PROVE  TypeInv'
  <2> USE <1>StepType
  <2> USE ConstantRecords, AgentAssumption DEF TypeInv, At
  <2>0. req[r] \in Request
    BY DEF RequestsOK
  <2>1. CASE PrepareDir(r)
    <3> USE <2>1
    <3>1. RequestsOK'
      BY <1>GotoType DEF PrepareDir, RequestsOK, Pcs, Snapshotting
    <3>2. StoreOK'
      <4>1. req[r].id \in Ids
        BY <2>0 DEF PrepareDir, RequestsOK
      <4>2. [disk EXCEPT ![req[r].id].here = TRUE] \in [Ids -> Directory]
        BY <4>1 DEF StoreOK, Directory
      <4>3. disk' \in {disk, [disk EXCEPT ![req[r].id].here = TRUE]}
        BY DEF PrepareDir
      <4> QED BY <4>2, <4>3, SMT DEF PrepareDir, StoreOK
    <3> QED BY <3>1, <3>2, SMT
  <2>2. CASE ClaimSlot(r)
    <3> USE <2>2
    <3>1. RequestsOK'
      <4>1. ASSUME NEW s \in Slots,
                   req' = [req EXCEPT ![r].slot = s, ![r].pc = "spawn"]
            PROVE  RequestsOK'
        <5> USE <4>1
        <5>1. req[r].pc # "idle"
          BY DEF ClaimSlot
        <5>2. req' \in [Reqs -> Request]
          <6>1. "spawn" \in Pcs
            BY DEF Pcs
          <6>2. [req[r] EXCEPT !.slot = s, !.pc = "spawn"] \in Request
            BY <2>0, <6>1 DEF Request
          <6>3. req' = [req EXCEPT ![r] = [req[r] EXCEPT !.slot = s, !.pc = "spawn"]]
            BY DEF RequestsOK
          <6> QED BY <6>2, <6>3, SMT DEF RequestsOK
        <5>3. /\ req'[r].id = req[r].id /\ req'[r].op = req[r].op /\ req'[r].src = req[r].src
              /\ req'[r].pc = "spawn"
              /\ \A q \in Reqs \ {r} : req'[q] = req[q]
          BY <2>0 DEF RequestsOK, Request
        <5> QED BY <5>1, <5>2, <5>3, SMT DEF RequestsOK, Snapshotting
      <4> QED
        BY <4>1, <1>FailType DEF ClaimSlot
    <3>2. StoreOK'
      BY <2>0 DEF ClaimSlot, StoreOK, RequestsOK, Request
    <3> QED BY <3>1, <3>2, SMT
  <2>3. CASE TapFails(r)
    <3> USE <2>3
    <3>1. RequestsOK'
      BY <1>GotoType, <1>DoneType DEF TapFails, RequestsOK, Pcs, Snapshotting
    <3>2. StoreOK'
      BY <2>0 DEF TapFails, StoreOK, RequestsOK, Request
    <3> QED BY <3>1, <3>2, SMT
  <2>4. CASE Spawn(r)
    <3> USE <2>4
    <3>1. RequestsOK'
      BY <1>DoneType, SMT DEF Spawn, RequestsOK, Snapshotting, Request, Pcs
    <3>2. StoreOK'
      BY <2>0, SMT DEF Spawn, StoreOK, RequestsOK, Request, Process
    <3> QED BY <3>1, <3>2, SMT
  <2>5. CASE SpawnFails(r)
    <3> USE <2>5
    <3>1. RequestsOK'
      BY <1>GotoType, <1>DoneType DEF SpawnFails, RequestsOK, Pcs, Snapshotting
    <3>2. StoreOK'
      BY <2>0 DEF SpawnFails, StoreOK, RequestsOK, Request
    <3> QED BY <3>1, <3>2, SMT
  <2>6. CASE Boot(r)
    <3> USE <2>6
    <3>1. RequestsOK'
      BY <1>GotoType DEF Boot, RequestsOK, Pcs, Snapshotting
    <3>2. StoreOK'
      BY <2>0 DEF Boot, StoreOK, RequestsOK, Request, Directory
    <3> QED BY <3>1, <3>2, SMT
  <2>7. CASE BootFails(r)
    <3> USE <2>7
    <3>1. RequestsOK'
      BY <1>GotoType, <1>DoneType DEF BootFails, RequestsOK, Pcs, Snapshotting
    <3>2. StoreOK'
      BY <2>0, <1>KilledType DEF BootFails, StoreOK, RequestsOK, Request, Kill
    <3> QED BY <3>1, <3>2, SMT
  <2>8. CASE Publish(r)
    <3> USE <2>8
    <3>1. RequestsOK'
      BY <1>GotoType DEF Publish, RequestsOK, Pcs, Snapshotting
    <3>2. StoreOK'
      BY <2>0 DEF Publish, StoreOK, RequestsOK, Request, Vm
    <3> QED BY <3>1, <3>2, SMT
  <2>9. CASE MarkFailed(r)
    <3> USE <2>9
    <3>1. RequestsOK'
      BY <1>DoneType DEF MarkFailed, RequestsOK, Pcs, Snapshotting
    <3>2. StoreOK'
      BY <2>0, <1>SetType DEF MarkFailed, StoreOK, RequestsOK, Request
    <3> QED BY <3>1, <3>2, SMT
  <2>10. CASE RecordPid(r)
    <3> USE <2>10
    <3>1. RequestsOK'
      BY <1>GotoType DEF RecordPid, RequestsOK, Pcs, Snapshotting
    <3>2. StoreOK'
      BY <2>0, <1>SetType DEF RecordPid, StoreOK, RequestsOK, Request
    <3> QED BY <3>1, <3>2, SMT
  <2>11. CASE RecordState(r)
    <3> USE <2>11
    <3>1. RequestsOK'
      BY <1>GotoType DEF RecordState, RequestsOK, Pcs, Snapshotting
    <3>2. StoreOK'
      BY <2>0, <1>SetType DEF RecordState, StoreOK, RequestsOK, Request, Goal
    <3> QED BY <3>1, <3>2, SMT
  <2>12. CASE ClearPid(r)
    <3> USE <2>12
    <3>1. RequestsOK'
      BY <1>GotoType DEF ClearPid, RequestsOK, Pcs, Snapshotting
    <3>2. StoreOK'
      BY <2>0, <1>SetType DEF ClearPid, StoreOK, RequestsOK, Request
    <3> QED BY <3>1, <3>2, SMT
  <2>13. CASE SleepKill(r)
    <3> USE <2>13
    <3>1. RequestsOK'
      BY <1>GotoType DEF SleepKill, RequestsOK, Pcs, Snapshotting
    <3>2. StoreOK'
      BY <2>0, <1>KilledType DEF SleepKill, StoreOK, RequestsOK, Request, Kill
    <3> QED BY <3>1, <3>2, SMT
  <2>14. CASE Terminate(r)
    <3> USE <2>14
    <3>1. RequestsOK'
      BY <1>GotoType DEF Terminate, RequestsOK, Pcs, Snapshotting
    <3>2. StoreOK'
      BY <2>0 DEF Terminate, StoreOK, RequestsOK, Request, Process
    <3> QED BY <3>1, <3>2, SMT
  <2>15. CASE StopWaited(r)
    <3> USE <2>15
    <3>1. RequestsOK'
      BY <1>GotoType, <1>DoneType DEF StopWaited, RequestsOK, Pcs, Snapshotting
    <3>2. StoreOK'
      BY <2>0 DEF StopWaited, StoreOK, RequestsOK, Request
    <3> QED BY <3>1, <3>2, SMT
  <2>16. CASE FreeSlot(r)
    <3> USE <2>16
    <3>1. RequestsOK'
      BY <1>GotoType DEF FreeSlot, RequestsOK, Pcs, Snapshotting
    <3>2. StoreOK'
      BY <2>0 DEF FreeSlot, StoreOK, RequestsOK, Request
    <3> QED BY <3>1, <3>2, SMT
  <2>17. CASE RemoveDir(r)
    <3> USE <2>17
    <3>1. RequestsOK'
      BY <1>GotoType DEF RemoveDir, RequestsOK, Pcs, Snapshotting
    <3>2. StoreOK'
      BY <2>0, SMT DEF RemoveDir, StoreOK, RequestsOK, Request
    <3> QED BY <3>1, <3>2, SMT
  <2>26. CASE RemoveRecord(r)
    <3> USE <2>26
    <3>1. RequestsOK'
      BY <1>DoneType DEF RemoveRecord
    <3>2. StoreOK'
      BY <2>0 DEF RemoveRecord, StoreOK, RequestsOK, Request
    <3> QED BY <3>1, <3>2, SMT
  <2>27. CASE ForkLooks(r)
    <3> USE <2>27
    <3>1. req[r].op = "fork"
      BY DEF ForkLooks, RequestsOK, Snapshotting
    <3>2. RequestsOK'
      BY <3>1, <1>GotoType, <1>DoneType DEF ForkLooks, RequestsOK, Pcs, Snapshotting
    <3> QED BY <3>2, SMT DEF ForkLooks, StoreOK
  <2>28. CASE StopLooks(r)
    <3> USE <2>28
    <3>1. vms[req[r].id] \in Vm
      BY DEF StopLooks, StoreOK, RequestsOK
    <3>2. CASE Exists(req[r].id)
      BY <2>0, <3>1, <3>2, SMT DEF StopLooks, StoreOK, RequestsOK, Request, Vm, Pcs, Snapshotting
    <3>3. CASE ~Exists(req[r].id)
      BY <3>3, <1>GotoType DEF StopLooks, StoreOK, Pcs, Snapshotting
    <3> QED BY <3>2, <3>3, SMT
  <2>18. CASE PatchVm(r)
    <3> USE <2>18
    <3>1. RequestsOK'
      BY <1>GotoType DEF PatchVm, RequestsOK, Pcs, Snapshotting
    <3>2. StoreOK'
      <4>1. PICK p \in Pids : fc' = [fc EXCEPT ![p].paused = req[r].op # "resume"]
        BY DEF PatchVm
      <4>2. fc' \in [Pids -> Process]
        BY <4>1, <1>PausedType, (req[r].op # "resume") \in BOOLEAN
      <4> QED BY <4>2, SMT DEF PatchVm, StoreOK
    <3> QED BY <3>1, <3>2, SMT
  <2>19. CASE Snapshot(r)
    <3> USE <2>19
    <3>1. RequestsOK'
      <4>1. req[r].op \in {"sleep", "fork"} /\ req[r].pc = "snapshot"
        BY DEF Snapshot, RequestsOK, Snapshotting
      <4>2. CASE req[r].op = "sleep"
        <5>1. Goto(r, "clearpid")
          BY <4>2 DEF Snapshot
        <5> QED BY <4>1, <5>1, <1>GotoType, SMT DEF Pcs, Snapshotting
      <4>3. CASE req[r].op = "fork"
        <5> USE <4>3
        <5>1. CASE req[r].hot
          <6>1. Goto(r, "thaw")
            BY <5>1 DEF Snapshot
          <6> QED BY <4>1, <6>1, <1>GotoType, SMT DEF Pcs, Snapshotting
        <5>2. CASE ~req[r].hot
          <6>1. Goto(r, "copy")
            BY <5>2 DEF Snapshot
          <6> QED BY <4>1, <6>1, <1>GotoType, SMT DEF Pcs, Snapshotting
        <5> QED BY <5>1, <5>2, SMT
      <4> QED BY <4>1, <4>2, <4>3, SMT
    <3>2. StoreOK'
      BY <2>0, SMT DEF Snapshot, StoreOK, RequestsOK, Request, Subject, Directory
    <3> QED BY <3>1, <3>2, SMT
  <2>20. CASE Thaw(r)
    <3> USE <2>20
    <3>1. RequestsOK'
      BY <1>GotoType DEF Thaw, RequestsOK, Pcs, Snapshotting
    <3>2. StoreOK'
      <4>1. fc' \in [Pids -> Process]
        BY <1>PausedType DEF Thaw
      <4>2. disk' \in [Ids -> Directory]
        BY DEF Thaw, StoreOK, Directory
      <4> QED BY <4>1, <4>2, SMT DEF Thaw, StoreOK
    <3> QED BY <3>1, <3>2, SMT
  <2>21. CASE FcCallFails(r)
    <3> USE <2>21
    <3>1. RequestsOK'
      BY <1>DoneType DEF FcCallFails, RequestsOK, Pcs, Snapshotting
    <3>2. UNCHANGED <<vms, used, capturing, fc, disk>>
      BY DEF FcCallFails
    <3>3. StoreOK'
      BY <3>2 DEF StoreOK
    <3> QED BY <3>1, <3>3, SMT
  <2>22. CASE CopyParent(r)
    <3> USE <2>22
    <3>1. RequestsOK'
      BY <1>GotoType, <1>DoneType DEF CopyParent, RequestsOK, Pcs, Snapshotting
    <3>2. StoreOK'
      <4>1. disk[req[r].src] \in Directory
        BY DEF CopyParent, StoreOK, RequestsOK, Snapshotting
      <4>2. /\ [NoDir EXCEPT !.here = TRUE, !.snap = disk[req[r].src].snap] \in Directory
            /\ [NoDir EXCEPT !.here = TRUE] \in Directory
        BY <4>1 DEF NoDir, Directory
      <4> QED BY <4>2, SMT DEF CopyParent, StoreOK
    <3> QED BY <3>1, <3>2, SMT
  <2>23. CASE Register(r)
    <3> USE <2>23
    <3>1. RequestsOK'
      BY <1>GotoType DEF Register, RequestsOK, Pcs, Snapshotting
    <3>2. StoreOK'
      BY <2>0 DEF Register, StoreOK, RequestsOK, Request, NoVm, Vm
    <3> QED BY <3>1, <3>2, SMT
  <2>24. CASE SaveMeta(r)
    <3> USE <2>24
    <3>1. RequestsOK'
      BY <1>GotoType, <1>DoneType DEF SaveMeta, RequestsOK, Pcs, Snapshotting
    <3>2. StoreOK'
      BY <2>0 DEF SaveMeta, StoreOK, RequestsOK, Request, WriteMeta, Directory
    <3> QED BY <3>1, <3>2, SMT
  <2>25. CASE Commit(r)
    <3> USE <2>25
    <3>1. RequestsOK'
      <4>1. CASE EnterDelete(r, "rollback", req[r].id)
        <5>1. vms[req[r].id] \in Vm
          BY DEF Commit, StoreOK, RequestsOK
        <5> QED
          BY <4>1, <5>1, ZenonT(30) DEF Commit, EnterDelete, Enter, RequestsOK, Request, Vm, OpNames, Pcs,
             Snapshotting
      <4> QED BY <4>1, <1>DoneType, SMT DEF Commit
    <3>2. StoreOK'
      BY <2>0 DEF Commit, StoreOK, RequestsOK, Request
    <3> QED BY <3>1, <3>2, SMT
  <2> QED
    BY <2>1, <2>2, <2>3, <2>4, <2>5, <2>6, <2>7, <2>8, <2>9, <2>10, <2>11, <2>12, <2>13, <2>14,
       <2>15, <2>16, <2>17, <2>18, <2>19, <2>20, <2>21, <2>22, <2>23, <2>24, <2>25, <2>26, <2>27, <2>28
       DEF Step

\* The end of a capture, a cancelled request, the processes, the background
\* loops and a restart of the agent keep the types.
<1>BackgroundType. ASSUME TypeInv,
                          \/ \E r \in Reqs : EndCapture(r) \/ Cancel(r)
                          \/ \E p \in Pids : FcExits(p) \/ Reap(p)
                          \/ \E i \in Ids : SweepDead(i)
                          \/ Restart
                          \/ Reboot
                   PROVE  TypeInv'
  <2> USE <1>BackgroundType
  <2> USE ConstantRecords, AgentAssumption DEF TypeInv
  <2>1. CASE \E r \in Reqs : EndCapture(r) \/ Cancel(r)
    BY <2>1, <1>DoneType DEF EndCapture, Cancel, StoreOK
  <2>2. ASSUME NEW p \in Pids, FcExits(p) PROVE TypeInv'
    BY <2>2, <1>KilledType DEF FcExits, StoreOK, RequestsOK
  <2>3. ASSUME NEW i, NEW p \in Pids, OnFcExit(i, p)
        PROVE  vms' \in [Ids -> Vm] /\ disk' \in [Ids -> Directory]
    <3> USE <2>3
    <3>1. CASE vms[i].pid = p /\ HasProcess(vms[i].state) /\ i \in Ids
      <4> USE <3>1
      <4>1. [vms[i] EXCEPT !.state = "error", !.pid = None] \in Vm
        BY DEF StoreOK, Vm
      <4> QED BY <4>1, SMT DEF OnFcExit, WriteMeta, StoreOK, Directory
    <3>2. CASE i \notin Ids
      BY <3>2 DEF OnFcExit, WriteMeta, StoreOK
    <3> QED BY <3>1, <3>2, SMT DEF OnFcExit, StoreOK
  <2>4. ASSUME NEW p \in Pids, Reap(p) PROVE TypeInv'
    BY <2>3, <2>4 DEF Reap, StoreOK, RequestsOK
  <2>5. ASSUME NEW i \in Ids, SweepDead(i) PROVE TypeInv'
    BY <2>3, <2>5 DEF SweepDead, StoreOK, RequestsOK, Vm
  <2>6. ASSUME NEW procs \in [Pids -> Process], Comeback(procs) PROVE TypeInv'
    BY <2>6 DEF Comeback, Reconciled, StoreOK, RequestsOK, Snapshotting, Vm, Directory, Idle
  <2>7. CASE Restart
    <3>1. [p \in Pids |-> IF fc[p].live THEN [fc[p] EXCEPT !.child = FALSE] ELSE Gone]
            \in [Pids -> Process]
      BY DEF StoreOK, Process
    <3> QED BY <2>6, <2>7, <3>1, SMT DEF Restart
  <2>8. CASE Reboot
    BY <2>6, <2>8 DEF Reboot
  <2> QED BY <2>1, <2>2, <2>4, <2>5, <2>7, <2>8, SMT

<1> SUFFICES ASSUME TypeInv, [Next]_vars PROVE TypeInv'
  OBVIOUS
<1>1. CASE UNCHANGED vars
  BY <1>1 DEF vars, TypeInv, StoreOK, RequestsOK
<1>2. CASE Next
  BY <1>2, <1>BeginType, <1>StepType, <1>BackgroundType DEF Next
<1> QED BY <1>1, <1>2, SMT

\* Every variable of the manager keeps its type, whatever the clients send, in
\* whatever order the tasks run, fail, are cancelled or die with the agent.
THEOREM TypeCorrect == Spec => []TypeOK
<1>1. TypeInv => TypeOK
  BY Zenon DEF TypeInv, StoreOK, RequestsOK, TypeOK
<1> QED
  BY <1>1, InitType, NextType, PTL DEF Spec

----------------------------------------------------------------------------
(* Whose process a pid names.  Pids travel from requests to records, from  *)
(* records to requests and to meta.json, and from there back to records.   *)

Owner(i, p) == p # None /\ fc[p].live => fc[p].dir = i

PidInv ==
    /\ \A i \in Ids : Owner(i, vms[i].pid) /\ Owner(i, disk[i].meta.pid)
    /\ \A r \in Reqs : Owner(req[r].id, req[r].pid)

\* No process starts, and none changes hands.
FcsMove == \A p \in Pids : fc'[p].live => fc[p].live /\ fc'[p].dir = fc[p].dir

\* A record keeps its pid, takes one from its meta.json or from a request on it.
VmsMove ==
    \A i \in Ids : \/ vms'[i].pid \in {vms[i].pid, disk[i].meta.pid, None}
                   \/ \E r \in Reqs : req[r].id = i /\ vms'[i].pid = req[r].pid

\* A meta.json keeps its pid or takes that of the record.
DisksMove == \A i \in Ids : disk'[i].meta.pid \in {disk[i].meta.pid, vms[i].pid, None}

\* A request keeps its pid or takes that of its record.
ReqsMove ==
    \A r \in Reqs : \/ req'[r].pid = None
                    \/ req'[r].id = req[r].id /\ req'[r].pid = req[r].pid
                    \/ req'[r].id \in Ids /\ req'[r].pid = vms[req'[r].id].pid

\* A step that starts no process, and moves pids between a VM's record, its
\* meta.json and the requests on it only.
PidsMove == FcsMove /\ VmsMove /\ DisksMove /\ ReqsMove

\* Unless the host reuses a pid that a meta.json still names, a live process
\* that a record names is the FC of that VM, however requests interleave, are
\* cancelled or are cut short by a restart.
THEOREM PidOwnership ==
    ASSUME "reuse" \notin Faults
    PROVE  Spec => []PidOwned

\* Such a step mixes up no two VMs.
<1>MovedPids. ASSUME TypeInv, PidInv, PidsMove
              PROVE  PidInv'
  <2> USE <1>MovedPids, Zenon
  <2> DEFINE Safe(i, p) == p = None \/ (p \in Pids /\ Owner(i, p))
  <2>1. ASSUME NEW i, NEW p, Safe(i, p) PROVE Owner(i, p)'
    BY <2>1 DEF Owner, PidsMove, FcsMove
  <2>2. ASSUME NEW i \in Ids PROVE Safe(i, vms[i].pid) /\ Safe(i, disk[i].meta.pid)
    BY <2>2 DEF PidInv, TypeInv, StoreOK, Vm, Directory
  <2>3. ASSUME NEW r \in Reqs PROVE Safe(req[r].id, req[r].pid)
    BY <2>3 DEF PidInv, TypeInv, RequestsOK, Request
  <2> HIDE DEF Safe
  <2>4. ASSUME NEW i PROVE Safe(i, None)
    BY DEF Safe
  <2>5. ASSUME NEW i \in Ids PROVE Safe(i, vms'[i].pid) /\ Safe(i, disk'[i].meta.pid)
    BY <2>2, <2>3, <2>4, <2>5 DEF PidsMove, VmsMove, DisksMove
  <2>6. ASSUME NEW r \in Reqs PROVE Safe(req'[r].id, req'[r].pid)
    BY <2>2, <2>3, <2>4, <2>6 DEF PidsMove, ReqsMove
  <2>7. \A i \in Ids : Owner(i, vms[i].pid)' /\ Owner(i, disk[i].meta.pid)'
    BY <2>1, <2>5 DEF Owner
  <2>8. \A r \in Reqs : Owner(req[r].id, req[r].pid)'
    BY <2>1, <2>6 DEF Owner
  <2> QED BY <2>7, <2>8, SMT DEF PidInv

\* What a step leaves alone keeps its pids.
<1>Unmoved. /\ UNCHANGED fc => FcsMove
            /\ UNCHANGED vms => VmsMove
            /\ UNCHANGED disk => DisksMove
  BY Zenon DEF FcsMove, VmsMove, DisksMove

\* Moving on and finishing leave the pid of a request alone or forget it.
<1>GotoDonePids. ASSUME TypeInv, NEW r \in Reqs, (\E pc \in Pcs : Goto(r, pc)) \/ Done(r)
                 PROVE  ReqsMove
  <2> USE <1>GotoDonePids
  <2>1. req \in [Reqs -> Request]
    BY Zenon DEF TypeInv, RequestsOK
  <2>2. ASSUME NEW pc \in Pcs, Goto(r, pc) PROVE ReqsMove
    <3>1. [req[r] EXCEPT !.pc = pc].pid = req[r].pid /\ [req[r] EXCEPT !.pc = pc].id = req[r].id
      BY <2>1, Zenon DEF Request
    <3>2. \A q \in Reqs : req'[q].pid = req[q].pid /\ req'[q].id = req[q].id
      BY <2>1, <2>2, <3>1, Zenon DEF Goto
    <3> QED BY <3>2 DEF ReqsMove
  <2>3. CASE Done(r)
    <3>1. \A q \in Reqs : req'[q] = IF q = r THEN Idle ELSE req[q]
      BY <2>1, <2>3, Zenon DEF Done
    <3>2. Idle.pid = None
      BY Zenon DEF Idle
    <3> QED BY <3>1, <3>2 DEF ReqsMove
  <2> QED BY <2>2, <2>3

\* A request that is entered with a pid has it from the record of its VM.
<1>EnterPids. ASSUME TypeInv, NEW r \in Reqs, NEW op, NEW i \in Ids, NEW pc, NEW slot,
                     \/ Enter(r, op, i, pc, None, slot)
                     \/ Enter(r, op, i, pc, vms[i].pid, slot)
              PROVE  ReqsMove
  <2> USE <1>EnterPids
  <2>1. req \in [Reqs -> Request]
    BY Zenon DEF TypeInv, RequestsOK
  <2> PICK x : /\ req' = [req EXCEPT ![r] = x]
                 /\ x.id = i /\ x.pid \in {None, vms[i].pid}
    BY Zenon DEF Enter
  <2>3. \A q \in Reqs : req'[q] = IF q = r THEN x ELSE req[q]
    BY <2>1, Zenon
  <2> QED BY <2>3 DEF ReqsMove

\* The presence and the snapshot of a directory have no bearing on its meta.json.
<1>DirPids. ASSUME TypeInv, NEW i \in Ids, NEW x,
                   \/ disk' = [disk EXCEPT ![i].here = x]
                   \/ disk' = [disk EXCEPT ![i].snap = x]
            PROVE  DisksMove
  <2> USE <1>DirPids, Zenon
  <2>1. disk \in [Ids -> Directory]
    BY DEF TypeInv, StoreOK
  <2>2. /\ [disk[i] EXCEPT !.here = x].meta = disk[i].meta
        /\ [disk[i] EXCEPT !.snap = x].meta = disk[i].meta
    BY <2>1 DEF Directory
  <2>3. PICK d : disk' = [disk EXCEPT ![i] = d] /\ d.meta = disk[i].meta
    BY <2>2
  <2>4. \A j \in Ids : disk'[j].meta = disk[j].meta
    BY <2>1, <2>3
  <2> QED BY <2>4, SMT DEF DisksMove

\* Nor does a directory without a meta.json name a pid.
<1>NewDirPids. ASSUME TypeInv, NEW i \in Ids, NEW d, d.meta.pid = None, disk' = [disk EXCEPT ![i] = d]
               PROVE  DisksMove
  <2> USE <1>NewDirPids
  <2>1. \A j \in Ids : disk'[j] = IF j = i THEN d ELSE disk[j]
    BY Zenon DEF TypeInv, StoreOK
  <2> QED BY <2>1 DEF DisksMove

\* write_meta copies the pid of a record.
<1>WritePids. ASSUME TypeInv, NEW i \in Ids, NEW vm, vm.pid \in {vms[i].pid, None}, WriteMeta(i, vm)
              PROVE  DisksMove
  <2> USE <1>WritePids, Zenon
  <2>1. disk \in [Ids -> Directory]
    BY DEF TypeInv, StoreOK
  <2>2. \A x : [disk[i] EXCEPT !.meta = x].meta = x
    BY <2>1 DEF Directory
  <2> PICK x : disk' = [disk EXCEPT ![i].meta = x] /\ x.pid \in {disk[i].meta.pid, vms[i].pid, None}
    BY DEF WriteMeta
  <2>4. \A j \in Ids : disk'[j] = IF j = i THEN [disk[i] EXCEPT !.meta = x] ELSE disk[j]
    BY <2>1
  <2> QED BY <2>2, <2>4, SMT DEF DisksMove

\* A record that is replaced by one without a pid, or with that of a request.
<1>NewVmPids. ASSUME TypeInv, NEW i \in Ids, NEW v, vms' = [vms EXCEPT ![i] = v],
                     \/ v.pid \in {vms[i].pid, None}
                     \/ \E r \in Reqs : req[r].id = i /\ v.pid = req[r].pid
              PROVE  VmsMove
  <2> USE <1>NewVmPids
  <2>1. \A j \in Ids : vms'[j] = IF j = i THEN v ELSE vms[j]
    BY Zenon DEF TypeInv, StoreOK
  <2> QED BY <2>1 DEF VmsMove

\* set_state has no bearing on the pid.
<1>SetStatePids. ASSUME TypeInv, NEW i \in Ids, NEW t, SetState(i, t)
                 PROVE  VmsMove
  <2> USE <1>SetStatePids, Zenon
  <2>1. vms[i] \in Vm
    BY DEF TypeInv, StoreOK
  <2>2. PICK x : vms' = [vms EXCEPT ![i].state = x]
    BY DEF SetState
  <2>3. [vms[i] EXCEPT !.state = x].pid = vms[i].pid
    BY <2>1 DEF Vm
  <2>4. vms' = [vms EXCEPT ![i] = [vms[i] EXCEPT !.state = x]]
    BY <2>2
  <2> QED BY <2>3, <2>4, <1>NewVmPids

\* set_pid records the pid of the request, or none.
<1>SetPidPids. ASSUME TypeInv, NEW i \in Ids, NEW p, SetPid(i, p),
                      p = None \/ \E r \in Reqs : req[r].id = i /\ p = req[r].pid
               PROVE  VmsMove
  <2> USE <1>SetPidPids, Zenon
  <2>1. vms[i] \in Vm
    BY DEF TypeInv, StoreOK
  <2> PICK x : vms' = [vms EXCEPT ![i].pid = x] /\ x \in {p, vms[i].pid}
    BY DEF SetPid
  <2>3. [vms[i] EXCEPT !.pid = x].pid = x
    BY <2>1 DEF Vm
  <2>4. vms' = [vms EXCEPT ![i] = [vms[i] EXCEPT !.pid = x]]
    OBVIOUS
  <2> QED BY <2>3, <2>4, <1>NewVmPids

\* A process that is replaced by a dead one, or one that is live only if it was
\* and in the same directory.
<1>NewFcPids. ASSUME TypeInv, NEW p \in Pids, NEW x, fc' = [fc EXCEPT ![p] = x],
                     x.live => fc[p].live /\ x.dir = fc[p].dir
              PROVE  FcsMove
  <2> USE <1>NewFcPids
  <2>1. \A q \in Pids : fc'[q] = IF q = p THEN x ELSE fc[q]
    BY Zenon DEF TypeInv, StoreOK
  <2> QED BY <2>1 DEF FcsMove

\* A kill starts no process.
<1>KillPids. ASSUME TypeInv, NEW p \in Pids \cup {None}, Kill(p)
             PROVE  FcsMove
  <2> USE <1>KillPids
  <2>1. CASE p = None
    BY <2>1, <1>Unmoved, Zenon DEF Kill
  <2>2. CASE p # None
    <3> USE <2>2, Zenon
    <3> DEFINE x == IF fc[p].child THEN [Gone EXCEPT !.dir = fc[p].dir, !.child = TRUE] ELSE Gone
    <3>1. fc' = [fc EXCEPT ![p] = x]
      BY DEF Kill, Killed
    <3>2. ~x.live
      BY DEF Gone
    <3> HIDE DEF x
    <3> QED BY <3>1, <3>2, <1>NewFcPids
  <2> QED BY <2>1, <2>2

\* Neither does a signal, nor freezing and thawing.
<1>SignalPids. ASSUME TypeInv, NEW p \in Pids, NEW x,
                      fc' = [fc EXCEPT ![p].term = x] \/ fc' = [fc EXCEPT ![p].paused = x]
               PROVE  FcsMove
  <2> USE <1>SignalPids, Zenon
  <2>1. fc[p] \in Process
    BY DEF TypeInv, StoreOK
  <2>2. /\ [fc[p] EXCEPT !.term = x].live = fc[p].live
        /\ [fc[p] EXCEPT !.term = x].dir = fc[p].dir
        /\ [fc[p] EXCEPT !.paused = x].live = fc[p].live
        /\ [fc[p] EXCEPT !.paused = x].dir = fc[p].dir
    BY <2>1 DEF Process
  <2>3. PICK y : fc' = [fc EXCEPT ![p] = y] /\ y.live = fc[p].live /\ y.dir = fc[p].dir
    BY <2>2
  <2> QED BY <2>3, <1>NewFcPids

\* Starting a request hands it at most the pid of its own VM.
<1>BeginPids. ASSUME TypeInv, NEW r \in Reqs, NEW i \in Ids, Begin(r, i)
              PROVE  PidsMove
  <2> USE <1>BeginPids, Zenon
  <2> USE <1>EnterPids, <1>Unmoved DEF PidsMove
  <2>1. CASE Create(r, i)
    <3> USE <2>1
    <3>1. VmsMove
      BY <1>NewVmPids DEF Create, NoVm
    <3> QED BY <3>1, SMT DEF Create
  <2>2. CASE Start(r, i)
    BY <2>2 DEF Start
  <2>3. CASE Wake(r, i)
    BY <2>3 DEF Wake
  <2>4. CASE Sleep(r, i)
    BY <2>4 DEF Sleep
  <2>5. CASE Pause(r, i)
    BY <2>5 DEF Pause
  <2>6. CASE Resume(r, i)
    BY <2>6 DEF Resume
  <2>7. CASE Stop(r, i)
    BY <2>7 DEF Stop
  <2>8. CASE Delete(r, i)
    BY <2>8 DEF Delete, EnterDelete
  <2>9. CASE BeginCapture(r, i)
    BY <2>9 DEF BeginCapture
  <2>10. ASSUME NEW c \in Ids, Fork(r, i, c) PROVE PidsMove
    <3> USE <2>10
    <3> DEFINE x == [op |-> "fork", id |-> c, src |-> i, pid |-> None, slot |-> None,
                     pc |-> "look", hot |-> vms[i].state = "running"]
    <3>1. req' = [req EXCEPT ![r] = x] /\ x.pid = None
      BY DEF Fork
    <3> HIDE DEF x
    <3>2. \A q \in Reqs : req'[q] = IF q = r THEN x ELSE req[q]
      BY <3>1 DEF TypeInv, RequestsOK
    <3>3. ReqsMove
      BY <3>1, <3>2 DEF ReqsMove
    <3> QED BY <3>3, SMT DEF Fork
  <2> QED
    BY <2>1, <2>2, <2>3, <2>4, <2>5, <2>6, <2>7, <2>8, <2>9, <2>10 DEF Begin

\* A later step of a request moves pids within its VM, unless it spawns.
<1>StepPids. ASSUME TypeInv, NEW r \in Reqs, Step(r), ~Spawn(r)
             PROVE  PidsMove
  <2> USE <1>StepPids, Zenon
  <2> USE <1>Unmoved DEF PidsMove
  <2>a. /\ req \in [Reqs -> Request]
        /\ req[r].pid \in Pids \cup {None}
        /\ req[r].pc # "idle" => req[r].id \in Ids
    BY DEF TypeInv, RequestsOK, Request
  <2>1. CASE PrepareDir(r)
    <3> USE <2>1
    <3>1. ReqsMove
      BY <1>GotoDonePids DEF PrepareDir, Pcs
    <3>2. req[r].id \in Ids
      BY <2>a DEF PrepareDir, At
    <3>3. DisksMove
      BY <3>2, <1>DirPids DEF PrepareDir
    <3> QED BY <3>1, <3>2, <3>3, SMT DEF PrepareDir
  <2>2. CASE ClaimSlot(r)
    <3> USE <2>2
    <3>1. ASSUME NEW s \in Slots, req' = [req EXCEPT ![r].slot = s, ![r].pc = "spawn"]
          PROVE  ReqsMove
      <4>1. \A q \in Reqs : req'[q].pid = req[q].pid /\ req'[q].id = req[q].id
        BY <2>a, <3>1 DEF Request
      <4> QED BY <4>1, SMT DEF ReqsMove
    <3>2. ReqsMove
      BY <3>1, <1>GotoDonePids DEF ClaimSlot, Pcs
    <3> QED BY <3>2, SMT DEF ClaimSlot
  <2>3. CASE TapFails(r)
    <3> USE <2>3
    <3>1. ReqsMove
      BY <1>GotoDonePids DEF TapFails, Pcs
    <3> QED BY <3>1, SMT DEF TapFails
  <2>4. CASE SpawnFails(r)
    <3> USE <2>4
    <3>1. ReqsMove
      BY <1>GotoDonePids DEF SpawnFails, Pcs
    <3> QED BY <3>1, SMT DEF SpawnFails
  <2>5. CASE Boot(r)
    <3> USE <2>5
    <3>1. ReqsMove
      BY <1>GotoDonePids DEF Boot, Pcs
    <3>2. req[r].id \in Ids
      BY <2>a DEF Boot, At
    <3>3. DisksMove
      BY <3>2, <1>DirPids DEF Boot
    <3> QED BY <3>1, <3>2, <3>3, SMT DEF Boot
  <2>6. CASE BootFails(r)
    <3> USE <2>6
    <3>1. ReqsMove
      BY <1>GotoDonePids DEF BootFails, Pcs
    <3>2. FcsMove
      BY <2>a, <1>KillPids DEF BootFails
    <3> QED BY <3>1, <3>2, SMT DEF BootFails
  <2>7. CASE Publish(r)
    <3> USE <2>7
    <3>1. ReqsMove
      BY <1>GotoDonePids DEF Publish, Pcs
    <3>2. req[r].id \in Ids
      BY <2>a DEF Publish, At
    <3>3. VmsMove
      <4> DEFINE v == IF Exists(req[r].id)
                      THEN [state |-> "running", pid |-> req[r].pid, slot |-> req[r].slot]
                      ELSE vms[req[r].id]
      <4>1. vms' = [vms EXCEPT ![req[r].id] = v]
        BY DEF Publish
      <4>2. v.pid = vms[req[r].id].pid \/ v.pid = req[r].pid
        OBVIOUS
      <4> HIDE DEF v
      <4> QED BY <3>2, <4>1, <4>2, <1>NewVmPids
    <3> QED BY <3>1, <3>2, <3>3, SMT DEF Publish
  <2>8. CASE MarkFailed(r)
    <3> USE <2>8
    <3>1. ReqsMove
      BY <1>GotoDonePids DEF MarkFailed, Pcs
    <3>2. req[r].id \in Ids
      BY <2>a DEF MarkFailed, At
    <3>3. VmsMove
      BY <3>2, <1>SetStatePids DEF MarkFailed
    <3> QED BY <3>1, <3>2, <3>3, SMT DEF MarkFailed
  <2>9. CASE RecordPid(r)
    <3> USE <2>9
    <3>1. ReqsMove
      BY <1>GotoDonePids DEF RecordPid, Pcs
    <3>2. req[r].id \in Ids
      BY <2>a DEF RecordPid, At
    <3>3. VmsMove
      BY <3>2, <1>SetPidPids DEF RecordPid
    <3> QED BY <3>1, <3>2, <3>3, SMT DEF RecordPid
  <2>10. CASE RecordState(r)
    <3> USE <2>10
    <3>1. ReqsMove
      BY <1>GotoDonePids DEF RecordState, Pcs
    <3>2. req[r].id \in Ids
      BY <2>a DEF RecordState, At
    <3>3. VmsMove
      BY <3>2, <1>SetStatePids DEF RecordState
    <3> QED BY <3>1, <3>2, <3>3, SMT DEF RecordState
  <2>11. CASE ClearPid(r)
    <3> USE <2>11
    <3>1. ReqsMove
      BY <1>GotoDonePids DEF ClearPid, Pcs
    <3>2. req[r].id \in Ids
      BY <2>a DEF ClearPid, At
    <3>3. VmsMove
      BY <3>2, <1>SetPidPids DEF ClearPid
    <3> QED BY <3>1, <3>2, <3>3, SMT DEF ClearPid
  <2>12. CASE SleepKill(r)
    <3> USE <2>12
    <3>1. ReqsMove
      BY <1>GotoDonePids DEF SleepKill, Pcs
    <3>2. FcsMove
      BY <2>a, <1>KillPids DEF SleepKill
    <3> QED BY <3>1, <3>2, SMT DEF SleepKill
  <2>13. CASE Terminate(r)
    <3> USE <2>13
    <3>1. ReqsMove
      BY <1>GotoDonePids DEF Terminate, Pcs
    <3>2. FcsMove
      BY <2>a, <1>SignalPids DEF Terminate
    <3> QED BY <3>1, <3>2, SMT DEF Terminate
  <2>14. CASE StopWaited(r)
    <3> USE <2>14
    <3>1. ReqsMove
      BY <1>GotoDonePids DEF StopWaited, Pcs
    <3> QED BY <3>1, SMT DEF StopWaited
  <2>15. CASE FreeSlot(r)
    <3> USE <2>15
    <3>1. ReqsMove
      BY <1>GotoDonePids DEF FreeSlot, Pcs
    <3> QED BY <3>1, SMT DEF FreeSlot
  <2>16. CASE RemoveDir(r)
    <3> USE <2>16
    <3>1. ReqsMove
      BY <1>GotoDonePids DEF RemoveDir, Pcs
    <3>2. req[r].id \in Ids
      BY <2>a DEF RemoveDir, At
    <3>3. DisksMove
      <4>1. NoDir.meta.pid = None
        BY DEF NoDir, NoVm
      <4> QED BY <3>2, <4>1, <1>NewDirPids, SMT DEF RemoveDir
    <3> QED BY <3>1, <3>2, <3>3, SMT DEF RemoveDir
  <2>17. CASE RemoveRecord(r)
    <3> USE <2>17
    <3>1. ReqsMove
      BY <1>GotoDonePids DEF RemoveRecord, Pcs
    <3>2. req[r].id \in Ids
      BY <2>a DEF RemoveRecord, At
    <3>3. VmsMove
      <4>1. NoVm.pid = None
        BY DEF NoVm
      <4> QED BY <3>2, <4>1, <1>NewVmPids DEF RemoveRecord
    <3> QED BY <3>1, <3>2, <3>3, SMT DEF RemoveRecord
  <2>18. CASE ForkLooks(r)
    <3> USE <2>18
    <3>1. ReqsMove
      BY <1>GotoDonePids DEF ForkLooks, Pcs
    <3> QED BY <3>1, SMT DEF ForkLooks
  <2>19. CASE StopLooks(r)
    <3> USE <2>19
    <3>1. req[r].id \in Ids
      BY <2>a DEF StopLooks, At
    <3>2. CASE Exists(req[r].id)
      <4>1. req' = [req EXCEPT ![r].pid = vms[req[r].id].pid, ![r].pc = "setstate"]
        BY <3>2 DEF StopLooks
      <4>2. /\ req'[r].pid = vms[req[r].id].pid /\ req'[r].id = req[r].id
            /\ \A q \in Reqs \ {r} : req'[q] = req[q]
        BY <2>a, <4>1 DEF Request
      <4>3. ReqsMove
        BY <3>1, <4>2 DEF ReqsMove
      <4> QED BY <4>3, SMT DEF StopLooks
    <3>3. CASE ~Exists(req[r].id)
      <4>1. ReqsMove
        BY <3>3, <1>GotoDonePids DEF StopLooks, Pcs
      <4> QED BY <4>1, SMT DEF StopLooks
    <3> QED BY <3>2, <3>3, SMT
  <2>20. CASE PatchVm(r)
    <3> USE <2>20
    <3>1. ReqsMove
      BY <1>GotoDonePids DEF PatchVm, Pcs
    <3>2. FcsMove
      BY <1>SignalPids DEF PatchVm
    <3> QED BY <3>1, <3>2, SMT DEF PatchVm
  <2>21. CASE Snapshot(r)
    <3> USE <2>21
    <3>1. ReqsMove
      BY <1>GotoDonePids DEF Snapshot, Pcs
    <3>2. Subject(r) \in Ids
      BY <2>a DEF Snapshot, At, Subject, TypeInv, RequestsOK
    <3>3. DisksMove
      BY <3>2, <1>DirPids DEF Snapshot
    <3> QED BY <3>1, <3>2, <3>3, SMT DEF Snapshot
  <2>22. CASE Thaw(r)
    <3> USE <2>22
    <3>1. ReqsMove
      BY <1>GotoDonePids DEF Thaw, Pcs
    <3>2. Subject(r) \in Ids
      BY <2>a DEF Thaw, At, Subject, TypeInv, RequestsOK
    <3>3. DisksMove
      BY <3>2, <1>DirPids DEF Thaw
    <3>4. FcsMove
      BY <1>SignalPids DEF Thaw
    <3> QED BY <3>1, <3>2, <3>3, <3>4, SMT DEF Thaw
  <2>23. CASE FcCallFails(r)
    <3> USE <2>23
    <3>1. ReqsMove
      BY <1>GotoDonePids DEF FcCallFails, Pcs
    <3> QED BY <3>1, SMT DEF FcCallFails
  <2>24. CASE CopyParent(r)
    <3> USE <2>24
    <3>1. ReqsMove
      BY <1>GotoDonePids DEF CopyParent, Pcs
    <3>2. req[r].id \in Ids
      BY <2>a DEF CopyParent, At
    <3>3. DisksMove
      <4>1. /\ \A x : [NoDir EXCEPT !.here = TRUE, !.snap = x].meta.pid = None
            /\ [NoDir EXCEPT !.here = TRUE].meta.pid = None
        BY DEF NoDir, NoVm
      <4>2. PICK d : disk' = [disk EXCEPT ![req[r].id] = d] /\ d.meta.pid = None
        BY <4>1 DEF CopyParent
      <4> QED BY <3>2, <4>2, <1>NewDirPids
    <3> QED BY <3>1, <3>2, <3>3, SMT DEF CopyParent
  <2>25. CASE Register(r)
    <3> USE <2>25
    <3>1. ReqsMove
      BY <1>GotoDonePids DEF Register, Pcs
    <3>2. req[r].id \in Ids
      BY <2>a DEF Register, At
    <3>3. VmsMove
      <4>1. [NoVm EXCEPT !.state = "creating"].pid = None
        BY DEF NoVm
      <4> QED BY <3>2, <4>1, <1>NewVmPids DEF Register
    <3> QED BY <3>1, <3>2, <3>3, SMT DEF Register
  <2>26. CASE SaveMeta(r)
    <3> USE <2>26
    <3>1. ReqsMove
      BY <1>GotoDonePids DEF SaveMeta, Pcs
    <3>2. req[r].id \in Ids
      BY <2>a DEF SaveMeta, At
    <3>3. DisksMove
      BY <3>2, <1>WritePids, SMT DEF SaveMeta
    <3> QED BY <3>1, <3>2, <3>3, SMT DEF SaveMeta
  <2>27. CASE Commit(r)
    <3> USE <2>27
    <3>1. req[r].id \in Ids
      BY <2>a DEF Commit, At
    <3>2. ReqsMove
      BY <3>1, <1>GotoDonePids, <1>EnterPids DEF Commit, EnterDelete
    <3> QED BY <3>2, SMT DEF Commit
  <2> QED
    BY <2>1, <2>2, <2>3, <2>4, <2>5, <2>6, <2>7, <2>8, <2>9, <2>10, <2>11, <2>12, <2>13, <2>14,
       <2>15, <2>16, <2>17, <2>18, <2>19, <2>20, <2>21, <2>22, <2>23, <2>24, <2>25, <2>26, <2>27 DEF
       Step

\* The other steps move pids within a VM, too; a restart reads them from disk.
<1>BackgroundPids. ASSUME TypeInv,
                          \/ \E r \in Reqs : EndCapture(r) \/ Cancel(r)
                          \/ \E p \in Pids : FcExits(p) \/ Reap(p)
                          \/ \E i \in Ids : SweepDead(i)
                          \/ Restart
                          \/ Reboot
                   PROVE  PidsMove
  <2> USE <1>BackgroundPids, Zenon
  <2> USE <1>Unmoved DEF PidsMove
  <2>1. ASSUME NEW r \in Reqs, EndCapture(r) \/ Cancel(r) PROVE PidsMove
    <3> USE <2>1
    <3>1. ReqsMove
      BY <1>GotoDonePids DEF EndCapture, Cancel
    <3> QED BY <3>1, SMT DEF EndCapture, Cancel
  <2>2. ASSUME UNCHANGED req PROVE ReqsMove
    BY <2>2 DEF ReqsMove
  <2>3. ASSUME NEW p \in Pids, FcExits(p) PROVE PidsMove
    <3> USE <2>3
    <3>1. p # None
      BY AgentAssumption
    <3>2. FcsMove
      BY <3>1, <1>KillPids DEF FcExits, Kill
    <3> QED BY <2>2, <3>2, SMT DEF FcExits
  <2>4. ASSUME NEW i, NEW p \in Pids, OnFcExit(i, p) PROVE VmsMove /\ DisksMove
    <3> USE <2>4
    <3>1. CASE i \in Ids
      <4> USE <3>1
      <4> DEFINE vm == [vms[i] EXCEPT !.state = "error", !.pid = None]
      <4>1. vms[i] \in Vm
        BY DEF TypeInv, StoreOK
      <4>2. vm.pid = None
        BY <4>1 DEF Vm
      <4> HIDE DEF vm
      <4>3. CASE vms' = [vms EXCEPT ![i] = vm] /\ WriteMeta(i, vm)
        <5> USE <4>3
        <5>1. vm.pid \in {vms[i].pid, None}
          BY <4>2
        <5>2. VmsMove
          BY <5>1, <1>NewVmPids
        <5>3. DisksMove
          BY <5>1, <1>WritePids, SMT
        <5> QED BY <5>2, <5>3, SMT
      <4>4. CASE UNCHANGED <<vms, disk>>
        BY <4>4
      <4> QED BY <4>3, <4>4, SMT DEF OnFcExit, vm
    <3>2. CASE i \notin Ids
      <4>1. \A v : /\ [vms EXCEPT ![i] = v] = vms
                   /\ [disk EXCEPT ![i] = v] = disk
        BY <3>2 DEF TypeInv, StoreOK
      <4>2. UNCHANGED <<vms, disk>>
        BY <4>1 DEF OnFcExit, WriteMeta
      <4> QED BY <4>2, SMT
    <3> QED BY <3>1, <3>2, SMT
  <2>5. ASSUME NEW p \in Pids, Reap(p) PROVE PidsMove
    <3> USE <2>5
    <3>1. ~Gone.live
      BY DEF Gone
    <3>2. FcsMove
      BY <3>1, <1>NewFcPids DEF Reap
    <3> QED BY <2>2, <2>4, <3>2, SMT DEF Reap
  <2>6. ASSUME NEW i \in Ids, SweepDead(i) PROVE PidsMove
    <3> USE <2>6
    <3>1. vms[i].pid \in Pids
      BY DEF SweepDead, TypeInv, StoreOK, Vm
    <3> QED BY <2>2, <2>4, <3>1, SMT DEF SweepDead
  <2>7. ASSUME NEW procs, Comeback(procs),
               \A p \in Pids : procs[p].live => fc[p].live /\ procs[p].dir = fc[p].dir
        PROVE  PidsMove
    <3> USE <2>7
    <3>1. FcsMove
      BY DEF Comeback, FcsMove
    <3>2. \A i \in Ids : vms'[i].pid \in {disk[i].meta.pid, None}
      BY DEF Comeback, Reconciled
    <3>3. \A r \in Reqs : req'[r].pid = None
      BY DEF Comeback, Idle
    <3>4. VmsMove /\ ReqsMove
      BY <3>2, <3>3 DEF VmsMove, ReqsMove
    <3>5. DisksMove
      BY DEF Comeback
    <3> QED BY <3>1, <3>4, <3>5, SMT
  <2>8. CASE Restart
    <3> DEFINE procs == [p \in Pids |-> IF fc[p].live THEN [fc[p] EXCEPT !.child = FALSE] ELSE Gone]
    <3>1. ASSUME NEW p \in Pids, procs[p].live PROVE fc[p].live /\ procs[p].dir = fc[p].dir
      <4>1. fc[p] \in Process
        BY DEF TypeInv, StoreOK
      <4>2. [fc[p] EXCEPT !.child = FALSE].dir = fc[p].dir /\ ~Gone.live
        BY <4>1 DEF Process, Gone
      <4> QED BY <3>1, <4>2, SMT
    <3>2. Comeback(procs)
      BY <2>8 DEF Restart
    <3> HIDE DEF procs
    <3> QED BY <2>7, <3>1, <3>2, SMT
  <2>9. CASE Reboot
    <3> DEFINE procs == [p \in Pids |-> Gone]
    <3>1. \A p \in Pids : ~procs[p].live
      BY DEF Gone
    <3>2. Comeback(procs)
      BY <2>9 DEF Reboot
    <3> HIDE DEF procs
    <3> QED BY <2>7, <3>1, <3>2, SMT
  <2> QED BY <2>1, <2>3, <2>5, <2>6, <2>8, <2>9, SMT

\* A new process has a pid that no record, request or meta.json names, so it
\* changes the owner of none of those.
<1>SpawnPids. ASSUME TypeInv, PidInv, "reuse" \notin Faults, NEW r \in Reqs, Spawn(r)
              PROVE  PidInv'
  <2> USE <1>SpawnPids
  <2> PICK p \in Pids :
          /\ FreshPid(p)
          /\ fc' = [fc EXCEPT ![p] = [dir |-> req[r].id, live |-> TRUE, paused |-> FALSE,
                                      term |-> FALSE, child |-> TRUE]]
          /\ req' = [req EXCEPT ![r].pid = p, ![r].pc = "boot"]
    BY Zenon DEF Spawn
  <2>2. \A i \in Ids : p # vms[i].pid /\ p # disk[i].meta.pid
    BY Zenon DEF FreshPid, Named
  <2>3. \A q \in Reqs : p # req[q].pid
    BY Zenon DEF FreshPid, Named
  <2>4. \A q \in Pids \ {p} : fc'[q] = fc[q]
    BY Zenon DEF TypeInv, StoreOK
  <2>5. \A i \in Ids : Owner(i, vms[i].pid)' /\ Owner(i, disk[i].meta.pid)'
    BY <2>2, <2>4 DEF Spawn, Owner, PidInv, TypeInv, StoreOK, Vm, Directory
  <2>6. Owner(req[r].id, req[r].pid)'
    BY Zenon DEF Owner, TypeInv, StoreOK, RequestsOK, Request
  <2>7. \A q \in Reqs \ {r} : Owner(req[q].id, req[q].pid)'
    BY <2>3, <2>4 DEF Owner, PidInv, TypeInv, RequestsOK, Request
  <2> QED BY <2>5, <2>6, <2>7, Zenon DEF PidInv

<1> DEFINE IInv == TypeInv /\ PidInv
<1>1. Init => IInv
  <2> SUFFICES ASSUME Init PROVE PidInv
    BY InitType, Zenon
  <2>1. \A i \in Ids : vms[i].pid = None /\ disk[i].meta.pid = None
    BY Zenon DEF Init, NoVm, NoDir
  <2>2. \A r \in Reqs : req[r].pid = None
    BY Zenon DEF Init, Idle
  <2> QED BY <2>1, <2>2 DEF PidInv, Owner
<1>2. IInv /\ [Next]_vars => IInv'
  <2> USE Zenon
  <2> SUFFICES ASSUME TypeInv, PidInv, [Next]_vars PROVE PidInv'
    BY NextType
  <2>1. CASE UNCHANGED vars
    BY <2>1 DEF vars, PidInv, Owner
  <2>2. ASSUME NEW r \in Reqs, Step(r) PROVE PidInv'
    BY <2>2, <1>StepPids, <1>SpawnPids, <1>MovedPids
  <2>3. CASE Next
    BY <2>2, <2>3, <1>BeginPids, <1>BackgroundPids, <1>MovedPids DEF Next
  <2> QED BY <2>1, <2>3, SMT
<1>3. IInv => PidOwned
  BY Zenon DEF PidInv, Owner, PidOwned
<1> QED
  BY <1>1, <1>2, <1>3, PTL DEF Spec

----------------------------------------------------------------------------
(* Orderly callers: one request at a time on a VM, none cut short.          *)

\* No request is cut short, and a stop waits for its process.
Undisturbed == Orderly /\ Faults \cap {"restart", "reboot", "drop", "stubborn"} = {}

\* The places of each kind of request.
Fits(op, l) ==
    \/ op \in {"create", "fork"} /\ l \in {"slot", "spawn", "boot", "publish", "meta", "commit", "fail"}
    \/ op = "create" /\ l = "image"
    \/ op = "fork" /\ l \in {"look", "patch", "snapshot", "thaw", "copy", "register"}
    \/ op \in {"start", "wake"} /\ l \in {"spawn", "boot", "setpid", "setstate", "meta"}
    \/ op = "sleep" /\ l \in {"patch", "snapshot", "clearpid", "kill", "setstate", "meta"}
    \/ op \in {"pause", "resume"} /\ l \in {"patch", "setstate", "meta"}
    \/ op \in {"stop", "delete", "rollback"} /\ l \in {"setstate", "clearpid", "kill", "wait"}
    \/ op \in {"delete", "rollback"} /\ l \in {"stop", "unslot", "remove", "forget"}
    \/ op = "capture" /\ l = "stream"

\* One request at a time is at work on a VM.
Turns == /\ \A r \in Reqs : /\ req[r].pc = "idle" => req[r].id = None /\ req[r].src = None
                            /\ req[r].pc # "idle" => Fits(req[r].op, req[r].pc) /\ req[r].id # req[r].src
         /\ \A r, q \in Reqs : r # q =>
               {req[r].id, req[r].src} \cap {req[q].id, req[q].src} \subseteq {None}

\* An FC has the directory it runs over; a record that is not there is empty.
Rooted == /\ \A p \in Pids : /\ PidAlive(p) => fc[p].dir \in Ids
                             /\ fc[p].live => disk[fc[p].dir].here
          /\ \A i \in Ids : vms[i].state = "absent" => vms[i] = NoVm

Up(s) == s \in {"running", "paused"}

\* A VM that no request is at work on.
Rest(i) == /\ RunsOn(i) \subseteq {vms[i].pid}
           /\ vms[i].pid # None => Up(vms[i].state)
           /\ vms[i].state = "sleeping" => disk[i].snap = "fresh"
           /\ i \notin capturing

\* Where a request has no FC, and where it alone knows the pid.
Out(op, l) == \/ l \in {"image", "slot", "spawn", "fail", "unslot", "remove", "forget", "stream",
                        "look", "copy", "register"}
              \/ op = "fork" /\ l \in {"patch", "snapshot", "thaw"}
              \/ op = "sleep" /\ l \in {"setstate", "meta"}
Inside(l) == l \in {"boot", "publish", "setpid", "kill", "wait"}
Running(op, l, own, its) == IF Out(op, l) THEN None ELSE IF Inside(l) THEN own ELSE its

\* A VM i, with the request x at work on it.
Work(x, i) ==
    /\ RunsOn(i) \subseteq {Running(x.op, x.pc, x.pid, vms[i].pid)}
    /\ Out(x.op, x.pc) \/ Inside(x.pc) => vms[i].pid = None
    /\ x.op \in {"sleep", "stop", "delete", "rollback"} /\ x.pc # "stop" =>
          vms[i].pid \in {None, x.pid}
    /\ x.pc \in {"meta", "commit", "patch", "snapshot"} \/ x.op \in {"pause", "resume"} =>
          (vms[i].pid # None => Up(vms[i].state))
    /\ x.op \in {"create", "fork"} /\ x.pc \in {"image", "slot", "spawn", "boot", "publish", "fail"} =>
          vms[i].state = "creating"
    /\ x.op \in {"create", "fork"} /\ x.pc \in {"boot", "publish", "meta"} => disk[i].here
    /\ x.op \in {"create", "fork"} /\ x.pc = "meta" => vms[i].state \in {"running", "error"}
    /\ x.op \in {"start", "wake"} /\ x.pc # "meta" => vms[i].state \in {"stopped", "error", "sleeping"}
    /\ \/ x.op = "wake" /\ x.pc \in {"spawn", "boot"}
       \/ x.op = "sleep" /\ x.pc \in {"clearpid", "kill", "setstate", "meta"}
       => disk[i].snap = "fresh"
    /\ vms[i].state = "sleeping" => \/ x.op = "wake" /\ x.pc # "meta"
                                    \/ x.op = "sleep" /\ x.pc = "meta"
                                    \/ x.op = "delete" /\ x.pc \in {"stop", "setstate"}
    /\ i \in capturing <=> x.pc = "stream"

Worked(i) == \E r \in Reqs : req[r].id = i

\* The inductive invariant of orderly callers.
OInv == /\ Turns /\ Rooted
        /\ \A i \in Ids : ~Worked(i) => Rest(i)
        /\ \A r \in Reqs : \A x \in {req[r]} : x.pc # "idle" => Work(x, x.id)

Others(r) == \A q \in Reqs : q # r => req'[q] = req[q]

\* What a step leaves as it is on VM j.
Calm(j) == /\ vms'[j] = vms[j] /\ disk'[j].snap = disk[j].snap
           /\ disk[j].here => disk'[j].here
           /\ j \in capturing' <=> j \in capturing
           /\ RunsOn(j)' \subseteq RunsOn(j)

\* None is no VM, and no process.
LEMMA NoneNoVm == None \notin Ids /\ None \notin Pids
BY AgentAssumption

\* The request at work, and its VM.
LEMMA AtWork ==
    ASSUME TypeInv, OInv, NEW r \in Reqs, req[r].pc # "idle"
    PROVE  \E x \in Request, i \in Ids : /\ x = req[r] /\ i = x.id /\ Work(x, i)
                                         /\ Fits(x.op, x.pc) /\ x.src # i
<1> USE Zenon
<1>1. req[r] \in Request /\ req[r].id \in Ids
  BY DEF TypeInv, RequestsOK
<1>2. Fits(req[r].op, req[r].pc) /\ req[r].id # req[r].src
  BY DEF OInv, Turns
<1>3. \A x \in {req[r]} : Work(x, x.id)
  BY DEF OInv
<1> QED BY <1>1, <1>2, <1>3

\* What goto leaves alone.
LEMMA GotoMoves ==
    ASSUME TypeInv, NEW r \in Reqs, NEW l, Goto(r, l)
    PROVE  /\ Others(r) /\ req'[r].pc = l /\ req'[r].op = req[r].op /\ req'[r].id = req[r].id
           /\ req'[r].src = req[r].src /\ req'[r].pid = req[r].pid
<1>1. req \in [Reqs -> Request]
  BY Zenon DEF TypeInv, RequestsOK
<1>2. req'[r] = [req[r] EXCEPT !.pc = l] /\ Others(r)
  BY <1>1, Zenon DEF Goto, Others
<1>3. req[r] \in Request
  BY <1>1
<1>4. /\ req'[r].pc = l /\ req'[r].op = req[r].op /\ req'[r].id = req[r].id
      /\ req'[r].src = req[r].src /\ req'[r].pid = req[r].pid
  BY <1>2, <1>3 DEF Request
<1> QED BY <1>2, <1>4

\* What an orderly caller has looked at.
LEMMA Admitted ==
    ASSUME Undisturbed, NEW r, NEW op, NEW i, Admit(r, op, i)
    PROVE  req[r].pc = "idle" /\ ~Busy(i) /\ vms[i].state \in From(op)
BY Zenon DEF Undisturbed, Admit, At

\* A manager with no VMs.
LEMMA OInit == Init => OInv
<1>1. SUFFICES ASSUME Init PROVE OInv
  OBVIOUS
<1>2. \A r \in Reqs : req[r].pc = "idle" /\ req[r].id = None /\ req[r].src = None
  BY <1>1 DEF Init, Idle
<1>3. Turns
  BY <1>2 DEF Turns
<1>4. \A p \in Pids : ~fc[p].live /\ ~PidAlive(p)
  BY <1>1 DEF Init, Gone, PidAlive
<1>5. \A i \in Ids : vms[i] = NoVm
  BY <1>1, Zenon DEF Init
<1>6. Rooted
  BY <1>4, <1>5, Zenon DEF Rooted
<1>7. \A i \in Ids : Rest(i)
  BY <1>1, <1>4, <1>5 DEF Init, Rest, NoVm, RunsOn
<1>8. \A r \in Reqs : \A x \in {req[r]} : x.pc = "idle"
  BY <1>2
<1> QED BY <1>3, <1>6, <1>7, <1>8, Zenon DEF OInv

\* Every step keeps the VMs in order.
LEMMA OStep == TypeInv /\ OInv /\ Undisturbed /\ [Next]_vars => OInv'

\* A calm VM at rest stays so.
<1>CalmRest. ASSUME NEW j \in Ids, Calm(j), Rest(j) PROVE Rest(j)'
  BY <1>CalmRest, Zenon DEF Calm, Rest

\* So does one with a request at work on it.
<1>CalmWork. ASSUME NEW j \in Ids, Calm(j), NEW x, Work(x, j) PROVE Work(x, j)'
  <2> USE <1>CalmWork, Zenon
  <2>1. RunsOn(j)' \subseteq RunsOn(j) /\ vms'[j] = vms[j] /\ disk'[j].snap = disk[j].snap
        /\ (disk[j].here => disk'[j].here) /\ (j \in capturing' <=> j \in capturing)
    BY DEF Calm
  <2>2. RunsOn(j)' \subseteq {Running(x.op, x.pc, x.pid, vms[j].pid)}'
    BY <2>1 DEF Work
  <2> QED BY <2>1, <2>2 DEF Work

\* A step of request r on VM i.
<1>Frame. ASSUME TypeInv, OInv, Turns', Rooted', NEW r \in Reqs, NEW i \in Ids, Others(r),
                 \A q \in Reqs : q # r => req[q].id # i,
                 req[r].id \in {i, None},
                 \A j \in Ids : j # i => Calm(j) \/ (req[r].id = i /\ j = req[r].src /\ Rest(j)'),
                 req'[r].pc = "idle" => Rest(i)',
                 \A x \in {req'[r]} : x.pc # "idle" => x.id = i /\ Work(x, i)'
          PROVE  OInv'
  <2> USE <1>Frame
  <2>1. ASSUME NEW j \in Ids, ~Worked(j)' PROVE Rest(j)'
    <3> USE <2>1
    <3>1. CASE j = i
      BY <3>1, Zenon DEF Worked
    <3>2. CASE j # i /\ Calm(j)
      <4> USE <3>2
      <4>1. ~Worked(j)
        BY NoneNoVm, Zenon DEF Worked, Others
      <4> QED BY <4>1, <1>CalmRest, Zenon DEF OInv
    <3> QED BY <3>1, <3>2
  <2>2. ASSUME NEW q \in Reqs, NEW x \in {req'[q]}, x.pc # "idle" PROVE Work(x, x.id)'
    <3> USE <2>2
    <3>1. CASE q = r
      BY <3>1
    <3>2. CASE q # r
      <4> USE <3>2, Zenon
      <4>1. x = req[q] /\ x \in {req[q]}
        BY SMT DEF Others
      <4>2. x.id \in Ids /\ x.id # i
        BY <4>1 DEF TypeInv, RequestsOK
      <4>3. req[r].id = i => x.id # req[r].src
        BY <4>1, <4>2, NoneNoVm DEF OInv, Turns
      <4>4. Work(x, x.id)
        BY <4>1 DEF OInv
      <4> QED BY <4>2, <4>3, <4>4, <1>CalmWork
    <3> QED BY <3>1, <3>2
  <2> QED BY <2>1, <2>2, Zenon DEF OInv

\* A request that goes on.
<1>GoesOn. ASSUME TypeInv, OInv, Rooted', NEW r \in Reqs, NEW i, i = req[r].id, req[r].pc # "idle",
                  Others(r), req'[r].id = i, req'[r].src \in {req[r].src, None},
                  req'[r].pc # "idle", Fits(req'[r].op, req'[r].pc),
                  \A j \in Ids : j # i => Calm(j) \/ (j = req[r].src /\ Rest(j)'),
                  \A x \in {req'[r]} : Work(x, i)'
           PROVE  OInv'
  <2> USE <1>GoesOn
  <2>1. i \in Ids
    BY Zenon DEF TypeInv, RequestsOK
  <2>2. Turns'
    <3>1. \A q \in Reqs : q # r =>
             {req[r].id, req[r].src}' \cap {req'[q].id, req'[q].src} \subseteq {None}
      BY DEF OInv, Turns, Others
    <3>2. \A q, s \in Reqs : q # r /\ s # r /\ q # s =>
             {req[q].id, req[q].src}' \cap {req'[s].id, req'[s].src} \subseteq {None}
      BY DEF OInv, Turns, Others
    <3>3. \A q, s \in Reqs : q # s =>
             {req[q].id, req[q].src}' \cap {req'[s].id, req'[s].src} \subseteq {None}
      BY <3>1, <3>2
    <3>4. req'[r].id # req'[r].src
      BY <2>1, NoneNoVm DEF OInv, Turns
    <3>5. \A q \in Reqs : /\ req'[q].pc = "idle" => req'[q].id = None /\ req'[q].src = None
                          /\ req'[q].pc # "idle" => Fits(req'[q].op, req'[q].pc) /\ req'[q].id # req'[q].src
      BY <3>4, Zenon DEF OInv, Turns, Others
    <3> QED BY <3>3, <3>5, Zenon DEF Turns, Fits
  <2>3. \A q \in Reqs : q # r => req[q].id # i
    BY <2>1, NoneNoVm, Zenon DEF OInv, Turns
  <2>4. req[r].id \in {i, None} /\ \A x \in {req'[r]} : x.id = i
    OBVIOUS
  <2> QED BY <2>1, <2>2, <2>3, <2>4, <1>Frame, Zenon

\* A request that ends.
<1>EndsAt. ASSUME TypeInv, OInv, Rooted', NEW r \in Reqs, NEW i, i = req[r].id, req[r].pc # "idle", Done(r),
                  \A j \in Ids : j # i => Calm(j) \/ (j = req[r].src /\ Rest(j)'), Rest(i)'
           PROVE  OInv'
  <2> USE <1>EndsAt
  <2>1. i \in Ids
    BY Zenon DEF TypeInv, RequestsOK
  <2>2. Others(r) /\ req'[r] = Idle
    BY Zenon DEF Done, Others, TypeInv, RequestsOK
  <2>3. req'[r].id = None /\ req'[r].src = None /\ req'[r].pc = "idle"
    BY <2>2 DEF Idle
  <2>4. Turns'
    <3>1. \A q \in Reqs : q # r => req'[q] = req[q]
      BY <2>2, Zenon DEF Others
    <3>2. \A q \in Reqs : {req[r].id, req[r].src}' \cap {req'[q].id, req'[q].src} \subseteq {None}
      BY <2>3
    <3>3. \A q, s \in Reqs : q # r /\ s # r /\ q # s =>
             {req[q].id, req[q].src}' \cap {req'[s].id, req'[s].src} \subseteq {None}
      BY <3>1 DEF OInv, Turns
    <3>4. \A q, s \in Reqs : q # s =>
             {req[q].id, req[q].src}' \cap {req'[s].id, req'[s].src} \subseteq {None}
      BY <3>2, <3>3
    <3>5. \A q \in Reqs : /\ req'[q].pc = "idle" => req'[q].id = None /\ req'[q].src = None
                          /\ req'[q].pc # "idle" => Fits(req'[q].op, req'[q].pc) /\ req'[q].id # req'[q].src
      BY <2>3, <3>1, ZenonT(30) DEF OInv, Turns
    <3> QED BY <3>4, <3>5, Zenon DEF Turns, Fits
  <2>5. \A q \in Reqs : q # r => req[q].id # i
    BY <2>1, NoneNoVm, Zenon DEF OInv, Turns
  <2>6. \A x \in {req'[r]} : x.pc = "idle"
    BY <2>3
  <2> QED BY <2>1, <2>2, <2>3, <2>4, <2>5, <2>6, <1>Frame, Zenon

\* A request that begins, on a VM that has none.
<1>Begins. ASSUME TypeInv, OInv, Rooted', NEW r \in Reqs, NEW i \in Ids, req[r].pc = "idle", Others(r),
                  ~Busy(i), req'[r].id = i, req'[r].pc # "idle", Fits(req'[r].op, req'[r].pc),
                  req'[r].src # i, req'[r].src \in Ids => ~Busy(req'[r].src), req'[r].src \in Ids \cup {None},
                  \A j \in Ids : j # i => Calm(j), \A x \in {req'[r]} : Work(x, i)'
           PROVE  OInv'
  <2> USE <1>Begins
  <2>1. Turns'
    <3>1. \A q \in Reqs : q # r =>
             {req[r].id, req[r].src}' \cap {req'[q].id, req'[q].src} \subseteq {None}
      BY DEF Busy, Others
    <3>2. \A q, s \in Reqs : q # r /\ s # r /\ q # s =>
             {req[q].id, req[q].src}' \cap {req'[s].id, req'[s].src} \subseteq {None}
      BY DEF OInv, Turns, Others
    <3>3. \A q, s \in Reqs : q # s =>
             {req[q].id, req[q].src}' \cap {req'[s].id, req'[s].src} \subseteq {None}
      BY <3>1, <3>2
    <3>4. \A q \in Reqs : /\ req'[q].pc = "idle" => req'[q].id = None /\ req'[q].src = None
                          /\ req'[q].pc # "idle" => Fits(req'[q].op, req'[q].pc) /\ req'[q].id # req'[q].src
      BY ZenonT(30) DEF OInv, Turns, Others
    <3> QED BY <3>3, <3>4, Zenon DEF Turns, Fits
  <2>2. /\ req[r].id = None /\ \A q \in Reqs : req[q].id # i
        /\ \A x \in {req'[r]} : x.id = i
    BY DEF OInv, Turns, Busy
  <2> QED BY <2>1, <2>2, <1>Frame, Zenon

\* A step of a process or of a background loop.
<1>Aside. ASSUME TypeInv, OInv, Rooted', req' = req,
                 \A j \in Ids : /\ Rest(j) => Rest(j)'
                                /\ \A x : Work(x, j) => Work(x, j)'
          PROVE  OInv'
  <2> USE <1>Aside, Zenon
  <2>1. Turns'
    BY DEF OInv, Turns
  <2>3. \A j : Worked(j)' <=> Worked(j)
    BY DEF Worked
  <2>2. ASSUME NEW q \in Reqs, NEW x \in {req'[q]}, x.pc # "idle" PROVE Work(x, x.id)'
    <3> USE <2>2
    <3>1. x = req[q] /\ x \in {req[q]} /\ x.id \in Ids
      BY DEF TypeInv, RequestsOK
    <3> QED BY <3>1 DEF OInv
  <2> QED BY <2>1, <2>2, <2>3 DEF OInv

\* Records and directories, when no process starts and none of them goes.
<1>RootedStays. ASSUME Rooted, \A p \in Pids : /\ PidAlive(p)' => PidAlive(p) /\ fc'[p].dir = fc[p].dir
                                               /\ fc'[p].live => fc[p].live,
                       \A j \in Ids : /\ disk[j].here => disk'[j].here
                                      /\ vms'[j].state = "absent" => vms'[j] = NoVm
                PROVE  Rooted'
  <2> USE <1>RootedStays
  <2>1. \A p \in Pids : fc'[p].live => PidAlive(p)'
    BY Zenon DEF PidAlive
  <2> QED BY <2>1, Zenon DEF Rooted, NoVm

\* A step that touches VM i alone, and no process.
<1>Local. ASSUME TypeInv, OInv, NEW i \in Ids, fc' = fc,
                 \A j \in Ids : j # i => /\ vms'[j] = vms[j] /\ disk'[j] = disk[j]
                                         /\ j \in capturing' <=> j \in capturing,
                 disk[i].here => disk'[i].here, vms'[i].state = "absent" => vms'[i] = NoVm
          PROVE  /\ Rooted' /\ RunsOn(i)' = RunsOn(i)
                 /\ \A j \in Ids : j # i => Calm(j)
  <2> USE <1>Local, Zenon
  <2>1. \A j : RunsOn(j)' = RunsOn(j)
    BY DEF RunsOn
  <2>2. \A p \in Pids : /\ PidAlive(p)' <=> PidAlive(p)
                        /\ fc'[p].dir = fc[p].dir /\ fc'[p].live = fc[p].live
    BY DEF PidAlive
  <2>3. \A j \in Ids : /\ disk[j].here => disk'[j].here
                       /\ vms'[j].state = "absent" => vms'[j] = NoVm
    BY DEF OInv, Rooted
  <2>4. Rooted'
    BY <2>2, <2>3, <1>RootedStays DEF OInv
  <2>5. \A j \in Ids : j # i => Calm(j)
    BY <2>1 DEF Calm
  <2> QED BY <2>1, <2>4, <2>5

\* A request x that goes on to l.
<1>GoesTo. ASSUME TypeInv, OInv, Rooted', NEW r \in Reqs, NEW x, x = req[r], NEW i, i = x.id, x.pc # "idle",
                  NEW l, Goto(r, l), l # "idle", Fits(x.op, l),
                  \A j \in Ids : j # i => Calm(j) \/ (j = x.src /\ Rest(j)'),
                  \A y : y.op = x.op /\ y.pc = l /\ y.pid = x.pid => Work(y, i)'
           PROVE  OInv'
  <2> USE <1>GoesTo, Zenon
  <2>1. /\ Others(r) /\ req'[r].pc = l /\ req'[r].op = x.op /\ req'[r].id = i
        /\ req'[r].src = req[r].src /\ req'[r].pid = x.pid
    BY GotoMoves
  <2>2. \A y \in {req'[r]} : Work(y, i)'
    BY <2>1
  <2>3. req[r].pc # "idle" /\ i = req[r].id /\ Fits(req'[r].op, req'[r].pc) /\ req'[r].pc # "idle"
        /\ req'[r].src \in {req[r].src, None}
    BY <2>1
  <2> QED BY <2>1, <2>2, <2>3, <1>GoesOn

\* create_instance_dir.
<1>OPrepareDir. ASSUME TypeInv, OInv, NEW r \in Reqs, PrepareDir(r)
                PROVE  OInv'
  <2> USE <1>OPrepareDir
  <2> PICK x \in Request, i \in Ids : x = req[r] /\ i = x.id /\ Work(x, i) /\ Fits(x.op, x.pc) /\ x.src # i
    BY AtWork, Zenon DEF PrepareDir, At
  <2>2. x.pc = "image" /\ x.op = "create"
    BY DEF PrepareDir, At, Fits
  <2> PICK l \in {"slot", "fail"} : Goto(r, l)
    BY Zenon DEF PrepareDir
  <2>4. /\ vms' = vms /\ capturing' = capturing /\ fc' = fc
        /\ \A j \in Ids : j # i => disk'[j] = disk[j]
        /\ disk[i].here => disk'[i].here
        /\ disk'[i].snap = disk[i].snap
    BY DEF PrepareDir, TypeInv, StoreOK, Directory
  <2>5. Rooted' /\ RunsOn(i)' = RunsOn(i) /\ \A j \in Ids : j # i => Calm(j)
    BY <2>4, <1>Local, Zenon DEF OInv, Rooted
  <2>6. ASSUME NEW y, y.op = x.op /\ y.pc = l /\ y.pid = x.pid PROVE Work(y, i)'
    BY <2>2, <2>4, <2>5, <2>6, Zenon DEF Work, Running, Out, Inside
  <2>7. Fits(x.op, l) /\ l # "idle" /\ x.pc # "idle"
    BY <2>2 DEF Fits
  <2> QED BY <2>5, <2>6, <2>7, <1>GoesTo, Zenon

\* ip_alloc, and the steps that fail before there is an FC.
<1>OBuildFails. ASSUME TypeInv, OInv, NEW r \in Reqs, ClaimSlot(r) \/ TapFails(r) \/ SpawnFails(r)
                PROVE  OInv'
  <2> USE <1>OBuildFails
  <2> PICK x \in Request, i \in Ids : x = req[r] /\ i = x.id /\ Work(x, i) /\ Fits(x.op, x.pc) /\ x.src # i
    BY AtWork, Zenon DEF ClaimSlot, TapFails, SpawnFails, At
  <2>2. vms' = vms /\ capturing' = capturing /\ fc' = fc /\ disk' = disk
    BY Zenon DEF ClaimSlot, TapFails, SpawnFails
  <2>3. Rooted' /\ RunsOn(i)' = RunsOn(i) /\ \A j \in Ids : j # i => Calm(j)
    BY <2>2, <1>Local, Zenon DEF OInv, Rooted
  <2>4. \/ x.pc = "slot" /\ x.op \in {"create", "fork"}
        \/ x.pc = "spawn" /\ x.op \in {"create", "fork", "start", "wake"}
    BY DEF ClaimSlot, TapFails, SpawnFails, At, Fits
  <2>5. CASE Goto(r, "fail") /\ x.op \in {"create", "fork"}
    <3> USE <2>5
    <3>1. ASSUME NEW y, y.op = x.op /\ y.pc = "fail" /\ y.pid = x.pid PROVE Work(y, i)'
      BY <2>2, <2>3, <2>4, <3>1, Zenon DEF Work, Running, Out, Inside
    <3>2. Fits(x.op, "fail") /\ x.pc # "idle"
      BY <2>4 DEF Fits
    <3> QED BY <2>3, <3>1, <3>2, <1>GoesTo, Zenon
  <2>6. CASE Done(r)
    <3>1. Rest(i)'
      BY <2>2, <2>3, <2>4, Zenon DEF Work, Running, Out, Inside, Rest
    <3>2. x.pc # "idle"
      BY <2>4
    <3> QED BY <2>3, <2>6, <3>1, <3>2, <1>EndsAt, Zenon
  <2>7. CASE \E s \in Slots : x.pc = "slot" /\ req' = [req EXCEPT ![r].slot = s, ![r].pc = "spawn"]
    <3> USE <2>7
    <3>1. PICK s \in Slots : req' = [req EXCEPT ![r].slot = s, ![r].pc = "spawn"]
      BY Zenon
    <3>2. /\ Others(r) /\ req'[r].pc = "spawn" /\ req'[r].op = x.op /\ req'[r].id = x.id
          /\ req'[r].src = x.src /\ req'[r].pid = x.pid
      BY <3>1 DEF Others, TypeInv, RequestsOK, Request
    <3>3. ASSUME NEW y \in {req'[r]} PROVE Work(y, i)'
      <4>1. y.op = x.op /\ y.pc = "spawn" /\ y.pid = x.pid
        BY <3>2, <3>3, Zenon
      <4> QED BY <2>2, <2>3, <2>4, <4>1 DEF Work, Running, Out, Inside
    <3>4. Fits(x.op, "spawn") /\ x.pc # "idle"
      BY <2>4 DEF Fits
    <3>5. /\ Fits(req'[r].op, req'[r].pc) /\ req[r].pc # "idle" /\ req'[r].pc # "idle"
          /\ req'[r].id = i /\ i = req[r].id /\ req'[r].src \in {req[r].src, None}
      BY <3>2, <3>4, Zenon
    <3> QED BY <2>3, <3>2, <3>3, <3>5, <1>GoesOn, Zenon
  <2> QED BY <2>4, <2>5, <2>6, <2>7, Zenon DEF ClaimSlot, TapFails, SpawnFails, IsBuild, At

\* SIGKILL takes away the only FC of VM i.
<1>KillOne. ASSUME TypeInv, OInv, NEW i \in Ids, NEW p \in Pids \cup {None}, RunsOn(i) \subseteq {p}, Kill(p),
                   vms' = vms, disk' = disk, capturing' = capturing
            PROVE  /\ Rooted' /\ RunsOn(i)' = {}
                   /\ \A j \in Ids : Calm(j)
  <2> USE <1>KillOne
  <2>0. fc \in [Pids -> Process]
    BY Zenon DEF TypeInv, StoreOK
  <2>1. \A q \in Pids : q # p => fc'[q] = fc[q]
    BY <2>0, Zenon DEF Kill, Killed
  <2>2. p \in Pids => /\ ~fc'[p].live
                      /\ PidAlive(p)' => PidAlive(p) /\ fc'[p].dir = fc[p].dir
    <3>1. SUFFICES ASSUME p \in Pids PROVE ~fc'[p].live /\ (fc'[p].child => fc[p].child /\ fc'[p].dir = fc[p].dir)
      BY Zenon DEF PidAlive
    <3>2. p # None
      BY <3>1, NoneNoVm
    <3> QED BY <2>0, <3>1, <3>2 DEF Kill, Killed, Gone
  <2>3. \A q \in Pids : /\ PidAlive(q)' => PidAlive(q) /\ fc'[q].dir = fc[q].dir
                        /\ fc'[q].live => fc[q].live /\ q # p
    BY <2>1, <2>2, Zenon DEF PidAlive
  <2>4. \A j : RunsOn(j)' \subseteq RunsOn(j) \ {p}
    BY <2>3, <2>1 DEF RunsOn
  <2>5. Rooted'
    BY <2>3, <1>RootedStays, Zenon DEF OInv, Rooted
  <2>6. RunsOn(i)' = {}
    BY <2>4
  <2>7. \A j \in Ids : Calm(j)
    BY <2>4, Zenon DEF Calm
  <2> QED BY <2>5, <2>6, <2>7

\* Process flags that say nothing about who runs.
<1>SameProcs. ASSUME TypeInv, OInv, vms' = vms, capturing' = capturing,
                     \A q \in Pids : fc'[q].live = fc[q].live /\ fc'[q].child = fc[q].child /\ fc'[q].dir = fc[q].dir,
                     \A j \in Ids : disk[j].here => disk'[j].here
              PROVE  /\ Rooted'
                     /\ \A j : RunsOn(j)' = RunsOn(j)
                     /\ \A j \in Ids : disk'[j].snap = disk[j].snap => Calm(j)
  <2> USE <1>SameProcs
  <2>1. \A q \in Pids : PidAlive(q)' <=> PidAlive(q)
    BY Zenon DEF PidAlive
  <2>2. Rooted'
    BY <2>1, <1>RootedStays, Zenon DEF OInv, Rooted
  <2>3. \A j : RunsOn(j)' = RunsOn(j)
    BY DEF RunsOn
  <2> QED BY <2>2, <2>3, Zenon DEF Calm

\* spawn.
<1>OSpawn. ASSUME TypeInv, OInv, NEW r \in Reqs, Spawn(r)
           PROVE  OInv'
  <2> USE <1>OSpawn
  <2> PICK x \in Request, i \in Ids : x = req[r] /\ i = x.id /\ Work(x, i) /\ Fits(x.op, x.pc) /\ x.src # i
    BY AtWork, Zenon DEF Spawn, At
  <2>2. x.pc = "spawn" /\ x.op \in {"create", "fork", "start", "wake"}
    BY DEF Spawn, At, Fits
  <2> PICK p \in Pids : /\ FreshPid(p)
                          /\ fc' = [fc EXCEPT ![p] = [dir |-> i, live |-> TRUE, paused |-> FALSE,
                                                      term |-> FALSE, child |-> TRUE]]
                          /\ req' = [req EXCEPT ![r].pid = p, ![r].pc = "boot"]
    BY Zenon DEF Spawn
  <2>4. /\ Others(r) /\ req'[r].pc = "boot" /\ req'[r].op = x.op /\ req'[r].id = x.id
        /\ req'[r].src = x.src /\ req'[r].pid = p
    BY DEF Others, TypeInv, RequestsOK, Request
  <2>5. /\ vms' = vms /\ capturing' = capturing /\ disk' = disk /\ disk[i].here
        /\ fc \in [Pids -> Process]
    BY Zenon DEF Spawn, TypeInv, StoreOK
  <2>6. /\ \A q \in Pids : q # p => fc'[q] = fc[q]
        /\ fc'[p].dir = i
    BY <2>5
  <2>7. RunsOn(i) = {}
    BY <2>2, NoneNoVm DEF Work, Running, Out, RunsOn
  <2>8. /\ RunsOn(i)' \subseteq {p}
        /\ \A j \in Ids : j # i => RunsOn(j)' \subseteq RunsOn(j)
    BY <2>6, <2>7 DEF RunsOn
  <2>9. Rooted'
    <3>1. \A q \in Pids : /\ PidAlive(q)' => fc'[q].dir \in Ids
                          /\ fc'[q].live => disk'[fc'[q].dir].here
      BY <2>5, <2>6, Zenon DEF OInv, Rooted, PidAlive
    <3> QED BY <2>5, <3>1, Zenon DEF OInv, Rooted, NoVm
  <2>10. \A j \in Ids : j # i => Calm(j)
    BY <2>5, <2>8, Zenon DEF Calm
  <2>11. ASSUME NEW y \in {req'[r]} PROVE Work(y, i)'
    <3>1. y.op = x.op /\ y.pc = "boot" /\ y.pid = p
      BY <2>4, <2>11, Zenon
    <3> QED BY <2>2, <2>5, <2>8, <3>1 DEF Work, Running, Out, Inside
  <2>12. Fits(x.op, "boot")
    BY <2>2 DEF Fits
  <2>13. /\ Fits(req'[r].op, req'[r].pc) /\ req[r].pc # "idle" /\ req'[r].pc # "idle"
         /\ req'[r].id = i /\ i = req[r].id /\ req'[r].src \in {req[r].src, None}
    BY <2>2, <2>4, <2>12
  <2> QED BY <2>4, <2>9, <2>10, <2>11, <2>13, <1>GoesOn, Zenon

\* A boot that fails ends the FC.
<1>OBootFails. ASSUME TypeInv, OInv, NEW r \in Reqs, BootFails(r)
               PROVE  OInv'
  <2> USE <1>OBootFails
  <2> PICK x \in Request, i \in Ids : x = req[r] /\ i = x.id /\ Work(x, i) /\ Fits(x.op, x.pc) /\ x.src # i
    BY AtWork, Zenon DEF BootFails, At
  <2>2. x.pc = "boot" /\ x.op \in {"create", "fork", "start", "wake"}
    BY DEF BootFails, At, Fits
  <2>3. /\ vms' = vms /\ capturing' = capturing /\ disk' = disk /\ Kill(x.pid)
        /\ x.pid \in Pids \cup {None}
    BY DEF BootFails, Request
  <2>4. RunsOn(i) \subseteq {x.pid}
    BY <2>2 DEF Work, Running, Out, Inside
  <2>5. Rooted' /\ RunsOn(i)' = {} /\ \A j \in Ids : j # i => Calm(j)
    BY <2>3, <2>4, <1>KillOne, Zenon
  <2>6. CASE Goto(r, "fail") /\ x.op \in {"create", "fork"}
    <3> USE <2>6
    <3>1. ASSUME NEW y, y.op = x.op /\ y.pc = "fail" /\ y.pid = x.pid PROVE Work(y, i)'
      BY <2>2, <2>3, <2>5, <3>1, Zenon DEF Work, Running, Out, Inside
    <3>2. Fits(x.op, "fail") /\ x.pc # "idle"
      BY <2>2 DEF Fits
    <3> QED BY <2>5, <3>1, <3>2, <1>GoesTo, Zenon
  <2>7. CASE Done(r) /\ x.op \notin {"create", "fork"}
    <3> USE <2>7
    <3>1. Rest(i)'
      BY <2>2, <2>3, <2>5, Zenon DEF Work, Running, Out, Inside, Rest
    <3>2. x.pc # "idle"
      BY <2>2
    <3> QED BY <2>5, <3>1, <3>2, <1>EndsAt, Zenon
  <2> QED BY <2>6, <2>7, Zenon DEF BootFails, IsBuild

\* A boot that succeeds.
<1>OBoot. ASSUME TypeInv, OInv, NEW r \in Reqs, Boot(r)
          PROVE  OInv'
  <2> USE <1>OBoot
  <2> PICK x \in Request, i \in Ids : x = req[r] /\ i = x.id /\ Work(x, i) /\ Fits(x.op, x.pc) /\ x.src # i
    BY AtWork, Zenon DEF Boot, At
  <2>2. x.pc = "boot" /\ x.op \in {"create", "fork", "start", "wake"}
    BY DEF Boot, At, Fits
  <2> PICK l : Goto(r, l) /\ l = IF x.op \in {"create", "fork"} THEN "publish" ELSE "setpid"
    BY Zenon DEF Boot, IsBuild
  <2>4. /\ vms' = vms /\ capturing' = capturing /\ fc' = fc
        /\ \A j \in Ids : j # i => disk'[j] = disk[j]
        /\ disk'[i].here = disk[i].here
    BY DEF Boot, TypeInv, StoreOK, Directory
  <2>5. Rooted' /\ RunsOn(i)' = RunsOn(i) /\ \A j \in Ids : j # i => Calm(j)
    BY <2>4, <1>Local, Zenon DEF OInv, Rooted
  <2>6. ASSUME NEW y, y.op = x.op /\ y.pc = l /\ y.pid = x.pid PROVE Work(y, i)'
    BY <2>2, <2>4, <2>5, <2>6, ZenonT(30) DEF Work, Running, Out, Inside
  <2>7. Fits(x.op, l) /\ l # "idle" /\ x.pc # "idle"
    BY <2>2 DEF Fits
  <2> QED BY <2>5, <2>6, <2>7, <1>GoesTo, Zenon

\* The last critical section of a build.
<1>OPublish. ASSUME TypeInv, OInv, NEW r \in Reqs, Publish(r)
             PROVE  OInv'
  <2> USE <1>OPublish
  <2> PICK x \in Request, i \in Ids : x = req[r] /\ i = x.id /\ Work(x, i) /\ Fits(x.op, x.pc) /\ x.src # i
    BY AtWork, Zenon DEF Publish, At
  <2>2. x.pc = "publish" /\ x.op \in {"create", "fork"} /\ Goto(r, "meta") /\ vms[i].state = "creating"
    BY Zenon DEF Publish, At, Fits, Work
  <2>3. /\ capturing' = capturing /\ fc' = fc /\ disk' = disk
        /\ \A j \in Ids : j # i => vms'[j] = vms[j]
        /\ vms'[i] = [state |-> "running", pid |-> x.pid, slot |-> x.slot]
    BY <2>2 DEF Publish, Exists, TypeInv, StoreOK
  <2>4. vms'[i].state = "running" /\ vms'[i].pid = x.pid
    BY <2>3
  <2>5. Rooted' /\ RunsOn(i)' = RunsOn(i) /\ \A j \in Ids : j # i => Calm(j)
    BY <2>3, <2>4, <1>Local
  <2>6. ASSUME NEW y, y.op = x.op /\ y.pc = "meta" /\ y.pid = x.pid PROVE Work(y, i)'
    BY <2>2, <2>3, <2>4, <2>5, <2>6, Zenon DEF Work, Running, Out, Inside, Up
  <2>7. Fits(x.op, "meta") /\ x.pc # "idle"
    BY <2>2 DEF Fits
  <2> QED BY <2>2, <2>5, <2>6, <2>7, <1>GoesTo, Zenon

\* A build that failed.
<1>OMarkFailed. ASSUME TypeInv, OInv, NEW r \in Reqs, MarkFailed(r)
                PROVE  OInv'
  <2> USE <1>OMarkFailed
  <2> PICK x \in Request, i \in Ids : x = req[r] /\ i = x.id /\ Work(x, i) /\ Fits(x.op, x.pc) /\ x.src # i
    BY AtWork, Zenon DEF MarkFailed, At
  <2>2. x.pc = "fail" /\ x.op \in {"create", "fork"} /\ Done(r) /\ vms[i].state = "creating"
    BY Zenon DEF MarkFailed, At, Fits, Work
  <2>3. /\ capturing' = capturing /\ fc' = fc /\ disk' = disk
        /\ \A j \in Ids : j # i => vms'[j] = vms[j]
        /\ vms'[i].state = "error" /\ vms'[i].pid = vms[i].pid
    BY <2>2 DEF MarkFailed, SetState, Exists, TypeInv, StoreOK, Vm
  <2>4. Rooted' /\ RunsOn(i)' = RunsOn(i) /\ \A j \in Ids : j # i => Calm(j)
    BY <2>3, <1>Local, Zenon
  <2>5. Rest(i)'
    BY <2>2, <2>3, <2>4, Zenon DEF Work, Running, Out, Inside, Rest
  <2>6. x.pc # "idle"
    BY <2>2
  <2> QED BY <2>2, <2>4, <2>5, <2>6, <1>EndsAt, Zenon

\* set_pid of a start or a wake.
<1>ORecordPid. ASSUME TypeInv, OInv, NEW r \in Reqs, RecordPid(r)
               PROVE  OInv'
  <2> USE <1>ORecordPid
  <2> PICK x \in Request, i \in Ids : x = req[r] /\ i = x.id /\ Work(x, i) /\ Fits(x.op, x.pc) /\ x.src # i
    BY AtWork, Zenon DEF RecordPid, At
  <2>2. /\ x.pc = "setpid" /\ x.op \in {"start", "wake"} /\ Goto(r, "setstate")
        /\ vms[i].state \in {"stopped", "error", "sleeping"}
    BY Zenon DEF RecordPid, At, Fits, Work
  <2>3. /\ capturing' = capturing /\ fc' = fc /\ disk' = disk
        /\ \A j \in Ids : j # i => vms'[j] = vms[j]
        /\ vms'[i].state = vms[i].state /\ vms'[i].pid = x.pid
    BY <2>2 DEF RecordPid, SetPid, Exists, TypeInv, StoreOK, Vm
  <2>4. Rooted' /\ RunsOn(i)' = RunsOn(i) /\ \A j \in Ids : j # i => Calm(j)
    BY <2>2, <2>3, <1>Local
  <2>5. ASSUME NEW y, y.op = x.op /\ y.pc = "setstate" /\ y.pid = x.pid PROVE Work(y, i)'
    BY <2>2, <2>3, <2>4, <2>5, Zenon DEF Work, Running, Out, Inside
  <2>6. Fits(x.op, "setstate") /\ x.pc # "idle"
    BY <2>2 DEF Fits
  <2> QED BY <2>2, <2>4, <2>5, <2>6, <1>GoesTo, Zenon

\* set_state of a request.
<1>ORecordState. ASSUME TypeInv, OInv, NEW r \in Reqs, RecordState(r)
                 PROVE  OInv'
  <2> USE <1>ORecordState
  <2> PICK x \in Request, i \in Ids : x = req[r] /\ i = x.id /\ Work(x, i) /\ Fits(x.op, x.pc) /\ x.src # i
    BY AtWork, Zenon DEF RecordState, At
  <2>2. /\ x.pc = "setstate"
        /\ x.op \in {"start", "wake", "sleep", "pause", "resume", "stop", "delete", "rollback"}
    BY DEF RecordState, At, Fits
  <2> PICK l : Goto(r, l) /\ l = IF x.op \in {"stop", "delete", "rollback"} THEN "clearpid" ELSE "meta"
    BY DEF RecordState, IsDelete
  <2>4. /\ capturing' = capturing /\ fc' = fc /\ disk' = disk
        /\ \A j \in Ids : j # i => vms'[j] = vms[j]
        /\ vms[i].state = "absent" => vms'[i] = vms[i] /\ vms'[i] = NoVm /\ vms'[i].pid = None
        /\ vms[i].state # "absent" => vms'[i].state = Goal(x.op)
        /\ vms'[i].pid = vms[i].pid
    <3>1. vms' = [vms EXCEPT ![i].state = IF Exists(i) THEN Goal(x.op) ELSE @] /\ vms \in [Ids -> Vm]
      BY Zenon DEF RecordState, SetState, TypeInv, StoreOK
    <3>2. vms[i].state = "absent" => vms[i] = NoVm
      BY Zenon DEF OInv, Rooted
    <3>6. NoVm.pid = None
      BY Zenon DEF NoVm
    <3>3. /\ \A j \in Ids : j # i => vms'[j] = vms[j]
          /\ vms'[i] = [vms[i] EXCEPT !.state = IF Exists(i) THEN Goal(x.op) ELSE @] /\ vms[i] \in Vm
      BY <3>1
    <3>4. vms'[i].state = (IF Exists(i) THEN Goal(x.op) ELSE vms[i].state) /\ vms'[i].pid = vms[i].pid
      BY <3>3 DEF Vm
    <3>5. ~Exists(i) => vms'[i] = vms[i]
      BY <3>3 DEF Vm
    <3>7. capturing' = capturing /\ fc' = fc /\ disk' = disk
      BY Zenon DEF RecordState
    <3> QED BY <3>2, <3>3, <3>4, <3>5, <3>6, <3>7, Zenon DEF Exists
  <2>5. Goal(x.op) \in {"running", "paused", "sleeping", "stopped"}
        /\ (x.op \in {"start", "wake", "pause", "resume"} => Up(Goal(x.op)))
        /\ (Goal(x.op) = "sleeping" <=> x.op = "sleep")
    BY <2>2 DEF Goal, Up
  <2>6. vms'[i].state = "absent" => vms'[i] = NoVm
    BY <2>4, <2>5, Zenon
  <2>7. Rooted' /\ RunsOn(i)' = RunsOn(i) /\ \A j \in Ids : j # i => Calm(j)
    BY <2>4, <2>6, <1>Local, Zenon
  <2>8. ASSUME NEW y, y.op = x.op /\ y.pc = l /\ y.pid = x.pid PROVE Work(y, i)'
    <3>1. CASE x.op \in {"stop", "delete", "rollback"}
      <4>1. /\ y.pc = "clearpid" /\ RunsOn(i) \subseteq {vms[i].pid}
            /\ vms[i].pid \in {None, x.pid} /\ i \notin capturing
            /\ vms'[i].state # "sleeping"
        BY <2>2, <2>4, <2>5, <2>8, <3>1, Zenon DEF Work, Running, Out, Inside
      <4> QED BY <2>4, <2>7, <2>8, <3>1, <4>1, ZenonT(30) DEF Work, Running, Out, Inside
    <3>2. CASE x.op = "sleep"
      <4>0. y.pc = "meta" /\ Out(x.op, x.pc) /\ Out(y.op, y.pc)
        BY <2>2, <2>8, <3>2, Zenon DEF Out
      <4>1. /\ RunsOn(i) \subseteq {None} /\ vms[i].pid = None
            /\ disk[i].snap = "fresh" /\ i \notin capturing
        BY <2>2, <3>2, <4>0, Zenon DEF Work, Running
      <4> QED BY <2>4, <2>7, <2>8, <3>2, <4>0, <4>1, ZenonT(30) DEF Work, Running
    <3>3. CASE x.op \in {"start", "wake", "pause", "resume"}
      <4>1. /\ y.pc = "meta" /\ RunsOn(i) \subseteq {vms[i].pid} /\ i \notin capturing
            /\ vms'[i].state # "sleeping" /\ (vms'[i].pid # None => Up(vms'[i].state))
        BY <2>2, <2>4, <2>5, <2>8, <3>3, Zenon DEF Work, Running, Out, Inside
      <4> QED BY <2>4, <2>7, <2>8, <3>3, <4>1, ZenonT(30) DEF Work, Running, Out, Inside
    <3> QED BY <2>2, <3>1, <3>2, <3>3, Zenon
  <2>9. Fits(x.op, l) /\ l # "idle" /\ x.pc # "idle"
    BY <2>2 DEF Fits
  <2> QED BY <2>7, <2>8, <2>9, <1>GoesTo, Zenon

\* stop and sleep clear the pid.
<1>OClearPid. ASSUME TypeInv, OInv, NEW r \in Reqs, ClearPid(r)
              PROVE  OInv'
  <2> USE <1>OClearPid
  <2> PICK x \in Request, i \in Ids : x = req[r] /\ i = x.id /\ Work(x, i) /\ Fits(x.op, x.pc) /\ x.src # i
    BY AtWork, Zenon DEF ClearPid, At
  <2>2. x.pc = "clearpid" /\ x.op \in {"sleep", "stop", "delete", "rollback"} /\ Goto(r, "kill")
    BY DEF ClearPid, At, Fits
  <2>3. /\ capturing' = capturing /\ fc' = fc /\ disk' = disk
        /\ \A j \in Ids : j # i => vms'[j] = vms[j]
        /\ vms'[i].pid = None /\ vms'[i].state = vms[i].state
        /\ vms[i].state = "absent" => vms'[i] = NoVm
    <3>1. vms' = [vms EXCEPT ![i].pid = IF Exists(i) THEN None ELSE @] /\ vms \in [Ids -> Vm]
      BY Zenon DEF ClearPid, SetPid, TypeInv, StoreOK
    <3>2. vms[i].state = "absent" => vms[i] = NoVm
      BY Zenon DEF OInv, Rooted
    <3>6. NoVm.pid = None
      BY Zenon DEF NoVm
    <3>3. /\ \A j \in Ids : j # i => vms'[j] = vms[j]
          /\ vms'[i] = [vms[i] EXCEPT !.pid = IF Exists(i) THEN None ELSE @] /\ vms[i] \in Vm
      BY <3>1
    <3>4. vms'[i].pid = (IF Exists(i) THEN None ELSE vms[i].pid) /\ vms'[i].state = vms[i].state
      BY <3>3 DEF Vm
    <3>5. ~Exists(i) => vms'[i] = vms[i]
      BY <3>3 DEF Vm
    <3>7. capturing' = capturing /\ fc' = fc /\ disk' = disk
      BY Zenon DEF ClearPid
    <3> QED BY <3>2, <3>3, <3>4, <3>5, <3>6, <3>7, Zenon DEF Exists
  <2>4. Rooted' /\ RunsOn(i)' = RunsOn(i) /\ \A j \in Ids : j # i => Calm(j)
    BY <2>3, <1>Local
  <2>5. RunsOn(i) \subseteq {x.pid}
    BY <2>2, NoneNoVm DEF Work, Running, Out, Inside, RunsOn
  <2>6. ASSUME NEW y, y.op = x.op /\ y.pc = "kill" /\ y.pid = x.pid PROVE Work(y, i)'
    BY <2>2, <2>3, <2>4, <2>5, <2>6, ZenonT(30) DEF Work, Running, Out, Inside
  <2>7. Fits(x.op, "kill") /\ x.pc # "idle"
    BY <2>2 DEF Fits
  <2> QED BY <2>2, <2>4, <2>6, <2>7, <1>GoesTo, Zenon

\* sleep ends the FC it has a snapshot of.
<1>OSleepKill. ASSUME TypeInv, OInv, NEW r \in Reqs, SleepKill(r)
               PROVE  OInv'
  <2> USE <1>OSleepKill
  <2> PICK x \in Request, i \in Ids : x = req[r] /\ i = x.id /\ Work(x, i) /\ Fits(x.op, x.pc) /\ x.src # i
    BY AtWork, Zenon DEF SleepKill, At
  <2>2. x.pc = "kill" /\ x.op = "sleep" /\ Goto(r, "setstate")
    BY DEF SleepKill, At
  <2>3. /\ vms' = vms /\ capturing' = capturing /\ disk' = disk /\ Kill(x.pid)
        /\ x.pid \in Pids \cup {None}
    BY DEF SleepKill, Request
  <2>4. RunsOn(i) \subseteq {x.pid}
    BY <2>2, Zenon DEF Work, Running, Out, Inside
  <2>5. Rooted' /\ RunsOn(i)' = {} /\ \A j \in Ids : j # i => Calm(j)
    BY <2>3, <2>4, <1>KillOne, Zenon
  <2>6. ASSUME NEW y, y.op = x.op /\ y.pc = "setstate" /\ y.pid = x.pid PROVE Work(y, i)'
    BY <2>2, <2>3, <2>5, <2>6, Zenon DEF Work, Running, Out, Inside
  <2>7. Fits(x.op, "setstate") /\ x.pc # "idle"
    BY <2>2 DEF Fits
  <2> QED BY <2>2, <2>5, <2>6, <2>7, <1>GoesTo, Zenon

\* stop sends SIGTERM.
<1>OTerminate. ASSUME TypeInv, OInv, NEW r \in Reqs, Terminate(r)
               PROVE  OInv'
  <2> USE <1>OTerminate
  <2> PICK x \in Request, i \in Ids : x = req[r] /\ i = x.id /\ Work(x, i) /\ Fits(x.op, x.pc) /\ x.src # i
    BY AtWork, Zenon DEF Terminate, At
  <2>2. x.pc = "kill" /\ x.op \in {"stop", "delete", "rollback"} /\ Goto(r, "wait")
    BY DEF Terminate, At, Fits
  <2>3. vms' = vms /\ capturing' = capturing /\ disk' = disk
    BY Zenon DEF Terminate
  <2>4. \A q \in Pids : fc'[q].live = fc[q].live /\ fc'[q].child = fc[q].child /\ fc'[q].dir = fc[q].dir
    <3>1. fc \in [Pids -> Process]
      BY Zenon DEF TypeInv, StoreOK
    <3>2. fc' = fc \/ \E p : fc' = [fc EXCEPT ![p].term = fc[p].live]
      BY Zenon DEF Terminate
    <3> QED BY <3>1, <3>2 DEF Process
  <2>5. Rooted' /\ RunsOn(i)' = RunsOn(i) /\ \A j \in Ids : j # i => Calm(j)
    BY <2>3, <2>4, <1>SameProcs, Zenon
  <2>6. ASSUME NEW y, y.op = x.op /\ y.pc = "wait" /\ y.pid = x.pid PROVE Work(y, i)'
    BY <2>2, <2>3, <2>5, <2>6, Zenon DEF Work, Running, Out, Inside
  <2>7. Fits(x.op, "wait") /\ x.pc # "idle"
    BY <2>2 DEF Fits
  <2> QED BY <2>2, <2>5, <2>6, <2>7, <1>GoesTo, Zenon

\* stop waits for the FC to be gone.
<1>OStopWaited. ASSUME TypeInv, OInv, Undisturbed, NEW r \in Reqs, StopWaited(r)
                PROVE  OInv'
  <2> USE <1>OStopWaited
  <2> PICK x \in Request, i \in Ids : x = req[r] /\ i = x.id /\ Work(x, i) /\ Fits(x.op, x.pc) /\ x.src # i
    BY AtWork, Zenon DEF StopWaited, At
  <2>2. x.pc = "wait" /\ x.op \in {"stop", "delete", "rollback"}
    BY DEF StopWaited, At, Fits
  <2>3. vms' = vms /\ capturing' = capturing /\ disk' = disk /\ fc' = fc
    BY Zenon DEF StopWaited
  <2>4. Rooted' /\ RunsOn(i)' = RunsOn(i) /\ \A j \in Ids : j # i => Calm(j)
    BY <2>3, <1>Local, Zenon DEF OInv, Rooted
  <2>5. RunsOn(i) = {}
    <3>1. RunsOn(i) \subseteq {x.pid}
      BY <2>2 DEF Work, Running, Out, Inside
    <3>2. x.pid = None \/ ~fc[x.pid].live
      BY DEF StopWaited, PidAlive, Undisturbed
    <3> QED BY <3>1, <3>2, NoneNoVm DEF RunsOn
  <2>6. CASE Goto(r, "unslot") /\ x.op \in {"delete", "rollback"}
    <3> USE <2>6
    <3>1. ASSUME NEW y, y.op = x.op /\ y.pc = "unslot" /\ y.pid = x.pid PROVE Work(y, i)'
      BY <2>2, <2>3, <2>4, <2>5, <3>1, ZenonT(30) DEF Work, Running, Out, Inside
    <3>2. Fits(x.op, "unslot") /\ x.pc # "idle"
      BY <2>2 DEF Fits
    <3> QED BY <2>4, <3>1, <3>2, <1>GoesTo, Zenon
  <2>7. CASE Done(r)
    <3>1. Rest(i)'
      BY <2>2, <2>3, <2>4, <2>5, Zenon DEF Work, Running, Out, Inside, Rest
    <3>2. x.pc # "idle"
      BY <2>2
    <3> QED BY <2>4, <2>7, <3>1, <3>2, <1>EndsAt, Zenon
  <2> QED BY <2>6, <2>7, Zenon DEF StopWaited, IsDelete

\* delete gives the slot back and removes the directory.
<1>ORemoveDir. ASSUME TypeInv, OInv, NEW r \in Reqs, FreeSlot(r) \/ RemoveDir(r)
               PROVE  OInv'
  <2> USE <1>ORemoveDir
  <2> PICK x \in Request, i \in Ids : x = req[r] /\ i = x.id /\ Work(x, i) /\ Fits(x.op, x.pc) /\ x.src # i
    BY AtWork, Zenon DEF FreeSlot, RemoveDir, At
  <2>2. x.pc \in {"unslot", "remove"} /\ x.op \in {"delete", "rollback"}
    BY DEF FreeSlot, RemoveDir, At, Fits
  <2> PICK l \in {"remove", "forget"} : Goto(r, l)
    BY Zenon DEF FreeSlot, RemoveDir
  <2>4. /\ vms' = vms /\ capturing' = capturing /\ fc' = fc
        /\ \A j \in Ids : j # i => disk'[j] = disk[j]
    BY DEF FreeSlot, RemoveDir, TypeInv, StoreOK
  <2>5. RunsOn(i) = {}
    BY <2>2, NoneNoVm, Zenon DEF Work, Running, Out, RunsOn
  <2>6. \A j : RunsOn(j)' = RunsOn(j)
    BY <2>4, Zenon DEF RunsOn
  <2>7. Rooted'
    <3>1. \A p \in Pids : fc[p].live => fc[p].dir \in Ids /\ fc[p].dir # i
      BY <2>5, Zenon DEF RunsOn, OInv, Rooted, PidAlive
    <3>2. \A p \in Pids : /\ PidAlive(p)' => fc'[p].dir \in Ids
                          /\ fc'[p].live => disk'[fc'[p].dir].here
      BY <2>4, <3>1, Zenon DEF OInv, Rooted, PidAlive
    <3> QED BY <2>4, <3>2, Zenon DEF OInv, Rooted, NoVm
  <2>8. \A j \in Ids : j # i => Calm(j)
    BY <2>4, <2>6, Zenon DEF Calm
  <2>9. ASSUME NEW y, y.op = x.op /\ y.pc = l /\ y.pid = x.pid PROVE Work(y, i)'
    BY <2>2, <2>4, <2>5, <2>6, <2>9, Zenon DEF Work, Running, Out, Inside
  <2>10. Fits(x.op, l) /\ l # "idle" /\ x.pc # "idle"
    BY <2>2 DEF Fits
  <2> QED BY <2>7, <2>8, <2>9, <2>10, <1>GoesTo, Zenon

\* delete removes the record last.
<1>ORemoveRecord. ASSUME TypeInv, OInv, NEW r \in Reqs, RemoveRecord(r)
                  PROVE  OInv'
  <2> USE <1>ORemoveRecord
  <2> PICK x \in Request, i \in Ids : x = req[r] /\ i = x.id /\ Work(x, i) /\ Fits(x.op, x.pc) /\ x.src # i
    BY AtWork, Zenon DEF RemoveRecord, At
  <2>2. x.pc = "forget" /\ x.op \in {"delete", "rollback"} /\ Done(r)
    BY ZenonT(30) DEF RemoveRecord, At, Fits
  <2>3. /\ capturing' = capturing /\ fc' = fc /\ disk' = disk
        /\ \A j \in Ids : j # i => vms'[j] = vms[j]
        /\ vms'[i] = NoVm
    BY DEF RemoveRecord, TypeInv, StoreOK
  <2>4. vms'[i].pid = None /\ vms'[i].state = "absent"
    BY <2>3 DEF NoVm
  <2>5. Rooted' /\ RunsOn(i)' = RunsOn(i) /\ \A j \in Ids : j # i => Calm(j)
    BY <2>3, <1>Local, Zenon
  <2>6. Rest(i)'
    BY <2>2, <2>3, <2>4, <2>5, Zenon DEF Work, Running, Out, Inside, Rest
  <2>7. x.pc # "idle"
    BY <2>2
  <2> QED BY <2>2, <2>5, <2>6, <2>7, <1>EndsAt, Zenon

\* The parent of a fork has no request of its own.
<1>ParentRests. ASSUME TypeInv, OInv, NEW r \in Reqs, req[r].op = "fork", req[r].pc # "idle"
                PROVE  req[r].src \in Ids /\ Rest(req[r].src)
  <2> USE <1>ParentRests, Zenon
  <2>1. req[r].src \in Ids
    BY DEF TypeInv, RequestsOK
  <2>2. ~Worked(req[r].src)
    BY <2>1, NoneNoVm DEF OInv, Turns, Worked
  <2> QED BY <2>1, <2>2 DEF OInv

\* patch_vm_state.
<1>OPatchVm. ASSUME TypeInv, OInv, NEW r \in Reqs, PatchVm(r)
             PROVE  OInv'
  <2> USE <1>OPatchVm
  <2> PICK x \in Request, i \in Ids : x = req[r] /\ i = x.id /\ Work(x, i) /\ Fits(x.op, x.pc) /\ x.src # i
    BY AtWork, Zenon DEF PatchVm, At
  <2>2. x.pc = "patch" /\ x.op \in {"sleep", "fork", "pause", "resume"}
    BY DEF PatchVm, At, Fits
  <2> PICK l : Goto(r, l) /\ l = IF x.op \in {"sleep", "fork"} THEN "snapshot" ELSE "setstate"
    BY Zenon DEF PatchVm
  <2>4. vms' = vms /\ capturing' = capturing /\ disk' = disk
    BY Zenon DEF PatchVm
  <2>5. \A q \in Pids : fc'[q].live = fc[q].live /\ fc'[q].child = fc[q].child /\ fc'[q].dir = fc[q].dir
    BY DEF PatchVm, TypeInv, StoreOK, Process
  <2>6. Rooted' /\ RunsOn(i)' = RunsOn(i) /\ \A j \in Ids : j # i => Calm(j)
    BY <2>4, <2>5, <1>SameProcs, Zenon
  <2>7. ASSUME NEW y, y.op = x.op /\ y.pc = l /\ y.pid = x.pid PROVE Work(y, i)'
    BY <2>2, <2>4, <2>6, <2>7, ZenonT(30) DEF Work, Running, Out, Inside
  <2>8. Fits(x.op, l) /\ l # "idle" /\ x.pc # "idle"
    BY <2>2 DEF Fits
  <2> QED BY <2>6, <2>7, <2>8, <1>GoesTo, Zenon

\* put_snapshot_create.
<1>OSnapshot. ASSUME TypeInv, OInv, NEW r \in Reqs, Snapshot(r)
              PROVE  OInv'
  <2> USE <1>OSnapshot
  <2> PICK x \in Request, i \in Ids : x = req[r] /\ i = x.id /\ Work(x, i) /\ Fits(x.op, x.pc) /\ x.src # i
    BY AtWork, Zenon DEF Snapshot, At
  <2>2. x.pc = "snapshot" /\ x.op \in {"sleep", "fork"}
    BY DEF Snapshot, At, Fits
  <2> PICK l \in {"clearpid", "thaw", "copy"} : Goto(r, l) /\ (l = "clearpid" <=> x.op = "sleep")
    BY DEF Snapshot
  <2> PICK k : k = Subject(r)
    OBVIOUS
  <2>5. /\ x.op = "sleep" => k = i
        /\ x.op = "fork" => k = x.src /\ k # i /\ k \in Ids /\ Rest(k)
        /\ k \in Ids
    <3>1. x.op = "fork" => x.src \in Ids /\ Rest(x.src)
      BY <2>2, <1>ParentRests
    <3> QED BY <2>2, <3>1 DEF Subject
  <2>6. disk[k].here
    BY <2>5 DEF Snapshot, Answers, OInv, Rooted
  <2>7. /\ vms' = vms /\ capturing' = capturing /\ fc' = fc
        /\ \A j \in Ids : disk'[j].here = disk[j].here /\ (j # k => disk'[j].snap = disk[j].snap)
        /\ disk'[k].snap = "fresh"
    BY <2>5, <2>6 DEF Snapshot, TypeInv, StoreOK, Directory
  <2>8. Rooted' /\ (\A j : RunsOn(j)' = RunsOn(j)) /\ \A j \in Ids : j # k => Calm(j)
    BY <2>7, <1>SameProcs, Zenon
  <2>9. x.op = "fork" => Rest(k)'
    BY <2>5, <2>7, <2>8, Zenon DEF Rest
  <2>10. ASSUME NEW y, y.op = x.op /\ y.pc = l /\ y.pid = x.pid PROVE Work(y, i)'
    BY <2>2, <2>5, <2>7, <2>8, <2>10, Zenon DEF Work, Running, Out, Inside
  <2>11. Fits(x.op, l) /\ l # "idle" /\ x.pc # "idle"
    BY <2>2 DEF Fits
  <2>12. \A j \in Ids : j # i => Calm(j) \/ (j = x.src /\ Rest(j)')
    BY <2>2, <2>5, <2>8, <2>9, Zenon
  <2> QED BY <2>8, <2>10, <2>11, <2>12, <1>GoesTo, ZenonT(30)

\* fork resumes its parent.
<1>OThaw. ASSUME TypeInv, OInv, NEW r \in Reqs, Thaw(r)
          PROVE  OInv'
  <2> USE <1>OThaw
  <2> PICK x \in Request, i \in Ids : x = req[r] /\ i = x.id /\ Work(x, i) /\ Fits(x.op, x.pc) /\ x.src # i
    BY AtWork, Zenon DEF Thaw, At
  <2>2. x.pc = "thaw" /\ x.op = "fork" /\ Goto(r, "copy")
    BY DEF Thaw, At, Fits
  <2> PICK k : k = x.src
    OBVIOUS
  <2>4. k \in Ids /\ Rest(k) /\ k # i /\ Subject(r) = k
    BY <2>2, <1>ParentRests DEF Subject
  <2>5. /\ vms' = vms /\ capturing' = capturing
        /\ \A q \in Pids : fc'[q].live = fc[q].live /\ fc'[q].child = fc[q].child /\ fc'[q].dir = fc[q].dir
    BY DEF Thaw, TypeInv, StoreOK, Process
  <2>6. \A j \in Ids : disk'[j].here = disk[j].here /\ (j # k => disk'[j].snap = disk[j].snap)
    BY <2>4 DEF Thaw, TypeInv, StoreOK, Directory
  <2>7. Rooted' /\ (\A j : RunsOn(j)' = RunsOn(j)) /\ \A j \in Ids : j # k => Calm(j)
    BY <2>5, <2>6, <1>SameProcs, Zenon
  <2>8. vms[k].state # "sleeping"
    <3>1. RunsOn(k) # {}
      BY <2>4 DEF Thaw, Answers, RunsOn
    <3>2. vms[k].pid # None
      BY <2>4, <3>1, NoneNoVm DEF Rest, RunsOn
    <3> QED BY <2>4, <3>2 DEF Rest, Up
  <2>9. Rest(k)'
    BY <2>4, <2>5, <2>7, <2>8 DEF Rest
  <2>10. ASSUME NEW y, y.op = x.op /\ y.pc = "copy" /\ y.pid = x.pid PROVE Work(y, i)'
    BY <2>2, <2>4, <2>5, <2>6, <2>7, <2>10, Zenon DEF Work, Running, Out, Inside
  <2>11. Fits(x.op, "copy") /\ x.pc # "idle"
    BY <2>2 DEF Fits
  <2>12. \A j \in Ids : j # i => Calm(j) \/ (j = x.src /\ Rest(j)')
    BY <2>7, <2>9, Zenon
  <2> QED BY <2>2, <2>7, <2>10, <2>11, <2>12, <1>GoesTo, Zenon

\* A call to an FC that fails, and a fork that looks at its parent.
<1>OFcCallFails. ASSUME TypeInv, OInv, NEW r \in Reqs, FcCallFails(r) \/ ForkLooks(r)
                 PROVE  OInv'
  <2> USE <1>OFcCallFails
  <2> PICK x \in Request, i \in Ids : x = req[r] /\ i = x.id /\ Work(x, i) /\ Fits(x.op, x.pc) /\ x.src # i
    BY AtWork, Zenon DEF FcCallFails, ForkLooks, At
  <2>2. \/ x.pc \in {"patch", "snapshot"} /\ x.op \in {"sleep", "fork", "pause", "resume"}
        \/ x.pc \in {"thaw", "look"} /\ x.op = "fork"
    BY Zenon DEF FcCallFails, ForkLooks, At, Fits
  <2>3. vms' = vms /\ capturing' = capturing /\ disk' = disk /\ fc' = fc
    BY Zenon DEF FcCallFails, ForkLooks
  <2>4. Rooted' /\ RunsOn(i)' = RunsOn(i) /\ \A j \in Ids : j # i => Calm(j)
    BY <2>3, <1>Local, Zenon DEF OInv, Rooted
  <2>5. CASE \E l \in {"copy", "patch", "snapshot"} : Goto(r, l) /\ x.op = "fork"
    <3> PICK l \in {"copy", "patch", "snapshot"} : Goto(r, l) /\ x.op = "fork"
      BY <2>5, Zenon
    <3>2. ASSUME NEW y, y.op = x.op /\ y.pc = l /\ y.pid = x.pid PROVE Work(y, i)'
      BY <2>2, <2>3, <2>4, <3>2, ZenonT(30) DEF Work, Running, Out, Inside
    <3>3. Fits(x.op, l) /\ l # "idle" /\ x.pc # "idle"
      BY <2>2 DEF Fits
    <3>4. Goto(r, l)
      OBVIOUS
    <3> QED BY <2>4, <3>2, <3>3, <3>4, <1>GoesTo
  <2>6. CASE Done(r)
    <3>1. Rest(i)'
      BY <2>2, <2>3, <2>4, Zenon DEF Work, Running, Out, Inside, Rest
    <3>2. x.pc # "idle"
      BY <2>2
    <3> QED BY <2>4, <2>6, <3>1, <3>2, <1>EndsAt, Zenon
  <2> QED BY <2>2, <2>5, <2>6, Zenon DEF FcCallFails, ForkLooks, At

\* The stop inside delete.
<1>OStopLooks. ASSUME TypeInv, OInv, NEW r \in Reqs, StopLooks(r)
               PROVE  OInv'
  <2> USE <1>OStopLooks
  <2> PICK x \in Request, i \in Ids : x = req[r] /\ i = x.id /\ Work(x, i) /\ Fits(x.op, x.pc) /\ x.src # i
    BY AtWork, Zenon DEF StopLooks, At
  <2>2. x.pc = "stop" /\ x.op \in {"delete", "rollback"}
    BY DEF StopLooks, At, Fits
  <2>3. vms' = vms /\ capturing' = capturing /\ disk' = disk /\ fc' = fc
    BY Zenon DEF StopLooks
  <2>4. Rooted' /\ RunsOn(i)' = RunsOn(i) /\ \A j \in Ids : j # i => Calm(j)
    BY <2>3, <1>Local, Zenon DEF OInv, Rooted
  <2>5. CASE vms[i].state = "absent"
    <3> USE <2>5
    <3>1. vms[i].pid = None /\ Goto(r, "unslot")
      BY DEF StopLooks, Exists, OInv, Rooted, NoVm
    <3>2. ASSUME NEW y, y.op = x.op /\ y.pc = "unslot" /\ y.pid = x.pid PROVE Work(y, i)'
      BY <2>2, <2>3, <2>4, <3>1, <3>2, Zenon DEF Work, Running, Out, Inside
    <3>3. Fits(x.op, "unslot") /\ x.pc # "idle"
      BY <2>2 DEF Fits
    <3> QED BY <2>4, <3>1, <3>2, <3>3, <1>GoesTo, Zenon
  <2>6. CASE vms[i].state # "absent"
    <3>1. req' = [req EXCEPT ![r].pid = vms[i].pid, ![r].pc = "setstate"]
      BY <2>6, Zenon DEF StopLooks, Exists
    <3>2. /\ Others(r) /\ req'[r].pc = "setstate" /\ req'[r].op = x.op /\ req'[r].id = x.id
          /\ req'[r].src = x.src /\ req'[r].pid = vms[i].pid
      BY <3>1 DEF Others, TypeInv, RequestsOK, Request
    <3>3. ASSUME NEW y \in {req'[r]} PROVE Work(y, i)'
      <4>1. y.op = x.op /\ y.pc = "setstate" /\ y.pid = vms[i].pid
        BY <3>2, <3>3, Zenon
      <4> QED BY <2>2, <2>3, <2>4, <4>1, Zenon DEF Work, Running, Out, Inside
    <3>4. Fits(x.op, "setstate") /\ x.pc # "idle"
      BY <2>2 DEF Fits
    <3>5. /\ Fits(req'[r].op, req'[r].pc) /\ req[r].pc # "idle" /\ req'[r].pc # "idle"
          /\ req'[r].id = i /\ i = req[r].id /\ req'[r].src \in {req[r].src, None}
      BY <3>2, <3>4, Zenon
    <3> QED BY <2>4, <3>2, <3>3, <3>5, <1>GoesOn, Zenon
  <2> QED BY <2>5, <2>6

\* fork copies its parent.
<1>OCopyParent. ASSUME TypeInv, OInv, NEW r \in Reqs, CopyParent(r)
                PROVE  OInv'
  <2> USE <1>OCopyParent
  <2> PICK x \in Request, i \in Ids : x = req[r] /\ i = x.id /\ Work(x, i) /\ Fits(x.op, x.pc) /\ x.src # i
    BY AtWork, Zenon DEF CopyParent, At
  <2>2. x.pc = "copy" /\ x.op = "fork"
    BY DEF CopyParent, At, Fits
  <2>3. /\ vms' = vms /\ capturing' = capturing /\ fc' = fc
        /\ \A j \in Ids : j # i => disk'[j] = disk[j]
        /\ disk'[i].here
    BY Zenon DEF CopyParent, TypeInv, StoreOK, NoDir
  <2>4. Rooted' /\ RunsOn(i)' = RunsOn(i) /\ \A j \in Ids : j # i => Calm(j)
    BY <2>3, <1>Local, Zenon DEF OInv, Rooted
  <2>5. CASE Goto(r, "register")
    <3>1. ASSUME NEW y, y.op = x.op /\ y.pc = "register" /\ y.pid = x.pid PROVE Work(y, i)'
      BY <2>2, <2>3, <2>4, <3>1, Zenon DEF Work, Running, Out, Inside
    <3>2. Fits(x.op, "register") /\ x.pc # "idle"
      BY <2>2 DEF Fits
    <3> QED BY <2>4, <2>5, <3>1, <3>2, <1>GoesTo, Zenon
  <2>6. CASE Done(r)
    <3>1. Rest(i)'
      BY <2>2, <2>3, <2>4, Zenon DEF Work, Running, Out, Inside, Rest
    <3>2. x.pc # "idle"
      BY <2>2
    <3> QED BY <2>4, <2>6, <3>1, <3>2, <1>EndsAt, Zenon
  <2> QED BY <2>5, <2>6, Zenon DEF CopyParent

\* fork registers its child.
<1>ORegister. ASSUME TypeInv, OInv, NEW r \in Reqs, Register(r)
              PROVE  OInv'
  <2> USE <1>ORegister
  <2> PICK x \in Request, i \in Ids : x = req[r] /\ i = x.id /\ Work(x, i) /\ Fits(x.op, x.pc) /\ x.src # i
    BY AtWork, Zenon DEF Register, At
  <2>2. x.pc = "register" /\ x.op = "fork" /\ Goto(r, "slot")
    BY DEF Register, At, Fits
  <2>3. /\ capturing' = capturing /\ fc' = fc /\ disk' = disk
        /\ \A j \in Ids : j # i => vms'[j] = vms[j]
        /\ vms'[i].state = "creating" /\ vms'[i].pid = None
    <3>1. vms' = [vms EXCEPT ![i] = [NoVm EXCEPT !.state = "creating"]] /\ DOMAIN vms = Ids
      BY Zenon DEF Register, TypeInv, StoreOK
    <3>2. /\ [NoVm EXCEPT !.state = "creating"].state = "creating"
          /\ [NoVm EXCEPT !.state = "creating"].pid = None
      BY SMT DEF NoVm
    <3> QED BY <3>1, <3>2, Zenon DEF Register
  <2>4. Rooted' /\ RunsOn(i)' = RunsOn(i) /\ \A j \in Ids : j # i => Calm(j)
    BY <2>3, <1>Local
  <2>5. ASSUME NEW y, y.op = x.op /\ y.pc = "slot" /\ y.pid = x.pid PROVE Work(y, i)'
    BY <2>2, <2>3, <2>4, <2>5, Zenon DEF Work, Running, Out, Inside
  <2>6. Fits(x.op, "slot") /\ x.pc # "idle"
    BY <2>2 DEF Fits
  <2> QED BY <2>2, <2>4, <2>5, <2>6, <1>GoesTo, Zenon

\* write_meta.
<1>OSaveMeta. ASSUME TypeInv, OInv, NEW r \in Reqs, SaveMeta(r)
              PROVE  OInv'
  <2> USE <1>OSaveMeta
  <2> PICK x \in Request, i \in Ids : x = req[r] /\ i = x.id /\ Work(x, i) /\ Fits(x.op, x.pc) /\ x.src # i
    BY AtWork, Zenon DEF SaveMeta, At
  <2>2. x.pc = "meta" /\ x.op \in {"create", "fork", "start", "wake", "sleep", "pause", "resume"}
    BY DEF SaveMeta, At, Fits
  <2>3. /\ vms' = vms /\ capturing' = capturing /\ fc' = fc
        /\ \A j \in Ids : j # i => disk'[j] = disk[j]
        /\ disk'[i].here = disk[i].here /\ disk'[i].snap = disk[i].snap
    BY DEF SaveMeta, WriteMeta, TypeInv, StoreOK, Directory
  <2>4. Rooted' /\ RunsOn(i)' = RunsOn(i) /\ \A j \in Ids : j # i => Calm(j)
    BY <2>3, <1>Local, Zenon DEF OInv, Rooted
  <2>5. CASE x.op \in {"create", "fork"}
    <3> USE <2>5
    <3>1. Goto(r, "commit")
      <4>1. CanWriteMeta(i)
        BY <2>2, Zenon DEF Work, CanWriteMeta, Exists
      <4> QED BY <4>1, Zenon DEF SaveMeta, IsBuild
    <3>2. ASSUME NEW y, y.op = x.op /\ y.pc = "commit" /\ y.pid = x.pid PROVE Work(y, i)'
      BY <2>2, <2>3, <2>4, <3>2, Zenon DEF Work, Running, Out, Inside
    <3>3. Fits(x.op, "commit") /\ x.pc # "idle"
      BY <2>2 DEF Fits
    <3> QED BY <2>4, <3>1, <3>2, <3>3, <1>GoesTo, Zenon
  <2>6. CASE x.op \notin {"create", "fork"}
    <3> USE <2>6, Zenon
    <3>1. Rest(i)' /\ x.pc # "idle"
      BY <2>2, <2>3, <2>4 DEF Work, Running, Out, Inside, Rest
    <3>2. Done(r)
      BY DEF SaveMeta, IsBuild
    <3> QED BY <2>4, <3>1, <3>2, <1>EndsAt
  <2> QED BY <2>5, <2>6

\* A build that is committed, or rolled back.
<1>OCommit. ASSUME TypeInv, OInv, NEW r \in Reqs, Commit(r)
            PROVE  OInv'
  <2> USE <1>OCommit
  <2> PICK x \in Request, i \in Ids : x = req[r] /\ i = x.id /\ Work(x, i) /\ Fits(x.op, x.pc) /\ x.src # i
    BY AtWork, Zenon DEF Commit, At
  <2>2. x.pc = "commit" /\ x.op \in {"create", "fork"}
    BY DEF Commit, At, Fits
  <2>3. vms' = vms /\ capturing' = capturing /\ disk' = disk /\ fc' = fc
    BY Zenon DEF Commit
  <2>4. Rooted' /\ RunsOn(i)' = RunsOn(i) /\ \A j \in Ids : j # i => Calm(j)
    BY <2>3, <1>Local, Zenon DEF OInv, Rooted
  <2>5. CASE Done(r)
    <3>1. Rest(i)' /\ x.pc # "idle"
      BY <2>2, <2>3, <2>4, Zenon DEF Work, Running, Out, Inside, Rest
    <3> QED BY <2>4, <2>5, <3>1, <1>EndsAt, Zenon
  <2>6. CASE EnterDelete(r, "rollback", i)
    <3>1. /\ Others(r) /\ req'[r].pc = "stop" /\ req'[r].op = "rollback" /\ req'[r].id = i
          /\ req'[r].src = None
      BY <2>6, Zenon DEF Others, EnterDelete, Enter, TypeInv, RequestsOK
    <3>2. ASSUME NEW y \in {req'[r]} PROVE Work(y, i)'
      <4>1. y.op = "rollback" /\ y.pc = "stop"
        BY <3>1, <3>2
      <4> QED BY <2>2, <2>3, <2>4, <4>1, Zenon DEF Work, Running, Out, Inside
    <3>3. Fits("rollback", "stop")
      BY DEF Fits
    <3>4. /\ Fits(req'[r].op, req'[r].pc) /\ req[r].pc # "idle" /\ req'[r].pc # "idle"
          /\ req'[r].id = i /\ i = req[r].id /\ req'[r].src \in {req[r].src, None}
      BY <2>2, <3>1, <3>3
    <3> QED BY <2>4, <3>1, <3>2, <3>4, <1>GoesOn, Zenon
  <2> QED BY <2>5, <2>6, Zenon DEF Commit

\* A capture ends.
<1>OEndCapture. ASSUME TypeInv, OInv, NEW r \in Reqs, EndCapture(r)
                PROVE  OInv'
  <2> USE <1>OEndCapture
  <2> PICK x \in Request, i \in Ids : x = req[r] /\ i = x.id /\ Work(x, i) /\ Fits(x.op, x.pc) /\ x.src # i
    BY AtWork, Zenon DEF EndCapture, At
  <2>2. x.pc = "stream" /\ x.op = "capture" /\ Done(r)
    BY DEF EndCapture, At, Fits
  <2>3. /\ vms' = vms /\ disk' = disk /\ fc' = fc /\ i \notin capturing'
        /\ \A j \in Ids : j # i => (j \in capturing' <=> j \in capturing)
    BY DEF EndCapture
  <2>4. Rooted' /\ RunsOn(i)' = RunsOn(i) /\ \A j \in Ids : j # i => Calm(j)
    BY <2>3, <1>Local, Zenon DEF OInv, Rooted
  <2>5. Rest(i)' /\ x.pc # "idle"
    BY <2>2, <2>3, <2>4, Zenon DEF Work, Running, Out, Inside, Rest
  <2> QED BY <2>2, <2>4, <2>5, <1>EndsAt, Zenon

\* A request that nothing stands in the way of.
<1>Entered. ASSUME TypeInv, OInv, NEW r \in Reqs, NEW i \in Ids, req[r].pc = "idle", ~Busy(i),
                   NEW op, NEW l, NEW pid, NEW slot, Enter(r, op, i, l, pid, slot), l # "idle", Fits(op, l),
                   fc' = fc, disk' = disk, \A j \in Ids : j # i => vms'[j] = vms[j],
                   \A j \in Ids : j # i => (j \in capturing' <=> j \in capturing),
                   vms'[i].state = "absent" => vms'[i] = NoVm,
                   Rest(i) /\ RunsOn(i)' = RunsOn(i) =>
                       \A y : y.op = op /\ y.pc = l /\ y.pid = pid => Work(y, i)'
            PROVE  OInv'
  <2> USE <1>Entered
  <2>1. /\ Others(r) /\ req'[r].pc = l /\ req'[r].op = op /\ req'[r].id = i
        /\ req'[r].src = None /\ req'[r].pid = pid
    BY Zenon DEF Enter, Others, TypeInv, RequestsOK
  <2>2. Rest(i)
    BY Zenon DEF OInv, Busy, Worked
  <2>3. Rooted' /\ RunsOn(i)' = RunsOn(i) /\ \A j \in Ids : j # i => Calm(j)
    BY <1>Local, Zenon
  <2>4. \A y \in {req'[r]} : Work(y, i)'
    BY <2>1, <2>2, <2>3, Zenon
  <2>5. /\ req'[r].pc # "idle" /\ Fits(req'[r].op, req'[r].pc) /\ req'[r].src # i
        /\ req'[r].src \in Ids => ~Busy(req'[r].src)
        /\ req'[r].src \in Ids \cup {None}
    BY <2>1, NoneNoVm, Zenon
  <2> QED BY <2>1, <2>3, <2>4, <2>5, <1>Begins, Zenon

\* create and capture.
<1>OCreate. ASSUME TypeInv, OInv, Undisturbed, NEW r \in Reqs, NEW i \in Ids, Create(r, i)
            PROVE  OInv'
  <2> USE <1>OCreate
  <2>1. req[r].pc = "idle" /\ ~Busy(i) /\ Enter(r, "create", i, "image", None, None)
    BY Admitted, Zenon DEF Create
  <2>2. /\ fc' = fc /\ disk' = disk /\ capturing' = capturing
        /\ \A j \in Ids : j # i => vms'[j] = vms[j]
        /\ vms'[i].state = "creating" /\ vms'[i].pid = None
    <3>1. vms' = [vms EXCEPT ![i] = [NoVm EXCEPT !.state = "creating"]] /\ DOMAIN vms = Ids
      BY Zenon DEF Create, TypeInv, StoreOK
    <3>2. /\ [NoVm EXCEPT !.state = "creating"].state = "creating"
          /\ [NoVm EXCEPT !.state = "creating"].pid = None
      BY SMT DEF NoVm
    <3> QED BY <3>1, <3>2, Zenon DEF Create
  <2>3. RunsOn(i) = {}
    BY DEF Create, Unused, RunsOn
  <2>4. ASSUME Rest(i) /\ RunsOn(i)' = RunsOn(i),
               NEW y, y.op = "create" /\ y.pc = "image" /\ y.pid = None PROVE Work(y, i)'
    BY <2>2, <2>3, <2>4, Zenon DEF Rest, Work, Running, Out, Inside
  <2>5. Fits("create", "image") /\ vms'[i].state # "absent"
    BY <2>2 DEF Fits
  <2> QED BY <2>1, <2>2, <2>4, <2>5, <1>Entered, Zenon

\* A capture begins.
<1>OBeginCapture. ASSUME TypeInv, OInv, Undisturbed, NEW r \in Reqs, NEW i \in Ids, BeginCapture(r, i)
                  PROVE  OInv'
  <2> USE <1>OBeginCapture
  <2>1. /\ req[r].pc = "idle" /\ ~Busy(i) /\ Enter(r, "capture", i, "stream", None, None)
        /\ vms[i].state = "stopped"
    BY Admitted, Zenon DEF BeginCapture
  <2>2. /\ fc' = fc /\ disk' = disk /\ vms' = vms /\ i \in capturing'
        /\ \A j \in Ids : j # i => (j \in capturing' <=> j \in capturing)
    BY Zenon DEF BeginCapture
  <2>3. ASSUME Rest(i) /\ RunsOn(i)' = RunsOn(i),
               NEW y, y.op = "capture" /\ y.pc = "stream" /\ y.pid = None PROVE Work(y, i)'
    BY <2>1, <2>2, <2>3 DEF Rest, Work, Running, Out, Inside, Up
  <2>4. Fits("capture", "stream") /\ vms'[i].state # "absent"
    BY <2>1, <2>2 DEF Fits
  <2> QED BY <2>1, <2>2, <2>3, <2>4, <1>Entered, Zenon

\* The requests on a VM that is there.
<1>OEnter. ASSUME TypeInv, OInv, Undisturbed, NEW r \in Reqs, NEW i \in Ids,
                  \/ Start(r, i) \/ Wake(r, i) \/ Sleep(r, i) \/ Pause(r, i)
                  \/ Resume(r, i) \/ Stop(r, i) \/ Delete(r, i)
           PROVE  OInv'
  <2> USE <1>OEnter
  <2>1. vms' = vms /\ capturing' = capturing /\ fc' = fc /\ disk' = disk
    BY Zenon DEF Start, Wake, Sleep, Pause, Resume, Stop, Delete
  <2>2. vms'[i].state = "absent" => vms'[i] = NoVm
    BY <2>1, Zenon DEF OInv, Rooted
  <2> PICK op, l, pid, slot :
          /\ Enter(r, op, i, l, pid, slot) /\ Admit(r, op, i)
          /\ \/ op \in {"start", "wake"} /\ l = "spawn"
             \/ op = "sleep" /\ l = "patch" /\ pid = vms[i].pid
             \/ op \in {"pause", "resume"} /\ l = "patch"
             \/ op = "stop" /\ l = "setstate" /\ pid = vms[i].pid
             \/ op = "delete" /\ l = "stop"
    BY Zenon DEF Start, Wake, Sleep, Pause, Resume, Stop, Delete, EnterDelete
  <2>4. req[r].pc = "idle" /\ ~Busy(i) /\ vms[i].state \in From(op)
    BY Admitted, Zenon
  <2>5. /\ op = "start" => vms[i].state \in {"stopped", "error"}
        /\ op = "wake" => vms[i].state = "sleeping"
        /\ op \in {"sleep", "pause", "resume", "stop"} => Up(vms[i].state)
    BY <2>4 DEF From, Up
  <2>6. ASSUME Rest(i) /\ RunsOn(i)' = RunsOn(i),
               NEW y, y.op = op /\ y.pc = l /\ y.pid = pid PROVE Work(y, i)'
    BY <2>1, <2>5, <2>6, Zenon DEF Rest, Work, Running, Out, Inside, Up
  <2>7. Fits(op, l) /\ l # "idle"
    BY DEF Fits
  <2>8. Enter(r, op, i, l, pid, slot)
    OBVIOUS
  <2> QED BY <2>1, <2>2, <2>4, <2>6, <2>7, <2>8, <1>Entered, Zenon

\* fork.
<1>OFork. ASSUME TypeInv, OInv, Undisturbed, NEW r \in Reqs, NEW k \in Ids, NEW i \in Ids, Fork(r, k, i)
          PROVE  OInv'
  <2> USE <1>OFork
  <2>1. req[r].pc = "idle" /\ ~Busy(k) /\ ~Busy(i) /\ i # k
    BY Admitted, Zenon DEF Fork, Unused
  <2>2. vms' = vms /\ capturing' = capturing /\ fc' = fc /\ disk' = disk
    BY Zenon DEF Fork
  <2>3. Rooted' /\ RunsOn(i)' = RunsOn(i) /\ \A j \in Ids : j # i => Calm(j)
    BY <2>2, <1>Local, Zenon DEF OInv, Rooted
  <2>4. Rest(i) /\ vms[i].pid = None /\ RunsOn(i) = {} /\ vms[i].state = "absent"
    <3>1. Rest(i)
      BY <2>1, Zenon DEF OInv, Busy, Worked
    <3>2. RunsOn(i) = {}
      BY Zenon DEF Fork, Unused, RunsOn
    <3>3. ~Exists(i)
      BY Zenon DEF Fork, Unused
    <3>4. vms[i] = NoVm
      BY <3>3, Zenon DEF Exists, OInv, Rooted
    <3> QED BY <3>1, <3>2, <3>3, <3>4 DEF Exists, NoVm
  <2>5. /\ Others(r) /\ req'[r].pc = "look" /\ req'[r].op = "fork" /\ req'[r].id = i /\ req'[r].src = k
    BY Zenon DEF Fork, Others, TypeInv, RequestsOK
  <2>6. ASSUME NEW y \in {req'[r]} PROVE Work(y, i)'
    <3>1. y.op = "fork" /\ y.pc = "look"
      BY <2>5, <2>6
    <3> QED BY <2>2, <2>3, <2>4, <3>1, Zenon DEF Rest, Work, Running, Out, Inside
  <2>7. Fits("fork", "look")
    BY DEF Fits
  <2>8. /\ req'[r].pc # "idle" /\ Fits(req'[r].op, req'[r].pc) /\ req'[r].src # i
        /\ req'[r].src \in Ids => ~Busy(req'[r].src)
        /\ req'[r].src \in Ids \cup {None}
    BY <2>1, <2>5, <2>7
  <2> QED BY <2>1, <2>3, <2>5, <2>6, <2>8, <1>Begins, Zenon

\* An FC that exits.
<1>OFcExits. ASSUME TypeInv, OInv, NEW p \in Pids, FcExits(p)
             PROVE  OInv'
  <2> USE <1>OFcExits, Zenon
  <2>1. /\ vms' = vms /\ capturing' = capturing /\ disk' = disk /\ req' = req /\ fc' = Killed(p)
        /\ fc \in [Pids -> Process]
    BY DEF FcExits, TypeInv, StoreOK
  <2>2. \A q \in Pids : /\ PidAlive(q)' => PidAlive(q) /\ fc'[q].dir = fc[q].dir
                        /\ fc'[q].live => fc[q].live
    BY <2>1, SMT DEF Killed, Gone, PidAlive
  <2>3. \A j : RunsOn(j)' \subseteq RunsOn(j)
    BY <2>2 DEF RunsOn, PidAlive
  <2>4. Rooted'
    BY <2>1, <2>2, <1>RootedStays DEF OInv, Rooted
  <2>5. \A j \in Ids : Calm(j)
    BY <2>1, <2>3 DEF Calm
  <2> QED BY <2>1, <2>4, <2>5, <1>CalmRest, <1>CalmWork, <1>Aside

\* on_fc_exit, for a process that is no longer there.
<1>OnExit. ASSUME TypeInv, OInv, NEW p \in Pids, NEW i \in Ids, ~fc[p].live, OnFcExit(i, p),
                  capturing' = capturing, req' = req,
                  \A q \in Pids : /\ PidAlive(q)' => PidAlive(q) /\ fc'[q].dir = fc[q].dir
                                  /\ fc'[q].live => fc[q].live
           PROVE  OInv'
  <2> USE <1>OnExit
  <2>1. \A j : RunsOn(j)' \subseteq RunsOn(j)
    BY Zenon DEF RunsOn, PidAlive
  <2>2. vms \in [Ids -> Vm] /\ disk \in [Ids -> Directory]
    BY Zenon DEF TypeInv, StoreOK
  <2>3. \A j \in Ids : disk'[j].here = disk[j].here /\ disk'[j].snap = disk[j].snap
    BY <2>2 DEF OnFcExit, WriteMeta, Directory
  <2>4. \A j \in Ids : j # i => vms'[j] = vms[j]
    BY <2>2 DEF OnFcExit
  <2>5. \/ vms'[i] = vms[i]
        \/ vms[i].pid = p /\ HasProcess(vms[i].state) /\ vms'[i].state = "error" /\ vms'[i].pid = None
    BY <2>2, Zenon DEF OnFcExit, Vm
  <2>6. \A j \in Ids : vms'[j].state = "absent" => vms'[j] = NoVm
    BY <2>4, <2>5 DEF OInv, Rooted
  <2>7. Rooted'
    BY <2>3, <2>6, <1>RootedStays, Zenon DEF OInv
  <2>8. \A j \in Ids : j # i \/ vms'[i] = vms[i] => Calm(j)
    BY <2>1, <2>3, <2>4, Zenon DEF Calm
  <2>9. CASE vms'[i] = vms[i]
    BY <2>7, <2>8, <2>9, <1>CalmRest, <1>CalmWork, <1>Aside, Zenon
  <2>10. CASE vms'[i] # vms[i]
    <3>1. /\ vms[i].pid = p /\ p # None /\ vms'[i].state = "error" /\ vms'[i].pid = None
          /\ vms[i].state \in {"creating", "running", "paused"}
      BY <2>5, <2>10, NoneNoVm DEF HasProcess
    <3>2. RunsOn(i) \subseteq {p} => RunsOn(i)' = {}
      BY <2>1 DEF RunsOn
    <3>3. Rest(i) => Rest(i)'
      BY <2>3, <3>1, <3>2, Zenon DEF Rest
    <3>4. ASSUME NEW x, Work(x, i) PROVE Work(x, i)'
      <4> USE <3>4, Zenon
      <4>1. ~Out(x.op, x.pc) /\ ~Inside(x.pc)
        BY <3>1 DEF Work
      <4>2. RunsOn(i)' = {}
        BY <3>1, <3>2, <4>1 DEF Work, Running
      <4> QED BY <2>3, <3>1, <4>1, <4>2 DEF Work, Out, Inside
    <3>5. \A j \in Ids : /\ Rest(j) => Rest(j)'
                         /\ \A x : Work(x, j) => Work(x, j)'
      BY <2>8, <3>3, <3>4, <1>CalmRest, <1>CalmWork, Zenon
    <3> QED BY <2>7, <3>5, <1>Aside, Zenon
  <2> QED BY <2>9, <2>10

\* The reaper and the sweep.
<1>OReap. ASSUME TypeInv, OInv, NEW p \in Pids, Reap(p)
          PROVE  OInv'
  <2> USE <1>OReap
  <2>1. /\ capturing' = capturing /\ req' = req /\ fc' = [fc EXCEPT ![p] = Gone]
        /\ fc \in [Pids -> Process] /\ ~fc[p].live /\ OnFcExit(fc[p].dir, p)
    BY Zenon DEF Reap, TypeInv, StoreOK
  <2>2. fc[p].dir \in Ids
    BY Zenon DEF Reap, PidAlive, OInv, Rooted
  <2>3. \A q \in Pids : /\ PidAlive(q)' => PidAlive(q) /\ fc'[q].dir = fc[q].dir
                        /\ fc'[q].live => fc[q].live
    BY <2>1 DEF Gone, PidAlive
  <2> QED BY <2>1, <2>2, <2>3, <1>OnExit, Zenon

\* The sweep.
<1>OSweepDead. ASSUME TypeInv, OInv, NEW i \in Ids, SweepDead(i)
               PROVE  OInv'
  <2> USE <1>OSweepDead
  <2>1. /\ capturing' = capturing /\ req' = req /\ fc' = fc
        /\ OnFcExit(i, vms[i].pid) /\ vms[i].pid # None /\ ~fc[vms[i].pid].live
    BY Zenon DEF SweepDead, PidAlive
  <2>2. vms[i].pid \in Pids
    BY <2>1 DEF TypeInv, StoreOK, Vm
  <2>3. \A q \in Pids : /\ PidAlive(q)' => PidAlive(q) /\ fc'[q].dir = fc[q].dir
                        /\ fc'[q].live => fc[q].live
    BY <2>1, Zenon DEF PidAlive
  <2> QED BY <2>1, <2>2, <2>3, <1>OnExit, Zenon

<1> QED
  <2> USE Zenon
  <2> SUFFICES ASSUME TypeInv, OInv, Undisturbed, [Next]_vars PROVE OInv'
    OBVIOUS
  <2>1. ASSUME NEW r \in Reqs, Step(r) PROVE OInv'
    BY <2>1, <1>OPrepareDir, <1>OBuildFails, <1>OSpawn, <1>OBoot, <1>OBootFails, <1>OPublish,
       <1>OMarkFailed, <1>ORecordPid, <1>ORecordState, <1>OClearPid, <1>OSleepKill, <1>OTerminate,
       <1>OStopWaited, <1>ORemoveDir, <1>ORemoveRecord, <1>OPatchVm, <1>OSnapshot, <1>OThaw,
       <1>OFcCallFails, <1>OStopLooks, <1>OCopyParent, <1>ORegister, <1>OSaveMeta, <1>OCommit DEF Step
  <2>2. ASSUME NEW r \in Reqs, NEW i \in Ids, Begin(r, i) PROVE OInv'
    BY <2>2, <1>OCreate, <1>OBeginCapture, <1>OEnter, <1>OFork DEF Begin
  <2>3. ASSUME NEW r \in Reqs, Cancel(r) PROVE OInv'
    BY <2>3, SMT DEF Cancel, Undisturbed
  <2>4. CASE Restart \/ Reboot
    BY <2>4, SMT DEF Restart, Reboot, Undisturbed
  <2>5. CASE UNCHANGED vars
    <3>1. vms' = vms /\ capturing' = capturing /\ disk' = disk /\ req' = req /\ fc' = fc
      BY <2>5, SMT DEF vars
    <3>2. Rooted' /\ \A j \in Ids : Calm(j)
      BY <3>1, <1>SameProcs
    <3> QED BY <3>1, <3>2, <1>CalmRest, <1>CalmWork, <1>Aside
  <2> QED BY <2>1, <2>2, <2>3, <2>4, <2>5, <1>OEndCapture, <1>OFcExits, <1>OReap, <1>OSweepDead DEF
             Next

\* The FC of a VM, if it has one, is the recorded one or the request's.
LEMMA Known ==
    ASSUME TypeInv, OInv, NEW i \in Ids
    PROVE  \/ RunsOn(i) \subseteq {vms[i].pid}
           \/ \E r \in Reqs : RunsOn(i) \subseteq {req[r].pid}
<1>1. CASE Worked(i)
  <2> PICK r \in Reqs : req[r].id = i
    BY <1>1 DEF Worked
  <2>2. req[r].pc # "idle"
    BY NoneNoVm, Zenon DEF OInv, Turns
  <2> PICK x \in Request, j \in Ids : x = req[r] /\ j = x.id /\ Work(x, j)
    BY <2>2, AtWork, Zenon
  <2>4. RunsOn(i) \subseteq {None} \/ RunsOn(i) \subseteq {x.pid} \/ RunsOn(i) \subseteq {vms[i].pid}
    BY Zenon DEF Work, Running
  <2> QED BY <2>4, NoneNoVm DEF RunsOn
<1>2. CASE ~Worked(i)
  BY <1>2, Zenon DEF OInv, Rest
<1> QED BY <1>1, <1>2

\* What the invariant says of the FCs.
LEMMA OrderlyMeans ==
    ASSUME TypeInv, OInv
    PROVE  OneFcPerInstance /\ NoOrphanFc /\ SleepingIsCold /\ CaptureIsQuiet
<1>1. \A p \in Pids : fc[p].live => fc[p].dir \in Ids /\ p \in RunsOn(fc[p].dir)
  BY DEF OInv, Rooted, PidAlive, RunsOn
<1>2. OneFcPerInstance
  <2>1. SUFFICES ASSUME NEW p \in Pids, NEW q \in Pids, fc[p].live /\ fc[q].live /\ fc[p].dir = fc[q].dir
                 PROVE  p = q
    BY Zenon DEF OneFcPerInstance
  <2>2. \E z : RunsOn(fc[p].dir) \subseteq {z}
    BY <1>1, <2>1, Known, Zenon
  <2> QED BY <1>1, <2>1, <2>2
<1>3. NoOrphanFc
  BY <1>1, Known DEF NoOrphanFc
<1>4. SleepingIsCold
  <2>1. SUFFICES ASSUME NEW i \in Ids, vms[i].state = "sleeping", ~Busy(i)
                 PROVE  disk[i].snap # "none" /\ RunsOn(i) = {}
    BY Zenon DEF SleepingIsCold
  <2>2. Rest(i)
    BY <2>1, Zenon DEF OInv, Busy, Worked
  <2> QED BY <2>1, <2>2, NoneNoVm DEF Rest, Up, RunsOn
<1>5. CaptureIsQuiet
  <2>1. SUFFICES ASSUME NEW i \in capturing PROVE RunsOn(i) = {}
    BY Zenon DEF CaptureIsQuiet
  <2>2. i \in Ids
    BY DEF TypeInv, StoreOK
  <2> PICK r \in Reqs : req[r].id = i
    BY <2>2, Zenon DEF OInv, Rest, Worked
  <2>4. req[r].pc # "idle"
    BY <2>2, NoneNoVm, Zenon DEF OInv, Turns
  <2>5. PICK x \in Request, j \in Ids : x = req[r] /\ j = x.id /\ Work(x, j)
    BY <2>4, AtWork, Zenon
  <2> QED BY <2>1, <2>5, NoneNoVm, Zenon DEF Work, Running, Out, RunsOn
<1> QED BY <1>2, <1>3, <1>4, <1>5

\* What the invariant says of a wake.
LEMMA WakeMeans ==
    ASSUME TypeInv, OInv, NEW r \in Reqs, At(r, "boot"), req[r].op = "wake"
    PROVE  disk[req[r].id].snap = "fresh"
<1>1. PICK x \in Request, i \in Ids : x = req[r] /\ i = x.id /\ Work(x, i)
  BY AtWork, Zenon DEF At
<1> QED BY <1>1, Zenon DEF At, Work

\* With orderly callers, the records, the processes and the requests agree.
THEOREM OrderlyInvariant == ASSUME Undisturbed PROVE Spec => [](TypeInv /\ OInv)
<1>1. Init => TypeInv /\ OInv
  BY InitType, OInit
<1>2. TypeInv /\ OInv /\ [Next]_vars => (TypeInv /\ OInv)'
  BY NextType, OStep
<1> QED BY <1>1, <1>2, PTL DEF Spec

\* With orderly callers, two Firecrackers never run over one instance directory.
THEOREM OneFirecracker == ASSUME Undisturbed PROVE Spec => []OneFcPerInstance
BY OrderlyInvariant, OrderlyMeans, PTL

\* With orderly callers, every live Firecracker is the recorded process of its VM or held by a request.
THEOREM NoOrphans == ASSUME Undisturbed PROVE Spec => []NoOrphanFc
BY OrderlyInvariant, OrderlyMeans, PTL

\* With orderly callers, a sleeping VM that no request works on has its snapshot and no process.
THEOREM SleepersStayCold == ASSUME Undisturbed PROVE Spec => []SleepingIsCold
BY OrderlyInvariant, OrderlyMeans, PTL

\* With orderly callers, no Firecracker runs over a rootfs that is being captured.
THEOREM CapturesStayQuiet == ASSUME Undisturbed PROVE Spec => []CaptureIsQuiet
BY OrderlyInvariant, OrderlyMeans, PTL

\* With orderly callers, the memory that wake loads is never older than the
\* rootfs it is loaded over.
THEOREM WakesStayFresh == ASSUME Undisturbed PROVE Spec => WakeIsFresh
<1>1. TypeInv /\ OInv =>
        [\A r \in Reqs : At(r, "boot") /\ req[r].op = "wake" /\ req'[r].pc = "setpid"
             => disk[req[r].id].snap = "fresh"]_vars
  BY WakeMeans, Zenon
<1> QED BY <1>1, OrderlyInvariant, PTL DEF WakeIsFresh

=============================================================================
