--------------------------- MODULE FeluccadProofs ---------------------------
(***************************************************************************)
(* What holds of feluccad's two ledgers.  Of the sandboxes (ControlPlane), *)
(* for any number of sandboxes, clients, faults and crashes of feluccad:   *)
(* the quota of a tenant holds and a deleted sandbox is not billed.  Of    *)
(* the fleet (Enrollment), for any number of workers, join tokens,         *)
(* addresses and faults: addresses are exclusive, a grant is backed by a   *)
(* peer, the credential of a worker is the one feluccad has for it and a   *)
(* token is burned only for a complete enrolment.                          *)
(***************************************************************************)
EXTENDS ControlPlane, Enrollment, FiniteSetTheorems, TLAPS

Procs == Reqs \cup {Sweeper}
SbFields == {"state", "last", "slept"}
ReqFields == {"op", "id", "src", "pc", "ok"}

\* Records and requests have their fields, and a request at work has its sandbox.
RecordsOK == DOMAIN sb = Ids /\ \A i \in Ids : DOMAIN sb[i] = SbFields
SavedOK == DOMAIN saved = Ids /\ \A i \in Ids : DOMAIN saved[i] = SbFields
ReqsOK ==
    /\ DOMAIN req = Procs /\ \A r \in Procs : DOMAIN req[r] = ReqFields
    /\ \A r \in Procs : req[r].pc # "idle" => req[r].id \in Ids

TInv ==
    /\ RecordsOK /\ SavedOK /\ ReqsOK /\ billed \subseteq Ids
    /\ acts \subseteq Ids \X {"autosleep", "autodelete"} /\ crashes \in Nat

\* The quota holds of the snapshot as well, which a crash brings back.
OwnedSaved == {i \in Ids : saved[i].state # "absent"}

QInv ==
    MaxSandboxes > 0 => /\ Cardinality(Owned) <= MaxSandboxes
                        /\ Cardinality(OwnedSaved) <= MaxSandboxes

\* A delete that has removed the record of a sandbox and not yet written the
\* event: others that are still under way may be refused and write none.
Closes(r, i) == req[r].id = i /\ IsDelete(req[r].op) /\ req[r].pc \in {"persist", "usage"}
Closing(i) == \E r \in Procs : Closes(r, i)

BInv == \A i \in billed : Exists(i) \/ Closing(i) \/ crashes > 0

\* What every step does short of a crash: it adds a record only below the quota,
\* and bills, or goes on billing, only what exists or is being closed.
Effect ==
    /\ RecordsOK' /\ ReqsOK' /\ saved' \in {sb, saved} /\ billed' \subseteq Ids
    /\ acts' \subseteq Ids \X {"autosleep", "autodelete"} /\ crashes' = crashes
    /\ \/ Owned' \subseteq Owned
       \/ ~QuotaExceeded /\ \E c \in Ids : Owned' = Owned \cup {c}
    /\ \A i \in billed' : \/ Exists(i)' \/ Closing(i)'
                          \/ i \in billed /\ ~Exists(i) /\ ~Closing(i)

----------------------------------------------------------------------------
(* The ways in which a step changes the requests. *)

\* A request is rewritten.
LEMMA ReqPut ==
    ASSUME ReqsOK, NEW r \in Procs, NEW x, req' = [req EXCEPT ![r] = x],
           DOMAIN x = ReqFields, x.pc # "idle" => x.id \in Ids
    PROVE  ReqsOK' /\ req'[r] = x /\ \A q \in Procs \ {r} : req'[q] = req[q]
<1>1. DOMAIN req' = Procs /\ req'[r] = x /\ \A q \in Procs \ {r} : req'[q] = req[q]
  BY Zenon DEF ReqsOK
<1> QED
  BY <1>1, Zenon DEF ReqsOK

\* A new request.
LEMMA ReqEnter ==
    ASSUME ReqsOK, NEW r \in Procs, NEW op, NEW i \in Ids, NEW src, NEW at, Enter(r, op, i, src, at)
    PROVE  ReqsOK' /\ \A q \in Procs \ {r} : req'[q] = req[q]
<1> DEFINE x == [Idle EXCEPT !.op = op, !.id = i, !.src = src, !.pc = at]
<1>1. DOMAIN x = ReqFields /\ x.id = i
  BY Zenon DEF Idle, ReqFields
<1>2. req' = [req EXCEPT ![r] = x]
  BY Zenon DEF Enter
<1> HIDE DEF x
<1> QED
  BY <1>1, <1>2, ReqPut, Zenon

\* A request ends.
LEMMA ReqDone ==
    ASSUME ReqsOK, NEW r \in Procs, Done(r)
    PROVE  ReqsOK' /\ \A q \in Procs \ {r} : req'[q] = req[q]
<1>1. DOMAIN Idle = ReqFields /\ Idle.pc = "idle"
  BY Zenon DEF Idle, ReqFields
<1>2. req' = [req EXCEPT ![r] = Idle]
  BY Zenon DEF Done
<1> QED
  BY <1>1, <1>2, ReqPut, Zenon

\* A request goes on.
LEMMA ReqGoes ==
    ASSUME ReqsOK, NEW r \in Procs, NEW at, Goto(r, at), req[r].pc # "idle"
    PROVE  /\ ReqsOK' /\ \A q \in Procs \ {r} : req'[q] = req[q]
           /\ req'[r].op = req[r].op /\ req'[r].id = req[r].id /\ req'[r].pc = at
<1> DEFINE x == [req[r] EXCEPT !.pc = at]
<1>1. DOMAIN req[r] = ReqFields /\ req[r].id \in Ids
  BY Zenon DEF ReqsOK
<1>2. DOMAIN x = ReqFields /\ x.id = req[r].id /\ x.op = req[r].op /\ x.pc = at
  BY <1>1, Zenon DEF ReqFields
<1>3. req' = [req EXCEPT ![r] = x]
  BY Zenon DEF Goto
<1> HIDE DEF x
<1>4. ReqsOK' /\ req'[r] = x /\ \A q \in Procs \ {r} : req'[q] = req[q]
  BY <1>1, <1>2, <1>3, ReqPut, Zenon
<1> QED
  BY <1>2, <1>4, Zenon

\* Who closes an interval goes on to do so when others, or it, move.
LEMMA OthersClose ==
    ASSUME NEW r \in Procs, \A q \in Procs \ {r} : req'[q] = req[q],
           NEW i, Closing(i), ~Closes(r, i) \/ Closes(r, i)'
    PROVE  Closing(i)'
<1>1. PICK q \in Procs : Closes(q, i)
  BY Zenon DEF Closing
<1>2. CASE q = r
  BY <1>1, <1>2, Zenon DEF Closing
<1>3. CASE q # r
  <2>1. Closes(q, i)'
    BY <1>1, <1>3, Zenon DEF Closes
  <2> QED
    BY <2>1, Zenon DEF Closing
<1> QED
  BY <1>2, <1>3, Zenon

\* Calls end, for the request itself or for builds that wait: nobody closes.
LEMMA CallsMove ==
    ASSUME ReqsOK, DOMAIN req' = Procs,
           \A q \in Procs : /\ DOMAIN req'[q] = ReqFields
                            /\ req'[q].id = req[q].id /\ req'[q].op = req[q].op
                            /\ req'[q].pc = req[q].pc \/ req[q].pc \in {"call", "building"}
    PROVE  ReqsOK' /\ \A i : Closing(i) => Closing(i)'
<1>1. ReqsOK'
  BY Zenon DEF ReqsOK
<1>2. ASSUME NEW i, NEW q \in Procs, Closes(q, i)
      PROVE  Closing(i)'
  <2>1. Closes(q, i)'
    BY <1>2, Zenon DEF Closes
  <2> QED
    BY <2>1, Zenon DEF Closing
<1> QED
  BY <1>1, <1>2, Zenon DEF Closing

----------------------------------------------------------------------------
(* The ways in which a step changes the records. *)

\* A record is rewritten.
LEMMA RecordPut ==
    ASSUME RecordsOK, NEW i \in Ids, NEW x, sb' = [sb EXCEPT ![i] = x], DOMAIN x = SbFields
    PROVE  RecordsOK' /\ sb'[i] = x /\ \A j \in Ids \ {i} : sb'[j] = sb[j]
<1>1. DOMAIN sb' = Ids /\ sb'[i] = x /\ \A j \in Ids \ {i} : sb'[j] = sb[j]
  BY Zenon DEF RecordsOK
<1> QED
  BY <1>1, Zenon DEF RecordsOK

\* A record that is there stays there.
LEMMA RecordKept ==
    ASSUME RecordsOK, NEW i \in Ids, NEW x, sb' = [sb EXCEPT ![i] = x], DOMAIN x = SbFields,
           x.state = "absent" <=> sb[i].state = "absent"
    PROVE  RecordsOK' /\ \A j \in Ids : Exists(j)' <=> Exists(j)
<1>1. RecordsOK' /\ sb'[i] = x /\ \A j \in Ids \ {i} : sb'[j] = sb[j]
  BY RecordPut, Zenon
<1> QED
  BY <1>1, Zenon DEF Exists

\* SetSandboxState leaves who exists.
LEMMA StateSet ==
    ASSUME RecordsOK, NEW i \in Ids, NEW s, s # "absent", SetSandboxState(i, s)
    PROVE  RecordsOK' /\ \A j \in Ids : Exists(j)' <=> Exists(j)
<1> DEFINE t == IF Exists(i) THEN s ELSE sb[i].state
           x == [sb[i] EXCEPT !.state = t]
<1>1. DOMAIN sb[i] = SbFields
  BY Zenon DEF RecordsOK
<1>2. t = "absent" <=> sb[i].state = "absent"
  BY Zenon DEF Exists
<1>3. sb' = [sb EXCEPT ![i] = x]
  BY Zenon DEF SetSandboxState
<1> HIDE DEF t
<1>4. DOMAIN x = SbFields /\ x.state = t
  BY <1>1, Zenon DEF SbFields
<1> HIDE DEF x
<1> QED
  BY <1>2, <1>3, <1>4, RecordKept, Zenon

\* No operation has absent for its goal.
LEMMA GoalIsThere == \A op : Goal(op) # "absent"
BY Zenon DEF Goal

\* A step that neither adds nor removes a record, and bills what is there.
LEMMA KeptEffect ==
    ASSUME TInv, RecordsOK', ReqsOK', saved' \in {sb, saved}, crashes' = crashes,
           acts' \subseteq Ids \X {"autosleep", "autodelete"},
           \A i \in Ids : Exists(i)' <=> Exists(i),
           \A i \in billed' : i \in billed \/ i \in Owned,
           \A i \in billed' : Closing(i) => Closing(i)'
    PROVE  Effect
<1>1. Owned' \subseteq Owned
  BY Zenon DEF Owned
<1>2. billed' \subseteq Ids
  BY Zenon DEF Owned, TInv
<1>3. \A i \in billed' : \/ Exists(i)' \/ Closing(i)'
                         \/ i \in billed /\ ~Exists(i) /\ ~Closing(i)
  BY <1>2, Zenon DEF Owned
<1> QED
  BY <1>1, <1>2, <1>3, Zenon DEF Effect

\* A new record.
LEMMA AddedEffect ==
    ASSUME TInv, NEW r \in Procs, NEW c \in Ids, req[r].pc = "idle", ~QuotaExceeded,
           RecordsOK', ReqsOK', \A q \in Procs \ {r} : req'[q] = req[q],
           saved' = saved, billed' = billed, acts' = acts, crashes' = crashes,
           Exists(c)', \A i \in Ids \ {c} : Exists(i)' <=> Exists(i)
    PROVE  Effect
<1>1. Owned' = Owned \cup {c}
  BY Zenon DEF Owned
<1>2. \A i : ~Closes(r, i)
  BY Zenon DEF Closes
<1>3. \A i : Closing(i) => Closing(i)'
  BY <1>2, OthersClose, Zenon
<1>4. \A i \in billed' : \/ Exists(i)' \/ Closing(i)'
                         \/ i \in billed /\ ~Exists(i) /\ ~Closing(i)
  BY <1>3, Zenon DEF TInv
<1> QED
  BY <1>1, <1>4, Zenon DEF Effect, TInv

----------------------------------------------------------------------------
(* The steps. *)

\* CreateSandbox.
LEMMA CreateEffect ==
    ASSUME TInv, NEW r \in Procs, NEW i \in Ids, CreateSandbox(r, i)
    PROVE  Effect
<1>1. /\ req[r].pc = "idle" /\ ~QuotaExceeded /\ sb' = [sb EXCEPT ![i] = Fresh]
      /\ Enter(r, "create", i, NoId, "record")
      /\ saved' = saved /\ billed' = billed /\ acts' = acts /\ crashes' = crashes
  BY Zenon DEF CreateSandbox, At, store, sweep
<1>2. DOMAIN Fresh = SbFields /\ Fresh.state = "creating"
  BY Zenon DEF Fresh, SbFields
<1>3. RecordsOK /\ ReqsOK
  BY Zenon DEF TInv
<1>4. RecordsOK' /\ sb'[i] = Fresh /\ \A j \in Ids \ {i} : sb'[j] = sb[j]
  BY <1>1, <1>2, <1>3, RecordPut, Zenon
<1>5. Exists(i)' /\ \A j \in Ids \ {i} : Exists(j)' <=> Exists(j)
  BY <1>2, <1>4, Zenon DEF Exists
<1>6. ReqsOK' /\ \A q \in Procs \ {r} : req'[q] = req[q]
  BY <1>1, <1>3, ReqEnter, Zenon
<1> QED
  BY <1>1, <1>4, <1>5, <1>6, AddedEffect, Zenon

\* ForkSandbox.
LEMMA ForkEffect ==
    ASSUME TInv, NEW r \in Procs, NEW p \in Ids, NEW c \in Ids, ForkSandbox(r, p, c)
    PROVE  Effect
<1> DEFINE t == IF sb[p].state = "sleeping" THEN now ELSE sb[p].slept
           x == [sb[p] EXCEPT !.last = now, !.slept = t]
<1>1. /\ req[r].pc = "idle" /\ ~QuotaExceeded
      /\ Enter(r, "fork", c, p, "record")
      /\ saved' = saved /\ billed' = billed /\ acts' = acts /\ crashes' = crashes
  BY Zenon DEF ForkSandbox, Admit, At, store, sweep
<1>2. DOMAIN Fresh = SbFields /\ Fresh.state = "creating"
  BY Zenon DEF Fresh, SbFields
<1>3. RecordsOK /\ ReqsOK /\ DOMAIN sb = Ids /\ DOMAIN sb[p] = SbFields
  BY Zenon DEF TInv, RecordsOK
<1>4. p # c
  BY Zenon DEF ForkSandbox, Admit, Unused
<1>5. sb' = [sb EXCEPT ![c] = Fresh, ![p].last = now,
                       ![p].slept = IF sb[p].state = "sleeping" THEN now ELSE @]
  BY Zenon DEF ForkSandbox
<1>6. DOMAIN x = SbFields /\ x.state = sb[p].state
  BY <1>3, Zenon DEF SbFields
<1>7. /\ DOMAIN sb' = Ids /\ sb'[c] = Fresh /\ sb'[p] = x
      /\ \A j \in Ids \ {c, p} : sb'[j] = sb[j]
  BY <1>3, <1>4, <1>5, Zenon DEF SbFields
<1> HIDE DEF x
<1>8. RecordsOK'
  BY <1>2, <1>3, <1>6, <1>7, Zenon DEF RecordsOK
<1>9. Exists(c)' /\ \A j \in Ids \ {c} : Exists(j)' <=> Exists(j)
  BY <1>2, <1>6, <1>7, Zenon DEF Exists
<1>10. ReqsOK' /\ \A q \in Procs \ {r} : req'[q] = req[q]
  BY <1>1, <1>3, ReqEnter, Zenon
<1> QED
  BY <1>1, <1>8, <1>9, <1>10, AddedEffect, Zenon

\* A request that begins, and the next action of the sweep.
LEMMA EnterEffect ==
    ASSUME TInv, NEW r \in Procs, NEW op, NEW i \in Ids, req[r].pc = "idle",
           Enter(r, op, i, NoId, "call"), sb' = sb, saved' = saved, billed' = billed,
           acts' \subseteq acts, crashes' = crashes
    PROVE  Effect
<1>1. RecordsOK /\ ReqsOK
  BY Zenon DEF TInv
<1>2. ReqsOK' /\ \A q \in Procs \ {r} : req'[q] = req[q]
  BY <1>1, ReqEnter, Zenon
<1>3. \A j : Closing(j) => Closing(j)'
  BY <1>2, OthersClose, Zenon DEF Closes
<1>4. RecordsOK' /\ \A j \in Ids : Exists(j)' <=> Exists(j)
  BY <1>1, Zenon DEF RecordsOK, Exists
<1>5. acts' \subseteq Ids \X {"autosleep", "autodelete"}
  BY Zenon DEF TInv
<1> QED
  BY <1>2, <1>3, <1>4, <1>5, KeptEffect, Zenon

\* Requests that do not move.
LEMMA ClosingUnchanged == ASSUME req' = req, NEW i, Closing(i) PROVE Closing(i)'
BY Zenon DEF Closing, Closes

\* Steps that change a record and no request: exec, traffic and the sweep.
LEMMA TouchEffect ==
    ASSUME TInv, RecordsOK', \A j \in Ids : Exists(j)' <=> Exists(j), req' = req,
           saved' = saved, billed' = billed, crashes' = crashes,
           acts' \subseteq Ids \X {"autosleep", "autodelete"}
    PROVE  Effect
<1>1. ReqsOK'
  BY Zenon DEF TInv, ReqsOK
<1> QED
  BY <1>1, ClosingUnchanged, KeptEffect, Zenon

\* An exec, and activity on a route.
LEMMA ClockEffect ==
    ASSUME TInv, NEW i \in Ids, Exec(i) \/ RoutesActivity(i)
    PROVE  Effect
<1> DEFINE x == [sb[i] EXCEPT !.last = now]
<1>1. /\ sb' = [sb EXCEPT ![i] = x] /\ req' = req /\ saved' = saved /\ billed' = billed
      /\ crashes' = crashes /\ acts' = acts
  BY Zenon DEF Exec, RoutesActivity, store, sweep
<1>2. RecordsOK /\ DOMAIN sb[i] = SbFields
  BY Zenon DEF TInv, RecordsOK
<1>3. DOMAIN x = SbFields /\ x.state = sb[i].state
  BY <1>2, Zenon DEF SbFields
<1> HIDE DEF x
<1>4. RecordsOK' /\ \A j \in Ids : Exists(j)' <=> Exists(j)
  BY <1>1, <1>2, <1>3, RecordKept, Zenon
<1>5. acts' \subseteq Ids \X {"autosleep", "autodelete"}
  BY <1>1, Zenon DEF TInv
<1> QED
  BY <1>1, <1>4, <1>5, TouchEffect, Zenon

\* The sweep.
LEMMA SweepEffect == ASSUME TInv, Sweep PROVE Effect
<1>1. /\ sb' = [i \in Ids |-> IF sb[i].state = "sleeping" /\ sb[i].slept = 0
                              THEN [sb[i] EXCEPT !.slept = now] ELSE sb[i]]
      /\ req' = req /\ saved' = saved /\ billed' = billed /\ crashes' = crashes
      /\ acts' = {i \in Ids : IsIdle(i)} \X {"autosleep"}
                 \cup {i \in Ids : IsExpired(i)} \X {"autodelete"}
  BY Zenon DEF Sweep, store
<1>2. \A i \in Ids : DOMAIN sb[i] = SbFields
  BY Zenon DEF TInv, RecordsOK
<1>3. DOMAIN sb' = Ids /\ \A i \in Ids : DOMAIN sb'[i] = SbFields /\ sb'[i].state = sb[i].state
  BY <1>1, <1>2, Zenon DEF SbFields
<1>4. RecordsOK' /\ \A j \in Ids : Exists(j)' <=> Exists(j)
  BY <1>3, Zenon DEF RecordsOK, Exists
<1>5. acts' \subseteq Ids \X {"autosleep", "autodelete"}
  BY <1>1, Zenon
<1> QED
  BY <1>1, <1>4, <1>5, TouchEffect, Zenon

\* An action of the sweep.
LEMMA AutoEffect ==
    ASSUME TInv, NEW i \in Ids, NEW op, AutoAct(i, op)
    PROVE  Effect
<1>1. /\ req[Sweeper].pc = "idle" /\ sb' = sb /\ saved' = saved /\ billed' = billed
      /\ acts' = acts \ {<<i, op>>} /\ crashes' = crashes
      /\ Enter(Sweeper, op, i, NoId, "call") \/ req' = req
  BY Zenon DEF AutoAct, At, store
<1>2. CASE Enter(Sweeper, op, i, NoId, "call")
  BY <1>1, <1>2, EnterEffect, Zenon DEF Procs
<1>3. CASE req' = req
  <2>1. RecordsOK' /\ \A j \in Ids : Exists(j)' <=> Exists(j)
    BY <1>1, Zenon DEF TInv, RecordsOK, Exists
  <2>2. acts' \subseteq Ids \X {"autosleep", "autodelete"}
    BY <1>1, Zenon DEF TInv
  <2> QED
    BY <1>1, <1>3, <2>1, <2>2, TouchEffect, Zenon
<1> QED
  BY <1>1, <1>2, <1>3, Zenon

\* Calls to the agent and their ends change no record of feluccad.
LEMMA CallsEffect ==
    ASSUME TInv, DOMAIN req' = Procs,
           \A q \in Procs : /\ DOMAIN req'[q] = ReqFields
                            /\ req'[q].id = req[q].id /\ req'[q].op = req[q].op
                            /\ req'[q].pc = req[q].pc \/ req[q].pc \in {"call", "building"},
           sb' = sb, saved' = saved, billed' = billed, acts' = acts, crashes' = crashes
    PROVE  Effect
<1>1. RecordsOK /\ ReqsOK
  BY Zenon DEF TInv
<1>2. ReqsOK' /\ \A i : Closing(i) => Closing(i)'
  BY <1>1, CallsMove, Zenon
<1>3. RecordsOK' /\ \A j \in Ids : Exists(j)' <=> Exists(j)
  BY <1>1, Zenon DEF RecordsOK, Exists
<1>4. acts' \subseteq Ids \X {"autosleep", "autodelete"}
  BY Zenon DEF TInv
<1> QED
  BY <1>2, <1>3, <1>4, KeptEffect, Zenon

\* The builds of a sandbox get an answer.
Answered(i, ok) ==
    [q \in DOMAIN req |-> IF At(q, "building") /\ req[q].id = i
                          THEN [req[q] EXCEPT !.pc = "answered", !.ok = ok] ELSE req[q]]

\* What does not change while a call is under way.
Same(x, q) == /\ DOMAIN x = ReqFields /\ x.id = req[q].id /\ x.op = req[q].op
              /\ x.pc = req[q].pc \/ req[q].pc = "building"

\* The requests that wait for a build.
LEMMA BuildsAnswered ==
    ASSUME ReqsOK, NEW i, NEW ok
    PROVE  DOMAIN Answered(i, ok) = Procs /\ \A q \in Procs : Same(Answered(i, ok)[q], q)
<1>1. DOMAIN Answered(i, ok) = Procs
  BY Zenon DEF Answered, ReqsOK
<1>2. ASSUME NEW q \in Procs
      PROVE  Same(Answered(i, ok)[q], q)
  <2> DEFINE x == [req[q] EXCEPT !.pc = "answered", !.ok = ok]
  <2>1. DOMAIN req[q] = ReqFields /\ q \in DOMAIN req
    BY Zenon DEF ReqsOK
  <2>2. DOMAIN x = ReqFields /\ x.id = req[q].id /\ x.op = req[q].op
    BY <2>1, Zenon DEF ReqFields
  <2>3. \/ Answered(i, ok)[q] = x /\ req[q].pc = "building"
        \/ Answered(i, ok)[q] = req[q]
    BY <2>1, Zenon DEF Answered, At
  <2> HIDE DEF x
  <2> QED
    BY <2>1, <2>2, <2>3, Zenon DEF Same
<1> QED
  BY <1>1, <1>2, Zenon

\* The agent's answer.
LEMMA AgentCallEffect == ASSUME TInv, NEW r \in Procs, AgentCall(r) PROVE Effect
<1>1. /\ req[r].pc = "call" /\ sb' = sb /\ saved' = saved /\ billed' = billed
      /\ acts' = acts /\ crashes' = crashes
  BY Zenon DEF AgentCall, At, store
<1>2. ReqsOK
  BY Zenon DEF TInv
<1>3. ASSUME NEW rest, NEW at, NEW ok, req' = [rest EXCEPT ![r].pc = at, ![r].ok = ok],
             DOMAIN rest = Procs, \A q \in Procs : Same(rest[q], q)
      PROVE  Effect
  <2> DEFINE x == [rest[r] EXCEPT !.pc = at, !.ok = ok]
  <2>1. req' = [rest EXCEPT ![r] = x]
    BY <1>3, Zenon
  <2>2. DOMAIN x = ReqFields /\ x.id = req[r].id /\ x.op = req[r].op
    BY <1>3, Zenon DEF Same, ReqFields
  <2> HIDE DEF x
  <2>3. DOMAIN req' = Procs /\ req'[r] = x /\ \A q \in Procs \ {r} : req'[q] = rest[q]
    BY <1>3, <2>1, Zenon
  <2>4. \A q \in Procs : /\ DOMAIN req'[q] = ReqFields
                         /\ req'[q].id = req[q].id /\ req'[q].op = req[q].op
                         /\ req'[q].pc = req[q].pc \/ req[q].pc \in {"call", "building"}
    BY <1>1, <1>3, <2>2, <2>3, Zenon DEF Same
  <2> QED
    BY <1>1, <2>3, <2>4, CallsEffect, Zenon
<1>4. PICK a : req' = [(IF a[1] = "absent" THEN CutShort(req[r].id) ELSE req) EXCEPT
                         ![r].pc = IF IsBuild(req[r].op) /\ a[2] = "ok" THEN "building"
                                   ELSE "answered",
                         ![r].ok = a[2]]
  BY Zenon DEF AgentCall
<1>5. CASE a[1] = "absent"
  <2>1. CutShort(req[r].id) = Answered(req[r].id, "refused")
    BY Zenon DEF CutShort, Answered
  <2> QED
    BY <1>2, <1>3, <1>4, <1>5, <2>1, BuildsAnswered, Zenon
<1>6. CASE a[1] # "absent"
  <2>1. DOMAIN req = Procs /\ \A q \in Procs : Same(req[q], q)
    BY <1>2, Zenon DEF ReqsOK, Same
  <2> QED
    BY <1>3, <1>4, <1>6, <2>1, Zenon
<1> QED
  BY <1>5, <1>6, Zenon

\* The agent has built a VM.
LEMMA AgentBuiltEffect == ASSUME TInv, NEW i \in Ids, AgentBuilt(i) PROVE Effect
<1>1. /\ sb' = sb /\ saved' = saved /\ billed' = billed /\ acts' = acts /\ crashes' = crashes
  BY Zenon DEF AgentBuilt, store, sweep
<1>2. ReqsOK
  BY Zenon DEF TInv
<1>3. PICK ok : req' = Answered(i, ok)
  BY Zenon DEF AgentBuilt, Answered
<1>4. /\ DOMAIN req' = Procs
      /\ \A q \in Procs : /\ DOMAIN req'[q] = ReqFields
                          /\ req'[q].id = req[q].id /\ req'[q].op = req[q].op
                          /\ req'[q].pc = req[q].pc \/ req[q].pc = "building"
  BY <1>2, <1>3, BuildsAnswered, Zenon DEF Same
<1> QED
  BY <1>1, <1>4, CallsEffect, Zenon

\* A call that times out.
LEMMA TimeoutEffect == ASSUME TInv, NEW r \in Procs, CallTimesOut(r) PROVE Effect
<1> DEFINE x == [req[r] EXCEPT !.pc = "answered", !.ok = "lost"]
<1>1. /\ req[r].pc = "building" /\ sb' = sb /\ saved' = saved /\ billed' = billed
      /\ acts' = acts /\ crashes' = crashes
  BY Zenon DEF CallTimesOut, At, store, sweep
<1>2. ReqsOK /\ DOMAIN req[r] = ReqFields
  BY Zenon DEF TInv, ReqsOK
<1>3. req' = [req EXCEPT ![r] = x]
  BY Zenon DEF CallTimesOut
<1>4. DOMAIN x = ReqFields /\ x.id = req[r].id /\ x.op = req[r].op
  BY <1>2, Zenon DEF ReqFields
<1> HIDE DEF x
<1>5. DOMAIN req' = Procs /\ req'[r] = x /\ \A q \in Procs \ {r} : req'[q] = req[q]
  BY <1>2, <1>3, Zenon DEF ReqsOK
<1>6. \A q \in Procs : /\ DOMAIN req'[q] = ReqFields
                       /\ req'[q].id = req[q].id /\ req'[q].op = req[q].op
                       /\ req'[q].pc = req[q].pc \/ req[q].pc \in {"call", "building"}
  BY <1>1, <1>2, <1>4, <1>5, Zenon DEF ReqsOK
<1> QED
  BY <1>1, <1>5, <1>6, CallsEffect, Zenon

\* A handler writes the answer into the record, or removes the record and is
\* then the one that closes the interval.
LEMMA ApplyEffect == ASSUME TInv, NEW r \in Procs, Apply(r) PROVE Effect
<1> DEFINE op == req[r].op
<1>1. /\ req[r].pc = "answered" /\ saved' = saved /\ billed' = billed /\ acts' = acts
      /\ crashes' = crashes /\ acts' \subseteq Ids \X {"autosleep", "autodelete"}
  BY Zenon DEF Apply, At, store, sweep, TInv
<1>2. PICK i \in Ids : i = req[r].id
  BY <1>1, Zenon DEF TInv, ReqsOK
<1>3. RecordsOK /\ ReqsOK
  BY Zenon DEF TInv
<1>4. \A j : ~Closes(r, j)
  BY <1>1, Zenon DEF Closes
<1>5. ASSUME RecordsOK', \A j \in Ids : Exists(j)' <=> Exists(j), ReqsOK',
             \A q \in Procs \ {r} : req'[q] = req[q]
      PROVE  Effect
  <2>1. \A j : Closing(j) => Closing(j)'
    BY <1>4, <1>5, OthersClose, Zenon
  <2> QED
    BY <1>1, <1>5, <2>1, KeptEffect, Zenon
<1>6. CASE IsDelete(op) /\ sb' = [sb EXCEPT ![i] = NoSandbox] /\ Goto(r, "persist")
  <2>1. DOMAIN NoSandbox = SbFields
    BY Zenon DEF NoSandbox, SbFields
  <2>2. RecordsOK' /\ \A j \in Ids \ {i} : sb'[j] = sb[j]
    BY <1>3, <1>6, <2>1, RecordPut, Zenon
  <2>3. /\ ReqsOK' /\ \A q \in Procs \ {r} : req'[q] = req[q]
        /\ req'[r].op = op /\ req'[r].id = i /\ req'[r].pc = "persist"
    BY <1>1, <1>2, <1>3, <1>6, ReqGoes, Zenon
  <2>4. Closes(r, i)'
    BY <1>6, <2>3, Zenon DEF Closes
  <2>5. Closing(i)'
    BY <2>4, Zenon DEF Closing
  <2>6. \A j : Closing(j) => Closing(j)'
    BY <1>4, <2>3, OthersClose, Zenon
  <2>7. sb'[i].state = "absent"
    BY <1>3, <1>6, Zenon DEF RecordsOK, NoSandbox
  <2>8. Owned' \subseteq Owned
    BY <2>2, <2>7, Zenon DEF Owned, Exists
  <2>9. \A j \in Ids \ {i} : Exists(j)' <=> Exists(j)
    BY <2>2, Zenon DEF Exists
  <2>10. ASSUME NEW j \in billed'
         PROVE  Exists(j)' \/ Closing(j)' \/ (j \in billed /\ ~Exists(j) /\ ~Closing(j))
    <3>1. CASE j = i
      BY <2>5, <3>1, Zenon
    <3>2. CASE j # i
      BY <1>1, <2>6, <2>9, <3>2, Zenon DEF TInv
    <3> QED
      BY <3>1, <3>2, Zenon
  <2> QED
    BY <1>1, <2>2, <2>3, <2>8, <2>10, Zenon DEF Effect, TInv
<1>7. ASSUME NEW s, s # "absent", SetSandboxState(i, s), NEW at, Goto(r, at)
      PROVE  Effect
  <2>1. RecordsOK' /\ \A j \in Ids : Exists(j)' <=> Exists(j)
    BY <1>3, <1>7, StateSet, Zenon
  <2>2. ReqsOK' /\ \A q \in Procs \ {r} : req'[q] = req[q]
    BY <1>1, <1>3, <1>7, ReqGoes, Zenon
  <2> QED
    BY <1>5, <2>1, <2>2, Zenon
<1>8. CASE Done(r) /\ sb' = sb
  <2>1. RecordsOK' /\ \A j \in Ids : Exists(j)' <=> Exists(j)
    BY <1>3, <1>8, Zenon DEF RecordsOK, Exists
  <2>2. ReqsOK' /\ \A q \in Procs \ {r} : req'[q] = req[q]
    BY <1>3, <1>8, ReqDone, Zenon
  <2> QED
    BY <1>5, <2>1, <2>2, Zenon
<1>9. \/ IsDelete(op) /\ sb' = [sb EXCEPT ![i] = NoSandbox] /\ Goto(r, "persist")
      \/ \E at : SetSandboxState(i, Goal(op)) /\ Goto(r, at)
      \/ SetSandboxState(i, "error") /\ Goto(r, "persist")
      \/ Done(r) /\ sb' = sb
  BY <1>2, Zenon DEF Apply
<1> QED
  BY <1>6, <1>7, <1>8, <1>9, GoalIsThere, Zenon

\* The clocks and the ledger of sleep and wake.
LEMMA StampEffect == ASSUME TInv, NEW r \in Procs, Stamp(r) PROVE Effect
<1> DEFINE op == req[r].op
<1>1. /\ req[r].pc = "stamp" /\ saved' = saved /\ crashes' = crashes
      /\ acts' \subseteq Ids \X {"autosleep", "autodelete"}
  BY Zenon DEF Stamp, At, sweep, TInv
<1>2. PICK i \in Ids : i = req[r].id
  BY <1>1, Zenon DEF TInv, ReqsOK
<1>3. RecordsOK /\ ReqsOK /\ DOMAIN sb[i] = SbFields
  BY Zenon DEF TInv, RecordsOK
<1>4. \A j : ~Closes(r, j)
  BY <1>1, Zenon DEF Closes
<1>5. ReqsOK' /\ \A q \in Procs \ {r} : req'[q] = req[q]
  <2>1. Goto(r, "persist") \/ Done(r)
    BY Zenon DEF Stamp
  <2> QED
    BY <1>1, <1>3, <2>1, ReqGoes, ReqDone, Zenon
<1>6. \A j : Closing(j) => Closing(j)'
  BY <1>4, <1>5, OthersClose, Zenon
<1>7. CASE Exists(i)
  <2> DEFINE x == IF op = "wake" THEN [sb[i] EXCEPT !.last = now, !.slept = 0]
                  ELSE [sb[i] EXCEPT !.slept = IF op = "autosleep" THEN swept ELSE now]
  <2>1. sb' = [sb EXCEPT ![i] = x] /\ billed' \in {billed \cup {i}, billed \ {i}}
    BY <1>2, <1>7, Zenon DEF Stamp
  <2>2. DOMAIN x = SbFields /\ x.state = sb[i].state
    BY <1>3, Zenon DEF SbFields
  <2> HIDE DEF x
  <2>3. RecordsOK' /\ \A j \in Ids : Exists(j)' <=> Exists(j)
    BY <1>3, <2>1, <2>2, RecordKept, Zenon
  <2>4. \A j \in billed' : j \in billed \/ j \in Owned
    BY <1>7, <2>1, Zenon DEF Owned
  <2> QED
    BY <1>1, <1>5, <1>6, <2>3, <2>4, KeptEffect, Zenon
<1>8. CASE ~Exists(i)
  <2>1. sb' = sb /\ billed' = billed
    BY <1>2, <1>8, Zenon DEF Stamp
  <2>2. RecordsOK' /\ \A j \in Ids : Exists(j)' <=> Exists(j)
    BY <1>3, <2>1, Zenon DEF RecordsOK, Exists
  <2> QED
    BY <1>1, <1>5, <1>6, <2>1, <2>2, KeptEffect, Zenon
<1> QED
  BY <1>7, <1>8, Zenon

\* A snapshot: a delete goes on to its event.
LEMMA PersistEffect == ASSUME TInv, NEW r \in Procs, Persist(r) PROVE Effect
<1>1. /\ req[r].pc \in {"record", "persist"} /\ saved' \in {sb, saved} /\ sb' = sb
      /\ billed' = billed /\ crashes' = crashes
      /\ acts' \subseteq Ids \X {"autosleep", "autodelete"}
  BY Zenon DEF Persist, sweep, TInv
<1>2. RecordsOK /\ ReqsOK
  BY Zenon DEF TInv
<1>3. RecordsOK' /\ \A j \in Ids : Exists(j)' <=> Exists(j)
  BY <1>1, <1>2, Zenon DEF RecordsOK, Exists
<1>4. \/ Goto(r, "usage")
      \/ Done(r) /\ ~IsDelete(req[r].op)
      \/ Goto(r, "call") /\ req[r].pc = "record"
  BY Zenon DEF Persist, At
<1>5. ReqsOK' /\ \A q \in Procs \ {r} : req'[q] = req[q]
  BY <1>1, <1>2, <1>4, ReqGoes, ReqDone, Zenon
<1>6. ASSUME NEW j, Closes(r, j)
      PROVE  Closes(r, j)'
  <2>1. Goto(r, "usage")
    BY <1>4, <1>6, Zenon DEF Closes
  <2>2. req'[r].op = req[r].op /\ req'[r].id = req[r].id /\ req'[r].pc = "usage"
    BY <1>1, <1>2, <2>1, ReqGoes, Zenon
  <2> QED
    BY <1>6, <2>2, Zenon DEF Closes
<1>7. \A j : Closing(j) => Closing(j)'
  BY <1>5, <1>6, OthersClose, Zenon
<1> QED
  BY <1>1, <1>3, <1>5, <1>7, KeptEffect, Zenon

\* The event of a request: that of a delete closes the interval it answers for.
LEMMA UsageEffect == ASSUME TInv, NEW r \in Procs, RecordUsage(r) PROVE Effect
<1> DEFINE op == req[r].op
<1>1. /\ req[r].pc = "usage" /\ saved' = saved /\ sb' = sb /\ crashes' = crashes /\ Done(r)
      /\ acts' \subseteq Ids \X {"autosleep", "autodelete"}
  BY Zenon DEF RecordUsage, At, sweep, TInv
<1>2. PICK i \in Ids : i = req[r].id
  BY <1>1, Zenon DEF TInv, ReqsOK
<1>3. RecordsOK /\ ReqsOK
  BY Zenon DEF TInv
<1>4. RecordsOK' /\ \A j \in Ids : Exists(j)' <=> Exists(j)
  BY <1>1, <1>3, Zenon DEF RecordsOK, Exists
<1>5. ReqsOK' /\ \A q \in Procs \ {r} : req'[q] = req[q]
  BY <1>1, <1>3, ReqDone, Zenon
<1>6. \/ billed' = billed \ {i}
      \/ ~IsDelete(op) /\ billed' = billed
      \/ ~IsDelete(op) /\ Exists(i) /\ billed' = billed \cup {i}
  BY <1>2, Zenon DEF RecordUsage
<1>7. \A j \in billed' : j \in billed \/ j \in Owned
  BY <1>6, Zenon DEF Owned
<1>8. \A j \in billed' : ~Closes(r, j)
  BY <1>2, <1>6, Zenon DEF Closes
<1>9. \A j \in billed' : Closing(j) => Closing(j)'
  BY <1>5, <1>8, OthersClose, Zenon
<1> QED
  BY <1>1, <1>4, <1>5, <1>7, <1>9, KeptEffect, Zenon

\* Every step but a crash has the effect.
LEMMA StepEffect == ASSUME TInv, Next, ~Crash PROVE Effect
<1>1. Reqs \subseteq Procs
  BY Zenon DEF Procs
<1>2. ASSUME NEW r \in Procs, NEW i \in Ids, NEW op, Request(r, op, i)
      PROVE  Effect
  <2>1. /\ req[r].pc = "idle" /\ Enter(r, op, i, NoId, "call") /\ sb' = sb /\ saved' = saved
        /\ billed' = billed /\ acts' = acts /\ crashes' = crashes
    BY <1>2, Zenon DEF Request, Admit, At, store, sweep
  <2> QED
    BY <2>1, EnterEffect, Zenon
<1>3. ASSUME NEW r \in Reqs, NEW i \in Ids,
             \/ CreateSandbox(r, i)
             \/ \E c \in Ids : ForkSandbox(r, i, c)
             \/ \E op \in Ops : Request(r, op, i)
      PROVE  Effect
  BY <1>1, <1>2, <1>3, CreateEffect, ForkEffect, Zenon
<1>4. ASSUME NEW r \in Procs, Handle(r)
      PROVE  Effect
  BY <1>4, AgentCallEffect, TimeoutEffect, ApplyEffect, StampEffect, PersistEffect, UsageEffect, Zenon
     DEF Handle
<1>5. ASSUME sb' = sb, req' = req, saved' = saved, billed' = billed, acts' = acts, crashes' = crashes
      PROVE  Effect
  <2>1. RecordsOK' /\ \A j \in Ids : Exists(j)' <=> Exists(j)
    BY <1>5, Zenon DEF TInv, RecordsOK, Exists
  <2>2. acts' \subseteq Ids \X {"autosleep", "autodelete"}
    BY <1>5, Zenon DEF TInv
  <2> QED
    BY <1>5, <2>1, <2>2, TouchEffect, Zenon
<1>6. ASSUME NEW i \in Ids, VmDies(i)
      PROVE  Effect
  BY <1>5, <1>6, Zenon DEF VmDies, store, sweep
<1>7. CASE Tick
  BY <1>5, <1>7, Zenon DEF Tick, store, sweep
<1> QED
  BY <1>3, <1>4, <1>6, <1>7, SweepEffect, AutoEffect, ClockEffect, AgentBuiltEffect, Zenon
     DEF Next, Procs

\* After a crash there are no requests, and the records are those of the store.
LEMMA CrashTypes == ASSUME TInv, Crash PROVE TInv' /\ sb' = saved /\ saved' = saved /\ crashes' > 0
<1>1. /\ sb' = saved /\ saved' = saved /\ billed' = billed /\ acts' = {} /\ crashes' = crashes + 1
      /\ req' = [r \in DOMAIN req |-> Idle]
  BY Zenon DEF Crash, store
<1>2. DOMAIN Idle = ReqFields /\ Idle.pc = "idle"
  BY Zenon DEF Idle, ReqFields
<1>3. ReqsOK'
  BY <1>1, <1>2, Zenon DEF TInv, ReqsOK
<1>4. RecordsOK' /\ SavedOK'
  BY <1>1, Zenon DEF TInv, RecordsOK, SavedOK
<1>5. crashes' \in Nat /\ crashes' > 0
  BY <1>1 DEF TInv
<1> QED
  BY <1>1, <1>3, <1>4, <1>5, Zenon DEF TInv

\* Every effect keeps the types.
LEMMA EffectTypes == ASSUME TInv, Effect PROVE TInv'
<1>1. SavedOK'
  BY Zenon DEF TInv, Effect, RecordsOK, SavedOK
<1> QED
  BY <1>1, Zenon DEF TInv, Effect

\* So does a step that changes nothing.
LEMMA StutterTypes == ASSUME TInv, UNCHANGED vars PROVE TInv'
BY Zenon DEF TInv, RecordsOK, SavedOK, ReqsOK, vars

\* The types are inductive.
LEMMA NextTypes == TInv /\ [Next]_vars => TInv'
BY StepEffect, CrashTypes, EffectTypes, StutterTypes, Zenon

\* The types at the start.
LEMMA InitTypes == Init => TInv
<1> SUFFICES ASSUME Init PROVE TInv
  BY Zenon
<1>1. DOMAIN NoSandbox = SbFields
  BY Zenon DEF NoSandbox, SbFields
<1>2. DOMAIN Idle = ReqFields /\ Idle.pc = "idle"
  BY Zenon DEF Idle, ReqFields
<1>3. RecordsOK /\ SavedOK
  BY <1>1, Zenon DEF Init, RecordsOK, SavedOK
<1>4. ReqsOK
  BY <1>2, Zenon DEF Init, ReqsOK, Procs
<1> QED
  BY <1>3, <1>4, Zenon DEF Init, TInv

----------------------------------------------------------------------------
(* The quota. *)

\* Counting sandboxes.
LEMMA Counts ==
    ASSUME NEW S, NEW T, S \subseteq T, T \subseteq Ids
    PROVE  Cardinality(S) \in Nat /\ Cardinality(T) \in Nat /\ Cardinality(S) <= Cardinality(T)
<1>1. IsFiniteSet(T)
  BY ControlAssumption, FS_Subset, Zenon
<1>2. IsFiniteSet(S) /\ Cardinality(S) <= Cardinality(T)
  BY <1>1, FS_Subset, Zenon
<1> QED
  BY <1>1, <1>2, FS_CardinalityType, Zenon

\* One sandbox more.
LEMMA CountsOne ==
    ASSUME NEW T, T \subseteq Ids, NEW c \in Ids
    PROVE  Cardinality(T \cup {c}) <= Cardinality(T) + 1
<1>1. IsFiniteSet(T)
  BY ControlAssumption, FS_Subset, Zenon
<1>2. Cardinality(T) \in Nat
  BY <1>1, FS_CardinalityType, Zenon
<1>3. Cardinality(T \cup {c}) = IF c \in T THEN Cardinality(T) ELSE Cardinality(T) + 1
  BY <1>1, FS_AddElement, Zenon
<1> QED
  BY <1>2, <1>3

\* The invariant of the quota is inductive.
LEMMA NextQuota == TInv /\ QInv /\ [Next]_vars => QInv'
<1> SUFFICES ASSUME TInv, QInv, [Next]_vars, MaxSandboxes > 0
             PROVE  Cardinality(Owned)' <= MaxSandboxes /\ Cardinality(OwnedSaved)' <= MaxSandboxes
  BY Zenon DEF QInv
<1>1. Owned \subseteq Ids /\ OwnedSaved \subseteq Ids
  BY Zenon DEF Owned, OwnedSaved
<1>2. Cardinality(Owned) <= MaxSandboxes /\ Cardinality(OwnedSaved) <= MaxSandboxes
  BY Zenon DEF QInv
<1>3. MaxSandboxes \in Nat /\ Cardinality(Owned) \in Nat
  BY <1>1, ControlAssumption, Counts, Zenon
<1>4. CASE Crash
  <2>1. sb' = saved /\ saved' = saved
    BY <1>4, CrashTypes, Zenon
  <2>2. Owned' = OwnedSaved /\ OwnedSaved' = OwnedSaved
    BY <2>1, Zenon DEF Owned, OwnedSaved, Exists
  <2> QED
    BY <1>2, <2>2, Zenon
<1>5. CASE UNCHANGED vars
  <2>1. Owned' = Owned /\ OwnedSaved' = OwnedSaved
    BY <1>5, Zenon DEF Owned, OwnedSaved, Exists, vars
  <2> QED
    BY <1>2, <2>1, Zenon
<1>6. CASE Effect
  <2>1. saved' \in {sb, saved}
    BY <1>6, Zenon DEF Effect
  <2>2. OwnedSaved' \in {Owned, OwnedSaved}
    BY <2>1, Zenon DEF Owned, OwnedSaved, Exists
  <2>3. CASE Owned' \subseteq Owned
    <3>1. Cardinality(Owned') <= Cardinality(Owned) /\ Cardinality(Owned') \in Nat
      BY <1>1, <2>3, Counts, Zenon
    <3> QED
      BY <1>2, <1>3, <2>2, <3>1
  <2>4. CASE ~QuotaExceeded /\ \E c \in Ids : Owned' = Owned \cup {c}
    <3>1. PICK c \in Ids : Owned' = Owned \cup {c}
      BY <2>4, Zenon
    <3>2. Cardinality(Owned') <= Cardinality(Owned) + 1
      BY <1>1, <3>1, CountsOne, Zenon
    <3>3. Cardinality(Owned) + 1 <= MaxSandboxes
      BY <1>3, <2>4 DEF QuotaExceeded
    <3>4. Cardinality(Owned') \in Nat
      <4>1. Owned' \subseteq Ids
        BY <1>1, <3>1, Zenon
      <4> QED
        BY <4>1, Counts, Zenon
    <3> QED
      BY <1>2, <1>3, <2>2, <3>2, <3>3, <3>4
  <2> QED
    BY <1>6, <2>3, <2>4, Zenon DEF Effect
<1> QED
  BY <1>4, <1>5, <1>6, StepEffect, Zenon

\* Creates and forks that run at once stay within the quota of the tenant, and
\* so does what a crash brings back from the store: the check and the insertion
\* are one critical section (quotaExceededLocked in createSandbox).
THEOREM QuotaStaysRespected == Spec => []QuotaRespected
<1>1. Init => QInv
  <2> SUFFICES ASSUME Init PROVE QInv
    BY Zenon
  <2>1. Owned = {} /\ OwnedSaved = {}
    BY Zenon DEF Init, Owned, OwnedSaved, Exists, NoSandbox
  <2>2. Cardinality({}) = 0
    BY FS_EmptySet, Zenon
  <2> QED
    BY <2>1, <2>2, ControlAssumption DEF QInv
<1>2. QInv => QuotaRespected
  BY Zenon DEF QInv, QuotaRespected
<1> QED
  BY <1>1, <1>2, InitTypes, NextTypes, NextQuota, PTL DEF Spec

----------------------------------------------------------------------------
(* Billing. *)

\* The invariant of billing is inductive.
LEMMA NextBilling == TInv /\ BInv /\ [Next]_vars => BInv'
<1> SUFFICES ASSUME TInv, BInv, [Next]_vars
             PROVE  BInv'
  BY Zenon
<1>1. CASE Crash
  <2>1. crashes' > 0
    BY <1>1, CrashTypes, Zenon
  <2> QED
    BY <2>1, Zenon DEF BInv
<1>2. CASE Effect
  BY <1>2, Zenon DEF BInv, Effect
<1>3. CASE UNCHANGED vars
  <2>1. req' = req /\ sb' = sb /\ billed' = billed /\ crashes' = crashes
    BY <1>3, Zenon DEF vars
  <2>2. \A i : Exists(i)' <=> Exists(i)
    BY <2>1, Zenon DEF Exists
  <2> QED
    BY <2>1, <2>2, ClosingUnchanged, Zenon DEF BInv
<1> QED
  BY <1>1, <1>2, <1>3, StepEffect, Zenon

\* No interval of the ledger stays open for a sandbox that is gone: whoever
\* removed the record is still to write its event, and what late creates, wakes
\* and starts append comes only while the record is there (recordUsage).
THEOREM BillingAlwaysStops == Spec => []BillingStops
<1>1. Init => BInv
  BY Zenon DEF Init, BInv
<1>2. TInv /\ BInv => BillingStops
  <2> SUFFICES ASSUME TInv, BInv, NEW i \in billed, Closing(i)
               PROVE  Deleting(i)
    BY Zenon DEF BInv, BillingStops
  <2>1. PICK r \in Procs : Closes(r, i)
    BY Zenon DEF Closing
  <2> QED
    BY <2>1, Zenon DEF TInv, ReqsOK, Closes, Deleting
<1> QED
  BY <1>1, <1>2, InitTypes, NextTypes, NextBilling, PTL DEF Spec

----------------------------------------------------------------------------
\* The enrollment: the inductive invariant first, then what is about types,
\* what feluccad has stored, the requests under way and the workers.

\* The half of TypeOK that is about the workers.
AgentOK ==
    /\ key \in [Workers -> 0 .. Torn]
    /\ made \in [Workers -> 0 .. MaxKeys]
    /\ grant \in [Workers -> Ips \cup {None}]
    /\ file \in [Workers -> Creds \cup {None}]
    /\ flag \in [Workers -> Tokens \cup {None}]
    /\ boots \in [Workers -> 0 .. MaxBoots]
    /\ pc \in [Workers -> Labels]
    /\ cred \in [Workers -> Creds \cup {None}]
    /\ got \in [Workers -> [ip : Ips, cred : Creds] \cup {NoGrant}]
    /\ id \in [Workers -> NodeIds \cup {None}]

\* The half that is about feluccad.
HubOK ==
    /\ tokens \in [Tokens -> {"unminted", "fresh", "used", "expired"}]
    /\ peers \in [Keys -> Ips \cup {None}]
    /\ creds \in [Ips -> Creds \cup {None}]
    /\ nodes \in SUBSET Records
    /\ recorded \in SUBSET Records
    /\ calls \in SUBSET Calls
    /\ join \in [at : {"free", "install", "cred", "consume"}, call : Calls \cup {None},
                ip : Ips \cup {None}, cred : Creds \cup {None}]
    /\ join.at # "free" => join.call \in Calls /\ join.ip \in Ips
    /\ join.at = "consume" => join.cred \in Creds
    /\ faults \in 0 .. MaxFaults

\* The credential of an address was issued to some peer.
CredIsTaken == \A i \in Ips : creds[i] # None => \E k \in Keys : peers[k] = i

\* The join that holds joinMu has stored its peer, and its address has no
\* credential until putNodeCred has stored the one it will answer with.
JoinSound ==
    join.at # "free" =>
        /\ peers[join.call.key] = join.ip
        /\ creds[join.ip] = IF join.at = "consume" THEN join.cred ELSE None

HubInv == AddressesDisjoint /\ CredIsTaken /\ JoinSound

\* A request that some agent still waits for carries that agent's key.
CallSound(c) ==
    /\ c.boot <= boots[c.w]
    /\ c.boot = boots[c.w] => pc[c.w] \notin {"key", "join"}
    /\ Waits(c) => c.key = <<c.w, key[c.w]>>

CallInv ==
    /\ \A c \in calls : CallSound(c)
    /\ join.at # "free" => CallSound(join.call)

\* The files and the flags of a worker against where its agent is.
FilesSound(w) ==
    /\ pc[w] # "down" => boots[w] > 0
    /\ pc[w] \in {"key", "join"} => flag[w] # None
    /\ key[w] \in {NoKey, Torn, made[w]}
    /\ pc[w] \in {"join", "joining", "granted", "adopt"} => key[w] \in 1 .. MaxKeys
    /\ pc[w] \in {"key", "join", "joining", "granted"} => grant[w] = None
    /\ pc[w] \in {"overlay", "register", "beat"} => grant[w] # None

\* The answer an agent works on is what feluccad has stored.
AnswerSound(w) ==
    /\ pc[w] \in {"granted", "adopt"} =>
         /\ got[w] # NoGrant
         /\ peers[<<w, key[w]>>] = got[w].ip
         /\ creds[got[w].ip] = got[w].cred
    /\ pc[w] = "adopt" => grant[w] = got[w].ip

GrantSound(w) ==
    grant[w] # None => key[w] \in 1 .. MaxKeys /\ peers[<<w, key[w]>>] = grant[w]

\* A worker that has not been enrolled yet has no credential.
NoEarlyCred(w) ==
    made[w] = 0 \/ (made[w] = 1 /\ key[w] = 1 /\ grant[w] = None) =>
        file[w] = None /\ cred[w] = None

CredSound(w) ==
    grant[w] # None /\ FirstKey(w) =>
        /\ cred[w] # None => creds[grant[w]] = cred[w]
        /\ file[w] # None => creds[grant[w]] = file[w]

WorkerInv(w) ==
    FilesSound(w) /\ AnswerSound(w) /\ GrantSound(w) /\ NoEarlyCred(w) /\ CredSound(w)

\* The inductive invariant.
IInv == AgentOK /\ HubOK /\ HubInv /\ CallInv /\ \A w \in Workers : WorkerInv(w)

----------------------------------------------------------------------------
(* Types. *)

\* An agent that stops leaves well-typed memory behind.
LEMMA DownType ==
    ASSUME AgentOK, NEW w \in Workers, Down(w)
    PROVE  /\ pc' \in [Workers -> Labels]
           /\ cred' \in [Workers -> Creds \cup {None}]
           /\ got' \in [Workers -> [ip : Ips, cred : Creds] \cup {NoGrant}]
           /\ id' \in [Workers -> NodeIds \cup {None}]
BY Zenon DEF AgentOK, Down, Labels

\* So does an answer to a join, and it frees joinMu.
LEMMA AnswerType ==
    ASSUME AgentOK, NEW c \in Calls, NEW g \in [ip : Ips, cred : Creds] \cup {NoGrant},
           Answer(c, g)
    PROVE  /\ pc' \in [Workers -> Labels]
           /\ cred' \in [Workers -> Creds \cup {None}]
           /\ got' \in [Workers -> [ip : Ips, cred : Creds] \cup {NoGrant}]
           /\ id' \in [Workers -> NodeIds \cup {None}]
           /\ join' = NoJoin
<1>0. c.w \in Workers
  BY Zenon DEF Calls
<1>1. CASE Waits(c) /\ g # NoGrant
  BY <1>0, <1>1 DEF Answer, Reach, AgentOK, Labels
<1>2. CASE Waits(c) /\ g = NoGrant
  BY <1>0, <1>2, DownType, Zenon DEF Answer
<1>3. CASE ~Waits(c)
  BY <1>3, Zenon DEF Answer, AgentOK
<1> QED BY <1>1, <1>2, <1>3

\* A free joinMu is well typed.
LEMMA NoJoinType ==
    /\ NoJoin \in [at : {"free", "install", "cred", "consume"}, call : Calls \cup {None},
                   ip : Ips \cup {None}, cred : Creds \cup {None}]
    /\ NoJoin.at = "free"
BY Zenon DEF NoJoin

\* A fault is counted up to its bound.
LEMMA FaultType ==
    ASSUME faults \in 0 .. MaxFaults, (\E k \in FaultKinds : Fault(k)) \/ UNCHANGED faults
    PROVE  faults' \in 0 .. MaxFaults
BY EnrollmentAssumption DEF Fault

\* The steps of a worker and of the operator keep the types.
LEMMA WorkerType ==
    ASSUME IInv, NEW w \in Workers,
           Provision(w) \/ Rekey(w) \/ Boot(w) \/ AgentStep(w) \/ AgentCrash(w)
    PROVE  AgentOK' /\ HubOK'
<1> USE EnrollmentAssumption
<1>0. AgentOK /\ HubOK /\ FilesSound(w) /\ AnswerSound(w)
  BY Zenon DEF IInv, WorkerInv
<1>1. CASE Provision(w)
  <2>1. AgentOK'
    BY <1>0, <1>1 DEF Provision, AgentOK
  <2>2. HubOK'
    BY <1>0, <1>1, Zenon DEF Provision, HubOK
  <2> QED BY <2>1, <2>2
<1>2. CASE Rekey(w)
  <2>1. AgentOK'
    BY <1>0, <1>2, DownType DEF Rekey, AgentOK, NoKey, Torn, hub
  <2>2. HubOK'
    BY <1>0, <1>2, FaultType, Zenon DEF Rekey, HubOK, hub, FaultKinds
  <2> QED BY <2>1, <2>2
<1>3. CASE Boot(w)
  <2>1. AgentOK'
    BY <1>0, <1>3 DEF Boot, AgentOK, Reach, Labels
  <2>2. HubOK'
    BY <1>0, <1>3, Zenon DEF Boot, HubOK, hub
  <2> QED BY <2>1, <2>2
<1>4. CASE AgentCrash(w)
  <2>1. AgentOK'
    BY <1>0, <1>4, DownType, Zenon DEF AgentCrash, AgentOK, hub
  <2>2. HubOK'
    BY <1>0, <1>4, FaultType, Zenon DEF AgentCrash, HubOK, hub, FaultKinds
  <2> QED BY <2>1, <2>2
<1>5. CASE EnsureKey(w)
  <2>1. AgentOK'
    BY <1>0, <1>5, DownType DEF EnsureKey, AgentOK, NoKey, Torn, Reach, Labels
  <2>2. HubOK'
    BY <1>0, <1>5, FaultType, Zenon DEF EnsureKey, HubOK, hub, FaultKinds
  <2> QED BY <2>1, <2>2
<1>6. CASE SendJoin(w)
  <2>1. AgentOK'
    BY <1>0, <1>6, DownType, Zenon DEF SendJoin, AgentOK, Reach, Labels
  <2>2. Call(w) \in Calls
    BY <1>0, <1>6 DEF SendJoin, AgentOK, Call, Calls, Keys, FilesSound
  <2>3. HubOK'
    BY <1>0, <1>6, <2>2, FaultType, Zenon DEF SendJoin, HubOK, FaultKinds
  <2> QED BY <2>1, <2>3
<1>7. CASE JoinTimeout(w)
  <2>1. AgentOK'
    BY <1>0, <1>7, DownType, Zenon DEF JoinTimeout, AgentOK
  <2>2. HubOK'
    BY <1>0, <1>7, FaultType, Zenon DEF JoinTimeout, HubOK, hub, FaultKinds
  <2> QED BY <2>1, <2>2
<1>8. CASE SaveState(w)
  <2>0. got[w].ip \in Ips
    BY <1>0, <1>8, Zenon DEF SaveState, AnswerSound, AgentOK
  <2>1. AgentOK'
    BY <1>0, <1>8, <2>0, DownType, Zenon DEF SaveState, AgentOK, Reach, Labels
  <2>2. HubOK'
    BY <1>0, <1>8, FaultType, Zenon DEF SaveState, HubOK, hub, FaultKinds
  <2> QED BY <2>1, <2>2
<1>9. CASE AdoptNodeToken(w)
  <2>0. got[w].cred \in Creds
    BY <1>0, <1>9, Zenon DEF AdoptNodeToken, AnswerSound, AgentOK
  <2>1. AgentOK'
    BY <1>0, <1>9, <2>0, DownType, Zenon DEF AdoptNodeToken, AgentOK, Reach, Labels
  <2>2. HubOK'
    BY <1>0, <1>9, FaultType, Zenon DEF AdoptNodeToken, HubOK, hub, FaultKinds
  <2> QED BY <2>1, <2>2
<1>10. CASE BringUp(w)
  <2>1. AgentOK'
    BY <1>0, <1>10, DownType, Zenon DEF BringUp, AgentOK, Reach, Labels
  <2>2. HubOK'
    BY <1>0, <1>10, FaultType, Zenon DEF BringUp, HubOK, hub, FaultKinds
  <2> QED BY <2>1, <2>2
<1>11. CASE RegisterOnce(w)
  <2>0. grant[w] \in Ips
    BY <1>0, <1>11, Zenon DEF RegisterOnce, FilesSound, AgentOK
  <2>1. AgentOK'
    BY <1>0, <1>11, Zenon DEF RegisterOnce, AgentOK, Reach, Labels
  <2>2. nodes' \in SUBSET Records
    BY <1>0, <1>11, <2>0 DEF RegisterOnce, HubOK, Records
  <2>3. recorded' \in SUBSET Records /\ faults' \in 0 .. MaxFaults
    BY <1>0, <1>11, <2>2, FaultType, Zenon DEF RegisterOnce, HubOK, FaultKinds
  <2>4. HubOK'
    BY <1>0, <1>11, <2>2, <2>3, Zenon DEF RegisterOnce, HubOK
  <2> QED BY <2>1, <2>4
<1>12. CASE HeartbeatUnknown(w)
  <2>1. AgentOK'
    BY <1>0, <1>12, Zenon DEF HeartbeatUnknown, AgentOK, Reach, Labels
  <2>2. HubOK'
    BY <1>0, <1>12, Zenon DEF HeartbeatUnknown, HubOK, hub
  <2> QED BY <2>1, <2>2
<1> QED
  BY <1>1, <1>2, <1>3, <1>4, <1>5, <1>6, <1>7, <1>8, <1>9, <1>10, <1>11, <1>12, Zenon DEF AgentStep

\* The steps of feluccad keep the types.
LEMMA HubType ==
    ASSUME IInv,
           \/ HubStep \/ HubCrash
           \/ \E t \in Tokens : Expire(t)
           \/ \E n \in nodes : Reclaim(n)
    PROVE  AgentOK' /\ HubOK'
<1> USE EnrollmentAssumption
<1>0. AgentOK /\ HubOK
  BY Zenon DEF IInv
<1>1. CASE JoinPeer
  <2>1. PICK c \in calls :
          /\ calls' = calls \ {c}
          /\ \/ Refuse(c) /\ UNCHANGED peers /\ (UNCHANGED faults \/ Fault("store"))
             \/ /\ \E i \in Ips :
                      /\ CreateWgPeer(c, i)
                      /\ join' = [at |-> "install", call |-> c, ip |-> i, cred |-> None]
                /\ UNCHANGED <<pc, cred, got, id, faults>>
    BY <1>1, Zenon DEF JoinPeer
  <2>0. UNCHANGED <<key, made, grant, file, flag, boots, tokens, creds, nodes, recorded>>
    BY <1>1, Zenon DEF JoinPeer
  <2>2. c \in Calls
    BY <1>0, Zenon DEF HubOK
  <2>3. CASE Refuse(c) /\ UNCHANGED peers /\ (UNCHANGED faults \/ Fault("store"))
    <3>1. AgentOK'
      BY <1>0, <2>0, <2>2, <2>3, AnswerType, Zenon DEF Refuse, AgentOK
    <3>2. join' = NoJoin /\ faults' \in 0 .. MaxFaults
      BY <1>0, <2>3, FaultType, Zenon DEF Refuse, Answer, HubOK, FaultKinds
    <3>3. HubOK'
      BY <1>0, <2>0, <2>1, <2>3, <3>2, NoJoinType, Zenon DEF HubOK
    <3> QED BY <3>1, <3>3
  <2>4. CASE /\ \E i \in Ips :
                   /\ CreateWgPeer(c, i)
                   /\ join' = [at |-> "install", call |-> c, ip |-> i, cred |-> None]
             /\ UNCHANGED <<pc, cred, got, id, faults>>
    <3>1. AgentOK'
      BY <1>0, <2>0, <2>4, Zenon DEF AgentOK
    <3>2. PICK i \in Ips :
            /\ CreateWgPeer(c, i)
            /\ join' = [at |-> "install", call |-> c, ip |-> i, cred |-> None]
      BY <2>4, Zenon
    <3>3. peers' \in [Keys -> Ips \cup {None}]
      BY <1>0, <3>2, Zenon DEF HubOK, CreateWgPeer
    <3>4. /\ join' \in [at : {"free", "install", "cred", "consume"}, call : Calls \cup {None},
                        ip : Ips \cup {None}, cred : Creds \cup {None}]
          /\ join'.at = "install" /\ join'.call \in Calls /\ join'.ip \in Ips
      BY <2>2, <3>2, Zenon
    <3>5. HubOK'
      BY <1>0, <2>0, <2>1, <2>4, <3>3, <3>4, Zenon DEF HubOK
    <3> QED BY <3>1, <3>5
  <2> QED BY <2>1, <2>3, <2>4
<1>2. CASE InstallPeer
  <2>0. join.call \in Calls
    BY <1>0, <1>2, Zenon DEF HubOK, InstallPeer
  <2>1. AgentOK'
    BY <1>0, <1>2, <2>0, AnswerType, Zenon DEF InstallPeer, Refuse, AgentOK
  <2>2. HubOK'
    BY <1>0, <1>2, <2>0, AnswerType, NoJoinType, FaultType
    DEF InstallPeer, Refuse, HubOK, FaultKinds
  <2> QED BY <2>1, <2>2
<1>3. CASE PutNodeCred
  <2>0. /\ join.at = "cred"
        /\ UNCHANGED <<key, made, grant, file, flag, boots, tokens, peers, nodes, recorded, calls>>
    BY <1>3, Zenon DEF PutNodeCred
  <2>1. join.call \in Calls
    BY <1>0, <2>0, Zenon DEF HubOK
  <2>2. CASE Fault("store") /\ Refuse(join.call) /\ UNCHANGED creds
    <3>1. join' = NoJoin /\ faults' \in 0 .. MaxFaults
      BY <1>0, <2>2, FaultType, Zenon DEF Refuse, Answer, HubOK, FaultKinds
    <3>2. AgentOK'
      BY <1>0, <2>0, <2>1, <2>2, AnswerType, Zenon DEF Refuse, AgentOK
    <3>3. HubOK'
      BY <1>0, <2>0, <2>2, <3>1, NoJoinType, Zenon DEF HubOK
    <3> QED BY <3>2, <3>3
  <2>3. CASE \E n \in Creds :
                /\ creds' = [creds EXCEPT ![join.ip] = n]
                /\ join' = [join EXCEPT !.at = "consume", !.cred = n]
                /\ UNCHANGED <<pc, cred, got, id, faults>>
    <3>1. PICK n \in Creds :
            /\ creds' = [creds EXCEPT ![join.ip] = n]
            /\ join' = [join EXCEPT !.at = "consume", !.cred = n]
            /\ UNCHANGED <<pc, cred, got, id, faults>>
      BY <2>3, Zenon
    <3>2. creds' \in [Ips -> Creds \cup {None}]
      BY <1>0, <3>1, Zenon DEF HubOK
    <3>3. /\ join' \in [at : {"free", "install", "cred", "consume"}, call : Calls \cup {None},
                        ip : Ips \cup {None}, cred : Creds \cup {None}]
          /\ join'.call \in Calls /\ join'.ip \in Ips /\ join'.cred \in Creds
      BY <1>0, <2>0, <3>1, Zenon DEF HubOK
    <3>4. AgentOK'
      BY <1>0, <2>0, <3>1, Zenon DEF AgentOK
    <3>5. HubOK'
      BY <1>0, <2>0, <3>1, <3>2, <3>3, Zenon DEF HubOK
    <3> QED BY <3>4, <3>5
  <2> QED BY <1>3, <2>2, <2>3, Zenon DEF PutNodeCred
<1>4. CASE ConsumeToken
  <2>0. /\ join.call \in Calls
        /\ [ip |-> join.ip, cred |-> join.cred] \in [ip : Ips, cred : Creds]
    BY <1>0, <1>4, Zenon DEF HubOK, ConsumeToken
  <2>1. AgentOK'
    BY <1>0, <1>4, <2>0, AnswerType, Zenon DEF ConsumeToken, Refuse, AgentOK
  <2>2. HubOK'
    <3>1. join' = NoJoin
      BY <1>4, Zenon DEF ConsumeToken, Refuse, Answer
    <3>2. faults' \in 0 .. MaxFaults
      BY <1>0, <1>4, FaultType, Zenon DEF ConsumeToken, HubOK, FaultKinds
    <3>3. tokens' \in [Tokens -> {"unminted", "fresh", "used", "expired"}]
      BY <1>0, <1>4, <2>0 DEF ConsumeToken, HubOK, Calls
    <3> QED BY <1>0, <1>4, <3>1, <3>2, <3>3, NoJoinType DEF ConsumeToken, HubOK
  <2> QED BY <2>1, <2>2
<1>5. CASE HubCrash
  BY <1>0, <1>5, FaultType, NoJoinType, Zenon DEF HubCrash, AgentOK, HubOK, agent, FaultKinds
<1>6. CASE \E t \in Tokens : Expire(t)
  BY <1>0, <1>6, FaultType DEF Expire, AgentOK, HubOK, agent, FaultKinds
<1>7. CASE \E n \in nodes : Reclaim(n)
  BY <1>0, <1>7, FaultType DEF Reclaim, AgentOK, HubOK, agent, FaultKinds
<1> QED BY <1>1, <1>2, <1>3, <1>4, <1>5, <1>6, <1>7 DEF HubStep

----------------------------------------------------------------------------
(* What feluccad has stored. *)

\* A step that stores nothing over what an earlier join has stored.
Grown ==
    /\ \A k \in Keys : peers[k] # None => peers'[k] = peers[k]
    /\ \A i \in Ips : creds[i] # None => creds'[i] = creds[i]

\* What a step of JoinPeer that admits the request does.
Allot(c, i) ==
    /\ IF peers[c.key] = None THEN Lowest(Ips \ Taken, i)
       ELSE i = peers[c.key] /\ RejoinAuthorized(c)
    /\ CreateWgPeer(c, i)
    /\ join' = [at |-> "install", call |-> c, ip |-> i, cred |-> None]
    /\ UNCHANGED <<pc, cred, got, id>>

\* JoinPeer refuses a request or admits it at one address.
LEMMA JoinPeerCases ==
    ASSUME JoinPeer
    PROVE  /\ join.at = "free"
           /\ UNCHANGED <<key, made, grant, file, flag, boots, tokens, creds, nodes, recorded>>
           /\ \E c \in calls :
                /\ calls' = calls \ {c}
                /\ (Refuse(c) /\ UNCHANGED peers) \/ \E i \in Ips : Allot(c, i)
BY Zenon DEF JoinPeer, Allot

\* An admitted request takes an address that no other key has and that has no
\* credential yet.
LEMMA AllotSound ==
    ASSUME HubOK, AddressesDisjoint, CredIsTaken, NEW c \in Calls, NEW i \in Ips, Allot(c, i)
    PROVE  /\ creds[i] = None
           /\ peers[c.key] \in {None, i}
           /\ \A k \in Keys : peers[k] = i => k = c.key
<1>1. c.key \in Keys
  BY Zenon DEF Calls
<1>2. CASE peers[c.key] = None
  <2>1. i \notin Taken
    BY <1>2, Zenon DEF Allot, Lowest
  <2>2. \A k \in Keys : peers[k] # i
    BY <2>1, EnrollmentAssumption, Zenon DEF Taken
  <2> QED BY <1>2, <2>2 DEF CredIsTaken
<1>3. CASE peers[c.key] # None
  <2>1. i = peers[c.key] /\ creds[i] = None
    BY <1>3, Zenon DEF Allot, RejoinAuthorized
  <2> QED BY <1>1, <1>3, <2>1 DEF AddressesDisjoint
<1> QED BY <1>2, <1>3

\* What feluccad has stored stays consistent, and nothing stored is lost.
LEMMA StoredSound ==
    ASSUME IInv, [EnrollNext]_enrollVars
    PROVE  HubInv' /\ Grown
<1>0. HubOK /\ AddressesDisjoint /\ CredIsTaken /\ JoinSound
  BY Zenon DEF IInv, HubInv
<1>1. CASE UNCHANGED <<peers, creds, join>>
  BY <1>0, <1>1, Zenon DEF HubInv, AddressesDisjoint, CredIsTaken, JoinSound, Grown
<1>2. CASE UNCHANGED <<peers, creds>> /\ join' = NoJoin
  BY <1>0, <1>2, Zenon DEF HubInv, AddressesDisjoint, CredIsTaken, JoinSound, Grown, NoJoin
<1>3. CASE JoinPeer
  <2>1. PICK c \in calls : (Refuse(c) /\ UNCHANGED peers) \/ \E i \in Ips : Allot(c, i)
    BY <1>3, JoinPeerCases, Zenon
  <2>2. c \in Calls /\ c.key \in Keys
    BY <1>0, Zenon DEF HubOK, Calls
  <2>3. UNCHANGED creds
    BY <1>3, JoinPeerCases, Zenon
  <2>4. CASE Refuse(c) /\ UNCHANGED peers
    BY <1>2, <2>3, <2>4, Zenon DEF Refuse, Answer
  <2>5. ASSUME NEW i \in Ips, Allot(c, i)
        PROVE  HubInv' /\ Grown
    <3>1. /\ creds[i] = None
          /\ peers[c.key] \in {None, i}
          /\ \A k \in Keys : peers[k] = i => k = c.key
      BY <1>0, <2>2, <2>5, AllotSound, Zenon
    <3>2. peers' = [peers EXCEPT ![c.key] = i]
      BY <2>5, Zenon DEF Allot, CreateWgPeer
    <3>3. \A k \in Keys : peers'[k] = IF k = c.key THEN i ELSE peers[k]
      BY <1>0, <3>2, Zenon DEF HubOK
    <3>4. Grown
      BY <2>3, <3>1, <3>3, Zenon DEF Grown
    <3>5. AddressesDisjoint'
      BY <1>0, <3>1, <3>3, Zenon DEF AddressesDisjoint
    <3>6. CredIsTaken'
      <4> SUFFICES ASSUME NEW j \in Ips, creds[j] # None
                   PROVE  \E k \in Keys : peers'[k] = j
        BY <2>3, Zenon DEF CredIsTaken
      <4>1. PICK k \in Keys : peers[k] = j
        BY <1>0, Zenon DEF CredIsTaken
      <4>2. k # c.key
        BY <3>1, <4>1, EnrollmentAssumption, Zenon
      <4> QED BY <3>3, <4>1, <4>2
    <3>7. JoinSound'
      BY <2>2, <2>3, <2>5, <3>1, <3>3, Zenon DEF JoinSound, Allot
    <3> QED BY <3>4, <3>5, <3>6, <3>7 DEF HubInv
  <2> QED BY <2>1, <2>4, <2>5
<1>4. CASE InstallPeer
  <2>1. UNCHANGED <<peers, creds>>
    BY <1>4, Zenon DEF InstallPeer
  <2>2. CASE join.at = "install" /\ join' = [join EXCEPT !.at = "cred"]
    <3>1. JoinSound'
      BY <1>0, <2>1, <2>2, Zenon DEF JoinSound, HubOK
    <3> QED BY <1>0, <2>1, <3>1 DEF HubInv, AddressesDisjoint, CredIsTaken, Grown
  <2>3. CASE join' = NoJoin
    BY <1>2, <2>1, <2>3, Zenon
  <2> QED BY <1>4, <2>2, <2>3 DEF InstallPeer, Refuse, Answer
<1>5. CASE PutNodeCred
  <2>1. join.at = "cred" /\ UNCHANGED peers
    BY <1>5, Zenon DEF PutNodeCred
  <2>2. CASE join' = NoJoin /\ UNCHANGED creds
    BY <1>2, <2>1, <2>2, Zenon
  <2>3. ASSUME NEW n \in Creds, creds' = [creds EXCEPT ![join.ip] = n],
               join' = [join EXCEPT !.at = "consume", !.cred = n]
        PROVE  HubInv' /\ Grown
    <3>1. join.call \in Calls /\ join.ip \in Ips /\ join.call.key \in Keys
      BY <1>0, <2>1, Zenon DEF HubOK, Calls
    <3>2. peers[join.call.key] = join.ip /\ creds[join.ip] = None
      BY <1>0, <2>1, Zenon DEF JoinSound
    <3>3. \A i \in Ips : creds'[i] = IF i = join.ip THEN n ELSE creds[i]
      BY <1>0, <2>3, Zenon DEF HubOK
    <3>4. Grown
      BY <2>1, <3>2, <3>3, Zenon DEF Grown
    <3>5. AddressesDisjoint'
      BY <1>0, <2>1, Zenon DEF AddressesDisjoint
    <3>6. CredIsTaken'
      <4> SUFFICES ASSUME NEW i \in Ips, creds'[i] # None
                   PROVE  \E k \in Keys : peers'[k] = i
        BY Zenon DEF CredIsTaken
      <4>1. CASE i = join.ip
        BY <2>1, <3>1, <3>2, <4>1, Zenon
      <4>2. CASE i # join.ip
        BY <1>0, <2>1, <3>3, <4>2, Zenon DEF CredIsTaken
      <4> QED BY <4>1, <4>2
    <3>7. join'.at = "consume" /\ join'.call = join.call /\ join'.ip = join.ip /\ join'.cred = n
      BY <1>0, <2>3, Zenon DEF HubOK
    <3>8. JoinSound'
      BY <2>1, <3>1, <3>2, <3>3, <3>7, Zenon DEF JoinSound
    <3> QED BY <3>4, <3>5, <3>6, <3>8 DEF HubInv
  <2> QED BY <1>5, <2>2, <2>3, Zenon DEF PutNodeCred, Refuse, Answer
<1>6. CASE ConsumeToken
  BY <1>2, <1>6, Zenon DEF ConsumeToken, Refuse, Answer
<1>7. CASE HubCrash
  BY <1>2, <1>7, Zenon DEF HubCrash
<1>8. CASE \/ \E w \in Workers : Provision(w) \/ Rekey(w) \/ Boot(w) \/ AgentStep(w) \/ AgentCrash(w)
           \/ \E t \in Tokens : Expire(t)
           \/ \E n \in nodes : Reclaim(n)
           \/ UNCHANGED enrollVars
  <2>1. UNCHANGED <<peers, creds, join>>
    BY <1>8, Zenon DEF Provision, Rekey, Boot, AgentStep, AgentCrash, EnsureKey, SendJoin, JoinTimeout,
                SaveState, AdoptNodeToken, BringUp, RegisterOnce, HeartbeatUnknown, Expire,
                Reclaim, enrollVars, hub
  <2> QED BY <1>1, <2>1
<1> QED BY <1>3, <1>4, <1>5, <1>6, <1>7, <1>8 DEF EnrollNext, HubStep

----------------------------------------------------------------------------
(* The requests under way. *)

\* What a step may do to the worker of a request that is under way.
CallMove(c) ==
    \/ boots'[c.w] = boots[c.w] /\ key'[c.w] = key[c.w] /\ pc'[c.w] = pc[c.w]
    \/ boots'[c.w] = boots[c.w] + 1
    \/ boots'[c.w] = boots[c.w] /\ pc'[c.w] \notin {"key", "join", "joining"}
    \/ boots'[c.w] = boots[c.w] /\ pc[c.w] \in {"key", "join"}

\* Such a step leaves the request sound.
LEMMA CallKept ==
    ASSUME AgentOK, NEW c \in Calls, CallSound(c), CallMove(c)
    PROVE  CallSound(c)'
<1>1. c.w \in Workers /\ c.boot \in Nat /\ boots[c.w] \in Nat
  BY EnrollmentAssumption DEF AgentOK, Calls
<1>2. CASE boots'[c.w] = boots[c.w] + 1
  BY <1>1, <1>2 DEF CallSound, Waits
<1>3. CASE boots'[c.w] = boots[c.w]
  BY <1>1, <1>3 DEF CallSound, CallMove, Waits
<1> QED BY <1>2, <1>3 DEF CallMove

\* An answer to a join is such a step.
LEMMA AnswerMove ==
    ASSUME AgentOK, NEW c \in Calls, NEW d \in Calls, NEW g, Answer(d, g), UNCHANGED <<boots, key>>
    PROVE  CallMove(c)
<1> c.w \in Workers /\ d.w \in Workers
  BY Zenon DEF Calls
<1> QED BY DEF AgentOK, Answer, Reach, Down, CallMove

\* Every step is.
LEMMA StepMove ==
    ASSUME IInv, [EnrollNext]_enrollVars, NEW c \in Calls
    PROVE  CallMove(c)
<1>0. AgentOK /\ HubOK /\ c.w \in Workers
  BY Zenon DEF IInv, Calls
<1>1. ASSUME NEW w \in Workers, Provision(w) \/ Rekey(w) \/ AgentCrash(w) \/ JoinTimeout(w)
      PROVE  CallMove(c)
  BY <1>0, <1>1, Zenon DEF AgentOK, Provision, Rekey, AgentCrash, JoinTimeout, Down, CallMove
<1>2. ASSUME NEW w \in Workers, Boot(w)
      PROVE  CallMove(c)
  BY <1>0, <1>2, Zenon DEF AgentOK, Boot, Reach, CallMove
<1>3. ASSUME NEW w \in Workers, EnsureKey(w)
      PROVE  CallMove(c)
  BY <1>0, <1>3, Zenon DEF AgentOK, EnsureKey, Down, Reach, CallMove
<1>4. ASSUME NEW w \in Workers,
             SendJoin(w) \/ SaveState(w) \/ AdoptNodeToken(w) \/ BringUp(w)
      PROVE  CallMove(c)
  BY <1>0, <1>4, Zenon DEF AgentOK, SendJoin, SaveState, AdoptNodeToken, BringUp, Down, Reach, CallMove
<1>5. ASSUME NEW w \in Workers, RegisterOnce(w) \/ HeartbeatUnknown(w)
      PROVE  CallMove(c)
  BY <1>0, <1>5, Zenon DEF AgentOK, RegisterOnce, HeartbeatUnknown, Reach, CallMove
<1>6. CASE JoinPeer
  <2>1. PICK d \in calls : Refuse(d) \/ \E i \in Ips : Allot(d, i)
    BY <1>6, JoinPeerCases, Zenon
  <2>2. UNCHANGED <<boots, key>>
    BY <1>6, JoinPeerCases, Zenon
  <2>3. CASE Refuse(d)
    BY <1>0, <2>2, <2>3, AnswerMove, Zenon DEF Refuse, HubOK
  <2>4. CASE \E i \in Ips : Allot(d, i)
    BY <2>2, <2>4, Zenon DEF Allot, CallMove
  <2> QED BY <2>1, <2>3, <2>4
<1>7. CASE InstallPeer \/ PutNodeCred \/ ConsumeToken
  <2>1. join.call \in Calls /\ UNCHANGED <<boots, key>>
    BY <1>0, <1>7, Zenon DEF HubOK, InstallPeer, PutNodeCred, ConsumeToken
  <2>2. CASE UNCHANGED pc
    BY <2>1, <2>2, Zenon DEF CallMove
  <2>3. CASE \E g : Answer(join.call, g)
    BY <1>0, <2>1, <2>3, AnswerMove, Zenon
  <2> QED
    BY <1>7, <2>2, <2>3, Zenon DEF InstallPeer, PutNodeCred, ConsumeToken, Refuse
<1>8. CASE \/ HubCrash \/ UNCHANGED enrollVars
           \/ \E t \in Tokens : Expire(t)
           \/ \E n \in nodes : Reclaim(n)
  BY <1>8, Zenon DEF HubCrash, Expire, Reclaim, agent, enrollVars, CallMove
<1> QED
  BY <1>1, <1>2, <1>3, <1>4, <1>5, <1>6, <1>7, <1>8, Zenon DEF EnrollNext, AgentStep, HubStep

\* A step works on a request that was there, or sends one that is sound.
LEMMA CallsSound ==
    ASSUME IInv, [EnrollNext]_enrollVars, AgentOK', HubOK'
    PROVE  CallInv'
<1>0. AgentOK /\ HubOK /\ CallInv
  BY Zenon DEF IInv
<1>1. ASSUME NEW c \in Calls, CallSound(c)
      PROVE  CallSound(c)'
  BY <1>0, <1>1, StepMove, CallKept, Zenon
<1>2. CASE calls' \subseteq calls /\ join'.at = "free"
  BY <1>0, <1>1, <1>2, Zenon DEF CallInv, HubOK
<1>3. CASE calls' \subseteq calls /\ join'.call = join.call /\ join.at # "free"
  BY <1>0, <1>1, <1>3, Zenon DEF CallInv, HubOK
<1>4. CASE UNCHANGED <<calls, join>>
  BY <1>0, <1>1, <1>4, Zenon DEF CallInv, HubOK
<1>5. CASE JoinPeer
  <2>1. PICK c \in calls : calls' = calls \ {c} /\ (Refuse(c) \/ \E i \in Ips : Allot(c, i))
    BY <1>5, JoinPeerCases, Zenon
  <2>2. CASE Refuse(c)
    BY <1>2, <2>1, <2>2, Zenon DEF Refuse, Answer, NoJoin
  <2>3. CASE \E i \in Ips : Allot(c, i)
    <3>1. join'.call = c /\ c \in Calls /\ CallSound(c)
      BY <1>0, <2>3 DEF Allot, CallInv, HubOK
    <3> QED BY <1>0, <1>1, <2>1, <3>1 DEF CallInv, HubOK
  <2> QED BY <2>1, <2>2, <2>3
<1>6. CASE InstallPeer
  <2>1. join.at # "free" /\ UNCHANGED calls
    BY <1>6, Zenon DEF InstallPeer
  <2>2. join' = NoJoin \/ join' = [join EXCEPT !.at = "cred"]
    BY <1>6, Zenon DEF InstallPeer, Refuse, Answer
  <2>3. join'.at = "free" \/ join'.call = join.call
    BY <1>0, <2>2 DEF NoJoin, HubOK
  <2> QED BY <1>2, <1>3, <2>1, <2>3
<1>7. CASE PutNodeCred
  <2>1. join.at # "free" /\ UNCHANGED calls
    BY <1>7, Zenon DEF PutNodeCred
  <2>2. join' = NoJoin \/ \E n \in Creds : join' = [join EXCEPT !.at = "consume", !.cred = n]
    BY <1>7, Zenon DEF PutNodeCred, Refuse, Answer
  <2>3. ASSUME NEW n \in Creds, join' = [join EXCEPT !.at = "consume", !.cred = n]
        PROVE  join'.call = join.call
    BY <1>0, <2>3, Zenon DEF HubOK
  <2>4. join' = NoJoin => join'.at = "free"
    BY DEF NoJoin
  <2> QED BY <1>2, <1>3, <2>1, <2>2, <2>3, <2>4, Zenon
<1>8. CASE ConsumeToken
  BY <1>2, <1>8 DEF ConsumeToken, Refuse, Answer, NoJoin
<1>9. CASE HubCrash
  BY <1>2, <1>9, Zenon DEF HubCrash, NoJoin
<1>10. ASSUME NEW w \in Workers, SendJoin(w), calls' = calls \cup {Call(w)}, Reach(w, "joining")
       PROVE  CallInv'
  <2>1. UNCHANGED <<key, boots, join>> /\ pc'[w] = "joining"
    BY <1>0, <1>10, Zenon DEF SendJoin, Reach, AgentOK
  <2>2. ASSUME NEW c, c = Call(w)
        PROVE  CallSound(c)'
    BY <1>0, <2>1, <2>2 DEF Call, CallSound, Waits, AgentOK
  <2>3. \A c \in calls : c \in Calls /\ CallSound(c)
    BY <1>0, Zenon DEF CallInv, HubOK
  <2>4. \A c \in calls' : CallSound(c)'
    BY <1>1, <1>10, <2>2, <2>3, Zenon
  <2>5. join'.at # "free" => join'.call \in Calls /\ CallSound(join.call)
    BY <1>0, <2>1, Zenon DEF CallInv, HubOK
  <2>6. (join.at # "free" => CallSound(join.call))'
    <3>1. CASE join.at # "free"
      <4>1. CallSound(join.call)'
        BY <1>1, <2>1, <2>5, <3>1, Zenon DEF CallSound, Waits
      <4> QED BY <4>1
    <3> QED BY <2>1, <3>1
  <2> QED BY <2>4, <2>6 DEF CallInv
<1>11. CASE \/ \E w \in Workers :
                  \/ Provision(w) \/ Rekey(w) \/ Boot(w) \/ AgentCrash(w)
                  \/ EnsureKey(w) \/ JoinTimeout(w) \/ SaveState(w) \/ AdoptNodeToken(w)
                  \/ BringUp(w) \/ RegisterOnce(w) \/ HeartbeatUnknown(w)
            \/ \E t \in Tokens : Expire(t)
            \/ \E n \in nodes : Reclaim(n)
            \/ UNCHANGED enrollVars
  <2>1. UNCHANGED <<calls, join>>
    BY <1>11, Zenon DEF Provision, Rekey, Boot, AgentCrash, EnsureKey, JoinTimeout, SaveState,
                 AdoptNodeToken, BringUp, RegisterOnce, HeartbeatUnknown, Expire, Reclaim,
                 enrollVars, hub
  <2> QED BY <1>4, <2>1
<1>12. ASSUME NEW w \in Workers, SendJoin(w)
       PROVE  CallInv'
  BY <1>4, <1>10, <1>12, Zenon DEF SendJoin
<1> QED
  BY <1>5, <1>6, <1>7, <1>8, <1>9, <1>11, <1>12, Zenon DEF EnrollNext, AgentStep, HubStep

----------------------------------------------------------------------------
(* The workers. *)

\* Nothing of a worker changes.
Unmoved(w) ==
    /\ key'[w] = key[w] /\ made'[w] = made[w] /\ grant'[w] = grant[w]
    /\ file'[w] = file[w] /\ flag'[w] = flag[w] /\ boots'[w] = boots[w]
    /\ pc'[w] = pc[w] /\ cred'[w] = cred[w] /\ got'[w] = got[w]

\* What feluccad stores for others leaves a worker sound.
LEMMA Elsewhere ==
    ASSUME AgentOK, Grown, NEW w \in Workers, WorkerInv(w), Unmoved(w)
    PROVE  WorkerInv(w)'
<1> USE EnrollmentAssumption
<1>1. FilesSound(w)' /\ NoEarlyCred(w)'
  BY ZenonT(30) DEF WorkerInv, FilesSound, NoEarlyCred, Unmoved
<1>2. AnswerSound(w)'
  <2>1. CASE pc[w] \in {"granted", "adopt"}
    <3>1. got[w].ip \in Ips /\ got[w].cred \in Creds /\ <<w, key[w]>> \in Keys
      BY <2>1, Zenon DEF WorkerInv, AnswerSound, FilesSound, AgentOK, Keys
    <3> QED BY <2>1, <3>1, Zenon DEF WorkerInv, AnswerSound, Unmoved, Grown
  <2> QED BY <2>1 DEF AnswerSound, Unmoved
<1>3. GrantSound(w)' /\ CredSound(w)'
  <2>1. CASE grant[w] # None
    <3>1. grant[w] \in Ips /\ <<w, key[w]>> \in Keys
      BY <2>1, Zenon DEF WorkerInv, GrantSound, AgentOK, Keys
    <3> QED BY <2>1, <3>1, Zenon DEF WorkerInv, GrantSound, CredSound, FirstKey, Unmoved, Grown
  <2> QED BY <2>1, Zenon DEF GrantSound, CredSound, Unmoved
<1> QED BY <1>1, <1>2, <1>3 DEF WorkerInv

\* An agent that stops leaves its worker sound.
LEMMA DownSound ==
    ASSUME AgentOK, Grown, NEW w \in Workers, WorkerInv(w), Down(w),
           key'[w] = key[w], made'[w] = made[w], grant'[w] = grant[w],
           file'[w] = file[w], flag'[w] = flag[w], boots'[w] = boots[w]
    PROVE  WorkerInv(w)'
<1> USE EnrollmentAssumption
<1>0. pc'[w] = "down" /\ cred'[w] = None
  BY Zenon DEF Down, AgentOK
<1>1. FilesSound(w)' /\ NoEarlyCred(w)' /\ AnswerSound(w)'
  BY <1>0, ZenonT(30) DEF WorkerInv, FilesSound, NoEarlyCred, AnswerSound
<1>2. GrantSound(w)' /\ CredSound(w)'
  <2>1. CASE grant[w] # None
    <3>1. grant[w] \in Ips /\ <<w, key[w]>> \in Keys
      BY <2>1, Zenon DEF WorkerInv, GrantSound, AgentOK, Keys
    <3> QED BY <1>0, <2>1, <3>1, Zenon DEF WorkerInv, GrantSound, CredSound, FirstKey, Grown
  <2> QED BY <2>1 DEF GrantSound, CredSound
<1> QED BY <1>1, <1>2, Zenon DEF WorkerInv

\* The steps of the operator leave every worker sound.
LEMMA OperatorSound ==
    ASSUME AgentOK, Grown, NEW w \in Workers, WorkerInv(w),
           NEW v \in Workers, Provision(v) \/ Rekey(v) \/ Boot(v) \/ AgentCrash(v)
    PROVE  WorkerInv(w)'
<1> USE EnrollmentAssumption
<1>1. CASE v # w
  <2>1. Unmoved(w)
    BY <1>1, Zenon DEF Provision, Rekey, Boot, AgentCrash, Down, Reach, AgentOK, Unmoved
  <2> QED BY <2>1, Elsewhere
<1>2. CASE v = w /\ Provision(w)
  <2>1. /\ pc[w] = "down" /\ grant[w] = None
        /\ UNCHANGED <<key, made, grant, file, boots, pc, cred, got>>
    BY <1>2, Zenon DEF Provision
  <2> QED
    BY <2>1, Zenon DEF WorkerInv, FilesSound, AnswerSound, GrantSound, NoEarlyCred, CredSound, FirstKey
<1>3. CASE v = w /\ Rekey(w)
  <2>1. /\ pc'[w] = "down" /\ cred'[w] = None /\ grant'[w] = None /\ key'[w] = 0
        /\ file'[w] \in {file[w], None} /\ UNCHANGED <<made, boots>>
    BY <1>3, Zenon DEF Rekey, Down, AgentOK, NoKey
  <2>2. FilesSound(w)' /\ AnswerSound(w)' /\ GrantSound(w)' /\ CredSound(w)'
    BY <2>1, Zenon DEF FilesSound, AnswerSound, GrantSound, CredSound, NoKey
  <2>3. NoEarlyCred(w)'
    BY <2>1, Zenon DEF WorkerInv, NoEarlyCred
  <2> QED BY <2>2, <2>3 DEF WorkerInv
<1>4. CASE v = w /\ Boot(w)
  <2>1. /\ UNCHANGED <<key, made, grant, file, flag>>
        /\ boots'[w] = boots[w] + 1 /\ cred'[w] = file[w]
        /\ pc'[w] = IF grant[w] # None THEN "overlay" ELSE "key"
        /\ grant[w] # None \/ flag[w] # None
    BY <1>4, Zenon DEF Boot, Reach, AgentOK
  <2>2. FilesSound(w)'
    BY <2>1 DEF WorkerInv, FilesSound, AgentOK
  <2>3. AnswerSound(w)' /\ NoEarlyCred(w)'
    BY <2>1, Zenon DEF WorkerInv, AnswerSound, NoEarlyCred
  <2>4. GrantSound(w)' /\ CredSound(w)'
    <3>1. CASE grant[w] # None
      <4>1. grant[w] \in Ips /\ <<w, key[w]>> \in Keys
        BY <3>1, Zenon DEF WorkerInv, GrantSound, AgentOK, Keys
      <4> QED BY <2>1, <3>1, <4>1, Zenon DEF WorkerInv, GrantSound, CredSound, FirstKey, Grown
    <3> QED BY <2>1, <3>1 DEF GrantSound, CredSound
  <2> QED BY <2>2, <2>3, <2>4 DEF WorkerInv
<1>5. CASE v = w /\ AgentCrash(w)
  BY <1>5, DownSound, Zenon DEF AgentCrash
<1> QED BY <1>1, <1>2, <1>3, <1>4, <1>5

\* The steps of the agent's boot leave every worker sound.
LEMMA BootSound ==
    ASSUME AgentOK, Grown, NEW w \in Workers, WorkerInv(w),
           NEW v \in Workers,
           \/ EnsureKey(v) \/ SendJoin(v) \/ JoinTimeout(v)
           \/ SaveState(v) \/ AdoptNodeToken(v) \/ BringUp(v)
    PROVE  WorkerInv(w)'
<1>1. CASE v # w
  <2>1. Unmoved(w)
    BY <1>1, ZenonT(30) DEF EnsureKey, SendJoin, JoinTimeout, SaveState, AdoptNodeToken, BringUp,
                Down, Reach, AgentOK, Unmoved
  <2> QED BY <2>1, Elsewhere
<1>2. CASE /\ Down(w)
           /\ UNCHANGED <<key, made, grant, file, flag, boots>>
  BY <1>2, DownSound, Zenon
<1>3. ASSUME v = w, EnsureKey(w)
      PROVE  WorkerInv(w)'
  <2>0. /\ pc[w] = "key" /\ grant[w] = None /\ flag[w] # None /\ boots[w] > 0
        /\ UNCHANGED <<grant, file, flag, boots>>
    BY <1>3, Zenon DEF EnsureKey, WorkerInv, FilesSound
  <2>a. key[w] \in Nat /\ made[w] \in Nat
    BY DEF AgentOK, Torn
  <2>b. key[w] \in {NoKey, Torn, made[w]}
    BY Zenon DEF WorkerInv, FilesSound
  <2>1. CASE /\ key[w] \in 1 .. MaxKeys
             /\ Reach(w, "join")
             /\ UNCHANGED <<key, made, cred, got>>
    <3>1. pc'[w] = "join"
      BY <2>1, Zenon DEF Reach, AgentOK
    <3>2. FilesSound(w)' /\ AnswerSound(w)'
      BY <2>0, <2>b, <2>1, <3>1, Zenon DEF FilesSound, AnswerSound
    <3>3. GrantSound(w)' /\ CredSound(w)'
      BY <2>0, Zenon DEF GrantSound, CredSound
    <3>4. NoEarlyCred(w)'
      BY <2>0, <2>1, Zenon DEF WorkerInv, NoEarlyCred
    <3> QED BY <3>2, <3>3, <3>4 DEF WorkerInv
  <2>2. CASE /\ key[w] = NoKey /\ made[w] < MaxKeys
             /\ made' = [made EXCEPT ![w] = @ + 1]
             /\ key' = [key EXCEPT ![w] = made[w] + 1]
             /\ Reach(w, "join")
             /\ UNCHANGED cred
    <3>1. pc'[w] = "join" /\ key'[w] = made[w] + 1 /\ made'[w] = made[w] + 1
      BY <2>2, Zenon DEF Reach, AgentOK
    <3>2. key'[w] \in 1 .. MaxKeys
      BY <2>2, <2>a, <3>1, EnrollmentAssumption
    <3>3. FilesSound(w)' /\ AnswerSound(w)'
      BY <2>0, <3>1, <3>2, Zenon DEF FilesSound, AnswerSound
    <3>4. GrantSound(w)' /\ CredSound(w)'
      BY <2>0, Zenon DEF GrantSound, CredSound
    <3>5. made'[w] # 0 /\ (made'[w] = 1 => made[w] = 0)
      BY <2>a, <3>1
    <3>6. NoEarlyCred(w)'
      BY <2>0, <2>2, <3>5, Zenon DEF WorkerInv, NoEarlyCred
    <3> QED BY <3>3, <3>4, <3>6 DEF WorkerInv
  <2>3. CASE key' = [key EXCEPT ![w] = Torn] /\ Down(w) /\ UNCHANGED made
             /\ key[w] = NoKey
    <3>1. pc'[w] = "down" /\ cred'[w] = None /\ key'[w] = Torn
      BY <2>3, Zenon DEF Down, AgentOK
    <3>2. FilesSound(w)' /\ AnswerSound(w)'
      BY <3>1, Zenon DEF FilesSound, AnswerSound
    <3>3. GrantSound(w)' /\ CredSound(w)'
      BY <2>0, Zenon DEF GrantSound, CredSound
    <3>4. Torn = 1 => MaxKeys = 0
      BY EnrollmentAssumption DEF Torn
    <3>5. MaxKeys = 0 => made[w] = 0
      BY DEF AgentOK
    <3>6. NoEarlyCred(w)'
      BY <2>0, <2>3, <3>1, <3>4, <3>5, Zenon DEF WorkerInv, NoEarlyCred
    <3> QED BY <3>2, <3>3, <3>6 DEF WorkerInv
  <2> QED BY <1>2, <1>3, <2>0, <2>1, <2>2, <2>3 DEF EnsureKey
<1>4. ASSUME v = w, SendJoin(w)
      PROVE  WorkerInv(w)'
  <2>0. pc[w] = "join" /\ UNCHANGED <<key, made, grant, file, flag, boots, peers, creds>>
    BY <1>4, Zenon DEF SendJoin
  <2>1. CASE Reach(w, "joining") /\ UNCHANGED cred
    <3>1. pc'[w] = "joining"
      BY <2>1, Zenon DEF Reach, AgentOK
    <3>2. FilesSound(w)' /\ AnswerSound(w)'
      BY <2>0, <3>1, Zenon DEF WorkerInv, FilesSound, AnswerSound
    <3>3. GrantSound(w)' /\ NoEarlyCred(w)' /\ CredSound(w)'
      BY <2>0, <2>1, Zenon DEF WorkerInv, GrantSound, NoEarlyCred, CredSound, FirstKey
    <3> QED BY <3>2, <3>3 DEF WorkerInv
  <2> QED BY <1>2, <1>4, <2>1 DEF SendJoin
<1>5. CASE v = w /\ JoinTimeout(w)
  BY <1>2, <1>5, Zenon DEF JoinTimeout
<1>6. ASSUME v = w, SaveState(w)
      PROVE  WorkerInv(w)'
  <2>1. CASE grant' = [grant EXCEPT ![w] = got[w].ip] /\ Reach(w, "adopt") /\ UNCHANGED <<cred, got>>
    <3>0. /\ pc[w] = "granted" /\ UNCHANGED <<key, made, file, boots, flag>>
      BY <1>6, Zenon DEF SaveState
    <3>1. pc'[w] = "adopt" /\ grant'[w] = got[w].ip
      BY <2>1, Zenon DEF Reach, AgentOK
    <3>2. /\ key[w] \in 1 .. MaxKeys /\ grant[w] = None /\ boots[w] > 0
          /\ key[w] \in {NoKey, Torn, made[w]}
      BY <3>0, Zenon DEF WorkerInv, FilesSound
    <3>3. key[w] = made[w] /\ made[w] # 0
      BY <3>2, EnrollmentAssumption DEF NoKey, Torn
    <3>4. /\ got[w] # NoGrant
          /\ peers[<<w, key[w]>>] = got[w].ip /\ creds[got[w].ip] = got[w].cred
      BY <3>0, Zenon DEF WorkerInv, AnswerSound
    <3>5. got[w].ip \in Ips /\ got[w].cred \in Creds
      BY <3>4, Zenon DEF AgentOK
    <3>6. <<w, key[w]>> \in Keys
      BY <3>2, Zenon DEF Keys
    <3>7. got[w].ip # None /\ got[w].cred # None
      BY <3>5, EnrollmentAssumption, Zenon
    <3>8. peers'[<<w, key[w]>>] = got[w].ip /\ creds'[got[w].ip] = got[w].cred
      BY <3>4, <3>5, <3>6, <3>7, Zenon DEF Grown
    <3>9. FilesSound(w)'
      BY <3>0, <3>1, <3>2, Zenon DEF FilesSound
    <3>10. AnswerSound(w)' /\ GrantSound(w)'
      BY <2>1, <3>0, <3>1, <3>2, <3>4, <3>8, Zenon DEF AnswerSound, GrantSound
    <3>11. NoEarlyCred(w)'
      BY <3>0, <3>1, <3>3, <3>7, Zenon DEF NoEarlyCred
    <3>12. FirstKey(w) => file[w] = None /\ cred[w] = None
      BY <3>2, <3>3, Zenon DEF WorkerInv, NoEarlyCred, FirstKey
    <3>13. CredSound(w)'
      BY <2>1, <3>0, <3>12, Zenon DEF CredSound, FirstKey
    <3> QED BY <3>9, <3>10, <3>11, <3>13 DEF WorkerInv
  <2> QED BY <1>2, <1>6, <2>1 DEF SaveState
<1>7. ASSUME v = w, AdoptNodeToken(w)
      PROVE  WorkerInv(w)'
  <2>1. CASE /\ file' = [file EXCEPT ![w] = got[w].cred]
             /\ cred' = [cred EXCEPT ![w] = got[w].cred]
             /\ Reach(w, "overlay")
    <3>0. /\ pc[w] = "adopt" /\ UNCHANGED <<key, made, grant, boots, flag>>
      BY <1>7, Zenon DEF AdoptNodeToken
    <3>1. pc'[w] = "overlay" /\ file'[w] = got[w].cred /\ cred'[w] = got[w].cred
      BY <2>1, Zenon DEF Reach, AgentOK
    <3>2. key[w] \in 1 .. MaxKeys /\ boots[w] > 0 /\ key[w] \in {NoKey, Torn, made[w]}
      BY <3>0, Zenon DEF WorkerInv, FilesSound
    <3>3. made[w] # 0
      BY <3>2, EnrollmentAssumption DEF NoKey, Torn
    <3>4. /\ got[w] # NoGrant /\ grant[w] = got[w].ip
          /\ peers[<<w, key[w]>>] = got[w].ip /\ creds[got[w].ip] = got[w].cred
      BY <3>0, Zenon DEF WorkerInv, AnswerSound
    <3>5. got[w].ip \in Ips /\ got[w].cred \in Creds
      BY <3>4, Zenon DEF AgentOK
    <3>6. <<w, key[w]>> \in Keys
      BY <3>2, Zenon DEF Keys
    <3>7. got[w].ip # None /\ got[w].cred # None
      BY <3>5, EnrollmentAssumption, Zenon
    <3>8. peers'[<<w, key[w]>>] = grant[w] /\ creds'[grant[w]] = got[w].cred
      BY <3>4, <3>5, <3>6, <3>7, Zenon DEF Grown
    <3>9. FilesSound(w)'
      BY <3>0, <3>1, <3>2, <3>4, <3>7, Zenon DEF FilesSound
    <3>10. AnswerSound(w)' /\ GrantSound(w)'
      BY <3>0, <3>1, <3>2, <3>8, Zenon DEF AnswerSound, GrantSound
    <3>11. NoEarlyCred(w)' /\ CredSound(w)'
      BY <3>0, <3>1, <3>3, <3>4, <3>7, <3>8, Zenon DEF NoEarlyCred, CredSound
    <3> QED BY <3>9, <3>10, <3>11 DEF WorkerInv
  <2> QED BY <1>2, <1>7, <2>1, Zenon DEF AdoptNodeToken
<1>8. ASSUME v = w, BringUp(w)
      PROVE  WorkerInv(w)'
  <2>1. CASE Reach(w, "register") /\ UNCHANGED <<cred, got>>
    <3>1. /\ pc[w] = "overlay" /\ pc'[w] = "register"
          /\ UNCHANGED <<key, made, grant, file, flag, boots, peers, creds>>
      BY <1>8, <2>1, Zenon DEF BringUp, Reach, AgentOK, hub
    <3> QED
      BY <2>1, <3>1, Zenon DEF WorkerInv, FilesSound, AnswerSound, GrantSound, NoEarlyCred, CredSound,
                        FirstKey
  <2> QED BY <1>2, <1>8, <2>1 DEF BringUp
<1> QED BY <1>1, <1>3, <1>4, <1>5, <1>6, <1>7, <1>8

\* Registration and heartbeats leave every worker sound.
LEMMA RegistrationSound ==
    ASSUME AgentOK, Grown, NEW w \in Workers, WorkerInv(w),
           NEW v \in Workers, RegisterOnce(v) \/ HeartbeatUnknown(v)
    PROVE  WorkerInv(w)'
<1>0. /\ UNCHANGED <<key, made, grant, file, flag, boots, cred, got, peers, creds>>
      /\ pc[v] \in {"register", "beat"}
      /\ UNCHANGED pc \/ Reach(v, "register") \/ Reach(v, "beat")
  BY Zenon DEF RegisterOnce, HeartbeatUnknown, hub
<1>1. UNCHANGED <<pc[w]>> \/ (pc[w] \in {"register", "beat"} /\ pc'[w] \in {"register", "beat"})
  BY <1>0, Zenon DEF Reach, AgentOK
<1>2. CASE UNCHANGED <<pc[w]>>
  BY <1>0, <1>2, Elsewhere, Zenon DEF Unmoved
<1>3. CASE pc[w] \in {"register", "beat"} /\ pc'[w] \in {"register", "beat"}
  BY <1>0, <1>3, Zenon DEF WorkerInv, FilesSound, AnswerSound, GrantSound, NoEarlyCred, CredSound, FirstKey
<1> QED BY <1>1, <1>2, <1>3

\* An answer to a join leaves every worker sound: a grant is what feluccad has
\* stored for the key of the agent that waits.
LEMMA AnswerLeavesSound ==
    ASSUME AgentOK, Grown, NEW w \in Workers, WorkerInv(w),
           NEW c \in Calls, CallSound(c),
           NEW g \in [ip : Ips, cred : Creds] \cup {NoGrant}, Answer(c, g),
           UNCHANGED <<key, made, grant, file, flag, boots>>,
           g # NoGrant => peers'[c.key] = g.ip /\ creds'[g.ip] = g.cred
    PROVE  WorkerInv(w)'
<1>1. CASE c.w # w \/ ~Waits(c)
  <2>1. Unmoved(w)
    BY <1>1 DEF Answer, Reach, Down, AgentOK, Unmoved
  <2> QED BY <2>1, Elsewhere, Zenon
<1>2. CASE c.w = w /\ Waits(c) /\ g = NoGrant
  BY <1>2, DownSound, Zenon DEF Answer
<1>3. CASE c.w = w /\ Waits(c) /\ g # NoGrant
  <2>1. /\ pc[w] = "joining" /\ pc'[w] = "granted" /\ got'[w] = g /\ UNCHANGED cred
        /\ c.key = <<w, key[w]>>
    BY <1>3, Zenon DEF Answer, Reach, Waits, AgentOK, CallSound
  <2>2. /\ key[w] \in 1 .. MaxKeys /\ grant[w] = None /\ boots[w] > 0
        /\ key[w] \in {NoKey, Torn, made[w]}
    BY <2>1, Zenon DEF WorkerInv, FilesSound
  <2>3. FilesSound(w)' /\ AnswerSound(w)'
    BY <1>3, <2>1, <2>2, Zenon DEF FilesSound, AnswerSound
  <2>4. GrantSound(w)' /\ CredSound(w)' /\ NoEarlyCred(w)'
    BY <2>1, <2>2, Zenon DEF WorkerInv, GrantSound, CredSound, NoEarlyCred
  <2> QED BY <2>3, <2>4, Zenon DEF WorkerInv
<1> QED BY <1>1, <1>2, <1>3

\* Every step leaves every worker sound.
LEMMA WorkersSound ==
    ASSUME IInv, [EnrollNext]_enrollVars, Grown, NEW w \in Workers
    PROVE  WorkerInv(w)'
<1>0. AgentOK /\ HubOK /\ HubInv /\ CallInv /\ WorkerInv(w)
  BY Zenon DEF IInv
<1>1. CASE UNCHANGED <<key, made, grant, file, flag, boots, pc, cred, got>>
  BY <1>0, <1>1, Elsewhere, Zenon DEF Unmoved
<1>2. ASSUME NEW c \in Calls, CallSound(c), Refuse(c),
             UNCHANGED <<key, made, grant, file, flag, boots>>
      PROVE  WorkerInv(w)'
  BY <1>0, <1>2, AnswerLeavesSound, Zenon DEF Refuse
<1>3. CASE JoinPeer
  <2>1. PICK c \in calls : Refuse(c) \/ \E i \in Ips : Allot(c, i)
    BY <1>3, JoinPeerCases, Zenon
  <2>2. UNCHANGED <<key, made, grant, file, flag, boots>>
    BY <1>3, JoinPeerCases, Zenon
  <2>3. c \in Calls /\ CallSound(c)
    BY <1>0, Zenon DEF HubOK, CallInv
  <2>4. CASE \E i \in Ips : Allot(c, i)
    BY <1>1, <2>2, <2>4, Zenon DEF Allot
  <2> QED BY <1>2, <2>1, <2>2, <2>3, <2>4
<1>4. CASE InstallPeer \/ PutNodeCred \/ ConsumeToken
  <2>1. join.at # "free" /\ UNCHANGED <<key, made, grant, file, flag, boots>>
    BY <1>4, Zenon DEF InstallPeer, PutNodeCred, ConsumeToken
  <2>2. join.call \in Calls /\ CallSound(join.call)
    BY <1>0, <2>1, Zenon DEF HubOK, CallInv
  <2>3. CASE Refuse(join.call)
    BY <1>2, <2>1, <2>2, <2>3, Zenon
  <2>4. CASE UNCHANGED <<pc, cred, got>>
    BY <1>1, <2>1, <2>4, Zenon
  <2>5. CASE ConsumeToken /\ Answer(join.call, [ip |-> join.ip, cred |-> join.cred])
    <3>1. /\ join.at = "consume" /\ UNCHANGED <<peers, creds>>
          /\ [ip |-> join.ip, cred |-> join.cred] \in [ip : Ips, cred : Creds]
      BY <1>0, <2>5, Zenon DEF ConsumeToken, HubOK
    <3>2. peers'[join.call.key] = join.ip /\ creds'[join.ip] = join.cred
      BY <1>0, <3>1, Zenon DEF HubInv, JoinSound
    <3> QED BY <1>0, <2>1, <2>2, <2>5, <3>1, <3>2, AnswerLeavesSound, Zenon
  <2> QED
    BY <1>4, <2>3, <2>4, <2>5, Zenon DEF InstallPeer, PutNodeCred, ConsumeToken
<1>5. CASE \/ HubCrash \/ UNCHANGED enrollVars
           \/ \E t \in Tokens : Expire(t)
           \/ \E n \in nodes : Reclaim(n)
  BY <1>1, <1>5, Zenon DEF HubCrash, Expire, Reclaim, agent, enrollVars
<1>6. ASSUME NEW v \in Workers,
             Provision(v) \/ Rekey(v) \/ Boot(v) \/ AgentStep(v) \/ AgentCrash(v)
      PROVE  WorkerInv(w)'
  BY <1>0, <1>6, OperatorSound, BootSound, RegistrationSound, Zenon DEF AgentStep
<1> QED BY <1>3, <1>4, <1>5, <1>6 DEF EnrollNext, HubStep

----------------------------------------------------------------------------
(* The theorems. *)

\* The fleet starts with nobody enrolled.
LEMMA InitSound == EnrollInit => IInv
<1> SUFFICES ASSUME EnrollInit PROVE IInv
  BY Zenon
<1> USE EnrollmentAssumption
<1>1. AgentOK
  BY DEF EnrollInit, AgentOK, NoKey, Torn, Labels
<1>2. HubOK
  BY NoJoinType DEF EnrollInit, HubOK
<1>3. HubInv /\ CallInv
  BY Zenon DEF EnrollInit, HubInv, AddressesDisjoint, CredIsTaken, JoinSound, CallInv, NoJoin
<1>4. ASSUME NEW w \in Workers PROVE WorkerInv(w)
  BY SMTT(20) DEF EnrollInit, WorkerInv, FilesSound, AnswerSound, GrantSound, NoEarlyCred, CredSound, NoKey
<1> QED BY <1>1, <1>2, <1>3, <1>4 DEF IInv

\* Every step keeps the inductive invariant.
LEMMA StepSound == IInv /\ [EnrollNext]_enrollVars => IInv'
<1> SUFFICES ASSUME IInv, [EnrollNext]_enrollVars PROVE IInv'
  BY Zenon
<1>1. AgentOK' /\ HubOK'
  <2>1. CASE UNCHANGED enrollVars
    BY <2>1, Zenon DEF IInv, AgentOK, HubOK, enrollVars
  <2> QED BY <2>1, WorkerType, HubType DEF EnrollNext
<1>2. HubInv' /\ Grown
  BY StoredSound, Zenon
<1>3. CallInv'
  BY <1>1, CallsSound, Zenon
<1>4. \A w \in Workers : WorkerInv(w)'
  BY <1>2, WorkersSound, Zenon
<1> QED BY <1>1, <1>2, <1>3, <1>4 DEF IInv

\* It holds in every reachable state.
THEOREM EnrollmentInvariant == EnrollSpec => []IInv
<1> QED BY InitSound, StepSound, PTL DEF EnrollSpec

\* Every variable keeps its type, whatever fails on either side.
THEOREM EnrollmentTypes == EnrollSpec => []TypeOK
<1>1. IInv => TypeOK
  BY Zenon DEF IInv, AgentOK, HubOK, TypeOK
<1> QED BY <1>1, EnrollmentInvariant, PTL

\* No two keys ever have the same overlay address (AllocateOverlayIP under
\* joinMu, CreateWgPeer), for any number of workers and half-done joins.
THEOREM AddressesStayDisjoint == EnrollSpec => []AddressesDisjoint
<1>1. IInv => AddressesDisjoint
  BY Zenon DEF IInv, HubInv
<1> QED BY <1>1, EnrollmentInvariant, PTL

\* A worker that has a wg.json is a peer of the hub under the key and the
\* address it has on disk, whatever was lost, killed or enrolled again.
THEOREM GrantStaysBacked == EnrollSpec => []GrantBacked
<1>1. IInv => GrantBacked
  BY Zenon DEF IInv, WorkerInv, GrantSound, GrantBacked
<1> QED BY <1>1, EnrollmentInvariant, PTL

\* The credential of an agent is never rotated behind its back, for any number
\* of late, repeated and half-failed joins (rejoinAuthorized).
THEOREM CredentialStaysCurrent == EnrollSpec => []CredentialCurrent
<1>1. IInv => CredentialCurrent
  BY Zenon DEF IInv, WorkerInv, CredSound, CredentialCurrent
<1> QED BY <1>1, EnrollmentInvariant, PTL

-----------------------------------------------------------------------------
\* The tokens that are burned, and the keys whose enrolment is complete.
Burned == {t \in Tokens : tokens[t] = "used"}
Enrolled == {k \in Keys : peers[k] # None /\ creds[peers[k]] # None}

\* A join that has stored its credential is one ahead of the tokens.
BurnInv ==
    /\ IsFiniteSet(Burned) /\ IsFiniteSet(Enrolled)
    /\ Cardinality(Burned) + (IF join.at = "consume" THEN 1 ELSE 0) <= Cardinality(Enrolled)

\* A step that completes no enrolment and burns no token.
LEMMA BurnIdle ==
    ASSUME BurnInv, Burned' = Burned, Enrolled' = Enrolled, join'.at = "consume" => join.at = "consume"
    PROVE  BurnInv'
<1>1. Cardinality(Burned) \in Nat /\ Cardinality(Enrolled) \in Nat
  BY FS_CardinalityType, Zenon DEF BurnInv
<1> QED BY <1>1 DEF BurnInv

\* A join stores its peer before the credential: no enrolment is complete by it.
LEMMA AllotBurns ==
    ASSUME IInv, NEW c \in Calls, NEW i \in Ips, Allot(c, i), UNCHANGED creds
    PROVE  Enrolled' = Enrolled
<1>0. HubOK /\ AddressesDisjoint /\ CredIsTaken /\ c.key \in Keys
  BY Zenon DEF IInv, HubInv, Calls
<1>1. creds[i] = None /\ peers[c.key] \in {None, i}
  BY <1>0, AllotSound, Zenon
<1>2. \A k \in Keys : peers'[k] = IF k = c.key THEN i ELSE peers[k]
  BY <1>0, Zenon DEF Allot, CreateWgPeer, HubOK
<1>3. ASSUME NEW k \in Keys
      PROVE  peers'[k] # None /\ creds[peers'[k]] # None <=> peers[k] # None /\ creds[peers[k]] # None
  <2>1. CASE k = c.key
    BY <1>1, <1>2, <2>1, Zenon
  <2>2. CASE k # c.key
    BY <1>2, <2>2, Zenon
  <2> QED BY <2>1, <2>2
<1> QED BY <1>3, Zenon DEF Enrolled

\* Every step keeps it: a credential completes one more enrolment before the
\* token of that join is burned.
LEMMA BurnStep ==
    ASSUME IInv, BurnInv, [EnrollNext]_enrollVars
    PROVE  BurnInv'
<1>0. HubOK /\ AddressesDisjoint /\ CredIsTaken /\ JoinSound
  BY Zenon DEF IInv, HubInv
<1>1. Cardinality(Burned) \in Nat /\ Cardinality(Enrolled) \in Nat
  BY FS_CardinalityType, Zenon DEF BurnInv
<1>2. CASE JoinPeer
  <2>1. UNCHANGED <<tokens, creds>>
    BY <1>2, JoinPeerCases, Zenon
  <2>2. PICK c \in calls : (Refuse(c) /\ UNCHANGED peers) \/ \E i \in Ips : Allot(c, i)
    BY <1>2, JoinPeerCases, Zenon
  <2>3. c \in Calls
    BY <1>0, Zenon DEF HubOK
  <2>4. Enrolled' = Enrolled
    BY <2>1, <2>2, <2>3, AllotBurns, Zenon DEF Enrolled
  <2>5. Burned' = Burned
    BY <2>1, Zenon DEF Burned
  <2>6. join'.at # "consume"
    BY <2>2, NoJoinType DEF Refuse, Answer, Allot
  <2> QED BY <2>4, <2>5, <2>6, BurnIdle, Zenon
<1>3. CASE InstallPeer
  <2>1. Burned' = Burned /\ Enrolled' = Enrolled
    BY <1>3, Zenon DEF InstallPeer, Burned, Enrolled
  <2>2. join'.at # "consume"
    BY <1>0, <1>3 DEF InstallPeer, Refuse, Answer, NoJoin, HubOK
  <2> QED BY <2>1, <2>2, BurnIdle, Zenon
<1>4. CASE PutNodeCred
  <2>1. join.at = "cred" /\ UNCHANGED <<peers, tokens>>
    BY <1>4, Zenon DEF PutNodeCred
  <2>2. Burned' = Burned
    BY <2>1, Zenon DEF Burned
  <2>3. CASE join' = NoJoin /\ UNCHANGED creds
    <3>1. Enrolled' = Enrolled /\ join'.at # "consume"
      BY <2>1, <2>3, Zenon DEF Enrolled, NoJoin
    <3> QED BY <2>2, <3>1, BurnIdle, Zenon
  <2>4. ASSUME NEW n \in Creds, creds' = [creds EXCEPT ![join.ip] = n]
        PROVE  BurnInv'
    <3>1. join.ip \in Ips /\ join.call.key \in Keys
      BY <1>0, <2>1, Zenon DEF HubOK, Calls
    <3>2. peers[join.call.key] = join.ip /\ creds[join.ip] = None
      BY <1>0, <2>1, Zenon DEF JoinSound
    <3>3. \A i \in Ips : creds'[i] = IF i = join.ip THEN n ELSE creds[i]
      BY <1>0, <2>4, Zenon DEF HubOK
    <3>4. n # None /\ None \notin Ips
      BY EnrollmentAssumption, Zenon
    <3>5. ASSUME NEW k \in Keys
          PROVE  peers'[k] # None /\ creds'[peers'[k]] # None
                   <=> (peers[k] # None /\ creds[peers[k]] # None) \/ k = join.call.key
      <4>1. CASE k = join.call.key
        BY <2>1, <3>1, <3>2, <3>3, <3>4, <4>1, Zenon
      <4>2. CASE k # join.call.key
        <5>1. peers[k] # join.ip
          BY <1>0, <3>1, <3>2, <3>4, <4>2, Zenon DEF AddressesDisjoint
        <5>2. peers[k] # None => creds'[peers[k]] = creds[peers[k]]
          BY <1>0, <3>3, <5>1, Zenon DEF HubOK
        <5> QED BY <2>1, <4>2, <5>2, Zenon
      <4> QED BY <4>1, <4>2
    <3>6. Enrolled' = Enrolled \cup {join.call.key}
      BY <3>1, <3>5, Zenon DEF Enrolled
    <3>7. join.call.key \notin Enrolled
      BY <3>2, Zenon DEF Enrolled
    <3>8. IsFiniteSet(Enrolled') /\ Cardinality(Enrolled') = Cardinality(Enrolled) + 1
      BY <3>6, <3>7, FS_AddElement, Zenon DEF BurnInv
    <3>9. Cardinality(Burned) <= Cardinality(Enrolled)
      BY <1>1, <2>1 DEF BurnInv
    <3> QED BY <1>1, <2>2, <3>8, <3>9 DEF BurnInv
  <2> QED BY <1>4, <2>3, <2>4, Zenon DEF PutNodeCred, Refuse, Answer
<1>5. CASE ConsumeToken
  <2>1. join.at = "consume" /\ join'.at # "consume" /\ UNCHANGED <<peers, creds>>
    BY <1>5, NoJoinType DEF ConsumeToken, Refuse, Answer
  <2>2. Enrolled' = Enrolled
    BY <2>1, Zenon DEF Enrolled
  <2>3. CASE UNCHANGED tokens
    <3>1. Burned' = Burned
      BY <2>3, Zenon DEF Burned
    <3> QED BY <2>1, <2>2, <3>1, BurnIdle, Zenon
  <2>4. CASE tokens' = [tokens EXCEPT ![join.call.token] = "used"]
    <3>1. join.call.token \in Tokens /\ \A t \in Tokens : tokens'[t] = IF t = join.call.token THEN "used" ELSE tokens[t]
      BY <1>0, <2>1, <2>4, Zenon DEF HubOK, Calls
    <3>2. Burned' = Burned \cup {join.call.token}
      BY <3>1, Zenon DEF Burned
    <3>3. IsFiniteSet(Burned') /\ (Cardinality(Burned') = Cardinality(Burned) \/ Cardinality(Burned') = Cardinality(Burned) + 1)
      BY <3>2, FS_AddElement, Zenon DEF BurnInv
    <3>4. Cardinality(Burned) + 1 <= Cardinality(Enrolled)
      BY <2>1 DEF BurnInv
    <3> QED BY <1>1, <2>1, <2>2, <3>3, <3>4 DEF BurnInv
  <2> QED BY <1>5, <2>3, <2>4, Zenon DEF ConsumeToken
<1>6. CASE HubCrash
  <2>1. Burned' = Burned /\ Enrolled' = Enrolled /\ join'.at # "consume"
    BY <1>6, Zenon DEF HubCrash, Burned, Enrolled, NoJoin
  <2> QED BY <2>1, BurnIdle, Zenon
<1>7. CASE \/ \E w \in Workers : Provision(w) \/ Rekey(w) \/ Boot(w) \/ AgentStep(w) \/ AgentCrash(w)
           \/ \E t \in Tokens : Expire(t)
           \/ \E n \in nodes : Reclaim(n)
           \/ UNCHANGED enrollVars
  <2>1. UNCHANGED <<peers, creds, join>>
    BY <1>7, Zenon DEF Provision, Rekey, Boot, AgentStep, AgentCrash, EnsureKey, SendJoin, JoinTimeout,
                SaveState, AdoptNodeToken, BringUp, RegisterOnce, HeartbeatUnknown, Expire,
                Reclaim, enrollVars, hub
  <2>2. \/ UNCHANGED tokens
        \/ \E t \in Tokens, s \in {"fresh", "expired"} :
              tokens[t] # "used" /\ tokens' = [tokens EXCEPT ![t] = s]
    BY <1>7, Zenon DEF Provision, Rekey, Boot, AgentStep, AgentCrash, EnsureKey, SendJoin, JoinTimeout,
                SaveState, AdoptNodeToken, BringUp, RegisterOnce, HeartbeatUnknown, Expire,
                Reclaim, enrollVars, hub
  <2>3. \A t \in Tokens : tokens'[t] = "used" <=> tokens[t] = "used"
    BY <1>0, <2>2 DEF HubOK
  <2>4. Burned' = Burned /\ Enrolled' = Enrolled
    BY <2>1, <2>3, Zenon DEF Burned, Enrolled
  <2> QED BY <2>1, <2>4, BurnIdle, Zenon
<1> QED BY <1>2, <1>3, <1>4, <1>5, <1>6, <1>7 DEF EnrollNext, HubStep

\* A join token is burned only for an enrolment that is complete on the hub
\* ("the token is consumed LAST"), for any number of workers, tokens and faults.
THEOREM BurnedStaysEnrolled == EnrollSpec => []BurnedIsEnrolled
<1>1. EnrollInit => BurnInv
  <2> SUFFICES ASSUME EnrollInit PROVE BurnInv
    BY Zenon
  <2>1. Burned = {} /\ Enrolled = {} /\ join.at # "consume"
    BY Zenon DEF EnrollInit, Burned, Enrolled, NoJoin
  <2>2. IsFiniteSet({}) /\ Cardinality({}) = 0
    BY FS_EmptySet, Zenon
  <2> QED BY <2>1, <2>2 DEF BurnInv
<1>2. IInv /\ BurnInv /\ [EnrollNext]_enrollVars => BurnInv'
  BY BurnStep, Zenon
<1>3. BurnInv => BurnedIsEnrolled
  <2> SUFFICES ASSUME BurnInv PROVE BurnedIsEnrolled
    BY Zenon
  <2>1. Cardinality(Burned) \in Nat /\ Cardinality(Enrolled) \in Nat
    BY FS_CardinalityType, Zenon DEF BurnInv
  <2>2. Cardinality(Burned) <= Cardinality(Enrolled)
    BY <2>1 DEF BurnInv
  <2> QED BY <2>2, Zenon DEF BurnedIsEnrolled, Burned, Enrolled
<1> QED BY <1>1, <1>2, <1>3, EnrollmentInvariant, PTL DEF EnrollSpec

=============================================================================
