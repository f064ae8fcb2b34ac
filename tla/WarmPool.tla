------------------------------ MODULE WarmPool ------------------------------
(***************************************************************************)
(* The warm pool and the image cache of one worker                         *)
(* (rust/agent/src/vm/{mod,pool,image}.rs), for one template of the        *)
(* catalog that may be deleted and captured again under its name.          *)
(*                                                                         *)
(* Creates, the pool loop and a prefetch run at once.  The records are     *)
(* changed under the manager's lock, one critical section a step; pulls of *)
(* the image are serialized by its own lock, which the fast path of        *)
(* ensure_image does not take.  An image is known by the capture it comes  *)
(* from, so a sha is the number of its capture; vcpus, memory and disk are *)
(* compared for equality as the image's name is and are left out.  Slots,  *)
(* taps and rules are the subject of NodeNet; restarts, exits of           *)
(* Firecracker and deletes by a request that of AgentVm.                   *)
(***************************************************************************)
EXTENDS Integers, FiniteSets, FiniteSetsExt

CONSTANTS
    Sandboxes,     \* ids that feluccad gives to creates; requests of a behaviour
    PoolIds,       \* ids of prewarmed VMs, pool-<ms>
    MaxVersion,    \* bound: captures of the template
    PoolSize,      \* pool_size of the template
    Torn,          \* a file that is being written
    None

ASSUME PoolAssumption ==
    /\ {MaxVersion, PoolSize} \subseteq Nat \ {0}
    /\ IsFiniteSet(PoolIds)
    /\ Sandboxes \cap (PoolIds \cup {"pool"}) = {} /\ None \notin Sandboxes \cup {"pool"}
    /\ Torn # None /\ {Torn, None} \cap (1 .. MaxVersion) = {}

Versions == 1 .. MaxVersion
Dirs == Sandboxes \cup PoolIds
Procs == Sandboxes \cup {"pool"}
Entries == {"img", "side", "part"}

VARIABLES
    catalog,  \* feluccad: the capture of the template, None without one
    made,     \* feluccad: captures so far
    specs,    \* template_pools: the sha of the one spec, None when empty
    recs,     \* the records, by dir_id
    dirs,     \* instance directories and the image their rootfs holds
    fc,       \* directories with a live Firecracker
    cache,    \* <image>.ext4, its sidecar and .<image>.partial
    ilock,    \* who holds the image's lock
    backoff,  \* pool_backoff: the shas whose prewarm failed
    proc      \* creates, prefetches, the pool loop

vars == <<catalog, made, specs, recs, dirs, fc, cache, ilock, backoff,
          proc>>
control == <<catalog, made, specs>>
disk == <<dirs, fc>>
image == <<cache, ilock>>

Empty == 0  \* a directory whose rootfs is not there yet
NoRec == [state |-> "absent", id |-> None, sha |-> None, pid |-> FALSE]
Idle == [pc |-> "idle", id |-> None, want |-> None, dir |-> None,
         slow |-> FALSE, failed |-> FALSE, todo |-> {}]
Gone == [Idle EXCEPT !.pc = "gone"]

Init ==
    /\ catalog = None /\ made = 0
    /\ specs = None
    /\ recs = [d \in Dirs |-> NoRec]
    /\ dirs = [d \in Dirs |-> None]
    /\ fc = {}
    /\ cache = [e \in Entries |-> None]
    /\ ilock = None
    /\ backoff = {}
    /\ proc = [p \in Procs |-> IF p = "pool" THEN [Idle EXCEPT !.pc = "rest"] ELSE Idle]

Goto(p, l) == proc' = [proc EXCEPT ![p].pc = l]

\* Find by id: ids of records are unique.
Known(id) == {d \in Dirs : recs[d].id = id}
SetState(id, st) == [d \in Dirs |-> IF d \in Known(id) THEN [recs[d] EXCEPT !.state = st]
                                    ELSE recs[d]]

----------------------------------------------------------------------------
(* feluccad's side of the catalog. *)

\* createTemplate captures a stopped sandbox under the template's name.
CreateTemplate ==
    /\ catalog = None /\ made < MaxVersion
    /\ made' = made + 1
    /\ catalog' = made'
    /\ UNCHANGED <<specs, recs, disk, image, backoff, proc>>

\* deleteTemplate: the file of the image goes with it.
DeleteTemplate ==
    /\ catalog # None
    /\ catalog' = None
    /\ UNCHANGED <<made, specs, recs, disk, image, backoff, proc>>

\* pushPools and set_pools: the push reads the catalog when it is sent.  One that
\* misses the node is made up for when the node registers.
PutPools ==
    /\ specs # catalog
    /\ specs' = catalog
    /\ UNCHANGED <<catalog, made, recs, disk, image, backoff, proc>>

----------------------------------------------------------------------------
(* The life of a record. *)

Pooled == {d \in Dirs : recs[d].state = "pooled"}

\* pooled_shape_matches
Matches(d, sha) == recs[d].state = "pooled" /\ recs[d].sha = sha

\* A request that is new; which of the ids it gets is of no matter.
New(s) == s = CHOOSE t \in Sandboxes : proc[t].pc = "idle"

\* prefetch_image: the image of a template, pulled in the background.
Prefetch(s) ==
    /\ proc[s].pc = "idle" /\ New(s) /\ catalog # None
    /\ proc' = [proc EXCEPT ![s].pc = "decide", ![s].want = catalog]
    /\ UNCHANGED <<control, recs, disk, image, backoff>>

\* create_vm: a create of the template's current capture, detached from its call.
CreateSandbox(s) ==
    /\ proc[s].pc = "idle" /\ New(s) /\ catalog # None
    /\ proc' = [proc EXCEPT ![s].pc = "claim", ![s].id = s, ![s].want = catalog]
    /\ UNCHANGED <<control, recs, disk, image, backoff>>

\* Mutation of Claim: the record stays claimable until the resume lands.
ClaimLate(s) ==
    /\ proc[s].pc = "claim"
    /\ \/ /\ \A d \in Dirs : ~Matches(d, proc[s].want)
          /\ Goto(s, "push") /\ UNCHANGED recs
       \/ \E d \in Dirs :
             /\ Matches(d, proc[s].want)
             /\ recs' = [recs EXCEPT ![d].id = s]
             /\ proc' = [proc EXCEPT ![s].pc = "resume", ![s].dir = d]
    /\ UNCHANGED <<control, disk, image, backoff>>

\* claim_from_pool: find and retag under one lock.
Claim(s) ==
    /\ proc[s].pc = "claim"
    /\ \/ /\ \A d \in Dirs : ~Matches(d, proc[s].want)
          /\ Goto(s, "push") /\ UNCHANGED recs
       \/ \E d \in Dirs :
             /\ Matches(d, proc[s].want)
             /\ recs' = [recs EXCEPT ![d].id = s, ![d].state = "creating"]
             /\ proc' = [proc EXCEPT ![s].pc = "resume", ![s].dir = d]
    /\ UNCHANGED <<control, disk, image, backoff>>

\* The resume goes through the socket in the directory.  When it fails the
\* record gets its pool id back and becomes an error, and the create boots cold.
Resume(s) ==
    LET d == proc[s].dir
        up == d \in fc /\ dirs[d] # None
    IN  /\ proc[s].pc = "resume"
        /\ recs' = IF up THEN SetState(s, "running")
                   ELSE [recs EXCEPT ![d].id = d, ![d].state = "error", ![d].pid = FALSE]
        /\ Goto(s, IF up THEN "save" ELSE "push")
        /\ UNCHANGED <<control, disk, image, backoff>>

\* write_meta, into the directory.
Save(s) ==
    /\ proc[s].pc = "save"
    /\ Goto(s, IF dirs[proc[s].dir] # None THEN "ok" ELSE "failed")
    /\ UNCHANGED <<control, recs, disk, image, backoff>>

\* cold_create pushes the record and makes the directory.  Ids are new, so
\* AlreadyExists is not reached.
Push(p) ==
    LET id == proc[p].id
    IN  /\ proc[p].pc = "push"
        /\ Known(id) = {}
        /\ recs' = [recs EXCEPT ![id] = [state |-> "creating", id |-> id,
                                         sha |-> proc[p].want, pid |-> FALSE]]
        /\ dirs' = [dirs EXCEPT ![id] = Empty]
        /\ Goto(p, "decide")
        /\ UNCHANGED <<control, fc, image, backoff>>

\* cold_create marks the record; the pool loop deletes it and backs off.  A
\* prefetch has no record.
Failed(p) ==
    IF proc[p].id = None THEN recs' = recs /\ proc' = [proc EXCEPT ![p] = Gone]
    ELSE /\ recs' = SetState(proc[p].id, "error")
         /\ proc' = [proc EXCEPT ![p].pc = IF p = "pool" THEN "pid" ELSE "failed",
                                 ![p].failed = TRUE, ![p].slow = FALSE]

----------------------------------------------------------------------------
(* ensure_image and pull_image. *)

Unlock(p) == ilock' = IF ilock = p THEN None ELSE ilock

\* The image is there: the create goes on, a prefetch is over.
Use(p) ==
    /\ Unlock(p)
    /\ proc' = [proc EXCEPT ![p] =
          IF proc[p].id = None THEN Gone ELSE [@ EXCEPT !.pc = "copy", !.slow = FALSE]]

Pull(p) == Goto(p, IF proc[p].slow THEN "pull" ELSE "lock") /\ UNCHANGED ilock

\* decide, on the files as they are; without the lock on the first call.
Decide(p) ==
    /\ proc[p].pc = "decide"
    /\ \/ /\ cache["img"] # None /\ cache["side"] = proc[p].want
          /\ Use(p)
       \/ /\ cache["img"] = None \/ cache["side"] \notin {None, proc[p].want}
          /\ Pull(p)
       \/ /\ cache["img"] # None /\ cache["side"] = None
          /\ Goto(p, "hash") /\ UNCHANGED ilock
    /\ UNCHANGED <<control, recs, disk, cache, backoff>>

\* No sidecar: the file is hashed, which takes its time,
Hash(p) ==
    /\ proc[p].pc = "hash"
    /\ \/ /\ cache["img"] = None
          /\ Failed(p) /\ Unlock(p)
       \/ /\ cache["img"] # None /\ cache["img"] = proc[p].want
          /\ Goto(p, "heal") /\ UNCHANGED <<recs, ilock>>
       \/ /\ cache["img"] \notin {None, proc[p].want}
          /\ Pull(p) /\ UNCHANGED recs
    /\ UNCHANGED <<control, disk, cache, backoff>>

\* and gets the sidecar it should have had.
Heal(p) ==
    /\ proc[p].pc = "heal"
    /\ cache' = [cache EXCEPT !["side"] = proc[p].want]
    /\ Use(p)
    /\ UNCHANGED <<control, recs, disk, backoff>>

\* Mutation of Lock: pulls of one image are not serialized.
LockShared(p) ==
    /\ proc[p].pc = "lock"
    /\ ilock' = p
    /\ proc' = [proc EXCEPT ![p].pc = "decide", ![p].slow = TRUE]
    /\ UNCHANGED <<control, recs, disk, cache, backoff>>

Lock(p) ==
    /\ proc[p].pc = "lock"
    /\ ilock = None
    /\ ilock' = p
    /\ proc' = [proc EXCEPT ![p].pc = "decide", ![p].slow = TRUE]
    /\ UNCHANGED <<control, recs, disk, cache, backoff>>

\* The partial of an earlier try goes and curl starts to write a new one.
Download(p) ==
    /\ proc[p].pc = "pull"
    /\ cache' = [cache EXCEPT !["part"] = Torn]
    /\ Goto(p, "fetch")
    /\ UNCHANGED <<control, recs, disk, ilock, backoff>>

\* serveImage sends the template's file, and what came is checked against the sha
\* of the request.  Without a template, or when curl fails, the partial stays.
Fetch(p) ==
    /\ proc[p].pc = "fetch"
    /\ \/ /\ catalog # None /\ catalog = proc[p].want
          /\ cache' = [cache EXCEPT !["part"] = catalog]
          /\ Goto(p, "side") /\ UNCHANGED <<recs, ilock>>
       \/ /\ catalog \notin {None, proc[p].want}
          /\ cache' = [cache EXCEPT !["part"] = None]
          /\ Failed(p) /\ Unlock(p)
       \/ /\ catalog = None
          /\ Failed(p) /\ Unlock(p) /\ UNCHANGED cache
    /\ UNCHANGED <<control, disk, backoff>>

\* The sidecar first,
PutSidecar(p) ==
    /\ proc[p].pc = "side"
    /\ cache' = [cache EXCEPT !["side"] = proc[p].want]
    /\ Goto(p, "rename")
    /\ UNCHANGED <<control, recs, disk, ilock, backoff>>

\* then the image.
Rename(p) ==
    /\ proc[p].pc = "rename"
    /\ cache' = [cache EXCEPT !["img"] = cache["part"], !["part"] = None]
    /\ Use(p)
    /\ UNCHANGED <<control, recs, disk, backoff>>

\* copy_rootfs, of whatever is under the image's name by now, spawn_and_configure,
\* the pause of a pooled VM, and the record.
Boot(p) ==
    LET id == proc[p].id
    IN  /\ proc[p].pc = "copy"
        /\ \/ /\ cache["img"] # None
              /\ dirs' = [dirs EXCEPT ![id] = cache["img"]]
              /\ fc' = fc \cup {id}
              /\ recs' = [recs EXCEPT ![id].pid = TRUE,
                             ![id].state = IF p = "pool" THEN "pooled" ELSE "running"]
              /\ Goto(p, IF p = "pool" THEN "top" ELSE "ok")
           \/ /\ cache["img"] = None
              /\ Failed(p) /\ UNCHANGED disk
        /\ UNCHANGED <<control, image, backoff>>

----------------------------------------------------------------------------
(* delete, by a request or by the pool loop. *)

\* stop reads the pid,
StopPid(p) ==
    LET of == {d \in Known(proc[p].id) : recs[d].pid}
    IN  /\ proc[p].pc = "pid"
        /\ proc' = [proc EXCEPT ![p].pc = "stop",
                       ![p].dir = IF of = {} THEN None ELSE CHOOSE d \in of : TRUE]
        /\ UNCHANGED <<control, recs, disk, image, backoff>>

\* then clears the record, if it is still there, and kills.
Stop(p) ==
    /\ proc[p].pc = "stop"
    /\ recs' = [d \in Dirs |-> IF d \in Known(proc[p].id)
                               THEN [recs[d] EXCEPT !.state = "stopped", !.pid = FALSE]
                               ELSE recs[d]]
    /\ fc' = fc \ {proc[p].dir}
    /\ Goto(p, "remove")
    /\ UNCHANGED <<control, dirs, image, backoff>>

\* instance_dir: an id without a record is its own directory.
InstanceDir(id) == IF Known(id) = {} THEN id ELSE CHOOSE d \in Known(id) : TRUE

\* The directory and the record go.  After a failed prewarm its spec is backed off.
Remove(p) ==
    /\ proc[p].pc = "remove"
    /\ dirs' = [dirs EXCEPT ![InstanceDir(proc[p].id)] = None]
    /\ recs' = [d \in Dirs |-> IF d \in Known(proc[p].id) THEN NoRec ELSE recs[d]]
    /\ backoff' = backoff \cup (IF p = "pool" /\ proc[p].failed THEN {proc[p].want} ELSE {})
    /\ proc' = [proc EXCEPT ![p] =
          IF p # "pool" THEN Gone
          ELSE [@ EXCEPT !.pc = IF proc[p].failed THEN "tidy" ELSE "drain", !.failed = FALSE,
                         !.dir = None, !.id = None]]
    /\ UNCHANGED <<control, fc, image>>

----------------------------------------------------------------------------
(* pool_loop. *)

\* Mutation of Surplus: the drain counts the way the refill does.
SurplusAnySha(keep) ==
    /\ keep \subseteq Pooled
    /\ Cardinality(keep) = IF specs = None THEN 0 ELSE Min({PoolSize, Cardinality(Pooled)})

\* surplus_pooled_ids: all but those to keep, the matches up to the count.  The
\* first ones of the list are kept; the list is in no order here.
Surplus(keep) ==
    LET fit == {d \in Dirs : specs # None /\ Matches(d, specs)}
    IN  /\ keep \subseteq fit
        /\ Cardinality(keep) = Min({PoolSize, Cardinality(fit)})

\* refill_pool takes the specs and the surplus, and drains before it tops up.
Refill ==
    /\ proc["pool"].pc = "rest"
    /\ \E keep \in SUBSET Pooled :
          /\ Surplus(keep)
          /\ proc' = [proc EXCEPT !["pool"] =
                [Idle EXCEPT !.pc = "drain", !.todo = Pooled \ keep, !.want = specs]]
    /\ UNCHANGED <<control, recs, disk, image, backoff>>

\* One id of the surplus after another.
Drain ==
    /\ proc["pool"].pc = "drain"
    /\ \/ \E d \in proc["pool"].todo :
             proc' = [proc EXCEPT !["pool"].pc = "pid", !["pool"].id = d,
                                  !["pool"].todo = @ \ {d}]
       \/ proc["pool"].todo = {} /\ Goto("pool", "top")
    /\ UNCHANGED <<control, recs, disk, image, backoff>>

\* A new id: now_ms never returns.
Unused == {d \in PoolIds : /\ recs[d] = NoRec /\ dirs[d] = None /\ d \notin fc
                           /\ \A s \in Sandboxes : proc[s].dir # d}

\* pooled_count_matching leaves the sha out.
CountMatching == Cardinality(Pooled)

TopUp ==
    /\ proc["pool"].pc = "top"
    /\ \/ /\ proc["pool"].want \in backoff \cup {None} \/ CountMatching >= PoolSize
          /\ Goto("pool", "tidy")
       \/ /\ proc["pool"].want \notin backoff \cup {None} /\ CountMatching < PoolSize
          /\ Unused # {}
          /\ proc' = [proc EXCEPT !["pool"].pc = "push",
                                  !["pool"].id = CHOOSE d \in Unused : TRUE]
    /\ UNCHANGED <<control, recs, disk, image, backoff>>

\* image_referenced
Referenced == specs # None \/ \E d \in Dirs : recs[d] # NoRec

\* Every so often the round ends with gc_images, which passes over an entry that
\* is young or referenced.  Any one entry may be old here; another round takes
\* another one.
Tidy ==
    /\ proc["pool"].pc = "tidy"
    /\ \/ proc' = [proc EXCEPT !["pool"] = [Idle EXCEPT !.pc = "rest"]]
       \/ \E e \in Entries :
             /\ cache[e] # None /\ ~Referenced
             /\ proc' = [proc EXCEPT !["pool"] = [Idle EXCEPT !.pc = "gclock", !.id = e]]
    /\ UNCHANGED <<control, recs, disk, image, backoff>>

GcLock ==
    /\ proc["pool"].pc = "gclock" /\ ilock = None
    /\ ilock' = "pool" /\ Goto("pool", "gccheck")
    /\ UNCHANGED <<control, recs, disk, cache, backoff>>

\* Under the lock of the image the entry is looked at again,
GcCheck ==
    /\ proc["pool"].pc = "gccheck"
    /\ IF Referenced
       THEN Unlock("pool") /\ proc' = [proc EXCEPT !["pool"] = [Idle EXCEPT !.pc = "rest"]]
       ELSE Goto("pool", "gcunlink") /\ UNCHANGED ilock
    /\ UNCHANGED <<control, recs, disk, cache, backoff>>

\* and removed.
GcUnlink ==
    /\ proc["pool"].pc = "gcunlink"
    /\ cache' = [cache EXCEPT ![proc["pool"].id] = None]
    /\ Unlock("pool")
    /\ proc' = [proc EXCEPT !["pool"] = [Idle EXCEPT !.pc = "rest"]]
    /\ UNCHANGED <<control, recs, disk, backoff>>

----------------------------------------------------------------------------
(* Firecracker exits, and time. *)

\* sweep_dead and on_fc_exit
SweepDead(d) ==
    /\ recs[d].pid /\ d \notin fc /\ recs[d].state \in {"creating", "running", "pooled"}
    /\ recs' = [recs EXCEPT ![d].state = "error", ![d].pid = FALSE]
    /\ UNCHANGED <<control, disk, image, backoff, proc>>

\* REFILL_BACKOFF is over.
BackoffOver(v) ==
    /\ v \in backoff
    /\ backoff' = backoff \ {v}
    /\ UNCHANGED <<control, recs, disk, image, proc>>

Ensure(p) == Decide(p) \/ Hash(p) \/ Heal(p) \/ Lock(p) \/ Download(p) \/ Fetch(p)
             \/ PutSidecar(p) \/ Rename(p)
Delete(p) == StopPid(p) \/ Stop(p) \/ Remove(p)
Create(p) == Push(p) \/ Ensure(p) \/ Boot(p)
PoolStep == Refill \/ Drain \/ TopUp \/ Tidy \/ GcLock \/ GcCheck \/ GcUnlink
            \/ Create("pool") \/ Delete("pool")
SandboxStep(s) == Claim(s) \/ Resume(s) \/ Save(s) \/ Create(s)

Next ==
    \/ CreateTemplate \/ DeleteTemplate \/ PutPools
    \/ \E s \in Sandboxes : CreateSandbox(s) \/ Prefetch(s) \/ SandboxStep(s)
    \/ PoolStep
    \/ \E d \in Dirs : SweepDead(d)
    \/ \E v \in Versions : BackoffOver(v)

\* tokio runs every task that is ready.
Fairness ==
    /\ WF_vars(PutPools)
    /\ \A s \in Sandboxes : WF_vars(SandboxStep(s))
    /\ WF_vars(PoolStep)
    /\ WF_vars(\E d \in Dirs : SweepDead(d))
    /\ WF_vars(\E v \in Versions : BackoffOver(v))

Spec == Init /\ [][Next]_vars /\ Fairness

----------------------------------------------------------------------------
(* Properties. *)

\* What a create that was answered with success promises, whichever way it went
\* and whoever claimed, drained or failed meanwhile: one record bears its id, of
\* the capture that was asked for, and nobody can claim it (claim_from_pool's
\* "two concurrent creates can never grab the same pool VM").
CreatedIsThere ==
    \A s \in Sandboxes : proc[s].pc = "ok" =>
       /\ Cardinality(Known(s)) = 1
       /\ \A d \in Known(s) : /\ recs[d].sha = proc[s].want
                               /\ recs[d].state \in {"running", "error"}

\* The image in the cache is never a file that a download still writes, and once
\* a pull has published both files the sidecar never promises a newer capture
\* than the image is, whichever pulls, self-heals and collections crossed.
CacheSound ==
    /\ Torn \notin {cache["img"], cache["side"]}
    /\ \/ None \in {cache["img"], cache["side"]}
       \/ \E p \in Procs : proc[p].pc = "rename"
       \/ cache["img"] >= cache["side"]

\* Once the catalog is left alone the pool ends up with exactly the VMs its spec
\* asks for, of its capture, and stays so: stale ones are drained, failed prewarms
\* are retried, claims are made up for.
Filled == /\ \A d \in Pooled : specs = recs[d].sha
          /\ Cardinality(Pooled) = IF specs = None THEN 0 ELSE PoolSize
PoolSettles == <>[]Filled

\* A rootfs is never older than the capture its record names (ADR-0008: "a
\* re-captured template can never serve a stale pooled rootfs").
RootfsNotStale ==
    \A d \in Dirs : recs[d] # NoRec /\ dirs[d] \in Versions => dirs[d] >= recs[d].sha

\* A sandbox whose create succeeded and that nobody deletes has its directory
\* (Vm.dir_id: "a pool-claimed VM keeps the pool dir_id so the FC drive path
\* baked into snapshots remains valid").
ClaimedKeepsDir ==
    \A s \in Sandboxes : proc[s].pc = "ok" => \A d \in Known(s) : dirs[d] # None

=============================================================================
