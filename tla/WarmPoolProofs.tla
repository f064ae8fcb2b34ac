--------------------------- MODULE WarmPoolProofs ---------------------------
(***************************************************************************)
(* The image cache of a worker stays sound, and a create that succeeded    *)
(* has its record, for any number of creates, prefetches, captures and     *)
(* pooled VMs.                                                             *)
(*                                                                         *)
(* The cache: captures only grow, so a download that was verified against  *)
(* the catalog is at least as new as anything in the cache and as anything *)
(* a self-heal is about to write; and nobody but the holder of the image's *)
(* lock replaces a file (CInv).                                            *)
(*                                                                         *)
(* The records: a pooled VM is nobody's, a claim gives it one owner, and   *)
(* the pool loop builds and deletes under ids that are no sandbox's        *)
(* (KInv).                                                                 *)
(***************************************************************************)
EXTENDS WarmPool, FiniteSetTheorems, TLAPS

Fields == {"pc", "id", "want", "dir", "slow", "failed", "todo"}

\* Captures are numbered in order and the catalog has the last one.
CatalogOK ==
    /\ made \in 0 .. MaxVersion
    /\ catalog \in {None, made} /\ (catalog # None => made >= 1)

\* A published file is of a capture that was made.
CacheOK ==
    /\ cache \in [Entries -> Versions \cup {Torn, None}]
    /\ \A e \in {"img", "side"} : cache[e] \in (1 .. made) \cup {None}

\* Every process has its fields.
ProcOK == DOMAIN proc = Procs /\ \A p \in Procs : DOMAIN proc[p] = Fields

\* The critical sections of the image's lock.
Inside == {"decide", "hash", "heal", "pull", "fetch", "side", "rename"}
Pulling == {"pull", "fetch", "side", "rename"}
Collecting == {"gccheck", "gcunlink"}

Holder(p) ==
    /\ proc[p].slow => proc[p].pc \in Inside
    /\ proc[p].pc \in Pulling => proc[p].slow
    /\ proc[p].slow \/ proc[p].pc \in Collecting => ilock = p

\* A pull that is about to publish has a verified partial, as new as the cache.
Writer(p) ==
    proc[p].pc \in {"side", "rename"} =>
        /\ proc[p].want \in 1 .. made
        /\ cache["part"] = proc[p].want
        /\ cache["img"] # None => cache["img"] <= proc[p].want
        /\ cache["side"] # None => cache["side"] <= proc[p].want

\* A self-heal is about to write what the image was when it was hashed: no
\* newer than what the image is by now, or is going to be.
Healer(p) ==
    proc[p].pc = "heal" =>
        /\ proc[p].want \in 1 .. made
        /\ cache["img"] # None => proc[p].want <= cache["img"]
        /\ \A q \in Procs : proc[q].pc \in {"side", "rename"} => proc[p].want <= proc[q].want

Published ==
    \/ None \in {cache["img"], cache["side"]}
    \/ \E p \in Procs : proc[p].pc = "rename"
    \/ cache["side"] <= cache["img"]

\* The inductive invariant.
CInv == /\ CatalogOK /\ CacheOK /\ ProcOK
        /\ \A p \in Procs : Holder(p) /\ Writer(p) /\ Healer(p)
        /\ Published

----------------------------------------------------------------------------
(* One process moves. *)

\* A process outside of the lock, at a place where it neither writes nor heals.
Cool(pc) == pc \notin Pulling \cup Collecting \cup {"heal"}

\* A process that goes from one place outside of the lock to another, and leaves
\* cache and lock alone, disturbs nothing.
LEMMA Quiet ==
    ASSUME CInv, CatalogOK', ProcOK', made' = made, cache' = cache, ilock' = ilock,
           NEW p \in Procs, \A q \in Procs \ {p} : proc'[q] = proc[q],
           Cool(proc[p].pc), ~proc[p].slow, Cool(proc'[p].pc), ~proc'[p].slow
    PROVE  CInv'
<1>1. CacheOK'
  BY Zenon DEF CInv, CacheOK
<1>2. \A q \in Procs : Holder(q)'
  BY Zenon DEF CInv, Holder, Cool, Pulling, Collecting
<1>3. \A q \in Procs : Writer(q)'
  BY Zenon DEF CInv, Writer, Cool, Pulling
<1>4. \A q \in Procs : Healer(q)'
  BY Zenon DEF CInv, Healer, Cool, Pulling
<1>5. Published'
  BY Zenon DEF CInv, Published, Cool, Pulling
<1> QED BY <1>1, <1>2, <1>3, <1>4, <1>5 DEF CInv

\* So does a step that moves no process.
LEMMA Still ==
    ASSUME CInv, CatalogOK', made' = made, cache' = cache, ilock' = ilock, proc' = proc
    PROVE  CInv'
BY Zenon DEF CInv, CacheOK, ProcOK, Holder, Writer, Healer, Published

\* At most one process is inside.
LEMMA OneHolder ==
    ASSUME CInv, NEW p \in Procs, NEW q \in Procs,
           proc[p].pc \in Pulling \cup Collecting, proc[q].pc \in Pulling
    PROVE  p = q
BY Zenon DEF CInv, Holder

\* A change of place changes nothing else.
LEMMA GotoOK ==
    ASSUME ProcOK, NEW p \in Procs, NEW l, Goto(p, l)
    PROVE  /\ ProcOK' /\ \A q \in Procs \ {p} : proc'[q] = proc[q]
           /\ proc'[p].pc = l /\ proc'[p].slow = proc[p].slow /\ proc'[p].want = proc[p].want
BY Zenon DEF ProcOK, Goto, Fields

\* The processes at rest.
LEMMA IdleOK == DOMAIN Idle = Fields /\ DOMAIN Gone = Fields /\ Gone.pc = "gone" /\ ~Gone.slow
BY Zenon DEF Idle, Gone, Fields

\* What a failed create or prefetch leaves of its process.
LEMMA FailedOK ==
    ASSUME ProcOK, NEW p \in Procs, Failed(p)
    PROVE  /\ ProcOK' /\ \A q \in Procs \ {p} : proc'[q] = proc[q]
           /\ proc'[p].pc \in {"gone", "pid", "failed"} /\ ~proc'[p].slow
<1>1. CASE proc[p].id = None
  BY <1>1, IdleOK, Zenon DEF Failed, ProcOK
<1>2. CASE proc[p].id # None
  BY <1>2 DEF Failed, ProcOK, Fields
<1> QED BY <1>1, <1>2

\* What the end of ensure_image leaves of it.
LEMMA UseOK ==
    ASSUME ProcOK, NEW p \in Procs, Use(p)
    PROVE  /\ ProcOK' /\ \A q \in Procs \ {p} : proc'[q] = proc[q]
           /\ proc'[p].pc \in {"gone", "copy"} /\ ~proc'[p].slow /\ Unlock(p)
<1>1. CASE proc[p].id = None
  BY <1>1, IdleOK, Zenon DEF Use, ProcOK
<1>2. CASE proc[p].id # None
  <2>1. proc' = [proc EXCEPT ![p] = [proc[p] EXCEPT !.pc = "copy", !.slow = FALSE]]
    BY <1>2, Zenon DEF Use
  <2> QED BY <2>1, Zenon DEF Use, ProcOK, Fields
<1> QED BY <1>1, <1>2

\* A process that is given new contents.
LEMMA PutOK ==
    ASSUME ProcOK, NEW p \in Procs, NEW x, DOMAIN x = Fields, proc' = [proc EXCEPT ![p] = x]
    PROVE  ProcOK' /\ (\A q \in Procs \ {p} : proc'[q] = proc[q]) /\ proc'[p] = x
BY Zenon DEF ProcOK

----------------------------------------------------------------------------
(* The steps that leave cache and lock alone. *)

\* The process that moves is outside of ensure_image and of the collection, and
\* does not go into a section of the lock.
LEMMA Moved ==
    ASSUME CInv, UNCHANGED <<control, image>>, ProcOK',
           NEW p \in Procs, \A q \in Procs \ {p} : proc'[q] = proc[q],
           proc[p].pc \notin Inside \cup Collecting,
           Cool(proc'[p].pc), ~proc'[p].slow \/ proc'[p].slow = proc[p].slow
    PROVE  CInv'
<1>1. CatalogOK' /\ made' = made /\ cache' = cache /\ ilock' = ilock
  BY Zenon DEF CInv, CatalogOK, control, image
<1>2. ~proc[p].slow
  BY Zenon DEF CInv, Holder
<1>3. Cool(proc[p].pc)
  BY Zenon DEF Cool, Inside, Pulling
<1> QED BY <1>1, <1>2, <1>3, Quiet

\* A change of place, of that kind.
LEMMA Goes ==
    ASSUME CInv, UNCHANGED <<control, image>>, NEW p \in Procs, NEW l, Goto(p, l),
           proc[p].pc \notin Inside \cup Collecting, Cool(l)
    PROVE  CInv'
<1>1. ProcOK
  BY Zenon DEF CInv
<1> QED BY <1>1, GotoOK, Moved

\* New contents, of that kind.
LEMMA Given ==
    ASSUME CInv, UNCHANGED <<control, image>>, NEW p \in Procs, NEW x, DOMAIN x = Fields,
           proc' = [proc EXCEPT ![p] = x], ~x.slow \/ x.slow = proc[p].slow,
           proc[p].pc \notin Inside \cup Collecting, Cool(x.pc)
    PROVE  CInv'
<1>1. ProcOK
  BY Zenon DEF CInv
<1> QED BY <1>1, PutOK, Moved, Zenon

\* Requests begin, claim and save.
LEMMA RequestQuiet ==
    ASSUME CInv, NEW s \in Sandboxes,
           Prefetch(s) \/ CreateSandbox(s) \/ Claim(s) \/ Resume(s) \/ Save(s)
    PROVE  CInv'
<1> s \in Procs
  BY Zenon DEF Procs
<1>0. DOMAIN proc = Procs /\ DOMAIN proc[s] = Fields
  BY Zenon DEF CInv, ProcOK
<1>1. CASE Prefetch(s)
  <2> DEFINE x == [proc[s] EXCEPT !.pc = "decide", !.want = catalog]
  <2>1. proc[s].pc = "idle" /\ UNCHANGED <<control, image>> /\ proc' = [proc EXCEPT ![s] = x]
    BY <1>1, Zenon DEF Prefetch
  <2>2. DOMAIN x = Fields /\ x.pc = "decide" /\ x.slow = proc[s].slow
    BY <1>0, Zenon DEF Fields
  <2> HIDE DEF x
  <2> QED BY <2>1, <2>2, Given, Zenon DEF Cool, Inside, Pulling, Collecting
<1>2. CASE CreateSandbox(s)
  <2> DEFINE x == [proc[s] EXCEPT !.pc = "claim", !.id = s, !.want = catalog]
  <2>1. proc[s].pc = "idle" /\ UNCHANGED <<control, image>> /\ proc' = [proc EXCEPT ![s] = x]
    BY <1>2, Zenon DEF CreateSandbox
  <2>2. DOMAIN x = Fields /\ x.pc = "claim" /\ x.slow = proc[s].slow
    BY <1>0, Zenon DEF Fields
  <2> HIDE DEF x
  <2> QED BY <2>1, <2>2, Given, Zenon DEF Cool, Inside, Pulling, Collecting
<1>3. CASE Claim(s)
  <2>0. proc[s].pc = "claim" /\ UNCHANGED <<control, image>>
    BY <1>3, Zenon DEF Claim
  <2>1. CASE Goto(s, "push")
    BY <2>0, <2>1, Goes, Zenon DEF Cool, Inside, Pulling, Collecting
  <2>2. ASSUME NEW d, proc' = [proc EXCEPT ![s].pc = "resume", ![s].dir = d]
        PROVE  CInv'
    <3> DEFINE x == [proc[s] EXCEPT !.pc = "resume", !.dir = d]
    <3>1. proc' = [proc EXCEPT ![s] = x]
      BY <2>2, Zenon
    <3>2. DOMAIN x = Fields /\ x.pc = "resume" /\ x.slow = proc[s].slow
      BY <1>0, Zenon DEF Fields
    <3> HIDE DEF x
    <3> QED BY <2>0, <3>1, <3>2, Given, Zenon DEF Cool, Inside, Pulling, Collecting
  <2> QED BY <1>3, <2>1, <2>2, Zenon DEF Claim
<1>4. CASE Resume(s)
  <2>1. proc[s].pc = "resume" /\ UNCHANGED <<control, image>>
    BY <1>4, Zenon DEF Resume
  <2>2. PICK l \in {"save", "push"} : Goto(s, l)
    BY <1>4, Zenon DEF Resume
  <2> QED BY <2>1, <2>2, Goes DEF Cool, Inside, Pulling, Collecting
<1>5. CASE Save(s)
  <2>1. proc[s].pc = "save" /\ UNCHANGED <<control, image>>
    BY <1>5, Zenon DEF Save
  <2>2. PICK l \in {"ok", "failed"} : Goto(s, l)
    BY <1>5, Zenon DEF Save
  <2> QED BY <2>1, <2>2, Goes DEF Cool, Inside, Pulling, Collecting
<1> QED BY <1>1, <1>2, <1>3, <1>4, <1>5

\* Records, directories and Firecrackers are made and removed.
LEMMA VmQuiet ==
    ASSUME CInv, NEW p \in Procs, Push(p) \/ Boot(p) \/ StopPid(p) \/ Stop(p) \/ Remove(p)
    PROVE  CInv'
<1>0. ProcOK /\ DOMAIN proc = Procs /\ DOMAIN proc[p] = Fields
  BY Zenon DEF CInv, ProcOK
<1>1. CASE Push(p)
  <2>1. proc[p].pc = "push" /\ UNCHANGED <<control, image>> /\ Goto(p, "decide")
    BY <1>1, Zenon DEF Push
  <2> QED BY <2>1, Goes DEF Cool, Inside, Pulling, Collecting
<1>2. CASE Boot(p)
  <2>0. proc[p].pc = "copy" /\ UNCHANGED <<control, image>>
    BY <1>2, Zenon DEF Boot
  <2>1. CASE Failed(p)
    <3>1. /\ ProcOK' /\ \A q \in Procs \ {p} : proc'[q] = proc[q]
          /\ proc'[p].pc \in {"gone", "pid", "failed"} /\ ~proc'[p].slow
      BY <1>0, <2>1, FailedOK, Zenon
    <3>2. Cool(proc'[p].pc) /\ proc[p].pc \notin Inside \cup Collecting
      BY <2>0, <3>1, Zenon DEF Cool, Inside, Pulling, Collecting
    <3> QED BY <2>0, <3>1, <3>2, Moved
  <2>2. CASE \E l \in {"top", "ok"} : Goto(p, l)
    BY <2>0, <2>2, Goes, Zenon DEF Cool, Inside, Pulling, Collecting
  <2> QED BY <1>2, <2>1, <2>2 DEF Boot
<1>3. CASE StopPid(p)
  <2>0. proc[p].pc = "pid" /\ UNCHANGED <<control, image>>
    BY <1>3, Zenon DEF StopPid
  <2>1. PICK d : proc' = [proc EXCEPT ![p].pc = "stop", ![p].dir = d]
    BY <1>3, Zenon DEF StopPid
  <2> DEFINE x == [proc[p] EXCEPT !.pc = "stop", !.dir = d]
  <2>2. proc' = [proc EXCEPT ![p] = x]
    BY <2>1, Zenon
  <2>3. DOMAIN x = Fields /\ x.pc = "stop" /\ x.slow = proc[p].slow
    BY <1>0, Zenon DEF Fields
  <2> HIDE DEF x
  <2> QED BY <2>0, <2>2, <2>3, Given, Zenon DEF Cool, Inside, Pulling, Collecting
<1>4. CASE Stop(p)
  <2>1. proc[p].pc = "stop" /\ UNCHANGED <<control, image>> /\ Goto(p, "remove")
    BY <1>4, Zenon DEF Stop
  <2> QED BY <2>1, Goes DEF Cool, Inside, Pulling, Collecting
<1>5. CASE Remove(p)
  <2>0. proc[p].pc = "remove" /\ UNCHANGED <<control, image>>
    BY <1>5, Zenon DEF Remove
  <2>1. CASE p # "pool"
    <3>1. proc' = [proc EXCEPT ![p] = Gone]
      BY <1>5, <2>1, Zenon DEF Remove
    <3> QED BY <2>0, <3>1, IdleOK, Given, Zenon DEF Cool, Inside, Pulling, Collecting
  <2>2. CASE p = "pool"
    <3> DEFINE l == IF proc[p].failed THEN "tidy" ELSE "drain"
               x == [proc[p] EXCEPT !.pc = l, !.failed = FALSE, !.dir = None, !.id = None]
    <3>1. proc' = [proc EXCEPT ![p] = x]
      BY <1>5, <2>2, Zenon DEF Remove
    <3>2. l \in {"tidy", "drain"}
      BY Zenon
    <3> HIDE DEF l
    <3>3. DOMAIN x = Fields /\ x.pc = l /\ x.slow = proc[p].slow
      BY <1>0, Zenon DEF Fields
    <3> HIDE DEF x
    <3> QED BY <2>0, <3>1, <3>2, <3>3, Given, Zenon DEF Cool, Inside, Pulling, Collecting
  <2> QED BY <2>1, <2>2
<1> QED BY <1>1, <1>2, <1>3, <1>4, <1>5

\* The rounds of the pool loop.
LEMMA PoolQuiet ==
    ASSUME CInv, Refill \/ Drain \/ TopUp \/ Tidy
    PROVE  CInv'
<1> "pool" \in Procs
  BY Zenon DEF Procs
<1>0. DOMAIN proc = Procs /\ DOMAIN proc["pool"] = Fields
  BY Zenon DEF CInv, ProcOK
<1>1. CASE Refill
  <2>0. proc["pool"].pc = "rest" /\ UNCHANGED <<control, image>>
    BY <1>1, Zenon DEF Refill
  <2>1. PICK t : proc' = [proc EXCEPT !["pool"] = [Idle EXCEPT !.pc = "drain", !.todo = t,
                                                               !.want = specs]]
    BY <1>1, Zenon DEF Refill
  <2> DEFINE x == [Idle EXCEPT !.pc = "drain", !.todo = t, !.want = specs]
  <2>2. DOMAIN x = Fields /\ x.pc = "drain" /\ ~x.slow
    BY Zenon DEF Idle, Fields
  <2>3. proc' = [proc EXCEPT !["pool"] = x]
    BY <2>1, Zenon
  <2> HIDE DEF x
  <2> QED BY <2>0, <2>2, <2>3, Given, Zenon DEF Cool, Inside, Pulling, Collecting
<1>2. CASE Drain
  <2>0. proc["pool"].pc = "drain" /\ UNCHANGED <<control, image>>
    BY <1>2, Zenon DEF Drain
  <2>1. CASE Goto("pool", "top")
    BY <2>0, <2>1, Goes, Zenon DEF Cool, Inside, Pulling, Collecting
  <2>2. ASSUME NEW d, proc' = [proc EXCEPT !["pool"].pc = "pid", !["pool"].id = d,
                                           !["pool"].todo = @ \ {d}]
        PROVE  CInv'
    <3> DEFINE x == [proc["pool"] EXCEPT !.pc = "pid", !.id = d, !.todo = @ \ {d}]
    <3>1. proc' = [proc EXCEPT !["pool"] = x]
      BY <2>2, Zenon
    <3>2. DOMAIN x = Fields /\ x.pc = "pid" /\ x.slow = proc["pool"].slow
      BY <1>0, Zenon DEF Fields
    <3> HIDE DEF x
    <3> QED BY <2>0, <3>1, <3>2, Given, Zenon DEF Cool, Inside, Pulling, Collecting
  <2> QED BY <1>2, <2>1, <2>2, Zenon DEF Drain
<1>3. CASE TopUp
  <2>0. proc["pool"].pc = "top" /\ UNCHANGED <<control, image>>
    BY <1>3, Zenon DEF TopUp
  <2>1. CASE Goto("pool", "tidy")
    BY <2>0, <2>1, Goes, Zenon DEF Cool, Inside, Pulling, Collecting
  <2>2. ASSUME NEW d, proc' = [proc EXCEPT !["pool"].pc = "push", !["pool"].id = d]
        PROVE  CInv'
    <3> DEFINE x == [proc["pool"] EXCEPT !.pc = "push", !.id = d]
    <3>1. proc' = [proc EXCEPT !["pool"] = x]
      BY <2>2, Zenon
    <3>2. DOMAIN x = Fields /\ x.pc = "push" /\ x.slow = proc["pool"].slow
      BY <1>0, Zenon DEF Fields
    <3> HIDE DEF x
    <3> QED BY <2>0, <3>1, <3>2, Given, Zenon DEF Cool, Inside, Pulling, Collecting
  <2> QED BY <1>3, <2>1, <2>2 DEF TopUp
<1>4. CASE Tidy
  <2>0. proc["pool"].pc = "tidy" /\ UNCHANGED <<control, image>>
    BY <1>4, Zenon DEF Tidy
  <2>1. CASE proc' = [proc EXCEPT !["pool"] = [Idle EXCEPT !.pc = "rest"]]
    <3> DEFINE x == [Idle EXCEPT !.pc = "rest"]
    <3>1. DOMAIN x = Fields /\ x.pc = "rest" /\ ~x.slow
      BY Zenon DEF Idle, Fields
    <3>2. proc' = [proc EXCEPT !["pool"] = x]
      BY <2>1, Zenon
    <3> HIDE DEF x
    <3> QED BY <2>0, <3>1, <3>2, Given, Zenon DEF Cool, Inside, Pulling, Collecting
  <2>2. ASSUME NEW e, proc' = [proc EXCEPT !["pool"] = [Idle EXCEPT !.pc = "gclock", !.id = e]]
        PROVE  CInv'
    <3> DEFINE x == [Idle EXCEPT !.pc = "gclock", !.id = e]
    <3>1. DOMAIN x = Fields /\ x.pc = "gclock" /\ ~x.slow
      BY Zenon DEF Idle, Fields
    <3>2. proc' = [proc EXCEPT !["pool"] = x]
      BY <2>2, Zenon
    <3> HIDE DEF x
    <3> QED BY <2>0, <3>1, <3>2, Given, Zenon DEF Cool, Inside, Pulling, Collecting
  <2> QED BY <1>4, <2>1, <2>2, Zenon DEF Tidy
<1> QED BY <1>1, <1>2, <1>3, <1>4

\* The catalog, the specs, exits and time.
LEMMA WorldQuiet ==
    ASSUME CInv, \/ CreateTemplate \/ DeleteTemplate \/ PutPools
                 \/ \E d \in Dirs : SweepDead(d)
                 \/ \E v \in Versions : BackoffOver(v)
    PROVE  CInv'
<1>1. CASE PutPools \/ (\E d \in Dirs : SweepDead(d)) \/ (\E v \in Versions : BackoffOver(v))
  BY <1>1, Still, Zenon DEF PutPools, SweepDead, BackoffOver, control, image, CInv, CatalogOK
<1>2. CASE DeleteTemplate
  BY <1>2, Still, Zenon DEF DeleteTemplate, image, CInv, CatalogOK
<1>3. CASE CreateTemplate
  <2>1. /\ made' = made + 1 /\ made < MaxVersion /\ catalog' = made'
        /\ cache' = cache /\ ilock' = ilock /\ proc' = proc
    BY <1>3, Zenon DEF CreateTemplate, image
  <2>2. CatalogOK' /\ CacheOK'
    BY <2>1, PoolAssumption DEF CInv, CatalogOK, CacheOK
  <2>3. ProcOK' /\ Published'
    BY <2>1, Zenon DEF CInv, ProcOK, Published
  <2>4. \A p \in Procs : Holder(p)'
    BY <2>1, Zenon DEF CInv, Holder
  <2>5. \A p \in Procs : Writer(p)'
    BY <2>1 DEF CInv, CatalogOK, Writer
  <2>6. \A p \in Procs : Healer(p)'
    BY <2>1 DEF CInv, CatalogOK, Healer
  <2> QED BY <2>2, <2>3, <2>4, <2>5, <2>6 DEF CInv
<1> QED BY <1>1, <1>2, <1>3

----------------------------------------------------------------------------
(* ensure_image, pull_image and gc_images. *)

\* A process that gives up or goes on, and drops the lock if it has it, may leave
\* any partial behind that is its own.
LEMMA Leaves ==
    ASSUME CInv, CatalogOK', CacheOK', ProcOK', made' = made,
           NEW p \in Procs, \A q \in Procs \ {p} : proc'[q] = proc[q],
           cache'["img"] = cache["img"], cache'["side"] = cache["side"],
           cache'["part"] = cache["part"] \/ proc[p].pc \in Pulling,
           proc[p].pc # "rename", Unlock(p), Cool(proc'[p].pc), ~proc'[p].slow
    PROVE  CInv'
<1>1. \A q \in Procs : Holder(q)'
  BY Zenon DEF CInv, Holder, Unlock, Cool, Pulling, Collecting
<1>2. \A q \in Procs : Writer(q)'
  BY OneHolder, Zenon DEF CInv, Writer, Cool, Pulling
<1>3. \A q \in Procs : Healer(q)'
  BY Zenon DEF CInv, Healer, Cool, Pulling
<1>4. Published'
  BY Zenon DEF CInv, Published, Cool, Pulling
<1> QED BY <1>1, <1>2, <1>3, <1>4 DEF CInv

\* A look at the files, with or without the lock.
LEMMA DecideSound == ASSUME CInv, NEW p \in Procs, Decide(p) PROVE CInv'
<1>1. /\ proc[p].pc = "decide" /\ cache' = cache /\ made' = made /\ CatalogOK' /\ CacheOK'
      /\ ProcOK
  BY Zenon DEF Decide, control, CInv, CatalogOK, CacheOK
<1>2. CASE Use(p)
  BY <1>1, <1>2, UseOK, Leaves, Zenon DEF Cool, Pulling, Collecting
<1>3. ASSUME NEW l \in {"pull", "lock", "hash"}, Goto(p, l), ilock' = ilock,
             l = "pull" => proc[p].slow, l = "lock" => ~proc[p].slow
      PROVE  CInv'
  <2>1. /\ ProcOK' /\ \A q \in Procs \ {p} : proc'[q] = proc[q]
        /\ proc'[p].pc = l /\ proc'[p].slow = proc[p].slow
    BY <1>1, <1>3, GotoOK, Zenon
  <2>2. \A q \in Procs : Holder(q)'
    BY <1>1, <1>3, <2>1, Zenon DEF CInv, Holder, Inside, Pulling, Collecting
  <2>3. \A q \in Procs : Writer(q)' /\ Healer(q)'
    BY <1>1, <1>3, <2>1, Zenon DEF CInv, Writer, Healer
  <2>4. Published'
    BY <1>1, <1>3, <2>1, Zenon DEF CInv, Published
  <2> QED BY <1>1, <2>1, <2>2, <2>3, <2>4 DEF CInv
<1> QED BY <1>2, <1>3 DEF Decide, Pull

\* A file that was hashed is published under what it is.
LEMMA HashSound == ASSUME CInv, NEW p \in Procs, Hash(p) PROVE CInv'
<1>1. /\ proc[p].pc = "hash" /\ cache' = cache /\ made' = made /\ CatalogOK' /\ CacheOK'
      /\ ProcOK
  BY Zenon DEF Hash, control, CInv, CatalogOK, CacheOK
<1>2. CASE Failed(p) /\ Unlock(p)
  BY <1>1, <1>2, FailedOK, Leaves, Zenon DEF Cool, Pulling, Collecting
<1>3. ASSUME NEW l \in {"pull", "lock", "heal"}, Goto(p, l), ilock' = ilock,
             l = "pull" => proc[p].slow, l = "lock" => ~proc[p].slow,
             l = "heal" => cache["img"] # None /\ cache["img"] = proc[p].want
      PROVE  CInv'
  <2>1. /\ ProcOK' /\ \A q \in Procs \ {p} : proc'[q] = proc[q]
        /\ proc'[p].pc = l /\ proc'[p].slow = proc[p].slow /\ proc'[p].want = proc[p].want
    BY <1>1, <1>3, GotoOK, Zenon
  <2>2. \A q \in Procs : Holder(q)'
    BY <1>1, <1>3, <2>1, Zenon DEF CInv, Holder, Inside, Pulling, Collecting
  <2>3. \A q \in Procs : Writer(q)'
    BY <1>1, <1>3, <2>1, Zenon DEF CInv, Writer
  <2>4. \A q \in Procs : Healer(q)'
    <3>1. \A q \in Procs \ {p} : Healer(q)'
      BY <1>1, <1>3, <2>1, Zenon DEF CInv, Healer
    <3>2. l = "heal" => proc[p].want \in 1 .. made
      BY <1>3, Zenon DEF CInv, CacheOK
    <3>3. Healer(p)'
      BY <1>1, <1>3, <2>1, <3>2 DEF CInv, Healer, Writer, CatalogOK
    <3> QED BY <3>1, <3>3
  <2>5. Published'
    BY <1>1, <1>3, <2>1, Zenon DEF CInv, Published
  <2> QED BY <1>1, <2>1, <2>2, <2>3, <2>4, <2>5 DEF CInv
<1> QED BY <1>2, <1>3 DEF Hash, Pull

\* What a self-heal writes is no newer than the image, nor than what a pull that
\* holds the lock meanwhile is going to put there.
LEMMA HealSound == ASSUME CInv, NEW p \in Procs, Heal(p) PROVE CInv'
<1>1. /\ proc[p].pc = "heal" /\ made' = made /\ CatalogOK' /\ ProcOK
      /\ cache' = [cache EXCEPT !["side"] = proc[p].want]
  BY Zenon DEF Heal, control, CInv, CatalogOK
<1>2. /\ ProcOK' /\ \A q \in Procs \ {p} : proc'[q] = proc[q]
      /\ proc'[p].pc \in {"gone", "copy"} /\ ~proc'[p].slow /\ Unlock(p)
  BY <1>1, UseOK, Zenon DEF Heal
<1>3. /\ cache'["img"] = cache["img"] /\ cache'["part"] = cache["part"]
      /\ cache'["side"] = proc[p].want
      /\ proc[p].want \in 1 .. made
  BY <1>1, Zenon DEF CInv, CacheOK, Entries, Healer
<1>4. CacheOK'
  <2>1. proc[p].want \in Versions
    BY <1>3, PoolAssumption DEF CInv, CatalogOK, Versions
  <2>2. cache' \in [Entries -> Versions \cup {Torn, None}]
    BY <1>1, <2>1, Zenon DEF CInv, CacheOK, Entries
  <2> QED BY <1>1, <1>3, <2>2 DEF CInv, CacheOK
<1>5. \A q \in Procs : Holder(q)'
  BY <1>1, <1>2, Zenon DEF CInv, Holder, Unlock, Pulling, Collecting
<1>6. \A q \in Procs : Writer(q)'
  BY <1>1, <1>2, <1>3, Zenon DEF CInv, Writer, Healer
<1>7. \A q \in Procs : Healer(q)'
  BY <1>1, <1>2, <1>3, Zenon DEF CInv, Healer
<1>8. Published'
  BY <1>1, <1>2, <1>3, Zenon DEF CInv, Published, Healer
<1> QED BY <1>1, <1>2, <1>4, <1>5, <1>6, <1>7, <1>8 DEF CInv

\* The lock is free when it is taken.
LEMMA LockSound == ASSUME CInv, NEW p \in Procs, Lock(p) PROVE CInv'
<1>1. /\ proc[p].pc = "lock" /\ ilock = None /\ ilock' = p /\ cache' = cache /\ made' = made
      /\ CatalogOK' /\ CacheOK'
      /\ proc' = [proc EXCEPT ![p].pc = "decide", ![p].slow = TRUE]
  BY Zenon DEF Lock, control, CInv, CatalogOK, CacheOK
<1>2. /\ ProcOK' /\ \A q \in Procs \ {p} : proc'[q] = proc[q]
      /\ proc'[p].pc = "decide" /\ proc'[p].slow = TRUE
  BY <1>1, Zenon DEF CInv, ProcOK, Fields
<1>3. None \notin Procs
  BY PoolAssumption, Zenon DEF Procs
<1>4. \A q \in Procs : Holder(q)'
  BY <1>1, <1>2, <1>3, Zenon DEF CInv, Holder, Inside, Pulling, Collecting
<1>5. \A q \in Procs : Writer(q)'
  BY <1>1, <1>2, Zenon DEF CInv, Writer
<1>6. \A q \in Procs : Healer(q)'
  BY <1>1, <1>2, Zenon DEF CInv, Healer
<1>7. Published'
  BY <1>1, <1>2, Zenon DEF CInv, Published
<1> QED BY <1>1, <1>2, <1>4, <1>5, <1>6, <1>7 DEF CInv

\* The partial is the holder's to write.
LEMMA DownloadSound == ASSUME CInv, NEW p \in Procs, Download(p) PROVE CInv'
<1>1. /\ proc[p].pc = "pull" /\ cache' = [cache EXCEPT !["part"] = Torn] /\ made' = made
      /\ ilock' = ilock /\ CatalogOK' /\ Goto(p, "fetch") /\ ProcOK
  BY Zenon DEF Download, control, CInv, CatalogOK
<1>2. /\ ProcOK' /\ \A q \in Procs \ {p} : proc'[q] = proc[q]
      /\ proc'[p].pc = "fetch" /\ proc'[p].slow = proc[p].slow
  BY <1>1, GotoOK, Zenon
<1>3. cache'["img"] = cache["img"] /\ cache'["side"] = cache["side"] /\ CacheOK'
  BY <1>1, Zenon DEF CInv, CacheOK, Entries
<1>4. \A q \in Procs : Holder(q)'
  BY <1>1, <1>2, Zenon DEF CInv, Holder, Inside, Pulling, Collecting
<1>5. \A q \in Procs : Writer(q)'
  <2>1. \A q \in Procs : proc'[q].pc \notin {"side", "rename"}
    BY <1>1, <1>2, OneHolder, Zenon DEF Pulling
  <2> QED BY <2>1 DEF Writer
<1>6. \A q \in Procs : Healer(q)'
  BY <1>1, <1>2, <1>3, Zenon DEF CInv, Healer
<1>7. Published'
  BY <1>1, <1>2, <1>3, Zenon DEF CInv, Published
<1> QED BY <1>1, <1>2, <1>3, <1>4, <1>5, <1>6, <1>7 DEF CInv

\* A partial that was verified is the newest capture there is at that moment.
LEMMA FetchSound == ASSUME CInv, NEW p \in Procs, Fetch(p) PROVE CInv'
<1>1. proc[p].pc = "fetch" /\ made' = made /\ catalog' = catalog /\ CatalogOK' /\ ProcOK
  BY Zenon DEF Fetch, control, CInv, CatalogOK
<1>2. CASE /\ catalog # None /\ catalog = proc[p].want
           /\ cache' = [cache EXCEPT !["part"] = catalog] /\ Goto(p, "side") /\ ilock' = ilock
  <2>1. /\ ProcOK' /\ \A q \in Procs \ {p} : proc'[q] = proc[q]
        /\ proc'[p].pc = "side" /\ proc'[p].slow = proc[p].slow /\ proc'[p].want = proc[p].want
    BY <1>1, <1>2, GotoOK, Zenon
  <2>2. made \in 1 .. MaxVersion /\ proc[p].want = made
    BY <1>2 DEF CInv, CatalogOK
  <2>3. /\ cache'["img"] = cache["img"] /\ cache'["side"] = cache["side"]
        /\ cache'["part"] = made /\ CacheOK'
    BY <1>1, <1>2, <2>2, Zenon DEF CInv, CacheOK, Entries, Versions
  <2>4. \A q \in Procs : Holder(q)'
    BY <1>1, <1>2, <2>1, Zenon DEF CInv, Holder, Inside, Pulling, Collecting
  <2>5. \A q \in Procs \ {p} : proc'[q].pc \notin {"side", "rename"}
    BY <1>1, <2>1, OneHolder, Zenon DEF Pulling
  <2>6. Writer(p)'
    BY <1>1, <2>1, <2>2, <2>3 DEF CInv, CacheOK, Writer
  <2>7. \A q \in Procs : Writer(q)'
    BY <2>5, <2>6, Zenon DEF Writer
  <2>8. \A q \in Procs : Healer(q)'
    BY <1>1, <2>1, <2>2, <2>3, <2>5 DEF CInv, Healer
  <2>9. Published'
    BY <1>1, <2>1, <2>3, Zenon DEF CInv, Published
  <2> QED BY <1>1, <2>1, <2>3, <2>4, <2>7, <2>8, <2>9 DEF CInv
<1>3. CASE /\ cache' = [cache EXCEPT !["part"] = None] \/ cache' = cache
           /\ Failed(p) /\ Unlock(p)
  <2>1. cache'["img"] = cache["img"] /\ cache'["side"] = cache["side"] /\ CacheOK'
    BY <1>1, <1>3, Zenon DEF CInv, CacheOK, Entries
  <2> QED BY <1>1, <1>3, <2>1, FailedOK, Leaves DEF Cool, Pulling, Collecting
<1> QED BY <1>2, <1>3 DEF Fetch

\* The sidecar runs ahead of the image until the rename,
LEMMA PutSidecarSound == ASSUME CInv, NEW p \in Procs, PutSidecar(p) PROVE CInv'
<1>1. /\ proc[p].pc = "side" /\ cache' = [cache EXCEPT !["side"] = proc[p].want] /\ made' = made
      /\ ilock' = ilock /\ CatalogOK' /\ Goto(p, "rename") /\ ProcOK
  BY Zenon DEF PutSidecar, control, CInv, CatalogOK
<1>2. /\ ProcOK' /\ \A q \in Procs \ {p} : proc'[q] = proc[q]
      /\ proc'[p].pc = "rename" /\ proc'[p].slow = proc[p].slow /\ proc'[p].want = proc[p].want
  BY <1>1, GotoOK, Zenon
<1>3. /\ cache'["img"] = cache["img"] /\ cache'["part"] = cache["part"]
      /\ cache'["side"] = proc[p].want /\ proc[p].want \in 1 .. made
  BY <1>1, Zenon DEF CInv, CacheOK, Entries, Writer
<1>4. CacheOK'
  <2>1. proc[p].want \in Versions
    BY <1>3, PoolAssumption DEF CInv, CatalogOK, Versions
  <2>2. cache' \in [Entries -> Versions \cup {Torn, None}]
    BY <1>1, <2>1, Zenon DEF CInv, CacheOK, Entries
  <2> QED BY <1>1, <1>3, <2>2 DEF CInv, CacheOK
<1>5. \A q \in Procs : Holder(q)'
  BY <1>1, <1>2, Zenon DEF CInv, Holder, Inside, Pulling, Collecting
<1>6. \A q \in Procs \ {p} : proc'[q].pc \notin {"side", "rename"}
  BY <1>1, <1>2, OneHolder, Zenon DEF Pulling
<1>7. Writer(p)'
  BY <1>1, <1>2, <1>3 DEF CInv, Writer
<1>8. \A q \in Procs : Writer(q)'
  BY <1>6, <1>7, Zenon DEF Writer
<1>9. \A q \in Procs : Healer(q)'
  BY <1>1, <1>2, <1>3, <1>6, Zenon DEF CInv, Healer
<1>10. Published'
  BY <1>2, Zenon DEF Published
<1> QED BY <1>1, <1>2, <1>4, <1>5, <1>8, <1>9, <1>10 DEF CInv

\* which puts the image under it.
LEMMA RenameSound == ASSUME CInv, NEW p \in Procs, Rename(p) PROVE CInv'
<1>1. /\ proc[p].pc = "rename" /\ made' = made /\ CatalogOK' /\ ProcOK
      /\ cache' = [cache EXCEPT !["img"] = cache["part"], !["part"] = None]
  BY Zenon DEF Rename, control, CInv, CatalogOK
<1>2. /\ ProcOK' /\ \A q \in Procs \ {p} : proc'[q] = proc[q]
      /\ proc'[p].pc \in {"gone", "copy"} /\ ~proc'[p].slow /\ Unlock(p)
  BY <1>1, UseOK, Zenon DEF Rename
<1>3. /\ cache'["img"] = proc[p].want /\ cache'["side"] = cache["side"]
      /\ proc[p].want \in 1 .. made
  BY <1>1, Zenon DEF CInv, CacheOK, Entries, Writer
<1>4. CacheOK'
  <2>1. proc[p].want \in Versions
    BY <1>3, PoolAssumption DEF CInv, CatalogOK, Versions
  <2>2. cache' \in [Entries -> Versions \cup {Torn, None}]
    BY <1>1, <2>1, Zenon DEF CInv, CacheOK, Entries
  <2> QED BY <1>1, <1>3, <2>2 DEF CInv, CacheOK
<1>5. \A q \in Procs : Holder(q)'
  BY <1>1, <1>2, Zenon DEF CInv, Holder, Unlock, Pulling, Collecting
<1>6. \A q \in Procs : proc'[q].pc \notin {"side", "rename"}
  BY <1>1, <1>2, OneHolder, Zenon DEF Pulling
<1>7. \A q \in Procs : Writer(q)'
  BY <1>6, Zenon DEF Writer
<1>8. \A q \in Procs : Healer(q)'
  BY <1>1, <1>2, <1>3, <1>6, Zenon DEF CInv, Healer
<1>9. Published'
  BY <1>1, <1>3, Zenon DEF CInv, Published, Writer
<1> QED BY <1>1, <1>2, <1>4, <1>5, <1>7, <1>8, <1>9 DEF CInv

\* The collection takes the lock and removes no partial of a pull.
LEMMA GcSound == ASSUME CInv, GcLock \/ GcCheck \/ GcUnlink PROVE CInv'
<1> "pool" \in Procs
  BY Zenon DEF Procs
<1> None \notin Procs
  BY PoolAssumption, Zenon DEF Procs
<1>1. ProcOK /\ CatalogOK' /\ made' = made
  BY Zenon DEF GcLock, GcCheck, GcUnlink, control, CInv, CatalogOK
<1>2. DOMAIN [Idle EXCEPT !.pc = "rest"] = Fields /\ [Idle EXCEPT !.pc = "rest"].pc = "rest"
      /\ ~[Idle EXCEPT !.pc = "rest"].slow
  BY Zenon DEF Idle, Fields
<1>3. ASSUME proc' = [proc EXCEPT !["pool"] = [Idle EXCEPT !.pc = "rest"]]
      PROVE  /\ ProcOK' /\ \A q \in Procs \ {"pool"} : proc'[q] = proc[q]
             /\ proc'["pool"].pc = "rest" /\ ~proc'["pool"].slow
  BY <1>1, <1>2, <1>3, Zenon DEF ProcOK
<1>4. ASSUME NEW l \in {"gccheck", "gcunlink"}, Goto("pool", l), ilock' = "pool", cache' = cache,
             ilock \in {None, "pool"}, proc["pool"].pc \in {"gclock", "gccheck"}
      PROVE  CInv'
  <2>1. /\ ProcOK' /\ \A q \in Procs \ {"pool"} : proc'[q] = proc[q]
        /\ proc'["pool"].pc = l /\ proc'["pool"].slow = proc["pool"].slow
    BY <1>1, <1>4, GotoOK, Zenon
  <2>2. \A q \in Procs : Holder(q)'
    BY <1>4, <2>1, Zenon DEF CInv, Holder, Inside, Pulling, Collecting
  <2>3. \A q \in Procs : Writer(q)'
    BY <1>1, <1>4, <2>1, Zenon DEF CInv, Writer
  <2>4. \A q \in Procs : Healer(q)'
    BY <1>1, <1>4, <2>1, Zenon DEF CInv, Healer
  <2>5. Published' /\ CacheOK'
    BY <1>1, <1>4, <2>1, Zenon DEF CInv, Published, CacheOK
  <2> QED BY <1>1, <2>1, <2>2, <2>3, <2>4, <2>5 DEF CInv
<1>5. CASE GcLock
  BY <1>4, <1>5, Zenon DEF GcLock
<1>6. CASE GcCheck
  <2>1. proc["pool"].pc = "gccheck" /\ cache' = cache /\ ilock = "pool"
    BY <1>6, Zenon DEF GcCheck, CInv, Holder, Collecting
  <2>2. CASE Referenced
    <3>1. Unlock("pool") /\ proc' = [proc EXCEPT !["pool"] = [Idle EXCEPT !.pc = "rest"]]
      BY <1>6, <2>2, Zenon DEF GcCheck
    <3>2. CacheOK'
      BY <1>1, <2>1, Zenon DEF CInv, CacheOK
    <3> QED BY <1>1, <1>3, <2>1, <3>1, <3>2, Leaves DEF Cool, Pulling, Collecting
  <2>3. CASE ~Referenced
    BY <1>4, <1>6, <2>1, <2>3, Zenon DEF GcCheck
  <2> QED BY <2>2, <2>3
<1>7. CASE GcUnlink
  <2>1. /\ proc["pool"].pc = "gcunlink" /\ Unlock("pool")
        /\ cache' = [cache EXCEPT ![proc["pool"].id] = None]
        /\ proc' = [proc EXCEPT !["pool"] = [Idle EXCEPT !.pc = "rest"]]
    BY <1>7, Zenon DEF GcUnlink
  <2>2. \A e \in Entries : cache'[e] \in {cache[e], None}
    BY <2>1, Zenon DEF CInv, CacheOK
  <2>3. CacheOK'
    BY <1>1, <2>1, Zenon DEF CInv, CacheOK, Entries
  <2>4. \A q \in Procs : Holder(q)'
    BY <1>3, <2>1, Zenon DEF CInv, Holder, Unlock, Pulling, Collecting
  <2>5. \A q \in Procs : proc'[q].pc \notin {"side", "rename"} /\ proc[q].pc \notin {"side", "rename"}
    BY <1>3, <2>1, OneHolder, Zenon DEF Pulling, Collecting
  <2>6. \A q \in Procs : Writer(q)'
    BY <2>5, Zenon DEF Writer
  <2>7. \A q \in Procs : Healer(q)'
    BY <1>1, <1>3, <2>1, <2>2, <2>5, Zenon DEF CInv, Healer, Entries
  <2>8. Published'
    BY <2>2, <2>5, Zenon DEF CInv, Published, Entries
  <2> QED BY <1>1, <1>3, <2>1, <2>3, <2>4, <2>6, <2>7, <2>8 DEF CInv
<1> QED BY <1>5, <1>6, <1>7

----------------------------------------------------------------------------
\* The empty cache of a new worker.
LEMMA InitSound == Init => CInv
<1> SUFFICES ASSUME Init PROVE CInv
  BY Zenon
<1>1. CatalogOK /\ CacheOK
  BY PoolAssumption DEF Init, CatalogOK, CacheOK, Entries
<1>2. \A p \in Procs : DOMAIN proc[p] = Fields /\ proc[p].pc \in {"idle", "rest"} /\ ~proc[p].slow
  BY Zenon DEF Init, Idle, Fields
<1>3. ProcOK
  BY <1>2, Zenon DEF Init, ProcOK
<1>4. \A p \in Procs : Holder(p) /\ Writer(p) /\ Healer(p)
  BY <1>2, Zenon DEF Holder, Writer, Healer, Pulling, Collecting
<1>5. Published
  BY Zenon DEF Init, Published, Entries
<1> QED BY <1>1, <1>3, <1>4, <1>5 DEF CInv

\* Every step keeps it.
LEMMA StepSound == CInv /\ [Next]_vars => CInv'
<1> SUFFICES ASSUME CInv, [Next]_vars PROVE CInv'
  BY Zenon
<1> "pool" \in Procs /\ Sandboxes \subseteq Procs
  BY Zenon DEF Procs
<1>1. ASSUME NEW p \in Procs, Create(p) PROVE CInv'
  BY Zenon, <1>1, VmQuiet, DecideSound, HashSound, HealSound, LockSound, DownloadSound, FetchSound,
     PutSidecarSound, RenameSound DEF Create, Ensure
<1>2. CASE PoolStep
  BY <1>1, <1>2, VmQuiet, PoolQuiet, GcSound, Zenon DEF PoolStep, Delete
<1>3. ASSUME NEW s \in Sandboxes, CreateSandbox(s) \/ Prefetch(s) \/ SandboxStep(s) PROVE CInv'
  BY <1>1, <1>3, RequestQuiet, Zenon DEF SandboxStep
<1>4. CASE UNCHANGED vars
  BY <1>4, Still, Zenon DEF vars, CInv, CatalogOK
<1> QED BY <1>2, <1>3, <1>4, WorldQuiet DEF Next

\* The image in the cache is never a file that a download still writes, and its
\* sidecar never promises a newer capture than it is, once the rename that
\* belongs to it is done (ensure_image, pull_image, gc_images): for any number
\* of creates, prefetches and captures.
THEOREM CacheStaysSound == Spec => []CacheSound
<1>1. CInv => CacheSound
  <2> SUFFICES ASSUME CInv PROVE CacheSound
    BY Zenon
  <2>1. \A e \in {"img", "side"} : cache[e] \in Versions \cup {None}
    BY PoolAssumption DEF CInv, CacheOK, CatalogOK, Versions
  <2>2. Torn \notin {cache["img"], cache["side"]}
    BY <2>1, PoolAssumption DEF Versions
  <2>3. \/ None \in {cache["img"], cache["side"]}
        \/ \E p \in Procs : proc[p].pc = "rename"
        \/ cache["img"] >= cache["side"]
    BY <2>1, Zenon DEF CInv, Published, Versions
  <2> QED BY <2>2, <2>3 DEF CacheSound
<1> QED BY <1>1, InitSound, StepSound, PTL DEF Spec

----------------------------------------------------------------------------
(* Created sandboxes are there: the records, as creates and the pool loop change *)
(* them.                                                                        *)

\* Where a create or a prefetch gets its image.
Fetching == {"decide", "hash", "heal", "lock", "pull", "fetch", "side", "rename", "copy"}

\* No record bears the id; the one of d is the only one.
Nobody(s) == \A d \in Dirs : recs[d].id # s
Only(s, d) == \A e \in Dirs : recs[e].id = s <=> e = d

\* The request x of the id s, and the record that bears it.
Creating(x, s) ==
    /\ x.id \in {None, s} /\ (x.id = None => x.pc \in {"idle", "gone"} \cup (Fetching \ {"copy"}))
    /\ x.pc = "idle" => x.id = None
    /\ x.pc \in {"idle", "claim", "push"} => Nobody(s)
    /\ x.pc \in {"resume", "save"} => x.dir \in PoolIds /\ Only(s, x.dir) /\ recs[x.dir].sha = x.want
    /\ x.pc \in Fetching /\ x.id = s => Only(s, s) /\ recs[s].sha = x.want
    /\ x.pc \in {"save", "ok"} => \A d \in Dirs : recs[d].id = s => recs[d].state \in {"running", "error"}
    /\ x.pc = "ok" => \E d \in Dirs : Only(s, d) /\ recs[d].sha = x.want

\* The pool loop x builds and deletes under ids of its own.
Prewarming(x) ==
    /\ x.todo \subseteq PoolIds
    /\ x.pc \in {"pid", "stop", "remove"} => x.id \in PoolIds
    /\ x.pc \in {"push"} \cup Fetching =>
         x.id \in PoolIds /\ recs[x.id].id \notin Sandboxes /\ recs[x.id].state # "pooled"

RecsOK == DOMAIN recs = Dirs /\ \A d \in Dirs : DOMAIN recs[d] = {"state", "id", "sha", "pid"}

\* A pooled VM is nobody's, and the directory of an id is at most its own.
Free == /\ \A d \in Dirs : recs[d].state = "pooled" => d \in PoolIds /\ recs[d].id \notin Sandboxes
        /\ \A s \in Sandboxes : recs[s].id \in {None, s}

\* The inductive invariant of the records.
KInv == /\ RecsOK /\ Free /\ (\A x \in {proc["pool"]} : Prewarming(x))
        /\ \A s \in Sandboxes : \A x \in {proc[s]} : Creating(x, s)

\* What a step leaves of the record of s, and of the one the pool loop builds.
Kept(s) == \A d \in Dirs : /\ recs'[d].id = s <=> recs[d].id = s
                           /\ recs[d].id = s => /\ recs'[d].sha = recs[d].sha
                                                /\ recs'[d].state \in {recs[d].state, "error"}
PoolKept == \A x \in {proc["pool"]} : x.pc \in {"push"} \cup Fetching =>
                recs'[x.id].id \notin Sandboxes /\ recs'[x.id].state # "pooled"

\* The names of the processes and of the directories.
LEMMA Names ==
    /\ "pool" \in Procs /\ "pool" \notin Sandboxes /\ None \notin Sandboxes
    /\ \A s \in Sandboxes : s \in Procs /\ s \in Dirs /\ s \notin PoolIds
    /\ \A d \in PoolIds : d \in Dirs /\ d \notin Sandboxes
BY PoolAssumption, Zenon DEF Procs, Dirs

\* A request whose record is left alone goes on as before.
LEMMA CreatingKept ==
    ASSUME NEW s \in Sandboxes, NEW x, Kept(s), Creating(x, s)
    PROVE  Creating(x, s)'
<1>1. Nobody(s) => Nobody(s)'
  BY Zenon DEF Kept, Nobody
<1>2. \A d : d \in Dirs /\ Only(s, d) => Only(s, d)' /\ recs'[d].sha = recs[d].sha
  BY Zenon DEF Kept, Only
<1>3. x.pc \in {"save", "ok"} => \A d \in Dirs : recs'[d].id = s => recs'[d].state \in {"running", "error"}
  BY DEF Creating, Kept
<1>4. x.pc \in {"resume", "save"} => x.dir \in PoolIds /\ Only(s, x.dir)' /\ recs'[x.dir].sha = x.want
  BY <1>2, Names, Zenon DEF Creating
<1>5. x.pc \in Fetching /\ x.id = s => Only(s, s)' /\ recs'[s].sha = x.want
  BY <1>2, Names, Zenon DEF Creating
<1>6. x.pc = "ok" => \E d \in Dirs : Only(s, d)' /\ recs'[d].sha = x.want
  BY <1>2, Zenon DEF Creating
<1> QED BY <1>1, <1>3, <1>4, <1>5, <1>6, Zenon DEF Creating

\* One process moves.
LEMMA KMoved ==
    ASSUME KInv, RecsOK', Free', NEW p \in Procs, \A q \in Procs \ {p} : proc'[q] = proc[q],
           \A s \in Sandboxes : s # p => Kept(s),
           p # "pool" => PoolKept,
           \A x \in {proc'[p]} : (p = "pool" => Prewarming(x)') /\ (p # "pool" => Creating(x, p)')
    PROVE  KInv'
<1>1. \A x \in {proc'["pool"]} : Prewarming(x)'
  <2>1. CASE p = "pool"
    BY <2>1, Zenon
  <2>2. CASE p # "pool"
    BY <2>2, Names, Zenon DEF KInv, PoolKept, Prewarming
  <2> QED BY <2>1, <2>2
<1>2. ASSUME NEW s \in Sandboxes, NEW x \in {proc'[s]} PROVE Creating(x, s)'
  <2>1. CASE s = p
    BY <1>2, <2>1, Names, Zenon
  <2>2. CASE s # p
    <3>1. Creating(x, s) /\ Kept(s)
      BY <1>2, <2>2, Names, Zenon DEF KInv
    <3> QED BY <3>1, CreatingKept
  <2> QED BY <2>1, <2>2
<1> QED BY <1>1, <1>2, Zenon DEF KInv

\* One process moves, and the records stay.
LEMMA KGoes ==
    ASSUME KInv, recs' = recs, NEW p \in Procs, \A q \in Procs \ {p} : proc'[q] = proc[q],
           \A x \in {proc'[p]} : (p = "pool" => Prewarming(x)) /\ (p # "pool" => Creating(x, p))
    PROVE  KInv'
<1>1. RecsOK' /\ Free'
  BY Zenon DEF KInv, RecsOK, Free
<1>2. \A s \in Sandboxes : Kept(s)
  BY DEF Kept
<1>3. PoolKept
  BY Zenon DEF KInv, Prewarming, PoolKept
<1>4. \A x \in {proc'[p]} : p = "pool" => Prewarming(x)'
  BY Zenon DEF Prewarming
<1>5. \A x \in {proc'[p]} : p # "pool" => Creating(x, p)'
  BY Zenon DEF Creating, Nobody, Only
<1> QED BY <1>1, <1>2, <1>3, <1>4, <1>5, KMoved, Zenon

----------------------------------------------------------------------------
(* The steps, as they concern the records. *)

\* A change of place leaves the rest of the process.
LEMMA GotoKeeps ==
    ASSUME ProcOK, NEW p \in Procs, NEW l, Goto(p, l)
    PROVE  /\ \A q \in Procs \ {p} : proc'[q] = proc[q]
           /\ proc'[p].pc = l /\ proc'[p].id = proc[p].id /\ proc'[p].want = proc[p].want
           /\ proc'[p].dir = proc[p].dir /\ proc'[p].todo = proc[p].todo
BY Zenon DEF ProcOK, Goto, Fields

\* A create, a prefetch or a prewarm that fails marks its record.
LEMMA KFails ==
    ASSUME ProcOK, KInv, NEW p \in Procs, proc[p].pc \in Fetching, Failed(p)
    PROVE  KInv'
<1>1. CASE proc[p].id = None
  <2>1. recs' = recs /\ proc' = [proc EXCEPT ![p] = Gone]
    BY <1>1, Zenon DEF Failed
  <2>2. (\A q \in Procs \ {p} : proc'[q] = proc[q]) /\ proc'[p] = Gone
    BY <2>1, Zenon DEF ProcOK
  <2>3. Gone.pc = "gone" /\ Gone.id = None /\ Gone.todo = {}
    BY Zenon DEF Gone, Idle
  <2>4. Prewarming(Gone) /\ Creating(Gone, p)
    BY <2>3 DEF Prewarming, Creating, Fetching
  <2> QED BY <2>1, <2>2, <2>4, KGoes, Zenon
<1>2. CASE proc[p].id # None
  <2>1. /\ recs' = SetState(proc[p].id, "error") /\ \A q \in Procs \ {p} : proc'[q] = proc[q]
        /\ proc'[p].pc = (IF p = "pool" THEN "pid" ELSE "failed")
        /\ proc'[p].id = proc[p].id /\ proc'[p].todo = proc[p].todo
    BY <1>2 DEF Failed, ProcOK, Fields
  <2>2. DOMAIN recs' = Dirs /\ \A d \in Dirs : recs'[d] \in {recs[d], [recs[d] EXCEPT !.state = "error"]}
    BY <2>1, Zenon DEF SetState
  <2>3. ASSUME NEW d \in Dirs
        PROVE  /\ DOMAIN recs'[d] = {"state", "id", "sha", "pid"}
               /\ recs'[d].id = recs[d].id /\ recs'[d].sha = recs[d].sha
               /\ recs'[d].state \in {recs[d].state, "error"}
    BY <2>2 DEF KInv, RecsOK
  <2>4. RecsOK' /\ Free'
    BY <2>2, <2>3, Names DEF KInv, RecsOK, Free
  <2>5. \A s \in Sandboxes : Kept(s)
    BY <2>3, Zenon DEF Kept
  <2>6. PoolKept
    BY <2>3, Names DEF PoolKept, KInv, Prewarming
  <2>7. \A x \in {proc'[p]} : p = "pool" => Prewarming(x)'
    BY <2>1 DEF KInv, Prewarming, Fetching
  <2>8. \A x \in {proc'[p]} : p # "pool" => Creating(x, p)'
    <3>1. p # "pool" => p \in Sandboxes
      BY DEF Procs
    <3>2. p # "pool" => \A x \in {proc[p]} : Creating(x, p)
      BY <3>1, Zenon DEF KInv
    <3> QED BY <1>2, <2>1, <3>2 DEF Creating, Fetching
  <2> QED BY <2>1, <2>4, <2>5, <2>6, <2>7, <2>8, KMoved, Zenon
<1> QED BY <1>1, <1>2

\* The steps of ensure_image: on to the next one, done, or failed.
LEMMA EnsureMoves ==
    ASSUME ProcOK, NEW p \in Procs, Ensure(p)
    PROVE  /\ proc[p].pc \in Fetching
           /\ \/ Failed(p)
              \/ /\ recs' = recs /\ \A q \in Procs \ {p} : proc'[q] = proc[q]
                 /\ \/ proc'[p] = Gone
                    \/ /\ proc'[p].pc \in Fetching /\ proc'[p].id = proc[p].id
                       /\ proc'[p].pc = "copy" => proc[p].id # None
                       /\ proc'[p].want = proc[p].want /\ proc'[p].todo = proc[p].todo
<1>1. ASSUME NEW l \in Fetching, l # "copy", Goto(p, l)
      PROVE  /\ \A q \in Procs \ {p} : proc'[q] = proc[q]
             /\ proc'[p].pc \in Fetching /\ proc'[p].id = proc[p].id /\ proc'[p].pc # "copy"
             /\ proc'[p].want = proc[p].want /\ proc'[p].todo = proc[p].todo
  BY <1>1, GotoKeeps
<1>2. ASSUME Use(p)
      PROVE  /\ \A q \in Procs \ {p} : proc'[q] = proc[q]
             /\ \/ proc'[p] = Gone
                \/ /\ proc'[p].pc \in Fetching /\ proc'[p].id = proc[p].id
                   /\ proc'[p].pc = "copy" => proc[p].id # None
                   /\ proc'[p].want = proc[p].want /\ proc'[p].todo = proc[p].todo
  BY <1>2 DEF Use, ProcOK, Fields, Fetching
<1>3. CASE Decide(p) \/ Heal(p) \/ Rename(p)
  <2>1. recs' = recs /\ proc[p].pc \in Fetching
    BY <1>3 DEF Decide, Heal, Rename, Fetching
  <2>2. Use(p) \/ Goto(p, "pull") \/ Goto(p, "lock") \/ Goto(p, "hash")
    BY <1>3, Zenon DEF Decide, Heal, Rename, Pull
  <2> QED BY <1>1, <1>2, <2>1, <2>2 DEF Fetching
<1>4. CASE Lock(p)
  BY <1>4 DEF Lock, ProcOK, Fields, Fetching
<1>5. CASE Hash(p) \/ Fetch(p)
  <2>1. proc[p].pc \in Fetching
    BY <1>5 DEF Hash, Fetch, Fetching
  <2>2. Failed(p) \/ (recs' = recs /\ (Goto(p, "heal") \/ Goto(p, "pull") \/ Goto(p, "lock") \/ Goto(p, "side")))
    BY <1>5, Zenon DEF Hash, Fetch, Pull
  <2> QED BY <1>1, <2>1, <2>2 DEF Fetching
<1>6. CASE Download(p) \/ PutSidecar(p)
  <2>1. recs' = recs /\ proc[p].pc \in Fetching /\ (Goto(p, "fetch") \/ Goto(p, "rename"))
    BY <1>6 DEF Download, PutSidecar, Fetching
  <2> QED BY <1>1, <2>1 DEF Fetching
<1> QED BY <1>3, <1>4, <1>5, <1>6, Zenon DEF Ensure

\* They concern no other's record.
LEMMA KEnsures == ASSUME ProcOK, KInv, NEW p \in Procs, Ensure(p) PROVE KInv'
<1>0. p # "pool" => p \in Sandboxes
  BY DEF Procs
<1>1. /\ p = "pool" => \A x \in {proc[p]} : Prewarming(x)
      /\ p # "pool" => \A x \in {proc[p]} : Creating(x, p)
  BY <1>0, Zenon DEF KInv
<1>2. CASE Failed(p)
  BY <1>2, EnsureMoves, KFails
<1>3. CASE ~Failed(p)
  <2>1. /\ recs' = recs /\ \A q \in Procs \ {p} : proc'[q] = proc[q]
        /\ proc[p].pc \in Fetching
        /\ \/ proc'[p] = Gone
           \/ /\ proc'[p].pc \in Fetching /\ proc'[p].id = proc[p].id
              /\ proc'[p].pc = "copy" => proc[p].id # None
              /\ proc'[p].want = proc[p].want /\ proc'[p].todo = proc[p].todo
    BY <1>3, EnsureMoves, Zenon
  <2>2. Gone.pc = "gone" /\ Gone.id = None /\ Gone.todo = {}
    BY Zenon DEF Gone, Idle
  <2>3. Prewarming(Gone) /\ Creating(Gone, p)
    BY <2>2 DEF Prewarming, Creating, Fetching
  <2>4. ASSUME NEW x \in {proc[p]}, NEW y \in {proc'[p]}, y.pc \in Fetching, y.id = x.id,
               y.pc = "copy" => x.id # None, y.want = x.want, y.todo = x.todo
        PROVE  (p = "pool" => Prewarming(y)) /\ (p # "pool" => Creating(y, p))
    BY <1>1, <2>1, <2>4 DEF Prewarming, Creating, Fetching
  <2>5. \A y \in {proc'[p]} : (p = "pool" => Prewarming(y)) /\ (p # "pool" => Creating(y, p))
    BY <2>1, <2>3, <2>4, Zenon
  <2> QED BY <2>1, <2>5, KGoes, Zenon
<1> QED BY <1>2, <1>3

\* Requests begin.
LEMMA KBegins ==
    ASSUME ProcOK, KInv, NEW s \in Sandboxes, Prefetch(s) \/ CreateSandbox(s)
    PROVE  KInv'
<1>1. s \in Procs /\ s # "pool" /\ recs' = recs /\ proc[s].pc = "idle"
  BY Names, Zenon DEF Prefetch, CreateSandbox
<1>2. /\ \A q \in Procs \ {s} : proc'[q] = proc[q]
      /\ \/ proc'[s].pc = "decide" /\ proc'[s].id = proc[s].id
         \/ proc'[s].pc = "claim" /\ proc'[s].id = s
  BY <1>1 DEF Prefetch, CreateSandbox, ProcOK, Fields
<1>3. \A x \in {proc[s]} : Creating(x, s)
  BY Zenon DEF KInv
<1>4. proc[s].id = None
  BY <1>1, <1>3 DEF Creating
<1>5. \A x \in {proc'[s]} : Creating(x, s)
  BY <1>1, <1>2, <1>3, <1>4, Names DEF Creating, Fetching
<1> QED BY <1>1, <1>2, <1>5, KGoes, Zenon

\* claim_from_pool: the record of a pooled VM, which is nobody's, gets the id.
LEMMA KClaims == ASSUME ProcOK, KInv, NEW s \in Sandboxes, Claim(s) PROVE KInv'
<1>0. s \in Procs /\ s # "pool" /\ proc[s].pc = "claim"
  BY Names, Zenon DEF Claim
<1>1. Nobody(s) /\ proc[s].id = s
  <2>1. \A x \in {proc[s]} : Creating(x, s)
    BY Zenon DEF KInv
  <2> QED BY <1>0, <2>1 DEF Creating, Fetching
<1>2. CASE Goto(s, "push") /\ recs' = recs
  <2>1. (\A q \in Procs \ {s} : proc'[q] = proc[q]) /\ proc'[s].pc = "push" /\ proc'[s].id = s
    BY <1>0, <1>1, <1>2, GotoKeeps, Zenon
  <2>2. \A x \in {proc'[s]} : Creating(x, s)
    BY <1>1, <2>1, Names DEF Creating, Fetching
  <2> QED BY <1>0, <1>2, <2>1, <2>2, KGoes, Zenon
<1>3. ASSUME NEW d \in Dirs, Matches(d, proc[s].want),
             recs' = [recs EXCEPT ![d].id = s, ![d].state = "creating"],
             proc' = [proc EXCEPT ![s].pc = "resume", ![s].dir = d]
      PROVE  KInv'
  <2>1. d \in PoolIds /\ recs[d].id \notin Sandboxes /\ recs[d].state = "pooled" /\ recs[d].sha = proc[s].want
    BY <1>3 DEF KInv, Free, Matches
  <2>2. /\ RecsOK' /\ \A e \in Dirs : e # d => recs'[e] = recs[e]
        /\ recs'[d].id = s /\ recs'[d].state = "creating" /\ recs'[d].sha = recs[d].sha
    BY <1>3 DEF KInv, RecsOK
  <2>3. /\ \A q \in Procs \ {s} : proc'[q] = proc[q]
        /\ proc'[s].pc = "resume" /\ proc'[s].id = s /\ proc'[s].dir = d /\ proc'[s].want = proc[s].want
    BY <1>0, <1>1, <1>3 DEF ProcOK, Fields
  <2>4. Free'
    BY <2>1, <2>2, Names DEF KInv, Free
  <2>5. \A t \in Sandboxes : t # s => Kept(t)
    BY <2>1, <2>2 DEF Kept
  <2>6. PoolKept
    <3>1. \A x \in {proc["pool"]} : x.pc \in {"push"} \cup Fetching => x.id \in Dirs /\ x.id # d
                 /\ recs[x.id].id \notin Sandboxes /\ recs[x.id].state # "pooled"
      BY <2>1, Names, Zenon DEF KInv, Prewarming
    <3> QED BY <2>2, <3>1, Zenon DEF PoolKept
  <2>7. Only(s, d)'
    BY <1>1, <2>2, Zenon DEF Nobody, Only
  <2>8. \A x \in {proc'[s]} : Creating(x, s)'
    BY <2>1, <2>2, <2>3, <2>7, Names DEF Creating, Fetching
  <2> QED BY <1>0, <2>2, <2>3, <2>4, <2>5, <2>6, <2>8, KMoved, Zenon
<1> QED BY <1>2, <1>3, Zenon DEF Claim

\* The resume of the claimed VM, and its meta.json.
LEMMA KResumes == ASSUME ProcOK, KInv, NEW s \in Sandboxes, Resume(s) \/ Save(s) PROVE KInv'
<1>0. s \in Procs /\ s # "pool" /\ proc[s].pc \in {"resume", "save"}
  BY Names DEF Resume, Save
<1>1. PICK d : d = proc[s].dir
  OBVIOUS
<1>2. d \in PoolIds /\ d \in Dirs /\ Only(s, d) /\ recs[d].sha = proc[s].want /\ proc[s].id = s
  <2>1. \A x \in {proc[s]} : Creating(x, s)
    BY Zenon DEF KInv
  <2> QED BY <1>0, <1>1, <2>1, Names DEF Creating, Fetching
<1>3. ASSUME NEW l, Goto(s, l)
      PROVE  /\ \A q \in Procs \ {s} : proc'[q] = proc[q]
             /\ proc'[s].pc = l /\ proc'[s].id = s /\ proc'[s].dir = d /\ proc'[s].want = proc[s].want
  BY <1>0, <1>1, <1>2, <1>3, GotoKeeps, Zenon
<1>4. \A x \in {proc["pool"]} : x.pc \in {"push"} \cup Fetching =>
                 x.id \in Dirs /\ x.id # d /\ recs[x.id].id \notin Sandboxes /\ recs[x.id].state # "pooled"
  BY <1>2, Names, Zenon DEF KInv, Prewarming, Only
<1>5. CASE Save(s)
  <2>1. recs' = recs /\ (Goto(s, "ok") \/ Goto(s, "failed")) /\ proc[s].pc = "save"
    BY <1>5, Zenon DEF Save
  <2>2. \A e \in Dirs : recs[e].id = s => recs[e].state \in {"running", "error"}
    <3>1. \A x \in {proc[s]} : Creating(x, s)
      BY Zenon DEF KInv
    <3> QED BY <2>1, <3>1 DEF Creating
  <2>3. /\ \A q \in Procs \ {s} : proc'[q] = proc[q]
        /\ proc'[s].pc \in {"ok", "failed"} /\ proc'[s].id = s /\ proc'[s].want = proc[s].want
    BY <1>3, <2>1
  <2>4. \A x \in {proc'[s]} : Creating(x, s)
    BY <1>2, <2>2, <2>3, Names DEF Creating, Fetching
  <2> QED BY <1>0, <2>1, <2>3, <2>4, KGoes, Zenon
<1>6. CASE Goto(s, "save") /\ recs' = SetState(s, "running")
  <2>1. \A e \in Dirs : e # d => recs'[e] = recs[e]
    BY <1>2, <1>6, Zenon DEF SetState, Known, Only
  <2>2. recs'[d] = [recs[d] EXCEPT !.state = "running"] /\ DOMAIN recs' = Dirs
    BY <1>2, <1>6, Zenon DEF SetState, Known, Only
  <2>3. /\ recs'[d].id = recs[d].id /\ recs'[d].sha = recs[d].sha /\ recs'[d].state = "running"
        /\ DOMAIN recs'[d] = {"state", "id", "sha", "pid"}
    BY <1>2, <2>2 DEF KInv, RecsOK
  <2>4. RecsOK' /\ Free'
    BY <1>2, <2>1, <2>2, <2>3, Names DEF KInv, RecsOK, Free
  <2>5. \A t \in Sandboxes : t # s => Kept(t)
    BY <1>2, <2>1, <2>3 DEF Kept, Only
  <2>6. PoolKept
    BY <1>4, <2>1, Zenon DEF PoolKept
  <2>7. Only(s, d)' /\ \A e \in Dirs : recs'[e].id = s => recs'[e].state \in {"running", "error"}
    BY <1>2, <2>1, <2>3 DEF Only
  <2>8. \A x \in {proc'[s]} : Creating(x, s)'
    BY <1>2, <1>3, <1>6, <2>3, <2>7, Names DEF Creating, Fetching
  <2> QED BY <1>0, <1>3, <1>6, <2>4, <2>5, <2>6, <2>8, KMoved, Zenon
<1>7. CASE Goto(s, "push") /\ recs' = [recs EXCEPT ![d].id = d, ![d].state = "error", ![d].pid = FALSE]
  <2>1. /\ RecsOK' /\ \A e \in Dirs : e # d => recs'[e] = recs[e]
        /\ recs'[d].id = d /\ recs'[d].state = "error"
    BY <1>2, <1>7 DEF KInv, RecsOK
  <2>2. Free'
    BY <1>2, <2>1, Names DEF KInv, Free
  <2>3. \A t \in Sandboxes : t # s => Kept(t)
    BY <1>2, <2>1, Names DEF Kept, Only
  <2>4. PoolKept
    BY <1>4, <2>1, Zenon DEF PoolKept
  <2>5. Nobody(s)'
    BY <1>2, <2>1, Names, Zenon DEF Nobody, Only
  <2>6. \A x \in {proc'[s]} : Creating(x, s)'
    BY <1>3, <1>7, <2>5, Names DEF Creating, Fetching
  <2> QED BY <1>0, <1>3, <1>7, <2>1, <2>2, <2>3, <2>4, <2>6, KMoved, Zenon
<1>8. CASE Resume(s)
  <2>1. CASE d \in fc /\ dirs[d] # None
    BY <1>1, <1>6, <1>8, <2>1, Zenon DEF Resume
  <2>2. CASE ~(d \in fc /\ dirs[d] # None)
    BY <1>1, <1>7, <1>8, <2>2, Zenon DEF Resume
  <2> QED BY <2>1, <2>2
<1> QED BY <1>5, <1>8

\* cold_create pushes a record under an id that no record has.
LEMMA KPushes == ASSUME ProcOK, KInv, NEW p \in Procs, Push(p) PROVE KInv'
<1>1. PICK x, i : x = proc[p] /\ i = x.id
  OBVIOUS
<1>2. /\ x.pc = "push" /\ Known(i) = {} /\ Goto(p, "decide")
      /\ recs' = [recs EXCEPT ![i] = [state |-> "creating", id |-> i, sha |-> x.want, pid |-> FALSE]]
  BY <1>1, Zenon DEF Push
<1>3. (p = "pool" => Prewarming(x)) /\ (p # "pool" => p \in Sandboxes /\ Creating(x, p))
  BY <1>1, Zenon DEF KInv, Procs
<1>4. /\ p = "pool" => i \in PoolIds /\ recs[i].id \notin Sandboxes
      /\ p # "pool" => i = p
  BY <1>1, <1>2, <1>3 DEF Prewarming, Creating, Fetching
<1>5. i \in Dirs /\ (p = "pool" => i \notin Sandboxes)
  BY <1>3, <1>4, Names, Zenon
<1>6. /\ \A e \in Dirs : e # i => recs'[e] = recs[e]
      /\ recs'[i].id = i /\ recs'[i].state = "creating" /\ recs'[i].sha = x.want
      /\ RecsOK'
  BY <1>2, <1>5 DEF KInv, RecsOK
<1>7. /\ \A q \in Procs \ {p} : proc'[q] = proc[q]
      /\ proc'[p].pc = "decide" /\ proc'[p].id = i /\ proc'[p].want = x.want /\ proc'[p].todo = x.todo
  BY <1>1, <1>2, GotoKeeps, Zenon
<1>8. Free'
  BY <1>3, <1>4, <1>6, Names DEF KInv, Free
<1>9. recs[i].id \notin Sandboxes \/ (p # "pool" /\ recs[i].id # p)
  BY <1>2, <1>4, <1>5 DEF Known
<1>10. ASSUME p = "pool" PROVE KInv'
  <2>1. \A s \in Sandboxes : Kept(s)
    BY <1>4, <1>5, <1>6, <1>10 DEF Kept
  <2>2. \A y \in {proc'[p]} : Prewarming(y)'
    BY <1>3, <1>4, <1>5, <1>6, <1>7, <1>10 DEF Prewarming, Fetching
  <2> QED BY <1>6, <1>7, <1>8, <1>10, <2>1, <2>2, KMoved, Zenon
<1>11. ASSUME p # "pool" PROVE KInv'
  <2>1. p \in Sandboxes /\ i = p /\ Nobody(p)
    BY <1>2, <1>3, <1>4, <1>11 DEF Creating
  <2>2. ASSUME NEW t \in Sandboxes, t # p PROVE Kept(t)
    <3>1. recs[p].id # t
      BY <2>1, <2>2, Names DEF KInv, Free
    <3> QED BY <1>6, <2>1, <2>2, <3>1 DEF Kept
  <2>3. PoolKept
    <3>1. \A y \in {proc["pool"]} : y.pc \in {"push"} \cup Fetching => y.id \in Dirs /\ y.id # i
                 /\ recs[y.id].id \notin Sandboxes /\ recs[y.id].state # "pooled"
      BY <2>1, Names, Zenon DEF KInv, Prewarming
    <3> QED BY <1>6, <3>1, Zenon DEF PoolKept
  <2>4. Only(p, p)'
    BY <1>6, <2>1, Zenon DEF Nobody, Only
  <2>5. \A y \in {proc'[p]} : Creating(y, p)'
    BY <1>6, <1>7, <2>1, <2>4, Names DEF Creating, Fetching
  <2> QED BY <1>6, <1>7, <1>8, <1>11, <2>2, <2>3, <2>5, KMoved, Zenon
<1> QED BY <1>10, <1>11

\* The record of a VM that runs, or is pooled.
LEMMA KBoots == ASSUME ProcOK, KInv, NEW p \in Procs, Boot(p) PROVE KInv'
<1>1. PICK x, i : x = proc[p] /\ i = x.id
  OBVIOUS
<1>2. x.pc = "copy" /\ x.pc \in Fetching
  BY <1>1, Zenon DEF Boot, Fetching
<1>3. CASE Failed(p)
  BY <1>1, <1>2, <1>3, KFails
<1>4. ASSUME NEW l, l = (IF p = "pool" THEN "pooled" ELSE "running"),
             recs' = [recs EXCEPT ![i].pid = TRUE, ![i].state = l],
             Goto(p, IF p = "pool" THEN "top" ELSE "ok")
      PROVE  KInv'
  <2>1. (p = "pool" => Prewarming(x)) /\ (p # "pool" => p \in Sandboxes /\ Creating(x, p))
    BY <1>1, Zenon DEF KInv, Procs
  <2>2. ASSUME p = "pool" PROVE KInv'
    <3>1. i \in PoolIds /\ i \in Dirs /\ recs[i].id \notin Sandboxes /\ x.todo \subseteq PoolIds
      BY <1>1, <1>2, <2>1, <2>2, Names, Zenon DEF Prewarming
    <3>2. /\ RecsOK' /\ \A e \in Dirs : recs'[e].id = recs[e].id /\ recs'[e].sha = recs[e].sha
          /\ \A e \in Dirs : e # i => recs'[e].state = recs[e].state
      BY <1>4, <3>1 DEF KInv, RecsOK
    <3>3. Free'
      BY <3>1, <3>2, Names DEF KInv, Free
    <3>4. \A s \in Sandboxes : Kept(s)
      BY <3>1, <3>2 DEF Kept
    <3>5. /\ \A q \in Procs \ {p} : proc'[q] = proc[q]
          /\ proc'[p].pc = "top" /\ proc'[p].todo = x.todo
      BY <1>1, <1>4, <2>2, GotoKeeps
    <3>6. \A y \in {proc'[p]} : Prewarming(y)'
      BY <3>1, <3>5 DEF Prewarming, Fetching
    <3> QED BY <2>2, <3>2, <3>3, <3>4, <3>5, <3>6, KMoved, Zenon
  <2>3. ASSUME p # "pool" PROVE KInv'
    <3>1. p \in Sandboxes /\ i \in {None, p}
      BY <1>1, <2>1, <2>3 DEF Creating
    <3>2. CASE i = None
      BY <1>1, <1>2, <2>1, <2>3, <3>2 DEF Creating
    <3>3. CASE i = p
      <4>1. i \in Dirs /\ Only(p, p) /\ recs[p].sha = x.want
        BY <1>1, <1>2, <2>1, <2>3, <3>1, <3>3, Names, Zenon DEF Creating
      <4>2. /\ RecsOK' /\ \A e \in Dirs : recs'[e].id = recs[e].id /\ recs'[e].sha = recs[e].sha
            /\ \A e \in Dirs : e # p => recs'[e].state = recs[e].state
            /\ recs'[p].state = "running"
        BY <1>4, <2>3, <3>3, <4>1 DEF KInv, RecsOK
      <4>3. Free'
        BY <3>1, <4>2, Names DEF KInv, Free
      <4>4. \A s \in Sandboxes : s # p => Kept(s)
        BY <4>1, <4>2 DEF Kept, Only
      <4>5. PoolKept
        <5>1. \A y \in {proc["pool"]} : y.pc \in {"push"} \cup Fetching => y.id \in Dirs /\ y.id # p
                 /\ recs[y.id].id \notin Sandboxes /\ recs[y.id].state # "pooled"
          BY <3>1, Names, Zenon DEF KInv, Prewarming
        <5> QED BY <4>2, <5>1, Zenon DEF PoolKept
      <4>6. /\ \A q \in Procs \ {p} : proc'[q] = proc[q]
            /\ proc'[p].pc = "ok" /\ proc'[p].id = p /\ proc'[p].want = x.want
        BY <1>1, <1>4, <2>3, <3>3, GotoKeeps, Zenon
      <4>7. Only(p, p)' /\ recs'[p].sha = x.want /\ p \in Dirs
        BY <3>1, <4>1, <4>2, Names, Zenon DEF Only
      <4>8. \A e \in Dirs : recs'[e].id = p => recs'[e].state \in {"running", "error"}
        BY <4>1, <4>2 DEF Only
      <4>9. \A y \in {proc'[p]} : Creating(y, p)'
        BY <3>1, <4>6, <4>7, <4>8, Names DEF Creating, Fetching
      <4> QED BY <2>3, <4>2, <4>3, <4>4, <4>5, <4>6, <4>9, KMoved, Zenon
    <3> QED BY <3>1, <3>2, <3>3
  <2> QED BY <2>2, <2>3
<1> QED BY <1>1, <1>3, <1>4, Zenon DEF Boot

\* The pool loop deletes ids of the pool, which no sandbox bears.
LEMMA KDeletes == ASSUME ProcOK, KInv, Delete("pool") PROVE KInv'
<1>1. PICK x, i : x = proc["pool"] /\ i = x.id
  OBVIOUS
<1>2. Prewarming(x) /\ x.todo \subseteq PoolIds
  BY <1>1, Zenon DEF KInv, Prewarming
<1>3. x.pc \in {"pid", "stop", "remove"} /\ i \in PoolIds /\ i \notin Sandboxes
  <2>1. x.pc \in {"pid", "stop", "remove"}
    BY <1>1, Zenon DEF Delete, StopPid, Stop, Remove
  <2> QED BY <1>1, <1>2, <2>1, Names, Zenon DEF Prewarming
<1>4. ASSUME Stop("pool") \/ Remove("pool") PROVE RecsOK' /\ Free' /\ \A s \in Sandboxes : Kept(s)
  <2>1. \A d \in Dirs : DOMAIN recs[d] = {"state", "id", "sha", "pid"}
    BY DEF KInv, RecsOK
  <2>2. /\ DOMAIN recs' = Dirs
        /\ \A d \in Dirs : \/ recs'[d] = recs[d]
                          \/ /\ recs[d].id = i
                             /\ recs'[d] \in {NoRec, [recs[d] EXCEPT !.state = "stopped", !.pid = FALSE]}
    BY <1>1, <1>4, Zenon DEF Stop, Remove, Known
  <2>3. NoRec.id = None /\ NoRec.state = "absent" /\ DOMAIN NoRec = {"state", "id", "sha", "pid"}
    BY DEF NoRec
  <2>4. \A d \in Dirs : \/ recs'[d] = recs[d]
                      \/ /\ recs[d].id = i /\ recs'[d].id \in {None, i}
                         /\ DOMAIN recs'[d] = {"state", "id", "sha", "pid"}
                         /\ recs'[d].state \in {"absent", "stopped"}
    BY <2>1, <2>2, <2>3, Zenon
  <2>5. RecsOK'
    BY <2>1, <2>2, <2>4, Zenon DEF RecsOK
  <2>6. Free'
    BY <1>3, <2>4, Names DEF KInv, Free
  <2>7. \A s \in Sandboxes : Kept(s)
    BY <1>3, <2>4, Names DEF Kept
  <2> QED BY <2>5, <2>6, <2>7
<1>5. /\ \A q \in Procs \ {"pool"} : proc'[q] = proc[q]
      /\ proc'["pool"].pc \in {"stop", "remove", "tidy", "drain"}
      /\ proc'["pool"].todo = x.todo
      /\ proc'["pool"].pc \in {"stop", "remove"} => proc'["pool"].id = i
  <2>1. CASE StopPid("pool")
    BY <1>1, <2>1, Names DEF StopPid, ProcOK, Fields
  <2>2. CASE Stop("pool")
    <3>1. Goto("pool", "remove")
      BY <2>2, Zenon DEF Stop
    <3> QED BY <1>1, <3>1, GotoKeeps, Names
  <2>3. CASE Remove("pool")
    BY <1>1, <2>3, Names DEF Remove, ProcOK, Fields
  <2> QED BY <2>1, <2>2, <2>3, Zenon DEF Delete
<1>6. \A y \in {proc'["pool"]} : y.todo \subseteq PoolIds /\ y.pc \notin {"push"} \cup Fetching
                               /\ (y.pc \in {"pid", "stop", "remove"} => y.id \in PoolIds)
  BY <1>2, <1>3, <1>5 DEF Fetching
<1>7. CASE StopPid("pool")
  <2>1. \A y \in {proc'["pool"]} : Prewarming(y)
    BY <1>6, Zenon DEF Prewarming
  <2>2. recs' = recs
    BY <1>7, Zenon DEF StopPid
  <2> QED BY <1>5, <2>1, <2>2, KGoes, Names, Zenon
<1>8. CASE Stop("pool") \/ Remove("pool")
  <2>1. \A y \in {proc'["pool"]} : Prewarming(y)'
    BY <1>6, Zenon DEF Prewarming
  <2> QED BY <1>4, <1>5, <1>8, <2>1, KMoved, Names, Zenon
<1> QED BY <1>7, <1>8, Zenon DEF Delete

\* The rounds of the pool loop.
LEMMA KRounds ==
    ASSUME ProcOK, KInv, Refill \/ Drain \/ TopUp \/ Tidy \/ GcLock \/ GcCheck \/ GcUnlink
    PROVE  KInv'
<1>1. PICK x : x = proc["pool"]
  OBVIOUS
<1>2. x.todo \subseteq PoolIds
  BY <1>1, Zenon DEF KInv, Prewarming
<1>3. recs' = recs
  BY Zenon DEF Refill, Drain, TopUp, Tidy, GcLock, GcCheck, GcUnlink
<1>4. ASSUME NEW y, y \in {proc'["pool"]}, y.todo \subseteq PoolIds,
             y.pc \in {"drain", "top", "tidy", "rest", "gclock", "gccheck", "gcunlink"},
             \A q \in Procs \ {"pool"} : proc'[q] = proc[q]
      PROVE  KInv'
  <2>1. Prewarming(y)
    BY <1>4 DEF Prewarming, Fetching
  <2> QED BY <1>3, <1>4, <2>1, KGoes, Names, Zenon
<1>5. ASSUME NEW l \in {"top", "tidy", "gccheck", "gcunlink"}, Goto("pool", l) PROVE KInv'
  BY <1>1, <1>2, <1>4, <1>5, GotoKeeps, Names
<1>6. ASSUME NEW y, proc' = [proc EXCEPT !["pool"] = y], y.todo \subseteq PoolIds,
             y.pc \in {"drain", "rest", "gclock"}
      PROVE  KInv'
  <2>1. proc'["pool"] = y /\ \A q \in Procs \ {"pool"} : proc'[q] = proc[q]
    BY <1>6, Names, Zenon DEF ProcOK
  <2> QED BY <1>4, <1>6, <2>1
<1>7. ASSUME proc' = [proc EXCEPT !["pool"] = [Idle EXCEPT !.pc = "rest"]] PROVE KInv'
  <2>1. PICK y : y = [Idle EXCEPT !.pc = "rest"]
    BY Zenon
  <2>2. y.todo = {} /\ y.pc = "rest"
    BY <2>1 DEF Idle
  <2> QED BY <1>6, <1>7, <2>1, <2>2, Zenon
<1>8. CASE Refill
  <2>1. PICK keep : proc' = [proc EXCEPT !["pool"] =
                       [Idle EXCEPT !.pc = "drain", !.todo = Pooled \ keep, !.want = specs]]
    BY <1>8, Zenon DEF Refill
  <2>2. PICK y : y = [Idle EXCEPT !.pc = "drain", !.todo = Pooled \ keep, !.want = specs]
    OBVIOUS
  <2>3. y.todo = Pooled \ keep /\ y.pc = "drain"
    BY <2>2 DEF Idle
  <2>4. Pooled \subseteq PoolIds
    BY Zenon DEF KInv, Free, Pooled
  <2> QED BY <1>6, <2>1, <2>2, <2>3, <2>4, Zenon
<1>9. CASE Drain
  <2>1. CASE Goto("pool", "top")
    BY <1>5, <2>1
  <2>2. ASSUME NEW d \in x.todo,
               proc' = [proc EXCEPT !["pool"].pc = "pid", !["pool"].id = d, !["pool"].todo = @ \ {d}]
        PROVE  KInv'
    <3>1. /\ \A q \in Procs \ {"pool"} : proc'[q] = proc[q]
          /\ proc'["pool"].pc = "pid" /\ proc'["pool"].id = d /\ proc'["pool"].todo = x.todo \ {d}
      BY <1>1, <2>2, Names DEF ProcOK, Fields
    <3>2. \A y \in {proc'["pool"]} : Prewarming(y)
      BY <1>2, <3>1 DEF Prewarming, Fetching
    <3> QED BY <1>3, <3>1, <3>2, KGoes, Names, Zenon
  <2> QED BY <1>1, <1>9, <2>1, <2>2, Zenon DEF Drain
<1>10. CASE TopUp
  <2>1. CASE Goto("pool", "tidy")
    BY <1>5, <2>1
  <2>2. ASSUME NEW d \in Unused, proc' = [proc EXCEPT !["pool"].pc = "push", !["pool"].id = d]
        PROVE  KInv'
    <3>1. d \in PoolIds /\ recs[d].id = None /\ recs[d].state = "absent"
      BY <2>2 DEF Unused, NoRec
    <3>2. /\ \A q \in Procs \ {"pool"} : proc'[q] = proc[q]
          /\ proc'["pool"].pc = "push" /\ proc'["pool"].id = d /\ proc'["pool"].todo = x.todo
      BY <1>1, <2>2, Names DEF ProcOK, Fields
    <3>3. \A y \in {proc'["pool"]} : Prewarming(y)
      BY <1>2, <3>1, <3>2, Names DEF Prewarming, Fetching
    <3> QED BY <1>3, <3>2, <3>3, KGoes, Names, Zenon
  <2> QED BY <1>10, <2>1, <2>2, Zenon DEF TopUp
<1>11. CASE Tidy
  <2>1. ASSUME NEW e, proc' = [proc EXCEPT !["pool"] = [Idle EXCEPT !.pc = "gclock", !.id = e]]
        PROVE  KInv'
    <3>1. PICK y : y = [Idle EXCEPT !.pc = "gclock", !.id = e]
      OBVIOUS
    <3>2. y.todo = {} /\ y.pc = "gclock"
      BY <3>1 DEF Idle
    <3> QED BY <1>6, <2>1, <3>1, <3>2, Zenon
  <2> QED BY <1>7, <1>11, <2>1, Zenon DEF Tidy
<1>12. CASE GcLock \/ GcCheck \/ GcUnlink
  BY <1>5, <1>7, <1>12, Zenon DEF GcLock, GcCheck, GcUnlink
<1> QED BY <1>8, <1>9, <1>10, <1>11, <1>12

\* No process moves.
LEMMA KSweeps ==
    ASSUME KInv, proc' = proc, recs' = recs \/ \E d \in Dirs : SweepDead(d)
    PROVE  KInv'
<1>1. /\ RecsOK'
      /\ \A e \in Dirs : /\ recs'[e].id = recs[e].id /\ recs'[e].sha = recs[e].sha
                         /\ recs'[e].state \in {recs[e].state, "error"}
  <2>1. CASE recs' = recs
    BY <2>1, Zenon DEF KInv, RecsOK
  <2>2. ASSUME NEW d \in Dirs, recs' = [recs EXCEPT ![d].state = "error", ![d].pid = FALSE]
        PROVE  /\ RecsOK'
               /\ \A e \in Dirs : /\ recs'[e].id = recs[e].id /\ recs'[e].sha = recs[e].sha
                                  /\ recs'[e].state \in {recs[e].state, "error"}
    BY <2>2 DEF KInv, RecsOK
  <2> QED BY <2>1, <2>2, Zenon DEF SweepDead
<1>2. Free'
  BY <1>1, Names DEF KInv, Free
<1>3. \A s \in Sandboxes : Kept(s)
  BY <1>1 DEF Kept
<1>4. \A x \in {proc'["pool"]} : Prewarming(x)'
  BY <1>1, Names DEF KInv, Prewarming
<1> QED BY <1>1, <1>2, <1>3, <1>4, KMoved, Names, Zenon

\* A step keeps the invariant of the records.
LEMMA KStep == ASSUME ProcOK, KInv, [Next]_vars PROVE KInv'
<1>1. CASE CreateTemplate \/ DeleteTemplate \/ PutPools \/ (\E v \in Versions : BackoffOver(v)) \/ UNCHANGED vars
  <2>1. recs' = recs /\ proc' = proc
    BY <1>1 DEF CreateTemplate, DeleteTemplate, PutPools, BackoffOver, vars
  <2> QED BY <2>1, KSweeps
<1>2. CASE \E d \in Dirs : SweepDead(d)
  <2>1. proc' = proc
    BY <1>2, Zenon DEF SweepDead
  <2> QED BY <1>2, <2>1, KSweeps
<1>3. ASSUME NEW p \in Procs, Create(p) PROVE KInv'
  BY <1>3, KPushes, KEnsures, KBoots, Zenon DEF Create
<1>4. ASSUME NEW s \in Sandboxes, CreateSandbox(s) \/ Prefetch(s) \/ SandboxStep(s) PROVE KInv'
  BY <1>3, <1>4, KBegins, KClaims, KResumes, Names, Zenon DEF SandboxStep
<1>5. CASE PoolStep
  BY <1>3, <1>5, KRounds, KDeletes, Names, Zenon DEF PoolStep
<1> QED BY <1>1, <1>2, <1>4, <1>5, Zenon DEF Next

\* At first nobody has a record.
LEMMA KInit == ASSUME Init PROVE KInv
<1>1. \A d \in Dirs : recs[d] = NoRec
  BY DEF Init
<1>2. NoRec.id = None /\ NoRec.state = "absent" /\ DOMAIN NoRec = {"state", "id", "sha", "pid"}
  BY DEF NoRec
<1>3. RecsOK /\ Free
  BY <1>1, <1>2, Names DEF RecsOK, Free, Init
<1>4. proc["pool"].pc = "rest" /\ proc["pool"].todo = {}
  BY Names DEF Init, Idle
<1>5. \A s \in Sandboxes : proc[s].pc = "idle" /\ proc[s].id = None
  BY Names DEF Init, Idle
<1>6. \A s \in Sandboxes : Nobody(s)
  BY <1>1, <1>2, Names DEF Nobody
<1>7. \A x \in {proc["pool"]} : Prewarming(x)
  BY <1>4 DEF Prewarming, Fetching
<1>8. \A s \in Sandboxes : \A x \in {proc[s]} : Creating(x, s)
  BY <1>5, <1>6 DEF Creating, Fetching
<1> QED BY <1>3, <1>7, <1>8, Zenon DEF KInv

\* A create that was answered with success has one record of its id, of the
\* capture that was asked for and beyond the reach of claim_from_pool.
THEOREM CreatedStaysThere == Spec => []CreatedIsThere
<1>1. KInv => CreatedIsThere
  <2> SUFFICES ASSUME KInv, NEW s \in Sandboxes, proc[s].pc = "ok"
               PROVE  /\ Cardinality(Known(s)) = 1
                      /\ \A d \in Known(s) : /\ recs[d].sha = proc[s].want
                                             /\ recs[d].state \in {"running", "error"}
    BY Zenon DEF CreatedIsThere
  <2>1. /\ \A d \in Dirs : recs[d].id = s => recs[d].state \in {"running", "error"}
        /\ \E d \in Dirs : Only(s, d) /\ recs[d].sha = proc[s].want
    BY Zenon DEF KInv, Creating
  <2>2. PICK d \in Dirs : Only(s, d) /\ recs[d].sha = proc[s].want
    BY <2>1
  <2>3. Known(s) = {d}
    BY <2>2 DEF Known, Only
  <2>4. Cardinality(Known(s)) = 1
    BY <2>3, FS_Singleton, Zenon
  <2>5. ASSUME NEW e \in Known(s) PROVE recs[e].sha = proc[s].want /\ recs[e].state \in {"running", "error"}
    <3>1. e = d /\ recs[d].id = s
      BY <2>2, <2>3, <2>5, Zenon DEF Only
    <3> QED BY <2>1, <2>2, <3>1, Zenon
  <2> QED BY <2>4, <2>5, Zenon
<1>2. CInv => ProcOK
  BY Zenon DEF CInv
<1> QED BY <1>1, <1>2, KInit, KStep, InitSound, StepSound, PTL DEF Spec

=============================================================================
