------------------------------- MODULE Expose -------------------------------
(***************************************************************************)
(* The exposes of feluccad (go/internal/server/expose.go): rows that give a *)
(* guest port of a sandbox a name and a port of its node.  Four writers     *)
(* change them: the expose API, the dynamic route of the gateway, fork and  *)
(* the sweep that puts a sandbox to sleep.  Each holds exposeMu from its    *)
(* check over the call of the agent to the row; deletes and changes of      *)
(* state do not.                                                            *)
(*                                                                         *)
(* A call of the agent is one step, which may be refused, or take effect    *)
(* without an answer; NodeNet has its side in full.  All sandboxes are of   *)
(* one tenant, on one node, and have dynamic ports allowed; the snapshot    *)
(* that ends a request, the forced delete and the deletes of the sweep are  *)
(* left to ControlPlane.                                                    *)
(***************************************************************************)
EXTENDS Integers, Sequences, FiniteSets, FiniteSetsExt

CONSTANTS
    Sandboxes,
    First,          \* the sandbox that is there at the start
    Before,         \* rows it may have by then: names with their guest ports
    Names,          \* names that clients choose
    Ports,          \* guest ports, which name dynamic exposes
    MaxNode,        \* node ports of the agent
    MaxPerSandbox,  \* maxExposesPerSandbox
    MaxPerTenant,   \* maxExposesPerTenant
    Clients,        \* requests that run at once
    Gws,            \* requests of the gateway, which may ask for a dynamic route
    Ops,            \* the requests of a run
    MaxOps,         \* bound: requests of a behaviour
    Faults,         \* a subset of {"fail", "lost"}
    MaxFaults,      \* bound: faults of a behaviour
    Patient,        \* clients leave a child alone until its fork is answered
    None

ASSUME ExposeAssumption ==
    /\ First \in Sandboxes /\ Ports \subseteq Nat \ {0} /\ Names \cap Ports = {}
    /\ Len(Before) <= MaxPerSandbox /\ MaxPerSandbox <= MaxPerTenant
    /\ Ops \subseteq {"expose", "unexpose", "fork", "autosleep", "sleep", "wake", "delete"}
    /\ Faults \subseteq {"fail", "lost"} /\ Patient \in BOOLEAN
    /\ {MaxNode, MaxPerSandbox, MaxPerTenant, MaxOps, MaxFaults} \subseteq Nat

VARIABLES
    sb,      \* State.Sandboxes: state, whether it has an address, Exposes
    rules,   \* the agent: None, or the node port of every guest port of the VM
    mu,      \* who holds exposeMu
    req,     \* the requests
    left,    \* requests that may still come
    faults,  \* faults that may still happen
    hurt     \* guest ports of sandboxes for which an answer was lost

evars == <<sb, rules, mu, req, left, faults, hurt>>

Labels == Names \cup Ports
NoSandbox == [state |-> "absent", ip |-> FALSE, rows |-> <<>>]
NoRules == [p \in Ports |-> None]
Idle == [op |-> None, pc |-> "idle", id |-> None, src |-> None, name |-> None, port |-> None,
         node |-> None, todo |-> <<>>, ok |-> FALSE]

Exists(i) == sb[i].state \notin {"absent", "gone"}
Row(n, p, q) == [name |-> n, port |-> p, node |-> q]
Named(i, n) == {k \in DOMAIN sb[i].rows : sb[i].rows[k].name = n}

\* tenantExposeCount.
Total == FoldSet(LAMBDA i, n : n + Len(sb[i].rows), 0, Sandboxes)

Init ==
    /\ \E k \in 0 .. Len(Before), s \in {"running", "sleeping"} :
          /\ sb = [i \in Sandboxes |-> IF i # First THEN NoSandbox ELSE
                     [state |-> s, ip |-> TRUE,
                      rows |-> [j \in 1 .. k |-> Row(Before[j].name, Before[j].port, j)]]]
          /\ rules = [i \in Sandboxes |-> IF i # First THEN None ELSE
                        [p \in Ports |-> IF \E j \in 1 .. k : Before[j].port = p
                                         THEN CHOOSE j \in 1 .. k : Before[j].port = p
                                         ELSE None]]
    /\ mu = None
    /\ req = [r \in Clients \cup Gws |-> Idle]
    /\ left = MaxOps /\ faults = MaxFaults /\ hurt = {}

At(r, l) == req[r].pc = l
Goto(r, l) == req' = [req EXCEPT ![r].pc = l]
Answer(r, ok) == req' = [req EXCEPT ![r] =
    [Idle EXCEPT !.pc = IF r \in Gws THEN "answered" ELSE "idle", !.ok = ok]]
Fault(f) == f \in Faults /\ faults > 0 /\ faults' = faults - 1

\* A request of a client, or an action of the sweep, comes in.
Comes(r, op) == op \in Ops /\ At(r, "idle") /\ left > 0 /\ left' = left - 1

\* The agent sleeps or wakes a VM that it has, in the right state.
Obeys(i, s) == sb[i].state = s /\ rules[i] # None

\* The fork of i is not answered yet.
Forking(i) == \E r \in Clients : req[r].op = "fork" /\ req[r].id = i

----------------------------------------------------------------------------
(* expose. *)

BeginExpose(r) ==
    /\ Comes(r, "expose")
    /\ \E i \in Sandboxes, n \in Names, p \in Ports :
          /\ Exists(i) /\ (Patient => ~Forking(i))
          /\ req' = [req EXCEPT ![r] = [Idle EXCEPT !.op = "expose", !.pc = "check", !.id = i,
                                                    !.name = n, !.port = p]]
    /\ UNCHANGED <<sb, rules, mu, faults, hurt>>

\* exposeCommon up to its call: an expose that is there is answered as it is,
\* and only a new name counts against the limits.
Check(r) ==
    LET i == req[r].id
        same == Named(i, req[r].name)
        new == /\ Exists(i) /\ sb[i].ip /\ same = {}
               /\ Len(sb[i].rows) < MaxPerSandbox /\ Total < MaxPerTenant
    IN  /\ At(r, "check") /\ mu = None
        /\ IF new THEN mu' = r /\ Goto(r, "call")
           ELSE Answer(r, \E k \in same : sb[i].rows[k].port = req[r].port) /\ UNCHANGED mu
        /\ UNCHANGED <<sb, rules, left, faults, hurt>>

\* The agent's side of expose: the node port it has for the guest port, or the
\* lowest that no VM has.
Taken == {rules[i][p] : i \in {j \in Sandboxes : rules[j] # None}, p \in Ports}
Free == (1 .. MaxNode) \ Taken
Exposable(i, p) == rules[i] # None /\ (rules[i][p] # None \/ Free # {})
NodePort(i, p) == IF rules[i][p] # None THEN rules[i][p] ELSE Min(Free)

\* What a request does about a call that failed: a fork goes on to the next
\* expose, the sweep too.
Failed(r) ==
    /\ mu' = IF req[r].op = "fork" THEN mu ELSE None
    /\ CASE req[r].op = "fork" -> Goto(r, "next")
         [] req[r].op = "autosleep" -> Goto(r, "sweep")
         [] OTHER -> Answer(r, FALSE)

\* agentExpose.
Call(r) ==
    LET i == req[r].id
        p == req[r].port
    IN  /\ At(r, "call")
        /\ \/ /\ Exposable(i, p)
              /\ rules' = [rules EXCEPT ![i][p] = NodePort(i, p)]
              /\ \/ /\ req' = [req EXCEPT ![r].pc = "row", ![r].node = NodePort(i, p)]
                    /\ UNCHANGED <<mu, faults, hurt>>
                 \/ Fault("lost") /\ hurt' = hurt \cup {<<i, p>>} /\ Failed(r)
           \/ ~Exposable(i, p) /\ Failed(r) /\ UNCHANGED <<rules, faults, hurt>>
           \/ Fault("fail") /\ Failed(r) /\ UNCHANGED <<rules, hurt>>
        /\ UNCHANGED <<sb, left>>

\* The row.  exposeCommon looks for the name again, a fork does not.
AddRow(r) ==
    LET i == req[r].id
        same == Named(i, req[r].name)
    IN  /\ At(r, "row")
        /\ sb' = IF Exists(i) /\ (req[r].op = "fork" \/ same = {})
                 THEN [sb EXCEPT ![i].rows = Append(@, Row(req[r].name, req[r].port, req[r].node))]
                 ELSE sb
        /\ IF req[r].op = "fork" THEN Goto(r, "next") /\ UNCHANGED mu
           ELSE /\ Answer(r, Exists(i) /\ \A k \in same : sb[i].rows[k].port = req[r].port)
                /\ mu' = None
        /\ UNCHANGED <<rules, left, faults, hurt>>

----------------------------------------------------------------------------
(* fork. *)

\* The record of the child, and a copy of the parent's rows.
Fork(r) ==
    /\ Comes(r, "fork")
    /\ \E i, j \in Sandboxes :
          /\ sb[i].state \in {"running", "sleeping"} /\ sb[j].state = "absent"
          /\ sb' = [sb EXCEPT ![j].state = "creating"]
          /\ req' = [req EXCEPT ![r] = [Idle EXCEPT !.op = "fork", !.pc = "forked", !.id = j,
                                                    !.src = i, !.todo = sb[i].rows]]
    /\ UNCHANGED <<rules, mu, faults, hurt>>

\* The agent's answer.  A record that is gone by then is not changed.
Forked(r) ==
    LET j == req[r].id
        there == rules[req[r].src] # None
    IN
    /\ At(r, "forked")
    /\ \/ /\ there
          /\ rules' = [rules EXCEPT ![j] = NoRules]
          /\ sb' = IF Exists(j) THEN [sb EXCEPT ![j].state = "running", ![j].ip = TRUE] ELSE sb
          /\ IF req[r].todo = <<>> THEN Answer(r, TRUE) ELSE Goto(r, "lock")
          /\ UNCHANGED faults
       \/ /\ \/ ~there /\ UNCHANGED <<rules, faults>>
             \/ Fault("fail") /\ UNCHANGED rules
             \/ there /\ Fault("lost") /\ rules' = [rules EXCEPT ![j] = NoRules]
          /\ sb' = IF Exists(j) THEN [sb EXCEPT ![j].state = "error"] ELSE sb
          /\ Answer(r, FALSE)
    /\ UNCHANGED <<mu, left, hurt>>

\* Mutation of Lock: the exposes of the child are made without exposeMu.
LockForgotten(r) ==
    /\ At(r, "lock") /\ Goto(r, "next")
    /\ UNCHANGED <<sb, rules, mu, left, faults, hurt>>

\* reExposeFork holds exposeMu for all of them.
Lock(r) ==
    /\ At(r, "lock") /\ mu = None /\ mu' = r /\ Goto(r, "next")
    /\ UNCHANGED <<sb, rules, left, faults, hurt>>

\* The next one, within the limits.
NextRow(r) ==
    LET j == req[r].id
        e == Head(req[r].todo)
    IN  /\ At(r, "next")
        /\ IF /\ req[r].todo # <<>> /\ Exists(j)
              /\ Len(sb[j].rows) < MaxPerSandbox /\ Total < MaxPerTenant
           THEN /\ req' = [req EXCEPT ![r].pc = "call", ![r].name = e.name, ![r].port = e.port,
                                      ![r].todo = Tail(@)]
                /\ UNCHANGED mu
           ELSE Answer(r, TRUE) /\ mu' = None
        /\ UNCHANGED <<sb, rules, left, faults, hurt>>

----------------------------------------------------------------------------
(* unexpose, and the dynamic exposes of a sandbox that falls asleep. *)

BeginUnexpose(r) ==
    /\ Comes(r, "unexpose")
    /\ \E i \in Sandboxes, n \in Labels :
          /\ Exists(i)
          /\ req' = [req EXCEPT ![r] = [Idle EXCEPT !.op = "unexpose", !.pc = "find", !.id = i,
                                                    !.name = n]]
    /\ UNCHANGED <<sb, rules, mu, faults, hurt>>

Find(r) ==
    LET i == req[r].id
        same == Named(i, req[r].name)
    IN  /\ At(r, "find") /\ mu = None
        /\ IF same = {} THEN Answer(r, FALSE) /\ UNCHANGED mu
           ELSE /\ req' = [req EXCEPT ![r].pc = "look", ![r].port = sb[i].rows[Min(same)].port]
                /\ mu' = r
        /\ UNCHANGED <<sb, rules, left, faults, hurt>>

\* autoSleep: the sandbox sleeps, and its dynamic exposes are listed.  What may
\* come between the check, the agent's sleep and the record is in ControlPlane.
AutoSleep(r) ==
    /\ Comes(r, "autosleep")
    /\ \E i \in Sandboxes :
          /\ Obeys(i, "running")
          /\ sb' = [sb EXCEPT ![i].state = "sleeping"]
          /\ req' = [req EXCEPT ![r] = [Idle EXCEPT !.op = "autosleep", !.pc = "sweep", !.id = i,
                       !.todo = SelectSeq(sb[i].rows, LAMBDA e : e.name \in Ports)]]
    /\ UNCHANGED <<rules, mu, faults, hurt>>

Sweep(r) ==
    LET e == Head(req[r].todo) IN
    /\ At(r, "sweep")
    /\ IF req[r].todo = <<>> THEN Answer(r, TRUE)
       ELSE req' = [req EXCEPT ![r].pc = "look", ![r].name = e.name, ![r].port = e.port,
                               ![r].todo = Tail(@)]
    /\ UNCHANGED <<sb, rules, mu, left, faults, hurt>>

\* Mutation of Shared: the rule goes with any of its rows.
SharedIgnored(i, n, p) == FALSE

\* Is the guest port exposed under another name, too?  The rule stays then.
Shared(i, n, p) == \E k \in DOMAIN sb[i].rows : sb[i].rows[k].name # n /\ sb[i].rows[k].port = p

\* The sweep takes exposeMu here, and has no agent to call for a sandbox that
\* is gone.
Look(r) ==
    LET i == req[r].id IN
    /\ At(r, "look") /\ mu \in {None, r} /\ mu' = r
    /\ Goto(r, IF \/ Shared(i, req[r].name, req[r].port)
                  \/ req[r].op = "autosleep" /\ ~Exists(i) THEN "drop" ELSE "uncall")
    /\ UNCHANGED <<sb, rules, left, faults, hurt>>

\* agentUnexpose: no rule is fine, no VM is a failure.
Uncall(r) ==
    LET i == req[r].id
        p == req[r].port
    IN  /\ At(r, "uncall")
        /\ \/ /\ rules[i] # None
              /\ rules' = [rules EXCEPT ![i][p] = None]
              /\ \/ Goto(r, "drop") /\ UNCHANGED <<mu, faults, hurt>>
                 \/ Fault("lost") /\ hurt' = hurt \cup {<<i, p>>} /\ Failed(r)
           \/ rules[i] = None /\ Failed(r) /\ UNCHANGED <<rules, faults, hurt>>
           \/ Fault("fail") /\ Failed(r) /\ UNCHANGED <<rules, hurt>>
        /\ UNCHANGED <<sb, left>>

\* The rows of the name go; a sandbox that is gone has none.
DropRow(r) ==
    LET i == req[r].id IN
    /\ At(r, "drop")
    /\ sb' = [sb EXCEPT ![i].rows = SelectSeq(@, LAMBDA e : e.name # req[r].name)]
    /\ mu' = None
    /\ IF req[r].op = "autosleep" THEN Goto(r, "sweep") ELSE Answer(r, TRUE)
    /\ UNCHANGED <<rules, left, faults, hurt>>

----------------------------------------------------------------------------
(* What goes on meanwhile, without exposeMu. *)

\* sleep and wake of a client.
Sleep(r) ==
    /\ Comes(r, "sleep")
    /\ \E i \in Sandboxes : Obeys(i, "running") /\ sb' = [sb EXCEPT ![i].state = "sleeping"]
    /\ UNCHANGED <<rules, mu, req, faults, hurt>>

Wake(r) ==
    /\ Comes(r, "wake")
    /\ \E i \in Sandboxes : Obeys(i, "sleeping") /\ sb' = [sb EXCEPT ![i].state = "running"]
    /\ UNCHANGED <<rules, mu, req, faults, hurt>>

\* deleteSandbox: the VM and its rules, then the record.
Delete(r) ==
    /\ Comes(r, "delete")
    /\ \E i \in Sandboxes :
          /\ Exists(i)
          /\ rules' = [rules EXCEPT ![i] = None]
          /\ \/ /\ req' = [req EXCEPT ![r] = [Idle EXCEPT !.op = "delete", !.pc = "forget", !.id = i]]
                /\ UNCHANGED faults
             \/ Fault("lost") /\ UNCHANGED req
    /\ UNCHANGED <<sb, mu, hurt>>

Forget(r) ==
    /\ At(r, "forget")
    /\ sb' = [sb EXCEPT ![req[r].id] = [NoSandbox EXCEPT !.state = "gone"]]
    /\ Answer(r, TRUE)
    /\ UNCHANGED <<rules, mu, left, faults, hurt>>

\* What a request does by itself.
Step(r) ==
    \/ Check(r) \/ Call(r) \/ AddRow(r) \/ Forked(r) \/ Lock(r) \/ NextRow(r)
    \/ Find(r) \/ Sweep(r) \/ Look(r) \/ Uncall(r) \/ DropRow(r) \/ Forget(r)

\* What comes in.
Arrive(r) ==
    \/ BeginExpose(r) \/ Fork(r) \/ BeginUnexpose(r) \/ AutoSleep(r)
    \/ Sleep(r) \/ Wake(r) \/ Delete(r)

----------------------------------------------------------------------------
\* The limits hold, of a sandbox and over all sandboxes of its tenant, whatever
\* exposes, dynamic routes and forks run at once ("the loop itself is what
\* moves the totals", reExposeFork).
CapsHold ==
    /\ \A i \in Sandboxes : Len(sb[i].rows) <= MaxPerSandbox
    /\ Total <= MaxPerTenant

\* The rows of a sandbox and the rules of its VM say the same, once no request
\* is between the two: no rule is left that no row accounts for, and no row
\* leads to a port that is another guest's ("two racing exposes of one name
\* leak an unaccounted agent DNAT entry", "two racing unexposes of names sharing
\* a guest port can both skip the agent removal", Server.exposeMu).  A guest port
\* of which an answer was lost is left out.
RowsMatchRules ==
    \A i \in Sandboxes, p \in Ports :
        /\ Exists(i) /\ rules[i] # None /\ <<i, p>> \notin hurt
        /\ \A r \in DOMAIN req : mu = r => req[r].id # i
        => {sb[i].rows[k].node : k \in {l \in DOMAIN sb[i].rows : sb[i].rows[l].port = p}}
             = {rules[i][p]} \ {None}

\* A sandbox has one row of a name ("409 when the name is taken by a different
\* port", exposeSandbox).
NamesUnique ==
    \A i \in Sandboxes, n \in Labels : Cardinality(Named(i, n)) <= 1
=============================================================================
