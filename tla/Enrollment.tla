----------------------------- MODULE Enrollment -----------------------------
(***************************************************************************)
(* How a worker joins the fleet and stays in it: the boot of felucca-agent *)
(* (rust/agent/src/main.rs, wg.rs, config.rs), its registration and        *)
(* heartbeat loop (registration.rs), and the three handlers of feluccad    *)
(* they talk to (nodeJoin, agentRegister and agentHeartbeat).              *)
(*                                                                         *)
(* A worker owns three files, each written by one step of its boot: the    *)
(* WireGuard key (wg.key), the grant of its overlay address (wg.json) and  *)
(* its credential (node-token).  feluccad keeps the join tokens, the peers *)
(* and the credentials in sqlite and the node records in memory and in a   *)
(* snapshot.  Either side can stop between two writes, a write can fail,   *)
(* and an answer can be lost: each of those spends one of MaxFaults.       *)
(***************************************************************************)
EXTENDS Naturals, FiniteSets

CONSTANTS
    Workers,    \* worker hosts, which also are their hostnames
    Tokens,     \* join tokens the operator may mint
    Ips,        \* overlay addresses of the subnet, ordered
    Creds,      \* node credentials feluccad may mint, ordered
    NodeIds,    \* node ids feluccad may draw, ordered
    MaxKeys,    \* bound: key pairs one worker generates
    MaxBoots,   \* bound: times one worker is started
    MaxFaults,  \* bound: faults of a behaviour
    Mishaps,    \* what can go wrong, a subset of FaultKinds
    None        \* no value: Rust's None, Go's nil and ""

FaultKinds == {"crash",    \* the agent is killed
               "hubcrash", \* feluccad is killed and started again
               "lost",     \* a request or its answer does not arrive
               "disk",     \* a file of the worker cannot be written
               "torn",     \* the agent is killed while it writes wg.key
               "store",    \* a sqlite call or the snapshot of feluccad fails
               "install",  \* `wg set peer` fails on the hub, or `ip` on the worker
               "expire",   \* a join token grows older than its TTL
               "stale",    \* a partition outlives StaleNodeTTL
               "rekey"}    \* the operator re-enrolls a worker under a new key

ASSUME EnrollmentAssumption ==
    /\ Ips \subseteq Nat /\ Creds \subseteq Nat /\ NodeIds \subseteq Nat
    /\ MaxKeys \in Nat /\ MaxBoots \in Nat /\ MaxFaults \in Nat
    /\ Mishaps \subseteq FaultKinds
    /\ None \notin Workers \cup Tokens \cup Ips \cup Creds \cup NodeIds

VARIABLES
    key,      \* wg.key of each worker: 0, the number of a key pair, or Torn
    made,     \* the number of key pairs each worker has generated
    grant,    \* wg.json of each worker: its overlay address
    file,     \* node-token of each worker
    flag,     \* the --join-token each worker is started with
    boots,    \* how often each worker was started
    pc,       \* where each agent is
    cred,     \* node_token: the credential each agent holds in memory
    got,      \* the grant of the join in progress
    id,       \* node_id of each agent
    tokens,   \* the join tokens: unminted, fresh, used or expired
    peers,    \* wg_peers: the overlay address of each public key
    creds,    \* node_creds: the credential of each overlay address
    nodes,    \* the node records in feluccad's memory
    recorded, \* the node records of its last snapshot
    calls,    \* join requests feluccad has not answered yet
    join,     \* the join that holds joinMu
    faults    \* faults so far

agent == <<key, made, grant, file, flag, boots, pc, cred, got, id>>
hub == <<tokens, peers, creds, nodes, recorded, calls, join>>
enrollVars == <<key, made, grant, file, flag, boots, pc, cred, got, id,
                tokens, peers, creds, nodes, recorded, calls, join, faults>>

NoKey == 0
Torn == MaxKeys + 1
Keys == Workers \X (1 .. MaxKeys)      \* public keys, as feluccad sees them
NoGrant == [ip |-> None, cred |-> None]
NoJoin == [at |-> "free", call |-> None, ip |-> None, cred |-> None]

EnrollInit ==
    /\ key = [w \in Workers |-> NoKey]
    /\ made = [w \in Workers |-> 0]
    /\ grant = [w \in Workers |-> None]
    /\ file = [w \in Workers |-> None]
    /\ flag = [w \in Workers |-> None]
    /\ boots = [w \in Workers |-> 0]
    /\ pc = [w \in Workers |-> "down"]
    /\ cred = [w \in Workers |-> None]
    /\ got = [w \in Workers |-> NoGrant]
    /\ id = [w \in Workers |-> None]
    /\ tokens = [t \in Tokens |-> "unminted"]
    /\ peers = [k \in Keys |-> None]
    /\ creds = [i \in Ips |-> None]
    /\ nodes = {}
    /\ recorded = {}
    /\ calls = {}
    /\ join = NoJoin
    /\ faults = 0

----------------------------------------------------------------------------
\* One fault of kind k happens in this step.
Fault(k) == k \in Mishaps /\ faults < MaxFaults /\ faults' = faults + 1

Lowest(S, x) == x \in S /\ \A y \in S : x <= y

\* fatal and every exit of the process: what the agent had in memory is gone.
Down(w) ==
    /\ pc' = [pc EXCEPT ![w] = "down"]
    /\ cred' = [cred EXCEPT ![w] = None]
    /\ got' = [got EXCEPT ![w] = NoGrant]
    /\ id' = [id EXCEPT ![w] = None]

Reach(w, l) == pc' = [pc EXCEPT ![w] = l]

AgentCrash(w) ==
    /\ pc[w] # "down"
    /\ Fault("crash")
    /\ Down(w)
    /\ UNCHANGED <<hub, key, made, grant, file, flag, boots>>

----------------------------------------------------------------------------
(* The operator. *)

\* POST /api/v1/join-tokens, and the flags of a worker that is not enrolled.
\* The operator may mint another token while the last one is still good.
Provision(w) ==
    /\ pc[w] = "down" /\ grant[w] = None
    /\ \E t \in Tokens :
          /\ tokens[t] = "unminted"
          /\ tokens' = [tokens EXCEPT ![t] = "fresh"]
          /\ flag' = [flag EXCEPT ![w] = t]
    /\ UNCHANGED <<key, made, grant, file, boots, pc, cred, got, id,
                   peers, creds, nodes, recorded, calls, join, faults>>

\* DEPLOYMENT.md 6.7: stop the agent, remove wg.json and wg.key, "plus
\* node-token if you are recovering a lost credential".
Rekey(w) ==
    /\ key[w] # NoKey
    /\ Fault("rekey")
    /\ Down(w)
    /\ grant' = [grant EXCEPT ![w] = None]
    /\ key' = [key EXCEPT ![w] = NoKey]
    /\ file' \in {file, [file EXCEPT ![w] = None]}
    /\ UNCHANGED <<hub, made, flag, boots>>

Expire(t) ==
    /\ tokens[t] = "fresh"
    /\ Fault("expire")
    /\ tokens' = [tokens EXCEPT ![t] = "expired"]
    /\ UNCHANGED <<agent, peers, creds, nodes, recorded, calls, join>>

----------------------------------------------------------------------------
(* The boot of the agent: main.rs. *)

\* load_node_token and load_state: a grant on disk takes precedence over
\* --join; without one the worker joins with the token it was given.
Boot(w) ==
    /\ pc[w] = "down"
    /\ boots[w] < MaxBoots
    /\ grant[w] # None \/ flag[w] # None
    /\ boots' = [boots EXCEPT ![w] = @ + 1]
    /\ cred' = [cred EXCEPT ![w] = file[w]]
    /\ Reach(w, IF grant[w] # None THEN "overlay" ELSE "key")
    /\ UNCHANGED <<hub, key, made, grant, file, flag, got, id, faults>>

\* ensure_key: a key is generated only when there is no file; an empty one is
\* fatal.  The file is written in place, so a crash can leave it empty.
EnsureKey(w) ==
    /\ pc[w] = "key"
    /\ \/ /\ key[w] \in 1 .. MaxKeys
          /\ Reach(w, "join")
          /\ UNCHANGED <<key, made, cred, got, id, faults>>
       \/ /\ key[w] = NoKey /\ made[w] < MaxKeys
          /\ made' = [made EXCEPT ![w] = @ + 1]
          /\ key' = [key EXCEPT ![w] = made[w] + 1]
          /\ Reach(w, "join")
          /\ UNCHANGED <<cred, got, id, faults>>
       \/ /\ key[w] = NoKey
          /\ Fault("torn")
          /\ key' = [key EXCEPT ![w] = Torn]
          /\ Down(w)
          /\ UNCHANGED made
       \/ /\ key[w] = Torn
          /\ Down(w)
          /\ UNCHANGED <<key, made, faults>>
    /\ UNCHANGED <<hub, grant, file, flag, boots>>

\* join: the body has the public key and the hostname and nothing else.
Call(w) == [w |-> w, key |-> <<w, key[w]>>, token |-> flag[w], boot |-> boots[w]]

SendJoin(w) ==
    /\ pc[w] = "join"
    /\ \/ /\ calls' = calls \cup {Call(w)}
          /\ Reach(w, "joining")
          /\ UNCHANGED <<cred, got, id, faults>>
       \/ Fault("lost") /\ Down(w) /\ UNCHANGED calls
    /\ UNCHANGED <<key, made, grant, file, flag, boots,
                   tokens, peers, creds, nodes, recorded, join>>

\* The 30 seconds are over, or the connection broke: fatal.  feluccad may
\* still be working on the request, or have it in a queue.
JoinTimeout(w) ==
    /\ pc[w] = "joining"
    /\ \/ Fault("lost")
       \/ UNCHANGED faults /\ Call(w) \notin calls /\ join.call # Call(w)
    /\ Down(w)
    /\ UNCHANGED <<hub, key, made, grant, file, flag, boots>>

\* save_state: temp file and rename.
SaveState(w) ==
    /\ pc[w] = "granted"
    /\ \/ /\ grant' = [grant EXCEPT ![w] = got[w].ip]
          /\ Reach(w, "adopt")
          /\ UNCHANGED <<cred, got, id, faults>>
       \/ Fault("disk") /\ Down(w) /\ UNCHANGED grant
    /\ UNCHANGED <<hub, key, made, file, flag, boots>>

\* adopt_node_token at enrollment: a credential that cannot be saved is fatal.
AdoptNodeToken(w) ==
    /\ pc[w] = "adopt"
    /\ \/ /\ file' = [file EXCEPT ![w] = got[w].cred]
          /\ cred' = [cred EXCEPT ![w] = got[w].cred]
          /\ got' = [got EXCEPT ![w] = NoGrant]
          /\ Reach(w, "overlay")
          /\ UNCHANGED <<id, faults>>
       \/ Fault("disk") /\ Down(w) /\ UNCHANGED file
    /\ UNCHANGED <<hub, key, made, grant, flag, boots>>

\* validate_join_info and ensure_interface, the fences of the guest network,
\* and the start of the heartbeat loop.
BringUp(w) ==
    /\ pc[w] = "overlay"
    /\ \/ Reach(w, "register") /\ UNCHANGED <<cred, got, id, faults>>
       \/ Fault("install") /\ Down(w)
    /\ UNCHANGED <<hub, key, made, grant, file, flag, boots>>

----------------------------------------------------------------------------
(* feluccad: nodeJoin, under joinMu. *)

\* The answer reaches the agent that sent the request, if it still waits.
\* 200 is a grant; every other status is fatal.
Waits(c) == pc[c.w] = "joining" /\ boots[c.w] = c.boot

Answer(c, g) ==
    /\ join' = NoJoin
    /\ IF Waits(c) /\ g # NoGrant
       THEN /\ Reach(c.w, "granted")
            /\ got' = [got EXCEPT ![c.w] = g]
            /\ UNCHANGED <<cred, id>>
       ELSE IF Waits(c) THEN Down(c.w) ELSE UNCHANGED <<pc, cred, got, id>>

Refuse(c) == Answer(c, NoGrant)

\* Mutation of Taken: an address is taken once it has a credential.
TakenWithCred == {i \in Ips : creds[i] # None}

Taken == {peers[k] : k \in Keys} \ {None}

\* Mutation of RejoinAuthorized: a join token is proof enough.
RejoinUnproven(c) == c.key \in Keys

\* rejoinAuthorized: the agent presents no node_token, so only an address
\* that has no credential yet may be joined again.
RejoinAuthorized(c) == creds[peers[c.key]] = None

\* Mutation of CreateWgPeer: the upsert goes by hostname.
CreateWgPeerByHost(c, i) ==
    peers' = [k \in Keys |-> IF k = c.key THEN i ELSE IF k[1] = c.w THEN None ELSE peers[k]]

CreateWgPeer(c, i) == peers' = [peers EXCEPT ![c.key] = i]

\* CheckJoinToken, the address of a known key or the lowest free one, and
\* CreateWgPeer: 401, 409, 503 and 500 leave everything as it was, and so
\* does a client that hung up before the token was looked up.
JoinPeer ==
    /\ join.at = "free"
    /\ \E c \in calls :
          /\ calls' = calls \ {c}
          /\ \/ /\ \/ tokens[c.token] # "fresh" /\ UNCHANGED faults
                   \/ peers[c.key] # None /\ ~RejoinAuthorized(c) /\ UNCHANGED faults
                   \/ peers[c.key] = None /\ Ips \ Taken = {} /\ UNCHANGED faults
                   \/ ~Waits(c) /\ UNCHANGED faults
                   \/ Fault("store")
                /\ Refuse(c)
                /\ UNCHANGED peers
             \/ /\ tokens[c.token] = "fresh"
                /\ \E i \in Ips :
                      /\ IF peers[c.key] = None THEN Lowest(Ips \ Taken, i)
                         ELSE i = peers[c.key] /\ RejoinAuthorized(c)
                      /\ CreateWgPeer(c, i)
                      /\ join' = [at |-> "install", call |-> c, ip |-> i, cred |-> None]
                /\ UNCHANGED <<pc, cred, got, id, faults>>
    /\ UNCHANGED <<key, made, grant, file, flag, boots, tokens, creds, nodes, recorded>>

\* Mutation of InstallPeer: the token is consumed before the credential is put.
InstallThenConsume ==
    /\ join.at = "install"
    /\ \/ join' = [join EXCEPT !.at = "consume"] /\ UNCHANGED <<pc, cred, got, id, faults>>
       \/ Fault("install") /\ Refuse(join.call)
    /\ UNCHANGED <<key, made, grant, file, flag, boots,
                   tokens, peers, creds, nodes, recorded, calls>>

\* addPeer: `wg set` on the hub.
InstallPeer ==
    /\ join.at = "install"
    /\ \/ join' = [join EXCEPT !.at = "cred"] /\ UNCHANGED <<pc, cred, got, id, faults>>
       \/ Fault("install") /\ Refuse(join.call)
    /\ UNCHANGED <<key, made, grant, file, flag, boots,
                   tokens, peers, creds, nodes, recorded, calls>>

Minted == {creds[i] : i \in Ips} \cup {join.cred}
          \cup UNION {{file[w], cred[w], got[w].cred} : w \in Workers}

\* newNodeToken and putNodeCred: the inbound index moves with the row.
PutNodeCred ==
    /\ join.at = "cred"
    /\ \/ \E n \in Creds :
             /\ Lowest(Creds \ Minted, n)
             /\ creds' = [creds EXCEPT ![join.ip] = n]
             /\ join' = [join EXCEPT !.at = "consume", !.cred = n]
             /\ UNCHANGED <<pc, cred, got, id, faults>>
       \/ Fault("store") /\ Refuse(join.call) /\ UNCHANGED creds
    /\ UNCHANGED <<key, made, grant, file, flag, boots,
                   tokens, peers, nodes, recorded, calls>>

\* ConsumeJoinToken, last: a failure or a token that is no longer fresh is 500.
ConsumeToken ==
    /\ join.at = "consume"
    /\ \/ /\ tokens[join.call.token] = "fresh"
          /\ tokens' = [tokens EXCEPT ![join.call.token] = "used"]
          /\ Answer(join.call, [ip |-> join.ip, cred |-> join.cred])
          /\ UNCHANGED faults
       \/ /\ \/ tokens[join.call.token] # "fresh" /\ UNCHANGED faults
             \/ Fault("store")
          /\ Refuse(join.call)
          /\ UNCHANGED tokens
    /\ UNCHANGED <<key, made, grant, file, flag, boots,
                   peers, creds, nodes, recorded, calls>>

----------------------------------------------------------------------------
(* Registration and heartbeats. *)

\* authenticate, on the bearer of outbound_token: the shared token is the
\* admin's; a node credential must be the current one of some address.
Authenticated(w) == cred[w] = None \/ \E i \in Ips : creds[i] = cred[w]

\* nodeMayRegisterLocked: a node credential may only register the address it
\* was issued for, under the hostname that address already has.
MayRegister(w) ==
    cred[w] # None =>
        /\ creds[grant[w]] = cred[w]
        /\ \A n \in nodes : n.host = w <=> n.addr = grant[w]

Drawn == {n.id : n \in nodes \cup recorded} \cup {id[w] : w \in Workers}

\* RegisterNodeGuarded: the record of a hostname keeps its id.
Registration(w, n) ==
    IF \E m \in nodes : m.host = w
    THEN \E m \in nodes : m.host = w /\ n = [m EXCEPT !.addr = grant[w]]
    ELSE \E i \in NodeIds : Lowest(NodeIds \ Drawn, i) /\ n = [id |-> i, host |-> w, addr |-> grant[w]]

\* register_once and agentRegister.  A request that is lost, rejected or not
\* admitted changes nothing and is sent again after 5 seconds; so is one
\* whose answer does not arrive, although the node is registered by then.
RegisterOnce(w) ==
    /\ pc[w] = "register"
    /\ Authenticated(w) /\ MayRegister(w)
    /\ \E n \in [id : NodeIds, host : {w}, addr : {grant[w]}] :
          /\ Registration(w, n)
          /\ nodes' = {m \in nodes : m.host # w} \cup {n}
          /\ \/ /\ recorded' = nodes'
                /\ id' = [id EXCEPT ![w] = n.id]
                /\ Reach(w, "beat")
                /\ UNCHANGED faults
             \/ /\ Fault("store")
                /\ id' = [id EXCEPT ![w] = n.id]
                /\ Reach(w, "beat")
                /\ UNCHANGED recorded
             \/ /\ Fault("lost")
                /\ recorded' = nodes'
                /\ UNCHANGED <<id, pc>>
    /\ UNCHANGED <<key, made, grant, file, flag, boots, cred, got,
                   tokens, peers, creds, calls, join>>

\* Mutation of Recognised: an id that nobody has is answered 200.
RecognisedOrUnknown(w) ==
    \A n \in nodes : n.id = id[w] => (cred[w] # None => creds[n.addr] = cred[w])

\* heartbeat_once and agentHeartbeat: feluccad knows the id and, for a node
\* credential, its record has the address of that credential.
Recognised(w) ==
    \E n \in nodes : n.id = id[w] /\ (cred[w] # None => creds[n.addr] = cred[w])

\* 404, the only status heartbeat_outcome repairs.  Every other answer, and a
\* missing one, leaves the loop as it is.
HeartbeatUnknown(w) ==
    /\ pc[w] = "beat"
    /\ Authenticated(w) /\ ~Recognised(w)
    /\ id' = [id EXCEPT ![w] = None]
    /\ Reach(w, "register")
    /\ UNCHANGED <<hub, key, made, grant, file, flag, boots, cred, got, faults>>

\* reclaimStaleNodesLocked drops a record at the node ceiling; the agent
\* behind it may have been unreachable only.
Reclaim(n) ==
    /\ Fault("stale")
    /\ nodes' = nodes \ {n}
    /\ recorded' = nodes'
    /\ UNCHANGED <<agent, tokens, peers, creds, calls, join>>

\* A restart of feluccad reads sqlite and the last snapshot; the requests it
\* was working on are gone.
HubCrash ==
    /\ Fault("hubcrash")
    /\ nodes' = recorded
    /\ calls' = {}
    /\ join' = NoJoin
    /\ UNCHANGED <<agent, tokens, peers, creds, recorded>>

----------------------------------------------------------------------------
AgentStep(w) ==
    \/ EnsureKey(w) \/ SendJoin(w) \/ JoinTimeout(w) \/ SaveState(w)
    \/ AdoptNodeToken(w) \/ BringUp(w) \/ RegisterOnce(w) \/ HeartbeatUnknown(w)

HubStep == JoinPeer \/ InstallPeer \/ PutNodeCred \/ ConsumeToken

EnrollNext ==
    \/ \E w \in Workers : Provision(w) \/ Rekey(w) \/ Boot(w) \/ AgentStep(w) \/ AgentCrash(w)
    \/ HubStep
    \/ \E t \in Tokens : Expire(t)
    \/ \E n \in nodes : Reclaim(n)
    \/ HubCrash

\* The tasks of both processes keep running, a request that is not lost is
\* answered, and a broken connection is noticed.  Nobody has to start a worker.
EnrollSpec ==
    /\ EnrollInit /\ [][EnrollNext]_enrollVars
    /\ \A w \in Workers : WF_enrollVars(AgentStep(w))
    /\ WF_enrollVars(HubStep)

----------------------------------------------------------------------------
Calls == [w : Workers, key : Keys, token : Tokens, boot : 1 .. MaxBoots]

Labels == {"down", "key", "join", "joining", "granted", "adopt", "overlay", "register", "beat"}

Records == [id : NodeIds, host : Workers, addr : Ips]

\* Every variable has its type: what the files, the agents and feluccad hold.
TypeOK ==
    /\ key \in [Workers -> 0 .. Torn]
    /\ made \in [Workers -> 0 .. MaxKeys]
    /\ grant \in [Workers -> Ips \cup {None}]
    /\ file \in [Workers -> Creds \cup {None}]
    /\ flag \in [Workers -> Tokens \cup {None}]
    /\ boots \in [Workers -> 0 .. MaxBoots]
    /\ pc \in [Workers -> Labels]
    /\ cred \in [Workers -> Creds \cup {None}]
    /\ got \in [Workers -> [ip : Ips, cred : Creds] \cup {NoGrant}]
    /\ id \in [Workers -> NodeIds \cup {None}]
    /\ tokens \in [Tokens -> {"unminted", "fresh", "used", "expired"}]
    /\ peers \in [Keys -> Ips \cup {None}]
    /\ creds \in [Ips -> Creds \cup {None}]
    /\ nodes \in SUBSET Records
    /\ recorded \in SUBSET Records
    /\ calls \in SUBSET Calls
    /\ join \in [at : {"free", "install", "cred", "consume"}, call : Calls \cup {None},
                ip : Ips \cup {None}, cred : Creds \cup {None}]
    /\ join.at # "free" => join.call \in Calls /\ join.ip \in Ips
    /\ join.at = "consume" => join.cred \in Creds
    /\ faults \in 0 .. MaxFaults

\* No two public keys have the same overlay address (AllocateOverlayIP under
\* joinMu), whatever joins failed half-way: two workers with one address would
\* take over each other's tunnel, record and credential.
AddressesDisjoint ==
    \A k, l \in Keys : peers[k] # None /\ peers[k] = peers[l] => k = l

\* A worker that has a wg.json is a peer of the hub under the key it has on
\* disk and the address of the file: the tunnel it brings up on every boot is
\* one that feluccad will install again after its own restart.
GrantBacked ==
    \A w \in Workers : grant[w] # None =>
        key[w] \in 1 .. MaxKeys /\ peers[<<w, key[w]>>] = grant[w]

\* The worker still has the identity it was first enrolled with.
FirstKey(w) == made[w] = 1

\* An enrolled agent that holds a credential holds the one feluccad has for
\* its address, in memory and in node-token: no late, repeated or half-failed
\* join rotates it behind the worker's back (rejoinAuthorized).  A worker that
\* was given a new key may have an older node-token left on its disk.
CredentialCurrent ==
    \A w \in Workers : grant[w] # None /\ FirstKey(w) =>
        /\ cred[w] # None => creds[grant[w]] = cred[w]
        /\ file[w] # None => creds[grant[w]] = file[w]

\* A join token is burned only for an enrolment that is complete on the hub
\* ("the token is consumed LAST"): there are never more used tokens than
\* peers that have a credential.
BurnedIsEnrolled ==
    Cardinality({t \in Tokens : tokens[t] = "used"})
        <= Cardinality({k \in Keys : peers[k] # None /\ creds[peers[k]] # None})

Registered(w) ==
    \E n \in nodes : n.id = id[w] /\ n.host = w /\ n.addr = grant[w]

\* When the faults are over, every agent that is up under its first key ends
\* up registered with its own address and stays so, even if feluccad came back
\* on an older snapshot or reclaimed the record (heartbeat_outcome: 404
\* re-registers).
StaysRegistered ==
    \A w \in Workers :
        <>[](pc[w] \in {"register", "beat"} /\ FirstKey(w) => Registered(w))

\* What DEPLOYMENT.md says of a worker that is given a fresh key: it "gets a
\* new overlay address and the node re-registers under it".  An agent that
\* wants to register and is not killed does register.
ReenrolledRegisters ==
    \A w \in Workers : pc[w] = "register" ~> (Registered(w) \/ pc[w] = "down")

\* What main.rs says of the credential: "an agent never starts on one that
\* feluccad's calls will not match".  feluccad presents the credential of the
\* address and nothing else (nodeDial); an agent without it answers 401.
AgentMatchesHub ==
    \A w \in Workers : pc[w] \in {"register", "beat"} =>
        creds[grant[w]] \in {None, cred[w]}

=============================================================================
