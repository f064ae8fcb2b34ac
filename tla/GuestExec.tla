----------------------------- MODULE GuestExec -----------------------------
(***************************************************************************)
(* Commands in a guest: the exec handlers and the vsock client of the      *)
(* agent (rust/agent/src/server.rs, guestclient.rs) on one side, felucca-  *)
(* guest (rust/guest/src: protocol.rs, exec.rs, netcfg.rs) on the other.   *)
(*                                                                         *)
(* The agent has MaxSlots permits for conversations with guests.  In the   *)
(* guest every connection has a thread, and an exec adds one reader per    *)
(* stream and a waiter that talk to it over one channel.  Time is          *)
(* abstract: a deadline may expire at any moment, and does in the end.     *)
(***************************************************************************)
EXTENDS Naturals, Sequences, FiniteSetsExt

CONSTANTS
    Execs,      \* exec requests
    Readdress,  \* set_ip conversations of forks with their child
    Streams,    \* stdout and stderr
    MaxSlots,   \* MAX_CONCURRENT_GUEST_CALLS
    MaxBytes,   \* bound: bytes one command writes
    Cap,        \* MAX_OUTPUT_BYTES and STREAM_MAX_OUTPUT_BYTES
    Room,       \* frames the connection buffers before a writer blocks
    MaxTries,   \* attempts of set_ip
    Modes,      \* the execs of a run: "buffered", "streamed"
    Helpers,    \* what a command may leave behind: "group", "escaped"
    Faults,     \* a subset of {"connect", "spawn", "vm"}
    None

ASSUME GuestAssumption ==
    /\ {MaxSlots, MaxBytes, Cap, Room, MaxTries} \subseteq Nat \ {0}
    /\ Modes \subseteq {"buffered", "streamed"}
    /\ Helpers \subseteq {"group", "escaped"}
    /\ Faults \subseteq {"connect", "spawn", "vm"}
    /\ Execs \cap Readdress = {}
    /\ None \notin {"exit", "killed", "failed"}

Calls == Execs \cup Readdress

VARIABLES
    slots,  \* free permits of GUEST_SLOTS
    host,   \* each call in the agent
    net,    \* the frames on each connection
    guest,  \* the thread of each connection in the guest
    cmd,    \* the command, its readers and its waiter
    addr,   \* the address of eth0 in the forked guest: parent's, none or own
    route,  \* whether it has a default route
    work    \* the set_ip handlers of the guest, one per attempt

vars == <<slots, host, net, guest, cmd, addr, route, work>>

Zero == [s \in Streams |-> 0]

NewHost == [pc |-> "idle", mode |-> None, got |-> Zero, tries |-> 0,
            answer |-> None]
NewGuest == [pc |-> "none", expired |-> FALSE, err |-> FALSE, exited |-> FALSE,
             eofs |-> {}, queue |-> <<>>, carry |-> Zero, lossy |-> {}]
NewCmd == [child |-> "none", helper |-> "none", reaped |-> FALSE, open |-> {},
           written |-> Zero, read |-> Zero, kept |-> Zero]

Init ==
    /\ slots = MaxSlots
    /\ host = [c \in Calls |-> NewHost]
    /\ net = [c \in Execs |-> <<>>]
    /\ guest = [c \in Execs |-> NewGuest]
    /\ cmd = [c \in Execs |-> NewCmd]
    /\ addr = "parent" /\ route = TRUE
    /\ work = [c \in Readdress |-> <<>>]

inside == <<net, guest, cmd>>
readdress == <<addr, route, work>>

Total(f) == MapThenSumSet(LAMBDA s : f[s], Streams)

----------------------------------------------------------------------------
(* The agent. *)

HasSlot(c) == host[c].pc \in {"connect", "wait"}

\* exec_vm and Manager::exec: 400, 404, 409 and a guest without vsock are
\* answered at once; everything else asks for a permit.
Request(c) ==
    /\ host[c].pc = "idle"
    /\ \E m \in IF c \in Execs THEN Modes ELSE {"setip"} :
          host' = [host EXCEPT ![c].pc = "slot", ![c].mode = m]
    /\ UNCHANGED <<slots, inside, readdress>>

AcquireSlot(c) ==
    /\ host[c].pc = "slot" /\ slots > 0
    /\ slots' = slots - 1
    /\ host' = [host EXCEPT ![c].pc = "connect"]
    /\ UNCHANGED <<inside, readdress>>

\* Mutation of End: the permit of a call that fails is not given back.
EndLeaks(c, a) ==
    /\ slots' = IF HasSlot(c) /\ a # "failed" THEN slots + 1 ELSE slots
    /\ host' = [host EXCEPT ![c].pc = "done", ![c].answer = a]

\* The call is over for its caller; a permit it holds is dropped with it.
End(c, a) ==
    /\ slots' = IF HasSlot(c) THEN slots + 1 ELSE slots
    /\ host' = [host EXCEPT ![c].pc = "done", ![c].answer = a]

\* Mutation of Connected: the permit of a stream covers the handshake only.
ConnectedHandshakeOnly(c) ==
    /\ host' = [host EXCEPT ![c].pc = "wait"]
    /\ slots' = IF host[c].mode = "streamed" THEN slots + 1 ELSE slots

Connected(c) ==
    /\ host' = [host EXCEPT ![c].pc = "wait"]
    /\ UNCHANGED slots

\* The CONNECT handshake and the request line; the guest's thread parses it
\* and spawns the command in a process group of its own.
Connect(c) ==
    /\ host[c].pc = "connect" /\ c \in Execs
    /\ \/ /\ Connected(c)
          /\ \/ /\ guest' = [guest EXCEPT ![c].pc = "loop",
                     ![c].eofs = IF host[c].mode = "streamed" THEN Streams ELSE {}]
                /\ cmd' = [cmd EXCEPT ![c].child = "run", ![c].open = Streams]
             \/ /\ "spawn" \in Faults
                /\ guest' = [guest EXCEPT ![c].pc = "write", ![c].err = TRUE]
                /\ UNCHANGED cmd
          /\ UNCHANGED <<net, readdress>>
       \/ "connect" \in Faults /\ End(c, "failed") /\ UNCHANGED <<inside, readdress>>

\* round_trip_inner, or the relay of DeadlineStream, takes the next frame.
Read(c) ==
    /\ host[c].pc = "wait" /\ c \in Execs
    /\ net[c] # <<>>
    /\ LET f == Head(net[c]) IN
          \/ /\ f.t = "chunk"
             /\ host' = [host EXCEPT ![c].got[f.s] = @ + f.n]
             /\ UNCHANGED slots
          \/ /\ f.t = "done"
             /\ slots' = slots + 1
             /\ host' = [host EXCEPT ![c].pc = "done", ![c].answer = f.a,
                           ![c].got = IF host[c].mode = "buffered" THEN f.out ELSE @]
    /\ net' = [net EXCEPT ![c] = Tail(@)]
    /\ UNCHANGED <<guest, cmd, readdress>>

\* The connection ends without an answer.
ReadEnd(c) ==
    /\ host[c].pc = "wait" /\ c \in Execs
    /\ net[c] = <<>> /\ guest[c].pc = "gone"
    /\ End(c, "failed")
    /\ UNCHANGED <<inside, readdress>>

\* A deadline (of the round trip, of the setup or of DeadlineStream), the byte
\* cap of a stream whose guest does not keep its own, or the caller hangs up
\* and the handler is dropped: the socket is closed.
GiveUp(c) ==
    /\ host[c].pc \in {"slot", "connect", "wait"} /\ c \in Execs
    /\ End(c, "failed")
    /\ UNCHANGED <<inside, readdress>>

HostStep(c) == AcquireSlot(c) \/ Connect(c) \/ Read(c) \/ ReadEnd(c) \/ GiveUp(c)

----------------------------------------------------------------------------
(* The command and what it leaves behind. *)

\* Somebody has the write end of the pipes open.
Held(c) == cmd[c].child = "run" \/ cmd[c].helper \in {"group", "escaped"}

CmdWrite(c, s) ==
    /\ Held(c) /\ Total(cmd[c].written) < MaxBytes
    /\ cmd' = [cmd EXCEPT ![c].written[s] = @ + 1]
    /\ UNCHANGED <<slots, host, net, guest, readdress>>

\* The command exits; a process it started in the background may live on, in
\* its process group or in one of its own.
CmdExit(c) ==
    /\ cmd[c].child = "run"
    /\ \E h \in Helpers \cup {"none"} :
          cmd' = [cmd EXCEPT ![c].child = "exited", ![c].helper = h]
    /\ UNCHANGED <<slots, host, net, guest, readdress>>

HelperExit(c) ==
    /\ cmd[c].helper \in {"group", "escaped"}
    /\ cmd' = [cmd EXCEPT ![c].helper = "none"]
    /\ UNCHANGED <<slots, host, net, guest, readdress>>

\* kill_pid: SIGKILL for the process group of the command.
Killed(r) ==
    [r EXCEPT !.child = IF @ = "run" THEN "killed" ELSE @,
              !.helper = IF @ = "group" THEN "none" ELSE @]

----------------------------------------------------------------------------
(* The threads of an exec in the guest. *)

Streamed(c) == host[c].mode = "streamed"

\* A message for the main loop; after the loop nobody receives any more.
Send(c, m) ==
    guest' = [guest EXCEPT ![c].queue = IF guest[c].pc = "loop" THEN Append(@, m) ELSE @]

\* Mutation of Taken: a read that crosses the cap is dropped as a whole.
TakenWhole(c, s, k) == IF cmd[c].kept[s] + k <= Cap THEN k ELSE 0

\* read_capped and spawn_reader: what is kept of k more bytes of a stream.
Taken(c, s, k) == Min({k, Cap - cmd[c].kept[s]})

ReaderRead(c, s) ==
    /\ s \in cmd[c].open
    /\ \E k \in 1 .. cmd[c].written[s] - cmd[c].read[s] :
          /\ cmd' = [cmd EXCEPT ![c].read[s] = @ + k, ![c].kept[s] = @ + Taken(c, s, k)]
          /\ IF Streamed(c) /\ Taken(c, s, k) > 0
             THEN Send(c, [t |-> "chunk", s |-> s, n |-> Taken(c, s, k)])
             ELSE UNCHANGED guest
    /\ UNCHANGED <<slots, host, net, readdress>>

\* End of file: everything is read and nobody holds the pipe.
ReaderEof(c, s) ==
    /\ s \in cmd[c].open
    /\ cmd[c].read[s] = cmd[c].written[s] /\ ~Held(c)
    /\ cmd' = [cmd EXCEPT ![c].open = @ \ {s}]
    /\ IF Streamed(c) THEN Send(c, [t |-> "eof", s |-> s, n |-> 0]) ELSE UNCHANGED guest
    /\ UNCHANGED <<slots, host, net, readdress>>

Waiter(c) ==
    /\ cmd[c].child \in {"exited", "killed"} /\ ~cmd[c].reaped
    /\ cmd' = [cmd EXCEPT ![c].reaped = TRUE]
    /\ Send(c, [t |-> "exited", s |-> None, n |-> 0])
    /\ UNCHANGED <<slots, host, net, readdress>>

\* The agent has closed its end.
HungUp(c) == host[c].pc = "done"

\* A frame can be written, or the write fails.
Writable(c) == HungUp(c) \/ Len(net[c]) < Room

\* Mutation of Whole: every read is decoded by itself.
WholeChunk(n) == n

\* emit_utf8: a character has two bytes; the longest prefix of whole
\* characters is emitted and an incomplete one is carried over.
Whole(n) == n - (n % 2)

LoopEnds(eofs, exited) == eofs = {} /\ exited

\* What the main loop does with n bytes of stream s when `flush` tells whether
\* the stream is at its end: nothing to emit, a frame, or a failed write that
\* kills the command.
Emit(c, s, n, flush, g) ==
    LET all == guest[c].carry[s] + n
        out == IF flush THEN all ELSE Whole(all)
    IN  \/ /\ guest[c].err \/ out = 0
           /\ guest' = [guest EXCEPT ![c] = [g EXCEPT !.carry[s] = all - out]]
           /\ UNCHANGED <<net, cmd>>
        \/ /\ ~guest[c].err /\ out > 0 /\ ~HungUp(c) /\ Writable(c)
           /\ guest' = [guest EXCEPT ![c] = [g EXCEPT !.carry[s] = all - out,
                           !.lossy = IF out % 2 = 0 THEN @ ELSE @ \cup {s}]]
           /\ net' = [net EXCEPT ![c] = Append(@, [t |-> "chunk", s |-> s, n |-> out])]
           /\ UNCHANGED cmd
        \/ /\ ~guest[c].err /\ out > 0 /\ HungUp(c)
           /\ guest' = [guest EXCEPT ![c] = [g EXCEPT !.err = TRUE]]
           /\ cmd' = [cmd EXCEPT ![c] = Killed(@)]
           /\ UNCHANGED net

\* One turn of the loop of run_exec_streamed, or the recv of run_exec.
Recv(c) ==
    /\ guest[c].pc = "loop" /\ guest[c].queue # <<>>
    /\ LET m == Head(guest[c].queue)
           eofs == IF m.t = "eof" THEN guest[c].eofs \ {m.s} ELSE guest[c].eofs
           exited == guest[c].exited \/ m.t = "exited"
           g == [guest[c] EXCEPT !.queue = Tail(@), !.eofs = eofs, !.exited = exited,
                                 !.pc = IF LoopEnds(eofs, exited) THEN "join" ELSE "loop"]
       IN  IF m.t = "exited"
           THEN guest' = [guest EXCEPT ![c] = g] /\ UNCHANGED <<net, cmd>>
           ELSE Emit(c, m.s, m.n, m.t = "eof", g)
    /\ UNCHANGED <<slots, host, readdress>>

\* Mutation of RecvTimeout: the streamed command is not killed.
RecvTimeoutNoKill(c) ==
    /\ guest[c].pc = "loop" /\ guest[c].queue = <<>>
    /\ ~guest[c].expired
    /\ guest' = [guest EXCEPT ![c].expired = TRUE]
    /\ UNCHANGED <<slots, host, net, cmd, readdress>>

\* recv_timeout with nothing in the channel: the command is killed, and in
\* stream mode the second time-out, the grace period, ends the loop.
RecvTimeout(c) ==
    /\ guest[c].pc = "loop" /\ guest[c].queue = <<>>
    /\ \/ /\ ~guest[c].expired /\ ~guest[c].err
          /\ guest' = [guest EXCEPT ![c].expired = TRUE]
          /\ cmd' = [cmd EXCEPT ![c] = Killed(@)]
       \/ /\ guest[c].expired \/ guest[c].err
          /\ Streamed(c)
          /\ guest' = [guest EXCEPT ![c].pc = "join"]
          /\ UNCHANGED cmd
    /\ UNCHANGED <<slots, host, net, readdress>>

\* The waiter and the readers are joined, without a time-out.
Join(c) ==
    /\ guest[c].pc = "join"
    /\ cmd[c].reaped /\ cmd[c].open = {}
    /\ guest' = [guest EXCEPT ![c].pc = "write"]
    /\ UNCHANGED <<slots, host, net, cmd, readdress>>

\* The thread is gone, and with it everything it had.
Gone(g) == [NewGuest EXCEPT !.pc = "gone", !.lossy = g.lossy]

\* The done frame or the buffered response; then the connection is closed.
Answer(c) ==
    IF guest[c].err THEN "failed" ELSE IF guest[c].expired THEN "killed" ELSE "exit"

Write(c) ==
    /\ guest[c].pc = "write" /\ Writable(c)
    /\ net' = IF HungUp(c) THEN net ELSE
                [net EXCEPT ![c] = Append(@, [t |-> "done", a |-> Answer(c), out |-> cmd[c].kept])]
    /\ guest' = [guest EXCEPT ![c] = Gone(@)]
    /\ UNCHANGED <<slots, host, cmd, readdress>>

\* The VM is stopped, put to sleep or deleted under the exec.
VmGone(c) ==
    /\ "vm" \in Faults /\ guest[c].pc \notin {"none", "gone"}
    /\ guest' = [guest EXCEPT ![c] = Gone(@)]
    /\ cmd' = [cmd EXCEPT ![c].child = IF @ = "none" THEN @ ELSE "killed",
                          ![c].helper = "none", ![c].open = {}, ![c].reaped = TRUE]
    /\ net' \in {net, [net EXCEPT ![c] = <<>>]}
    /\ UNCHANGED <<slots, host, readdress>>

MainStep(c) == Recv(c) \/ RecvTimeout(c) \/ Join(c) \/ Write(c)

----------------------------------------------------------------------------
(* set_ip: a fork gives its child an address of its own. *)

\* The next attempt, a second later, or the last one has failed.
Retry(c) ==
    /\ slots' = IF HasSlot(c) THEN slots + 1 ELSE slots
    /\ host' = [host EXCEPT
          ![c].pc = IF host[c].tries + 1 < MaxTries THEN "slot" ELSE "done",
          ![c].tries = @ + 1,
          ![c].answer = IF host[c].tries + 1 < MaxTries THEN None ELSE "failed"]

\* Each attempt is a connection, and a thread, of its own.
SendSetIp(c) ==
    /\ host[c].pc = "connect"
    /\ \/ Connected(c) /\ work' = [work EXCEPT ![c] = Append(@, "flush")]
       \/ "connect" \in Faults /\ Retry(c) /\ UNCHANGED work
    /\ UNCHANGED <<inside, addr, route>>

\* The answer to the current attempt, or its five seconds are over: the
\* guest's thread goes on without a listener.
SetIpAnswer(c) ==
    /\ host[c].pc = "wait"
    /\ \/ work[c][Len(work[c])] = "ok" /\ End(c, "exit")
       \/ work[c][Len(work[c])] # "ok" /\ Retry(c)
    /\ UNCHANGED <<inside, readdress>>

SetIpExpire(c) ==
    /\ host[c].pc \in {"slot", "connect"}
    /\ Retry(c)
    /\ UNCHANGED <<inside, readdress>>

At(c, a, l) == work[c][a] = l
Go(c, a, l) == work' = [work EXCEPT ![c][a] = l]

\* Mutation of AddrAdd: an error takes the address down again.
AddrAddUndo(c, a) ==
    /\ At(c, a, "add")
    /\ IF addr = "own" THEN addr' = "none" /\ route' = FALSE /\ Go(c, a, "err")
       ELSE addr' = "own" /\ UNCHANGED route /\ Go(c, a, "up")

\* `ip addr add` of an address that is there already fails.
AddrAdd(c, a) ==
    /\ At(c, a, "add")
    /\ IF addr = "own" THEN UNCHANGED <<addr, route>> /\ Go(c, a, "err")
       ELSE addr' = "own" /\ UNCHANGED route /\ Go(c, a, "up")

\* apply_set_ip: flush, addr add, link up, route replace; the first `ip` that
\* fails ends it.  An `ip` fails for the state eth0 is in, and for no other
\* reason.
ApplySetIp(c, a) ==
    /\ \/ At(c, a, "flush") /\ addr' = "none" /\ route' = FALSE /\ Go(c, a, "add")
       \/ AddrAdd(c, a)
       \/ At(c, a, "up") /\ UNCHANGED <<addr, route>> /\ Go(c, a, "route")
       \/ At(c, a, "route") /\ addr = "own" /\ route' = TRUE /\ UNCHANGED addr /\ Go(c, a, "ok")
       \/ At(c, a, "route") /\ addr # "own" /\ UNCHANGED <<addr, route>> /\ Go(c, a, "err")
    /\ UNCHANGED <<slots, host, inside>>

SetIpStep(c) == AcquireSlot(c) \/ SendSetIp(c) \/ SetIpAnswer(c) \/ SetIpExpire(c)

----------------------------------------------------------------------------
Next ==
    \/ \E c \in Calls : Request(c)
    \/ \E c \in Execs :
          \/ HostStep(c) \/ MainStep(c) \/ Waiter(c) \/ VmGone(c)
          \/ CmdExit(c) \/ HelperExit(c)
          \/ \E s \in Streams : CmdWrite(c, s) \/ ReaderRead(c, s) \/ ReaderEof(c, s)
    \/ \E c \in Readdress :
          SetIpStep(c) \/ \E a \in 1 .. Len(work[c]) : ApplySetIp(c, a)

\* The tasks of the agent and the threads of the guest run, deadlines expire,
\* and a caller that stalls is cut off by feluccad's own deadline.  Nothing is
\* assumed of the command.
Fairness ==
    /\ \A c \in Execs :
          /\ WF_vars(HostStep(c)) /\ WF_vars(MainStep(c)) /\ WF_vars(Waiter(c))
          /\ \A s \in Streams : WF_vars(ReaderRead(c, s) \/ ReaderEof(c, s))
    /\ \A c \in Readdress :
          /\ WF_vars(SetIpStep(c))
          /\ \A a \in 1 .. MaxTries : WF_vars(a <= Len(work[c]) /\ ApplySetIp(c, a))

Spec == Init /\ [][Next]_vars /\ Fairness

----------------------------------------------------------------------------
\* The agent never talks to more guests than it has permits ("an unslotted
\* client must not even open the socket", and a stream keeps its permit for
\* the whole relay), and every call that is over has given its permit back.
PermitsCover ==
    slots + Cardinality({c \in Calls : HasSlot(c)}) = MaxSlots

\* However the reads fall, a streamed command that wrote whole characters gets
\* no replacement character: only a stream cut at its cap, or by a kill in the
\* middle of a character, has one.
CharactersWhole ==
    \A c \in Execs : \A s \in guest[c].lossy :
        cmd[c].kept[s] % 2 = 1 /\ (cmd[c].kept[s] = Cap \/ cmd[c].written[s] % 2 = 1)

\* Every call ends, and with it all permits come back, whether the guest
\* answers, hangs or is gone.
EveryCallEnds ==
    <>[](slots = MaxSlots /\ \A c \in Calls : host[c].pc \in {"idle", "done"})

\* When the caller of a streamed exec is gone, the process group of its command
\* does not outlive it for good ("the guest sees the hangup and SIGKILLs the
\* command group").
CommandEnds ==
    \A c \in Execs :
        (host[c].mode = "streamed" /\ host[c].pc = "done")
            ~> (cmd[c].child # "run" /\ cmd[c].helper # "group")

\* A set_ip that the agent was told is done stays done, although the threads of
\* earlier attempts that timed out may still be at work in the guest.
SetIpSettles ==
    \A c \in Readdress : <>[](host[c].answer = "exit" => addr = "own" /\ route)

\* What exec.rs says of the joins after a command has exited or was killed: it
\* "guarantees the pipes are closed and these reads terminate".  Every exec
\* ends in the guest.
GuestEnds ==
    \A c \in Execs : guest[c].pc = "loop" ~> guest[c].pc = "gone"
=============================================================================
