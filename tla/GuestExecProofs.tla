--------------------------- MODULE GuestExecProofs ---------------------------
(***************************************************************************)
(* An exec keeps its contract, streams whole characters and gives back its *)
(* permit: for any number of calls, streams, permits and bytes.            *)
(*                                                                         *)
(* First what holds of one exec: of its call in the agent, the frames on   *)
(* its connection, its thread in the guest and its command; and that every *)
(* step that one of them can take keeps it so.  Then this is carried       *)
(* through the actions, and the theorems follow.                           *)
(***************************************************************************)
EXTENDS GuestContract, TLAPS

----------------------------------------------------------------------------
(* Running totals.  What is under way of a stream is the total of the       *)
(* chunks of a sequence; a total is the last value of a function that       *)
(* counts along.                                                            *)

\* The bytes of stream s that a message or a frame carries.
Amount(m, s) == IF m.t = "chunk" /\ m.s = s THEN m.n ELSE 0

\* p counts the bytes of s along q, from a; it never falls, and rises only
\* where there is a chunk.
Counts(p, q, s, a) ==
    /\ p[0] = a
    /\ \A i \in 1 .. Len(q) : p[i] = p[i - 1] + Amount(q[i], s)
    /\ \A i, j \in 0 .. Len(q) : i <= j =>
          /\ p[i] <= p[j]
          /\ p[i] # p[j] => \E k \in i + 1 .. j : Amount(q[k], s) # 0

\* The chunks of s in q lead from a to b.
Sums(q, s, a, b) ==
    \E p \in [0 .. Len(q) -> Nat] : Counts(p, q, s, a) /\ p[Len(q)] = b

\* An empty queue sums to nothing.
LEMMA SumsEmpty ==
    ASSUME NEW s, NEW a \in Nat
    PROVE  Sums(<<>>, s, a, a)
<1> DEFINE p == [i \in 0 .. 0 |-> a]
<1>1. p \in [0 .. Len(<<>>) -> Nat] /\ p[Len(<<>>)] = a
  OBVIOUS
<1>2. Counts(p, <<>>, s, a)
  BY DEF Counts
<1> QED
  BY <1>1, <1>2, Zenon DEF Sums

\* The sum of a queue that grows.
LEMMA SumsGrow ==
    ASSUME NEW T, NEW q \in Seq(T), NEW m \in T, NEW s, NEW a, NEW b \in Nat,
           Amount(m, s) \in Nat, Sums(q, s, a, b)
    PROVE  Sums(Append(q, m), s, a, b + Amount(m, s))
<1> DEFINE r == Append(q, m)
           n == Len(q)
<1>1. r \in Seq(T) /\ Len(r) = n + 1 /\ r[n + 1] = m /\ n \in Nat
      /\ \A i \in 1 .. n : r[i] = q[i]
  OBVIOUS
<1>2. PICK p \in [0 .. n -> Nat] : Counts(p, q, s, a) /\ p[n] = b
  BY Zenon DEF Sums
<1> DEFINE z == [i \in 0 .. n + 1 |-> IF i = n + 1 THEN b + Amount(m, s) ELSE p[i]]
<1> HIDE DEF r
<1>3. z \in [0 .. Len(r) -> Nat] /\ z[Len(r)] = b + Amount(m, s)
  BY <1>1, <1>2
<1>4. \A i \in 0 .. n : z[i] = p[i]
  BY <1>1
<1>5. z[n + 1] = b + Amount(m, s)
  BY <1>1
<1> HIDE DEF z
<1>6. z[0] = a
  BY <1>1, <1>2, <1>4 DEF Counts
<1>7. \A i \in 1 .. Len(r) : z[i] = z[i - 1] + Amount(r[i], s)
  <2> TAKE i \in 1 .. Len(r)
  <2>1. CASE i = n + 1
    BY <2>1, <1>1, <1>2, <1>4, <1>5
  <2>2. CASE i \in 1 .. n
    <3>1. p[i] = p[i - 1] + Amount(q[i], s)
      BY <2>2, <1>2, Zenon DEF Counts
    <3>2. i \in 0 .. n /\ i - 1 \in 0 .. n /\ r[i] = q[i]
      BY <2>2, <1>1
    <3>3. z[i] = p[i] /\ z[i - 1] = p[i - 1]
      BY <3>2, <1>4, Zenon
    <3> QED
      BY <3>1, <3>2, <3>3, Zenon
  <2> QED
    BY <2>1, <2>2, <1>1
<1>8. ASSUME NEW i \in 0 .. Len(r), NEW j \in 0 .. Len(r), i <= j
      PROVE  /\ z[i] <= z[j]
             /\ z[i] # z[j] => \E k \in i + 1 .. j : Amount(r[k], s) # 0
  <2>1. CASE j \in 0 .. n
    <3>1. i \in 0 .. n /\ z[i] = p[i] /\ z[j] = p[j]
      BY <2>1, <1>8, <1>1, <1>4
    <3>2. p[i] <= p[j] /\ (p[i] # p[j] => \E k \in i + 1 .. j : Amount(q[k], s) # 0)
      BY <2>1, <3>1, <1>8, <1>2, Zenon DEF Counts
    <3>3. \A k \in i + 1 .. j : r[k] = q[k]
      BY <2>1, <3>1, <1>1
    <3> QED
      BY <3>1, <3>2, <3>3, Zenon
  <2>2. CASE j = n + 1 /\ i = n + 1
    BY <2>2, <1>5, <1>1
  <2>3. CASE j = n + 1 /\ i \in 0 .. n
    <3>1. p[i] <= b /\ (p[i] # b => \E k \in i + 1 .. n : Amount(q[k], s) # 0)
      BY <2>3, <1>1, <1>2 DEF Counts
    <3>2. z[i] = p[i] /\ p[i] \in Nat /\ z[j] = b + Amount(m, s)
      BY <2>3, <1>4, <1>5, <1>2, Zenon
    <3>3. CASE Amount(m, s) # 0
      BY <3>1, <3>2, <3>3, <2>3, <1>1
    <3>4. CASE Amount(m, s) = 0
      BY <3>1, <3>2, <3>4, <2>3, <1>1
    <3> QED
      BY <3>3, <3>4, Zenon
  <2> QED
    BY <2>1, <2>2, <2>3, <1>1
<1>9. Counts(z, r, s, a)
  BY <1>6, <1>7, <1>8, Zenon DEF Counts
<1> QED
  BY <1>3, <1>9, Zenon DEF Sums, r

\* The sum of what is left of a queue.
LEMMA SumsRest ==
    ASSUME NEW T, NEW q \in Seq(T), q # <<>>, NEW s, NEW a \in Nat, NEW b \in Nat,
           Amount(Head(q), s) \in Nat, Sums(q, s, a, b)
    PROVE  /\ Sums(Tail(q), s, a + Amount(Head(q), s), b)
           /\ a + Amount(Head(q), s) <= b
<1> DEFINE r == Tail(q)
           n == Len(q)
<1>1. r \in Seq(T) /\ Len(r) = n - 1 /\ n \in Nat \ {0} /\ Head(q) = q[1]
      /\ \A i \in 1 .. n - 1 : r[i] = q[i + 1]
  OBVIOUS
<1>2. PICK p \in [0 .. n -> Nat] : Counts(p, q, s, a) /\ p[n] = b
  BY Zenon DEF Sums
<1> DEFINE z == [i \in 0 .. n - 1 |-> p[i + 1]]
<1> HIDE DEF r
<1>3. z \in [0 .. Len(r) -> Nat] /\ z[Len(r)] = b
  BY <1>1, <1>2
<1>4. \A i \in 0 .. n - 1 : z[i] = p[i + 1]
  BY <1>1, Zenon
<1> HIDE DEF z
<1>5. p[1] = a + Amount(Head(q), s) /\ p[1] <= b
  BY <1>1, <1>2 DEF Counts
<1>6. \A i \in 1 .. Len(r) : z[i] = z[i - 1] + Amount(r[i], s)
  <2> TAKE i \in 1 .. Len(r)
  <2>1. i \in 0 .. n - 1 /\ i - 1 \in 0 .. n - 1 /\ i + 1 \in 1 .. n /\ r[i] = q[i + 1]
    BY <1>1
  <2>2. p[i + 1] = p[(i + 1) - 1] + Amount(q[i + 1], s)
    BY <2>1, <1>2, Zenon DEF Counts
  <2>3. z[i] = p[i + 1] /\ z[i - 1] = p[(i - 1) + 1]
    BY <2>1, <1>4, Zenon
  <2>4. (i + 1) - 1 = i /\ (i - 1) + 1 = i
    OBVIOUS
  <2> QED
    BY <2>1, <2>2, <2>3, <2>4, Zenon
<1>7. ASSUME NEW i \in 0 .. Len(r), NEW j \in 0 .. Len(r), i <= j
      PROVE  /\ z[i] <= z[j]
             /\ z[i] # z[j] => \E k \in i + 1 .. j : Amount(r[k], s) # 0
  <2>1. z[i] = p[i + 1] /\ z[j] = p[j + 1] /\ i + 1 \in 0 .. n /\ j + 1 \in 0 .. n
    BY <1>1, <1>4
  <2>2. p[i + 1] <= p[j + 1]
    BY <1>2, <1>7, <2>1 DEF Counts
  <2>3. ASSUME z[i] # z[j]
        PROVE  \E k \in i + 1 .. j : Amount(r[k], s) # 0
    <3>1. PICK k \in i + 2 .. j + 1 : Amount(q[k], s) # 0
      BY <1>2, <1>7, <2>1, <2>3 DEF Counts
    <3>2. k - 1 \in i + 1 .. j /\ r[k - 1] = q[k]
      BY <1>1
    <3> QED
      BY <3>1, <3>2, Zenon
  <2> QED
    BY <2>1, <2>2, <2>3, Zenon
<1>8. Counts(z, r, s, a + Amount(Head(q), s))
  BY <1>1, <1>4, <1>5, <1>6, <1>7 DEF Counts
<1> QED
  BY <1>3, <1>5, <1>8, Zenon DEF Sums, r

\* The total grows, and not without a chunk.
LEMMA SumsBound ==
    ASSUME NEW T, NEW q \in Seq(T), NEW s, NEW a \in Nat, NEW b \in Nat, Sums(q, s, a, b)
    PROVE  a <= b /\ (a # b => \E k \in 1 .. Len(q) : Amount(q[k], s) # 0)
BY DEF Sums, Counts

----------------------------------------------------------------------------
(* What holds of one exec: of its call h in the agent, the frames n on its  *)
(* connection, its thread g in the guest and its command m.                 *)

HostRec == [pc : {"idle", "slot", "connect", "wait", "done"},
            mode : {None, "buffered", "streamed", "setip"},
            got : [Streams -> Nat], tries : Nat,
            answer : {None, "exit", "killed", "failed"}]
Chunks == [t : {"chunk"}, s : Streams, n : Nat]
Frames == Chunks \cup [t : {"done"}, a : {"exit", "killed", "failed"}, out : [Streams -> Nat]]
Messages == Chunks \cup [t : {"eof"}, s : Streams, n : {0}]
                   \cup [t : {"exited"}, s : {None}, n : {0}]
GuestRec == [pc : {"none", "loop", "join", "write", "gone"}, expired : BOOLEAN,
             err : BOOLEAN, exited : BOOLEAN, eofs : SUBSET Streams,
             queue : Seq(Messages), carry : [Streams -> Nat], lossy : SUBSET Streams]
CmdRec == [child : {"none", "run", "exited", "killed"},
           helper : {"none", "group", "escaped"}, reaped : BOOLEAN,
           open : SUBSET Streams, written : [Streams -> Nat], read : [Streams -> Nat],
           kept : [Streams -> Nat]]

Types(h, n, g, m) == h \in HostRec /\ n \in Seq(Frames) /\ g \in GuestRec /\ m \in CmdRec

\* A stream that is read to its end, with nobody left to write more to it.
Closed(m, s) ==
    /\ s \notin m.open /\ m.read[s] = m.written[s]
    /\ m.child # "run" /\ m.helper = "none"

\* No more than the cap is kept of what is read, and no less.
BytesOK(m) ==
    \A s \in Streams :
        /\ m.read[s] <= m.written[s]
        /\ m.kept[s] = IF m.read[s] <= Cap THEN m.read[s] ELSE Cap

\* Nothing happens before the connection; while the agent listens, only a
\* command that did not start is an error.
EarlyOK(h, n, g, m) ==
    /\ h.pc \in {"idle", "slot", "connect"} => g.pc = "none"
    /\ h.pc # "done" => h.answer = None
    /\ h.pc \in {"slot", "connect", "wait"} => h.mode \in {"buffered", "streamed"}
    /\ g.pc = "none" => n = <<>> /\ g = NewGuest /\ m = NewCmd /\ h.got = Zero
    /\ h.pc # "done" /\ g.err => g.pc = "write" /\ m = NewCmd

\* A reader stops at the end of its stream, and not before.
EndsOK(g, m) ==
    /\ g.pc \in {"loop", "join", "write"} =>
          \A s \in Streams : s \notin m.open => Closed(m, s)
    /\ g.pc = "write" => m.open = {}

Silent(x, s) == x.t = "exited" \/ x.s # s

\* The end of a stream is its last message; a buffered exec only hears of the
\* exit of its command.
Ordered(h, g, m) ==
    /\ h.mode # "streamed" => \A i \in 1 .. Len(g.queue) : g.queue[i].t = "exited"
    /\ \A s \in Streams : h.mode = "streamed" =>
          /\ s \notin g.eofs =>
                /\ s \notin m.open /\ (~g.err => g.carry[s] = 0)
                /\ \A i \in 1 .. Len(g.queue) : Silent(g.queue[i], s)
          /\ \A i \in 1 .. Len(g.queue) : g.queue[i].t = "eof" /\ g.queue[i].s = s =>
                /\ s \notin m.open
                /\ \A j \in i + 1 .. Len(g.queue) : Silent(g.queue[j], s)

QueueOK(h, g, m) == g.pc = "loop" => Ordered(h, g, m)

\* The bytes of a stream between its reader and the caller, x of which the
\* frames bring: the rest is in the channel and in the carry.
Ledger(h, n, g, m, s, x) ==
    /\ Sums(n, s, h.got[s], x) /\ x <= m.kept[s]
    /\ h.mode = "streamed" =>
          /\ g.pc = "loop" => Sums(g.queue, s, x + g.carry[s], m.kept[s])
          /\ g.pc = "loop" /\ s \in g.eofs => x % 2 = 0
          /\ g.pc \in {"join", "write"} /\ ~g.err /\ ~g.expired =>
                x = m.kept[s] /\ s \notin m.open
          /\ (\E i \in 1 .. Len(n) : n[i].t = "done" /\ n[i].a = "exit") => x = m.kept[s]

LedgerOK(h, n, g, m) ==
    h.pc = "wait" => \A s \in Streams : \E x \in Nat : Ledger(h, n, g, m, s, x)

\* The done frame is the last one, and comes when the readers are through.
FramesOK(h, n, g, m) ==
    h.pc = "wait" =>
        /\ \A i \in 1 .. Len(n) : n[i].t = "done" =>
              /\ i = Len(n) /\ g.pc = "gone" /\ n[i].out = m.kept
              /\ \A s \in Streams : Closed(m, s)
              /\ n[i].a = "failed" => m.kept = Zero
        /\ h.mode = "buffered" => h.got = Zero /\ \A i \in 1 .. Len(n) : n[i].t = "done"

\* After an answer of its own the command writes nothing more.
AnswerOK(h, g, m) ==
    h.answer \in {"exit", "killed"} => g.pc = "gone" /\ \A s \in Streams : Closed(m, s)

\* Where a replacement character was emitted, half a character was all there is.
LossyOK(g, m) ==
    \A s \in g.lossy :
        /\ Closed(m, s) /\ m.kept[s] % 2 = 1
        /\ m.kept[s] = Cap \/ m.written[s] % 2 = 1

ExecOK(h, n, g, m) ==
    /\ Types(h, n, g, m) /\ BytesOK(m) /\ EarlyOK(h, n, g, m) /\ EndsOK(g, m)
    /\ QueueOK(h, g, m) /\ LedgerOK(h, n, g, m) /\ FramesOK(h, n, g, m)
    /\ AnswerOK(h, g, m) /\ LossyOK(g, m)

EInv ==
    /\ DOMAIN host = Calls /\ DOMAIN net = Execs /\ DOMAIN guest = Execs /\ DOMAIN cmd = Execs
    /\ \A c \in Readdress : host[c] \in HostRec
    /\ \A c \in Execs : ExecOK(host[c], net[c], guest[c], cmd[c])

\* The records of a new exec.
LEMMA NewTypes ==
    /\ Zero \in [Streams -> Nat]
    /\ NewHost \in HostRec /\ NewGuest \in GuestRec /\ NewCmd \in CmdRec
<1>1. Zero \in [Streams -> Nat]
  BY Zenon DEF Zero
<1>2. NewHost \in HostRec
  BY <1>1, Zenon DEF NewHost, HostRec
<1>3. NewGuest \in GuestRec
  BY <1>1 DEF NewGuest, GuestRec
<1>4. NewCmd \in CmdRec
  BY <1>1, Zenon DEF NewCmd, CmdRec
<1> QED
  BY <1>1, <1>2, <1>3, <1>4, Zenon

\* Before the connection the call may do as it likes.
LEMMA HostEarly ==
    ASSUME NEW h, NEW n, NEW g, NEW m, ExecOK(h, n, g, m),
           h.pc \in {"idle", "slot", "connect"},
           NEW k \in HostRec, k.got = h.got,
           \/ /\ k.pc \in {"slot", "connect"} /\ k.answer = h.answer
              /\ k.mode \in {"buffered", "streamed"}
           \/ k.pc = "done" /\ k.answer = "failed"
    PROVE  ExecOK(k, n, g, m)
<1>1. g.pc = "none" /\ h.answer = None /\ ~g.err /\ g.lossy = {} /\ g = NewGuest
  BY DEF ExecOK, EarlyOK, NewGuest
<1>2. k.answer \notin {"exit", "killed"}
  BY <1>1, GuestAssumption, Zenon
<1>3. Types(k, n, g, m)
  BY Zenon DEF ExecOK, Types
<1>4. EarlyOK(k, n, g, m)
  BY <1>1, Zenon DEF ExecOK, EarlyOK
<1>5. QueueOK(k, g, m) /\ LedgerOK(k, n, g, m) /\ FramesOK(k, n, g, m) /\ AnswerOK(k, g, m)
  BY <1>1, <1>2, Zenon DEF QueueOK, Ordered, LedgerOK, FramesOK, AnswerOK
<1> QED
  BY <1>3, <1>4, <1>5, Zenon DEF ExecOK

\* A call that ends without an answer.
LEMMA HostFails ==
    ASSUME NEW h, NEW n, NEW g, NEW m, ExecOK(h, n, g, m), h.pc # "done"
    PROVE  ExecOK([h EXCEPT !.pc = "done", !.answer = "failed"], n, g, m)
<1> DEFINE k == [h EXCEPT !.pc = "done", !.answer = "failed"]
<1>1. k \in HostRec /\ k.pc = "done" /\ k.answer = "failed" /\ k.got = h.got /\ k.mode = h.mode
  BY Zenon DEF ExecOK, Types, HostRec
<1> HIDE DEF k
<1>2. Types(k, n, g, m)
  BY <1>1, Zenon DEF ExecOK, Types
<1>3. EarlyOK(k, n, g, m)
  BY <1>1, Zenon DEF ExecOK, EarlyOK
<1>4. QueueOK(k, g, m)
  BY <1>1, Zenon DEF ExecOK, QueueOK, Ordered
<1>5. LedgerOK(k, n, g, m) /\ FramesOK(k, n, g, m) /\ AnswerOK(k, g, m)
  BY <1>1, Zenon DEF LedgerOK, FramesOK, AnswerOK
<1>6. ExecOK(k, n, g, m)
  BY <1>2, <1>3, <1>4, <1>5, Zenon DEF ExecOK
<1> QED
  BY <1>6, Zenon DEF k

\* The thread of the connection and its command start, or the command does not.
LEMMA Starts ==
    ASSUME NEW h, NEW n, NEW g, NEW m, ExecOK(h, n, g, m), h.pc = "connect",
           NEW E \in SUBSET Streams,
           E = IF h.mode = "streamed" THEN Streams ELSE {}
    PROVE  /\ ExecOK([h EXCEPT !.pc = "wait"], n, [g EXCEPT !.pc = "loop", !.eofs = E],
                     [m EXCEPT !.child = "run", !.open = Streams])
           /\ ExecOK([h EXCEPT !.pc = "wait"], n, [g EXCEPT !.pc = "write", !.err = TRUE], m)
<1> DEFINE k == [h EXCEPT !.pc = "wait"]
           g1 == [g EXCEPT !.pc = "loop", !.eofs = E]
           g2 == [g EXCEPT !.pc = "write", !.err = TRUE]
           m1 == [m EXCEPT !.child = "run", !.open = Streams]
<1>1. /\ g.pc = "none" /\ n = <<>> /\ g = NewGuest /\ m = NewCmd /\ h.got = Zero
      /\ h.answer = None /\ h.mode \in {"buffered", "streamed"}
  BY Zenon DEF ExecOK, EarlyOK
<1>2. k \in HostRec /\ k.pc = "wait" /\ k.answer = None /\ k.got = Zero /\ k.mode = h.mode
  BY <1>1, Zenon DEF ExecOK, Types, HostRec
<1>3. /\ g1 \in GuestRec /\ g1.pc = "loop" /\ ~g1.err /\ g1.eofs = E /\ g1.queue = <<>>
      /\ g1.carry = Zero /\ g1.lossy = {}
  BY <1>1, NewTypes, Zenon DEF NewGuest, GuestRec
<1>4. g2 \in GuestRec /\ g2.pc = "write" /\ g2.err /\ g2.lossy = {}
  BY <1>1, NewTypes, Zenon DEF NewGuest, GuestRec
<1>5. /\ m1 \in CmdRec /\ m1.child = "run" /\ m1.open = Streams
      /\ m1.written = Zero /\ m1.read = Zero /\ m1.kept = Zero
  BY <1>1, NewTypes, Zenon DEF NewCmd, CmdRec
<1>6. /\ m \in CmdRec /\ m.child = "none" /\ m.helper = "none" /\ m.open = {}
      /\ m.written = Zero /\ m.read = Zero /\ m.kept = Zero
  BY <1>1, NewTypes, Zenon DEF NewCmd
<1>7. \A s \in Streams : Zero[s] = 0 /\ Sums(<<>>, s, 0, 0)
  BY SumsEmpty, Zenon DEF Zero
<1> HIDE DEF k, g1, g2, m1
<1>8. ExecOK(k, n, g1, m1)
  <2>1. Types(k, n, g1, m1)
    BY <1>1, <1>2, <1>3, <1>5 DEF Types
  <2>2. BytesOK(m1)
    BY <1>5, <1>7, GuestAssumption DEF BytesOK
  <2>3. EarlyOK(k, n, g1, m1) /\ EndsOK(g1, m1) /\ LossyOK(g1, m1)
    BY <1>1, <1>2, <1>3, <1>5, Zenon DEF EarlyOK, EndsOK, LossyOK
  <2>4. QueueOK(k, g1, m1)
    BY <1>2, <1>3, <1>5 DEF QueueOK, Ordered
  <2>5. \A s \in Streams : Ledger(k, n, g1, m1, s, 0)
    BY <1>1, <1>2, <1>3, <1>5, <1>7 DEF Ledger
  <2>6. LedgerOK(k, n, g1, m1)
    BY <2>5, Zenon DEF LedgerOK
  <2>7. FramesOK(k, n, g1, m1) /\ AnswerOK(k, g1, m1)
    BY <1>1, <1>2, <1>3, GuestAssumption DEF FramesOK, AnswerOK
  <2> QED
    BY <2>1, <2>2, <2>3, <2>4, <2>6, <2>7, Zenon DEF ExecOK
<1>9. ExecOK(k, n, g2, m)
  <2>1. Types(k, n, g2, m)
    BY <1>1, <1>2, <1>4, <1>6 DEF Types
  <2>2. BytesOK(m)
    BY Zenon DEF ExecOK
  <2>3. EarlyOK(k, n, g2, m) /\ LossyOK(g2, m)
    BY <1>1, <1>2, <1>4, Zenon DEF EarlyOK, LossyOK
  <2>4. QueueOK(k, g2, m)
    BY <1>4, Zenon DEF QueueOK, Ordered
  <2>5. \A s \in Streams : Ledger(k, n, g2, m, s, 0)
    BY <1>1, <1>2, <1>4, <1>6, <1>7 DEF Ledger
  <2>6. LedgerOK(k, n, g2, m)
    BY <2>5, Zenon DEF LedgerOK
  <2>7. FramesOK(k, n, g2, m) /\ AnswerOK(k, g2, m)
    BY <1>1, <1>2, <1>4, GuestAssumption DEF FramesOK, AnswerOK
  <2>8. EndsOK(g2, m)
    BY <1>6, <1>7, Zenon DEF EndsOK, Closed
  <2> QED
    BY <2>1, <2>2, <2>3, <2>4, <2>6, <2>7, <2>8, Zenon DEF ExecOK
<1> QED
  BY <1>8, <1>9, Zenon DEF k, g1, g2, m1

\* The command and its helper write and end: nothing that is closed is written to.
LEMMA CmdMoves ==
    ASSUME NEW h, NEW n, NEW g, NEW m, ExecOK(h, n, g, m), g.pc # "none",
           NEW x \in CmdRec,
           x.read = m.read /\ x.kept = m.kept /\ x.open = m.open,
           x # m => m # NewCmd,
           \A s \in Streams : m.written[s] <= x.written[s],
           \A s \in Streams : Closed(m, s) => Closed(x, s) /\ x.written[s] = m.written[s]
    PROVE  ExecOK(h, n, g, x)
<1>1. Types(h, n, g, x)
  BY Zenon DEF ExecOK, Types
<1>2. m.read \in [Streams -> Nat] /\ m.written \in [Streams -> Nat] /\ x.written \in [Streams -> Nat]
  BY Zenon DEF ExecOK, Types, CmdRec
<1>3. BytesOK(x)
  BY <1>2 DEF ExecOK, BytesOK
<1>4. EarlyOK(h, n, g, x)
  BY Zenon DEF ExecOK, EarlyOK
<1>5. EndsOK(g, x)
  BY Zenon DEF ExecOK, EndsOK
<1>6. QueueOK(h, g, x)
  BY Zenon DEF ExecOK, QueueOK, Ordered
<1>7. \A s \in Streams, y \in Nat : Ledger(h, n, g, m, s, y) => Ledger(h, n, g, x, s, y)
  BY DEF Ledger
<1>8. LedgerOK(h, n, g, x)
  BY <1>7, Zenon DEF ExecOK, LedgerOK
<1>9. FramesOK(h, n, g, x)
  BY Zenon DEF ExecOK, FramesOK
<1>10. AnswerOK(h, g, x)
  BY Zenon DEF ExecOK, AnswerOK
<1>11. LossyOK(g, x)
  <2> SUFFICES ASSUME NEW s \in g.lossy
               PROVE  /\ Closed(x, s) /\ x.kept[s] % 2 = 1
                      /\ x.kept[s] = Cap \/ x.written[s] % 2 = 1
    BY Zenon DEF LossyOK
  <2>1. s \in Streams
    BY Zenon DEF ExecOK, Types, GuestRec
  <2> QED
    BY <2>1, Zenon DEF ExecOK, LossyOK
<1> QED
  BY <1>1, <1>3, <1>4, <1>5, <1>6, <1>8, <1>9, <1>10, <1>11, Zenon DEF ExecOK

\* CmdWrite, CmdExit, HelperExit and a SIGKILL for the group.
LEMMA CmdSteps ==
    ASSUME NEW h, NEW n, NEW g, NEW m, ExecOK(h, n, g, m)
    PROVE  /\ m.child = "run" \/ m.helper \in {"group", "escaped"} => \A s \in Streams :
                ExecOK(h, n, g, [m EXCEPT !.written[s] = @ + 1])
           /\ m.child = "run" => \A e \in {"group", "escaped", "none"} :
                ExecOK(h, n, g, [m EXCEPT !.child = "exited", !.helper = e])
           /\ m.helper \in {"group", "escaped"} => ExecOK(h, n, g, [m EXCEPT !.helper = "none"])
           /\ g.pc = "loop" => ExecOK(h, n, g, Killed(m))
           /\ m.child \in {"exited", "killed"} => ExecOK(h, n, g, [m EXCEPT !.reaped = TRUE])
<1>1. m \in CmdRec /\ m.written \in [Streams -> Nat]
  BY Zenon DEF ExecOK, Types, CmdRec
<1>2. m = NewCmd => m.child = "none" /\ m.helper = "none"
  BY DEF NewCmd
<1>3. g.pc = "none" => m = NewCmd
  BY Zenon DEF ExecOK, EarlyOK
<1>4. ASSUME m.child = "run" \/ m.helper \in {"group", "escaped"}, NEW s \in Streams
      PROVE  ExecOK(h, n, g, [m EXCEPT !.written[s] = @ + 1])
  <2> DEFINE x == [m EXCEPT !.written[s] = @ + 1]
  <2>1. x \in CmdRec /\ x.read = m.read /\ x.kept = m.kept /\ x.open = m.open
        /\ x.written = [m.written EXCEPT ![s] = @ + 1]
    BY <1>1 DEF CmdRec
  <2> HIDE DEF x
  <2>2. \A t \in Streams : m.written[t] <= x.written[t]
    BY <2>1, <1>1
  <2>3. \A t \in Streams : ~Closed(m, t)
    BY <1>4, Zenon DEF Closed
  <2>4. ExecOK(h, n, g, x)
    BY <1>2, <1>3, <1>4, <2>1, <2>2, <2>3, CmdMoves, Zenon
  <2> QED
    BY <2>4, Zenon DEF x
<1>5. ASSUME m.child = "run", NEW e \in {"group", "escaped", "none"}
      PROVE  ExecOK(h, n, g, [m EXCEPT !.child = "exited", !.helper = e])
  <2> DEFINE x == [m EXCEPT !.child = "exited", !.helper = e]
  <2>1. x \in CmdRec /\ x.read = m.read /\ x.kept = m.kept /\ x.open = m.open
        /\ x.written = m.written
    BY <1>1, <1>5, Zenon DEF CmdRec
  <2> HIDE DEF x
  <2>2. \A t \in Streams : m.written[t] <= x.written[t]
    BY <2>1, <1>1
  <2>3. \A t \in Streams : ~Closed(m, t)
    BY <1>5, Zenon DEF Closed
  <2>4. ExecOK(h, n, g, x)
    BY <1>2, <1>3, <1>5, <2>1, <2>2, <2>3, CmdMoves, Zenon
  <2> QED
    BY <2>4, Zenon DEF x
<1>6. ASSUME m.helper \in {"group", "escaped"}
      PROVE  ExecOK(h, n, g, [m EXCEPT !.helper = "none"])
  <2> DEFINE x == [m EXCEPT !.helper = "none"]
  <2>1. x \in CmdRec /\ x.read = m.read /\ x.kept = m.kept /\ x.open = m.open
        /\ x.written = m.written
    BY <1>1, <1>6, Zenon DEF CmdRec
  <2> HIDE DEF x
  <2>2. \A t \in Streams : m.written[t] <= x.written[t]
    BY <2>1, <1>1
  <2>3. \A t \in Streams : ~Closed(m, t)
    BY <1>6, Zenon DEF Closed
  <2>4. ExecOK(h, n, g, x)
    BY <1>2, <1>3, <1>6, <2>1, <2>2, <2>3, CmdMoves, Zenon
  <2> QED
    BY <2>4, Zenon DEF x
<1>7. ASSUME g.pc = "loop"
      PROVE  ExecOK(h, n, g, Killed(m))
  <2> DEFINE x == Killed(m)
  <2>1. /\ x \in CmdRec /\ x.read = m.read /\ x.kept = m.kept /\ x.open = m.open
        /\ x.written = m.written /\ (m.child # "run" => x.child = m.child)
        /\ (m.helper = "none" => x.helper = "none")
    BY <1>1, Zenon DEF CmdRec, Killed
  <2>2. m = NewCmd => x = m
    BY <1>1, <1>2, Zenon DEF Killed, CmdRec
  <2> HIDE DEF x
  <2>3. \A t \in Streams : m.written[t] <= x.written[t]
    BY <2>1, <1>1
  <2>4. \A t \in Streams : Closed(m, t) => Closed(x, t)
    BY <2>1, Zenon DEF Closed
  <2>5. ExecOK(h, n, g, x)
    BY <1>7, <2>1, <2>2, <2>3, <2>4, CmdMoves, Zenon
  <2> QED
    BY <2>5, Zenon DEF x
<1>8. ASSUME m.child \in {"exited", "killed"}
      PROVE  ExecOK(h, n, g, [m EXCEPT !.reaped = TRUE])
  <2> DEFINE x == [m EXCEPT !.reaped = TRUE]
  <2>1. /\ x \in CmdRec /\ x.read = m.read /\ x.kept = m.kept /\ x.open = m.open
        /\ x.written = m.written /\ x.child = m.child /\ x.helper = m.helper
    BY <1>1, Zenon DEF CmdRec
  <2> HIDE DEF x
  <2>2. \A t \in Streams : m.written[t] <= x.written[t]
    BY <2>1, <1>1
  <2>3. \A t \in Streams : Closed(m, t) => Closed(x, t)
    BY <2>1, Zenon DEF Closed
  <2>4. ExecOK(h, n, g, x)
    BY <1>2, <1>3, <1>8, <2>1, <2>2, <2>3, CmdMoves, Zenon
  <2> QED
    BY <2>4, Zenon DEF x
<1> QED
  BY <1>4, <1>5, <1>6, <1>7, <1>8, Zenon

----------------------------------------------------------------------------
(* The readers and the waiter. *)

\* What a message carries.
LEMMA AmountType ==
    ASSUME NEW s
    PROVE  /\ \A m \in Messages : Amount(m, s) \in Nat
           /\ \A m \in Frames : Amount(m, s) \in Nat
BY Zenon DEF Amount, Messages, Frames, Chunks

\* A message joins the channel of a running loop.
Grown(g, z, x) ==
    /\ z \in GuestRec /\ z.queue = Append(g.queue, x) /\ z.pc = g.pc
    /\ z.err = g.err /\ z.eofs = g.eofs /\ z.carry = g.carry /\ z.lossy = g.lossy
    /\ z.expired = g.expired /\ z.exited = g.exited
    /\ Len(z.queue) = Len(g.queue) + 1 /\ z.queue[Len(g.queue) + 1] = x
    /\ \A i \in 1 .. Len(g.queue) : z.queue[i] = g.queue[i]

\* A message is queued.
LEMMA QueueGrows ==
    ASSUME NEW g \in GuestRec, NEW x \in Messages
    PROVE  Grown(g, [g EXCEPT !.queue = Append(@, x)], x)
<1> DEFINE z == [g EXCEPT !.queue = Append(@, x)]
<1>1. g.queue \in Seq(Messages) /\ Append(g.queue, x) \in Seq(Messages)
  BY DEF GuestRec
<1>2. /\ z \in GuestRec /\ z.queue = Append(g.queue, x) /\ z.pc = g.pc
      /\ z.err = g.err /\ z.eofs = g.eofs /\ z.carry = g.carry /\ z.lossy = g.lossy
      /\ z.expired = g.expired /\ z.exited = g.exited
  BY <1>1, Zenon DEF GuestRec
<1> HIDE DEF z
<1>3. /\ Len(z.queue) = Len(g.queue) + 1 /\ z.queue[Len(g.queue) + 1] = x
      /\ \A i \in 1 .. Len(g.queue) : z.queue[i] = g.queue[i]
  BY <1>1, <1>2
<1>4. Grown(g, z, x)
  BY <1>2, <1>3, Zenon DEF Grown
<1> QED
  BY <1>4, Zenon DEF z

\* The waiter's message.
LEMMA Exits ==
    ASSUME NEW h, NEW n, NEW g, NEW m, ExecOK(h, n, g, m), g.pc = "loop"
    PROVE  ExecOK(h, n, [g EXCEPT !.queue = Append(@, [t |-> "exited", s |-> None, n |-> 0])], m)
<1> DEFINE x == [t |-> "exited", s |-> None, n |-> 0]
           z == [g EXCEPT !.queue = Append(@, x)]
           l == Len(g.queue)
<1>1. x \in Messages /\ x.t = "exited" /\ \A s \in Streams : Amount(x, s) = 0 /\ Silent(x, s)
  BY Zenon DEF Messages, Amount, Silent
<1>2. g \in GuestRec /\ g.queue \in Seq(Messages) /\ l \in Nat
  BY DEF ExecOK, Types, GuestRec
<1> HIDE DEF x
<1>3. /\ z \in GuestRec /\ z.queue = Append(g.queue, x) /\ z.pc = g.pc
      /\ z.err = g.err /\ z.eofs = g.eofs /\ z.carry = g.carry /\ z.lossy = g.lossy
      /\ Len(z.queue) = l + 1 /\ z.queue[l + 1] = x
      /\ \A i \in 1 .. l : z.queue[i] = g.queue[i]
  <2>1. Grown(g, z, x)
    BY <1>1, <1>2, QueueGrows, Zenon
  <2> HIDE DEF z
  <2> QED
    BY <2>1, Zenon DEF Grown
<1> HIDE DEF z, l
<1>4. Types(h, n, z, m)
  BY <1>3, Zenon DEF ExecOK, Types
<1>5. EarlyOK(h, n, z, m) /\ EndsOK(z, m) /\ AnswerOK(h, z, m) /\ LossyOK(z, m) /\ BytesOK(m)
  BY <1>3, Zenon DEF ExecOK, EarlyOK, EndsOK, AnswerOK, LossyOK
<1>6. QueueOK(h, z, m)
  <2>1. \A i \in 1 .. l + 1 : i \in 1 .. l \/ i = l + 1
    BY <1>2 DEF l
  <2>2. h.mode # "streamed" => \A i \in 1 .. Len(z.queue) : z.queue[i].t = "exited"
    <3>1. h.mode # "streamed" => \A i \in 1 .. l : g.queue[i].t = "exited"
      BY Zenon DEF ExecOK, QueueOK, Ordered, l
    <3> QED
      BY <3>1, <2>1, <1>1, <1>3, Zenon
  <2>3. ASSUME h.mode = "streamed", NEW s \in Streams, s \notin z.eofs
        PROVE  /\ s \notin m.open /\ (~z.err => z.carry[s] = 0)
               /\ \A i \in 1 .. Len(z.queue) : Silent(z.queue[i], s)
    <3>1. /\ s \notin m.open /\ (~g.err => g.carry[s] = 0)
          /\ \A i \in 1 .. l : Silent(g.queue[i], s)
      BY <2>3, <1>3, Zenon DEF ExecOK, QueueOK, Ordered, l
    <3> QED
      BY <3>1, <2>1, <1>1, <1>3, Zenon
  <2>4. ASSUME h.mode = "streamed", NEW s \in Streams, NEW i \in 1 .. Len(z.queue),
               z.queue[i].t = "eof", z.queue[i].s = s
        PROVE  /\ s \notin m.open
               /\ \A j \in i + 1 .. Len(z.queue) : Silent(z.queue[j], s)
    <3>1. i \in 1 .. l /\ g.queue[i].t = "eof" /\ g.queue[i].s = s
      BY <2>1, <2>4, <1>1, <1>3, Zenon
    <3>2. s \notin m.open /\ \A j \in i + 1 .. l : Silent(g.queue[j], s)
      BY <3>1, <2>4, Zenon DEF ExecOK, QueueOK, Ordered, l
    <3>3. \A j \in i + 1 .. l + 1 : (j \in i + 1 .. l /\ j \in 1 .. l) \/ j = l + 1
      BY <3>1, <1>2 DEF l
    <3> QED
      BY <3>2, <3>3, <1>1, <1>3, Zenon
  <2> QED
    BY <2>2, <2>3, <2>4, <1>3, Zenon DEF QueueOK, Ordered
<1>7. LedgerOK(h, n, z, m)
  <2> SUFFICES ASSUME h.pc = "wait", NEW s \in Streams
               PROVE  \E y \in Nat : Ledger(h, n, z, m, s, y)
    BY Zenon DEF LedgerOK
  <2>1. PICK y \in Nat : Ledger(h, n, g, m, s, y)
    BY Zenon DEF ExecOK, LedgerOK
  <2>2. m.kept[s] \in Nat
    BY Zenon DEF ExecOK, Types, CmdRec
  <2>3. h.mode = "streamed" => Sums(z.queue, s, y + g.carry[s], m.kept[s])
    <3> HAVE h.mode = "streamed"
    <3>1. Sums(g.queue, s, y + g.carry[s], m.kept[s])
      BY <2>1, Zenon DEF Ledger
    <3>2. Sums(z.queue, s, y + g.carry[s], m.kept[s] + 0)
      BY <3>1, <2>2, <1>1, <1>2, <1>3, SumsGrow, SMT
    <3> QED
      BY <3>2, <2>2
  <2>4. Ledger(h, n, z, m, s, y)
    BY <2>1, <2>3, <1>3, Zenon DEF Ledger
  <2> QED
    BY <2>4, Zenon
<1>8. FramesOK(h, n, z, m)
  BY <1>3, Zenon DEF ExecOK, FramesOK
<1>9. ExecOK(h, n, z, m)
  BY <1>4, <1>5, <1>6, <1>7, <1>8, Zenon DEF ExecOK
<1> QED
  BY <1>9, Zenon DEF z, x

\* A reader's message is in order: its stream is still to end.
LEMMA QueueSends ==
    ASSUME NEW h, NEW g \in GuestRec, NEW m, NEW w, NEW s \in Streams, NEW x \in Messages,
           QueueOK(h, g, m), g.pc = "loop", h.mode = "streamed", s \in m.open,
           x.t \in {"chunk", "eof"}, x.s = s, w.open \subseteq m.open,
           x.t = "eof" => s \notin w.open
    PROVE  QueueOK(h, [g EXCEPT !.queue = Append(@, x)], w)
<1> DEFINE z == [g EXCEPT !.queue = Append(@, x)]
           l == Len(g.queue)
<1>1. g.queue \in Seq(Messages) /\ l \in Nat
  BY DEF GuestRec
<1>2. /\ z.queue = Append(g.queue, x) /\ z.pc = g.pc
      /\ z.err = g.err /\ z.eofs = g.eofs /\ z.carry = g.carry
      /\ Len(z.queue) = l + 1 /\ z.queue[l + 1] = x
      /\ \A i \in 1 .. l : z.queue[i] = g.queue[i]
  <2>1. Grown(g, z, x)
    BY QueueGrows, Zenon
  <2> HIDE DEF z
  <2> QED
    BY <2>1, Zenon DEF Grown
<1>3. \A i \in 1 .. l + 1 : i \in 1 .. l \/ i = l + 1
  BY <1>1
<1>4. s \in g.eofs /\ \A i \in 1 .. l : ~(g.queue[i].t = "eof" /\ g.queue[i].s = s)
  BY Zenon DEF QueueOK, Ordered
<1>5. \A u \in Streams : u # s => Silent(x, u)
  BY Zenon DEF Silent
<1> HIDE DEF z
<1>6. ASSUME NEW u \in Streams, u \notin z.eofs
      PROVE  /\ u \notin w.open /\ (~z.err => z.carry[u] = 0)
             /\ \A i \in 1 .. Len(z.queue) : Silent(z.queue[i], u)
  <2>1. u # s
    BY <1>2, <1>4, <1>6, Zenon
  <2>2. /\ u \notin m.open /\ (~g.err => g.carry[u] = 0)
        /\ \A i \in 1 .. l : Silent(g.queue[i], u)
    BY <1>6, <1>2, Zenon DEF QueueOK, Ordered
  <2> QED
    BY <2>1, <2>2, <1>2, <1>3, <1>5, Zenon
<1>7. ASSUME NEW u \in Streams, NEW i \in 1 .. Len(z.queue),
             z.queue[i].t = "eof", z.queue[i].s = u
      PROVE  /\ u \notin w.open
             /\ \A j \in i + 1 .. Len(z.queue) : Silent(z.queue[j], u)
  <2>1. CASE i \in 1 .. l
    <3>1. u # s /\ g.queue[i].t = "eof" /\ g.queue[i].s = u
      BY <2>1, <1>2, <1>4, <1>7, Zenon
    <3>2. u \notin m.open /\ \A j \in i + 1 .. l : Silent(g.queue[j], u)
      BY <3>1, <2>1, Zenon DEF QueueOK, Ordered
    <3>3. \A j \in i + 1 .. l + 1 : (j \in i + 1 .. l /\ j \in 1 .. l) \/ j = l + 1
      BY <2>1, <1>1
    <3> QED
      BY <3>1, <3>2, <3>3, <1>2, <1>5, Zenon
  <2>2. CASE i = l + 1
    BY <2>2, <1>1, <1>2, <1>7
  <2> QED
    BY <2>1, <2>2, <1>2, <1>3, Zenon
<1>8. QueueOK(h, z, w)
  BY <1>6, <1>7, Zenon DEF QueueOK, Ordered
<1> QED
  BY <1>8, Zenon DEF z

\* What is kept stays within the cap l.
LEMMA CapSum ==
    ASSUME NEW r \in Nat, NEW a \in Nat, NEW w \in Nat, NEW k \in Nat, NEW t \in Nat,
           NEW l \in Nat, a = IF r <= l THEN r ELSE l, k <= w - r,
           t = IF k <= l - a THEN k ELSE l - a
    PROVE  r + k <= w /\ a + t = IF r + k <= l THEN r + k ELSE l
OBVIOUS

\* A reader takes k more bytes and keeps t of them.
LEMMA Reads ==
    ASSUME NEW h, NEW n, NEW g, NEW m, ExecOK(h, n, g, m), NEW s \in m.open,
           NEW k \in Nat \ {0}, k <= m.written[s] - m.read[s], NEW t \in Nat,
           t = IF k <= Cap - m.kept[s] THEN k ELSE Cap - m.kept[s],
           NEW z, z = IF h.mode = "streamed" /\ t > 0 /\ g.pc = "loop"
                      THEN [g EXCEPT !.queue = Append(@, [t |-> "chunk", s |-> s, n |-> t])]
                      ELSE g
    PROVE  ExecOK(h, n, z, [m EXCEPT !.read[s] = @ + k, !.kept[s] = @ + t])
<1> DEFINE w == [m EXCEPT !.read[s] = @ + k, !.kept[s] = @ + t]
           x == [t |-> "chunk", s |-> s, n |-> t]
<1>1. /\ m \in CmdRec /\ s \in Streams /\ m.written \in [Streams -> Nat]
      /\ m.read \in [Streams -> Nat] /\ m.kept \in [Streams -> Nat]
  BY Zenon DEF ExecOK, Types, CmdRec
<1>2. /\ w \in CmdRec /\ w.open = m.open /\ w.written = m.written /\ w.child = m.child
      /\ w.helper = m.helper /\ w.read = [m.read EXCEPT ![s] = @ + k]
      /\ w.kept = [m.kept EXCEPT ![s] = @ + t]
  <2>1. /\ [m.read EXCEPT ![s] = @ + k] \in [Streams -> Nat]
        /\ [m.kept EXCEPT ![s] = @ + t] \in [Streams -> Nat]
    BY <1>1
  <2>2. w = [m EXCEPT !.read = [m.read EXCEPT ![s] = @ + k],
                      !.kept = [m.kept EXCEPT ![s] = @ + t]]
    BY <1>1, Zenon DEF CmdRec
  <2> QED
    BY <1>1, <2>1, <2>2, Zenon DEF CmdRec
<1>3. g.pc # "none" /\ m # NewCmd /\ (h.pc # "done" => ~g.err)
  BY DEF ExecOK, EarlyOK, NewCmd
<1>4. ~Closed(m, s) /\ ~Closed(w, s)
  BY <1>2, Zenon DEF Closed
<1>5. /\ x \in Messages /\ Amount(x, s) = t /\ x.t = "chunk" /\ x.s = s
      /\ \A u \in Streams : u # s => Amount(x, u) = 0
  BY <1>1, Zenon DEF Messages, Chunks, Amount
<1>6. g \in GuestRec /\ g.queue \in Seq(Messages)
  BY Zenon DEF ExecOK, Types, GuestRec
<1> HIDE DEF w, x
<1>7. /\ z \in GuestRec /\ z.pc = g.pc /\ z.err = g.err /\ z.eofs = g.eofs
      /\ z.carry = g.carry /\ z.lossy = g.lossy /\ z.expired = g.expired
      /\ z.queue = IF h.mode = "streamed" /\ t > 0 /\ g.pc = "loop" THEN Append(g.queue, x)
                   ELSE g.queue
  <2>1. CASE h.mode = "streamed" /\ t > 0 /\ g.pc = "loop"
    <3> DEFINE v == [g EXCEPT !.queue = Append(@, x)]
    <3>1. z = v
      BY <2>1, Zenon DEF x
    <3>2. /\ v \in GuestRec /\ v.pc = g.pc /\ v.err = g.err /\ v.eofs = g.eofs
          /\ v.carry = g.carry /\ v.lossy = g.lossy /\ v.expired = g.expired
          /\ v.queue = Append(g.queue, x)
      <4>1. Grown(g, v, x)
        BY <1>5, <1>6, QueueGrows, Zenon
      <4> HIDE DEF v
      <4> QED
        BY <4>1, Zenon DEF Grown
    <3> HIDE DEF v
    <3> QED
      BY <2>1, <3>1, <3>2, Zenon
  <2>2. CASE ~(h.mode = "streamed" /\ t > 0 /\ g.pc = "loop")
    BY <2>2, <1>6, Zenon
  <2> QED
    BY <2>1, <2>2, Zenon
<1>8. \A u \in Streams : Closed(m, u) => Closed(w, u) /\ w.kept[u] = m.kept[u]
  BY <1>1, <1>2, <1>4, Zenon DEF Closed
<1>9. Types(h, n, z, w)
  BY <1>2, <1>7, Zenon DEF ExecOK, Types
<1>10. BytesOK(w)
  <2> SUFFICES ASSUME NEW u \in Streams
               PROVE  /\ w.read[u] <= w.written[u]
                      /\ w.kept[u] = IF w.read[u] <= Cap THEN w.read[u] ELSE Cap
    BY Zenon DEF BytesOK
  <2>1. /\ m.read[u] <= m.written[u]
        /\ m.kept[u] = IF m.read[u] <= Cap THEN m.read[u] ELSE Cap
    BY Zenon DEF ExecOK, BytesOK
  <2>2. CASE u = s
    <3>1. Cap \in Nat
      BY GuestAssumption, Zenon
    <3>2. w.read[s] = m.read[s] + k /\ w.kept[s] = m.kept[s] + t /\ w.written[s] = m.written[s]
      BY <1>1, <1>2, Zenon
    <3>3. m.read[s] \in Nat /\ m.kept[s] \in Nat /\ m.written[s] \in Nat
      BY <1>1, Zenon
    <3> DEFINE r == m.read[s]
               a == m.kept[s]
               b == m.written[s]
    <3>4. a = IF r <= Cap THEN r ELSE Cap
      BY <2>1, <2>2
    <3>5. k <= b - r /\ t = IF k <= Cap - a THEN k ELSE Cap - a
      OBVIOUS
    <3>6. r \in Nat /\ a \in Nat /\ b \in Nat
      BY <3>3
    <3> HIDE DEF r, a, b
    <3>7. r + k <= b /\ a + t = IF r + k <= Cap THEN r + k ELSE Cap
      BY <3>1, <3>4, <3>5, <3>6, CapSum
    <3> QED
      BY <2>2, <3>2, <3>7, Zenon DEF r, a, b
  <2>3. CASE u # s
    BY <2>1, <2>3, <1>1, <1>2, Zenon
  <2> QED
    BY <2>2, <2>3, Zenon
<1>11. EarlyOK(h, n, z, w)
  BY <1>3, <1>7, Zenon DEF ExecOK, EarlyOK
<1>12. EndsOK(z, w)
  BY <1>2, <1>7, <1>8, Zenon DEF ExecOK, EndsOK
<1>13. QueueOK(h, z, w)
  <2>1. QueueOK(h, g, m)
    BY Zenon DEF ExecOK
  <2>2. CASE h.mode = "streamed" /\ t > 0 /\ g.pc = "loop"
    BY <2>1, <2>2, <1>1, <1>2, <1>5, <1>6, QueueSends, Zenon DEF x
  <2>3. CASE ~(h.mode = "streamed" /\ t > 0 /\ g.pc = "loop")
    BY <2>1, <2>3, <1>2, Zenon DEF QueueOK, Ordered
  <2> QED
    BY <2>2, <2>3, Zenon
<1>14. LedgerOK(h, n, z, w)
  <2> SUFFICES ASSUME h.pc = "wait", NEW u \in Streams
               PROVE  \E y \in Nat : Ledger(h, n, z, w, u, y)
    BY Zenon DEF LedgerOK
  <2>1. PICK y \in Nat : Ledger(h, n, g, m, u, y)
    BY Zenon DEF ExecOK, LedgerOK
  <2>2. m.kept[u] \in Nat /\ w.kept[u] = m.kept[u] + (IF u = s THEN t ELSE 0)
    BY <1>1, <1>2
  <2>3. \A i \in 1 .. Len(n) : n[i].t # "done"
    BY <1>1, <1>4, Zenon DEF ExecOK, FramesOK
  <2>4. h.mode = "streamed" /\ g.pc = "loop" =>
           Sums(z.queue, u, y + g.carry[u], w.kept[u])
    <3> HAVE h.mode = "streamed" /\ g.pc = "loop"
    <3>1. Sums(g.queue, u, y + g.carry[u], m.kept[u])
      BY <2>1, Zenon DEF Ledger
    <3>2. CASE t > 0
      <4>1. Sums(z.queue, u, y + g.carry[u], m.kept[u] + Amount(x, u))
        BY <3>1, <3>2, <2>2, <1>5, <1>6, <1>7, SumsGrow, AmountType
      <4> QED
        BY <4>1, <2>2, <1>5, Zenon
    <3>3. CASE t = 0
      BY <3>1, <3>3, <2>2, <1>7
    <3> QED
      BY <3>2, <3>3
  <2>5. y <= w.kept[u]
    BY <2>1, <2>2 DEF Ledger
  <2>6. h.mode = "streamed" /\ g.pc \in {"join", "write"} /\ ~g.err /\ ~g.expired =>
           y = w.kept[u] /\ u \notin w.open
    <3> HAVE h.mode = "streamed" /\ g.pc \in {"join", "write"} /\ ~g.err /\ ~g.expired
    <3>1. y = m.kept[u] /\ u \notin m.open
      BY <2>1, Zenon DEF Ledger
    <3> QED
      BY <3>1, <2>2, <1>2
  <2>7. Ledger(h, n, z, w, u, y)
    BY <2>1, <2>3, <2>4, <2>5, <2>6, <1>7, Zenon DEF Ledger
  <2> QED
    BY <2>7, Zenon
<1>15. FramesOK(h, n, z, w)
  BY <1>1, <1>4, Zenon DEF ExecOK, FramesOK
<1>16. AnswerOK(h, z, w)
  BY <1>1, <1>4, Zenon DEF ExecOK, AnswerOK
<1>17. LossyOK(z, w)
  <2>1. g.lossy \subseteq Streams /\ s \notin g.lossy
    BY <1>4, Zenon DEF ExecOK, Types, GuestRec, LossyOK
  <2> QED
    BY <2>1, <1>2, <1>7, <1>8 DEF ExecOK, LossyOK
<1>18. ExecOK(h, n, z, w)
  BY <1>9, <1>10, <1>11, <1>12, <1>13, <1>14, <1>15, <1>16, <1>17, Zenon DEF ExecOK
<1> QED
  BY <1>18, Zenon DEF w

\* A reader is at the end of its stream.
LEMMA ReadsEnd ==
    ASSUME NEW h, NEW n, NEW g, NEW m, ExecOK(h, n, g, m), NEW s \in m.open,
           m.read[s] = m.written[s], m.child # "run", m.helper \notin {"group", "escaped"},
           NEW z, z = IF h.mode = "streamed" /\ g.pc = "loop"
                      THEN [g EXCEPT !.queue = Append(@, [t |-> "eof", s |-> s, n |-> 0])]
                      ELSE g
    PROVE  ExecOK(h, n, z, [m EXCEPT !.open = @ \ {s}])
<1> DEFINE w == [m EXCEPT !.open = @ \ {s}]
           x == [t |-> "eof", s |-> s, n |-> 0]
<1>1. m \in CmdRec /\ s \in Streams /\ m.kept \in [Streams -> Nat] /\ m.helper = "none"
  BY Zenon DEF ExecOK, Types, CmdRec
<1>2. /\ w \in CmdRec /\ w.open = m.open \ {s} /\ w.written = m.written /\ w.child = m.child
      /\ w.helper = m.helper /\ w.read = m.read /\ w.kept = m.kept
  BY <1>1, Zenon DEF CmdRec
<1>3. g.pc # "none" /\ m # NewCmd /\ (h.pc # "done" => ~g.err)
  BY DEF ExecOK, EarlyOK, NewCmd
<1>4. /\ x \in Messages /\ x.t = "eof" /\ x.s = s
      /\ \A u \in Streams : Amount(x, u) = 0
  BY <1>1, Zenon DEF Messages, Amount
<1>5. g \in GuestRec /\ g.queue \in Seq(Messages)
  BY Zenon DEF ExecOK, Types, GuestRec
<1> HIDE DEF w, x
<1>6. /\ z \in GuestRec /\ z.pc = g.pc /\ z.err = g.err /\ z.eofs = g.eofs
      /\ z.carry = g.carry /\ z.lossy = g.lossy /\ z.expired = g.expired
      /\ z.queue = IF h.mode = "streamed" /\ g.pc = "loop" THEN Append(g.queue, x)
                   ELSE g.queue
  <2>1. CASE h.mode = "streamed" /\ g.pc = "loop"
    <3> DEFINE v == [g EXCEPT !.queue = Append(@, x)]
    <3>1. z = v
      BY <2>1, Zenon DEF x
    <3>2. /\ v \in GuestRec /\ v.pc = g.pc /\ v.err = g.err /\ v.eofs = g.eofs
          /\ v.carry = g.carry /\ v.lossy = g.lossy /\ v.expired = g.expired
          /\ v.queue = Append(g.queue, x)
      <4>1. Grown(g, v, x)
        BY <1>4, <1>5, QueueGrows, Zenon
      <4> HIDE DEF v
      <4> QED
        BY <4>1, Zenon DEF Grown
    <3> HIDE DEF v
    <3> QED
      BY <2>1, <3>1, <3>2, Zenon
  <2>2. CASE ~(h.mode = "streamed" /\ g.pc = "loop")
    BY <2>2, <1>5, Zenon
  <2> QED
    BY <2>1, <2>2, Zenon
<1>7. Closed(w, s) /\ ~Closed(m, s) /\ \A u \in Streams : Closed(m, u) => Closed(w, u)
  BY <1>1, <1>2, Zenon DEF Closed
<1>8. Types(h, n, z, w) /\ BytesOK(w)
  BY <1>2, <1>6, Zenon DEF ExecOK, Types, BytesOK
<1>9. EarlyOK(h, n, z, w)
  BY <1>3, <1>6, Zenon DEF ExecOK, EarlyOK
<1>10. EndsOK(z, w)
  BY <1>2, <1>6, <1>7, Zenon DEF ExecOK, EndsOK
<1>11. QueueOK(h, z, w)
  <2>1. QueueOK(h, g, m)
    BY Zenon DEF ExecOK
  <2>2. CASE h.mode = "streamed" /\ g.pc = "loop"
    <3>1. z = [g EXCEPT !.queue = Append(@, x)]
      BY <2>2, Zenon DEF x
    <3>2. w.open \subseteq m.open /\ s \notin w.open /\ x.t \in {"chunk", "eof"}
      BY <1>2, <1>4, Zenon
    <3>3. QueueOK(h, [g EXCEPT !.queue = Append(@, x)], w)
      BY <2>1, <2>2, <3>2, <1>1, <1>4, <1>5, QueueSends, Zenon
    <3> QED
      BY <3>1, <3>3, Zenon
  <2>3. CASE ~(h.mode = "streamed" /\ g.pc = "loop")
    BY <2>1, <2>3, <1>2, Zenon DEF QueueOK, Ordered
  <2> QED
    BY <2>2, <2>3, Zenon
<1>12. LedgerOK(h, n, z, w)
  <2> SUFFICES ASSUME h.pc = "wait", NEW u \in Streams
               PROVE  \E y \in Nat : Ledger(h, n, z, w, u, y)
    BY Zenon DEF LedgerOK
  <2>1. PICK y \in Nat : Ledger(h, n, g, m, u, y)
    BY Zenon DEF ExecOK, LedgerOK
  <2>2. m.kept[u] \in Nat
    BY <1>1, Zenon
  <2>3. h.mode = "streamed" /\ g.pc = "loop" =>
           Sums(z.queue, u, y + g.carry[u], m.kept[u])
    <3> HAVE h.mode = "streamed" /\ g.pc = "loop"
    <3>1. Sums(g.queue, u, y + g.carry[u], m.kept[u])
      BY <2>1, Zenon DEF Ledger
    <3>2. Sums(z.queue, u, y + g.carry[u], m.kept[u] + 0)
      BY <3>1, <2>2, <1>4, <1>5, <1>6, SumsGrow
    <3> QED
      BY <3>2, <2>2
  <2>4. Ledger(h, n, z, w, u, y)
    BY <2>1, <2>3, <1>2, <1>6, Zenon DEF Ledger
  <2> QED
    BY <2>4, Zenon
<1>13. FramesOK(h, n, z, w)
  BY <1>1, <1>7, Zenon DEF ExecOK, FramesOK
<1>14. AnswerOK(h, z, w)
  BY <1>1, <1>7, Zenon DEF ExecOK, AnswerOK
<1>15. LossyOK(z, w)
  <2>1. g.lossy \subseteq Streams
    BY <1>5, Zenon DEF GuestRec
  <2> QED
    BY <2>1, <1>2, <1>6, <1>7 DEF ExecOK, LossyOK
<1>16. ExecOK(h, n, z, w)
  BY <1>8, <1>9, <1>10, <1>11, <1>12, <1>13, <1>14, <1>15, Zenon DEF ExecOK
<1> QED
  BY <1>16, Zenon DEF w

----------------------------------------------------------------------------
(* The frames. *)

\* What the end of the VM leaves of a command.
Ended(m) ==
    [m EXCEPT !.child = IF @ = "none" THEN @ ELSE "killed",
              !.helper = "none", !.open = {}, !.reaped = TRUE]

\* The thread is gone and has lost what it had; the frames that are under way
\* arrive or are lost with the VM.
LEMMA ThreadGone ==
    ASSUME NEW h, NEW n, NEW g, NEW m, ExecOK(h, n, g, m), g.pc \notin {"none", "gone"},
           NEW f \in {n, <<>>}
    PROVE  ExecOK(h, f, Gone(g), Ended(m))
<1> DEFINE z == Gone(g)
           w == Ended(m)
<1>1. m \in CmdRec /\ g \in GuestRec /\ m.kept \in [Streams -> Nat] /\ h \in HostRec
      /\ h.got \in [Streams -> Nat] /\ n \in Seq(Frames)
  BY Zenon DEF ExecOK, Types, CmdRec, HostRec
<1>2. /\ w \in CmdRec /\ w.open = {} /\ w.written = m.written /\ w.child # "run"
      /\ w.helper = "none" /\ w.read = m.read /\ w.kept = m.kept
  BY <1>1, Zenon DEF CmdRec, Ended
<1>3. z \in GuestRec /\ z.pc = "gone" /\ ~z.err /\ z.lossy = g.lossy
  BY <1>1, NewTypes, Zenon DEF Gone, NewGuest, GuestRec
<1> HIDE DEF z, w
<1>4. \A u \in Streams : Closed(m, u) => Closed(w, u)
  BY <1>2, Zenon DEF Closed
<1>5. Types(h, f, z, w) /\ BytesOK(w)
  <2>1. f \in Seq(Frames)
    <3>1. <<>> \in Seq(Frames) /\ n \in Seq(Frames)
      BY <1>1
    <3> QED
      BY <3>1, Zenon
  <2>2. Types(h, f, z, w)
    BY <2>1, <1>1, <1>2, <1>3, Zenon DEF Types
  <2>3. BytesOK(w)
    BY <1>2, Zenon DEF ExecOK, BytesOK
  <2> QED
    BY <2>2, <2>3, Zenon
<1>6. EarlyOK(h, f, z, w) /\ EndsOK(z, w) /\ QueueOK(h, z, w)
  BY <1>3, Zenon DEF ExecOK, EarlyOK, EndsOK, QueueOK, Ordered
<1>7. h.pc = "wait" => \A i \in 1 .. Len(n) : n[i].t # "done"
  BY Zenon DEF ExecOK, FramesOK
<1>8. LedgerOK(h, f, z, w)
  <2> SUFFICES ASSUME h.pc = "wait", NEW u \in Streams
               PROVE  \E y \in Nat : Ledger(h, f, z, w, u, y)
    BY Zenon DEF LedgerOK
  <2>1. PICK y \in Nat : Ledger(h, n, g, m, u, y)
    BY Zenon DEF ExecOK, LedgerOK
  <2>2. CASE f = n
    <3>1. Ledger(h, f, z, w, u, y)
      BY <2>1, <2>2, <1>2, <1>3, <1>7, Zenon DEF Ledger
    <3> QED
      BY <3>1, Zenon
  <2>3. CASE f = <<>>
    <3>1. h.got[u] \in Nat /\ h.got[u] <= y /\ y <= m.kept[u] /\ m.kept[u] \in Nat
      BY <2>1, <1>1, SumsBound, Zenon DEF Ledger
    <3>2. h.got[u] <= w.kept[u] /\ Sums(f, u, h.got[u], h.got[u])
      BY <3>1, <2>3, <1>2, SumsEmpty
    <3>3. Ledger(h, f, z, w, u, h.got[u])
      BY <3>2, <2>3, <1>3 DEF Ledger
    <3> QED
      BY <3>1, <3>3, Zenon
  <2> QED
    BY <2>2, <2>3, Zenon
<1>9. FramesOK(h, f, z, w)
  <2>1. CASE f = n
    BY <2>1, <1>7, Zenon DEF ExecOK, FramesOK
  <2>2. CASE f = <<>>
    BY <2>2 DEF ExecOK, FramesOK
  <2> QED
    BY <2>1, <2>2, Zenon
<1>10. AnswerOK(h, z, w)
  BY Zenon DEF ExecOK, AnswerOK
<1>11. LossyOK(z, w)
  <2>1. g.lossy \subseteq Streams
    BY <1>1, Zenon DEF GuestRec
  <2> QED
    BY <2>1, <1>2, <1>3, <1>4, Zenon DEF ExecOK, LossyOK
<1>12. ExecOK(h, f, z, w)
  BY <1>5, <1>6, <1>8, <1>9, <1>10, <1>11, Zenon DEF ExecOK
<1> QED
  BY <1>12, Zenon DEF z, w

\* The readers are joined; the answer is written, unless nobody listens.
LEMMA Joins ==
    ASSUME NEW h, NEW n, NEW g, NEW m, ExecOK(h, n, g, m), g.pc = "join", m.open = {}
    PROVE  ExecOK(h, n, [g EXCEPT !.pc = "write"], m)
<1> DEFINE z == [g EXCEPT !.pc = "write"]
<1>1. g \in GuestRec
  BY Zenon DEF ExecOK, Types
<1>2. /\ z \in GuestRec /\ z.pc = "write" /\ z.err = g.err /\ z.lossy = g.lossy
      /\ z.expired = g.expired
  BY <1>1, Zenon DEF GuestRec
<1> HIDE DEF z
<1>3. Types(h, n, z, m) /\ BytesOK(m)
  BY <1>2, Zenon DEF ExecOK, Types
<1>4. EarlyOK(h, n, z, m) /\ EndsOK(z, m) /\ QueueOK(h, z, m)
  BY <1>2, Zenon DEF ExecOK, EarlyOK, EndsOK, QueueOK, Ordered
<1>5. \A s \in Streams, y \in Nat : Ledger(h, n, g, m, s, y) => Ledger(h, n, z, m, s, y)
  BY <1>2, Zenon DEF Ledger
<1>6. LedgerOK(h, n, z, m)
  BY <1>5, Zenon DEF ExecOK, LedgerOK
<1>7. FramesOK(h, n, z, m) /\ AnswerOK(h, z, m) /\ LossyOK(z, m)
  BY <1>2, Zenon DEF ExecOK, FramesOK, AnswerOK, LossyOK
<1>8. ExecOK(h, n, z, m)
  BY <1>3, <1>4, <1>6, <1>7, Zenon DEF ExecOK
<1> QED
  BY <1>8, Zenon DEF z

\* The guest writes its last frame.
LEMMA Writes ==
    ASSUME NEW h, NEW n, NEW g, NEW m, ExecOK(h, n, g, m), g.pc = "write", NEW a,
           a = IF g.err THEN "failed" ELSE IF g.expired THEN "killed" ELSE "exit",
           NEW f, f = IF h.pc = "done" THEN n
                      ELSE Append(n, [t |-> "done", a |-> a, out |-> m.kept])
    PROVE  ExecOK(h, f, Gone(g), m)
<1> DEFINE z == Gone(g)
           d == [t |-> "done", a |-> a, out |-> m.kept]
           l == Len(n)
<1>1. /\ m \in CmdRec /\ g \in GuestRec /\ m.kept \in [Streams -> Nat] /\ n \in Seq(Frames)
      /\ h.got \in [Streams -> Nat] /\ l \in Nat /\ h.pc \in {"wait", "done"}
  BY DEF ExecOK, Types, CmdRec, HostRec, EarlyOK
<1>2. z \in GuestRec /\ z.pc = "gone" /\ ~z.err /\ z.lossy = g.lossy
  BY <1>1, NewTypes, Zenon DEF Gone, NewGuest, GuestRec
<1>3. /\ d \in Frames /\ d.t = "done" /\ d.a = a /\ d.out = m.kept
      /\ \A s \in Streams : Amount(d, s) = 0
  BY <1>1, Zenon DEF Frames, Amount
<1> HIDE DEF z, d, l
<1>4. \A s \in Streams : Closed(m, s)
  BY Zenon DEF ExecOK, EndsOK
<1>5. h.pc = "wait" => /\ f = Append(n, d) /\ f \in Seq(Frames) /\ Len(f) = l + 1
                       /\ f[l + 1] = d /\ \A i \in 1 .. l : f[i] = n[i]
  BY <1>1, <1>3 DEF d, l
<1>6. f \in Seq(Frames)
  BY <1>1, <1>5, Zenon
<1>7. Types(h, f, z, m) /\ BytesOK(m)
  BY <1>2, <1>6, Zenon DEF ExecOK, Types
<1>8. EarlyOK(h, f, z, m) /\ EndsOK(z, m) /\ QueueOK(h, z, m)
  BY <1>2, Zenon DEF ExecOK, EarlyOK, EndsOK, QueueOK, Ordered
<1>9. h.pc = "wait" => \A i \in 1 .. l : n[i].t # "done"
  BY Zenon DEF ExecOK, FramesOK, l
<1>10. \A i \in 1 .. l + 1 : i \in 1 .. l \/ i = l + 1
  BY <1>1
<1>11. LedgerOK(h, f, z, m)
  <2> SUFFICES ASSUME h.pc = "wait", NEW u \in Streams
               PROVE  \E y \in Nat : Ledger(h, f, z, m, u, y)
    BY Zenon DEF LedgerOK
  <2>1. PICK y \in Nat : Ledger(h, n, g, m, u, y)
    BY Zenon DEF ExecOK, LedgerOK
  <2>2. Sums(f, u, h.got[u], y + 0)
    BY <2>1, <1>1, <1>3, <1>5, SumsGrow DEF Ledger
  <2>3. ASSUME h.mode = "streamed", NEW i \in 1 .. Len(f), f[i].t = "done", f[i].a = "exit"
        PROVE  y = m.kept[u]
    <3>1. i = l + 1 /\ a = "exit"
      BY <2>3, <1>3, <1>5, <1>9, <1>10
    <3> QED
      BY <2>1, <2>3, <3>1, Zenon DEF Ledger
  <2>4. Ledger(h, f, z, m, u, y)
    BY <2>1, <2>2, <2>3, <1>2 DEF Ledger
  <2> QED
    BY <2>4, Zenon
<1>12. FramesOK(h, f, z, m)
  <2> SUFFICES ASSUME h.pc = "wait"
               PROVE  FramesOK(h, f, z, m)
    BY Zenon DEF FramesOK
  <2>1. ASSUME NEW i \in 1 .. Len(f), f[i].t = "done"
        PROVE  /\ i = Len(f) /\ f[i].out = m.kept
               /\ f[i].a = "failed" => m.kept = Zero
    <3>1. i = l + 1
      BY <2>1, <1>5, <1>9, <1>10, Zenon
    <3>2. a = "failed" => m = NewCmd
      BY Zenon DEF ExecOK, EarlyOK
    <3> QED
      BY <3>1, <3>2, <1>3, <1>5 DEF NewCmd
  <2>2. h.mode = "buffered" => h.got = Zero /\ \A i \in 1 .. Len(f) : f[i].t = "done"
    <3>1. h.mode = "buffered" => h.got = Zero /\ \A i \in 1 .. l : n[i].t = "done"
      BY Zenon DEF ExecOK, FramesOK, l
    <3> QED
      BY <3>1, <1>3, <1>5, <1>10, Zenon
  <2> QED
    BY <2>1, <2>2, <1>2, <1>4, Zenon DEF FramesOK
<1>13. AnswerOK(h, z, m) /\ LossyOK(z, m)
  BY <1>2, <1>4, Zenon DEF ExecOK, AnswerOK, LossyOK
<1>14. ExecOK(h, f, z, m)
  BY <1>7, <1>8, <1>11, <1>12, <1>13, Zenon DEF ExecOK
<1> QED
  BY <1>14, Zenon DEF z

\* The agent takes the next frame.
LEMMA RestOfFrames ==
    ASSUME NEW h, NEW n, NEW g, NEW m, ExecOK(h, n, g, m), h.pc = "wait", n # <<>>
    PROVE  /\ Head(n) \in Frames /\ Head(n) = n[1] /\ Tail(n) \in Seq(Frames)
           /\ Len(n) \in Nat \ {0} /\ Len(Tail(n)) = Len(n) - 1
           /\ \A i \in 1 .. Len(Tail(n)) : Tail(n)[i] = n[i + 1] /\ i + 1 \in 1 .. Len(n)
<1>1. n \in Seq(Frames)
  BY Zenon DEF ExecOK, Types
<1> QED
  BY <1>1

\* The host takes a chunk.
LEMMA TakesChunk ==
    ASSUME NEW h, NEW n, NEW g, NEW m, ExecOK(h, n, g, m), h.pc = "wait", n # <<>>,
           Head(n).t = "chunk"
    PROVE  ExecOK([h EXCEPT !.got[Head(n).s] = @ + Head(n).n], Tail(n), g, m)
<1> DEFINE f == Head(n)
           r == Tail(n)
           k == [h EXCEPT !.got[f.s] = @ + f.n]
<1>1. /\ f \in Frames /\ f = n[1] /\ r \in Seq(Frames) /\ n \in Seq(Frames)
      /\ Len(n) \in Nat \ {0} /\ Len(r) = Len(n) - 1
      /\ \A i \in 1 .. Len(r) : r[i] = n[i + 1] /\ i + 1 \in 1 .. Len(n)
  BY RestOfFrames, Zenon DEF ExecOK, Types
<1>2. f.s \in Streams /\ f.n \in Nat /\ \A u \in Streams : Amount(f, u) = IF u = f.s THEN f.n ELSE 0
  BY <1>1, Zenon DEF Frames, Chunks, Amount
<1>3. h \in HostRec /\ h.got \in [Streams -> Nat] /\ m.kept \in [Streams -> Nat]
  BY Zenon DEF ExecOK, Types, HostRec, CmdRec
<1> HIDE DEF f, r
<1>4. [h.got EXCEPT ![f.s] = @ + f.n] \in [Streams -> Nat]
  BY <1>2, <1>3
<1>5. /\ k \in HostRec /\ k.pc = "wait" /\ k.mode = h.mode /\ k.answer = h.answer
      /\ k.got = [h.got EXCEPT ![f.s] = @ + f.n]
  BY <1>3, <1>4, Zenon DEF HostRec
<1> HIDE DEF k
<1>6. h.mode = "streamed"
  BY <1>1 DEF ExecOK, EarlyOK, FramesOK, f
<1>7. Types(k, r, g, m) /\ BytesOK(m) /\ EndsOK(g, m) /\ LossyOK(g, m)
  BY <1>1, <1>5, Zenon DEF ExecOK, Types
<1>8. EarlyOK(k, r, g, m)
  BY <1>5, Zenon DEF ExecOK, EarlyOK
<1>9. QueueOK(k, g, m) /\ AnswerOK(k, g, m)
  BY <1>5, Zenon DEF ExecOK, QueueOK, Ordered, AnswerOK
<1>10. LedgerOK(k, r, g, m)
  <2> SUFFICES ASSUME NEW u \in Streams
               PROVE  \E y \in Nat : Ledger(k, r, g, m, u, y)
    BY Zenon DEF LedgerOK
  <2>1. PICK y \in Nat : Ledger(h, n, g, m, u, y)
    BY Zenon DEF ExecOK, LedgerOK
  <2>2. k.got[u] = h.got[u] + Amount(f, u) /\ h.got[u] \in Nat /\ Amount(f, u) \in Nat
    BY <1>2, <1>3, <1>5
  <2>3. Sums(r, u, h.got[u] + Amount(f, u), y)
    BY <2>1, <2>2, <1>1, SumsRest, Zenon DEF Ledger, f, r
  <2>4. (\E i \in 1 .. Len(r) : r[i].t = "done" /\ r[i].a = "exit") =>
           \E i \in 1 .. Len(n) : n[i].t = "done" /\ n[i].a = "exit"
    BY <1>1, Zenon
  <2>5. Ledger(k, r, g, m, u, y)
    BY <2>1, <2>2, <2>3, <2>4, <1>5, Zenon DEF Ledger
  <2> QED
    BY <2>5, Zenon
<1>11. FramesOK(k, r, g, m)
  <2>1. ASSUME NEW i \in 1 .. Len(r), r[i].t = "done"
        PROVE  /\ i = Len(r) /\ g.pc = "gone" /\ r[i].out = m.kept
               /\ \A s \in Streams : Closed(m, s)
               /\ r[i].a = "failed" => m.kept = Zero
    <3>1. i + 1 \in 1 .. Len(n) /\ r[i] = n[i + 1]
      BY <1>1, Zenon
    <3>2. /\ i + 1 = Len(n) /\ g.pc = "gone" /\ r[i].out = m.kept
          /\ \A s \in Streams : Closed(m, s)
          /\ r[i].a = "failed" => m.kept = Zero
      BY <3>1, <2>1, Zenon DEF ExecOK, FramesOK
    <3> QED
      BY <3>2, <1>1
  <2> QED
    BY <2>1, <1>5, <1>6, Zenon DEF FramesOK
<1>12. ExecOK(k, r, g, m)
  BY <1>7, <1>8, <1>9, <1>10, <1>11, Zenon DEF ExecOK
<1> QED
  BY <1>12, Zenon DEF k, r, f

\* The host takes the last frame.
LEMMA TakesDone ==
    ASSUME NEW h, NEW n, NEW g, NEW m, ExecOK(h, n, g, m), h.pc = "wait", n # <<>>,
           Head(n).t = "done", NEW o, o = IF h.mode = "buffered" THEN Head(n).out ELSE h.got
    PROVE  ExecOK([h EXCEPT !.pc = "done", !.answer = Head(n).a, !.got = o], Tail(n), g, m)
<1> DEFINE f == Head(n)
           r == Tail(n)
           k == [h EXCEPT !.pc = "done", !.answer = f.a, !.got = o]
<1>1. f \in Frames /\ f = n[1] /\ r \in Seq(Frames) /\ 1 \in 1 .. Len(n)
  BY RestOfFrames
<1>2. f.a \in {"exit", "killed", "failed"} /\ f.out \in [Streams -> Nat]
  BY <1>1, Zenon DEF Frames, Chunks
<1>3. h \in HostRec /\ h.got \in [Streams -> Nat]
  BY Zenon DEF ExecOK, Types, HostRec
<1>4. g.pc = "gone" /\ \A s \in Streams : Closed(m, s)
  BY <1>1, Zenon DEF ExecOK, FramesOK
<1> HIDE DEF f, r
<1>5. o \in [Streams -> Nat]
  BY <1>2, <1>3, Zenon DEF f
<1>6. k \in HostRec /\ k.pc = "done"
  BY <1>2, <1>3, <1>5, Zenon DEF HostRec
<1> HIDE DEF k
<1>7. Types(k, r, g, m) /\ BytesOK(m) /\ EndsOK(g, m) /\ LossyOK(g, m)
  BY <1>1, <1>6, Zenon DEF ExecOK, Types
<1>8. EarlyOK(k, r, g, m)
  BY <1>4, <1>6, Zenon DEF EarlyOK
<1>9. QueueOK(k, g, m) /\ AnswerOK(k, g, m) /\ LedgerOK(k, r, g, m) /\ FramesOK(k, r, g, m)
  BY <1>4, <1>6, Zenon DEF QueueOK, Ordered, AnswerOK, LedgerOK, FramesOK
<1>10. ExecOK(k, r, g, m)
  BY <1>7, <1>8, <1>9, Zenon DEF ExecOK
<1> QED
  BY <1>10, Zenon DEF k, r, f

----------------------------------------------------------------------------
(* The loop. *)

\* A time-out kills the command, or ends the loop.
LEMMA TimesOut ==
    ASSUME NEW h, NEW n, NEW g, NEW m, ExecOK(h, n, g, m), g.pc = "loop"
    PROVE  /\ ExecOK(h, n, [g EXCEPT !.expired = TRUE], m)
           /\ g.expired \/ g.err => ExecOK(h, n, [g EXCEPT !.pc = "join"], m)
<1>1. g \in GuestRec
  BY Zenon DEF ExecOK, Types
<1>2. ExecOK(h, n, [g EXCEPT !.expired = TRUE], m)
  <2> DEFINE z == [g EXCEPT !.expired = TRUE]
  <2>1. /\ z \in GuestRec /\ z.pc = g.pc /\ z.err = g.err /\ z.lossy = g.lossy
        /\ z.carry = g.carry /\ z.queue = g.queue /\ z.eofs = g.eofs
    BY <1>1, Zenon DEF GuestRec
  <2> HIDE DEF z
  <2>2. Types(h, n, z, m) /\ BytesOK(m)
    BY <2>1, Zenon DEF ExecOK, Types
  <2>3. EarlyOK(h, n, z, m) /\ EndsOK(z, m)
    BY <2>1, Zenon DEF ExecOK, EarlyOK, EndsOK
  <2>4. QueueOK(h, z, m)
    BY <2>1, Zenon DEF ExecOK, QueueOK, Ordered
  <2>5. \A s \in Streams, y \in Nat : Ledger(h, n, g, m, s, y) => Ledger(h, n, z, m, s, y)
    BY <2>1 DEF Ledger
  <2>6. LedgerOK(h, n, z, m)
    BY <2>5, Zenon DEF ExecOK, LedgerOK
  <2>7. FramesOK(h, n, z, m) /\ AnswerOK(h, z, m) /\ LossyOK(z, m)
    BY <2>1, Zenon DEF ExecOK, FramesOK, AnswerOK, LossyOK
  <2>8. ExecOK(h, n, z, m)
    BY <2>2, <2>3, <2>4, <2>6, <2>7, Zenon DEF ExecOK
  <2> QED
    BY <2>8, Zenon DEF z
<1>3. ASSUME g.expired \/ g.err
      PROVE  ExecOK(h, n, [g EXCEPT !.pc = "join"], m)
  <2> DEFINE z == [g EXCEPT !.pc = "join"]
  <2>1. /\ z \in GuestRec /\ z.pc = "join" /\ z.err = g.err /\ z.lossy = g.lossy
        /\ z.expired = g.expired
    BY <1>1, Zenon DEF GuestRec
  <2> HIDE DEF z
  <2>2. Types(h, n, z, m) /\ BytesOK(m) /\ QueueOK(h, z, m)
    BY <2>1, Zenon DEF ExecOK, Types, QueueOK
  <2>3. EarlyOK(h, n, z, m) /\ EndsOK(z, m)
    BY <2>1, Zenon DEF ExecOK, EarlyOK, EndsOK
  <2>4. \A s \in Streams, y \in Nat : Ledger(h, n, g, m, s, y) => Ledger(h, n, z, m, s, y)
    BY <2>1, <1>3, Zenon DEF Ledger
  <2>5. LedgerOK(h, n, z, m)
    BY <2>4, Zenon DEF ExecOK, LedgerOK
  <2>6. FramesOK(h, n, z, m) /\ AnswerOK(h, z, m) /\ LossyOK(z, m)
    BY <2>1, Zenon DEF ExecOK, FramesOK, AnswerOK, LossyOK
  <2>7. ExecOK(h, n, z, m)
    BY <2>2, <2>3, <2>5, <2>6, Zenon DEF ExecOK
  <2> QED
    BY <2>7, Zenon DEF z
<1> QED
  BY <1>2, <1>3, Zenon

\* The channel stays in order when its first message is taken.
LEMMA QueueRests ==
    ASSUME NEW h, NEW g \in GuestRec, NEW m, Ordered(h, g, m), g.queue # <<>>,
           NEW z \in GuestRec, z.queue = Tail(g.queue),
           z.eofs = IF Head(g.queue).t = "eof" THEN g.eofs \ {Head(g.queue).s} ELSE g.eofs,
           \A u \in Streams : h.mode = "streamed" /\ u \notin z.eofs /\ ~z.err => z.carry[u] = 0
    PROVE  Ordered(h, z, m)
<1> DEFINE q == g.queue
           r == Tail(q)
           x == Head(q)
<1>1. /\ q \in Seq(Messages) /\ Len(q) \in Nat \ {0} /\ x = q[1] /\ x \in Messages
      /\ Len(r) = Len(q) - 1 /\ z.queue = r
      /\ \A i \in 1 .. Len(r) : r[i] = q[i + 1] /\ i + 1 \in 1 .. Len(q)
  BY DEF GuestRec
<1>2. z.eofs = IF x.t = "eof" THEN g.eofs \ {x.s} ELSE g.eofs
  BY Zenon
<1>3. 1 \in 1 .. Len(q)
  BY <1>1
<1> HIDE DEF r, x
<1>4. h.mode # "streamed" => \A i \in 1 .. Len(r) : r[i].t = "exited"
  BY <1>1, Zenon DEF Ordered
<1>5. ASSUME h.mode = "streamed", NEW u \in Streams, u \notin z.eofs
      PROVE  u \notin m.open /\ \A i \in 1 .. Len(r) : Silent(r[i], u)
  <2>1. CASE u \notin g.eofs
    BY <2>1, <1>1, <1>5, Zenon DEF Ordered
  <2>2. CASE u \in g.eofs
    <3>1. q[1].t = "eof" /\ q[1].s = u
      BY <2>2, <1>1, <1>2, <1>5, Zenon
    <3>2. u \notin m.open /\ \A j \in 1 + 1 .. Len(q) : Silent(q[j], u)
      BY <3>1, <1>3, <1>5, Zenon DEF Ordered
    <3>3. \A i \in 1 .. Len(r) : i + 1 \in 1 + 1 .. Len(q)
      BY <1>1
    <3> QED
      BY <3>2, <3>3, <1>1, Zenon
  <2> QED
    BY <2>1, <2>2, Zenon
<1>6. ASSUME h.mode = "streamed", NEW u \in Streams, NEW i \in 1 .. Len(r),
             r[i].t = "eof", r[i].s = u
      PROVE  /\ u \notin m.open
             /\ \A j \in i + 1 .. Len(r) : Silent(r[j], u)
  <2>1. i + 1 \in 1 .. Len(q) /\ q[i + 1].t = "eof" /\ q[i + 1].s = u
    BY <1>1, <1>6, Zenon
  <2>2. u \notin m.open /\ \A j \in (i + 1) + 1 .. Len(q) : Silent(q[j], u)
    BY <2>1, <1>6, Zenon DEF Ordered
  <2>3. \A j \in i + 1 .. Len(r) : j \in 1 .. Len(r) /\ j + 1 \in (i + 1) + 1 .. Len(q)
    BY <1>1
  <2> QED
    BY <2>2, <2>3, <1>1, Zenon
<1> QED
  BY <1>1, <1>4, <1>5, <1>6, Zenon DEF Ordered

\* A channel that is silent of a stream holds nothing of it.
LEMMA Quiet ==
    ASSUME NEW q \in Seq(Messages), NEW s, NEW a \in Nat, NEW b \in Nat, Sums(q, s, a, b),
           \A i \in 1 .. Len(q) : Silent(q[i], s)
    PROVE  a = b
<1>1. \A i \in 1 .. Len(q) : Amount(q[i], s) = 0
  BY Zenon DEF Silent, Amount
<1> QED
  BY <1>1, SumsBound, Zenon

\* One turn of the loop: the first message x is taken, o[u] bytes of stream u go
\* out with the frames f, and the rest is carried over.
Turned(h, n, g, z, x, f, o) ==
    /\ z.queue = Tail(g.queue)
    /\ z.eofs = IF x.t = "eof" THEN g.eofs \ {x.s} ELSE g.eofs
    /\ z.pc = "loop" \/ (z.pc = "join" /\ z.eofs = {})
    /\ z.expired = g.expired /\ (h.pc # "done" => z.err = g.err)
    /\ h.pc = "done" => z.lossy = g.lossy
    /\ h.mode # "streamed" => f = n /\ z.lossy = g.lossy
    /\ \A i \in 1 .. Len(f) : f[i].t = "done" => \E j \in 1 .. Len(n) : n[j].t = "done"
    /\ \A u \in Streams :
          /\ h.mode = "streamed" /\ u \notin z.eofs /\ ~z.err => z.carry[u] = 0
          /\ h.pc = "wait" /\ h.mode = "streamed" =>
                /\ z.carry[u] + o[u] = g.carry[u] + Amount(x, u)
                /\ u \in z.eofs => o[u] % 2 = 0
                /\ u \in z.lossy /\ u \notin g.lossy =>
                      x.t = "eof" /\ x.s = u /\ o[u] % 2 = 1
          /\ \A y \in Nat : Sums(n, u, h.got[u], y) => Sums(f, u, h.got[u], y + o[u])

\* Bytes carried over and sent.
LEMMA Balance ==
    ASSUME NEW y \in Nat, NEW c \in Nat, NEW a \in Nat, NEW d \in Nat, NEW e \in Nat,
           NEW k \in Nat, d + e = c + a, (y + c) + a <= k
    PROVE  (y + c) + a = (y + e) + d /\ y + e \in Nat /\ y + e <= k
OBVIOUS

\* Whole characters stay whole.
LEMMA Parity ==
    ASSUME NEW y \in Nat, NEW e \in Nat, y % 2 = 0
    PROVE  (y + e) % 2 = 0 <=> e % 2 = 0
OBVIOUS

\* A stream that ends with this turn ends where its frames end.
Settled(g, z, m, o, u) ==
    u \in g.eofs /\ u \notin z.eofs /\ m.kept[u] % 2 = 0 => o[u] % 2 = 0

\* A turn of the guest's loop: no byte is lost or sent twice.
LEMMA TurnLedger ==
    ASSUME NEW h, NEW n, NEW g, NEW m, ExecOK(h, n, g, m), g.pc = "loop", g.queue # <<>>,
           NEW z \in GuestRec, NEW f, NEW o \in [Streams -> Nat],
           Turned(h, n, g, z, Head(g.queue), f, o), Ordered(h, z, m),
           h.pc = "wait", h.mode = "streamed", NEW u \in Streams
    PROVE  \E y \in Nat : Ledger(h, f, z, m, u, y) /\ Settled(g, z, m, o, u)
<1> DEFINE x == Head(g.queue)
           a == Amount(x, u)
<1>1. PICK y \in Nat : Ledger(h, n, g, m, u, y)
  BY Zenon DEF ExecOK, LedgerOK
<1>2. g.queue \in Seq(Messages) /\ x \in Messages /\ g.carry[u] \in Nat
  BY DEF ExecOK, Types, GuestRec
<1>3. a \in Nat /\ m.kept[u] \in Nat /\ z.carry[u] \in Nat /\ o[u] \in Nat
  BY <1>2, AmountType, Zenon DEF ExecOK, Types, CmdRec, GuestRec
<1>4. Sums(g.queue, u, y + g.carry[u], m.kept[u])
  BY <1>1, Zenon DEF Ledger
<1> HIDE DEF x
<1>5. z.carry[u] + o[u] = g.carry[u] + a
  BY Zenon DEF Turned, x
<1> HIDE DEF a
<1>6. /\ Sums(z.queue, u, (y + g.carry[u]) + a, m.kept[u])
      /\ (y + g.carry[u]) + a <= m.kept[u]
  <2>1. y + g.carry[u] \in Nat
    BY <1>2
  <2>2. z.queue = Tail(g.queue)
    BY Zenon DEF Turned
  <2> QED
    BY <2>1, <2>2, <1>2, <1>3, <1>4, SumsRest, Zenon DEF a, x
<1>7. (y + g.carry[u]) + a = (y + o[u]) + z.carry[u] /\ y + o[u] \in Nat
      /\ y + o[u] <= m.kept[u]
  <2> DEFINE c == g.carry[u]
             d == z.carry[u]
             e == o[u]
             k == m.kept[u]
  <2>1. y \in Nat /\ c \in Nat /\ a \in Nat /\ d \in Nat /\ e \in Nat /\ k \in Nat
    BY <1>2, <1>3, Zenon
  <2>2. d + e = c + a /\ (y + c) + a <= k
    BY <1>5, <1>6, Zenon
  <2> HIDE DEF c, d, e, k
  <2>3. (y + c) + a = (y + e) + d /\ y + e \in Nat /\ y + e <= k
    BY <2>1, <2>2, Balance
  <2> QED
    BY <2>3, Zenon DEF c, d, e, k
<1>8. Sums(f, u, h.got[u], y + o[u])
  BY <1>1, Zenon DEF Turned, Ledger
<1>9. u \notin z.eofs => y + o[u] = m.kept[u] /\ u \notin m.open
  <2> HAVE u \notin z.eofs
  <2>1. ~g.err
    BY Zenon DEF ExecOK, EarlyOK
  <2>2. ~z.err /\ z.carry[u] = 0
    BY <2>1, Zenon DEF Turned
  <2>3. Sums(z.queue, u, y + o[u], m.kept[u])
    BY <2>2, <1>6, <1>7
  <2>4. u \notin m.open /\ \A i \in 1 .. Len(z.queue) : Silent(z.queue[i], u)
    BY Zenon DEF Ordered
  <2>5. z.queue \in Seq(Messages)
    BY Zenon DEF GuestRec
  <2> QED
    BY <2>3, <2>4, <2>5, <1>3, <1>7, Quiet, Zenon
<1>10. u \in g.eofs => ((y + o[u]) % 2 = 0 <=> o[u] % 2 = 0)
  BY <1>1, <1>3, Parity, Zenon DEF Ledger
<1>11. u \in z.eofs => (y + o[u]) % 2 = 0
  BY <1>10, Zenon DEF Turned
<1>12. z.pc = "join" => u \notin z.eofs
  BY Zenon DEF Turned
<1>13. \A i \in 1 .. Len(f) : f[i].t # "done"
  BY Zenon DEF Turned, ExecOK, FramesOK
<1>14. Ledger(h, f, z, m, u, y + o[u])
  <2>1. z.pc \in {"loop", "join"}
    BY Zenon DEF Turned
  <2> QED
    BY <2>1, <1>6, <1>7, <1>8, <1>9, <1>11, <1>12, <1>13, Zenon DEF Ledger
<1>15. Settled(g, z, m, o, u)
  BY <1>9, <1>10 DEF Settled
<1> QED
  BY <1>7, <1>14, <1>15, Zenon

\* A turn of the guest's loop keeps what holds of an exec.
LEMMA TurnKeeps ==
    ASSUME NEW h, NEW n, NEW g, NEW m, ExecOK(h, n, g, m), g.pc = "loop", g.queue # <<>>,
           NEW z \in GuestRec, NEW f \in Seq(Frames), NEW o \in [Streams -> Nat],
           Turned(h, n, g, z, Head(g.queue), f, o)
    PROVE  ExecOK(h, f, z, m)
<1>1. g \in GuestRec /\ m \in CmdRec /\ h \in HostRec
  BY Zenon DEF ExecOK, Types
<1>2. z.pc \in {"loop", "join"} /\ h.pc \in {"wait", "done"} /\ (h.pc = "wait" => ~g.err /\ ~z.err)
  BY <1>1, Zenon DEF Turned, ExecOK, EarlyOK, HostRec
<1>3. Ordered(h, z, m)
  <2>1. Ordered(h, g, m)
    BY Zenon DEF ExecOK, QueueOK
  <2> QED
    BY <2>1, <1>1, QueueRests, Zenon DEF Turned
<1>4. Types(h, f, z, m) /\ BytesOK(m)
  BY <1>1, Zenon DEF ExecOK, Types
<1>5. EarlyOK(h, f, z, m) /\ EndsOK(z, m) /\ QueueOK(h, z, m)
  BY <1>2, <1>3, Zenon DEF ExecOK, EarlyOK, EndsOK, QueueOK
<1>6. h.pc = "wait" => \A i \in 1 .. Len(f) : f[i].t # "done"
  BY Zenon DEF Turned, ExecOK, FramesOK
<1>7. LedgerOK(h, f, z, m)
  <2> SUFFICES ASSUME h.pc = "wait", NEW u \in Streams
               PROVE  \E y \in Nat : Ledger(h, f, z, m, u, y)
    BY Zenon DEF LedgerOK
  <2>1. CASE h.mode = "streamed"
    BY <2>1, <1>3, TurnLedger, Zenon
  <2>2. CASE h.mode # "streamed"
    <3>1. PICK y \in Nat : Ledger(h, n, g, m, u, y)
      BY Zenon DEF ExecOK, LedgerOK
    <3>2. Ledger(h, f, z, m, u, y)
      BY <3>1, <2>2, Zenon DEF Ledger, Turned
    <3> QED
      BY <3>2, Zenon
  <2> QED
    BY <2>1, <2>2, Zenon
<1>8. FramesOK(h, f, z, m)
  <2>1. h.pc = "wait" /\ h.mode = "buffered" =>
           f = n /\ h.got = Zero /\ \A i \in 1 .. Len(n) : n[i].t = "done"
    BY Zenon DEF Turned, ExecOK, FramesOK
  <2> QED
    BY <2>1, <1>6, Zenon DEF FramesOK
<1>9. AnswerOK(h, z, m)
  BY Zenon DEF ExecOK, AnswerOK
<1>10. LossyOK(z, m)
  <2> SUFFICES ASSUME NEW u \in z.lossy
               PROVE  /\ Closed(m, u) /\ m.kept[u] % 2 = 1
                      /\ m.kept[u] = Cap \/ m.written[u] % 2 = 1
    BY Zenon DEF LossyOK
  <2>1. u \in Streams
    BY Zenon DEF GuestRec
  <2>2. CASE u \in g.lossy
    BY <2>2 DEF ExecOK, LossyOK
  <2>3. CASE u \notin g.lossy
    <3>1. h.pc = "wait" /\ h.mode = "streamed"
      BY <2>3, <1>2, Zenon DEF Turned
    <3>2. Head(g.queue).t = "eof" /\ Head(g.queue).s = u /\ o[u] % 2 = 1
      BY <3>1, <2>1, <2>3, Zenon DEF Turned
    <3>3. u \notin z.eofs
      BY <3>2, Zenon DEF Turned
    <3>4. u \in g.eofs /\ u \notin m.open
      <4>1. g.queue \in Seq(Messages) /\ Head(g.queue) = g.queue[1] /\ 1 \in 1 .. Len(g.queue)
        BY <1>1 DEF GuestRec
      <4> QED
        BY <3>1, <3>2, <4>1, <2>1, Zenon DEF ExecOK, QueueOK, Ordered, Silent
    <3>5. m.kept[u] % 2 # 0
      <4>1. Settled(g, z, m, o, u)
        BY <3>1, <2>1, <1>3, TurnLedger, Zenon
      <4> QED
        BY <4>1, <3>2, <3>3, <3>4 DEF Settled
    <3>6. Closed(m, u)
      BY <3>4, <2>1, Zenon DEF ExecOK, EndsOK
    <3>7. m.kept[u] = Cap \/ m.kept[u] = m.written[u]
      BY <3>6, <2>1, Zenon DEF ExecOK, BytesOK, Closed
    <3>8. m.kept[u] \in Nat
      BY <1>1, <2>1, Zenon DEF CmdRec
    <3> QED
      BY <3>5, <3>6, <3>7, <3>8
  <2> QED
    BY <2>2, <2>3, Zenon
<1>11. ExecOK(h, f, z, m)
  BY <1>4, <1>5, <1>7, <1>8, <1>9, <1>10, Zenon DEF ExecOK
<1> QED
  BY <1>11, Zenon

\* What a turn takes from the channel, whatever it then does with it.
Taking(g, E, b) ==
    [g EXCEPT !.queue = Tail(@), !.eofs = E, !.exited = b,
              !.pc = IF LoopEnds(E, b) THEN "join" ELSE "loop"]

Took(g, z, E, L) ==
    /\ z \in GuestRec /\ z.queue = Tail(g.queue) /\ z.eofs = E /\ z.err = g.err
    /\ z.lossy = L /\ z.expired = g.expired
    /\ z.pc = "loop" \/ (z.pc = "join" /\ z.eofs = {})

\* What a turn leaves of the guest's record.
LEMMA TakingType ==
    ASSUME NEW g \in GuestRec, g.queue # <<>>, NEW E \in SUBSET Streams, NEW b \in BOOLEAN
    PROVE  Took(g, Taking(g, E, b), E, g.lossy) /\ Taking(g, E, b).carry = g.carry
<1>1. Tail(g.queue) \in Seq(Messages)
  BY DEF GuestRec
<1>2. (IF LoopEnds(E, b) THEN "join" ELSE "loop") \in {"loop", "join"}
  BY Zenon
<1> QED
  BY <1>1, <1>2, Zenon DEF Taking, Took, GuestRec, LoopEnds

\* Only a streamed exec hears of its streams, and of none after its end.
LEMMA FirstMessage ==
    ASSUME NEW h, NEW n, NEW g, NEW m, ExecOK(h, n, g, m), g.pc = "loop", g.queue # <<>>,
           NEW x, x = Head(g.queue)
    PROVE  /\ x \in Messages
           /\ x.t # "exited" => /\ x.t \in {"chunk", "eof"} /\ h.mode = "streamed"
                                /\ x.s \in Streams /\ x.s \in g.eofs /\ x.n \in Nat
                                /\ x.t = "eof" => x.n = 0
<1>1. g.queue \in Seq(Messages)
  BY Zenon DEF ExecOK, Types, GuestRec
<1>2. x \in Messages /\ x = g.queue[1] /\ 1 \in 1 .. Len(g.queue)
  BY <1>1
<1>3. x.t # "exited" => /\ x.t \in {"chunk", "eof"} /\ x.s \in Streams /\ x.n \in Nat
                        /\ x.t = "eof" => x.n = 0
  BY <1>2 DEF Messages, Chunks
<1>4. x.t # "exited" => h.mode = "streamed" /\ x.s \in g.eofs
  BY <1>2, <1>3, Zenon DEF ExecOK, QueueOK, Ordered, Silent
<1> QED
  BY <1>2, <1>3, <1>4, Zenon

\* The command has exited.
LEMMA HearsExit ==
    ASSUME NEW h, NEW n, NEW g, NEW m, ExecOK(h, n, g, m), g.pc = "loop", g.queue # <<>>,
           Head(g.queue).t = "exited"
    PROVE  ExecOK(h, n, Taking(g, g.eofs, TRUE), m)
<1> DEFINE x == Head(g.queue)
           z == Taking(g, g.eofs, TRUE)
<1>1. g \in GuestRec /\ n \in Seq(Frames) /\ g.eofs \in SUBSET Streams
      /\ g.carry \in [Streams -> Nat]
  BY Zenon DEF ExecOK, Types, GuestRec
<1>2. Took(g, z, g.eofs, g.lossy) /\ z.carry = g.carry
  BY <1>1, TakingType, Zenon
<1> HIDE DEF z
<1>3. \A u \in Streams : Zero[u] = 0 /\ Amount(x, u) = 0
  BY Zenon DEF Zero, Amount
<1>4. \A u \in Streams : h.mode = "streamed" /\ u \notin g.eofs /\ ~g.err => g.carry[u] = 0
  BY Zenon DEF ExecOK, QueueOK, Ordered
<1> HIDE DEF x
<1>5. Turned(h, n, g, z, x, n, Zero)
  <2>1. \A u \in Streams : g.carry[u] + Zero[u] = g.carry[u] + Amount(x, u) /\ Zero[u] % 2 = 0
    BY <1>1, <1>3
  <2>2. \A u \in Streams, y \in Nat : y + Zero[u] = y
    BY <1>3
  <2>3. x.t # "eof"
    BY Zenon DEF x
  <2> QED
    BY <1>2, <1>4, <2>1, <2>2, <2>3, Zenon DEF Turned, Took
<1>6. ExecOK(h, n, z, m)
  BY <1>1, <1>2, <1>5, NewTypes, TurnKeeps, Zenon DEF x, Took
<1> QED
  BY <1>6, Zenon DEF z

\* What is emitted of the first message and of the carry, and what is left.
LEMMA Emitted ==
    ASSUME NEW all \in Nat
    PROVE  /\ Whole(all) \in Nat /\ all - Whole(all) \in Nat
           /\ (all - Whole(all)) + Whole(all) = all /\ Whole(all) % 2 = 0
BY DEF Whole

\* The state of a turn that hears of a stream: the first message, its stream and
\* its bytes, the frame that is due.
Hears(h, g, x, s, E, b, all, out) ==
    /\ x = Head(g.queue) /\ x.t # "exited" /\ s = x.s
    /\ E = (IF x.t = "eof" THEN g.eofs \ {s} ELSE g.eofs) /\ b \in BOOLEAN
    /\ all = g.carry[s] + x.n
    /\ out = IF x.t = "eof" THEN all ELSE Whole(all)

Due(h, n, g, x, s, E, b, all, out) ==
    /\ x = Head(g.queue) /\ h.mode = "streamed" /\ s \in Streams /\ s \in g.eofs
    /\ E = (IF x.t = "eof" THEN g.eofs \ {x.s} ELSE g.eofs) /\ x.s = s
    /\ out \in Nat /\ all - out \in Nat
    /\ (x.t = "eof" => all - out = 0) /\ (x.t # "eof" => out % 2 = 0)
    /\ (all - out) + out = g.carry[s] + Amount(x, s)
    /\ \A u \in Streams : u # s => Amount(x, u) = 0
    /\ g \in GuestRec /\ n \in Seq(Frames) /\ E \in SUBSET Streams /\ b \in BOOLEAN
    /\ g.carry \in [Streams -> Nat]

\* What a turn sends for the message it hears.
LEMMA HearsFacts ==
    ASSUME NEW h, NEW n, NEW g, NEW m, ExecOK(h, n, g, m), g.pc = "loop", g.queue # <<>>,
           NEW x, NEW s, NEW E, NEW b, NEW all, NEW out, Hears(h, g, x, s, E, b, all, out)
    PROVE  Due(h, n, g, x, s, E, b, all, out)
<1>1. /\ x = Head(g.queue) /\ x.t # "exited" /\ s = x.s /\ all = g.carry[s] + x.n /\ b \in BOOLEAN
      /\ E = (IF x.t = "eof" THEN g.eofs \ {s} ELSE g.eofs)
      /\ out = IF x.t = "eof" THEN all ELSE Whole(all)
  BY Zenon DEF Hears
<1>2. /\ x.t \in {"chunk", "eof"} /\ h.mode = "streamed"
      /\ x.s \in Streams /\ x.s \in g.eofs /\ x.n \in Nat
      /\ x.t = "eof" => x.n = 0
  BY <1>1, FirstMessage, Zenon
<1>3. g \in GuestRec /\ n \in Seq(Frames) /\ g.carry \in [Streams -> Nat] /\ g.eofs \in SUBSET Streams
  BY Zenon DEF ExecOK, Types, GuestRec
<1>4. all \in Nat /\ g.carry[s] \in Nat
  <2>1. g.carry[s] \in Nat
    BY <1>1, <1>2, <1>3, Zenon
  <2>2. all = g.carry[s] + x.n /\ x.n \in Nat
    BY <1>1, <1>2, Zenon
  <2> QED
    BY <2>1, <2>2
<1>5. /\ out \in Nat /\ all - out \in Nat /\ (all - out) + out = all
      /\ (x.t = "eof" => all - out = 0) /\ (x.t # "eof" => out % 2 = 0)
  <2>1. CASE x.t = "eof"
    <3>1. out = all
      BY <2>1, <1>1, Zenon
    <3> QED
      BY <2>1, <3>1, <1>4
  <2>2. CASE x.t # "eof"
    <3>1. out = Whole(all)
      BY <2>2, <1>1, Zenon
    <3> QED
      BY <2>2, <3>1, <1>4, Emitted, Zenon
  <2> QED
    BY <2>1, <2>2, Zenon
<1>6. Amount(x, s) = x.n /\ \A u \in Streams : u # s => Amount(x, u) = 0
  BY <1>1, <1>2, Zenon DEF Amount
<1>7. (all - out) + out = g.carry[s] + Amount(x, s)
  BY <1>1, <1>5, <1>6, Zenon
<1>8. E \in SUBSET Streams
  BY <1>1, <1>3, Zenon
<1> QED
  BY <1>1, <1>2, <1>3, <1>5, <1>6, <1>7, <1>8, Zenon DEF Due

\* The carry of a stream is set, the others are kept.
Carried(g, z, s, v) ==
    z.carry[s] = v /\ \A u \in Streams : u # s => z.carry[u] = g.carry[u]

\* A turn that sets what is carried over.
LEMMA CarrySet ==
    ASSUME NEW g \in GuestRec, g.queue # <<>>, NEW E \in SUBSET Streams, NEW b \in BOOLEAN,
           NEW s \in Streams, NEW v \in Nat, NEW L \in SUBSET Streams
    PROVE  LET z == [Taking(g, E, b) EXCEPT !.carry[s] = v, !.lossy = L] IN
           Took(g, z, E, L) /\ Carried(g, z, s, v)
<1> DEFINE y == Taking(g, E, b)
           z == [y EXCEPT !.carry[s] = v, !.lossy = L]
<1>0. Took(g, y, E, g.lossy) /\ y.carry = g.carry
  BY TakingType, Zenon
<1> HIDE DEF y
<1>1. Took(g, y, E, g.lossy) /\ y.carry = g.carry /\ y \in GuestRec
  BY <1>0, Zenon DEF Took
<1>2. y.carry \in [Streams -> Nat] /\ [y.carry EXCEPT ![s] = v] \in [Streams -> Nat]
  BY <1>1, Zenon DEF GuestRec
<1>3. z = [y EXCEPT !.carry = [y.carry EXCEPT ![s] = v], !.lossy = L]
  BY <1>1, Zenon DEF GuestRec
<1>4. /\ z \in GuestRec /\ z.queue = y.queue /\ z.eofs = y.eofs /\ z.err = y.err /\ z.pc = y.pc
      /\ z.lossy = L /\ z.expired = y.expired /\ z.carry = [y.carry EXCEPT ![s] = v]
  BY <1>1, <1>2, <1>3, Zenon DEF GuestRec
<1> HIDE DEF z
<1>5. Carried(g, z, s, v)
  BY <1>1, <1>2, <1>4, Zenon DEF Carried
<1>6. Took(g, z, E, L)
  BY <1>1, <1>4, Zenon DEF Took
<1> QED
  BY <1>5, <1>6, Zenon DEF z, y

\* Nothing is due, or an earlier write has failed.
LEMMA HearsQuiet ==
    ASSUME NEW h, NEW n, NEW g, NEW m, ExecOK(h, n, g, m), g.pc = "loop", g.queue # <<>>,
           NEW x, NEW s, NEW E, NEW b, NEW all, NEW out, Hears(h, g, x, s, E, b, all, out),
           g.err \/ out = 0
    PROVE  ExecOK(h, n, [Taking(g, E, b) EXCEPT !.carry[s] = all - out, !.lossy = g.lossy], m)
<1> DEFINE z == [Taking(g, E, b) EXCEPT !.carry[s] = all - out, !.lossy = g.lossy]
<1>1. Due(h, n, g, x, s, E, b, all, out)
  BY HearsFacts, Zenon
<1>2. g.lossy \in SUBSET Streams
  BY <1>1, Zenon DEF Due, GuestRec
<1>3. Took(g, z, E, g.lossy) /\ Carried(g, z, s, all - out)
  BY <1>1, <1>2, CarrySet, Zenon DEF Due
<1> HIDE DEF z
<1>4. h.pc # "done" => ~g.err /\ out = 0
  BY Zenon DEF ExecOK, EarlyOK
<1>5. \A u \in Streams : Zero[u] = 0
  BY Zenon DEF Zero
<1>6. Turned(h, n, g, z, x, n, Zero)
  <2>1. \A u \in Streams : u \notin E /\ ~g.err => z.carry[u] = 0
    <3> TAKE u \in Streams
    <3>1. CASE u = s
      BY <3>1, <1>1, <1>3, Zenon DEF Due, Carried
    <3>2. CASE u # s
      <4>1. u \notin g.eofs /\ ~g.err => g.carry[u] = 0
        BY <1>1, Zenon DEF ExecOK, QueueOK, Ordered, Due
      <4> QED
        BY <4>1, <3>2, <1>1, <1>3 DEF Due, Carried
    <3> QED
      BY <3>1, <3>2, Zenon
  <2>2. ASSUME h.pc = "wait", NEW u \in Streams
        PROVE  z.carry[u] + Zero[u] = g.carry[u] + Amount(x, u) /\ Zero[u] % 2 = 0
    <3>1. CASE u = s
      BY <3>1, <2>2, <1>1, <1>3, <1>4, <1>5 DEF Due, Carried
    <3>2. CASE u # s
      BY <3>2, <1>1, <1>3, <1>5 DEF Due, Carried
    <3> QED
      BY <3>1, <3>2, Zenon
  <2>3. \A u \in Streams, y \in Nat : y + Zero[u] = y
    BY <1>5
  <2> QED
    BY <1>1, <1>3, <2>1, <2>2, <2>3, Zenon DEF Turned, Took, Due
<1>7. ExecOK(h, n, z, m)
  BY <1>1, <1>3, <1>6, NewTypes, TurnKeeps, Zenon DEF Took, Due
<1> QED
  BY <1>7, Zenon DEF z

\* A frame is due, and the agent listens.
LEMMA HearsFrame ==
    ASSUME NEW h, NEW n, NEW g, NEW m, ExecOK(h, n, g, m), g.pc = "loop", g.queue # <<>>,
           NEW x, NEW s, NEW E, NEW b, NEW all, NEW out, Hears(h, g, x, s, E, b, all, out),
           h.pc # "done", NEW L, L = IF out % 2 = 0 THEN g.lossy ELSE g.lossy \cup {s}
    PROVE  ExecOK(h, Append(n, [t |-> "chunk", s |-> s, n |-> out]),
                  [Taking(g, E, b) EXCEPT !.carry[s] = all - out, !.lossy = L], m)
<1> DEFINE z == [Taking(g, E, b) EXCEPT !.carry[s] = all - out, !.lossy = L]
           d == [t |-> "chunk", s |-> s, n |-> out]
           f == Append(n, d)
           o == [u \in Streams |-> IF u = s THEN out ELSE 0]
<1>1. Due(h, n, g, x, s, E, b, all, out)
  BY HearsFacts, Zenon
<1>2. L \in SUBSET Streams
  BY <1>1, Zenon DEF Due, GuestRec
<1>3. Took(g, z, E, L) /\ Carried(g, z, s, all - out)
  BY <1>1, <1>2, CarrySet, Zenon DEF Due
<1>4. d \in Frames /\ d.t = "chunk" /\ \A u \in Streams : Amount(d, u) = IF u = s THEN out ELSE 0
  BY <1>1, Zenon DEF Due, Frames, Chunks, Amount
<1>5. n \in Seq(Frames) /\ Len(n) \in Nat
  BY <1>1 DEF Due
<1> HIDE DEF z, d
<1>6. /\ f \in Seq(Frames) /\ Len(f) = Len(n) + 1 /\ f[Len(n) + 1] = d
      /\ \A i \in 1 .. Len(n) : f[i] = n[i]
  BY <1>4, <1>5
<1>7. o \in [Streams -> Nat] /\ \A u \in Streams : o[u] = Amount(d, u) /\ o[u] \in Nat
  BY <1>1, <1>4, Zenon DEF Due
<1>8. o[s] = out /\ \A u \in Streams : u # s => o[u] = 0
  BY <1>1 DEF Due
<1> HIDE DEF f, o
<1>9. Turned(h, n, g, z, x, f, o)
  <2>1. \A u \in Streams : u \notin E /\ ~g.err => z.carry[u] = 0
    <3> TAKE u \in Streams
    <3>1. CASE u = s
      BY <3>1, <1>1, <1>3 DEF Due, Carried
    <3>2. CASE u # s
      <4>1. u \notin g.eofs /\ ~g.err => g.carry[u] = 0
        BY <1>1, Zenon DEF ExecOK, QueueOK, Ordered, Due
      <4> QED
        BY <4>1, <3>2, <1>1, <1>3, Zenon DEF Due, Carried
    <3> QED
      BY <3>1, <3>2, Zenon
  <2>2. ASSUME NEW u \in Streams
        PROVE  z.carry[u] + o[u] = g.carry[u] + Amount(x, u)
    <3>1. CASE u = s
      BY <3>1, <1>1, <1>3, <1>8, Zenon DEF Due, Carried
    <3>2. CASE u # s
      BY <3>2, <1>1, <1>3, <1>8, Zenon DEF Due, Carried
    <3> QED
      BY <3>1, <3>2, Zenon
  <2>3. ASSUME NEW u \in Streams, u \in E
        PROVE  o[u] % 2 = 0
    <3>1. CASE u = s
      BY <3>1, <2>3, <1>1, <1>8, Zenon DEF Due
    <3>2. CASE u # s
      BY <3>2, <1>8
    <3> QED
      BY <3>1, <3>2, Zenon
  <2>4. ASSUME NEW u \in Streams, u \in L, u \notin g.lossy
        PROVE  x.t = "eof" /\ x.s = u /\ o[u] % 2 = 1
    <3>1. u = s /\ out % 2 # 0
      BY <2>4, Zenon
    <3>2. out \in Nat /\ x.t = "eof" /\ x.s = u
      BY <3>1, <1>1, Zenon DEF Due
    <3> QED
      BY <3>1, <3>2, <1>8
  <2>5. ASSUME NEW u \in Streams, NEW y \in Nat, Sums(n, u, h.got[u], y)
        PROVE  Sums(f, u, h.got[u], y + o[u])
    BY <2>5, <1>4, <1>5, <1>7, SumsGrow DEF f
  <2>6. \A i \in 1 .. Len(f) : f[i].t = "done" => \E j \in 1 .. Len(n) : n[j].t = "done"
    <3>1. \A i \in 1 .. Len(f) : i \in 1 .. Len(n) \/ i = Len(n) + 1
      BY <1>5, <1>6
    <3> QED
      BY <3>1, <1>4, <1>6, Zenon
  <2>7. h.mode = "streamed" /\ x = Head(g.queue) /\ E = IF x.t = "eof" THEN g.eofs \ {x.s} ELSE g.eofs
    BY <1>1, Zenon DEF Due
  <2> QED
    BY <1>3, <2>1, <2>2, <2>3, <2>4, <2>5, <2>6, <2>7, Zenon DEF Turned, Took
<1>10. ExecOK(h, f, z, m)
  BY <1>1, <1>3, <1>6, <1>7, <1>9, TurnKeeps, Zenon DEF Took, Due
<1> QED
  BY <1>10, Zenon DEF z, f, d

\* A frame is due, and the agent has hung up.
LEMMA HearsHangup ==
    ASSUME NEW h, NEW n, NEW g, NEW m, ExecOK(h, n, g, m), g.pc = "loop", g.queue # <<>>,
           NEW x, NEW s, NEW E, NEW b, NEW all, NEW out, Hears(h, g, x, s, E, b, all, out),
           h.pc = "done"
    PROVE  ExecOK(h, n, [Taking(g, E, b) EXCEPT !.err = TRUE], Killed(m))
<1> DEFINE y == Taking(g, E, b)
           z == [y EXCEPT !.err = TRUE]
<1>1. Due(h, n, g, x, s, E, b, all, out)
  BY HearsFacts, Zenon
<1>2. Took(g, y, E, g.lossy)
  BY <1>1, TakingType, Zenon DEF Due
<1> HIDE DEF y
<1>3. /\ z \in GuestRec /\ z.queue = y.queue /\ z.eofs = y.eofs /\ z.err
      /\ z.lossy = y.lossy /\ z.expired = y.expired /\ z.pc = y.pc
  BY <1>2, Zenon DEF Took, GuestRec
<1> HIDE DEF z
<1>4. \A u \in Streams, w \in Nat : w + Zero[u] = w
  BY DEF Zero
<1>5. Turned(h, n, g, z, x, n, Zero)
  BY <1>1, <1>2, <1>3, <1>4, Zenon DEF Turned, Took, Due
<1>6. ExecOK(h, n, g, Killed(m))
  BY CmdSteps, Zenon
<1>7. ExecOK(h, n, z, Killed(m))
  BY <1>1, <1>3, <1>5, <1>6, NewTypes, TurnKeeps DEF Due
<1> QED
  BY <1>7, Zenon DEF z, y

----------------------------------------------------------------------------
(* The steps of an exec. *)

\* Only exec c takes part.
Alone(c) ==
    /\ DOMAIN host' = Calls /\ \A d \in Calls : d # c => host'[d] = host[d]
    /\ DOMAIN net' = Execs /\ DOMAIN guest' = Execs /\ DOMAIN cmd' = Execs
    /\ \A d \in Execs : d # c => net'[d] = net[d] /\ guest'[d] = guest[d] /\ cmd'[d] = cmd[d]

\* What the step is for the caller of the exec: from (h, m) to (k, w).
Least(a, b) == IF a <= b THEN a ELSE b

Told(h, m, k, w) ==
    \/ w.written = m.written /\ k.got = h.got /\ k.answer = h.answer
    \/ /\ h.answer \notin {"exit", "killed"} /\ k.got = h.got /\ k.answer = h.answer
       /\ \E s \in Streams : w.written = [m.written EXCEPT ![s] = @ + 1]
    \/ /\ h.answer = None /\ k.answer = None /\ w.written = m.written
       /\ \E s \in Streams : \E v \in h.got[s] .. Least(Cap, m.written[s]) :
             k.got = [h.got EXCEPT ![s] = v]
    \/ /\ h.answer = None /\ k.answer = "exit" /\ w.written = m.written
       /\ k.got = [s \in Streams |-> Least(Cap, m.written[s])]
    \/ /\ h.answer = None /\ k.answer = "killed" /\ w.written = m.written
       /\ k.got \in [Streams -> 0 .. Cap]
       /\ \A s \in Streams : h.got[s] <= k.got[s] /\ k.got[s] <= Least(Cap, m.written[s])
    \/ /\ h.answer = None /\ k.answer = "failed" /\ w.written = m.written
       /\ k.got = h.got

Does(c) ==
    /\ Alone(c)
    /\ ExecOK(host'[c], net'[c], guest'[c], cmd'[c])
    /\ Told(host[c], cmd[c], host'[c], cmd'[c])

\* A permit is taken by a call that has none and given back by one that has.
Permit(c) ==
    \/ slots' = slots /\ (HasSlot(c)' <=> HasSlot(c))
    \/ slots > 0 /\ slots' = slots - 1 /\ ~HasSlot(c) /\ HasSlot(c)'
    \/ slots' = slots + 1 /\ HasSlot(c) /\ ~HasSlot(c)'

\* What the invariant says of one exec.
LEMMA ExecFacts ==
    ASSUME EInv, NEW c \in Execs
    PROVE  /\ ExecOK(host[c], net[c], guest[c], cmd[c]) /\ c \in Calls
           /\ DOMAIN host = Calls /\ DOMAIN net = Execs /\ DOMAIN guest = Execs
           /\ DOMAIN cmd = Execs
           /\ host[c] \in HostRec /\ guest[c] \in GuestRec /\ cmd[c] \in CmdRec
BY Zenon DEF EInv, Calls, ExecOK, Types

\* A step of the call alone, before the connection.
LEMMA RequestDoes ==
    ASSUME EInv, NEW c \in Execs, Request(c) \/ AcquireSlot(c)
    PROVE  Does(c) /\ Permit(c)
<1> DEFINE h == host[c]
<1>1. /\ ExecOK(h, net[c], guest[c], cmd[c]) /\ c \in Calls
      /\ DOMAIN host = Calls /\ DOMAIN net = Execs /\ DOMAIN guest = Execs
      /\ DOMAIN cmd = Execs /\ h \in HostRec
  BY ExecFacts, Zenon
<1>2. /\ net'[c] = net[c] /\ guest'[c] = guest[c] /\ cmd'[c] = cmd[c]
      /\ net' = net /\ guest' = guest /\ cmd' = cmd
  BY Zenon DEF Request, AcquireSlot, inside
<1>3. /\ DOMAIN host' = Calls /\ \A d \in Calls : d # c => host'[d] = host[d]
      /\ h.pc \in {"idle", "slot"} /\ host'[c] \in HostRec
      /\ host'[c].pc \in {"slot", "connect"} /\ host'[c].got = h.got
      /\ host'[c].answer = h.answer /\ host'[c].mode \in {"buffered", "streamed"}
  <2>1. CASE Request(c)
    <3>1. PICK m \in Modes : host' = [host EXCEPT ![c].pc = "slot", ![c].mode = m]
      BY <2>1, Zenon DEF Request
    <3>2. m \in {"buffered", "streamed"} /\ h.pc = "idle"
      BY <2>1, GuestAssumption, Zenon DEF Request
    <3>3. host'[c] = [h EXCEPT !.pc = "slot", !.mode = m]
      BY <3>1, <1>1
    <3>4. DOMAIN host' = Calls /\ \A d \in Calls : d # c => host'[d] = host[d]
      BY <3>1, <1>1, Zenon
    <3> QED
      BY <3>2, <3>3, <3>4, <1>1, Zenon DEF HostRec
  <2>2. CASE AcquireSlot(c)
    <3>1. /\ host' = [host EXCEPT ![c].pc = "connect"] /\ h.pc = "slot"
          /\ h.mode \in {"buffered", "streamed"}
      BY <2>2, <1>1 DEF AcquireSlot, ExecOK, EarlyOK
    <3>2. host'[c] = [h EXCEPT !.pc = "connect"]
      BY <3>1, <1>1, Zenon
    <3>3. DOMAIN host' = Calls /\ \A d \in Calls : d # c => host'[d] = host[d]
      BY <3>1, <1>1, Zenon
    <3> QED
      BY <3>1, <3>2, <3>3, <1>1, Zenon DEF HostRec
  <2> QED
    BY <2>1, <2>2, Zenon
<1>4. Alone(c)
  BY <1>1, <1>2, <1>3 DEF Alone
<1>5. ExecOK(host'[c], net'[c], guest'[c], cmd'[c])
  BY <1>1, <1>2, <1>3, HostEarly, Zenon
<1>6. Told(h, cmd[c], host'[c], cmd'[c])
  BY <1>2, <1>3, Zenon DEF Told
<1>7. Permit(c)
  <2>1. CASE Request(c)
    <3>1. slots' = slots /\ host[c].pc = "idle" /\ host'[c].pc = "slot"
      <4>1. PICK m \in Modes : host' = [host EXCEPT ![c].pc = "slot", ![c].mode = m]
        BY <2>1, Zenon DEF Request
      <4> QED
        BY <2>1, <4>1, <1>1, Zenon DEF Request, HostRec
    <3> QED
      BY <3>1, Zenon DEF Permit, HasSlot
  <2>2. CASE AcquireSlot(c)
    <3>1. slots > 0 /\ slots' = slots - 1 /\ host[c].pc = "slot" /\ host'[c].pc = "connect"
      BY <2>2, <1>1, Zenon DEF AcquireSlot, HostRec
    <3> QED
      BY <3>1, Zenon DEF Permit, HasSlot
  <2> QED
    BY <2>1, <2>2
<1> QED
  BY <1>4, <1>5, <1>6, <1>7, Zenon DEF Does

\* A call that ends without an answer gives its permit back.
LEMMA EndDoes ==
    ASSUME EInv, NEW c \in Execs, End(c, "failed"), host[c].pc \in {"slot", "connect", "wait"},
           UNCHANGED inside
    PROVE  Does(c) /\ Permit(c)
<1> DEFINE h == host[c]
<1>1. /\ ExecOK(h, net[c], guest[c], cmd[c]) /\ c \in Calls
      /\ DOMAIN host = Calls /\ DOMAIN net = Execs /\ DOMAIN guest = Execs
      /\ DOMAIN cmd = Execs /\ h \in HostRec
  BY ExecFacts, Zenon
<1>2. net' = net /\ guest' = guest /\ cmd' = cmd
  BY Zenon DEF inside
<1>3. host' = [host EXCEPT ![c].pc = "done", ![c].answer = "failed"]
  BY Zenon DEF End
<1>4. host'[c] = [h EXCEPT !.pc = "done", !.answer = "failed"]
  BY <1>1, <1>3, Zenon
<1>5. Alone(c)
  BY <1>1, <1>2, <1>3, Zenon DEF Alone
<1>6. ExecOK(host'[c], net'[c], guest'[c], cmd'[c])
  <2>1. ExecOK([h EXCEPT !.pc = "done", !.answer = "failed"], net[c], guest[c], cmd[c])
    BY <1>1, HostFails, Zenon
  <2> QED
    BY <1>2, <1>4, <2>1, Zenon
<1>7. host'[c].pc = "done" /\ host'[c].answer = "failed" /\ host'[c].got = h.got
  BY <1>1, <1>4, Zenon DEF HostRec
<1>8. h.answer = None
  BY <1>1, Zenon DEF ExecOK, EarlyOK
<1>9. Told(h, cmd[c], host'[c], cmd'[c])
  BY <1>2, <1>7, <1>8 DEF Told
<1>10. Permit(c)
  BY <1>7, Zenon DEF Permit, HasSlot, End
<1> QED
  BY <1>5, <1>6, <1>9, <1>10, Zenon DEF Does

\* A step that leaves the call and its permit alone.
LEMMA InsideDoes ==
    ASSUME EInv, NEW c \in Execs, UNCHANGED <<slots, host>>, NEW f, NEW z, NEW w,
           DOMAIN net' = Execs, DOMAIN guest' = Execs, DOMAIN cmd' = Execs,
           \A d \in Execs : d # c => net'[d] = net[d] /\ guest'[d] = guest[d] /\ cmd'[d] = cmd[d],
           net'[c] = f, guest'[c] = z, cmd'[c] = w,
           ExecOK(host[c], f, z, w),
           \/ w.written = cmd[c].written
           \/ /\ host[c].answer \notin {"exit", "killed"}
              /\ \E s \in Streams : w.written = [cmd[c].written EXCEPT ![s] = @ + 1]
    PROVE  Does(c) /\ Permit(c)
<1>1. Alone(c)
  BY Zenon DEF Alone, EInv
<1>2. ExecOK(host'[c], net'[c], guest'[c], cmd'[c])
  BY Zenon
<1>3. Told(host[c], cmd[c], host'[c], cmd'[c])
  BY Zenon DEF Told
<1>4. Permit(c)
  BY Zenon DEF Permit, HasSlot
<1> QED
  BY <1>1, <1>2, <1>3, <1>4, Zenon DEF Does

\* The call reaches the guest, or is turned away.
LEMMA ConnectDoes ==
    ASSUME EInv, NEW c \in Execs, Connect(c)
    PROVE  Does(c) /\ Permit(c)
<1> DEFINE h == host[c]
           E == IF h.mode = "streamed" THEN Streams ELSE {}
<1>1. /\ ExecOK(h, net[c], guest[c], cmd[c]) /\ c \in Calls
      /\ DOMAIN host = Calls /\ DOMAIN net = Execs /\ DOMAIN guest = Execs
      /\ DOMAIN cmd = Execs /\ h \in HostRec /\ cmd[c] \in CmdRec
  BY ExecFacts, Zenon
<1>2. h.pc = "connect"
  BY DEF Connect
<1>3. CASE End(c, "failed") /\ UNCHANGED inside
  BY <1>2, <1>3, EndDoes, Zenon
<1>4. CASE Connected(c) /\ net' = net
           /\ \/ /\ guest' = [guest EXCEPT ![c].pc = "loop", ![c].eofs = E]
                 /\ cmd' = [cmd EXCEPT ![c].child = "run", ![c].open = Streams]
              \/ /\ guest' = [guest EXCEPT ![c].pc = "write", ![c].err = TRUE]
                 /\ cmd' = cmd
  <2>1. host' = [host EXCEPT ![c].pc = "wait"] /\ slots' = slots
    BY <1>4 DEF Connected
  <2>2. /\ ExecOK([h EXCEPT !.pc = "wait"], net[c], [guest[c] EXCEPT !.pc = "loop", !.eofs = E],
                  [cmd[c] EXCEPT !.child = "run", !.open = Streams])
        /\ ExecOK([h EXCEPT !.pc = "wait"], net[c], [guest[c] EXCEPT !.pc = "write", !.err = TRUE],
                  cmd[c])
    <3>1. E \in SUBSET Streams
      BY Zenon
    <3> HIDE DEF E
    <3>2. E = IF h.mode = "streamed" THEN Streams ELSE {}
      BY DEF E
    <3> HIDE DEF h
    <3> QED
      BY <1>1, <1>2, <3>1, <3>2, Starts, Zenon
  <2>3. host'[c] = [h EXCEPT !.pc = "wait"] /\ net'[c] = net[c]
    BY <2>1, <1>1, <1>4, Zenon
  <2>4. \/ /\ guest'[c] = [guest[c] EXCEPT !.pc = "loop", !.eofs = E]
           /\ cmd'[c] = [cmd[c] EXCEPT !.child = "run", !.open = Streams]
        \/ /\ guest'[c] = [guest[c] EXCEPT !.pc = "write", !.err = TRUE]
           /\ cmd'[c] = cmd[c]
    BY <1>4, <1>1, Zenon
  <2>5. ExecOK(host'[c], net'[c], guest'[c], cmd'[c])
    BY <2>2, <2>3, <2>4, Zenon
  <2>6. Alone(c)
    BY <2>1, <1>1, <1>4, Zenon DEF Alone
  <2>7. host'[c].pc = "wait" /\ host'[c].got = h.got /\ host'[c].answer = h.answer
    BY <2>3, <1>1 DEF HostRec
  <2>8. cmd'[c].written = cmd[c].written
    BY <2>4, <1>1, Zenon DEF CmdRec
  <2>9. Told(h, cmd[c], host'[c], cmd'[c])
    BY <2>7, <2>8, Zenon DEF Told
  <2>10. Permit(c)
    BY <2>1, <2>7, <1>2 DEF Permit, HasSlot
  <2> QED
    BY <2>5, <2>6, <2>9, <2>10, Zenon DEF Does
<1> QED
  BY <1>3, <1>4, Zenon DEF Connect

\* CmdWrite writes to a stream that is not closed, and so not after an answer.
LEMMA CommandDoes ==
    ASSUME EInv, NEW c \in Execs,
           CmdExit(c) \/ HelperExit(c) \/ \E s \in Streams : CmdWrite(c, s)
    PROVE  Does(c) /\ Permit(c)
<1> DEFINE h == host[c]
           m == cmd[c]
<1>1. /\ ExecOK(h, net[c], guest[c], m)
      /\ DOMAIN net = Execs /\ DOMAIN guest = Execs /\ DOMAIN cmd = Execs /\ m \in CmdRec
  BY ExecFacts, Zenon
<1>2. UNCHANGED <<slots, host, net, guest>>
  BY Zenon DEF CmdExit, HelperExit, CmdWrite
<1>3. m.child = "run" \/ m.helper \in {"group", "escaped"}
  BY Zenon DEF CmdExit, HelperExit, CmdWrite, Held
<1>4. CASE CmdExit(c) \/ HelperExit(c)
  <2>1. CASE CmdExit(c)
    <3>1. PICK a \in Helpers \cup {"none"} :
             cmd' = [cmd EXCEPT ![c].child = "exited", ![c].helper = a]
      BY <2>1, Zenon DEF CmdExit
    <3>2. a \in {"none", "group", "escaped"}
      BY GuestAssumption
    <3>3. ExecOK(h, net[c], guest[c], [m EXCEPT !.child = "exited", !.helper = a])
      BY <1>1, <1>3, <3>2, <2>1, CmdSteps, Zenon DEF CmdExit
    <3>4. /\ cmd'[c] = [m EXCEPT !.child = "exited", !.helper = a]
          /\ DOMAIN cmd' = Execs /\ \A d \in Execs : d # c => cmd'[d] = cmd[d]
      BY <3>1, <1>1
    <3>5. [m EXCEPT !.child = "exited", !.helper = a].written = m.written
      BY <1>1, Zenon DEF CmdRec
    <3> QED
      BY <1>1, <1>2, <3>3, <3>4, <3>5, InsideDoes, Zenon
  <2>2. CASE HelperExit(c)
    <3>1. cmd' = [cmd EXCEPT ![c].helper = "none"]
      BY <2>2 DEF HelperExit
    <3>3. ExecOK(h, net[c], guest[c], [m EXCEPT !.helper = "none"])
      BY <1>1, <1>3, <2>2, CmdSteps, Zenon DEF HelperExit
    <3>4. /\ cmd'[c] = [m EXCEPT !.helper = "none"]
          /\ DOMAIN cmd' = Execs /\ \A d \in Execs : d # c => cmd'[d] = cmd[d]
      BY <3>1, <1>1, Zenon
    <3>5. [m EXCEPT !.helper = "none"].written = m.written
      BY <1>1 DEF CmdRec
    <3> QED
      BY <1>1, <1>2, <3>3, <3>4, <3>5, InsideDoes, Zenon
  <2> QED
    BY <2>1, <2>2, <1>4, Zenon
<1>5. CASE \E s \in Streams : CmdWrite(c, s)
  <2>1. PICK s \in Streams : cmd' = [cmd EXCEPT ![c].written[s] = @ + 1]
    BY <1>5, Zenon DEF CmdWrite
  <2>2. ExecOK(h, net[c], guest[c], [m EXCEPT !.written[s] = @ + 1])
    BY <1>1, <1>3, CmdSteps, Zenon
  <2>3. /\ cmd'[c] = [m EXCEPT !.written[s] = @ + 1]
        /\ DOMAIN cmd' = Execs /\ \A d \in Execs : d # c => cmd'[d] = cmd[d]
    BY <2>1, <1>1, Zenon
  <2>4. [m EXCEPT !.written[s] = @ + 1].written = [m.written EXCEPT ![s] = @ + 1]
    BY <1>1 DEF CmdRec
  <2>5. h.answer \notin {"exit", "killed"}
    <3>1. ~Closed(m, s)
      BY <1>3, Zenon DEF Closed
    <3> QED
      BY <3>1, <1>1, Zenon DEF ExecOK, AnswerOK
  <2> QED
    BY <1>1, <1>2, <2>2, <2>3, <2>4, <2>5, InsideDoes, Zenon
<1> QED
  BY <1>4, <1>5, Zenon

\* The smaller of two numbers.
LEMMA MinLeast ==
    ASSUME NEW a \in Nat, NEW b \in Nat
    PROVE  Min({a, b}) = Least(a, b)
<1> DEFINE P(x) == x \in {a, b} /\ \A y \in {a, b} : x <= y
<1>1. Min({a, b}) = CHOOSE x \in {a, b} : \A y \in {a, b} : x <= y
  BY Zenon DEF Min
<1>2. Least(a, b) \in {a, b} /\ \A y \in {a, b} : Least(a, b) <= y
  BY DEF Least
<1>3. \A x \in {a, b} : (\A y \in {a, b} : x <= y) => x = Least(a, b)
  BY DEF Least
<1> QED
  BY <1>1, <1>2, <1>3

\* What a thread sends, as the main loop gets it.
LEMMA Sent ==
    ASSUME NEW c \in Execs, DOMAIN guest = Execs, NEW x, Send(c, x), NEW g, g = guest[c],
           g \in GuestRec
    PROVE  /\ DOMAIN guest' = Execs /\ \A d \in Execs : d # c => guest'[d] = guest[d]
           /\ guest'[c] = IF g.pc = "loop" THEN [g EXCEPT !.queue = Append(@, x)] ELSE g
<1>1. g = [g EXCEPT !.queue = g.queue]
  BY Zenon DEF GuestRec
<1>2. CASE g.pc = "loop"
  <2>1. guest' = [guest EXCEPT ![c].queue = Append(@, x)]
    BY <1>2 DEF Send
  <2> QED
    BY <2>1, <1>2, Zenon
<1>3. CASE g.pc # "loop"
  <2>1. guest' = [guest EXCEPT ![c].queue = @]
    BY <1>3, Zenon DEF Send
  <2>2. guest' = [guest EXCEPT ![c] = [g EXCEPT !.queue = g.queue]]
    BY <2>1
  <2> QED
    BY <2>2, <1>3, <1>1, Zenon
<1> QED
  BY <1>2, <1>3, Zenon

\* A reader reads.
LEMMA ReaderDoes ==
    ASSUME EInv, NEW c \in Execs, NEW s \in Streams, ReaderRead(c, s)
    PROVE  Does(c) /\ Permit(c)
<1> DEFINE h == host[c]
           m == cmd[c]
           g == guest[c]
<1>1. /\ ExecOK(h, net[c], g, m) /\ g \in GuestRec
      /\ DOMAIN net = Execs /\ DOMAIN guest = Execs /\ DOMAIN cmd = Execs /\ m \in CmdRec
  BY ExecFacts, Zenon
<1>2. UNCHANGED <<slots, host, net>> /\ s \in m.open
  BY Zenon DEF ReaderRead
<1> DEFINE N(k) == [t |-> "chunk", s |-> s, n |-> Taken(c, s, k)]
<1>3. PICK k \in 1 .. m.written[s] - m.read[s] :
         /\ cmd' = [cmd EXCEPT ![c].read[s] = @ + k, ![c].kept[s] = @ + Taken(c, s, k)]
         /\ IF Streamed(c) /\ Taken(c, s, k) > 0 THEN Send(c, N(k)) ELSE UNCHANGED guest
  BY Zenon DEF ReaderRead
<1> DEFINE t == Taken(c, s, k)
<1>4. /\ m.written[s] \in Nat /\ m.read[s] \in Nat /\ m.kept[s] \in Nat
      /\ m.kept[s] <= Cap /\ Cap \in Nat
  BY <1>1, GuestAssumption DEF CmdRec, ExecOK, BytesOK
<1>5. k \in Nat \ {0} /\ k <= m.written[s] - m.read[s]
  BY <1>4
<1>6. t = (IF k <= Cap - m.kept[s] THEN k ELSE Cap - m.kept[s]) /\ t \in Nat
  <2>1. Cap - m.kept[s] \in Nat
    BY <1>4
  <2>2. t = Least(k, Cap - m.kept[s])
    BY <1>5, <2>1, MinLeast, Zenon DEF Taken
  <2> QED
    BY <1>5, <2>1, <2>2, Zenon DEF Least
<1> DEFINE w == [m EXCEPT !.read[s] = @ + k, !.kept[s] = @ + t]
           z == IF h.mode = "streamed" /\ t > 0 /\ g.pc = "loop"
                THEN [g EXCEPT !.queue = Append(@, [t |-> "chunk", s |-> s, n |-> t])] ELSE g
<1>7. /\ cmd'[c] = w
      /\ DOMAIN cmd' = Execs /\ \A d \in Execs : d # c => cmd'[d] = cmd[d]
  BY <1>1, <1>3, Zenon
<1>8. /\ DOMAIN guest' = Execs /\ \A d \in Execs : d # c => guest'[d] = guest[d]
      /\ guest'[c] = z
  <2>1. CASE h.mode = "streamed" /\ t > 0
    <3>1. Send(c, N(k))
      BY <1>3, <2>1, Zenon DEF Streamed
    <3>2. z = IF g.pc = "loop" THEN [g EXCEPT !.queue = Append(@, N(k))] ELSE g
      BY <2>1, Zenon
    <3> HIDE DEF N, z
    <3> QED
      BY <3>1, <3>2, <1>1, Sent
  <2>2. CASE ~(h.mode = "streamed" /\ t > 0)
    <3>1. guest' = guest /\ z = g
      BY <1>3, <2>2 DEF Streamed
    <3> HIDE DEF z
    <3> QED
      BY <3>1, <1>1, Zenon
  <2> QED
    BY <2>1, <2>2, Zenon
<1> HIDE DEF t
<1>9. ExecOK(h, net[c], z, w)
  BY <1>1, <1>2, <1>5, <1>6, Reads, Zenon
<1>10. w.written = m.written
  BY <1>1, Zenon DEF CmdRec
<1> HIDE DEF w, z
<1> QED
  BY <1>1, <1>2, <1>7, <1>8, <1>9, <1>10, InsideDoes, Zenon

\* A reader ends.
LEMMA EofDoes ==
    ASSUME EInv, NEW c \in Execs, NEW s \in Streams, ReaderEof(c, s)
    PROVE  Does(c) /\ Permit(c)
<1> DEFINE h == host[c]
           m == cmd[c]
           g == guest[c]
           x == [t |-> "eof", s |-> s, n |-> 0]
           w == [m EXCEPT !.open = @ \ {s}]
           z == IF h.mode = "streamed" /\ g.pc = "loop"
                THEN [g EXCEPT !.queue = Append(@, x)] ELSE g
<1>1. /\ ExecOK(h, net[c], g, m) /\ g \in GuestRec
      /\ DOMAIN net = Execs /\ DOMAIN guest = Execs /\ DOMAIN cmd = Execs /\ m \in CmdRec
  BY ExecFacts, Zenon
<1>2. /\ UNCHANGED <<slots, host, net>> /\ s \in m.open /\ m.read[s] = m.written[s]
      /\ m.child # "run" /\ m.helper \notin {"group", "escaped"}
  BY Zenon DEF ReaderEof, Held
<1>3. /\ cmd'[c] = w
      /\ DOMAIN cmd' = Execs /\ \A d \in Execs : d # c => cmd'[d] = cmd[d]
  BY <1>1, Zenon DEF ReaderEof
<1>4. /\ DOMAIN guest' = Execs /\ \A d \in Execs : d # c => guest'[d] = guest[d]
      /\ guest'[c] = z
  <2>1. CASE h.mode = "streamed"
    <3>1. Send(c, x)
      BY <2>1, Zenon DEF ReaderEof, Streamed
    <3>2. z = IF g.pc = "loop" THEN [g EXCEPT !.queue = Append(@, x)] ELSE g
      BY <2>1, Zenon
    <3> HIDE DEF x, z
    <3> QED
      BY <3>1, <3>2, <1>1, Sent
  <2>2. CASE h.mode # "streamed"
    <3>1. guest' = guest /\ z = g
      BY <2>2, Zenon DEF ReaderEof, Streamed
    <3> HIDE DEF z
    <3> QED
      BY <3>1, <1>1, Zenon
  <2> QED
    BY <2>1, <2>2, Zenon
<1>5. ExecOK(h, net[c], z, w)
  BY <1>1, <1>2, ReadsEnd, Zenon
<1>6. w.written = m.written
  BY <1>1, Zenon DEF CmdRec
<1> HIDE DEF w, z
<1> QED
  BY <1>1, <1>2, <1>3, <1>4, <1>5, <1>6, InsideDoes

\* The waiter.
LEMMA WaiterDoes ==
    ASSUME EInv, NEW c \in Execs, Waiter(c)
    PROVE  Does(c) /\ Permit(c)
<1> DEFINE h == host[c]
           m == cmd[c]
           g == guest[c]
           x == [t |-> "exited", s |-> None, n |-> 0]
           w == [m EXCEPT !.reaped = TRUE]
           z == IF g.pc = "loop" THEN [g EXCEPT !.queue = Append(@, x)] ELSE g
<1>1. /\ ExecOK(h, net[c], g, m) /\ g \in GuestRec
      /\ DOMAIN net = Execs /\ DOMAIN guest = Execs /\ DOMAIN cmd = Execs /\ m \in CmdRec
  BY ExecFacts, Zenon
<1>2. UNCHANGED <<slots, host, net>> /\ m.child \in {"exited", "killed"} /\ Send(c, x)
  BY Zenon DEF Waiter
<1>3. /\ cmd'[c] = w
      /\ DOMAIN cmd' = Execs /\ \A d \in Execs : d # c => cmd'[d] = cmd[d]
  BY <1>1, Zenon DEF Waiter
<1>4. ExecOK(h, net[c], z, m)
  BY <1>1, Exits
<1>5. w.written = m.written
  BY <1>1, Zenon DEF CmdRec
<1>6. /\ DOMAIN guest' = Execs /\ \A d \in Execs : d # c => guest'[d] = guest[d]
      /\ guest'[c] = z
  <2>1. z = IF g.pc = "loop" THEN [g EXCEPT !.queue = Append(@, x)] ELSE g
    BY Zenon
  <2> HIDE DEF x, z
  <2> QED
    BY <1>1, <1>2, <2>1, Sent
<1> HIDE DEF z
<1>7. ExecOK(h, net[c], z, w)
  BY <1>2, <1>4, CmdSteps, Zenon
<1> HIDE DEF w
<1> QED
  BY <1>1, <1>2, <1>3, <1>5, <1>6, <1>7, InsideDoes, Zenon

\* The guest's timeout.
LEMMA TimeoutDoes ==
    ASSUME EInv, NEW c \in Execs, RecvTimeout(c)
    PROVE  Does(c) /\ Permit(c)
<1> DEFINE h == host[c]
           m == cmd[c]
           g == guest[c]
<1>1. /\ ExecOK(h, net[c], g, m) /\ g \in GuestRec
      /\ DOMAIN net = Execs /\ DOMAIN guest = Execs /\ DOMAIN cmd = Execs /\ m \in CmdRec
  BY ExecFacts, Zenon
<1>2. UNCHANGED <<slots, host, net>> /\ g.pc = "loop"
  BY Zenon DEF RecvTimeout
<1>3. CASE /\ guest' = [guest EXCEPT ![c].expired = TRUE]
           /\ cmd' = [cmd EXCEPT ![c] = Killed(@)]
  <2> DEFINE z == [g EXCEPT !.expired = TRUE]
             w == Killed(m)
  <2>1. /\ DOMAIN guest' = Execs /\ \A d \in Execs : d # c => guest'[d] = guest[d]
        /\ guest'[c] = z
    BY <1>1, <1>3, Zenon
  <2>2. /\ DOMAIN cmd' = Execs /\ \A d \in Execs : d # c => cmd'[d] = cmd[d]
        /\ cmd'[c] = w
    BY <1>1, <1>3, Zenon
  <2>3. ExecOK(h, net[c], z, m) /\ z.pc = "loop"
    <3>1. z.pc = "loop"
      BY <1>1, <1>2, Zenon DEF GuestRec
    <3> QED
      BY <1>1, <1>2, <3>1, TimesOut, Zenon
  <2>4. w.written = m.written
    BY <1>1, Zenon DEF CmdRec, Killed
  <2> HIDE DEF z
  <2>5. ExecOK(h, net[c], z, w)
    BY <2>3, CmdSteps, Zenon
  <2> HIDE DEF w
  <2> QED
    BY <1>1, <1>2, <2>1, <2>2, <2>4, <2>5, InsideDoes
<1>4. CASE /\ g.expired \/ g.err
           /\ guest' = [guest EXCEPT ![c].pc = "join"] /\ cmd' = cmd
  <2> DEFINE z == [g EXCEPT !.pc = "join"]
  <2>1. /\ DOMAIN guest' = Execs /\ \A d \in Execs : d # c => guest'[d] = guest[d]
        /\ guest'[c] = z
    BY <1>1, <1>4, Zenon
  <2>2. ExecOK(h, net[c], z, m)
    BY <1>1, <1>2, <1>4, TimesOut, Zenon
  <2> HIDE DEF z
  <2> QED
    BY <1>1, <1>2, <1>4, <2>1, <2>2, InsideDoes, Zenon
<1> QED
  BY <1>3, <1>4, Zenon DEF RecvTimeout

\* The guest joins its readers and writes its last frame.
LEMMA JoinDoes ==
    ASSUME EInv, NEW c \in Execs, Join(c) \/ Write(c)
    PROVE  Does(c) /\ Permit(c)
<1> DEFINE h == host[c]
           m == cmd[c]
           g == guest[c]
<1>1. /\ ExecOK(h, net[c], g, m) /\ g \in GuestRec
      /\ DOMAIN net = Execs /\ DOMAIN guest = Execs /\ DOMAIN cmd = Execs /\ m \in CmdRec
  BY ExecFacts, Zenon
<1>2. UNCHANGED <<slots, host, cmd>>
  BY Zenon DEF Join, Write
<1>3. CASE Join(c)
  <2> DEFINE z == [g EXCEPT !.pc = "write"]
  <2>1. /\ DOMAIN guest' = Execs /\ \A d \in Execs : d # c => guest'[d] = guest[d]
        /\ guest'[c] = z /\ net' = net
    BY <1>1, <1>3, Zenon DEF Join
  <2>2. ExecOK(h, net[c], z, m)
    BY <1>1, <1>3, Joins DEF Join
  <2> HIDE DEF z
  <2> QED
    BY <1>1, <1>2, <2>1, <2>2, InsideDoes
<1>4. CASE Write(c)
  <2> DEFINE a == Answer(c)
             y == [t |-> "done", a |-> a, out |-> m.kept]
             f == IF h.pc = "done" THEN net[c] ELSE Append(net[c], y)
             z == Gone(g)
  <2>1. /\ DOMAIN guest' = Execs /\ \A d \in Execs : d # c => guest'[d] = guest[d]
        /\ guest'[c] = z /\ g.pc = "write"
    BY <1>1, <1>4 DEF Write
  <2>2. /\ DOMAIN net' = Execs /\ \A d \in Execs : d # c => net'[d] = net[d]
        /\ net'[c] = f
    <3>1. net' = IF h.pc = "done" THEN net ELSE [net EXCEPT ![c] = Append(@, y)]
      BY <1>4, Zenon DEF Write, HungUp
    <3> HIDE DEF y
    <3> QED
      BY <1>1, <3>1, Zenon
  <2>3. a = IF g.err THEN "failed" ELSE IF g.expired THEN "killed" ELSE "exit"
    BY Zenon DEF Answer
  <2> HIDE DEF a
  <2>4. ExecOK(h, f, z, m)
    BY <1>1, <2>1, <2>3, Writes, Zenon
  <2> HIDE DEF z, f
  <2> QED
    BY <1>1, <1>2, <2>1, <2>2, <2>4, InsideDoes, Zenon
<1> QED
  BY <1>3, <1>4, Zenon

\* The VM is gone.
LEMMA VmDoes ==
    ASSUME EInv, NEW c \in Execs, VmGone(c)
    PROVE  Does(c) /\ Permit(c)
<1> DEFINE h == host[c]
           m == cmd[c]
           g == guest[c]
           w == Ended(m)
           z == Gone(g)
<1>1. /\ ExecOK(h, net[c], g, m) /\ g \in GuestRec
      /\ DOMAIN net = Execs /\ DOMAIN guest = Execs /\ DOMAIN cmd = Execs /\ m \in CmdRec
  BY ExecFacts, Zenon
<1>2. UNCHANGED <<slots, host>> /\ g.pc \notin {"none", "gone"}
  BY Zenon DEF VmGone
<1>3. /\ DOMAIN guest' = Execs /\ \A d \in Execs : d # c => guest'[d] = guest[d]
      /\ guest'[c] = z
  BY <1>1, Zenon DEF VmGone
<1>4. /\ DOMAIN cmd' = Execs /\ \A d \in Execs : d # c => cmd'[d] = cmd[d]
      /\ cmd'[c] = w
  BY <1>1, Zenon DEF VmGone, Ended
<1>5. PICK f \in {net[c], <<>>} :
         /\ DOMAIN net' = Execs /\ \A d \in Execs : d # c => net'[d] = net[d]
         /\ net'[c] = f
  <2>1. net' = net \/ net' = [net EXCEPT ![c] = <<>>]
    BY Zenon DEF VmGone
  <2> QED
    BY <1>1, <2>1
<1>6. ExecOK(h, f, z, w)
  BY <1>1, <1>2, ThreadGone, Zenon
<1>7. w.written = m.written
  BY <1>1, Zenon DEF CmdRec, Ended
<1> HIDE DEF w, z
<1> QED
  BY <1>1, <1>2, <1>3, <1>4, <1>5, <1>6, <1>7, InsideDoes

\* A turn of the guest's loop.
LEMMA RecvDoes ==
    ASSUME EInv, NEW c \in Execs, Recv(c)
    PROVE  Does(c) /\ Permit(c)
<1> DEFINE h == host[c]
           m == cmd[c]
           g == guest[c]
           n == net[c]
           x == Head(g.queue)
           E == IF x.t = "eof" THEN g.eofs \ {x.s} ELSE g.eofs
           b == g.exited \/ x.t = "exited"
<1>1. /\ ExecOK(h, n, g, m) /\ g \in GuestRec
      /\ DOMAIN net = Execs /\ DOMAIN guest = Execs /\ DOMAIN cmd = Execs /\ m \in CmdRec
  BY ExecFacts, Zenon
<1>2. UNCHANGED <<slots, host>> /\ g.pc = "loop" /\ g.queue # <<>>
  BY Zenon DEF Recv
<1>3. b \in BOOLEAN
  BY <1>1, Zenon DEF GuestRec
<1>4. IF x.t = "exited"
      THEN guest' = [guest EXCEPT ![c] = Taking(g, E, b)] /\ UNCHANGED <<net, cmd>>
      ELSE Emit(c, x.s, x.n, x.t = "eof", Taking(g, E, b))
  BY Zenon DEF Recv, Taking
<1>5. CASE x.t = "exited"
  <2>1. E = g.eofs /\ b = TRUE
    BY <1>5, Zenon
  <2> HIDE DEF E, b
  <2> DEFINE z == Taking(g, E, b)
  <2>2. guest' = [guest EXCEPT ![c] = z] /\ net' = net /\ cmd' = cmd
    BY <1>4, <1>5
  <2>3. ExecOK(h, n, z, m)
    <3>1. ExecOK(h, n, Taking(g, g.eofs, TRUE), m)
      BY <1>1, <1>2, <1>5, HearsExit, Zenon
    <3> QED
      BY <2>1, <3>1, Zenon
  <2> HIDE DEF z
  <2>4. /\ DOMAIN guest' = Execs /\ \A d \in Execs : d # c => guest'[d] = guest[d]
        /\ guest'[c] = z
    BY <1>1, <2>2, Zenon
  <2> QED
    BY <1>1, <1>2, <2>2, <2>3, <2>4, InsideDoes
<1>6. CASE x.t # "exited"
  <2> DEFINE s == x.s
             all == g.carry[s] + x.n
             out == IF x.t = "eof" THEN all ELSE Whole(all)
             y == Taking(g, E, b)
  <2>1. Hears(h, g, x, s, E, b, all, out)
    BY <1>3, <1>6 DEF Hears
  <2>2. \/ /\ g.err \/ out = 0
           /\ guest' = [guest EXCEPT ![c] = [y EXCEPT !.carry[s] = all - out]]
           /\ UNCHANGED <<net, cmd>>
        \/ /\ h.pc # "done"
           /\ guest' = [guest EXCEPT ![c] = [y EXCEPT !.carry[s] = all - out,
                           !.lossy = IF out % 2 = 0 THEN @ ELSE @ \cup {s}]]
           /\ net' = [net EXCEPT ![c] = Append(@, [t |-> "chunk", s |-> s, n |-> out])]
           /\ UNCHANGED cmd
        \/ /\ h.pc = "done"
           /\ guest' = [guest EXCEPT ![c] = [y EXCEPT !.err = TRUE]]
           /\ cmd' = [cmd EXCEPT ![c] = Killed(@)]
           /\ UNCHANGED net
    <3>1. Emit(c, s, x.n, x.t = "eof", y)
      BY <1>4, <1>6, Zenon
    <3> HIDE DEF y
    <3> QED
      BY <3>1, Zenon DEF Emit, HungUp
  <2>3. /\ y \in GuestRec /\ y.lossy = g.lossy /\ E \in SUBSET Streams
    <3>1. E \in SUBSET Streams
      BY <1>1, Zenon DEF GuestRec
    <3> HIDE DEF E, b
    <3>2. Took(g, y, E, g.lossy)
      BY <1>1, <1>2, <1>3, <3>1, TakingType, Zenon
    <3> HIDE DEF y
    <3> QED
      BY <3>1, <3>2 DEF Took
  <2> HIDE DEF x, E, b, all, out, s
  <2>4. CASE /\ g.err \/ out = 0
             /\ guest' = [guest EXCEPT ![c] = [y EXCEPT !.carry[s] = all - out]]
             /\ UNCHANGED <<net, cmd>>
    <3> DEFINE z == [y EXCEPT !.carry[s] = all - out]
    <3>1. ExecOK(h, n, [y EXCEPT !.carry[s] = all - out, !.lossy = g.lossy], m)
      BY <1>1, <1>2, <2>1, <2>4, HearsQuiet, Zenon
    <3>2. z = [y EXCEPT !.carry[s] = all - out, !.lossy = g.lossy]
      <4> HIDE DEF y
      <4> QED
        BY <2>3, Zenon DEF GuestRec
    <3>3. ExecOK(h, n, z, m)
      BY <3>1, <3>2, Zenon
    <3> HIDE DEF z, y
    <3>4. guest' = [guest EXCEPT ![c] = z] /\ net' = net /\ cmd' = cmd
      BY <2>4, Zenon DEF z
    <3>5. /\ DOMAIN guest' = Execs /\ \A d \in Execs : d # c => guest'[d] = guest[d]
          /\ guest'[c] = z
      BY <1>1, <3>4, Zenon
    <3> QED
      BY <1>1, <1>2, <3>3, <3>4, <3>5, InsideDoes, Zenon
  <2>5. CASE /\ h.pc # "done"
             /\ guest' = [guest EXCEPT ![c] = [y EXCEPT !.carry[s] = all - out,
                             !.lossy = IF out % 2 = 0 THEN @ ELSE @ \cup {s}]]
             /\ net' = [net EXCEPT ![c] = Append(@, [t |-> "chunk", s |-> s, n |-> out])]
             /\ UNCHANGED cmd
    <3> DEFINE L == IF out % 2 = 0 THEN g.lossy ELSE g.lossy \cup {s}
               z == [y EXCEPT !.carry[s] = all - out, !.lossy = L]
               f == Append(n, [t |-> "chunk", s |-> s, n |-> out])
    <3>1. ExecOK(h, f, z, m)
      BY <1>1, <1>2, <2>1, <2>5, HearsFrame, Zenon
    <3>2. z = [y EXCEPT !.carry[s] = all - out,
                        !.lossy = IF out % 2 = 0 THEN @ ELSE @ \cup {s}]
      <4> HIDE DEF y
      <4> QED
        BY <2>3, Zenon DEF GuestRec
    <3> HIDE DEF z, y, f
    <3>3. guest' = [guest EXCEPT ![c] = z] /\ cmd' = cmd
      BY <2>5, <3>2
    <3>4. /\ DOMAIN guest' = Execs /\ \A d \in Execs : d # c => guest'[d] = guest[d]
          /\ guest'[c] = z
      BY <1>1, <3>3, Zenon
    <3>5. /\ DOMAIN net' = Execs /\ \A d \in Execs : d # c => net'[d] = net[d]
          /\ net'[c] = f
      BY <1>1, <2>5, Zenon DEF f
    <3> QED
      BY <1>1, <1>2, <3>1, <3>3, <3>4, <3>5, InsideDoes
  <2>6. CASE /\ h.pc = "done"
             /\ guest' = [guest EXCEPT ![c] = [y EXCEPT !.err = TRUE]]
             /\ cmd' = [cmd EXCEPT ![c] = Killed(@)]
             /\ UNCHANGED net
    <3> DEFINE z == [y EXCEPT !.err = TRUE]
               w == Killed(m)
    <3>1. ExecOK(h, n, z, w)
      BY <1>1, <1>2, <2>1, <2>6, HearsHangup
    <3>2. w.written = m.written
      BY <1>1, Zenon DEF CmdRec, Killed
    <3> HIDE DEF z, y
    <3>3. guest' = [guest EXCEPT ![c] = z] /\ cmd' = [cmd EXCEPT ![c] = w] /\ net' = net
      BY <2>6 DEF z
    <3> HIDE DEF w
    <3>4. /\ DOMAIN guest' = Execs /\ \A d \in Execs : d # c => guest'[d] = guest[d]
          /\ guest'[c] = z
      BY <1>1, <3>3, Zenon
    <3>5. /\ DOMAIN cmd' = Execs /\ \A d \in Execs : d # c => cmd'[d] = cmd[d]
          /\ cmd'[c] = w
      BY <1>1, <3>3, Zenon
    <3> QED
      BY <1>1, <1>2, <3>1, <3>2, <3>3, <3>4, <3>5, InsideDoes
  <2> QED
    BY <2>2, <2>4, <2>5, <2>6, Zenon
<1> QED
  BY <1>5, <1>6, Zenon

\* What is kept of a stream, and what is all that will be kept of it.
LEMMA KeptLeast ==
    ASSUME NEW m \in CmdRec, BytesOK(m), NEW s \in Streams
    PROVE  /\ m.kept[s] <= Least(Cap, m.written[s]) /\ m.kept[s] \in 0 .. Cap
           /\ Closed(m, s) => m.kept[s] = Least(Cap, m.written[s])
<1>1. /\ m.kept[s] \in Nat /\ m.read[s] \in Nat /\ m.written[s] \in Nat /\ Cap \in Nat
      /\ m.read[s] <= m.written[s]
      /\ m.kept[s] = IF m.read[s] <= Cap THEN m.read[s] ELSE Cap
  BY GuestAssumption, Zenon DEF CmdRec, BytesOK
<1>2. Closed(m, s) => m.read[s] = m.written[s]
  BY Zenon DEF Closed
<1> QED
  BY <1>1, <1>2 DEF Least

\* A chunk is more of the same stream, and no more than was kept of it.
LEMMA ChunkTold ==
    ASSUME NEW h, NEW n, NEW g, NEW m, ExecOK(h, n, g, m), h.pc = "wait", n # <<>>,
           Head(n).t = "chunk", NEW k, k = [h EXCEPT !.got[Head(n).s] = @ + Head(n).n]
    PROVE  Told(h, m, k, m)
<1> DEFINE x == Head(n)
           s == x.s
           v == h.got[s] + x.n
<1>1. x \in Frames /\ h \in HostRec /\ m \in CmdRec /\ h.got \in [Streams -> Nat]
      /\ n \in Seq(Frames) /\ BytesOK(m) /\ h.answer = None
  BY RestOfFrames, Zenon DEF ExecOK, Types, HostRec, EarlyOK
<1>2. s \in Streams /\ x.n \in Nat /\ Amount(x, s) = x.n
  BY <1>1, Zenon DEF Frames, Chunks, Amount
<1>3. PICK y \in Nat : Ledger(h, n, g, m, s, y)
  BY <1>2, Zenon DEF ExecOK, LedgerOK
<1>4. Sums(n, s, h.got[s], y) /\ y <= m.kept[s]
  BY <1>3 DEF Ledger
<1>5. h.got[s] + Amount(x, s) <= y
  BY <1>1, <1>2, <1>4, SumsRest, Zenon
<1>6. m.kept[s] <= Least(Cap, m.written[s]) /\ m.kept[s] \in 0 .. Cap
  BY <1>1, <1>2, KeptLeast, Zenon
<1>7. Least(Cap, m.written[s]) \in Nat /\ Cap \in Nat
  BY <1>1, <1>2, GuestAssumption DEF CmdRec, Least
<1>8. v \in h.got[s] .. Least(Cap, m.written[s])
  BY <1>1, <1>2, <1>4, <1>5, <1>6, <1>7
<1>9. k.got = [h.got EXCEPT ![s] = v] /\ k.answer = None
  BY <1>1, Zenon DEF HostRec
<1> HIDE DEF v, s, x
<1> QED
  BY <1>1, <1>2, <1>8, <1>9, Zenon DEF Told

\* The answer brings what the contract says.
LEMMA DoneTold ==
    ASSUME NEW h, NEW n, NEW g, NEW m, ExecOK(h, n, g, m), h.pc = "wait", n # <<>>,
           Head(n).t = "done", NEW o, o = IF h.mode = "buffered" THEN Head(n).out ELSE h.got,
           NEW k, k = [h EXCEPT !.pc = "done", !.answer = Head(n).a, !.got = o]
    PROVE  Told(h, m, k, m)
<1> DEFINE x == Head(n)
<1>1. /\ x \in Frames /\ x = n[1] /\ h \in HostRec /\ m \in CmdRec /\ BytesOK(m)
      /\ h.got \in [Streams -> Nat] /\ m.kept \in [Streams -> Nat] /\ n \in Seq(Frames)
      /\ h.answer = None /\ h.mode \in {"buffered", "streamed"} /\ Len(n) \in Nat \ {0}
  BY RestOfFrames, Zenon DEF ExecOK, Types, HostRec, CmdRec, EarlyOK
<1>2. /\ Len(n) = 1 /\ x.out = m.kept /\ \A s \in Streams : Closed(m, s)
      /\ x.a = "failed" => m.kept = Zero
      /\ h.mode = "buffered" => h.got = Zero
  <2>1. FramesOK(h, n, g, m)
    BY Zenon DEF ExecOK
  <2>2. 1 \in 1 .. Len(n) /\ n[1].t = "done"
    BY <1>1
  <2> HIDE DEF x
  <2>3. /\ 1 = Len(n) /\ n[1].out = m.kept /\ \A s \in Streams : Closed(m, s)
        /\ n[1].a = "failed" => m.kept = Zero
        /\ h.mode = "buffered" => h.got = Zero
    BY <2>1, <2>2, Zenon DEF FramesOK
  <2> QED
    BY <2>3, <1>1, Zenon
<1>3. x.a \in {"exit", "killed", "failed"}
  BY <1>1, Zenon DEF Frames, Chunks
<1>4. k.answer = x.a /\ k.got = o
  BY <1>1, Zenon DEF HostRec
<1>5. ASSUME h.mode = "streamed", NEW s \in Streams
      PROVE  h.got[s] <= m.kept[s] /\ (x.a = "exit" => h.got[s] = m.kept[s])
  <2>1. PICK y \in Nat : Ledger(h, n, g, m, s, y)
    BY Zenon DEF ExecOK, LedgerOK
  <2>2. Sums(n, s, h.got[s], y) /\ y <= m.kept[s]
    BY <2>1, Zenon DEF Ledger
  <2>3. x.a = "exit" => y = m.kept[s]
    BY <2>1, <1>1, <1>2, <1>5 DEF Ledger
  <2>4. \A i \in 1 .. Len(n) : Amount(n[i], s) = 0
    BY <1>1, <1>2 DEF Amount
  <2>5. h.got[s] = y
    BY <1>1, <2>2, <2>4, SumsBound
  <2> QED
    BY <2>2, <2>3, <2>5
<1>6. /\ o \in [Streams -> Nat] /\ \A s \in Streams : h.got[s] <= o[s] /\ o[s] <= m.kept[s]
      /\ x.a = "exit" => \A s \in Streams : o[s] = m.kept[s]
      /\ x.a = "failed" => o = h.got
  <2>1. CASE h.mode = "buffered"
    <3>1. o = m.kept /\ h.got = Zero /\ \A s \in Streams : m.kept[s] \in Nat /\ Zero[s] = 0
      BY <2>1, <1>1, <1>2, Zenon DEF Zero
    <3> QED
      BY <3>1, <1>1, <1>2
  <2>2. CASE h.mode = "streamed"
    <3>1. o = h.got /\ \A s \in Streams : h.got[s] \in Nat
      BY <2>2, <1>1, Zenon
    <3> QED
      BY <3>1, <2>2, <1>1, <1>5
  <2> QED
    BY <2>1, <2>2, <1>1, Zenon
<1>7. \A s \in Streams : m.kept[s] = Least(Cap, m.written[s]) /\ m.kept[s] \in 0 .. Cap
  BY <1>1, <1>2, KeptLeast, Zenon
<1> HIDE DEF x
<1>8. CASE x.a = "exit"
  <2>1. o = [s \in Streams |-> Least(Cap, m.written[s])]
    BY <1>6, <1>7, <1>8, Zenon
  <2> QED
    BY <1>1, <1>4, <1>8, <2>1, Zenon DEF Told
<1>9. CASE x.a = "killed"
  <2>1. \A s \in Streams : o[s] \in 0 .. Cap
    BY <1>6, <1>7, GuestAssumption
  <2>2. o \in [Streams -> 0 .. Cap]
    BY <1>6, <2>1, Zenon
  <2>3. \A s \in Streams : h.got[s] <= o[s] /\ o[s] <= Least(Cap, m.written[s])
    BY <1>6, <1>7, Zenon
  <2> QED
    BY <1>1, <1>4, <1>9, <2>2, <2>3, Zenon DEF Told
<1>10. CASE x.a = "failed"
  BY <1>1, <1>4, <1>6, <1>10 DEF Told
<1> QED
  BY <1>3, <1>8, <1>9, <1>10

\* The host reads a frame.
LEMMA ReadDoes ==
    ASSUME EInv, NEW c \in Execs, Read(c)
    PROVE  Does(c) /\ Permit(c)
<1> DEFINE h == host[c]
           n == net[c]
           x == Head(n)
           o == IF h.mode = "buffered" THEN x.out ELSE h.got
<1>1. /\ ExecOK(h, n, guest[c], cmd[c]) /\ c \in Calls
      /\ DOMAIN host = Calls /\ DOMAIN net = Execs /\ DOMAIN guest = Execs
      /\ DOMAIN cmd = Execs /\ h \in HostRec
  BY ExecFacts, Zenon
<1>2. /\ h.pc = "wait" /\ n # <<>> /\ guest' = guest /\ cmd' = cmd
      /\ net' = [net EXCEPT ![c] = Tail(@)]
  BY Zenon DEF Read
<1>3. DOMAIN net' = Execs /\ net'[c] = Tail(n) /\ \A d \in Execs : d # c => net'[d] = net[d]
  BY <1>1, <1>2, Zenon
<1>4. CASE /\ x.t = "chunk" /\ slots' = slots
           /\ host' = [host EXCEPT ![c].got[x.s] = @ + x.n]
  <2> DEFINE k == [h EXCEPT !.got[x.s] = @ + x.n]
  <2>1. /\ DOMAIN host' = Calls /\ host'[c] = k
        /\ \A d \in Calls : d # c => host'[d] = host[d]
    BY <1>1, <1>4, Zenon
  <2>2. ExecOK(k, Tail(n), guest[c], cmd[c])
    BY <1>1, <1>2, <1>4, TakesChunk, Zenon
  <2>3. Told(h, cmd[c], k, cmd[c])
    BY <1>1, <1>2, <1>4, ChunkTold, Zenon
  <2>4. k.pc = "wait"
    BY <1>1, <1>2 DEF HostRec
  <2> HIDE DEF k
  <2>5. Alone(c)
    BY <1>1, <1>2, <1>3, <2>1, Zenon DEF Alone
  <2>6. Permit(c)
    BY <1>2, <1>4, <2>1, <2>4 DEF Permit, HasSlot
  <2> QED
    BY <1>2, <1>3, <2>1, <2>2, <2>3, <2>5, <2>6, Zenon DEF Does
<1>5. CASE /\ x.t = "done" /\ slots' = slots + 1
           /\ host' = [host EXCEPT ![c].pc = "done", ![c].answer = x.a, ![c].got = o]
  <2> DEFINE k == [h EXCEPT !.pc = "done", !.answer = x.a, !.got = o]
  <2>1. /\ DOMAIN host' = Calls /\ host'[c] = k
        /\ \A d \in Calls : d # c => host'[d] = host[d]
    BY <1>1, <1>5
  <2>2. ExecOK(k, Tail(n), guest[c], cmd[c])
    BY <1>1, <1>2, <1>5, TakesDone, Zenon
  <2>3. Told(h, cmd[c], k, cmd[c])
    BY <1>1, <1>2, <1>5, DoneTold, Zenon
  <2>4. k.pc = "done"
    BY <1>1, Zenon DEF HostRec
  <2> HIDE DEF k
  <2>5. Alone(c)
    BY <1>1, <1>2, <1>3, <2>1, Zenon DEF Alone
  <2>6. Permit(c)
    BY <1>2, <1>5, <2>1, <2>4, Zenon DEF Permit, HasSlot
  <2> QED
    BY <1>2, <1>3, <2>1, <2>2, <2>3, <2>5, <2>6, Zenon DEF Does
<1> QED
  BY <1>4, <1>5, Zenon DEF Read

----------------------------------------------------------------------------
(* A set_ip conversation, which is nobody else's business. *)

Aside(c) ==
    /\ DOMAIN host' = Calls /\ \A d \in Calls : d # c => host'[d] = host[d]
    /\ host'[c] \in HostRec /\ UNCHANGED inside

\* SetIp is tried again.
LEMMA RetryDoes ==
    ASSUME EInv, NEW c \in Readdress, Retry(c), UNCHANGED inside
    PROVE  Aside(c) /\ Permit(c)
<1> DEFINE h == host[c]
           p == IF h.tries + 1 < MaxTries THEN "slot" ELSE "done"
           a == IF h.tries + 1 < MaxTries THEN None ELSE "failed"
<1>1. DOMAIN host = Calls /\ c \in Calls /\ h \in HostRec /\ h.tries \in Nat
  BY Zenon DEF EInv, Calls, HostRec
<1>2. p \in {"slot", "done"} /\ a \in {None, "failed"}
  BY Zenon
<1>3. host' = [host EXCEPT ![c].pc = p, ![c].tries = @ + 1, ![c].answer = a]
  BY Zenon DEF Retry
<1> HIDE DEF p, a
<1>4. /\ DOMAIN host' = Calls /\ \A d \in Calls : d # c => host'[d] = host[d]
      /\ host'[c] = [h EXCEPT !.pc = p, !.tries = @ + 1, !.answer = a]
  BY <1>1, <1>3
<1>5. h.tries + 1 \in Nat
  BY <1>1
<1>6. host'[c] \in HostRec /\ host'[c].pc = p
  BY <1>1, <1>2, <1>4, <1>5, Zenon DEF HostRec
<1>7. Permit(c)
  BY <1>2, <1>6, Zenon DEF Permit, HasSlot, Retry
<1> QED
  BY <1>4, <1>6, <1>7, Zenon DEF Aside

\* SetIp.
LEMMA SetIpDoes ==
    ASSUME EInv, NEW c \in Readdress, Request(c) \/ SetIpStep(c)
    PROVE  Aside(c) /\ Permit(c)
<1> DEFINE h == host[c]
<1>1. DOMAIN host = Calls /\ c \in Calls /\ h \in HostRec /\ c \notin Execs
  BY GuestAssumption, Zenon DEF EInv, Calls
<1>2. UNCHANGED inside
  BY DEF Request, SetIpStep, AcquireSlot, SendSetIp, SetIpAnswer, SetIpExpire, inside
<1>3. CASE Retry(c)
  BY <1>2, <1>3, RetryDoes, Zenon
<1>4. CASE Request(c)
  <2>1. host' = [host EXCEPT ![c].pc = "slot", ![c].mode = "setip"] /\ slots' = slots
        /\ h.pc = "idle"
    BY <1>1, <1>4, Zenon DEF Request
  <2>2. /\ DOMAIN host' = Calls /\ \A d \in Calls : d # c => host'[d] = host[d]
        /\ host'[c] = [h EXCEPT !.pc = "slot", !.mode = "setip"]
    BY <1>1, <2>1, Zenon
  <2>3. host'[c] \in HostRec /\ host'[c].pc = "slot"
    BY <1>1, <2>2, Zenon DEF HostRec
  <2> QED
    BY <1>2, <2>1, <2>2, <2>3, Zenon DEF Aside, Permit, HasSlot
<1>5. CASE AcquireSlot(c)
  <2>1. /\ host' = [host EXCEPT ![c].pc = "connect"] /\ slots > 0 /\ slots' = slots - 1
        /\ h.pc = "slot"
    BY <1>5, Zenon DEF AcquireSlot
  <2>2. /\ DOMAIN host' = Calls /\ \A d \in Calls : d # c => host'[d] = host[d]
        /\ host'[c] = [h EXCEPT !.pc = "connect"]
    BY <1>1, <2>1
  <2>3. host'[c] \in HostRec /\ host'[c].pc = "connect"
    BY <1>1, <2>2, Zenon DEF HostRec
  <2> QED
    BY <1>2, <2>1, <2>2, <2>3 DEF Aside, Permit, HasSlot
<1>6. CASE Connected(c) /\ h.pc = "connect"
  <2>1. host' = [host EXCEPT ![c].pc = "wait"] /\ slots' = slots
    BY <1>6 DEF Connected
  <2>2. /\ DOMAIN host' = Calls /\ \A d \in Calls : d # c => host'[d] = host[d]
        /\ host'[c] = [h EXCEPT !.pc = "wait"]
    BY <1>1, <2>1, Zenon
  <2>3. host'[c] \in HostRec /\ host'[c].pc = "wait"
    BY <1>1, <2>2, Zenon DEF HostRec
  <2> QED
    BY <1>2, <1>6, <2>1, <2>2, <2>3, Zenon DEF Aside, Permit, HasSlot
<1>7. CASE End(c, "exit")
  <2>1. /\ host' = [host EXCEPT ![c].pc = "done", ![c].answer = "exit"]
        /\ slots' = IF HasSlot(c) THEN slots + 1 ELSE slots
    BY <1>7, Zenon DEF End
  <2>2. /\ DOMAIN host' = Calls /\ \A d \in Calls : d # c => host'[d] = host[d]
        /\ host'[c] = [h EXCEPT !.pc = "done", !.answer = "exit"]
    BY <1>1, <2>1, Zenon
  <2>3. host'[c] \in HostRec /\ host'[c].pc = "done"
    BY <1>1, <2>2, Zenon DEF HostRec
  <2> QED
    BY <1>2, <2>1, <2>2, <2>3 DEF Aside, Permit, HasSlot
<1> QED
  BY <1>3, <1>4, <1>5, <1>6, <1>7, Zenon DEF SetIpStep, SendSetIp, SetIpAnswer, SetIpExpire

----------------------------------------------------------------------------
(* Every step. *)

\* Nobody moves, or one exec or one set_ip conversation does.
Moves ==
    \/ UNCHANGED <<slots, host, net, guest, cmd>>
    \/ \E c \in Execs : Does(c) /\ Permit(c)
    \/ \E c \in Readdress : Aside(c) /\ Permit(c)

\* Every step is one of these.
LEMMA NextMoves ==
    ASSUME EInv, [Next]_vars
    PROVE  Moves
<1>1. CASE UNCHANGED vars
  BY <1>1 DEF Moves, vars
<1>2. CASE \E c \in Calls : Request(c)
  <2>1. PICK c \in Calls : Request(c)
    BY <1>2, Zenon
  <2>2. CASE c \in Execs
    BY <2>1, <2>2, RequestDoes DEF Moves
  <2>3. CASE c \in Readdress
    BY <2>1, <2>3, SetIpDoes, Zenon DEF Moves
  <2> QED
    BY <2>2, <2>3, Zenon DEF Calls
<1>3. ASSUME NEW c \in Execs,
             HostStep(c) \/ MainStep(c) \/ Waiter(c) \/ VmGone(c)
               \/ CmdExit(c) \/ HelperExit(c)
               \/ \E s \in Streams : CmdWrite(c, s) \/ ReaderRead(c, s) \/ ReaderEof(c, s)
      PROVE  Does(c) /\ Permit(c)
  <2>1. CASE AcquireSlot(c)
    BY <2>1, RequestDoes
  <2>2. CASE Connect(c)
    BY <2>2, ConnectDoes, Zenon
  <2>3. CASE Read(c)
    BY <2>3, ReadDoes, Zenon
  <2>4. CASE ReadEnd(c)
    BY <2>4, EndDoes DEF ReadEnd
  <2>5. CASE GiveUp(c)
    BY <2>5, EndDoes, Zenon DEF GiveUp
  <2>6. CASE Recv(c)
    BY <2>6, RecvDoes, Zenon
  <2>7. CASE RecvTimeout(c)
    BY <2>7, TimeoutDoes, Zenon
  <2>8. CASE Join(c) \/ Write(c)
    BY <2>8, JoinDoes
  <2>9. CASE Waiter(c)
    BY <2>9, WaiterDoes, Zenon
  <2>10. CASE VmGone(c)
    BY <2>10, VmDoes, Zenon
  <2>11. CASE CmdExit(c) \/ HelperExit(c) \/ \E s \in Streams : CmdWrite(c, s)
    BY <2>11, CommandDoes, Zenon
  <2>12. CASE \E s \in Streams : ReaderRead(c, s)
    BY <2>12, ReaderDoes, Zenon
  <2>13. CASE \E s \in Streams : ReaderEof(c, s)
    BY <2>13, EofDoes, Zenon
  <2> QED
    BY <1>3, <2>1, <2>2, <2>3, <2>4, <2>5, <2>6, <2>7, <2>8, <2>9, <2>10, <2>11, <2>12, <2>13, Zenon
       DEF HostStep, MainStep
<1>4. ASSUME NEW c \in Readdress, SetIpStep(c)
      PROVE  Aside(c) /\ Permit(c)
  BY <1>4, SetIpDoes, Zenon
<1>5. ASSUME NEW c \in Readdress, NEW a \in 1 .. Len(work[c]), ApplySetIp(c, a)
      PROVE  UNCHANGED <<slots, host, net, guest, cmd>>
  BY <1>5 DEF ApplySetIp, inside
<1> QED
  BY <1>1, <1>2, <1>3, <1>4, <1>5, Zenon DEF Next, Moves

\* Every one of these keeps the invariant.
LEMMA MovesKeep ==
    ASSUME EInv, Moves
    PROVE  EInv'
<1>1. CASE UNCHANGED <<slots, host, net, guest, cmd>>
  BY <1>1, Zenon DEF EInv
<1>2. ASSUME NEW c \in Execs, Does(c)
      PROVE  EInv'
  <2>1. Alone(c) /\ ExecOK(host'[c], net'[c], guest'[c], cmd'[c])
    BY <1>2, Zenon DEF Does
  <2>2. \A d \in Readdress : d \in Calls /\ d # c
    BY GuestAssumption, Zenon DEF Calls
  <2>3. \A d \in Execs : d \in Calls
    BY DEF Calls
  <2>4. /\ DOMAIN host' = Calls /\ DOMAIN net' = Execs /\ DOMAIN guest' = Execs
        /\ DOMAIN cmd' = Execs
    BY <2>1, Zenon DEF Alone
  <2>5. \A d \in Readdress : host'[d] \in HostRec
    BY <2>1, <2>2, Zenon DEF Alone, EInv
  <2>6. \A d \in Execs : ExecOK(host'[d], net'[d], guest'[d], cmd'[d])
    <3> TAKE d \in Execs
    <3>1. CASE d = c
      BY <3>1, <2>1, Zenon
    <3>2. CASE d # c
      <4>1. host'[d] = host[d] /\ net'[d] = net[d] /\ guest'[d] = guest[d] /\ cmd'[d] = cmd[d]
        BY <3>2, <2>1, <2>3, Zenon DEF Alone
      <4>2. ExecOK(host[d], net[d], guest[d], cmd[d])
        BY DEF EInv
      <4> QED
        BY <4>1, <4>2
    <3> QED
      BY <3>1, <3>2
  <2> QED
    BY <2>4, <2>5, <2>6 DEF EInv
<1>3. ASSUME NEW c \in Readdress, Aside(c)
      PROVE  EInv'
  <2>1. \A d \in Execs : d \in Calls /\ d # c
    BY GuestAssumption, Zenon DEF Calls
  <2>2. \A d \in Execs : host'[d] = host[d] /\ net'[d] = net[d] /\ guest'[d] = guest[d] /\ cmd'[d] = cmd[d]
    BY <1>3, <2>1 DEF Aside, inside
  <2>3. \A d \in Readdress : host'[d] \in HostRec
    BY <1>3, Zenon DEF Aside, EInv, Calls
  <2>4. /\ DOMAIN host' = Calls /\ DOMAIN net' = Execs /\ DOMAIN guest' = Execs
        /\ DOMAIN cmd' = Execs
    BY <1>3, Zenon DEF Aside, EInv, inside
  <2>5. \A d \in Execs : ExecOK(host'[d], net'[d], guest'[d], cmd'[d])
    BY <2>2 DEF EInv
  <2> QED
    BY <2>3, <2>4, <2>5, Zenon DEF EInv
<1> QED
  BY <1>1, <1>2, <1>3, Zenon DEF Moves

\* The invariant holds at the start.
LEMMA EInvInit ==
    ASSUME Init
    PROVE  EInv
<1>1. \A c \in Calls : host[c] = NewHost
  BY Zenon DEF Init
<1>2. \A c \in Execs : net[c] = <<>> /\ guest[c] = NewGuest /\ cmd[c] = NewCmd /\ c \in Calls
  BY Zenon DEF Init, Calls
<1>3. DOMAIN host = Calls /\ DOMAIN net = Execs /\ DOMAIN guest = Execs /\ DOMAIN cmd = Execs
  BY Zenon DEF Init
<1>4. \A c \in Readdress : host[c] \in HostRec
  BY <1>1, NewTypes DEF Calls
<1>5. ExecOK(NewHost, <<>>, NewGuest, NewCmd)
  <2>1. NewHost.pc = "idle" /\ NewHost.got = Zero /\ NewHost.answer = None
    BY Zenon DEF NewHost
  <2>2. NewGuest.pc = "none" /\ NewGuest.lossy = {} /\ NewGuest.err = FALSE
    BY Zenon DEF NewGuest
  <2>3. NewCmd.read = Zero /\ NewCmd.written = Zero /\ NewCmd.kept = Zero
    BY Zenon DEF NewCmd
  <2>4. Types(NewHost, <<>>, NewGuest, NewCmd)
    BY NewTypes DEF Types
  <2>5. BytesOK(NewCmd)
    BY <2>3, GuestAssumption DEF BytesOK, Zero
  <2>6. EarlyOK(NewHost, <<>>, NewGuest, NewCmd)
    BY <2>1, <2>2, Zenon DEF EarlyOK
  <2>7. EndsOK(NewGuest, NewCmd) /\ QueueOK(NewHost, NewGuest, NewCmd) /\ LossyOK(NewGuest, NewCmd)
    BY <2>2, Zenon DEF EndsOK, QueueOK, LossyOK
  <2>8. LedgerOK(NewHost, <<>>, NewGuest, NewCmd) /\ FramesOK(NewHost, <<>>, NewGuest, NewCmd)
    BY <2>1, Zenon DEF LedgerOK, FramesOK
  <2>9. AnswerOK(NewHost, NewGuest, NewCmd)
    BY <2>1, GuestAssumption, Zenon DEF AnswerOK
  <2> QED
    BY <2>4, <2>5, <2>6, <2>7, <2>8, <2>9, Zenon DEF ExecOK
<1> QED
  BY <1>1, <1>2, <1>3, <1>4, <1>5, Zenon DEF EInv

----------------------------------------------------------------------------
(* The permits. *)

INSTANCE FiniteSetTheorems


Holders == {c \in Calls : HasSlot(c)}

PInv ==
    /\ slots \in Nat /\ IsFiniteSet(Holders)
    /\ slots + Cardinality(Holders) = MaxSlots

\* No permit is out at the start.
LEMMA PInvInit ==
    ASSUME Init
    PROVE  PInv
<1>1. \A c \in Calls : ~HasSlot(c)
  BY Zenon DEF Init, HasSlot, NewHost
<1>2. Holders = {}
  BY <1>1, Zenon DEF Holders
<1>3. IsFiniteSet({}) /\ Cardinality({}) = 0
  BY FS_EmptySet, Zenon
<1>4. slots = MaxSlots /\ MaxSlots \in Nat
  BY GuestAssumption DEF Init
<1> QED
  BY <1>2, <1>3, <1>4 DEF PInv

\* The permits, when one call moves.
LEMMA PInvStep ==
    ASSUME PInv, NEW c \in Calls, Permit(c), \A d \in Calls : d # c => host'[d] = host[d]
    PROVE  PInv'
<1>1. \A d \in Calls : d # c => (HasSlot(d)' <=> HasSlot(d))
  BY Zenon DEF HasSlot
<1>2. slots \in Nat /\ IsFiniteSet(Holders) /\ slots + Cardinality(Holders) = MaxSlots
      /\ Cardinality(Holders) \in Nat
  BY FS_CardinalityType, Zenon DEF PInv
<1>3. CASE slots' = slots /\ (HasSlot(c)' <=> HasSlot(c))
  <2>1. \A d \in Calls : HasSlot(d)' <=> HasSlot(d)
    BY <1>1, <1>3, Zenon
  <2>2. Holders' = Holders
    BY <2>1 DEF Holders
  <2> QED
    BY <1>2, <1>3, <2>2, Zenon DEF PInv
<1>4. CASE slots > 0 /\ slots' = slots - 1 /\ ~HasSlot(c) /\ HasSlot(c)'
  <2>1. Holders' = Holders \cup {c} /\ c \notin Holders
    BY <1>1, <1>4, Zenon DEF Holders
  <2>2. IsFiniteSet(Holders') /\ Cardinality(Holders') = Cardinality(Holders) + 1
    BY <1>2, <2>1, FS_AddElement, Zenon
  <2> QED
    BY <1>2, <1>4, <2>2 DEF PInv
<1>5. CASE slots' = slots + 1 /\ HasSlot(c) /\ ~HasSlot(c)'
  <2>1. Holders' = Holders \ {c} /\ c \in Holders
    BY <1>1, <1>5, Zenon DEF Holders
  <2>2. IsFiniteSet(Holders') /\ Cardinality(Holders') = Cardinality(Holders) - 1
    BY <1>2, <2>1, FS_RemoveElement, Zenon
  <2> QED
    BY <1>2, <1>5, <2>2 DEF PInv
<1> QED
  BY <1>3, <1>4, <1>5, Zenon DEF Permit

\* Guest calls never exceed the permits of GUEST_SLOTS, and every permit that is
\* not held by a conversation is free: for execs of both modes and for set_ip,
\* however they end (the error paths of the agent's guest client and of its
\* exec handlers drop the permit).
THEOREM PermitsStayCovered == Spec => []PermitsCover
<1>1. Init => EInv /\ PInv
  BY EInvInit, PInvInit, Zenon
<1>2. EInv /\ PInv /\ [Next]_vars => (EInv /\ PInv)'
  <2> SUFFICES ASSUME EInv, PInv, [Next]_vars
               PROVE  EInv' /\ PInv'
    BY Zenon
  <2>1. Moves
    BY NextMoves, Zenon
  <2>2. EInv'
    BY <2>1, MovesKeep
  <2>3. CASE UNCHANGED <<slots, host, net, guest, cmd>>
    BY <2>2, <2>3, Zenon DEF PInv, Holders, HasSlot
  <2>4. ASSUME NEW c \in Execs, Does(c), Permit(c)
        PROVE  PInv'
    BY <2>4, PInvStep, Zenon DEF Does, Alone, Calls
  <2>5. ASSUME NEW c \in Readdress, Aside(c), Permit(c)
        PROVE  PInv'
    BY <2>5, PInvStep DEF Aside, Calls
  <2> QED
    BY <2>1, <2>2, <2>3, <2>4, <2>5 DEF Moves
<1>3. PInv => PermitsCover
  BY Zenon DEF PInv, PermitsCover, Holders
<1> QED
  BY <1>1, <1>2, <1>3, PTL DEF Spec

\* A streamed command that wrote whole characters is never given a replacement
\* character by emit_utf8: only a stream that was cut at its cap or that ended
\* in the middle of a character has one.
THEOREM CharactersStayWhole == Spec => []CharactersWhole
<1>1. Init => EInv
  BY EInvInit, Zenon
<1>2. EInv /\ [Next]_vars => EInv'
  BY NextMoves, MovesKeep, Zenon
<1>3. EInv => CharactersWhole
  BY Zenon DEF EInv, ExecOK, LossyOK, CharactersWhole
<1> QED
  BY <1>1, <1>2, <1>3, PTL DEF Spec

----------------------------------------------------------------------------
(* The contract. *)

\* A step of one exec is a step of the contract or none.
LEMMA DoesImplement ==
    ASSUME EInv, NEW c \in Execs, Does(c)
    PROVE  \/ Contract!Next
           \/ UNCHANGED <<[d \in Execs |-> cmd[d].written], [d \in Execs |-> host[d].got],
                          [d \in Execs |-> host[d].answer]>>
<1> DEFINE P == [d \in Execs |-> cmd[d].written]
           D == [d \in Execs |-> host[d].got]
           A == [d \in Execs |-> host[d].answer]
           Q == [d \in Execs |-> cmd'[d].written]
           G == [d \in Execs |-> host'[d].got]
           B == [d \in Execs |-> host'[d].answer]
<1>1. \A d \in Execs : d # c => cmd'[d] = cmd[d] /\ host'[d] = host[d]
  BY Zenon DEF Does, Alone, Calls
<1>2. Q = [P EXCEPT ![c] = cmd'[c].written]
  BY <1>1, Zenon
<1>3. G = [D EXCEPT ![c] = host'[c].got]
  BY <1>1, Zenon
<1>4. B = [A EXCEPT ![c] = host'[c].answer]
  BY <1>1, Zenon
<1>5. P[c] = cmd[c].written /\ D[c] = host[c].got /\ A[c] = host[c].answer
  OBVIOUS
<1>6. P = [P EXCEPT ![c] = cmd[c].written] /\ D = [D EXCEPT ![c] = host[c].got]
      /\ A = [A EXCEPT ![c] = host[c].answer]
  BY Zenon
<1>7. \A s \in Streams : Contract!Kept(c, s) = Least(Cap, cmd[c].written[s])
  <2> TAKE s \in Streams
  <2>1. cmd[c].written[s] \in Nat /\ Cap \in Nat
    BY ExecFacts, GuestAssumption DEF CmdRec
  <2>2. Contract!Min({Cap, P[c][s]}) = Min({Cap, P[c][s]})
    BY Zenon DEF Contract!Min, Min
  <2>3. Contract!Kept(c, s) = Contract!Min({Cap, P[c][s]})
    BY Zenon DEF Contract!Kept
  <2> QED
    BY <2>1, <2>2, <2>3, <1>5, MinLeast, Zenon
<1>8. Told(host[c], cmd[c], host'[c], cmd'[c])
  BY Zenon DEF Does
<1> SUFFICES \/ Contract!Next
             \/ Q = P /\ G = D /\ B = A
  OBVIOUS
<1> HIDE DEF P, D, A, Q, G, B
<1> DEFINE h == host[c]
           m == cmd[c]
           k == host'[c]
           w == cmd'[c]
<1>9. CASE w.written = m.written /\ k.got = h.got /\ k.answer = h.answer
  BY <1>2, <1>3, <1>4, <1>6, <1>9, Zenon
<1>10. CASE /\ h.answer \notin {"exit", "killed"} /\ k.got = h.got /\ k.answer = h.answer
            /\ \E s \in Streams : w.written = [m.written EXCEPT ![s] = @ + 1]
  <2>1. PICK s \in Streams : w.written = [m.written EXCEPT ![s] = @ + 1]
    BY <1>10, Zenon
  <2>2. Q = [P EXCEPT ![c][s] = @ + 1]
    BY <1>2, <1>5, <2>1, Zenon
  <2>3. A[c] \notin {"exit", "killed"} /\ G = D /\ B = A
    BY <1>3, <1>4, <1>5, <1>6, <1>10
  <2>4. Contract!Produce(c, s)
    BY <2>2, <2>3 DEF Contract!Produce, P, Q, D, G, A, B
  <2> QED
    BY <2>4, Zenon DEF Contract!Next
<1>11. CASE /\ h.answer = None /\ k.answer = None /\ w.written = m.written
            /\ \E s \in Streams : \E v \in h.got[s] .. Least(Cap, m.written[s]) :
                  k.got = [h.got EXCEPT ![s] = v]
  <2>0. PICK s \in Streams : \E v \in h.got[s] .. Least(Cap, m.written[s]) :
           k.got = [h.got EXCEPT ![s] = v]
    BY <1>11
  <2>1. PICK v \in h.got[s] .. Least(Cap, m.written[s]) : k.got = [h.got EXCEPT ![s] = v]
    BY <2>0, Zenon
  <2>2. v \in D[c][s] .. Contract!Kept(c, s)
    BY <1>5, <1>7, <2>1
  <2>3. G = [D EXCEPT ![c][s] = v]
    BY <1>3, <1>5, <2>1, Zenon
  <2>4. A[c] = None /\ Q = P /\ B = A
    BY <1>2, <1>4, <1>5, <1>6, <1>11
  <2>5. Contract!Deliver(c, s)
    BY <2>2, <2>3, <2>4, Zenon DEF Contract!Deliver, P, Q, D, G, A, B
  <2> QED
    BY <2>5, Zenon DEF Contract!Next
<1>12. CASE /\ h.answer = None /\ k.answer = "exit" /\ w.written = m.written
            /\ k.got = [s \in Streams |-> Least(Cap, m.written[s])]
  <2>1. k.got = [s \in Streams |-> Contract!Kept(c, s)]
    BY <1>7, <1>12
  <2>2. G = [D EXCEPT ![c] = [s \in Streams |-> Contract!Kept(c, s)]]
    BY <1>3, <2>1, Zenon
  <2>3. A[c] = None /\ B = [A EXCEPT ![c] = "exit"] /\ Q = P
    BY <1>2, <1>4, <1>5, <1>6, <1>12
  <2>4. Contract!Complete(c)
    BY <2>2, <2>3 DEF Contract!Complete, P, Q, D, G, A, B
  <2> QED
    BY <2>4, Zenon DEF Contract!Next
<1>13. CASE /\ h.answer = None /\ k.answer = "killed" /\ w.written = m.written
            /\ k.got \in [Streams -> 0 .. Cap]
            /\ \A s \in Streams : h.got[s] <= k.got[s] /\ k.got[s] <= Least(Cap, m.written[s])
  <2> DEFINE e == k.got
  <2>1. /\ e \in [Streams -> 0 .. Cap] /\ G = [D EXCEPT ![c] = e]
        /\ \A s \in Streams : D[c][s] <= e[s] /\ e[s] <= Contract!Kept(c, s)
    BY <1>3, <1>5, <1>7, <1>13, Zenon
  <2>2. A[c] = None /\ B = [A EXCEPT ![c] = "killed"] /\ Q = P
    BY <1>2, <1>4, <1>5, <1>6, <1>13, Zenon
  <2> HIDE DEF e
  <2>3. Contract!Expire(c)
    BY <2>1, <2>2, Zenon DEF Contract!Expire, P, Q, D, G, A, B
  <2> QED
    BY <2>3, Zenon DEF Contract!Next
<1>14. CASE /\ h.answer = None /\ k.answer = "failed" /\ w.written = m.written
            /\ k.got = h.got
  <2>1. A[c] = None /\ B = [A EXCEPT ![c] = "failed"] /\ Q = P /\ G = D
    BY <1>2, <1>3, <1>4, <1>5, <1>6, <1>14
  <2>2. Contract!Fail(c)
    BY <2>1 DEF Contract!Fail, P, Q, D, G, A, B
  <2> QED
    BY <2>2, Zenon DEF Contract!Next
<1> QED
  BY <1>8, <1>9, <1>10, <1>11, <1>12, <1>13, <1>14, Zenon DEF Told

\* For its caller an exec of run_exec or run_exec_streamed is the one of the
\* contract, whatever the threads of the guest, the connection, the agent's
\* deadlines and the VM do in between: the output is a prefix of what the
\* command wrote, complete when the answer is the command's own exit code.
THEOREM ExecImplementsContract == Spec => KeepsContract
<1>1. Init => EInv
  BY EInvInit, Zenon
<1>2. EInv /\ [Next]_vars => EInv'
  BY NextMoves, MovesKeep, Zenon
<1>3. Init => Contract!Init
  <2> SUFFICES ASSUME Init PROVE Contract!Init
    BY Zenon
  <2>1. \A c \in Execs : /\ cmd[c].written = [s \in Streams |-> 0]
                         /\ host[c].got = [s \in Streams |-> 0] /\ host[c].answer = None
    BY Zenon DEF Init, NewHost, NewCmd, Zero, Calls
  <2> QED
    BY <2>1, Zenon DEF Contract!Init
<1>4. EInv /\ [Next]_vars =>
         [Contract!Next]_<<[c \in Execs |-> cmd[c].written], [c \in Execs |-> host[c].got],
                           [c \in Execs |-> host[c].answer]>>
  <2> SUFFICES ASSUME EInv, [Next]_vars
               PROVE  \/ Contract!Next
                      \/ UNCHANGED <<[c \in Execs |-> cmd[c].written],
                                     [c \in Execs |-> host[c].got],
                                     [c \in Execs |-> host[c].answer]>>
    OBVIOUS
  <2>1. Moves
    BY NextMoves, Zenon
  <2>2. CASE UNCHANGED <<slots, host, net, guest, cmd>>
    BY <2>2, Zenon
  <2>3. ASSUME NEW c \in Execs, Does(c)
        PROVE  \/ Contract!Next
               \/ UNCHANGED <<[d \in Execs |-> cmd[d].written], [d \in Execs |-> host[d].got],
                              [d \in Execs |-> host[d].answer]>>
    BY <2>3, DoesImplement
  <2>4. ASSUME NEW c \in Readdress, Aside(c)
        PROVE  UNCHANGED <<[d \in Execs |-> cmd[d].written], [d \in Execs |-> host[d].got],
                           [d \in Execs |-> host[d].answer]>>
    <3>1. \A d \in Execs : d \in Calls /\ d # c
      BY GuestAssumption, Zenon DEF Calls
    <3>2. cmd' = cmd /\ \A d \in Execs : host'[d] = host[d]
      BY <2>4, <3>1, Zenon DEF Aside, inside
    <3> QED
      BY <3>2, Zenon
  <2> QED
    BY <2>1, <2>2, <2>3, <2>4, Zenon DEF Moves
<1> QED
  BY <1>1, <1>2, <1>3, <1>4, PTL DEF Spec, KeepsContract, Contract!Spec
=============================================================================
