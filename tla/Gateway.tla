------------------------------ MODULE Gateway ------------------------------
(***************************************************************************)
(* felucca-gw (go/internal/gateway/gateway.go) over the exposes of feluccad: *)
(* its copy of the route table, requests that are proxied by it, dynamic    *)
(* routes, wakes that concurrent requests share, and the reports of         *)
(* activity.                                                                *)
(*                                                                         *)
(* Every fetch of the table is a call followed by a swap of the map under   *)
(* mu; the loop, the polls of a wake and dynamic routes fetch at once.      *)
(* Rate limits and what is proxied are left out.                            *)
(***************************************************************************)
EXTENDS Expose

CONSTANTS
    Hosts,     \* labels <<name, sandbox>> that are asked for
    MaxPolls   \* polls of doWake

ASSUME GatewayAssumption ==
    /\ Hosts \subseteq Labels \X Sandboxes /\ MaxPolls \in Nat \ {0}
    /\ None \notin Clients \cup Gws

VARIABLES
    table,   \* Gateway.routes
    active,  \* Gateway.active
    waking,  \* Gateway.waking: the shared wake of a sandbox
    loop,    \* Run: where it is, the batch and the table it has in hand
    gw,      \* the requests
    owed     \* sandboxes that were served since feluccad last counted them

gvars == <<table, active, waking, loop, gw, owed>>
vars == <<evars, gvars>>

NoHit == [pc |-> "idle", host |-> None, route |-> None, snap |-> None, polls |-> 0]
NoWake == [by |-> None, done |-> FALSE, route |-> None]

\* listRoutes, as a map: of two rows of a label the last one is left.
Routes == [h \in Hosts |->
    LET same == Named(h[2], h[1]) IN
    IF same = {} THEN None
    ELSE [host |-> h, node |-> sb[h[2]].rows[Max(same)].node, state |-> sb[h[2]].state]]

GwInit ==
    /\ Init
    /\ table = [h \in Hosts |-> None]
    /\ active = {} /\ waking = [i \in Sandboxes |-> NoWake]
    /\ loop = [pc |-> "fetch", batch |-> {}, snap |-> None]
    /\ gw = [g \in Gws |-> NoHit]
    /\ owed = {}

GwAt(g, l) == gw[g].pc = l
GwGoto(g, l) == gw' = [gw EXCEPT ![g].pc = l]
End(g) == gw' = [gw EXCEPT ![g] = NoHit]

----------------------------------------------------------------------------
(* Run. *)

\* reportActivity takes the batch.
Flush ==
    /\ loop.pc = "tick"
    /\ loop' = [loop EXCEPT !.pc = IF active = {} THEN "fetch" ELSE "send", !.batch = active]
    /\ active' = {}
    /\ UNCHANGED <<evars, table, waking, gw, owed>>

\* Mutation of Report: a batch without an answer is dropped.
ReportDropped ==
    /\ loop.pc = "send"
    /\ loop' = [loop EXCEPT !.pc = "fetch", !.batch = {}]
    /\ \/ owed' = owed \ loop.batch /\ UNCHANGED faults
       \/ Fault("fail") /\ UNCHANGED owed
    /\ UNCHANGED <<sb, rules, mu, req, left, hurt, table, active, waking, gw>>

\* routesActivity, and the answer: without one the batch is queued again.
Report ==
    /\ loop.pc = "send"
    /\ loop' = [loop EXCEPT !.pc = "fetch", !.batch = {}]
    /\ \/ owed' = owed \ loop.batch /\ UNCHANGED <<active, faults>>
       \/ Fault("fail") /\ active' = active \cup loop.batch /\ UNCHANGED owed
       \/ Fault("lost") /\ active' = active \cup loop.batch /\ owed' = owed \ loop.batch
    /\ UNCHANGED <<sb, rules, mu, req, left, hurt, table, waking, gw>>

\* Mutation of Refresh: the loop ends when a fetch fails.
RefreshEnds ==
    /\ loop.pc = "fetch"
    /\ \/ loop' = [loop EXCEPT !.pc = "swap", !.snap = Routes] /\ UNCHANGED faults
       \/ Fault("fail") /\ loop' = [loop EXCEPT !.pc = "ended"]
    /\ UNCHANGED <<sb, rules, mu, req, left, hurt, table, active, waking, gw, owed>>

\* refresh: on an error the old table stays.
Refresh ==
    /\ loop.pc = "fetch"
    /\ \/ loop' = [loop EXCEPT !.pc = "swap", !.snap = Routes] /\ UNCHANGED faults
       \/ Fault("fail") /\ loop' = [loop EXCEPT !.pc = "tick"]
    /\ UNCHANGED <<sb, rules, mu, req, left, hurt, table, active, waking, gw, owed>>

Swap ==
    /\ loop.pc = "swap"
    /\ table' = loop.snap
    /\ loop' = [loop EXCEPT !.pc = "tick", !.snap = None]
    /\ UNCHANGED <<evars, active, waking, gw, owed>>

Run == Flush \/ Report \/ Refresh \/ Swap

----------------------------------------------------------------------------
(* ServeHTTP. *)

\* What the state of a route leads to.
Served(route) ==
    CASE route.state = "running" -> "proxy"
      [] route.state = "sleeping" -> "wake"
      [] OTHER -> "refuse"

\* A request looks for its label.  An unknown label that is a port asks
\* feluccad for a dynamic route.
Hit(g) ==
    /\ GwAt(g, "idle") /\ left > 0 /\ left' = left - 1
    /\ \E h \in Hosts :
          IF table[h] # None
          THEN /\ gw' = [gw EXCEPT ![g] = [NoHit EXCEPT !.pc = Served(table[h]), !.host = h,
                                                        !.route = table[h]]]
               /\ UNCHANGED req
          ELSE /\ h[1] \in Ports /\ req[g].pc = "idle"
               /\ gw' = [gw EXCEPT ![g] = [NoHit EXCEPT !.pc = "ensure", !.host = h]]
               /\ req' = [req EXCEPT ![g] = [Idle EXCEPT !.op = "expose", !.pc = "check",
                                               !.id = h[2], !.name = h[1], !.port = h[1]]]
    /\ UNCHANGED <<sb, rules, mu, faults, hurt, table, active, waking, loop, owed>>

\* The answer of ensureRoute, which the gateway may have stopped waiting for.
Ensured(g) ==
    \/ /\ At(g, "answered")
       /\ Goto(g, "idle")
       /\ IF ~GwAt(g, "ensure") THEN UNCHANGED gw
          ELSE IF req[g].ok THEN GwGoto(g, "fetch") ELSE End(g)
       /\ UNCHANGED faults
       /\ UNCHANGED <<sb, rules, mu, left, hurt, table, active, waking, loop, owed>>
    \/ /\ GwAt(g, "ensure") /\ Fault("lost") /\ End(g)
       /\ UNCHANGED <<sb, rules, mu, req, left, hurt, table, active, waking, loop, owed>>

\* The table for a dynamic route, or for a poll: one without an answer ends the
\* request, and is followed by the next poll.
Fetch(g) ==
    /\ GwAt(g, "fetch") \/ GwAt(g, "poll")
    /\ \/ /\ gw' = [gw EXCEPT ![g].snap = Routes, ![g].pc = IF @ = "fetch" THEN "swap" ELSE "polled"]
          /\ UNCHANGED faults
       \/ /\ Fault("fail")
          /\ IF GwAt(g, "fetch") THEN End(g)
             ELSE gw' = [gw EXCEPT ![g].polls = @ + 1,
                                   ![g].pc = IF gw[g].polls + 1 = MaxPolls THEN "close" ELSE "poll"]
    /\ UNCHANGED <<sb, rules, mu, req, left, hurt, table, active, waking, loop, owed>>

\* ensureDynamic: a route that is not in the table after all is not found.
Swapped(g) ==
    LET route == gw[g].snap[gw[g].host] IN
    /\ GwAt(g, "swap")
    /\ table' = gw[g].snap
    /\ IF route = None THEN End(g)
       ELSE gw' = [gw EXCEPT ![g].pc = Served(route), ![g].route = route, ![g].snap = None]
    /\ UNCHANGED <<evars, active, waking, loop, owed>>

\* markActive, before the request is proxied.
Proxy(g) ==
    LET i == gw[g].route.host[2] IN
    /\ GwAt(g, "proxy")
    /\ active' = active \cup {i} /\ owed' = owed \cup {i}
    /\ End(g)
    /\ UNCHANGED <<evars, table, waking, loop>>

Refuse(g) ==
    /\ GwAt(g, "refuse") /\ End(g)
    /\ UNCHANGED <<evars, table, active, waking, loop, owed>>

----------------------------------------------------------------------------
(* wakeAndWait. *)

\* How a request goes on with the result of a wake: as the route that the wake
\* found, or with the page for sleeping sandboxes.
Woken(hit, route) ==
    IF route = None THEN [hit EXCEPT !.pc = "refuse"]
    ELSE [hit EXCEPT !.pc = "proxy", !.route = route]

\* The first request for a sandbox leads, the others wait for its result.
Join(g) ==
    LET w == waking[gw[g].host[2]] IN
    /\ GwAt(g, "wake")
    /\ IF w.by = None
       THEN waking' = [waking EXCEPT ![gw[g].host[2]].by = g] /\ GwGoto(g, "call")
       ELSE /\ gw' = [gw EXCEPT ![g] = IF w.done THEN Woken(@, w.route) ELSE [@ EXCEPT !.pc = "wait"]]
            /\ UNCHANGED waking
    /\ UNCHANGED <<evars, table, active, loop, owed>>

\* doWake: the answer to the wake call is not looked at.
WakeCall(g) ==
    LET i == gw[g].host[2] IN
    /\ GwAt(g, "call")
    /\ \/ /\ sb' = IF Obeys(i, "sleeping") THEN [sb EXCEPT ![i].state = "running"] ELSE sb
          /\ UNCHANGED faults
       \/ Fault("fail") /\ UNCHANGED sb
    /\ GwGoto(g, "poll")
    /\ UNCHANGED <<rules, mu, req, left, hurt, table, active, waking, loop, owed>>

\* The table of a poll is swapped in, and shows the label as running or not.
Polled(g) ==
    LET route == gw[g].snap[gw[g].host]
        up == route # None /\ route.state = "running"
    IN  /\ GwAt(g, "polled")
        /\ table' = gw[g].snap
        /\ gw' = [gw EXCEPT ![g].snap = None, ![g].polls = @ + 1,
                            ![g].route = IF up THEN route ELSE @,
                            ![g].pc = IF up \/ gw[g].polls + 1 = MaxPolls THEN "close" ELSE "poll"]
        /\ UNCHANGED <<evars, active, waking, loop, owed>>

\* What doWake returns.
Found(g) == IF gw[g].route.state = "running" THEN gw[g].route ELSE None

Waiting(g) == {x \in Gws : GwAt(x, "wait") /\ gw[x].host[2] = gw[g].host[2]}

\* Mutation of Close: a wake that failed returns before it closes the channel.
CloseEarly(g) ==
    /\ GwAt(g, "close")
    /\ gw' = [x \in Gws |-> IF x = g THEN [gw[g] EXCEPT !.pc = "leave"]
                            ELSE IF x \in Waiting(g) /\ Found(g) # None THEN Woken(gw[x], Found(g))
                            ELSE gw[x]]
    /\ waking' = [waking EXCEPT ![gw[g].host[2]].done = TRUE, ![gw[g].host[2]].route = Found(g)]
    /\ UNCHANGED <<evars, table, active, loop, owed>>

\* close(call.done): whoever waits has the result, and so has who comes before
\* the call is taken out of the map.
Close(g) ==
    /\ GwAt(g, "close")
    /\ gw' = [x \in Gws |-> IF x = g THEN [gw[g] EXCEPT !.pc = "leave"]
                            ELSE IF x \in Waiting(g) THEN Woken(gw[x], Found(g))
                            ELSE gw[x]]
    /\ waking' = [waking EXCEPT ![gw[g].host[2]].done = TRUE, ![gw[g].host[2]].route = Found(g)]
    /\ UNCHANGED <<evars, table, active, loop, owed>>

Leave(g) ==
    /\ GwAt(g, "leave")
    /\ waking' = [waking EXCEPT ![gw[g].host[2]] = NoWake]
    /\ gw' = [gw EXCEPT ![g] = Woken(@, Found(g))]
    /\ UNCHANGED <<evars, table, active, loop, owed>>

----------------------------------------------------------------------------
GwStep(g) ==
    \/ Ensured(g) \/ Fetch(g) \/ Swapped(g) \/ Proxy(g) \/ Refuse(g)
    \/ Join(g) \/ WakeCall(g) \/ Polled(g) \/ Close(g) \/ Leave(g)

Next ==
    \/ Run
    \/ \E r \in Clients : Arrive(r) /\ UNCHANGED gvars
    \/ \E r \in Clients \cup Gws : Step(r) /\ UNCHANGED gvars
    \/ \E g \in Gws : Hit(g) \/ GwStep(g)

Spec == GwInit /\ [][Next]_vars

\* The loop of the gateway goes on, and so does every request that was let in:
\* calls have time-outs and a Go mutex starves nobody.
FairSpec ==
    /\ Spec /\ WF_vars(Run)
    /\ \A r \in Clients \cup Gws : WF_vars(Step(r) /\ UNCHANGED gvars)
    /\ \A g \in Gws : WF_vars(GwStep(g))

----------------------------------------------------------------------------
\* Once feluccad is left alone the gateway has its table, although fetches of
\* the loop, of polls and of dynamic routes are swapped in in any order.
TableSettles == <>[](table = Routes)

\* Traffic counts: a sandbox that served a request is in the next report, in
\* the one under way, or feluccad has counted it ("a feluccad blip must not
\* make an active sandbox look idle", reportActivity).
ActivityKept == owed \subseteq active \cup loop.batch

\* Every request at the gateway is answered, those that share the wake of
\* another one too, whether the wake succeeds, fails or the sandbox goes.
RequestsEnd == \A g \in Gws : gw[g].pc # "idle" ~> gw[g].pc = "idle"

\* "It maps Host headers of the form <name>--<sandbox-id>.<domain> to worker
\* node ports" (gateway.go): a request is proxied to a port of its own label.
RoutedByLabel == \A g \in Gws : GwAt(g, "proxy") => gw[g].route.host = gw[g].host
=============================================================================
