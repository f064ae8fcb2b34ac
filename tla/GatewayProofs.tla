--------------------------- MODULE GatewayProofs ---------------------------
(***************************************************************************)
(* A wake of a sandbox has one leader, the exposes of feluccad have one    *)
(* writer at a time and no traffic is lost on its way to the idle clock:   *)
(* for any number of sandboxes, labels, requests and faults.               *)
(***************************************************************************)
EXTENDS Gateway, TLAPS

HitFields == {"pc", "host", "route", "snap", "polls"}

\* Where a request leads a wake whose result is still to come.
Leading == {"call", "poll", "polled", "close"}

\* A request that waits for a wake waits for one that another request leads,
\* for the same sandbox, and whose channel is still to be closed.
WaitersLed ==
    \A g \in Gws : GwAt(g, "wait") =>
        \E l \in Gws \ {g} : gw[l].pc \in Leading /\ gw[l].host[2] = gw[g].host[2]

Wakes(g) == gw[g].pc \in Leading \cup {"leave"}

\* Every hit and every wake has its fields, and a hit has its label.
HitsOK ==
    /\ DOMAIN gw = Gws /\ \A g \in Gws : DOMAIN gw[g] = HitFields
    /\ DOMAIN waking = Sandboxes /\ \A i \in Sandboxes : DOMAIN waking[i] = {"by", "done", "route"}
    /\ \A g \in Gws : gw[g].pc # "idle" => gw[g].host[2] \in Sandboxes

\* The map has the wakes that are led, each under its sandbox, until its leader
\* takes it out; the result is there once the leader has closed it.
WakesOK ==
    /\ \A g \in Gws : Wakes(g) => waking[gw[g].host[2]].by = g
    /\ \A g \in Gws : gw[g].pc \in Leading => ~waking[gw[g].host[2]].done
    /\ \A i \in Sandboxes : waking[i].by # None =>
          /\ waking[i].by \in Gws /\ Wakes(waking[i].by)
          /\ gw[waking[i].by].host[2] = i
          /\ gw[waking[i].by].pc = "leave" => waking[i].done
    /\ \A i \in Sandboxes : waking[i].by = None => ~waking[i].done
    /\ \A g \in Gws : GwAt(g, "wait") =>
          waking[gw[g].host[2]].by # None /\ ~waking[gw[g].host[2]].done

WInv == HitsOK /\ WakesOK

\* Whoever waits has a leader.
LEMMA LedByAnother == WInv => WaitersLed
<1> SUFFICES ASSUME WInv, NEW g \in Gws, GwAt(g, "wait")
             PROVE  \E l \in Gws \ {g} : gw[l].pc \in Leading /\ gw[l].host[2] = gw[g].host[2]
  BY Zenon DEF WaitersLed
<1> DEFINE i == gw[g].host[2]
           l == waking[i].by
<1>1. i \in Sandboxes
  BY Zenon DEF WInv, HitsOK, GwAt
<1>2. l # None /\ ~waking[i].done
  BY Zenon DEF WInv, WakesOK
<1>3. l \in Gws /\ Wakes(l) /\ gw[l].host[2] = i /\ gw[l].pc # "leave"
  BY <1>1, <1>2, Zenon DEF WInv, WakesOK
<1>4. gw[l].pc \in Leading
  BY <1>3, Zenon DEF Wakes
<1>5. l # g
  BY <1>4, Zenon DEF Leading, GwAt
<1> QED
  BY <1>3, <1>4, <1>5, Zenon

\* A hit that leads before and after a step, or neither before nor after it and
\* does not begin to wait, leaves the wakes as they are.
LEMMA HitMoves ==
    ASSUME WInv, NEW g \in Gws, waking' = waking,
           DOMAIN gw' = Gws, DOMAIN gw'[g] = HitFields,
           \A x \in Gws \ {g} : gw'[x] = gw[x],
           gw'[g].pc # "idle" => gw'[g].host[2] \in Sandboxes,
           \/ gw[g].pc \in Leading /\ gw'[g].pc \in Leading /\ gw'[g].host = gw[g].host
           \/ ~Wakes(g) /\ gw'[g].pc \notin Leading \cup {"leave", "wait"}
    PROVE  WInv'
<1>1. HitsOK'
  BY Zenon DEF WInv, HitsOK
<1>2. \A x \in Gws \ {g} : Wakes(x)' <=> Wakes(x)
  BY Zenon DEF Wakes
<1>3. \A x \in Gws : Wakes(x)' => waking'[gw'[x].host[2]].by = x
  BY <1>2 DEF WInv, WakesOK, Wakes
<1>4. \A x \in Gws : gw'[x].pc \in Leading => ~waking'[gw'[x].host[2]].done
  BY DEF WInv, WakesOK, Wakes
<1>5. ASSUME NEW i \in Sandboxes, waking[i].by # None
      PROVE  /\ waking[i].by \in Gws /\ Wakes(waking[i].by)'
             /\ gw'[waking[i].by].host[2] = i
             /\ gw'[waking[i].by].pc = "leave" => waking[i].done
  <2>1. /\ waking[i].by \in Gws /\ Wakes(waking[i].by)
        /\ gw[waking[i].by].host[2] = i
        /\ gw[waking[i].by].pc = "leave" => waking[i].done
    BY <1>5, Zenon DEF WInv, WakesOK
  <2>2. CASE waking[i].by = g
    BY <2>1, <2>2, Zenon DEF Wakes, Leading
  <2>3. CASE waking[i].by # g
    BY <2>1, <2>3, <1>2, Zenon
  <2> QED
    BY <2>2, <2>3, Zenon
<1>6. \A x \in Gws : GwAt(x, "wait")' =>
         waking'[gw'[x].host[2]].by # None /\ ~waking'[gw'[x].host[2]].done
  BY DEF WInv, WakesOK, GwAt, Leading
<1>7. \A i \in Sandboxes : waking'[i].by = None => ~waking'[i].done
  BY Zenon DEF WInv, WakesOK
<1> QED
  BY <1>1, <1>3, <1>4, <1>5, <1>6, <1>7, Zenon DEF WInv, WakesOK

\* The same, for a hit that is given new contents.
LEMMA HitPut ==
    ASSUME WInv, NEW g \in Gws, waking' = waking, NEW x, gw' = [gw EXCEPT ![g] = x],
           DOMAIN x = HitFields, x.pc # "idle" => x.host[2] \in Sandboxes,
           \/ gw[g].pc \in Leading /\ x.pc \in Leading /\ x.host = gw[g].host
           \/ ~Wakes(g) /\ x.pc \notin Leading \cup {"leave", "wait"}
    PROVE  WInv'
<1>1. DOMAIN gw' = Gws /\ gw'[g] = x /\ \A y \in Gws \ {g} : gw'[y] = gw[y]
  BY Zenon DEF WInv, HitsOK
<1> QED
  BY <1>1, HitMoves, Zenon

\* And for one that ends.
LEMMA HitEnds ==
    ASSUME WInv, NEW g \in Gws, waking' = waking, End(g), ~Wakes(g)
    PROVE  WInv'
<1>1. DOMAIN NoHit = HitFields /\ NoHit.pc = "idle"
  BY Zenon DEF NoHit, HitFields
<1>2. gw' = [gw EXCEPT ![g] = NoHit]
  BY Zenon DEF End
<1> QED
  BY <1>1, <1>2, HitPut, Zenon DEF Leading

\* A request comes in.
LEMMA HitLed == ASSUME WInv, NEW g \in Gws, Hit(g) PROVE WInv'
<1>1. gw[g].pc = "idle" /\ waking' = waking
  BY Zenon DEF Hit, GwAt
<1>2. ~Wakes(g)
  BY <1>1, Zenon DEF Wakes, Leading
<1>3. ASSUME NEW h \in Hosts, NEW x, gw' = [gw EXCEPT ![g] = x], DOMAIN x = HitFields,
             x.host = h, x.pc \in {"proxy", "wake", "refuse", "ensure"}
      PROVE  WInv'
  <2>1. h[2] \in Sandboxes
    BY GatewayAssumption, Zenon
  <2> QED
    BY <1>1, <1>2, <1>3, <2>1, HitPut, Zenon DEF Leading
<1>4. ASSUME NEW h \in Hosts,
             gw' = [gw EXCEPT ![g] = [NoHit EXCEPT !.pc = Served(table[h]), !.host = h,
                                                   !.route = table[h]]]
      PROVE  WInv'
  <2> DEFINE x == [NoHit EXCEPT !.pc = Served(table[h]), !.host = h, !.route = table[h]]
  <2>1. Served(table[h]) \in {"proxy", "wake", "refuse"}
    BY Zenon DEF Served
  <2>2. DOMAIN x = HitFields /\ x.pc = Served(table[h]) /\ x.host = h
    BY Zenon DEF NoHit, HitFields
  <2>3. gw' = [gw EXCEPT ![g] = x]
    BY <1>4, Zenon
  <2> HIDE DEF x
  <2> QED
    BY <1>3, <2>1, <2>2, <2>3, Zenon
<1>5. ASSUME NEW h \in Hosts, gw' = [gw EXCEPT ![g] = [NoHit EXCEPT !.pc = "ensure", !.host = h]]
      PROVE  WInv'
  <2> DEFINE x == [NoHit EXCEPT !.pc = "ensure", !.host = h]
  <2>1. DOMAIN x = HitFields /\ x.pc = "ensure" /\ x.host = h
    BY Zenon DEF NoHit, HitFields
  <2>2. gw' = [gw EXCEPT ![g] = x]
    BY <1>5, Zenon
  <2> HIDE DEF x
  <2> QED
    BY <1>3, <2>1, <2>2, Zenon
<1> QED
  BY <1>4, <1>5, Zenon DEF Hit

\* The steps of a request before it wakes, of the wake call and of its polls.
LEMMA StepLed ==
    ASSUME WInv, NEW g \in Gws,
           Ensured(g) \/ Fetch(g) \/ Swapped(g) \/ Proxy(g) \/ Refuse(g) \/ WakeCall(g) \/ Polled(g)
    PROVE  WInv'
<1>0. /\ waking' = waking /\ DOMAIN gw = Gws /\ DOMAIN gw[g] = HitFields
      /\ gw[g].pc # "idle" => gw[g].host[2] \in Sandboxes
  BY Zenon DEF WInv, HitsOK, Ensured, Fetch, Swapped, Proxy, Refuse, WakeCall, Polled
<1>1. ASSUME NEW l, gw' = [gw EXCEPT ![g].pc = l], gw[g].pc # "idle",
             \/ gw[g].pc \in Leading /\ l \in Leading
             \/ ~Wakes(g) /\ l \notin Leading \cup {"leave", "wait"}
      PROVE  WInv'
  <2> DEFINE x == [gw[g] EXCEPT !.pc = l]
  <2>1. DOMAIN x = HitFields /\ x.pc = l /\ x.host = gw[g].host
    BY <1>0, Zenon DEF HitFields
  <2>2. gw' = [gw EXCEPT ![g] = x]
    BY <1>1, Zenon
  <2> HIDE DEF x
  <2> QED
    BY <1>0, <1>1, <2>1, <2>2, HitPut, Zenon
<1>2. CASE gw' = gw
  <2>1. WInv <=> WInv'
    BY <1>0, <1>2, Zenon DEF WInv, HitsOK, WakesOK, Wakes, GwAt
  <2> QED
    BY <2>1, Zenon
<1>3. CASE Ensured(g)
  <2>1. CASE GwAt(g, "ensure")
    <3>1. ~Wakes(g)
      BY <2>1, Zenon DEF GwAt, Wakes, Leading
    <3>2. End(g) \/ gw' = [gw EXCEPT ![g].pc = "fetch"]
      BY <1>3, <2>1, Zenon DEF Ensured, GwGoto
    <3> QED
      BY <1>0, <1>1, <2>1, <3>1, <3>2, HitEnds, Zenon DEF GwAt, Leading
  <2>2. CASE ~GwAt(g, "ensure")
    <3>1. gw' = gw
      BY <1>3, <2>2, Zenon DEF Ensured
    <3> QED
      BY <1>2, <3>1, Zenon
  <2> QED
    BY <2>1, <2>2, Zenon
<1>4. CASE Fetch(g)
  <2>1. CASE GwAt(g, "fetch")
    <3>1. ~Wakes(g) /\ gw[g].pc = "fetch"
      BY <2>1, Zenon DEF GwAt, Wakes, Leading
    <3>2. End(g) \/ gw' = [gw EXCEPT ![g].snap = Routes, ![g].pc = IF @ = "fetch" THEN "swap" ELSE "polled"]
      BY <1>4, <2>1, Zenon DEF Fetch
    <3>3. CASE gw' = [gw EXCEPT ![g].snap = Routes, ![g].pc = IF @ = "fetch" THEN "swap" ELSE "polled"]
      <4> DEFINE x == [gw[g] EXCEPT !.snap = Routes, !.pc = "swap"]
      <4>1. gw' = [gw EXCEPT ![g] = x]
        BY <1>0, <3>1, <3>3, Zenon DEF HitFields
      <4>2. DOMAIN x = HitFields /\ x.pc = "swap" /\ x.host = gw[g].host
        BY <1>0, Zenon DEF HitFields
      <4> HIDE DEF x
      <4> QED
        BY <1>0, <3>1, <4>1, <4>2, HitPut, Zenon DEF Leading
    <3> QED
      BY <1>0, <3>1, <3>2, <3>3, HitEnds, Zenon
  <2>2. CASE GwAt(g, "poll")
    <3>1. gw[g].pc = "poll" /\ gw[g].pc \in Leading
      BY <2>2, Zenon DEF GwAt, Leading
    <3> DEFINE l == IF gw[g].polls + 1 = MaxPolls THEN "close" ELSE "poll"
    <3>2. CASE gw' = [gw EXCEPT ![g].snap = Routes, ![g].pc = IF @ = "fetch" THEN "swap" ELSE "polled"]
      <4> DEFINE x == [gw[g] EXCEPT !.snap = Routes, !.pc = "polled"]
      <4>1. gw' = [gw EXCEPT ![g] = x]
        BY <1>0, <3>1, <3>2, Zenon DEF HitFields
      <4>2. DOMAIN x = HitFields /\ x.pc = "polled" /\ x.host = gw[g].host
        BY <1>0, Zenon DEF HitFields
      <4> HIDE DEF x
      <4> QED
        BY <1>0, <3>1, <4>1, <4>2, HitPut, Zenon DEF Leading
    <3>3. CASE gw' = [gw EXCEPT ![g].polls = @ + 1, ![g].pc = l]
      <4> DEFINE x == [gw[g] EXCEPT !.polls = @ + 1, !.pc = l]
      <4>1. gw' = [gw EXCEPT ![g] = x]
        BY <3>3, Zenon
      <4>2. l \in Leading
        BY Zenon DEF Leading
      <4> HIDE DEF l
      <4>3. DOMAIN x = HitFields /\ x.pc = l /\ x.host = gw[g].host
        BY <1>0, Zenon DEF HitFields
      <4> HIDE DEF x
      <4> QED
        BY <1>0, <3>1, <4>1, <4>2, <4>3, HitPut, Zenon DEF Leading
    <3>4. ~GwAt(g, "fetch")
      BY <2>2, Zenon DEF GwAt
    <3> QED
      BY <1>4, <3>2, <3>3, <3>4, Zenon DEF Fetch
  <2> QED
    BY <1>4, <2>1, <2>2, Zenon DEF Fetch
<1>5. CASE Swapped(g)
  <2> DEFINE r == gw[g].snap[gw[g].host]
             x == [gw[g] EXCEPT !.pc = Served(r), !.route = r, !.snap = None]
  <2>1. gw[g].pc = "swap" /\ ~Wakes(g)
    BY <1>5, Zenon DEF Swapped, GwAt, Wakes, Leading
  <2>2. End(g) \/ gw' = [gw EXCEPT ![g] = x]
    BY <1>5, Zenon DEF Swapped
  <2>3. Served(r) \in {"proxy", "wake", "refuse"}
    BY Zenon DEF Served
  <2>4. DOMAIN x = HitFields /\ x.pc = Served(r) /\ x.host = gw[g].host
    BY <1>0, Zenon DEF HitFields
  <2> HIDE DEF x
  <2>5. CASE gw' = [gw EXCEPT ![g] = x]
    BY <1>0, <2>1, <2>3, <2>4, <2>5, HitPut, Zenon DEF Leading
  <2> QED
    BY <1>0, <2>1, <2>2, <2>5, HitEnds, Zenon
<1>6. CASE Proxy(g) \/ Refuse(g)
  <2>1. ~Wakes(g) /\ End(g)
    BY <1>6, Zenon DEF Proxy, Refuse, GwAt, Wakes, Leading
  <2> QED
    BY <1>0, <2>1, HitEnds, Zenon
<1>7. CASE WakeCall(g)
  <2>1. gw[g].pc = "call" /\ gw' = [gw EXCEPT ![g].pc = "poll"]
    BY <1>7, Zenon DEF WakeCall, GwAt, GwGoto
  <2> QED
    BY <1>1, <2>1, Zenon DEF Leading
<1>8. CASE Polled(g)
  <2> DEFINE r == gw[g].snap[gw[g].host]
             up == r # None /\ r.state = "running"
             l == IF up \/ gw[g].polls + 1 = MaxPolls THEN "close" ELSE "poll"
             x == [gw[g] EXCEPT !.snap = None, !.polls = @ + 1, !.route = IF up THEN r ELSE @,
                                !.pc = l]
  <2>1. gw[g].pc \in Leading /\ gw[g].pc # "idle"
    BY <1>8, Zenon DEF Polled, GwAt, Leading
  <2>2. gw' = [gw EXCEPT ![g] = x]
    BY <1>8, Zenon DEF Polled
  <2>3. l \in Leading
    BY Zenon DEF Leading
  <2> HIDE DEF l
  <2>4. DOMAIN x = HitFields /\ x.pc = l /\ x.host = gw[g].host
    BY <1>0, Zenon DEF HitFields
  <2> HIDE DEF x
  <2> QED
    BY <1>0, <2>1, <2>2, <2>3, <2>4, HitPut, Zenon
<1> QED
  BY <1>3, <1>4, <1>5, <1>6, <1>7, <1>8, Zenon

\* What the result of a wake makes of a request.
LEMMA WokenPut ==
    ASSUME NEW hit, NEW route, DOMAIN hit = HitFields
    PROVE  /\ DOMAIN Woken(hit, route) = HitFields /\ Woken(hit, route).host = hit.host
           /\ Woken(hit, route).pc \in {"refuse", "proxy"}
BY Zenon DEF Woken, HitFields

\* The first request for a sandbox leads, a later one waits or has the result.
LEMMA JoinLed == ASSUME WInv, NEW g \in Gws, Join(g) PROVE WInv'
<1> DEFINE i == gw[g].host[2]
<1>1. /\ gw[g].pc = "wake" /\ DOMAIN gw = Gws /\ DOMAIN gw[g] = HitFields
      /\ DOMAIN waking = Sandboxes /\ i \in Sandboxes /\ DOMAIN waking[i] = {"by", "done", "route"}
  BY Zenon DEF Join, GwAt, WInv, HitsOK
<1>2. ~Wakes(g)
  BY <1>1, Zenon DEF Wakes, Leading
<1>3. CASE waking[i].by = None
  <2>1. gw' = [gw EXCEPT ![g].pc = "call"] /\ waking' = [waking EXCEPT ![i].by = g]
    BY <1>3, Zenon DEF Join, GwGoto
  <2>2. /\ DOMAIN gw' = Gws /\ DOMAIN gw'[g] = HitFields /\ gw'[g].pc = "call"
        /\ gw'[g].host = gw[g].host /\ \A x \in Gws \ {g} : gw'[x] = gw[x]
    BY <1>1, <2>1, Zenon DEF HitFields
  <2>3. /\ DOMAIN waking' = Sandboxes /\ waking'[i].by = g /\ waking'[i].done = waking[i].done
        /\ DOMAIN waking'[i] = {"by", "done", "route"}
        /\ \A j \in Sandboxes \ {i} : waking'[j] = waking[j]
    BY <1>1, <2>1, Zenon
  <2> HIDE DEF i
  <2>4. ~waking[i].done
    BY <1>1, <1>3, Zenon DEF WInv, WakesOK
  <2>5. \A x \in Gws : Wakes(x) \/ GwAt(x, "wait") => gw[x].host[2] # i
    BY <1>3, GatewayAssumption DEF WInv, WakesOK
  <2>6. \A x \in Gws \ {g} : (Wakes(x)' <=> Wakes(x)) /\ (GwAt(x, "wait")' <=> GwAt(x, "wait"))
    BY <2>2, Zenon DEF Wakes, GwAt
  <2>7. gw'[g].host[2] = i /\ Wakes(g)' /\ ~GwAt(g, "wait")' /\ g # None
    BY <2>2, GatewayAssumption, Zenon DEF i, Wakes, GwAt, Leading
  <2>8. \A x \in Gws : Wakes(x) \/ GwAt(x, "wait") => gw[x].host[2] \in Sandboxes \ {i}
    BY <2>5, Zenon DEF WInv, HitsOK, Wakes, GwAt, Leading
  <2>9. HitsOK'
    BY <1>1, <2>2, <2>3, <2>7 DEF WInv, HitsOK
  <2>10. \A x \in Gws : Wakes(x)' => waking'[gw'[x].host[2]].by = x
    BY <2>2, <2>3, <2>6, <2>7, <2>8 DEF WInv, WakesOK
  <2>11. \A x \in Gws : gw'[x].pc \in Leading => ~waking'[gw'[x].host[2]].done
    BY <2>2, <2>3, <2>4, <2>7, <2>8 DEF WInv, WakesOK, Wakes
  <2>12. ASSUME NEW j \in Sandboxes, waking'[j].by # None
         PROVE  /\ waking'[j].by \in Gws /\ gw'[waking'[j].by].pc \in Leading \cup {"leave"}
                /\ gw'[waking'[j].by].host[2] = j
                /\ gw'[waking'[j].by].pc = "leave" => waking'[j].done
    <3>1. CASE j = i
      BY <2>2, <2>3, <2>7, <3>1, Zenon DEF Leading
    <3>2. CASE j # i
      <4>1. /\ waking[j].by \in Gws /\ Wakes(waking[j].by)
            /\ gw[waking[j].by].host[2] = j
            /\ gw[waking[j].by].pc = "leave" => waking[j].done
        BY <2>3, <2>12, <3>2, Zenon DEF WInv, WakesOK
      <4> QED
        BY <1>2, <2>2, <2>3, <3>2, <4>1 DEF Wakes
    <3> QED
      BY <3>1, <3>2, Zenon
  <2>13. \A j \in Sandboxes : waking'[j].by = None => ~waking'[j].done
    BY <2>3, <2>4, Zenon DEF WInv, WakesOK
  <2>14. \A x \in Gws : GwAt(x, "wait")' =>
            waking'[gw'[x].host[2]].by # None /\ ~waking'[gw'[x].host[2]].done
    BY <2>2, <2>3, <2>6, <2>7, <2>8 DEF WInv, WakesOK
  <2> QED
    BY <2>9, <2>10, <2>11, <2>12, <2>13, <2>14, Zenon DEF WInv, WakesOK, Wakes
<1>4. CASE waking[i].by # None /\ waking[i].done
  <2> DEFINE x == Woken(gw[g], waking[i].route)
  <2>1. gw' = [gw EXCEPT ![g] = x] /\ waking' = waking
    BY <1>4, Zenon DEF Join
  <2>2. DOMAIN x = HitFields /\ x.host = gw[g].host /\ x.pc \in {"refuse", "proxy"}
    BY <1>1, WokenPut, Zenon
  <2> HIDE DEF x
  <2> QED
    BY <1>1, <1>2, <2>1, <2>2, HitPut, Zenon DEF Leading
<1>5. CASE waking[i].by # None /\ ~waking[i].done
  <2>1. gw' = [gw EXCEPT ![g].pc = "wait"] /\ waking' = waking
    BY <1>5, Zenon DEF Join
  <2>2. /\ DOMAIN gw' = Gws /\ DOMAIN gw'[g] = HitFields /\ gw'[g].pc = "wait"
        /\ gw'[g].host = gw[g].host /\ \A x \in Gws \ {g} : gw'[x] = gw[x]
    BY <1>1, <2>1, Zenon DEF HitFields
  <2> HIDE DEF i
  <2>3. \A x \in Gws \ {g} : (Wakes(x)' <=> Wakes(x)) /\ (GwAt(x, "wait")' <=> GwAt(x, "wait"))
    BY <2>2, Zenon DEF Wakes, GwAt
  <2>4. gw'[g].host[2] = i /\ ~Wakes(g)' /\ gw'[g].pc \notin Leading
    BY <2>2, Zenon DEF i, Wakes, Leading
  <2>5. HitsOK'
    BY <1>1, <2>1, <2>2, <2>4, Zenon DEF WInv, HitsOK
  <2>6. \A x \in Gws : Wakes(x)' => waking'[gw'[x].host[2]].by = x
    BY <2>1, <2>2, <2>3, <2>4, Zenon DEF WInv, WakesOK
  <2>7. \A x \in Gws : gw'[x].pc \in Leading => ~waking'[gw'[x].host[2]].done
    BY <2>1, <2>2, <2>4, Zenon DEF WInv, WakesOK
  <2>8. ASSUME NEW j \in Sandboxes, waking'[j].by # None
        PROVE  /\ waking'[j].by \in Gws /\ gw'[waking'[j].by].pc \in Leading \cup {"leave"}
               /\ gw'[waking'[j].by].host[2] = j
               /\ gw'[waking'[j].by].pc = "leave" => waking'[j].done
    <3>1. /\ waking[j].by \in Gws /\ Wakes(waking[j].by)
          /\ gw[waking[j].by].host[2] = j
          /\ gw[waking[j].by].pc = "leave" => waking[j].done
      BY <2>1, <2>8, Zenon DEF WInv, WakesOK
    <3> QED
      BY <1>2, <2>1, <2>2, <3>1, Zenon DEF Wakes
  <2>9. \A x \in Gws : GwAt(x, "wait")' =>
           waking'[gw'[x].host[2]].by # None /\ ~waking'[gw'[x].host[2]].done
    BY <1>5, <2>1, <2>2, <2>3, <2>4, Zenon DEF WInv, WakesOK
  <2>10. \A j \in Sandboxes : waking'[j].by = None => ~waking'[j].done
    BY <2>1, Zenon DEF WInv, WakesOK
  <2> QED
    BY <2>5, <2>6, <2>7, <2>8, <2>9, <2>10, Zenon DEF WInv, WakesOK, Wakes
<1> QED
  BY <1>3, <1>4, <1>5, Zenon

\* The leader closes the channel: whoever waits for it has the result.
LEMMA CloseLed == ASSUME WInv, NEW g \in Gws, Close(g) PROVE WInv'
<1> DEFINE i == gw[g].host[2]
<1>1. /\ gw[g].pc = "close" /\ DOMAIN gw = Gws /\ DOMAIN gw[g] = HitFields
      /\ DOMAIN waking = Sandboxes /\ i \in Sandboxes /\ DOMAIN waking[i] = {"by", "done", "route"}
  BY Zenon DEF Close, GwAt, WInv, HitsOK
<1>2. Wakes(g) /\ waking[i].by = g
  BY <1>1, Zenon DEF Wakes, Leading, WInv, WakesOK
<1>3. waking' = [waking EXCEPT ![i].done = TRUE, ![i].route = Found(g)]
  BY Zenon DEF Close
<1>4. /\ DOMAIN waking' = Sandboxes /\ waking'[i].by = g /\ waking'[i].done
      /\ DOMAIN waking'[i] = {"by", "done", "route"}
      /\ \A j \in Sandboxes \ {i} : waking'[j] = waking[j]
  BY <1>1, <1>2, <1>3, Zenon
<1>5. gw' = [x \in Gws |-> IF x = g THEN [gw[g] EXCEPT !.pc = "leave"]
                           ELSE IF x \in Waiting(g) THEN Woken(gw[x], Found(g)) ELSE gw[x]]
  BY Zenon DEF Close
<1>6. /\ DOMAIN gw' = Gws /\ DOMAIN gw'[g] = HitFields
      /\ gw'[g].pc = "leave" /\ gw'[g].host = gw[g].host
  BY <1>1, <1>5, Zenon DEF HitFields
<1>7. ASSUME NEW x \in Gws \ {g}, GwAt(x, "wait"), gw[x].host[2] = i
      PROVE  DOMAIN gw'[x] = HitFields /\ gw'[x].pc \in {"refuse", "proxy"} /\ gw'[x].host = gw[x].host
  <2>1. x \in Waiting(g)
    BY <1>7, Zenon DEF Waiting
  <2>2. gw'[x] = Woken(gw[x], Found(g))
    BY <1>5, <2>1, Zenon
  <2>3. DOMAIN gw[x] = HitFields
    BY Zenon DEF WInv, HitsOK
  <2> QED
    BY <2>2, <2>3, WokenPut
<1>8. ASSUME NEW x \in Gws \ {g}, ~(GwAt(x, "wait") /\ gw[x].host[2] = i)
      PROVE  gw'[x] = gw[x]
  <2>1. x \notin Waiting(g)
    BY <1>8, Zenon DEF Waiting
  <2> QED
    BY <1>5, <2>1, Zenon
<1> HIDE DEF i
<1>9. gw'[g].host[2] = i
  BY <1>6, Zenon DEF i
<1>10. \A x \in Gws \ {g} : Wakes(x) => gw[x].host[2] \in Sandboxes \ {i}
  BY <1>2, Zenon DEF WInv, HitsOK, WakesOK, Wakes, Leading
<1>11. ASSUME NEW x \in Gws \ {g}, gw'[x].pc \in Leading \cup {"leave", "wait"}
       PROVE  gw'[x] = gw[x] /\ gw[x].host[2] \in Sandboxes \ {i}
  <2>1. ~(GwAt(x, "wait") /\ gw[x].host[2] = i)
    BY <1>7, <1>11, Zenon DEF Leading
  <2>2. gw'[x] = gw[x]
    BY <1>8, <2>1, Zenon
  <2>3. CASE gw[x].pc = "wait"
    BY <2>1, <2>2, <2>3, Zenon DEF WInv, HitsOK, GwAt
  <2>4. CASE gw[x].pc # "wait"
    BY <1>10, <1>11, <2>2, <2>4, Zenon DEF Wakes
  <2> QED
    BY <2>2, <2>3, <2>4, Zenon
<1>12. HitsOK'
  <2>1. \A x \in Gws : DOMAIN gw'[x] = HitFields
    BY <1>6, <1>7, <1>8, Zenon DEF WInv, HitsOK
  <2>2. \A x \in Gws : gw'[x].pc # "idle" => gw'[x].host[2] \in Sandboxes
    BY <1>1, <1>7, <1>8, <1>9, Zenon DEF WInv, HitsOK, GwAt
  <2> QED
    BY <1>4, <1>6, <2>1, <2>2, Zenon DEF WInv, HitsOK
<1>13. \A x \in Gws : gw'[x].pc \in Leading \cup {"leave"} => waking'[gw'[x].host[2]].by = x
  BY <1>4, <1>9, <1>11 DEF WInv, WakesOK, Wakes
<1>14. \A x \in Gws : gw'[x].pc \in Leading => ~waking'[gw'[x].host[2]].done
  BY <1>4, <1>6, <1>11 DEF WInv, WakesOK, Leading
<1>15. ASSUME NEW j \in Sandboxes, waking'[j].by # None
       PROVE  /\ waking'[j].by \in Gws /\ gw'[waking'[j].by].pc \in Leading \cup {"leave"}
              /\ gw'[waking'[j].by].host[2] = j
              /\ gw'[waking'[j].by].pc = "leave" => waking'[j].done
  <2>1. CASE j = i
    BY <1>4, <1>6, <1>9, <2>1, Zenon
  <2>2. CASE j # i
    <3>1. /\ waking[j].by \in Gws /\ Wakes(waking[j].by)
          /\ gw[waking[j].by].host[2] = j
          /\ gw[waking[j].by].pc = "leave" => waking[j].done
      BY <1>4, <1>15, <2>2, Zenon DEF WInv, WakesOK
    <3>2. waking[j].by # g
      BY <2>2, <3>1, Zenon DEF i
    <3>3. ~GwAt(waking[j].by, "wait")
      BY <3>1, Zenon DEF Wakes, GwAt, Leading
    <3>4. gw'[waking[j].by] = gw[waking[j].by]
      BY <1>8, <3>1, <3>2, <3>3, Zenon
    <3> QED
      BY <1>4, <2>2, <3>1, <3>4, Zenon DEF Wakes
  <2> QED
    BY <2>1, <2>2, Zenon
<1>16. \A j \in Sandboxes : waking'[j].by = None => ~waking'[j].done
  BY <1>4, GatewayAssumption DEF WInv, WakesOK
<1>17. \A x \in Gws : gw'[x].pc = "wait" =>
          waking'[gw'[x].host[2]].by # None /\ ~waking'[gw'[x].host[2]].done
  BY <1>4, <1>6, <1>11 DEF WInv, WakesOK, GwAt
<1> QED
  BY <1>12, <1>13, <1>14, <1>15, <1>16, <1>17, Zenon DEF WInv, WakesOK, Wakes, GwAt

\* The leader takes its wake out of the map: nobody waits for it any more.
LEMMA LeaveLed == ASSUME WInv, NEW g \in Gws, Leave(g) PROVE WInv'
<1> DEFINE i == gw[g].host[2]
           y == Woken(gw[g], Found(g))
<1>1. /\ gw[g].pc = "leave" /\ DOMAIN gw = Gws /\ DOMAIN gw[g] = HitFields
      /\ DOMAIN waking = Sandboxes /\ i \in Sandboxes
  BY Zenon DEF Leave, GwAt, WInv, HitsOK
<1>2. waking[i].by = g /\ g # None
  BY <1>1, GatewayAssumption, Zenon DEF Wakes, WInv, WakesOK
<1>3. waking[i].done
  BY <1>1, <1>2, Zenon DEF WInv, WakesOK
<1>4. waking' = [waking EXCEPT ![i] = NoWake] /\ gw' = [gw EXCEPT ![g] = y]
  BY Zenon DEF Leave
<1>5. /\ DOMAIN waking' = Sandboxes /\ waking'[i].by = None /\ ~waking'[i].done
      /\ DOMAIN waking'[i] = {"by", "done", "route"}
      /\ \A j \in Sandboxes \ {i} : waking'[j] = waking[j]
  BY <1>1, <1>4, Zenon DEF NoWake
<1>6. DOMAIN y = HitFields /\ y.host = gw[g].host /\ y.pc \in {"refuse", "proxy"}
  BY <1>1, WokenPut, Zenon
<1> HIDE DEF y
<1>7. DOMAIN gw' = Gws /\ gw'[g] = y /\ \A x \in Gws \ {g} : gw'[x] = gw[x]
  BY <1>1, <1>4, Zenon
<1> HIDE DEF i
<1>8. gw'[g].host[2] = i /\ gw'[g].pc \notin Leading \cup {"leave", "wait"}
  BY <1>6, <1>7, Zenon DEF i, Leading
<1>9. \A x \in Gws \ {g} : Wakes(x) \/ GwAt(x, "wait") => gw[x].host[2] \in Sandboxes \ {i}
  BY <1>2, <1>3 DEF WInv, HitsOK, WakesOK, Wakes, GwAt, Leading
<1>10. HitsOK'
  BY <1>1, <1>5, <1>6, <1>7, <1>8, Zenon DEF WInv, HitsOK
<1>11. \A x \in Gws : gw'[x].pc \in Leading \cup {"leave"} => waking'[gw'[x].host[2]].by = x
  BY <1>5, <1>7, <1>8, <1>9 DEF WInv, WakesOK, Wakes
<1>12. \A x \in Gws : gw'[x].pc \in Leading => ~waking'[gw'[x].host[2]].done
  BY <1>5, <1>7, <1>8, <1>9 DEF WInv, WakesOK, Wakes
<1>13. ASSUME NEW j \in Sandboxes, waking'[j].by # None
       PROVE  /\ waking'[j].by \in Gws /\ gw'[waking'[j].by].pc \in Leading \cup {"leave"}
              /\ gw'[waking'[j].by].host[2] = j
              /\ gw'[waking'[j].by].pc = "leave" => waking'[j].done
  <2>1. j # i
    BY <1>5, <1>13, Zenon
  <2>2. /\ waking[j].by \in Gws /\ Wakes(waking[j].by)
        /\ gw[waking[j].by].host[2] = j
        /\ gw[waking[j].by].pc = "leave" => waking[j].done
    BY <1>5, <1>13, <2>1, Zenon DEF WInv, WakesOK
  <2>3. waking[j].by # g
    BY <2>1, <2>2, Zenon DEF i
  <2> QED
    BY <1>5, <1>7, <2>1, <2>2, <2>3 DEF Wakes
<1>14. \A j \in Sandboxes : waking'[j].by = None => ~waking'[j].done
  BY <1>5, Zenon DEF WInv, WakesOK
<1>15. \A x \in Gws : gw'[x].pc = "wait" =>
          waking'[gw'[x].host[2]].by # None /\ ~waking'[gw'[x].host[2]].done
  BY <1>5, <1>7, <1>8, <1>9 DEF WInv, WakesOK, GwAt
<1> QED
  BY <1>10, <1>11, <1>12, <1>13, <1>14, <1>15, Zenon DEF WInv, WakesOK, Wakes, GwAt

\* The invariant of the wakes is inductive.
LEMMA NextKeepsWakes == ASSUME WInv, [Next]_vars PROVE WInv'
<1>1. CASE waking' = waking /\ gw' = gw
  <2>1. WInv <=> WInv'
    BY <1>1, Zenon DEF WInv, HitsOK, WakesOK, Wakes, GwAt
  <2> QED
    BY <2>1, Zenon
<1>2. ASSUME NEW g \in Gws, Hit(g) \/ GwStep(g)
      PROVE  WInv'
  BY <1>2, HitLed, StepLed, JoinLed, CloseLed, LeaveLed, Zenon DEF GwStep
<1>3. CASE Run
  BY <1>1, <1>3, Zenon DEF Run, Flush, Report, Refresh, Swap
<1>4. CASE UNCHANGED gvars \/ UNCHANGED vars
  BY <1>1, <1>4, Zenon DEF gvars, vars
<1> QED
  BY <1>2, <1>3, <1>4, Zenon DEF Next

\* No wake at the start.
LEMMA InitWakes == GwInit => WInv
<1> SUFFICES ASSUME GwInit PROVE WInv
  BY Zenon
<1>1. waking = [i \in Sandboxes |-> NoWake] /\ gw = [g \in Gws |-> NoHit]
  BY Zenon DEF GwInit
<1>2. NoHit.pc = "idle" /\ DOMAIN NoHit = HitFields
  BY Zenon DEF NoHit, HitFields
<1>3. NoWake.by = None /\ ~NoWake.done /\ DOMAIN NoWake = {"by", "done", "route"}
  BY Zenon DEF NoWake
<1> QED
  BY <1>1, <1>2, <1>3, Zenon DEF WInv, HitsOK, WakesOK, Wakes, GwAt, Leading

\* However many requests for a sandbox come while it wakes, each one that waits
\* on the channel of wakeAndWait waits for a wake which another request leads
\* and has still to close: nobody waits for a wake that is over.
THEOREM WakesStayLed == Spec => []WaitersLed
<1>1. WInv /\ [Next]_vars => WInv'
  BY NextKeepsWakes, Zenon
<1> QED
  BY <1>1, InitWakes, LedByAnother, PTL DEF Spec

----------------------------------------------------------------------------
Reqs == Clients \cup Gws
ReqFields == {"op", "pc", "id", "src", "name", "port", "node", "todo", "ok"}

\* Where a request is between taking exposeMu and giving it back.
Holds(r) ==
    \/ req[r].pc \in {"call", "row", "next", "uncall", "drop"}
    \/ req[r].pc = "look" /\ req[r].op = "unexpose"

\* Two requests are never both between their check and their row, so that what
\* a check saw of the rows is what the row is added to (Server.exposeMu).
OneWriter == \A r, s \in Reqs : Holds(r) /\ Holds(s) => r = s

\* The mutex is held by the request in its section, and by nobody else; before
\* that an unexpose and a sweep are told apart by op.
MuInv ==
    /\ DOMAIN req = Reqs
    /\ \A r \in Reqs : DOMAIN req[r] = ReqFields
    /\ \A r \in Reqs : Holds(r) => mu = r
    /\ mu # None => mu \in Reqs /\ Holds(mu)
    /\ \A r \in Reqs : At(r, "sweep") => req[r].op = "autosleep"
    /\ \A r \in Reqs : At(r, "find") => req[r].op = "unexpose"

----------------------------------------------------------------------------
(* exposeMu. *)

\* A request that is outside of its section before and after a step, or that
\* takes or gives back the mutex with it, keeps the others out.
LEMMA MuStep ==
    ASSUME MuInv, NEW r \in Reqs,
           DOMAIN req' = Reqs, DOMAIN req'[r] = ReqFields,
           \A s \in Reqs \ {r} : req'[s] = req[s],
           req'[r].pc = "sweep" => req'[r].op = "autosleep",
           req'[r].pc = "find" => req'[r].op = "unexpose",
           \/ Holds(r)' /\ mu' = r /\ mu \in {None, r}
           \/ ~Holds(r)' /\ ~Holds(r) /\ mu' = mu
           \/ ~Holds(r)' /\ Holds(r) /\ mu' = None
    PROVE  MuInv'
<1>1. \A s \in Reqs \ {r} : Holds(s)' <=> Holds(s)
  BY Zenon DEF Holds
<1>2. \A s \in Reqs : DOMAIN req'[s] = ReqFields
  BY Zenon DEF MuInv
<1>3. \A s \in Reqs : Holds(s)' => mu' = s
  BY <1>1, GatewayAssumption, Zenon DEF MuInv, Reqs
<1>4. mu' # None => mu' \in Reqs /\ Holds(mu)'
  BY <1>1, Zenon DEF MuInv
<1>5. \A s \in Reqs : At(s, "sweep")' => req'[s].op = "autosleep"
  BY Zenon DEF MuInv, At
<1>6. \A s \in Reqs : At(s, "find")' => req'[s].op = "unexpose"
  BY Zenon DEF MuInv, At
<1> QED
  BY <1>2, <1>3, <1>4, <1>5, <1>6, Zenon DEF MuInv

\* What the two ways of moving a request do to it.
LEMMA Moves ==
    ASSUME MuInv, NEW r \in Reqs, NEW l, Goto(r, l)
    PROVE  /\ DOMAIN req' = Reqs /\ DOMAIN req'[r] = ReqFields
           /\ \A s \in Reqs \ {r} : req'[s] = req[s]
           /\ req'[r].pc = l /\ req'[r].op = req[r].op
BY Zenon DEF MuInv, Goto, ReqFields

\* A request is answered.
LEMMA Answers ==
    ASSUME MuInv, NEW r \in Reqs, NEW ok, Answer(r, ok)
    PROVE  /\ DOMAIN req' = Reqs /\ DOMAIN req'[r] = ReqFields
           /\ \A s \in Reqs \ {r} : req'[s] = req[s]
           /\ req'[r].pc \in {"answered", "idle"}
BY Zenon DEF MuInv, Answer, Idle, ReqFields

\* A call that failed gives the mutex back, or goes on to the next expose with
\* it.
LEMMA FailedKeeps ==
    ASSUME MuInv, NEW r \in Reqs, Holds(r), Failed(r)
    PROVE  MuInv'
<1>1. CASE req[r].op = "fork"
  <2>1. Goto(r, "next") /\ mu' = mu
    BY <1>1, Zenon DEF Failed
  <2> QED
    BY <2>1, Moves, MuStep DEF MuInv, Holds
<1>2. CASE req[r].op = "autosleep"
  <2>1. Goto(r, "sweep") /\ mu' = None
    BY <1>2, Zenon DEF Failed
  <2> QED
    BY <1>2, <2>1, Moves, MuStep DEF Holds
<1>3. CASE req[r].op \notin {"fork", "autosleep"}
  <2>1. Answer(r, FALSE) /\ mu' = None
    BY <1>3, Zenon DEF Failed
  <2>2. req'[r].pc \in {"answered", "idle"}
    BY <2>1, Answers, Zenon
  <2> QED
    BY <2>1, <2>2, Answers, MuStep, Zenon DEF Holds
<1> QED
  BY <1>1, <1>2, <1>3, Zenon

\* An answer from outside the section, or with the mutex given back.
LEMMA AnswerKeeps ==
    ASSUME MuInv, NEW r \in Reqs, NEW ok, Answer(r, ok),
           IF Holds(r) THEN mu' = None ELSE mu' = mu
    PROVE  MuInv'
BY Answers, MuStep, Zenon DEF Holds

\* A request that begins or goes on without the mutex.
LEMMA SetKeeps ==
    ASSUME MuInv, NEW r \in Reqs, NEW x, req' = [req EXCEPT ![r] = x],
           DOMAIN x = ReqFields,
           ~Holds(r), mu' = mu,
           x.pc \notin {"call", "row", "next", "uncall", "drop"},
           x.pc \in {"find", "look"} => (x.op = "unexpose" <=> x.pc = "find"),
           x.pc = "sweep" => x.op = "autosleep"
    PROVE  MuInv'
<1>1. req'[r] = x
  BY Zenon DEF MuInv
<1>2. DOMAIN req' = Reqs /\ \A s \in Reqs \ {r} : req'[s] = req[s]
  BY Zenon DEF MuInv
<1>3. ~Holds(r)'
  BY <1>1, Zenon DEF Holds
<1> QED
  BY <1>1, <1>2, <1>3, MuStep, Zenon

\* The steps of a request keep the mutex as it should be.
LEMMA StepKeepsMu ==
    ASSUME MuInv, NEW r \in Reqs, Step(r)
    PROVE  MuInv'
<1>1. CASE Check(r)
  <2> DEFINE i == req[r].id
             same == Named(i, req[r].name)
  <2>1. ~Holds(r) /\ mu = None
    BY <1>1, Zenon DEF Check, At, Holds
  <2>2. CASE mu' = r /\ Goto(r, "call")
    BY <2>1, <2>2, Moves, MuStep, Zenon DEF Holds
  <2>3. CASE Answer(r, \E k \in same : sb[i].rows[k].port = req[r].port) /\ mu' = mu
    BY <2>1, <2>3, AnswerKeeps, Zenon
  <2> QED
    BY <1>1, <2>2, <2>3, Zenon DEF Check
<1>2. CASE Call(r)
  <2>1. Holds(r) /\ mu = r
    BY <1>2, Zenon DEF Call, At, Holds, MuInv
  <2>2. CASE Failed(r)
    BY <2>1, <2>2, FailedKeeps, Zenon
  <2>3. CASE /\ req' = [req EXCEPT ![r].pc = "row", ![r].node = NodePort(req[r].id, req[r].port)]
             /\ mu' = mu
    <3>1. /\ DOMAIN req' = Reqs /\ DOMAIN req'[r] = ReqFields /\ req'[r].pc = "row"
          /\ \A s \in Reqs \ {r} : req'[s] = req[s]
      BY <2>3, Zenon DEF MuInv, ReqFields
    <3> QED
      BY <2>1, <2>3, <3>1, MuStep, Zenon DEF Holds
  <2> QED
    BY <1>2, <2>2, <2>3, Zenon DEF Call
<1>3. CASE AddRow(r)
  <2> DEFINE i == req[r].id
             same == Named(i, req[r].name)
  <2>1. Holds(r) /\ mu = r
    BY <1>3, Zenon DEF AddRow, At, Holds, MuInv
  <2>2. CASE Goto(r, "next") /\ mu' = mu
    BY <2>1, <2>2, Moves, MuStep DEF Holds
  <2>3. CASE /\ Answer(r, Exists(i) /\ \A k \in same : sb[i].rows[k].port = req[r].port)
             /\ mu' = None
    BY <2>1, <2>3, AnswerKeeps, Zenon
  <2> QED
    BY <1>3, <2>2, <2>3, Zenon DEF AddRow
<1>4. CASE Forked(r)
  <2>1. ~Holds(r) /\ mu' = mu
    BY <1>4, Zenon DEF Forked, At, Holds
  <2>2. CASE Goto(r, "lock")
    BY <2>1, <2>2, Moves, MuStep DEF Holds
  <2>3. CASE Answer(r, TRUE) \/ Answer(r, FALSE)
    BY <2>1, <2>3, AnswerKeeps, Zenon
  <2> QED
    BY <1>4, <2>2, <2>3, Zenon DEF Forked
<1>5. CASE Lock(r)
  <2>1. Goto(r, "next") /\ mu = None /\ mu' = r
    BY <1>5, Zenon DEF Lock
  <2> QED
    BY <2>1, Moves, MuStep DEF Holds
<1>6. CASE NextRow(r)
  <2> DEFINE e == Head(req[r].todo)
  <2>1. Holds(r) /\ mu = r
    BY <1>6, Zenon DEF NextRow, At, Holds, MuInv
  <2>2. CASE /\ req' = [req EXCEPT ![r].pc = "call", ![r].name = e.name, ![r].port = e.port,
                                   ![r].todo = Tail(@)]
             /\ mu' = mu
    <3>1. /\ DOMAIN req' = Reqs /\ DOMAIN req'[r] = ReqFields /\ req'[r].pc = "call"
          /\ \A s \in Reqs \ {r} : req'[s] = req[s]
      BY <2>2, Zenon DEF MuInv, ReqFields
    <3> QED
      BY <2>1, <2>2, <3>1, MuStep, Zenon DEF Holds
  <2>3. CASE Answer(r, TRUE) /\ mu' = None
    BY <2>1, <2>3, AnswerKeeps, Zenon
  <2> QED
    BY <1>6, <2>2, <2>3, Zenon DEF NextRow
<1>7. CASE Find(r)
  <2>1. ~Holds(r) /\ mu = None /\ req[r].op = "unexpose"
    BY <1>7, Zenon DEF Find, At, Holds, MuInv
  <2>2. CASE Answer(r, FALSE) /\ mu' = mu
    BY <2>1, <2>2, AnswerKeeps, Zenon
  <2>3. ASSUME NEW p, req' = [req EXCEPT ![r].pc = "look", ![r].port = p], mu' = r
        PROVE  MuInv'
    <3>1. /\ DOMAIN req' = Reqs /\ DOMAIN req'[r] = ReqFields
          /\ req'[r].pc = "look" /\ req'[r].op = req[r].op
          /\ \A s \in Reqs \ {r} : req'[s] = req[s]
      BY <2>3, Zenon DEF MuInv, ReqFields
    <3> QED
      BY <2>1, <2>3, <3>1, MuStep DEF Holds
  <2> QED
    BY <1>7, <2>2, <2>3, Zenon DEF Find
<1>8. CASE Sweep(r)
  <2>1. ~Holds(r) /\ mu' = mu /\ req[r].op = "autosleep"
    BY <1>8, Zenon DEF Sweep, At, Holds, MuInv
  <2>2. CASE Answer(r, TRUE)
    BY <2>1, <2>2, AnswerKeeps, Zenon
  <2>3. ASSUME NEW n, NEW p,
               req' = [req EXCEPT ![r].pc = "look", ![r].name = n, ![r].port = p,
                                  ![r].todo = Tail(@)]
        PROVE  MuInv'
    <3>1. /\ DOMAIN req' = Reqs /\ DOMAIN req'[r] = ReqFields
          /\ req'[r].pc = "look" /\ req'[r].op = req[r].op
          /\ \A s \in Reqs \ {r} : req'[s] = req[s]
      BY <2>3, Zenon DEF MuInv, ReqFields
    <3> QED
      BY <2>1, <3>1, MuStep, Zenon DEF Holds
  <2> QED
    BY <1>8, <2>2, <2>3, Zenon DEF Sweep
<1>9. CASE Look(r)
  <2>1. PICK l \in {"drop", "uncall"} : Goto(r, l)
    BY <1>9, Zenon DEF Look
  <2>2. mu \in {None, r} /\ mu' = r
    BY <1>9, Zenon DEF Look
  <2> QED
    BY <2>1, <2>2, Moves, MuStep, Zenon DEF Holds
<1>10. CASE Uncall(r)
  <2>1. Holds(r) /\ mu = r
    BY <1>10, Zenon DEF Uncall, At, Holds, MuInv
  <2>2. CASE Failed(r)
    BY <2>1, <2>2, FailedKeeps, Zenon
  <2>3. CASE Goto(r, "drop") /\ mu' = mu
    BY <2>1, <2>3, Moves, MuStep DEF Holds
  <2> QED
    BY <1>10, <2>2, <2>3, Zenon DEF Uncall
<1>11. CASE DropRow(r)
  <2>1. Holds(r) /\ mu' = None
    BY <1>11, Zenon DEF DropRow, At, Holds
  <2>2. CASE req[r].op = "autosleep" /\ Goto(r, "sweep")
    BY <2>1, <2>2, Moves, MuStep DEF Holds
  <2>3. CASE Answer(r, TRUE)
    BY <2>1, <2>3, AnswerKeeps, Zenon
  <2> QED
    BY <1>11, <2>2, <2>3, Zenon DEF DropRow
<1>12. CASE Forget(r)
  <2>1. ~Holds(r) /\ mu' = mu /\ Answer(r, TRUE)
    BY <1>12, Zenon DEF Forget, At, Holds
  <2> QED
    BY <2>1, AnswerKeeps, Zenon
<1> QED
  BY <1>1, <1>2, <1>3, <1>4, <1>5, <1>6, <1>7, <1>8, <1>9, <1>10, <1>11, <1>12, Zenon DEF Step

\* So do requests that come in.
LEMMA ArriveKeepsMu ==
    ASSUME MuInv, NEW r \in Reqs, Arrive(r)
    PROVE  MuInv'
<1>1. At(r, "idle") /\ mu' = mu
  BY Zenon DEF Arrive, BeginExpose, Fork, BeginUnexpose, AutoSleep, Sleep, Wake, Delete, Comes
<1>2. ~Holds(r)
  BY <1>1, Zenon DEF At, Holds
<1>3. CASE UNCHANGED req
  BY <1>1, <1>3, Zenon DEF MuInv, Holds, At
<1>4. ASSUME NEW x, req' = [req EXCEPT ![r] = x], DOMAIN x = ReqFields,
             \/ x.pc \in {"check", "forked", "forget"}
             \/ x.pc = "find" /\ x.op = "unexpose"
             \/ x.pc = "sweep" /\ x.op = "autosleep"
      PROVE  MuInv'
  BY <1>1, <1>2, <1>4, SetKeeps, Zenon
<1>5. CASE BeginExpose(r)
  <2>1. PICK i, n, p : req' = [req EXCEPT ![r] = [Idle EXCEPT !.op = "expose", !.pc = "check",
                                                    !.id = i, !.name = n, !.port = p]]
    BY <1>5, Zenon DEF BeginExpose
  <2> DEFINE x == [Idle EXCEPT !.op = "expose", !.pc = "check", !.id = i, !.name = n, !.port = p]
  <2>2. DOMAIN x = ReqFields /\ x.pc = "check"
    BY Zenon DEF Idle, ReqFields
  <2>3. req' = [req EXCEPT ![r] = x]
    BY <2>1, Zenon
  <2> HIDE DEF x
  <2> QED
    BY <2>2, <2>3, <1>4, Zenon
<1>6. CASE Fork(r)
  <2>1. PICK i, j \in Sandboxes :
          req' = [req EXCEPT ![r] = [Idle EXCEPT !.op = "fork", !.pc = "forked", !.id = j,
                                                 !.src = i, !.todo = sb[i].rows]]
    BY <1>6, Zenon DEF Fork
  <2> DEFINE x == [Idle EXCEPT !.op = "fork", !.pc = "forked", !.id = j, !.src = i,
                               !.todo = sb[i].rows]
  <2>2. DOMAIN x = ReqFields /\ x.pc = "forked"
    BY Zenon DEF Idle, ReqFields
  <2>3. req' = [req EXCEPT ![r] = x]
    BY <2>1, Zenon
  <2> HIDE DEF x
  <2> QED
    BY <2>2, <2>3, <1>4, Zenon
<1>7. CASE BeginUnexpose(r)
  <2>1. PICK i, n : req' = [req EXCEPT ![r] = [Idle EXCEPT !.op = "unexpose", !.pc = "find",
                                                 !.id = i, !.name = n]]
    BY <1>7, Zenon DEF BeginUnexpose
  <2> DEFINE x == [Idle EXCEPT !.op = "unexpose", !.pc = "find", !.id = i, !.name = n]
  <2>2. DOMAIN x = ReqFields /\ x.pc = "find" /\ x.op = "unexpose"
    BY Zenon DEF Idle, ReqFields
  <2>3. req' = [req EXCEPT ![r] = x]
    BY <2>1, Zenon
  <2> HIDE DEF x
  <2> QED
    BY <2>2, <2>3, <1>4, Zenon
<1>8. CASE AutoSleep(r)
  <2>1. PICK i, t : req' = [req EXCEPT ![r] = [Idle EXCEPT !.op = "autosleep", !.pc = "sweep",
                                                 !.id = i, !.todo = t]]
    BY <1>8, Zenon DEF AutoSleep
  <2> DEFINE x == [Idle EXCEPT !.op = "autosleep", !.pc = "sweep", !.id = i, !.todo = t]
  <2>2. DOMAIN x = ReqFields /\ x.pc = "sweep" /\ x.op = "autosleep"
    BY Zenon DEF Idle, ReqFields
  <2>3. req' = [req EXCEPT ![r] = x]
    BY <2>1, Zenon
  <2> HIDE DEF x
  <2> QED
    BY <2>2, <2>3, <1>4, Zenon
<1>9. ASSUME NEW i, req' = [req EXCEPT ![r] = [Idle EXCEPT !.op = "delete", !.pc = "forget", !.id = i]]
      PROVE  MuInv'
  <2> DEFINE x == [Idle EXCEPT !.op = "delete", !.pc = "forget", !.id = i]
  <2>1. DOMAIN x = ReqFields /\ x.pc = "forget"
    BY Zenon DEF Idle, ReqFields
  <2>2. req' = [req EXCEPT ![r] = x]
    BY <1>9, Zenon
  <2> HIDE DEF x
  <2> QED
    BY <2>1, <2>2, <1>4, Zenon
<1>10. CASE Delete(r)
  BY <1>10, <1>3, <1>9, Zenon DEF Delete
<1>11. CASE Sleep(r) \/ Wake(r)
  BY <1>11, <1>3, Zenon DEF Sleep, Wake
<1> QED
  BY <1>5, <1>6, <1>7, <1>8, <1>10, <1>11, Zenon DEF Arrive

\* And the gateway, which asks for a dynamic route and takes the answer.
LEMMA GatewayKeepsMu ==
    ASSUME MuInv, NEW g \in Gws, Hit(g) \/ Ensured(g)
    PROVE  MuInv'
<1>0. g \in Reqs /\ mu' = mu
  BY Zenon DEF Reqs, Hit, Ensured
<1>1. CASE UNCHANGED req
  BY <1>0, <1>1, Zenon DEF MuInv, Holds, At
<1>2. ASSUME NEW h, req[g].pc = "idle",
             req' = [req EXCEPT ![g] = [Idle EXCEPT !.op = "expose", !.pc = "check", !.id = h[2],
                                                    !.name = h[1], !.port = h[1]]]
      PROVE  MuInv'
  <2> DEFINE x == [Idle EXCEPT !.op = "expose", !.pc = "check", !.id = h[2], !.name = h[1],
                               !.port = h[1]]
  <2>1. DOMAIN x = ReqFields /\ x.pc = "check"
    BY Zenon DEF Idle, ReqFields
  <2>2. req' = [req EXCEPT ![g] = x] /\ ~Holds(g)
    BY <1>2, Zenon DEF Holds
  <2> HIDE DEF x
  <2> QED
    BY <1>0, <2>1, <2>2, SetKeeps, Zenon
<1>3. CASE At(g, "answered") /\ Goto(g, "idle")
  BY <1>0, <1>3, Moves, MuStep DEF Holds, At
<1>4. CASE Hit(g)
  BY <1>1, <1>2, <1>4, Zenon DEF Hit
<1>5. CASE Ensured(g)
  BY <1>1, <1>3, <1>5, Zenon DEF Ensured
<1> QED
  BY <1>4, <1>5, Zenon

\* The invariant of the lock is inductive.
LEMMA NextKeepsMu == MuInv /\ [Next]_vars => MuInv'
<1> SUFFICES ASSUME MuInv, [Next]_vars
             PROVE  MuInv'
  BY Zenon
<1>1. CASE UNCHANGED <<req, mu>>
  BY <1>1, Zenon DEF MuInv, Holds, At
<1>2. ASSUME NEW g \in Gws, GwStep(g) PROVE MuInv'
  <2>1. Ensured(g) \/ UNCHANGED <<req, mu>>
    BY <1>2, Zenon
    DEF GwStep, Fetch, Swapped, Proxy, Refuse, Join, WakeCall, Polled, Close, Leave, evars
  <2> QED
    BY <1>1, <2>1, GatewayKeepsMu, Zenon
<1>3. CASE Run
  BY <1>1, <1>3, Zenon DEF Run, Flush, Report, Refresh, Swap, evars
<1>4. CASE UNCHANGED vars
  BY <1>1, <1>4, Zenon DEF vars, evars
<1> QED
  BY <1>2, <1>3, <1>4, StepKeepsMu, ArriveKeepsMu, GatewayKeepsMu, Zenon DEF Next, Reqs

\* The lock is free at the start.
LEMMA InitMu == GwInit => MuInv
<1> SUFFICES ASSUME GwInit
             PROVE  MuInv
  BY Zenon
<1>1. mu = None /\ req = [r \in Reqs |-> Idle]
  BY Zenon DEF GwInit, Init, Reqs
<1>2. DOMAIN Idle = ReqFields /\ Idle.pc = "idle"
  BY Zenon DEF Idle, ReqFields
<1> QED
  BY <1>1, <1>2, Zenon DEF MuInv, Holds, At

\* Check and row, of exposes, dynamic routes, forks, unexposes and the sweep,
\* are one section: no two requests are in theirs at once, however many there
\* are and whichever calls fail (exposeMu).
THEOREM ExposesExclude == Spec => []OneWriter
<1>1. MuInv => OneWriter
  BY Zenon DEF MuInv, OneWriter
<1> QED
  BY <1>1, InitMu, NextKeepsMu, PTL DEF Spec

----------------------------------------------------------------------------
(* Activity. *)

\* Between two reports nothing is in hand.
AInv ==
    /\ DOMAIN loop = {"pc", "batch", "snap"}
    /\ ActivityKept
    /\ loop.pc # "send" => loop.batch = {}

\* The invariant of the activity is inductive.
LEMMA NextKeepsActivity == AInv /\ [Next]_vars => AInv'
<1> SUFFICES ASSUME AInv, [Next]_vars
             PROVE  AInv'
  BY Zenon
<1>1. CASE UNCHANGED <<loop, active, owed>>
  BY <1>1, Zenon DEF AInv, ActivityKept
<1>2. CASE Flush
  BY <1>2, Zenon DEF Flush, AInv, ActivityKept
<1>3. CASE Report
  <2>1. loop.pc = "send" /\ loop' = [loop EXCEPT !.pc = "fetch", !.batch = {}]
    BY <1>3, Zenon DEF Report
  <2>2. DOMAIN loop' = {"pc", "batch", "snap"} /\ loop'.batch = {}
    BY <2>1, Zenon DEF AInv
  <2>3. owed' \subseteq active'
    BY <1>3, Zenon DEF Report, AInv, ActivityKept
  <2> QED
    BY <2>2, <2>3, Zenon DEF AInv, ActivityKept
<1>4. CASE Refresh
  <2>1. loop.pc = "fetch" /\ UNCHANGED <<active, owed>>
    BY <1>4, Zenon DEF Refresh
  <2>2. DOMAIN loop' = {"pc", "batch", "snap"} /\ loop'.batch = loop.batch
    BY <1>4, Zenon DEF Refresh, AInv
  <2> QED
    BY <2>1, <2>2, Zenon DEF AInv, ActivityKept
<1>5. CASE Swap
  <2>1. loop.pc = "swap" /\ UNCHANGED <<active, owed>>
    BY <1>5, Zenon DEF Swap
  <2>2. DOMAIN loop' = {"pc", "batch", "snap"} /\ loop'.batch = loop.batch
    BY <1>5, Zenon DEF Swap, AInv
  <2> QED
    BY <2>1, <2>2, Zenon DEF AInv, ActivityKept
<1>6. ASSUME NEW g \in Gws, Proxy(g)
      PROVE  AInv'
  BY <1>6, Zenon DEF Proxy, AInv, ActivityKept
<1>7. ASSUME NEW g \in Gws, Hit(g) \/ (GwStep(g) /\ ~Proxy(g))
      PROVE  UNCHANGED <<loop, active, owed>>
  BY <1>7, Zenon
  DEF Hit, GwStep, Ensured, Fetch, Swapped, Refuse, Join, WakeCall, Polled, Close, Leave
<1>8. CASE UNCHANGED gvars
  BY <1>1, <1>8, Zenon DEF gvars
<1>9. CASE UNCHANGED vars
  BY <1>8, <1>9, Zenon DEF vars
<1> QED
  BY <1>1, <1>2, <1>3, <1>4, <1>5, <1>6, <1>7, <1>8, <1>9, Zenon DEF Next, Run, GwStep

\* Traffic of a sandbox is in the next report, in the one under way, or counted:
\* no failed or lost report drops it, for any number of sandboxes and requests.
THEOREM ActivityStaysKept == Spec => []ActivityKept
<1>1. GwInit => AInv
  BY DEF GwInit, AInv, ActivityKept
<1>2. AInv => ActivityKept
  BY Zenon DEF AInv
<1> QED
  BY <1>1, <1>2, NextKeepsActivity, PTL DEF Spec
=============================================================================
