----------------------------- MODULE SignalsMC -----------------------------
EXTENDS Signals, TLC

CONSTANTS c1, c2

Calm == [restarts |-> 1, oom |-> {}, cpu |-> [num |-> 1, den |-> 4],
         replicas |-> [num |-> 2, den |-> 2]]

(* A crash loop with an OOM kill, CPU throttling, an autoscaler that adds a
   replica, and one replica lost to an OOM kill of another container. *)
Crashing == [Calm EXCEPT !.restarts = 2, !.oom = {c1}]
Throttled == [Calm EXCEPT !.cpu.num = 3]
ScaledOut == [Calm EXCEPT !.replicas = [num |-> 3, den |-> 3]]
Unavailable == [Calm EXCEPT !.replicas.num = 1, !.oom = {c2}]

(* A minute in which no CFS period was counted, and one Prometheus missed. *)
Idle == [Calm EXCEPT !.cpu = [num |-> 0, den |-> 0]]
Unscraped == [restarts |-> 0, oom |-> {}, cpu |-> NoData, replicas |-> NoData]

AllScrapes == {Calm, Crashing, Throttled, ScaledOut, Unavailable, Idle, Unscraped}

FewScrapes == {Calm, Idle}

Tenth == [num |-> 1, den |-> 10]
Half == [num |-> 1, den |-> 2]
NineTenths == [num |-> 9, den |-> 10]
=============================================================================
