---------------------------- MODULE ManifestMC ----------------------------
EXTENDS Manifest, TLC

CONSTANTS v1, v2

Blank == [indent |-> 0, kind |-> "blank"]
Separator == [indent |-> 0, kind |-> "separator"]
Comment(indent) == [indent |-> indent, kind |-> "comment"]
Text(indent) == [indent |-> indent, kind |-> "text"]
Map(indent, key) == Entry(indent, key, "nothing", None)
Plain(indent, key) == Entry(indent, key, "plain", v1)
Quoted(indent, key) == Entry(indent, key, "quoted", v1)
Object(name) == <<Entry(0, "object", "plain", name)>>

(* Other documents before and after the Deployment's. *)
Befores ==
  {<<>>,
   Object("service") \o <<Comment(0), Map(0, "spec"), Plain(2, "replicas"), Separator>>}

Afters ==
  {<<>>,
   <<Comment(2), Separator>> \o Object("autoscaler") \o <<Map(0, "spec"), Plain(2, "cpu")>>,
   <<Separator>> \o Object("deployment")}

Replica == <<Comment(2), Plain(2, "replicas")>>

Replicas == {<<>>, Replica, <<Quoted(2, "replicas"), Blank>>}

Limits == <<Map(8, "limits"), Quoted(10, "cpu")>>

FullResources ==
  <<Map(6, "resources"), Map(8, "requests"), Plain(10, "memory"), Quoted(10, "cpu"),
    Comment(10)>> \o Limits

Resources ==
  {FullResources,
   <<>>,
   <<Entry(6, "resources", "flow", v1)>>,
   <<Map(6, "resources")>>,
   <<Map(6, "resources")>> \o Limits,
   <<Map(6, "resources")>> \o Limits \o <<Map(8, "requests"), Quoted(10, "cpu"), Blank>>}

(* What follows in the container: block scalars, some lines of which look like
   comments and entries, or a scalar that goes on below.  No block scalar has a
   blank inside and a comment or an entry behind it. *)
Script == <<Entry(6, "command", "block", v1), Text(8), Plain(8, "cpu"), Comment(8)>>

Config == <<Entry(6, "config", "block", v1), Comment(8), Plain(8, "cpu"), Blank>>

Tails ==
  {<<>>,
   <<Comment(6)>>,
   Config,
   Script,
   Script \o <<Blank, Map(4, "sidecar"), Plain(6, "image")>>,
   <<Plain(6, "description"), Text(8)>>}

Deployment(replicas, resources, tail) ==
  Object("deployment") \o <<Map(0, "spec")>> \o replicas
    \o <<Map(2, "containers"), Map(4, "app"), Plain(6, "image")>> \o resources \o tail

AllManifests ==
  {Deployment(Replica, resources, tail) : resources \in Resources, tail \in Tails}
    \union
  {before \o Deployment(replicas, FullResources, tail) \o after :
     before \in Befores, replicas \in Replicas, tail \in {<<>>, Script}, after \in Afters}

(* Changes of one field, of all, and one that repeats what most files say. *)
FewChangeSets ==
  {[cpu |-> v2, memory |-> None, replicas |-> None],
   [cpu |-> None, memory |-> None, replicas |-> v2],
   [cpu |-> v2, memory |-> v2, replicas |-> v2],
   [cpu |-> v1, memory |-> v1, replicas |-> None]}

ASSUME WrittenByHand == \A f \in AllManifests : WellFormed(f) /\ Unparted(f)
=============================================================================
