---------------------------- MODULE AppLifecycle ----------------------------
(***************************************************************************)
(* What the web app manager promises the application manager, which        *)
(* launches and kills instances over the Luna bus and reads the list of    *)
(* running apps: an app object runs once, at most one runs per instance,   *)
(* an app that stops running never runs again, and the list is brought up  *)
(* to date whenever one stops.                                             *)
(***************************************************************************)
CONSTANTS Apps, Instances

VARIABLES
  life,      \* how far each app object has come
  instance,  \* the instance it runs as
  reported   \* the instances in the last list of running apps

lifeVars == <<life, instance, reported>>

Lives == {"none", "running", "closing", "gone"}

Running(l) == {x \in Apps : l[x] = "running"}

LifeInit ==
  /\ life = [x \in Apps |-> "none"]
  /\ instance \in [Apps -> Instances]
  /\ reported = {}

\* A new object for an instance that is not running.
StartApp(x, i) ==
  /\ life[x] = "none"
  /\ \A y \in Running(life) : instance[y] # i
  /\ life' = [life EXCEPT ![x] = "running"]
  /\ instance' = [instance EXCEPT ![x] = i]
  /\ UNCHANGED reported

\* The last list of running apps holds those of the apps that run.
Report(l) == reported' = {instance[x] : x \in Running(l)}

\* Apps stop running, together when they are all closed. Each goes on to clean
\* up, or is gone at once when its renderer has crashed too often.
StopApps(stopped, to) ==
  /\ stopped # {}
  /\ stopped \subseteq Running(life)
  /\ life' = [x \in Apps |-> IF x \in stopped THEN to ELSE life[x]]
  /\ Report(life')
  /\ UNCHANGED instance

\* An app has cleaned up. Subscribers heard of it when it stopped.
EndApp(x) ==
  /\ life[x] = "closing"
  /\ life' = [life EXCEPT ![x] = "gone"]
  /\ UNCHANGED <<instance, reported>>

\* A list that nothing stopped for: a renderer has started, or an app that is
\* closing was closed again.
ReportAgain ==
  /\ Report(life)
  /\ UNCHANGED <<life, instance>>

LifeNext ==
  \/ \E x \in Apps, i \in Instances : StartApp(x, i)
  \/ \E stopped \in SUBSET Apps, to \in {"closing", "gone"} :
        StopApps(stopped, to)
  \/ \E x \in Apps : EndApp(x)
  \/ ReportAgain

LifeSpec == LifeInit /\ [][LifeNext]_lifeVars

=============================================================================
