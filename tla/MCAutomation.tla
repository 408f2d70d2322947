----------------------------- MODULE MCAutomation -----------------------------
(* Instances of Automation for TLC.                                         *)
EXTENDS Automation, TLC

Common == [due |-> 0, period |-> 1, misfire |-> "coalesce", deadline |-> 0, notify |-> FALSE]
Every(n) == [kind |-> "interval", period |-> n] @@ Common
Once(t)  == [kind |-> "once", due |-> t] @@ Common
Cron     == [kind |-> "cron"] @@ Common

OneEvery      == {Every(1)}
OnceOrEvery   == {Once(0)} \cup OneEvery
Heartbeats    == {[notify |-> TRUE] @@ Every(1)}
SomeKinds     == {Once(2), Cron, [misfire |-> "skip"] @@ Every(1)}
SlotsOrHeartbeat == {Once(0), Every(2)} \cup Heartbeats
Two           == {Every(1), Every(2)}
NoPatches     == {}
SomePatches   == {[kind |-> "interval", period |-> 2], [deadline |-> 3]}
=============================================================================
