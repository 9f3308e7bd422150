-------------------------- MODULE DeviceLifecycle --------------------------
(***************************************************************************)
(* What the device store promises about one device identifier, whatever    *)
(* the handlers, the deletion sweeper and the start-up code do around it:  *)
(* identifiers are handed out in order and once, a device may be scheduled *)
(* for deletion and restored any number of times, and a device that is     *)
(* gone never comes back under the same identifier.                        *)
(*                                                                         *)
(* DeviceRegistry is shown to implement this specification.                *)
(***************************************************************************)
EXTENDS Naturals

CONSTANT MaxId          \* bound: identifiers considered are 1..MaxId

VARIABLE status         \* status[i]: the life of the device with identifier i

LifeIds == 1..MaxId

Life == {"unborn", "live", "doomed", "gone"}

LifeTypeOK == status \in [LifeIds -> Life]

LifeInit == status = [i \in LifeIds |-> "unborn"]

\* Move identifier i from one of the lives in "from" to the life "to".
Become(i, from, to) ==
    /\ status[i] \in from
    /\ status' = [status EXCEPT ![i] = to]

\* Identifiers are handed out in increasing order: every smaller one is used.
Born(i) ==
    /\ \A j \in LifeIds : j < i => status[j] # "unborn"
    /\ Become(i, {"unborn"}, "live")

Doom(i)    == Become(i, {"live"}, "doomed")
Restore(i) == Become(i, {"doomed"}, "live")
Vanish(i)  == Become(i, {"live", "doomed"}, "gone")

LifeNext == \E i \in LifeIds : Born(i) \/ Doom(i) \/ Restore(i) \/ Vanish(i)

LifeSpec == LifeInit /\ [][LifeNext]_status

=============================================================================
