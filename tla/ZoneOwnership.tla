---------------------------- MODULE ZoneOwnership -----------------------------
(***************************************************************************)
(* What the zone operations promise about ownership, without the stores,   *)
(* the calls and the requests that bring it about: one step changes the    *)
(* owners of one zone.  ZoneService implements it as long as requests come *)
(* one at a time.                                                          *)
(***************************************************************************)
EXTENDS FiniteSets

CONSTANTS
  Users,
  Zones,
  Reached,  \* pairs <<user, zone>> on which the policy lets the user own the zone
  Shared    \* zones that may have more than one owner

VARIABLE owners  \* the owners of each zone; none, and the zone does not exist

Init ==
  /\ owners \in [Zones -> SUBSET Users]
  /\ \A z \in Zones : \A u \in owners[z] : <<u, z>> \in Reached

\* The creator of a zone is its only owner.
Claim(u, z) ==
  /\ owners[z] = {}
  /\ <<u, z>> \in Reached
  /\ owners' = [owners EXCEPT ![z] = {u}]

\* Another user joins, is added, or inherits a zone.
Share(u, z) ==
  /\ owners[z] # {}
  /\ z \in Shared
  /\ <<u, z>> \in Reached
  /\ owners' = [owners EXCEPT ![z] = @ \cup {u}]

\* Somebody else stays.
Leave(u, z) ==
  /\ owners[z] \ {u} # {}
  /\ owners' = [owners EXCEPT ![z] = @ \ {u}]

Drop(z) == owners' = [owners EXCEPT ![z] = {}]

Next ==
  \E z \in Zones :
    \/ Drop(z)
    \/ \E u \in Users : Claim(u, z) \/ Share(u, z) \/ Leave(u, z)

Spec == Init /\ [][Next]_owners

===============================================================================
