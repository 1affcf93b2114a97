------------------------------ MODULE ZonePolicy ------------------------------
(***************************************************************************)
(* Policy evaluation (src/internal/app_logic.go): which zones the stored   *)
(* policy rules give to which user, and under which definition.            *)
(*                                                                         *)
(* A rule is evaluated for one user only after its pattern's "%u" has been *)
(* replaced by that user's DNS label, so a pattern is the function from    *)
(* users to the zone it expands to.  Two users whose e-mail addresses      *)
(* compress to one label get one and the same zone from it.                *)
(***************************************************************************)
EXTENDS Integers, Sequences

CONSTANTS
  Users,   \* e-mail addresses, which are also the user names in the zone table
  Zones,   \* zone names in play, closed under the ancestors below a SOA
  Below,   \* the pairs <<child, parent>> for which isSubdomainOf is true
  Rules    \* the policy table in the order of PolicyGetAll (id asc)

Rule == [pattern : [Users -> Zones],  \* zone_pattern, expanded
         soa     : Zones,             \* zone_soa
         users   : SUBSET Users,      \* who matches target_user_filter
         sub     : BOOLEAN,           \* allow_subdomains
         share   : BOOLEAN]           \* sharing_allowed

\* isSubdomainOf is a strict suffix test: the ancestors of a name are ordered.
ASSUME BelowAssumption ==
  /\ Below \subseteq Zones \X Zones
  /\ \A z \in Zones : <<z, z>> \notin Below
  /\ \A x, y, z \in Zones :
       <<x, y>> \in Below /\ <<y, z>> \in Below => <<x, z>> \in Below
  /\ \A x, y, z \in Zones :
       /\ <<x, y>> \in Below
       /\ <<x, z>> \in Below
       => y = z \/ <<y, z>> \in Below \/ <<z, y>> \in Below

ASSUME RulesAssumption == Rules \in Seq(Rule)

-------------------------------------------------------------------------------

\* ZoneResponse: what a user may do with `zone`.
Definition == [zone : Zones, soa : Zones, sub : BOOLEAN, share : BOOLEAN]

AtOrBelow(z, w) == z = w \/ <<z, w>> \in Below

\* The longest name of a set of ancestors of one zone; empty for the empty set.
Closest(S) == {z \in S : \A w \in S : w = z \/ <<z, w>> \in Below}

\* The rules that give `u` a zone no earlier matching rule already gave them.
EffectiveRules(u) ==
  {i \in DOMAIN Rules :
     /\ u \in Rules[i].users
     /\ \A j \in 1 .. (i - 1) :
          u \in Rules[j].users => Rules[j].pattern[u] # Rules[i].pattern[u]}

PolicyGetUserZones(u) ==
  {[zone |-> Rules[i].pattern[u], soa |-> Rules[i].soa,
    sub |-> Rules[i].sub, share |-> Rules[i].share] : i \in EffectiveRules(u)}

ExactMatches(z, u) == {d \in PolicyGetUserZones(u) : d.zone = z}

SubzoneParents(z, u) ==
  {d \in PolicyGetUserZones(u) : d.sub /\ <<z, d.zone>> \in Below}

\* The definition PolicyIsZoneAllowedForUser returns, as a set that is empty when
\* it returns nil.
ZoneDefinitions(z, u) ==
  IF ExactMatches(z, u) # {}
    THEN ExactMatches(z, u)
    ELSE {[zone |-> z, soa |-> d.zone, sub |-> TRUE, share |-> d.share] :
            d \in {e \in SubzoneParents(z, u) :
                     e.zone \in Closest({f.zone : f \in SubzoneParents(z, u)})}}

PolicyIsZoneAllowedForUser(z, u) ==
  ExactMatches(z, u) # {} \/ SubzoneParents(z, u) # {}

\* zoneGoverningDef, given the zone's owners: the definition of the first owner
\* the policy entitles.  ListZoneOwners is a SELECT DISTINCT without an order,
\* so any entitled owner may come first.
GoverningDefs(z, owners) == UNION {ZoneDefinitions(z, u) : u \in owners}

===============================================================================
