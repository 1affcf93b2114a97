------------------------------- MODULE DnsNames -------------------------------
(***************************************************************************)
(* Zone names (src/internal/app_logic.go, delegation_logic.go): a name is  *)
(* the sequence of its labels, leaf first, without the trailing dot.       *)
(***************************************************************************)
EXTENDS Naturals, SequencesExt

CONSTANT Lower   \* maps every label to its lower-case form

InLower(name) == [i \in DOMAIN name |-> Lower[name[i]]]

\* A strict suffix of whole labels, whatever the case.
isSubdomainOf(child, parent) ==
  /\ parent # <<>>
  /\ IsStrictSuffix(InLower(parent), InLower(child))

zoneInScope(zone, suffix) ==
  InLower(zone) = InLower(suffix) \/ isSubdomainOf(zone, suffix)

\* The placeholder stands for a whole label.
Expand(pattern, label) ==
  [i \in DOMAIN pattern |-> IF pattern[i] = "%u" THEN label ELSE pattern[i]]

\* Mutated: any SOA will do.
AnySoa(pattern, soa) == soa # <<>>

\* The test expands the pattern for a user whose label is "a".
validatePatternWithinSoa(pattern, soa) ==
  soa # <<>> /\ zoneInScope(Expand(pattern, "a"), soa)

\* Mutated: stops one zone short of the SOA.
ChainBelowSoa(name, soa) ==
  IF ~IsSuffix(soa, name) THEN <<>>
  ELSE LET extra == Len(name) - Len(soa)
       IN  [k \in 1 .. extra |-> SubSeq(name, extra - k + 1, Len(name))]

\* The zones from the SOA down to the name, compared as they are spelled; empty
\* if the name is not below the SOA.
getAuthoritativeZones(name, soa) ==
  IF ~IsSuffix(soa, name) THEN <<>>
  ELSE LET extra == Len(name) - Len(soa)
       IN  [k \in 1 .. (extra + 1) |-> SubSeq(name, extra - k + 2, Len(name))]

===============================================================================
