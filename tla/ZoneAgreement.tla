----------------------------- MODULE ZoneAgreement -----------------------------
(***************************************************************************)
(* What holds halfway through the operations of ZoneService while requests *)
(* come one at a time: what each has done and found out by the label it is *)
(* at, and where the zone table, the keys and the metadata agree.          *)
(***************************************************************************)
EXTENDS ZoneService

Owns(k)  == IsZoneOwner(k[1], k[2])
Works(k) == Usable(k[1], k[2])

\* The labels of a request up to its first change for its own pair, or for a
\* creation up to its grants to heirs.
Early ==
  {"authorize", "parentDef", "exists", "interGet", "interAdd", "nsDrop", "nsAdd",
   "dropZone", "dropKey", "addZone", "parent", "isOwner", "shareCheck",
   "targetOwner"}

\* No request turns to another pair before it is done with its own, and the
\* metadata list it is about to write back is the one that is stored.
Focused(r) ==
  /\ r.pc \in Early => r.cur = MainPair(r)
  /\ r.pc \in {"allowAdd", "allowDel"} => r.snap = allow[r.cur[2]]

\* The creator's key, then its entry in the metadata, then the row: once a creation
\* is past the row, its creator can get the zone.
CreationOnCourse(r) ==
  LET m == MainPair(r)
  IN  r.op = "create" =>
        /\ r.cur = m /\ r.pc \in {"allowRead", "allowAdd", "fetch", "insert"} =>
             m \in keys
        /\ r.cur = m /\ r.pc \in {"fetch", "insert"} => m[1] \in allow[m[2]]
        /\ r.cur = m /\ r.pc = "insert" => m[2] \in pdns
        /\ \/ r.pc \in {"parent", "shareCheck", "parentOwners", "grant", "ok"}
           \/ r.pc \in KeyLabels \cup {"insert"} /\ r.cur # m
           => Owns(m) /\ Works(m)

\* The zones that a rule makes their own SOA.
OwnSoa == {d.zone : d \in {e \in UNION {PolicyGetUserZones(u) : u \in Users} :
                            e.soa = e.zone}}

\* The zone right above `z`, which the creation of `z` delegates from unless `z` is
\* its own SOA.
RightAbove(w, z) ==
  /\ <<z, w>> \in Below
  /\ z \in ChildToward(w, z)
  /\ z \notin OwnSoa

EnsureLabels == {"interGet", "interAdd", "nsDrop", "nsAdd"}

\* A creation has delegated its zone from the zone right above it, or is still to.
DelegationOnCourse(r) ==
  r.op = "create" =>
    /\ r.pc = "exists" /\ r.at = r.zone => r.zone \in OwnSoa
    /\ r.pc \in EnsureLabels => r.at \in r.chain
    /\ r.pc \notin {"authorize", "parentDef", "exists", "refused", "failed"} =>
         \A w \in Zones : RightAbove(w, r.zone) =>
           <<w, r.zone>> \in deleg \/ (r.pc \in EnsureLabels /\ w \in r.chain)

\* Joins and additions insert the row of their own pair before any other.
GrantOnCourse(r) ==
  /\ r.op \in {"join", "add"}
  /\ \/ r.pc \in {"keyAdd", "allowRead", "allowAdd", "subtree", "grant", "ok"}
     \/ r.pc = "insert" /\ r.cur # MainPair(r)
  => Owns(MainPair(r))

\* A removal is done with its own pair before it turns to the subzones, and with each
\* subzone that it does not have to visit any more.
RemovalOnCourse(r) ==
  LET m == MainPair(r)
  IN  r.op = "remove" =>
        /\ \A t \in {r.cur} \cup r.todo : t[1] = r.target
        /\ m \notin r.todo
        /\ r.pc = "ok" => r.todo = {}
        /\ r.pc \in {"allowReadDel", "allowDel", "keyDel"} => ~ Owns(r.cur)
        /\ \/ r.pc \in {"subtree", "revoke", "ok"}
           \/ r.pc \in KeyLabels \cup {"count", "rowDel"} /\ r.cur # m
           => ~ Owns(m) /\ m \notin keys
        /\ \/ r.pc \in {"revoke", "ok"}
           \/ r.pc \in KeyLabels \cup {"count", "rowDel"} /\ r.cur # m
           => \A s \in subzonesOf(r.zone) :
                IsZoneOwner(r.target, s) =>
                  \/ ListZoneOwners(s) = {r.target}
                  \/ <<r.target, s>> \in r.todo
                  \/ r.pc \in {"count", "rowDel"} /\ r.cur = <<r.target, s>>

\* A rotation has given every owner a new key that it does not have to visit any more.
RotationOnCourse(r) ==
  r.op = "rotate" =>
    /\ \A t \in r.todo : t[2] = r.zone
    /\ r.pc = "ok" => r.todo = {}
    /\ r.pc \in KeyLabels => r.cur[2] = r.zone
    /\ r.pc \in {"allowRead", "allowAdd"} => r.cur \in keys
    /\ r.pc \in KeyLabels \cup {"rotate", "ok"} =>
         \A u \in ListZoneOwners(r.zone) :
           \/ Usable(u, r.zone)
           \/ <<u, r.zone>> \in r.todo
           \/ r.pc \in KeyLabels /\ r.cur = <<u, r.zone>>

\* A deletion takes the zone from the server before it takes the rows.
DeletionOnCourse(r) ==
  /\ r.pc = "rowsDel" => r.zone \notin pdns
  /\ r.op \in {"delete", "orphan"} /\ r.pc = "ok" =>
       ~ ZoneExists(r.zone) /\ r.zone \notin pdns

OnCourse(r) ==
  /\ Focused(r)
  /\ CreationOnCourse(r)
  /\ DelegationOnCourse(r)
  /\ GrantOnCourse(r)
  /\ RemovalOnCourse(r)
  /\ RotationOnCourse(r)
  /\ DeletionOnCourse(r)

\* Whatever calls failed before: the strengthening behind AnswersAreTrue,
\* RemovalRevokes and CreationDelegates.
CourseInv == \A p \in Procs : req[p] # Idle => OnCourse(req[p])

-------------------------------------------------------------------------------
(* Agreement, as long as no call failed *)

\* Where the table, the keys and the metadata say the same of a pair.
Settled(k) ==
  /\ k \in keys <=> Owns(k)
  /\ k[1] \in allow[k[2]] <=> Owns(k)

\* A creation at work on its creator, as against an heir.
Founding(r) == r.op = "create" /\ r.cur = MainPair(r)

\* The labels between the first and the last change for the current pair.
Halfway(r) ==
  \/ r.pc \in KeyLabels \cup {"fetch"}
  \/ r.pc = "insert" /\ Founding(r)

DeletionLabels == {"keysDel", "zoneDel", "rowsDel"}

\* The pairs a request is at work on.
Unsettled(r) ==
  {k \in Pair : \/ Halfway(r) /\ k = r.cur
                \/ r.pc \in DeletionLabels /\ k[2] = r.zone}

\* The stores agree about all others, and PowerDNS serves what is in the table.
OthersAgree(r) ==
  /\ \A k \in Pair \ Unsettled(r) : Settled(k)
  /\ \A z \in Zones :
       ZoneExists(z) => z \in pdns \/ (r.pc = "rowsDel" /\ z = r.zone)

\* How far the work on the current pair got: a key comes and goes in the order key
\* object, metadata on the way in and the other way round on the way out.
PairAtWork(r) ==
  Halfway(r) =>
    /\ r.cur[2] \in pdns
    /\ Owns(r.cur) <=> ~ Founding(r) /\ r.op # "remove"
    /\ r.cur \in keys <=> r.pc # "keyAdd"
    /\ r.cur[1] \in allow[r.cur[2]] <=>
         r.pc \in {"fetch", "insert", "allowReadDel", "allowDel"}

\* How far a deletion got with the keys of its zone.
ZoneAtWork(r) ==
  r.pc \in DeletionLabels =>
    /\ \A u \in Users : <<u, r.zone>> \in keys <=> r.pc = "keysDel" /\ u \in r.snap
    /\ IF r.pc = "rowsDel" THEN allow[r.zone] = {}
       ELSE /\ r.zone \in pdns
            /\ \A u \in Users : u \in allow[r.zone] <=> IsZoneOwner(u, r.zone)

\* What a request has found out and counts on, other than in AloneInv.
Found(r) ==
  /\ r.pc = "interAdd" => r.at \notin pdns
  /\ r.pc \in {"nsDrop", "nsAdd"} => r.at \in pdns
  /\ r.pc \in {"dropKey", "addZone"} => r.zone \notin pdns
  /\ r.pc \in {"count", "rowDel"} => Owns(r.cur)
  /\ r.op = "rotate" => \A t \in r.todo : Owns(t)
  /\ r.op \in {"create", "join", "add"} => \A t \in r.todo : ZoneExists(t[2])
  /\ r.pc = "insert" /\ ~ Founding(r) => ZoneExists(r.cur[2])
  /\ \/ r.pc \in {"parent", "shareCheck", "parentOwners", "targetOwner",
                  "ownSubs", "listKeys"}
     \/ r.pc = "isOwner" /\ r.op = "join"
     => ZoneExists(r.zone)

Agrees(r) ==
  /\ r.pc # "failed"
  /\ PairAtWork(r)
  /\ ZoneAtWork(r)
  /\ Found(r)

\* Requests one at a time and none of whose calls fails keep the stores in agreement
\* but for the pairs they are at work on, and find what they need at every call: the
\* strengthening behind OwnersHoldKeys and AloneNeverFails.
AgreeInv ==
  faults = 0 =>
    \A p \in Procs :
      /\ OthersAgree(req[p])
      /\ req[p] # Idle => Agrees(req[p])

-------------------------------------------------------------------------------
(* Owners of a zone own what is below it, as long as nobody is removed from one *)

Leaving == {"remove"}
Giving  == {"create", "join", "add"}

\* In the loop over the subzones or the heirs.
Looping(r) ==
  \/ r.pc = "grant"
  \/ r.pc \in {"insert", "keyAdd", "allowRead", "allowAdd"} /\ r.cur # MainPair(r)

\* The request is yet to make `u` an owner of `z`, or to list those it is to.
Coming(r, u, z) ==
  /\ r # Idle
  /\ r.op \in Giving
  /\ \/ <<u, z>> \in r.todo
     \/ r.pc = "insert" /\ r.cur = <<u, z>>
     \/ /\ r.op # "create"
        /\ u = MainPair(r)[1] /\ <<z, r.zone>> \in Below
        /\ \/ r.pc = "subtree"
           \/ r.pc \in {"keyAdd", "allowRead", "allowAdd"} /\ r.cur = MainPair(r)
     \/ r.op = "create" /\ z = r.zone /\ r.pc \in {"parent", "shareCheck", "parentOwners"}

\* Every owner of a zone owns the zones below it, or a request will see to it.
OwnedBelow ==
  \A w \in Zones : \A z \in subzonesOf(w) : \A u \in ListZoneOwners(w) :
    IsZoneOwner(u, z) \/ \E p \in Procs : Coming(req[p], u, z)

OwnsAbove(u, z) == \E w \in Zones : <<z, w>> \in Below /\ IsZoneOwner(u, w)

\* A zone, or one above it, has an owner whom the policy entitles to the zone, so that
\* its sharing is not unknown once the owners above have come down.
Represented(z) ==
  \E v \in Users :
    PolicyIsZoneAllowedForUser(z, v) /\ (IsZoneOwner(v, z) \/ OwnsAbove(v, z))

AllRepresented == \A z \in Zones : ZoneExists(z) => Represented(z)

\* The policy allows the new zone for its creator or for an owner above it.
Warranted(r) ==
  \E v \in Users : /\ PolicyIsZoneAllowedForUser(r.zone, v)
                   /\ v = r.caller \/ OwnsAbove(v, r.zone)

\* A pair of the loop: heirs own a zone above the new one, subzones are below the
\* zone that is shared.
Heir(r, t) ==
  \/ r.op = "create" /\ t[2] = r.zone /\ OwnsAbove(t[1], r.zone)
  \/ r.op # "create" /\ t[1] = MainPair(r)[1] /\ <<t[2], r.zone>> \in Below

\* What a creation, join or addition has found out, and the pairs it is to grant.
Inheriting(r) ==
  /\ r.op \in Giving =>
       /\ Looping(r) \/ r.todo = {}
       /\ r.cur = MainPair(r) \/ Heir(r, r.cur)
       /\ \A t \in r.todo : Heir(r, t)
  /\ r.op = "create" /\ r.pc \notin {"authorize", "parentDef"} \cup Replied =>
       Warranted(r)
  /\ r.op = "create" /\ r.pc \in {"shareCheck", "parentOwners"} =>
       r.at \in closestStoredParent(r.zone)

\* Under rules that share every zone and without removals: the strengthening behind
\* SubtreeOwnership. It holds of requests one at a time, and of overlapping grants too
\* when only one level of subzones is stored: of a creation and a grant, whichever
\* inserts its row last is yet to read the row of the other.
SubtreeInv ==
  /\ AllRepresented
  /\ OwnedBelow
  /\ \A p \in Procs : req[p] # Idle => req[p].op \notin Leaving /\ Inheriting(req[p])

\* Every rule allows sharing.
RulesShare == \A i \in DOMAIN Rules : Rules[i].share

\* An API token gives nobody a zone that their session does not: no earlier rule of a
\* user hides what the filter "*" gives everybody.
TokensGiveNoMore ==
  \A z \in Zones :
    PolicyIsZoneAllowedForUser(z, NoEmail) =>
      \A u \in Users : PolicyIsZoneAllowedForUser(z, u)

\* Tables that such requests have left behind.
TablesShareSubtrees ==
  \A table \in InitTables : \A z \in StoredZones(table) :
    LET Owners(w) == {table[w][i] : i \in DOMAIN table[w]}
    IN  /\ \A w \in Zones : <<z, w>> \in Below => Owners(w) \subseteq Owners(z)
        /\ \E v \in Owners(z) : PolicyIsZoneAllowedForUser(z, v)

\* Nobody creates a zone above one that they do not own: a creation looks up to the
\* zones above only.
CreatesAboveOwn ==
  \A p \in Procs :
    At(p, "insert") /\ Founding(req[p]) =>
      \A z \in subzonesOf(req[p].zone) : IsZoneOwner(req[p].caller, z)

===============================================================================
