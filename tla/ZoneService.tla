----------------------------- MODULE ZoneService ------------------------------
(***************************************************************************)
(* The zone operations of dynamic-zones: create, join, share, leave,       *)
(* rotate, delete and the removal of orphans.  Each HTTP request runs in a *)
(* goroutine of its own and works on two stores, the zone table of the     *)
(* database and the PowerDNS server, without a lock or a transaction: one  *)
(* step of this module is one call of a request to one of the stores, with *)
(* the computation up to the next call.  What a request read in an earlier *)
(* step it remembers in its record, and may act on when it is stale.       *)
(***************************************************************************)
EXTENDS ZonePolicy, FiniteSets

CONSTANTS
  NoEmail,     \* the e-mail address in the claims of an API token: none
  Procs,       \* concurrent requests
  Ops,         \* the operations the clients use
  Logins,      \* how they log in: "session" (OIDC) or "token" (API token)
  InitTables,  \* what may be stored at the start: each zone's owners, oldest first
  MaxRequests, \* bound on the requests received, 0 for no bound
  MaxFaults    \* bound on failed calls and crashes together

AllOps == {"create", "join", "add", "remove", "rotate", "delete", "orphan"}

\* The policy is asked about the empty address as about any other, but nobody has
\* it.  What matches it is a filter with a bare "*", which matches everybody.
ASSUME NoEmailAssumption ==
  /\ NoEmail \in Users
  /\ \A i \in DOMAIN Rules : NoEmail \in Rules[i].users => Rules[i].users = Users

ASSUME ServiceAssumption ==
  /\ Ops \subseteq AllOps
  /\ Logins \subseteq {"session", "token"}
  /\ InitTables \subseteq [Zones -> Seq(Users)]
  /\ MaxRequests \in Nat
  /\ MaxFaults \in Nat

VARIABLES
  rows,    \* the zone table: per zone its owner rows, ids kept only up to order
  pdns,    \* the zones PowerDNS serves
  keys,    \* TSIG key objects <<user, zone>>, named by keyNameFor
  allow,   \* per zone the users whose key TSIG-ALLOW-DNSUPDATE lists
  deleg,   \* NS delegations <<parent, child>>
  req,     \* the request each process is handling, and how far it got
  started, \* requests received so far, counted only up to a bound
  faults   \* failed calls and crashes so far

dnsVars == <<pdns, keys, allow, deleg>>
budget  == <<started, faults>>
vars    == <<rows, pdns, keys, allow, deleg, req, started, faults>>

-------------------------------------------------------------------------------
(* Requests *)

Row  == [user : Users, id : Nat]
Pair == Users \X Zones

Replied == {"ok", "refused", "failed"}   \* 2xx, 4xx, 5xx

Labels == Replied \cup
  {"authorize", "parentDef", "exists", "interGet", "interAdd", "nsDrop",
   "nsAdd", "dropZone", "dropKey", "addZone", "fetch", "parent",
   "shareCheck", "parentOwners", "isOwner", "targetOwner", "insert",
   "keyAdd", "allowRead", "allowAdd", "subtree", "grant", "count", "rowDel",
   "allowReadDel", "allowDel", "keyDel", "revoke", "listOwners", "rotate",
   "lookup", "ownSubs", "listKeys", "keysDel", "zoneDel", "rowsDel"}

Request ==
  [op : AllOps, login : {"session", "token"}, caller : Users,
   zone : Zones, target : Users,
   pc    : Labels,
   at    : Zones,          \* the SOA, or the parent zone being looked at
   chain : SUBSET Zones,   \* intermediate zones still to ensure
   todo  : SUBSET Pair,    \* pairs of a loop still to visit
   cur   : Pair,           \* the pair whose row or key is being changed
   snap  : SUBSET Users]   \* a metadata list as last read

Idle == [pc |-> "idle"]

Fresh(op, login, caller, zone, target, pc) ==
  [op |-> op, login |-> login, caller |-> caller, zone |-> zone,
   target |-> target, pc |-> pc, at |-> zone, chain |-> {}, todo |-> {},
   cur |-> <<IF op = "create" \/ op = "join" THEN caller ELSE target, zone>>,
   snap |-> {}]

At(p, pc)       == req[p].pc = pc
Set(p, r)       == req' = [req EXCEPT ![p] = r]
Goto(p, pc)     == Set(p, [req[p] EXCEPT !.pc = pc])
Reply(p, status) ==
  LET r == req[p]
  IN  Set(p, Fresh(r.op, r.login, r.caller, r.zone, r.target, status))

\* The pair the request itself is about, as against one of its subzones or,
\* for a create, an inheriting owner.
MainPair(r) == Fresh(r.op, r.login, r.caller, r.zone, r.target, r.pc).cur

\* Mutated: the visited pair stays in the loop.
VisitAgain(r, t) == [r EXCEPT !.cur = t]

\* Leaves only unvisited pairs in todo; the order of a loop is not modelled.
Visit(r, t) == [r EXCEPT !.cur = t, !.todo = @ \ {t}]

-------------------------------------------------------------------------------
(* The zone table (src/internal/storage.go) *)

ListZoneOwners(z)  == {w.user : w \in rows[z]}
IsZoneOwner(u, z)  == u \in ListZoneOwners(z)
ZoneExists(z)      == rows[z] # {}
CountOthers(z)     == Cardinality(rows[z]) - 1              \* mutated
CountAllRows(z)    == Cardinality(UNION {rows[w] : w \in Zones})  \* mutated
CountZoneOwners(z) == Cardinality(rows[z])
ListUserZones(u)   == {z \in Zones : IsZoneOwner(u, z)}

\* First: the row with the lowest id, or none.
GetZoneByName(z)   == {w \in rows[z] : \A v \in rows[z] : w.id <= v.id}

\* The rows that stay, with ids renumbered in their old order.
Renumbered(S) ==
  {[w EXCEPT !.id = Cardinality({v \in S : v.id <= w.id})] : w \in S}

\* Mutated: stores the name of the zone as that of the user, ...
CreateZoneSwapped(u, z) ==
  rows' = [rows EXCEPT ![z] = @ \cup {[user |-> z, id |-> Cardinality(@) + 1]}]

\* ... and deletes the rows of every owner.
DeleteZoneOfAll(u, z) == rows' = [rows EXCEPT ![z] = {}]

\* Nothing makes (zone, username) unique: a second row of one owner is possible.
CreateZone(u, z) ==
  rows' = [rows EXCEPT ![z] = @ \cup {[user |-> u, id |-> Cardinality(@) + 1]}]

DeleteZone(u, z) ==
  rows' = [rows EXCEPT ![z] = Renumbered({w \in @ : w.user # u})]

DeleteAllZoneOwners(z) == rows' = [rows EXCEPT ![z] = {}]

\* subzonesOf and closestStoredParent (src/internal/zone_sharing.go).
subzonesOf(z) == {s \in Zones : ZoneExists(s) /\ <<s, z>> \in Below}

closestStoredParent(z) ==
  Closest({w \in Zones : ZoneExists(w) /\ <<z, w>> \in Below})

\* Mutated: reads AllowSubdomains for SharingAllowed.
SubdomainAnswers(defs) ==
  IF defs = {} THEN {FALSE} ELSE {d.sub : d \in defs}

\* zoneSharingAllowed for a zone whose governing definitions are these.
SharingAnswers(defs) ==
  IF defs = {} THEN {FALSE} ELSE {d.share : d \in defs}

zoneSharingAnswers(z) == SharingAnswers(GoverningDefs(z, ListZoneOwners(z)))

\* Mutated: whatever the policy gives anybody.
AnybodysDefinitions(r) == UNION {ZoneDefinitions(r.zone, u) : u \in Users}

\* What the policy gives the caller: API token claims carry a user name only, so a
\* token caller is judged by the empty e-mail address.
CallerDefinitions(r) ==
  ZoneDefinitions(r.zone, IF r.login = "session" THEN r.caller ELSE NoEmail)

-------------------------------------------------------------------------------
(* PowerDNS as the client in src/internal/powerdns_client.go uses it *)

\* Zones.Delete: metadata and records go with the zone, TSIG keys stay.
ZonesDelete(z) ==
  /\ pdns' = pdns \ {z}
  /\ allow' = [allow EXCEPT ![z] = {}]
  /\ deleg' = {d \in deleg : d[1] # z}
  /\ UNCHANGED keys

\* Zones.Add of a zone that is not there.
ZonesAdd(z) ==
  /\ pdns' = pdns \cup {z}
  /\ UNCHANGED <<keys, allow, deleg>>

\* The one name right below `z` on the way down to `zone`, as a set.
ChildToward(z, zone) ==
  {c \in Zones : /\ AtOrBelow(zone, c)
                /\ <<c, z>> \in Below
                /\ ~ \E d \in Zones : <<c, d>> \in Below /\ <<d, z>> \in Below}

\* Mutated: the zones strictly between the two.
StrictlyBetween(zone, soa) == {z \in Zones : <<z, soa>> \in Below /\ <<zone, z>> \in Below}

\* getAuthoritativeZones without the requested zone itself.
Intermediates(zone, soa) ==
  {z \in Zones : AtOrBelow(z, soa) /\ <<zone, z>> \in Below}

-------------------------------------------------------------------------------
(* Starting and answering a request *)

FirstLabel(op) ==
  CASE op = "create" -> "authorize"
    [] op = "join"   -> "exists"
    [] op = "orphan" -> "lookup"
    [] OTHER         -> "isOwner"

Receive(p) ==
  /\ At(p, "idle")
  /\ \E op \in Ops, login \in Logins, caller \in Users \ {NoEmail}, zone \in Zones :
       \E target \in IF op \in {"add", "remove"} THEN Users \ {NoEmail} ELSE {caller} :
         /\ login = "token" => op \in {"create", "join"}  \* no difference elsewhere
         /\ Set(p, Fresh(op, login, caller, zone, target, FirstLabel(op)))
  /\ MaxRequests = 0 \/ started < MaxRequests
  /\ started' = IF MaxRequests = 0 THEN 0 ELSE started + 1
  /\ UNCHANGED <<rows, dnsVars, faults>>

Respond(p) ==
  /\ req[p].pc \in Replied
  /\ Set(p, Idle)
  /\ UNCHANGED <<rows, dnsVars, budget>>

-------------------------------------------------------------------------------
(* postZone and ZoneCreate *)

\* The caller's own policy entitlement, or else their closest owned zone above.
Authorize(p) ==
  LET r     == req[p]
      owned == Closest({w \in ListUserZones(r.caller) : <<r.zone, w>> \in Below})
  IN  /\ At(p, "authorize")
      /\ \/ \E d \in CallerDefinitions(r) :
              Set(p, [r EXCEPT !.pc = "exists", !.at = d.soa])
         \/ /\ CallerDefinitions(r) = {}
            /\ \E w \in owned : Set(p, [r EXCEPT !.pc = "parentDef", !.at = w])
         \/ /\ CallerDefinitions(r) = {}
            /\ owned = {}
            /\ Reply(p, "refused")
      /\ UNCHANGED <<rows, dnsVars, budget>>

\* subzoneDefViaOwnedParent: does the owned parent's policy allow subdomains?
ParentDefinition(p) ==
  LET r    == req[p]
      defs == GoverningDefs(r.at, ListZoneOwners(r.at))
  IN  /\ At(p, "parentDef")
      /\ \/ (\E d \in defs : d.sub) /\ Goto(p, "exists")
         \/ (\E d \in defs : ~ d.sub) /\ Reply(p, "refused")
         \/ defs = {} /\ Reply(p, "refused")
      /\ UNCHANGED <<rows, dnsVars, budget>>

\* The request with the zones of `chain` left to ensure, from the SOA down, as a
\* set: at the topmost of them, or done with them.
Ensuring(r, chain) ==
  IF chain = {}
    THEN {[r EXCEPT !.chain = {}, !.pc = "dropZone"]}
    ELSE {[r EXCEPT !.chain = chain, !.at = z, !.pc = "interGet"] :
            z \in {y \in chain : \A w \in chain : <<y, w>> \notin Below}}

CreateExists(p) ==
  LET r == req[p]
  IN  /\ At(p, "exists")
      /\ r.op = "create"
      /\ \/ (ZoneExists(r.zone) \/ ~ AtOrBelow(r.zone, r.at)) /\ Reply(p, "refused")
         \/ /\ ~ ZoneExists(r.zone)
            /\ AtOrBelow(r.zone, r.at)
            /\ \E s \in Ensuring(r, Intermediates(r.zone, r.at)) : Set(p, s)
      /\ UNCHANGED <<rows, dnsVars, budget>>

\* EnsureIntermediateZoneExists: Zones.Get.
IntermediateGet(p) ==
  /\ At(p, "interGet")
  /\ Goto(p, IF req[p].at \in pdns THEN "nsDrop" ELSE "interAdd")
  /\ UNCHANGED <<rows, dnsVars, budget>>

IntermediateAdd(p) ==
  LET z == req[p].at
  IN  /\ At(p, "interAdd")
      /\ \/ z \in pdns /\ Reply(p, "failed") /\ UNCHANGED dnsVars
         \/ z \notin pdns /\ Goto(p, "nsDrop") /\ ZonesAdd(z)
      /\ UNCHANGED <<rows, budget>>

\* Records.Delete of the child's NS set; an error is ignored.
DelegationDrop(p) ==
  LET r == req[p]
  IN  /\ At(p, "nsDrop")
      /\ deleg' = deleg \ ({r.at} \X ChildToward(r.at, r.zone))
      /\ Goto(p, "nsAdd")
      /\ UNCHANGED <<rows, pdns, keys, allow, budget>>

DelegationAdd(p) ==
  LET r == req[p]
  IN  /\ At(p, "nsAdd")
      /\ \/ r.at \notin pdns /\ Reply(p, "failed") /\ UNCHANGED deleg
         \/ /\ r.at \in pdns
            /\ deleg' = deleg \cup ({r.at} \X ChildToward(r.at, r.zone))
            /\ \E s \in Ensuring(r, r.chain \ {r.at}) : Set(p, s)
      /\ UNCHANGED <<rows, pdns, keys, allow, budget>>

\* Mutated: CreateUserZone without force.
KeepZone(p) ==
  /\ At(p, "dropZone")
  /\ Goto(p, "dropKey")
  /\ UNCHANGED <<rows, dnsVars, budget>>

\* CreateUserZone with force: whatever PowerDNS holds of the zone goes first.
DropZone(p) ==
  /\ At(p, "dropZone")
  /\ ZonesDelete(req[p].zone)
  /\ Goto(p, "dropKey")
  /\ UNCHANGED <<rows, budget>>

DropKey(p) ==
  /\ At(p, "dropKey")
  /\ keys' = keys \ {<<req[p].caller, req[p].zone>>}
  /\ Goto(p, "addZone")
  /\ UNCHANGED <<rows, pdns, allow, deleg, budget>>

AddZone(p) ==
  LET z == req[p].zone
  IN  /\ At(p, "addZone")
      /\ \/ z \in pdns /\ Reply(p, "failed") /\ UNCHANGED dnsVars
         \/ z \notin pdns /\ Goto(p, "keyAdd") /\ ZonesAdd(z)
      /\ UNCHANGED <<rows, budget>>

\* GetZone at the end of CreateUserZone: the key it lists must be there.
FetchZone(p) ==
  LET r == req[p]
  IN  /\ At(p, "fetch")
      /\ \/ /\ \/ r.zone \notin pdns
               \/ r.caller \in allow[r.zone] /\ r.cur \notin keys
            /\ Reply(p, "failed")
         \/ /\ r.zone \in pdns
            /\ r.caller \in allow[r.zone] => r.cur \in keys
            /\ Goto(p, "insert")
      /\ UNCHANGED <<rows, dnsVars, budget>>

\* inheritOwnersFromParent, after the new zone's row is in the table.
FindParent(p) ==
  LET r       == req[p]
      parents == closestStoredParent(r.zone)
  IN  /\ At(p, "parent")
      /\ \/ parents = {} /\ Reply(p, "ok")
         \/ \E w \in parents : Set(p, [r EXCEPT !.pc = "shareCheck", !.at = w])
      /\ UNCHANGED <<rows, dnsVars, budget>>

ParentSharing(p) ==
  LET r == req[p]
  IN  /\ At(p, "shareCheck")
      /\ r.op = "create"
      /\ \E share \in zoneSharingAnswers(r.at) :
           IF share THEN Goto(p, "parentOwners") ELSE Reply(p, "ok")
      /\ UNCHANGED <<rows, dnsVars, budget>>

ParentOwners(p) ==
  LET r == req[p]
  IN  /\ At(p, "parentOwners")
      /\ Set(p, [r EXCEPT !.pc = "grant",
                   !.todo = (ListZoneOwners(r.at) \ {r.caller}) \X {r.zone}])
      /\ UNCHANGED <<rows, dnsVars, budget>>

-------------------------------------------------------------------------------
(* ZoneJoin, ZoneAddOwner, and the granting of ownership *)

JoinExists(p) ==
  LET r == req[p]
  IN  /\ At(p, "exists")
      /\ r.op = "join"
      /\ IF ZoneExists(r.zone) THEN Goto(p, "isOwner") ELSE Reply(p, "refused")
      /\ UNCHANGED <<rows, dnsVars, budget>>

\* An owner already is told so; anyone else needs a sharing policy of their own.
JoinAuthorize(p) ==
  LET r == req[p]
  IN  /\ At(p, "isOwner")
      /\ r.op = "join"
      /\ \/ IsZoneOwner(r.caller, r.zone) /\ Reply(p, "ok")
         \/ /\ ~ IsZoneOwner(r.caller, r.zone)
            /\ IF \E d \in CallerDefinitions(r) : d.share
                 THEN Goto(p, "insert")
                 ELSE Reply(p, "refused")
      /\ UNCHANGED <<rows, dnsVars, budget>>

AfterOwnerCheck ==
  [add |-> "shareCheck", remove |-> "targetOwner", rotate |-> "listOwners",
   delete |-> "ownSubs"]

CallerIsOwner(p) ==
  LET r == req[p]
  IN  /\ At(p, "isOwner")
      /\ r.op \in DOMAIN AfterOwnerCheck
      /\ IF IsZoneOwner(r.caller, r.zone)
           THEN Goto(p, AfterOwnerCheck[r.op])
           ELSE Reply(p, "refused")
      /\ UNCHANGED <<rows, dnsVars, budget>>

AddSharing(p) ==
  LET r == req[p]
  IN  /\ At(p, "shareCheck")
      /\ r.op = "add"
      /\ \E share \in zoneSharingAnswers(r.zone) :
           IF share THEN Goto(p, "targetOwner") ELSE Reply(p, "refused")
      /\ UNCHANGED <<rows, dnsVars, budget>>

AddTarget(p) ==
  LET r == req[p]
  IN  /\ At(p, "targetOwner")
      /\ r.op = "add"
      /\ Goto(p, IF IsZoneOwner(r.target, r.zone) THEN "subtree" ELSE "insert")
      /\ UNCHANGED <<rows, dnsVars, budget>>

\* Storage.CreateZone: before the key, except for the creator's own row.
InsertRow(p) ==
  LET r == req[p]
  IN  /\ At(p, "insert")
      /\ CreateZone(r.cur[1], r.cur[2])
      /\ Goto(p, IF r.op = "create" /\ r.cur = MainPair(r)
                   THEN "parent" ELSE "keyAdd")
      /\ UNCHANGED <<dnsVars, budget>>

\* AddOwnerKey and addKeyToZone: the TSIG key object, reused or created ...
KeyAdd(p) ==
  /\ At(p, "keyAdd")
  /\ keys' = keys \cup {req[p].cur}
  /\ Goto(p, "allowRead")
  /\ UNCHANGED <<rows, pdns, allow, deleg, budget>>

\* ... and its entry in the metadata, which is read here
AllowRead(p) ==
  LET r == req[p]
      z == r.cur[2]
  IN  /\ At(p, "allowRead")
      /\ IF z \in pdns
           THEN Set(p, [r EXCEPT !.pc = "allowAdd", !.snap = allow[z]])
           ELSE Reply(p, "failed")
      /\ UNCHANGED <<rows, dnsVars, budget>>

\* Where a request goes once a key is in place.
AfterKey(r) ==
  CASE r.op = "rotate"                                  -> "rotate"
    [] r.op = "create" /\ r.cur = MainPair(r)           -> "fetch"
    [] r.op \in {"join", "add"} /\ r.cur = MainPair(r)  -> "subtree"
    [] OTHER                                            -> "grant"

\* ... and written back, with whatever else the list held when it was read.
AllowAdd(p) ==
  LET r == req[p]
      z == r.cur[2]
  IN  /\ At(p, "allowAdd")
      /\ \/ z \notin pdns /\ Reply(p, "failed") /\ UNCHANGED allow
         \/ /\ z \in pdns
            /\ allow' = [allow EXCEPT ![z] = r.snap \cup {r.cur[1]}]
            /\ Set(p, [r EXCEPT !.pc = AfterKey(r), !.snap = {}])
      /\ UNCHANGED <<rows, pdns, keys, deleg, budget>>

\* Mutated: only the subzones the caller owns.
ListOwnSubtree(p) ==
  LET r == req[p]
      u == MainPair(r)[1]
  IN  /\ At(p, "subtree")
      /\ Set(p, [r EXCEPT
                   !.todo = {u} \X (subzonesOf(r.zone) \cap ListUserZones(r.caller)),
                   !.pc = IF r.op = "remove" THEN "revoke" ELSE "grant"])
      /\ UNCHANGED <<rows, dnsVars, budget>>

\* subzonesOf, the list grantOwnerSubtree and revokeOwnerSubtree walk through.
ListSubtree(p) ==
  LET r == req[p]
      u == MainPair(r)[1]
  IN  /\ At(p, "subtree")
      /\ Set(p, [r EXCEPT !.todo = {u} \X subzonesOf(r.zone),
                   !.pc = IF r.op = "remove" THEN "revoke" ELSE "grant"])
      /\ UNCHANGED <<rows, dnsVars, budget>>

\* grantOwner for the next pair of the loop; an owner already is skipped.
GrantNext(p) ==
  LET r == req[p]
  IN  /\ At(p, "grant")
      /\ \/ r.todo = {} /\ Reply(p, "ok")
         \/ \E t \in r.todo :
              Set(p, IF IsZoneOwner(t[1], t[2])
                       THEN [r EXCEPT !.todo = @ \ {t}]
                       ELSE [Visit(r, t) EXCEPT !.pc = "insert"])
      /\ UNCHANGED <<rows, dnsVars, budget>>

-------------------------------------------------------------------------------
(* ZoneRemoveOwner, revokeOwnerSubtree and ZoneRotateKeys *)

RemoveTarget(p) ==
  LET r == req[p]
  IN  /\ At(p, "targetOwner")
      /\ r.op = "remove"
      /\ IF IsZoneOwner(r.target, r.zone)
           THEN Goto(p, "count") ELSE Reply(p, "refused")
      /\ UNCHANGED <<rows, dnsVars, budget>>

\* The last owner of the zone is refused, of a subzone kept.
CountOwners(p) ==
  LET r == req[p]
  IN  /\ At(p, "count")
      /\ \/ CountZoneOwners(r.cur[2]) > 1 /\ Goto(p, "rowDel")
         \/ /\ CountZoneOwners(r.cur[2]) <= 1
            /\ IF r.cur = MainPair(r)
                 THEN Reply(p, "refused") ELSE Goto(p, "revoke")
      /\ UNCHANGED <<rows, dnsVars, budget>>

DeleteRow(p) ==
  LET r == req[p]
  IN  /\ At(p, "rowDel")
      /\ DeleteZone(r.cur[1], r.cur[2])
      /\ Goto(p, "allowReadDel")
      /\ UNCHANGED <<dnsVars, budget>>

\* RemoveOwnerKey: the metadata entry goes first, and errors there are ignored;
AllowReadForDelete(p) ==
  LET r == req[p]
      z == r.cur[2]
  IN  /\ At(p, "allowReadDel")
      /\ IF z \in pdns
           THEN Set(p, [r EXCEPT !.pc = "allowDel", !.snap = allow[z]])
           ELSE Goto(p, "keyDel")
      /\ UNCHANGED <<rows, dnsVars, budget>>

AllowDelete(p) ==
  LET r == req[p]
      z == r.cur[2]
  IN  /\ At(p, "allowDel")
      /\ allow' = IF z \in pdns
                    THEN [allow EXCEPT ![z] = r.snap \ {r.cur[1]}] ELSE allow
      /\ Set(p, [r EXCEPT !.pc = "keyDel", !.snap = {}])
      /\ UNCHANGED <<rows, pdns, keys, deleg, budget>>

\* then the key object, which must be there.
KeyDelete(p) ==
  LET r    == req[p]
      next == CASE r.op = "rotate"                          -> "keyAdd"
                [] r.op = "remove" /\ r.cur = MainPair(r)   -> "subtree"
                [] OTHER                                    -> "revoke"
  IN  /\ At(p, "keyDel")
      /\ \/ r.cur \notin keys /\ Reply(p, "failed") /\ UNCHANGED keys
         \/ /\ r.cur \in keys
            /\ keys' = keys \ {r.cur}
            /\ Goto(p, next)
      /\ UNCHANGED <<rows, pdns, allow, deleg, budget>>

RevokeNext(p) ==
  LET r == req[p]
  IN  /\ At(p, "revoke")
      /\ \/ r.todo = {} /\ Reply(p, "ok")
         \/ \E t \in r.todo :
              Set(p, IF IsZoneOwner(t[1], t[2])
                       THEN [Visit(r, t) EXCEPT !.pc = "count"]
                       ELSE [r EXCEPT !.todo = @ \ {t}])
      /\ UNCHANGED <<rows, dnsVars, budget>>

ListOwners(p) ==
  LET r == req[p]
  IN  /\ At(p, "listOwners")
      /\ Set(p, [r EXCEPT !.pc = "rotate",
                   !.todo = ListZoneOwners(r.zone) \X {r.zone}])
      /\ UNCHANGED <<rows, dnsVars, budget>>

\* RotateZoneKeys: RemoveOwnerKey and AddOwnerKey of one owner after the other.
RotateNext(p) ==
  LET r == req[p]
  IN  /\ At(p, "rotate")
      /\ \/ r.todo = {} /\ Reply(p, "ok")
         \/ \E t \in r.todo : Set(p, [Visit(r, t) EXCEPT !.pc = "allowReadDel"])
      /\ UNCHANGED <<rows, dnsVars, budget>>

-------------------------------------------------------------------------------
(* deleteOrphanedZone and ZoneDelete *)

\* Only the owner in the first row is asked about; the deletion runs as them.
OrphanLookup(p) ==
  LET r == req[p]
  IN  /\ At(p, "lookup")
      /\ \/ GetZoneByName(r.zone) = {} /\ Reply(p, "refused")
         \/ \E w \in GetZoneByName(r.zone) :
              IF PolicyIsZoneAllowedForUser(r.zone, w.user)
                THEN Reply(p, "refused")
                ELSE Set(p, [r EXCEPT !.pc = "ownSubs", !.caller = w.user])
      /\ UNCHANGED <<rows, dnsVars, budget>>

\* Refused while the caller still owns a zone below.
OwnSubzones(p) ==
  LET r == req[p]
  IN  /\ At(p, "ownSubs")
      /\ IF \E s \in ListUserZones(r.caller) : <<s, r.zone>> \in Below
           THEN Reply(p, "refused") ELSE Goto(p, "listKeys")
      /\ UNCHANGED <<rows, dnsVars, budget>>

\* PowerDnsClient.DeleteZone: every key the metadata lists, then the zone.
ListKeys(p) ==
  LET r == req[p]
  IN  /\ At(p, "listKeys")
      /\ IF r.zone \in pdns
           THEN Set(p, [r EXCEPT !.snap = allow[r.zone],
                          !.pc = IF allow[r.zone] = {} THEN "zoneDel" ELSE "keysDel"])
           ELSE Reply(p, "failed")
      /\ UNCHANGED <<rows, dnsVars, budget>>

DeleteNextKey(p) ==
  LET r == req[p]
  IN  /\ At(p, "keysDel")
      /\ \E u \in r.snap :
           \/ <<u, r.zone>> \notin keys /\ Reply(p, "failed") /\ UNCHANGED keys
           \/ /\ <<u, r.zone>> \in keys
              /\ keys' = keys \ {<<u, r.zone>>}
              /\ Set(p, [r EXCEPT !.snap = @ \ {u},
                           !.pc = IF r.snap = {u} THEN "zoneDel" ELSE "keysDel"])
      /\ UNCHANGED <<rows, pdns, allow, deleg, budget>>

DeleteFromDns(p) ==
  LET z == req[p].zone
  IN  /\ At(p, "zoneDel")
      /\ \/ z \notin pdns /\ Reply(p, "failed") /\ UNCHANGED dnsVars
         \/ z \in pdns /\ Goto(p, "rowsDel") /\ ZonesDelete(z)
      /\ UNCHANGED <<rows, budget>>

DeleteRows(p) ==
  /\ At(p, "rowsDel")
  /\ DeleteAllZoneOwners(req[p].zone)
  /\ Reply(p, "ok")
  /\ UNCHANGED <<dnsVars, budget>>

-------------------------------------------------------------------------------
(* Reading: what a user is shown, in one step, from the stores as they are *)

\* A key validates for a zone when PowerDNS serves the zone, lists the key in its
\* metadata and holds the key object.
Usable(u, z) == z \in pdns /\ u \in allow[z] /\ <<u, z>> \in keys

\* ZoneGet: an owner is shown the zone with their own key, without which there is
\* no configuration to show.
ZoneGet(u, z) ==
  CASE ~ IsZoneOwner(u, z) -> "refused"
    [] Usable(u, z)        -> "ok"
    [] OTHER               -> "failed"

\* getZones in a session, first part: the zones of the user's own rules.
BaseStatus(u, d) ==
  LET mine  == IsZoneOwner(u, d.zone)
      other == ZoneExists(d.zone) /\ ~ mine
  IN  [zone |-> d.zone, exists |-> mine, canJoin |-> other /\ d.share,
       taken |-> other /\ ~ d.share, sub |-> d.sub, share |-> d.share, parent |-> {}]

\* The zones a user owns otherwise: subzones, and zones shared with them.
CreatedZones(u) ==
  ListUserZones(u) \ {d.zone : d \in PolicyGetUserZones(u)}

\* zoneGoverningDef of each of these: any of several, or none.
GoverningChoices(u) ==
  LET Choices(z) == {{d} : d \in GoverningDefs(z, ListZoneOwners(z))}
      Possible(z) == IF Choices(z) = {} THEN {{}} ELSE Choices(z)
  IN  {gov \in [CreatedZones(u) -> UNION {Possible(z) : z \in CreatedZones(u)}] :
         \A z \in CreatedZones(u) : gov[z] \in Possible(z)}

\* Mutated: every base zone, whether or not it may have subzones.
EveryBase(u, gov) ==
  {d.zone : d \in PolicyGetUserZones(u)} \cup CreatedZones(u)

\* The closest of the zones that may have subzones above z.
SubzoneBases(u, gov) ==
  {d.zone : d \in {e \in PolicyGetUserZones(u) : e.sub}} \cup
  {z \in CreatedZones(u) : \E d \in gov[z] : d.sub}

ListedParent(u, gov, z) == Closest({w \in SubzoneBases(u, gov) : <<z, w>> \in Below})

\* The base whose flags a listed subzone shows.
SharingOf(u, gov, w) ==
  \/ \E d \in ExactMatches(w, u) : d.share
  \/ w \in CreatedZones(u) /\ \E d \in gov[w] : d.share

\* Second part: a subzone has its parent's flags, a zone that has no parent those
\* of its own governing definition.
CreatedStatus(u, gov, z) ==
  LET parent == ListedParent(u, gov, z)
  IN  [zone |-> z, exists |-> TRUE, canJoin |-> FALSE, taken |-> FALSE,
       sub    |-> parent # {} \/ \E d \in gov[z] : d.sub,
       share  |-> IF parent = {} THEN \E d \in gov[z] : d.share
                                 ELSE \E w \in parent : SharingOf(u, gov, w),
       parent |-> parent]

\* Every listing getZones may answer with.
Listings(u) ==
  {{BaseStatus(u, d) : d \in PolicyGetUserZones(u)} \cup
   {CreatedStatus(u, gov, z) : z \in CreatedZones(u)} : gov \in GoverningChoices(u)}

-------------------------------------------------------------------------------
(* Failures: a call that returns an error, and the death of the process *)

\* Mutated: a creation goes on although its key is not in the metadata.
IgnoringMetadata ==
  [interGet |-> "interAdd", nsDrop |-> "nsAdd", dropZone |-> "dropKey",
   dropKey |-> "addZone", allowReadDel |-> "keyDel", allowDel |-> "keyDel",
   allowAdd |-> "fetch"]

\* Where the code goes on although the call at the label failed.
AfterIgnoredError ==
  [interGet |-> "interAdd", nsDrop |-> "nsAdd", dropZone |-> "dropKey",
   dropKey |-> "addZone", allowReadDel |-> "keyDel", allowDel |-> "keyDel"]

\* A request between two calls: the loop ends, or is about to make its next call.
BetweenCalls(r) ==
  \/ r.pc \in Replied \cup {"idle", "rotate"}
  \/ r.pc = "grant" /\ r.op = "create" /\ r.todo = {}

\* The database or PowerDNS does not answer, or the client hung up and the
\* request's context is cancelled.  A call that took effect although its answer
\* was lost is its step followed by a fault of the next one.
CallFails(p) ==
  /\ faults < MaxFaults
  /\ ~ BetweenCalls(req[p])
  /\ IF req[p].pc \in DOMAIN AfterIgnoredError
       THEN Goto(p, AfterIgnoredError[req[p].pc])
       ELSE Reply(p, "failed")
  /\ faults' = faults + 1
  /\ UNCHANGED <<rows, dnsVars, started>>

\* Both stores persist; every request in flight is gone.
Crash ==
  /\ faults < MaxFaults
  /\ \E p \in Procs : ~ At(p, "idle")
  /\ req' = [p \in Procs |-> Idle]
  /\ faults' = faults + 1
  /\ UNCHANGED <<rows, dnsVars, started>>

-------------------------------------------------------------------------------
(* The specification *)

CreateStep(p) ==
  \/ Authorize(p)       \/ ParentDefinition(p) \/ CreateExists(p)
  \/ IntermediateGet(p) \/ IntermediateAdd(p)
  \/ DelegationDrop(p)  \/ DelegationAdd(p)
  \/ DropZone(p)        \/ DropKey(p)          \/ AddZone(p)
  \/ FetchZone(p)       \/ FindParent(p)
  \/ ParentSharing(p)   \/ ParentOwners(p)

GrantStep(p) ==
  \/ JoinExists(p) \/ JoinAuthorize(p) \/ CallerIsOwner(p)
  \/ AddSharing(p) \/ AddTarget(p)
  \/ InsertRow(p)  \/ KeyAdd(p)        \/ AllowRead(p)
  \/ AllowAdd(p)   \/ ListSubtree(p)   \/ GrantNext(p)

RevokeStep(p) ==
  \/ RemoveTarget(p) \/ CountOwners(p)        \/ DeleteRow(p)
  \/ AllowReadForDelete(p) \/ AllowDelete(p)  \/ KeyDelete(p)
  \/ RevokeNext(p)   \/ ListOwners(p)         \/ RotateNext(p)

DeleteStep(p) ==
  \/ OrphanLookup(p)  \/ OwnSubzones(p)   \/ ListKeys(p)
  \/ DeleteNextKey(p) \/ DeleteFromDns(p) \/ DeleteRows(p)

Step(p) ==
  CreateStep(p) \/ GrantStep(p) \/ RevokeStep(p) \/ DeleteStep(p) \/ Respond(p)

Next == \/ \E p \in Procs : Receive(p) \/ Step(p) \/ CallFails(p)
        \/ Crash

\* The tables that sequential requests leave behind: no owner has two rows.
ASSUME TablesListOnce ==
  \A table \in InitTables : \A z \in Zones : \A i, j \in DOMAIN table[z] :
    table[z][i] = table[z][j] => i = j

\* What PowerDNS serves and holds for a table that sequential requests, none of
\* which failed, have left behind.
StoredZones(table) == {z \in Zones : table[z] # <<>>}

ServedFor(table) ==
  StoredZones(table) \cup
  {w \in Zones : \E z \in StoredZones(table) : <<z, w>> \in Below}

KeysFor(table) ==
  {k \in Pair : \E i \in DOMAIN table[k[2]] : table[k[2]][i] = k[1]}

InitWith(table) ==
  /\ rows  = [z \in Zones |->
                {[user |-> table[z][i], id |-> i] : i \in DOMAIN table[z]}]
  /\ pdns  = ServedFor(table)
  /\ keys  = KeysFor(table)
  /\ allow = [z \in Zones |-> {u \in Users : <<u, z>> \in KeysFor(table)}]
  /\ deleg = {d \in ServedFor(table) \X ServedFor(table) :
                /\ <<d[2], d[1]>> \in Below
                /\ d[2] \in ChildToward(d[1], d[2])}

Init ==
  /\ \E table \in InitTables : InitWith(table)
  /\ req     = [p \in Procs |-> Idle]
  /\ started = 0
  /\ faults  = 0

Spec == Init /\ [][Next]_vars

\* Every request has a goroutine that the Go scheduler runs, and every call to a
\* store returns.  Nothing makes a client send a request or a call fail.
Fairness == \A p \in Procs : WF_vars(Step(p))

FairSpec == Spec /\ Fairness

-------------------------------------------------------------------------------
(* Properties *)

RowsTyped ==
  /\ rows \in [Zones -> SUBSET Row]
  /\ \A z \in Zones : IsFiniteSet(rows[z])

DnsTyped ==
  /\ pdns  \subseteq Zones
  /\ keys  \subseteq Pair
  /\ allow \in [Zones -> SUBSET Users]
  /\ deleg \subseteq Zones \X Zones

RequestsTyped == req \in [Procs -> Request \cup {Idle}]

BudgetTyped == started \in 0 .. MaxRequests /\ faults \in 0 .. MaxFaults

\* The shape of the stores and of the requests in flight.
TypeOK == RowsTyped /\ DnsTyped /\ RequestsTyped /\ BudgetTyped

Quiescent == \A p \in Procs : At(p, "idle")

\* When nothing is in flight, the owners in the table are exactly the users with
\* a working TSIG key: rows and keys are written by different calls of every
\* handler, and no handler repairs what another left behind.
OwnersHoldKeys ==
  Quiescent => \A u \in Users, z \in Zones : IsZoneOwner(u, z) <=> Usable(u, z)

\* Requests that run one after the other and whose calls all succeed never end in
\* a server error: the steps of one handler leave behind what the next expects,
\* such as the key object KeyDelete insists on.
AloneNeverFails ==
  Cardinality(Procs) = 1 /\ faults = 0 => \A p \in Procs : ~ At(p, "failed")

\* A removal that reports success has taken the owner's row and key on the zone,
\* and every row below it but the last one of a subzone.
RemovalRevokes ==
  \A p \in Procs :
    At(p, "ok") /\ req[p].op = "remove" =>
      LET u == req[p].target
          z == req[p].zone
      IN  /\ ~ IsZoneOwner(u, z)
          /\ ~ Usable(u, z)
          /\ \A s \in subzonesOf(z) :
               IsZoneOwner(u, s) => ListZoneOwners(s) = {u}

\* A creation that reports success has delegated the new zone from the zone
\* right above it, when the server is authoritative there.
CreationDelegates ==
  \A p \in Procs :
    At(p, "ok") /\ req[p].op = "create" =>
      \A w \in pdns :
        /\ <<req[p].zone, w>> \in Below
        /\ req[p].zone \in ChildToward(w, req[p].zone)
        => <<w, req[p].zone>> \in deleg

\* Some rule that allows sharing governs `z` for one of the users it entitles.
Shareable(z) == \E u \in Users : \E d \in ZoneDefinitions(z, u) : d.share

\* A zone may get a second owner when it, or a zone it inherits from, may be shared.
SharedZones == {z \in Zones : \E w \in Zones : AtOrBelow(z, w) /\ Shareable(w)}

\* A session has what the policy gives the user, an API token what it gives to the
\* empty e-mail address.
Entitled(u, z) ==
  PolicyIsZoneAllowedForUser(z, u) \/ PolicyIsZoneAllowedForUser(z, NoEmail)

\* The users the policy reaches on each zone: somebody is entitled to the zone at
\* all, and the user is entitled to, or may share, the zone or one above it.
ReachedUsers ==
  [z \in Zones |->
     {u \in Users :
        /\ \E v \in Users : PolicyIsZoneAllowedForUser(z, v)
        /\ \E w \in Zones :
             /\ AtOrBelow(z, w)
             /\ Entitled(u, w) \/ Shareable(w)}]

PolicyReaches(u, z) == u \in ReachedUsers[z]

\* The policy has not changed since the tables the runs start from were filled.
ASSUME TablesFollowPolicy ==
  \A table \in InitTables : \A z \in Zones :
    \A i \in DOMAIN table[z] : PolicyReaches(table[z][i], z)

\* However requests overlap and wherever they fail, nobody owns a zone the policy
\* does not reach them on: checks and insertions are separate steps, and three of
\* the four ways to a row never look at the policy of the user who gets it.
OwnershipFollowsPolicy ==
  \A z \in Zones : \A u \in ListZoneOwners(z) : PolicyReaches(u, z)

\* The operations that insert rows, with the labels before their policy check.
Unvetted ==
  [create |-> {"authorize", "parentDef"}, join |-> {"exists", "isOwner"},
   add |-> {"isOwner", "shareCheck"}]

\* The operations a request can be at a label of, where it matters below.
OpsAt ==
  [authorize |-> {"create"}, parentDef |-> {"create"},
   parent |-> {"create"}, parentOwners |-> {"create"},
   interGet |-> {"create"}, interAdd |-> {"create"}, nsDrop |-> {"create"},
   nsAdd |-> {"create"}, dropZone |-> {"create"}, dropKey |-> {"create"},
   addZone |-> {"create"}, fetch |-> {"create"},
   insert |-> {"create", "join", "add"}, grant |-> {"create", "join", "add"},
   keyAdd |-> {"create", "join", "add", "rotate"},
   allowRead |-> {"create", "join", "add", "rotate"},
   allowAdd |-> {"create", "join", "add", "rotate"},
   subtree |-> {"join", "add", "remove"},
   count |-> {"remove"}, rowDel |-> {"remove"}, revoke |-> {"remove"},
   allowReadDel |-> {"remove", "rotate"}, allowDel |-> {"remove", "rotate"},
   keyDel |-> {"remove", "rotate"}, listOwners |-> {"rotate"},
   rotate |-> {"rotate"}, lookup |-> {"orphan"},
   ownSubs |-> {"delete", "orphan"}, listKeys |-> {"delete", "orphan"},
   keysDel |-> {"delete", "orphan"}, zoneDel |-> {"delete", "orphan"},
   rowsDel |-> {"delete", "orphan"}]

\* The parent zone a creation looks at lies above the new zone, and what the
\* creation found there it may rely on: the policy never changes.
ParentVetted(r) ==
  /\ r.pc = "parentDef" =>
       <<r.zone, r.at>> \in Below /\ PolicyReaches(r.caller, r.at)
  /\ r.pc = "shareCheck" /\ r.op = "create" => <<r.zone, r.at>> \in Below
  /\ r.pc = "parentOwners" => <<r.zone, r.at>> \in Below /\ Shareable(r.at)

\* A pair to insert a row for: the policy reaches the user, and the zone is the
\* request's own new one or may be shared.
PairVetted(r, t) ==
  /\ PolicyReaches(t[1], t[2])
  /\ t[2] \in SharedZones \/ (r.op = "create" /\ t = MainPair(r))

\* Past the policy check of its operation, a request inserts rows for nothing but
\* such pairs, whatever happened to the tables since.
PairsVetted(r) ==
  r.op \in DOMAIN Unvetted /\ r.pc \notin Replied =>
    IF r.pc \in Unvetted[r.op]
      THEN r.cur = MainPair(r) /\ r.todo = {}
      ELSE \A t \in {MainPair(r), r.cur} \cup r.todo : PairVetted(r, t)

Vetted(r) ==
  /\ r.pc \in DOMAIN OpsAt => r.op \in OpsAt[r.pc]
  /\ ParentVetted(r)
  /\ PairsVetted(r)

RequestsVetted == \A p \in Procs : req[p] # Idle => Vetted(req[p])

\* The strengthening that makes OwnershipFollowsPolicy inductive: every request in
\* flight has been vetted as far as it got, so the rows it has yet to insert
\* follow the policy too.
PolicyInv == OwnershipFollowsPolicy /\ RequestsVetted

\* Whoever owns a shared zone also owns every zone delegated below it: the rule
\* of src/internal/zone_sharing.go, once no request is in flight.
SubtreeOwnership ==
  Quiescent =>
    \A w \in Zones :
      TRUE \in zoneSharingAnswers(w) =>
        \A z \in subzonesOf(w) : ListZoneOwners(w) \subseteq ListZoneOwners(z)

\* `p` takes the step at the label (or dies there).
Passes(p, pc) == At(p, pc) /\ req'[p].pc # pc

\* Only the deletion of a zone takes its last owner row away.
LastOwnerStays ==
  [][\A z \in Zones :
       rows[z] # {} /\ rows'[z] = {} => \E p \in Procs : Passes(p, "rowsDel")]_rows

\* A success is not only reported: whatever calls failed in this and in earlier
\* requests, a creator can get the zone with a working key, a rotation leaves every
\* owner one, and after a removal or deletion neither row nor working key is left.
AnswersAreTrue ==
  \A p \in Procs : At(p, "ok") =>
    LET r == req[p]
    IN  CASE r.op = "create" -> ZoneGet(r.caller, r.zone) = "ok"
          [] r.op = "join"   -> IsZoneOwner(r.caller, r.zone)
          [] r.op = "add"    -> IsZoneOwner(r.target, r.zone)
          [] r.op = "remove" -> /\ ~ IsZoneOwner(r.target, r.zone)
                                /\ ~ Usable(r.target, r.zone)
          [] r.op = "rotate" -> \A u \in ListZoneOwners(r.zone) : ZoneGet(u, r.zone) = "ok"
          [] OTHER           -> /\ ~ ZoneExists(r.zone)
                                /\ \A u \in Users : ~ Usable(u, r.zone)

\* A joined user has a working key, also if it took them two attempts.
JoinGivesKey ==
  \A p \in Procs :
    At(p, "ok") /\ req[p].op = "join" => Usable(req[p].caller, req[p].zone)

\* May `u`, who owns `z`, create a zone below it that no rule names?
MayCreateBelow(u, z) ==
  \/ \E d \in PolicyGetUserZones(u) : d.sub /\ AtOrBelow(z, d.zone)
  \/ LET defs == GoverningDefs(z, ListZoneOwners(z))
     IN  defs # {} /\ \A d \in defs : d.sub

\* What the listing offers a user's session, the operations grant: a zone to create is free
\* and below its SOA, a zone to join exists, subzones may be created where the
\* listing says so, and what it calls shareable they can add owners to.
OffersAreHonoured ==
  Quiescent => \A u \in Users \ {NoEmail} : \A listing \in Listings(u) :
    /\ ListUserZones(u) = {s.zone : s \in {t \in listing : t.exists}}
    /\ \A s \in listing :
         IF s.exists
           THEN /\ s.sub => MayCreateBelow(u, s.zone)
                /\ s.share => FALSE \notin zoneSharingAnswers(s.zone)
                /\ \A w \in s.parent : \E t \in listing : t.zone = w
           ELSE /\ s.canJoin => TRUE \in SharingAnswers(ZoneDefinitions(s.zone, u))
                /\ ~ s.canJoin /\ ~ s.taken =>
                     /\ ~ ZoneExists(s.zone)
                     /\ \E d \in ZoneDefinitions(s.zone, u) : AtOrBelow(s.zone, d.soa)

ReachedPairs == {k \in Pair : PolicyReaches(k[1], k[2])}

\* Nobody holds a key beyond the reach of the policy, not even one that stale
\* lists of owners or of metadata bring back after a removal.
KeysFollowPolicy ==
  /\ \A k \in keys : PolicyReaches(k[1], k[2])
  /\ \A z \in Zones : \A u \in allow[z] : PolicyReaches(u, z)

\* The labels at which a rotation works on the key of one owner.
KeyLabels ==
  {"keyAdd", "allowRead", "allowAdd", "allowReadDel", "allowDel", "keyDel"}

\* The policy reaches the pairs a rotation works on, and those of the metadata list
\* that a request is about to write back.
KeyVetted(r) ==
  /\ r.op = "rotate" /\ r.pc \notin Replied =>
       \A t \in r.todo : PolicyReaches(t[1], t[2])
  /\ r.op = "rotate" /\ r.pc \in KeyLabels => PolicyReaches(r.cur[1], r.cur[2])
  /\ r.pc \in {"allowAdd", "allowDel"} => \A u \in r.snap : PolicyReaches(u, r.cur[2])

KeysVetted == \A p \in Procs : req[p] # Idle => KeyVetted(req[p])

\* The strengthening that makes KeysFollowPolicy inductive, beside PolicyInv.
KeyInv == KeysFollowPolicy /\ KeysVetted

\* The labels of a creation between its check that the zone does not exist and the
\* insertion of its row; a creation passes some of them again for each heir.
Creating ==
  {"interGet", "interAdd", "nsDrop", "nsAdd", "dropZone", "dropKey", "addZone",
   "keyAdd", "allowRead", "allowAdd", "fetch", "insert"}

\* What a request has found out about the rows it is going to insert or delete.
RowChecked(r) ==
  /\ r.pc = "insert" => ~ IsZoneOwner(r.cur[1], r.cur[2])
  /\ r.pc = "rowDel" => ListZoneOwners(r.cur[2]) \ {r.cur[1]} # {}
  /\ r.pc = "fetch" \/ (r.pc = "targetOwner" /\ r.op = "add") => r.cur = MainPair(r)
  /\ r.op = "create" =>
       /\ MainPair(r) \notin r.todo
       /\ r.pc \in Creating /\ r.cur = MainPair(r) => ~ ZoneExists(r.zone)

OneRowEach == \A z \in Zones : \A v, w \in rows[z] : v.user = w.user => v = w

\* As long as requests come one at a time, none inserts a second row for an owner,
\* and what it found out is still so when it gets to act on it, also after calls
\* that failed: the strengthening behind LastOwnerStays and ImplementsOwnership.
AloneInv == OneRowEach /\ \A p \in Procs : req[p] # Idle => RowChecked(req[p])

\* The owners in the table as the abstract specification sees them.
Ownership ==
  INSTANCE ZoneOwnership WITH
    owners  <- [z \in Zones |-> ListZoneOwners(z)],
    Reached <- ReachedPairs,
    Shared  <- SharedZones

\* Requests one at a time implement the promise about ownership: a zone has one
\* owner unless it may be shared, nobody beyond the policy's reach, and loses its
\* last one only by being deleted.
ImplementsOwnership == Ownership!Spec

\* Every request is answered: the loops run over lists that were read once.
RequestsFinish == \A p \in Procs : (~ At(p, "idle")) ~> At(p, "idle")

===============================================================================
