-------------------------- MODULE ZoneServiceProofs ---------------------------
(***************************************************************************)
(* Theorems about ZoneService for every set of users, zones, rules and     *)
(* concurrent requests: type correctness, and that ownership follows the   *)
(* policy however requests overlap and fail.                               *)
(***************************************************************************)
EXTENDS ZoneService, FiniteSetTheorems, TLAPS

-------------------------------------------------------------------------------
(* The policy *)

\* Every definition the policy yields is well-formed.
LEMMA DefinitionsTyped ==
  ASSUME NEW z \in Zones, NEW u \in Users
  PROVE  ZoneDefinitions(z, u) \subseteq Definition
<1>1. \A i \in DOMAIN Rules : Rules[i] \in Rule
  BY RulesAssumption
<1>2. PolicyGetUserZones(u) \subseteq Definition
  BY <1>1 DEF PolicyGetUserZones, EffectiveRules, Rule, Definition
<1>3. ExactMatches(z, u) \subseteq Definition
  BY <1>2 DEF ExactMatches
<1>4. SubzoneParents(z, u) \subseteq Definition
  BY <1>2 DEF SubzoneParents
<1>5. \A d \in SubzoneParents(z, u) :
        [zone |-> z, soa |-> d.zone, sub |-> TRUE, share |-> d.share]
          \in Definition
  BY <1>4 DEF Definition
<1>6. QED
  BY <1>3, <1>5 DEF ZoneDefinitions

\* A zone that has a definition for a user is allowed to that user.
LEMMA DefinedIsAllowed ==
  ASSUME NEW z, NEW u, ZoneDefinitions(z, u) # {}
  PROVE  PolicyIsZoneAllowedForUser(z, u)
BY DEF ZoneDefinitions, PolicyIsZoneAllowedForUser

LEMMA BelowTransitive ==
  ASSUME NEW x \in Zones, NEW y \in Zones, NEW z \in Zones,
         AtOrBelow(x, y), AtOrBelow(y, z)
  PROVE  AtOrBelow(x, z)
BY BelowAssumption DEF AtOrBelow

\* Subdomains of a zone whose definition allows them are covered by the policy.
LEMMA SubzonesAllowed ==
  ASSUME NEW z \in Zones, NEW w \in Zones, NEW u \in Users, <<z, w>> \in Below,
         NEW d \in ZoneDefinitions(w, u), d.sub
  PROVE  PolicyIsZoneAllowedForUser(z, u)
<1>1. CASE ExactMatches(w, u) # {}
  <2>1. d \in PolicyGetUserZones(u) /\ d.zone = w
    BY <1>1 DEF ZoneDefinitions, ExactMatches
  <2>2. d \in SubzoneParents(z, u)
    BY <2>1 DEF SubzoneParents
  <2>3. QED
    BY <2>2 DEF PolicyIsZoneAllowedForUser
<1>2. CASE ExactMatches(w, u) = {}
  <2>1. PICK e \in SubzoneParents(w, u) : TRUE
    BY <1>2 DEF ZoneDefinitions
  <2>2. e.sub /\ <<w, e.zone>> \in Below /\ e \in PolicyGetUserZones(u)
    BY <2>1 DEF SubzoneParents
  <2>3. e.zone \in Zones
    BY <2>2, BelowAssumption
  <2>4. <<z, e.zone>> \in Below
    BY <2>2, <2>3, BelowAssumption
  <2>5. e \in SubzoneParents(z, u)
    BY <2>2, <2>4 DEF SubzoneParents
  <2>6. QED
    BY <2>5 DEF PolicyIsZoneAllowedForUser
<1>3. QED
  BY <1>1, <1>2

-------------------------------------------------------------------------------
(* The zone table *)

LEMMA RenumberedTyped ==
  ASSUME NEW S \in SUBSET Row, IsFiniteSet(S)
  PROVE  /\ Renumbered(S) \in SUBSET Row
         /\ IsFiniteSet(Renumbered(S))
<1> DEFINE rank(w) == Cardinality({v \in S : v.id <= w.id})
           f == [w \in S |-> [w EXCEPT !.id = rank(w)]]
<1>1. \A w \in S : rank(w) \in Nat
  <2> TAKE w \in S
  <2>1. IsFiniteSet({v \in S : v.id <= w.id})
    BY FS_Subset
  <2>2. QED
    BY <2>1, FS_CardinalityType
<1>2. Renumbered(S) \in SUBSET Row
  BY <1>1 DEF Renumbered, Row
<1>3. f \in Surjection(S, Renumbered(S))
  BY DEF Renumbered, Surjection
<1>4. IsFiniteSet(Renumbered(S))
  BY <1>3, FS_Surjection
<1>5. QED
  BY <1>2, <1>4

\* Renumbering keeps the users of the rows.
LEMMA RenumberedUsers ==
  ASSUME NEW S \in SUBSET Row
  PROVE  {w.user : w \in Renumbered(S)} = {w.user : w \in S}
<1> DEFINE new(w) == [w EXCEPT !.id = Cardinality({v \in S : v.id <= w.id})]
<1>1. \A w \in S : new(w).user = w.user
  BY DEF Row
<1>2. Renumbered(S) = {new(w) : w \in S}
  BY DEF Renumbered
<1> HIDE DEF new
<1>3. QED
  BY <1>1, <1>2

LEMMA CreateZoneTyped ==
  ASSUME RowsTyped, NEW u \in Users, NEW z \in Zones, CreateZone(u, z)
  PROVE  RowsTyped'
<1> DEFINE new == [user |-> u, id |-> Cardinality(rows[z]) + 1]
<1>1. rows[z] \in SUBSET Row /\ IsFiniteSet(rows[z])
  BY DEF RowsTyped
<1>2. new \in Row
  BY <1>1, FS_CardinalityType DEF Row
<1>3. IsFiniteSet(rows[z] \cup {new})
  BY <1>1, FS_AddElement
<1>4. rows' = [rows EXCEPT ![z] = rows[z] \cup {new}]
  BY DEF CreateZone
<1> HIDE DEF new
<1>5. QED
  BY <1>1, <1>2, <1>3, <1>4 DEF RowsTyped

LEMMA DeleteZoneTyped ==
  ASSUME RowsTyped, NEW u \in Users, NEW z \in Zones, DeleteZone(u, z)
  PROVE  RowsTyped'
<1> DEFINE kept == {w \in rows[z] : w.user # u}
<1>1. kept \in SUBSET Row /\ IsFiniteSet(kept)
  BY FS_Subset DEF RowsTyped
<1>2. rows' = [rows EXCEPT ![z] = Renumbered(kept)]
  BY DEF DeleteZone
<1> HIDE DEF kept
<1>3. Renumbered(kept) \in SUBSET Row /\ IsFiniteSet(Renumbered(kept))
  BY <1>1, RenumberedTyped
<1>4. QED
  BY <1>2, <1>3 DEF RowsTyped

LEMMA DeleteAllZoneOwnersTyped ==
  ASSUME RowsTyped, NEW z \in Zones, DeleteAllZoneOwners(z)
  PROVE  RowsTyped'
BY FS_EmptySet DEF RowsTyped, DeleteAllZoneOwners

LEMMA OwnersAreUsers ==
  ASSUME RowsTyped, NEW z \in Zones
  PROVE  ListZoneOwners(z) \subseteq Users
BY DEF RowsTyped, ListZoneOwners, Row

-------------------------------------------------------------------------------
(* Requests *)

LEMMA SetTyped ==
  ASSUME RequestsTyped, NEW p \in Procs, NEW r \in Request \cup {Idle}, Set(p, r)
  PROVE  RequestsTyped'
BY DEF RequestsTyped, Set

LEMMA FreshTyped ==
  ASSUME NEW op \in AllOps, NEW login \in {"session", "token"},
         NEW caller \in Users, NEW zone \in Zones, NEW target \in Users,
         NEW pc \in Labels
  PROVE  Fresh(op, login, caller, zone, target, pc) \in Request
<1> HIDE DEF Labels, AllOps
<1>1. QED
  BY DEF Fresh, Request, Pair

LEMMA GotoTyped ==
  ASSUME RequestsTyped, NEW p \in Procs, req[p] \in Request,
         NEW pc \in Labels, Goto(p, pc)
  PROVE  RequestsTyped'
<1>1. [req[p] EXCEPT !.pc = pc] \in Request
  BY DEF Request
<1>2. QED
  BY <1>1, SetTyped DEF Goto

LEMMA ReplyTyped ==
  ASSUME RequestsTyped, NEW p \in Procs, req[p] \in Request,
         NEW status \in Replied, Reply(p, status)
  PROVE  RequestsTyped'
<1> DEFINE r == req[p]
<1>1. status \in Labels
  BY DEF Labels
<1>2. Fresh(r.op, r.login, r.caller, r.zone, r.target, status) \in Request
  BY <1>1, FreshTyped DEF Request
<1>3. QED
  BY <1>2, SetTyped DEF Reply

LEMMA MainPairTyped ==
  ASSUME NEW r \in Request
  PROVE  MainPair(r) \in Pair
BY DEF MainPair, Fresh, Request, Pair

LEMMA AtTyped ==
  ASSUME RequestsTyped, NEW p \in Procs, NEW pc, At(p, pc), pc # "idle"
  PROVE  req[p] \in Request
BY DEF RequestsTyped, At, Idle

LEMMA VisitTyped ==
  ASSUME NEW r \in Request, NEW t \in r.todo, NEW pc \in Labels
  PROVE  [Visit(r, t) EXCEPT !.pc = pc] \in Request
BY DEF Visit, Request

\* A request keeps its type, and the pairs it is about, on its way through the
\* intermediate zones.
LEMMA EnsuringTyped ==
  ASSUME NEW r \in Request, NEW chain, chain \subseteq Zones,
         NEW s \in Ensuring(r, chain)
  PROVE  /\ s \in Request
         /\ s.pc \in {"dropZone", "interGet"}
         /\ s.op = r.op /\ s.caller = r.caller /\ s.zone = r.zone
         /\ s.login = r.login /\ s.target = r.target
         /\ s.cur = r.cur /\ s.todo = r.todo
<1>1. CASE chain = {}
  <2>1. s = [r EXCEPT !.chain = {}, !.pc = "dropZone"]
    BY <1>1 DEF Ensuring
  <2>2. QED
    BY <2>1 DEF Request, Labels
<1>2. CASE chain # {}
  <2>1. PICK z \in Zones : s = [r EXCEPT !.chain = chain, !.at = z, !.pc = "interGet"]
    BY <1>2 DEF Ensuring
  <2>2. QED
    BY <2>1 DEF Request, Labels
<1>3. QED
  BY <1>1, <1>2

\* A request keeps its type when it forgets a pair of its loop.
LEMMA SkipTyped ==
  ASSUME NEW r \in Request, NEW t
  PROVE  [r EXCEPT !.todo = @ \ {t}] \in Request
BY DEF Request

-------------------------------------------------------------------------------
(* Which steps change what *)

LEMMA RowChanges ==
  ASSUME NEW p \in Procs, Step(p)
  PROVE  UNCHANGED rows \/ InsertRow(p) \/ DeleteRow(p) \/ DeleteRows(p)
<1>1. CASE CreateStep(p)
  BY <1>1 DEF CreateStep, Authorize, ParentDefinition, CreateExists,
       IntermediateGet, IntermediateAdd, DelegationDrop, DelegationAdd, DropZone,
       DropKey, AddZone, FetchZone, FindParent, ParentSharing, ParentOwners
<1>2. CASE GrantStep(p)
  BY <1>2 DEF GrantStep, JoinExists, JoinAuthorize, CallerIsOwner, AddSharing,
       AddTarget, KeyAdd, AllowRead, AllowAdd, ListSubtree, GrantNext
<1>3. CASE RevokeStep(p)
  BY <1>3 DEF RevokeStep, RemoveTarget, CountOwners, AllowReadForDelete,
       AllowDelete, KeyDelete, RevokeNext, ListOwners, RotateNext
<1>4. CASE DeleteStep(p)
  BY <1>4 DEF DeleteStep, OrphanLookup, OwnSubzones, ListKeys, DeleteNextKey,
       DeleteFromDns
<1>5. CASE Respond(p)
  BY <1>5 DEF Respond
<1>6. QED
  BY <1>1, <1>2, <1>3, <1>4, <1>5 DEF Step

LEMMA BudgetChanges ==
  ASSUME NEW p \in Procs, Step(p)
  PROVE  UNCHANGED budget
<1>1. CASE CreateStep(p)
  BY <1>1 DEF CreateStep, Authorize, ParentDefinition, CreateExists,
       IntermediateGet, IntermediateAdd, DelegationDrop, DelegationAdd, DropZone,
       DropKey, AddZone, FetchZone, FindParent, ParentSharing, ParentOwners
<1>2. CASE GrantStep(p)
  BY <1>2 DEF GrantStep, JoinExists, JoinAuthorize, CallerIsOwner, AddSharing,
       AddTarget, InsertRow, KeyAdd, AllowRead, AllowAdd, ListSubtree, GrantNext
<1>3. CASE RevokeStep(p)
  BY <1>3 DEF RevokeStep, RemoveTarget, CountOwners, DeleteRow,
       AllowReadForDelete, AllowDelete, KeyDelete, RevokeNext, ListOwners,
       RotateNext
<1>4. CASE DeleteStep(p)
  BY <1>4 DEF DeleteStep, OrphanLookup, OwnSubzones, ListKeys, DeleteNextKey,
       DeleteFromDns, DeleteRows
<1>5. CASE Respond(p)
  BY <1>5 DEF Respond
<1>6. QED
  BY <1>1, <1>2, <1>3, <1>4, <1>5 DEF Step

\* The steps that write to PowerDNS.
LEMMA DnsChanges ==
  ASSUME NEW p \in Procs, Step(p)
  PROVE  \/ UNCHANGED dnsVars
         \/ IntermediateAdd(p) \/ DelegationDrop(p) \/ DelegationAdd(p)
         \/ DropZone(p) \/ DropKey(p) \/ AddZone(p) \/ KeyAdd(p) \/ AllowAdd(p)
         \/ AllowDelete(p) \/ KeyDelete(p) \/ DeleteNextKey(p)
         \/ DeleteFromDns(p)
<1>1. CASE CreateStep(p)
  BY <1>1 DEF CreateStep, Authorize, ParentDefinition, CreateExists,
       IntermediateGet, FetchZone, FindParent, ParentSharing, ParentOwners
<1>2. CASE GrantStep(p)
  BY <1>2 DEF GrantStep, JoinExists, JoinAuthorize, CallerIsOwner, AddSharing,
       AddTarget, InsertRow, AllowRead, ListSubtree, GrantNext
<1>3. CASE RevokeStep(p)
  BY <1>3 DEF RevokeStep, RemoveTarget, CountOwners, DeleteRow,
       AllowReadForDelete, RevokeNext, ListOwners, RotateNext
<1>4. CASE DeleteStep(p)
  BY <1>4 DEF DeleteStep, OrphanLookup, OwnSubzones, ListKeys, DeleteRows
<1>5. CASE Respond(p)
  BY <1>5 DEF Respond
<1>6. QED
  BY <1>1, <1>2, <1>3, <1>4, <1>5 DEF Step

-------------------------------------------------------------------------------
(* Type correctness *)

LEMMA RowsStayTyped ==
  ASSUME TypeOK, NEW p \in Procs, Step(p)
  PROVE  RowsTyped'
<1> USE DEF TypeOK
<1>1. CASE UNCHANGED rows
  BY <1>1 DEF RowsTyped
<1>2. CASE InsertRow(p)
  <2>1. req[p] \in Request
    BY <1>2, AtTyped DEF InsertRow
  <2>2. req[p].cur[1] \in Users /\ req[p].cur[2] \in Zones
    BY <2>1 DEF Request, Pair
  <2>3. QED
    BY <1>2, <2>2, CreateZoneTyped DEF InsertRow
<1>3. CASE DeleteRow(p)
  <2>1. req[p] \in Request
    BY <1>3, AtTyped DEF DeleteRow
  <2>2. req[p].cur[1] \in Users /\ req[p].cur[2] \in Zones
    BY <2>1 DEF Request, Pair
  <2>3. QED
    BY <1>3, <2>2, DeleteZoneTyped DEF DeleteRow
<1>4. CASE DeleteRows(p)
  <2>1. req[p] \in Request
    BY <1>4, AtTyped DEF DeleteRows
  <2>2. req[p].zone \in Zones
    BY <2>1 DEF Request
  <2>3. QED
    BY <1>4, <2>2, DeleteAllZoneOwnersTyped DEF DeleteRows
<1>5. QED
  BY <1>1, <1>2, <1>3, <1>4, RowChanges

LEMMA ZonesDeleteTyped ==
  ASSUME DnsTyped, NEW z \in Zones, ZonesDelete(z)
  PROVE  DnsTyped'
BY DEF DnsTyped, ZonesDelete

LEMMA ZonesAddTyped ==
  ASSUME DnsTyped, NEW z \in Zones, ZonesAdd(z)
  PROVE  DnsTyped'
BY DEF DnsTyped, ZonesAdd

LEMMA DnsStaysTyped ==
  ASSUME TypeOK, NEW p \in Procs, Step(p)
  PROVE  DnsTyped'
<1> USE DEF TypeOK
<1>1. CASE UNCHANGED dnsVars
  BY <1>1 DEF DnsTyped, dnsVars
<1>2. CASE IntermediateAdd(p)
  <2>1. req[p] \in Request
    BY <1>2, AtTyped DEF IntermediateAdd
  <2>2. req[p].at \in Zones
    BY <2>1 DEF Request
  <2>3. QED
    BY <1>2, <2>2, <1>1, ZonesAddTyped DEF IntermediateAdd
<1>3. CASE DelegationDrop(p)
  BY <1>3 DEF DelegationDrop, DnsTyped
<1>4. CASE DelegationAdd(p)
  <2>1. req[p] \in Request
    BY <1>4, AtTyped DEF DelegationAdd
  <2>2. {req[p].at} \X ChildToward(req[p].at, req[p].zone) \subseteq Zones \X Zones
    BY <2>1 DEF Request, ChildToward
  <2>3. QED
    BY <1>4, <2>2 DEF DelegationAdd, DnsTyped
<1>5. CASE DropZone(p)
  <2>1. req[p] \in Request
    BY <1>5, AtTyped DEF DropZone
  <2>2. req[p].zone \in Zones
    BY <2>1 DEF Request
  <2>3. QED
    BY <1>5, <2>2, ZonesDeleteTyped DEF DropZone
<1>6. CASE DropKey(p)
  BY <1>6 DEF DropKey, DnsTyped
<1>7. CASE AddZone(p)
  <2>1. req[p] \in Request
    BY <1>7, AtTyped DEF AddZone
  <2>2. req[p].zone \in Zones
    BY <2>1 DEF Request
  <2>3. QED
    BY <1>7, <2>2, <1>1, ZonesAddTyped DEF AddZone
<1>8. CASE KeyAdd(p)
  <2>1. req[p] \in Request
    BY <1>8, AtTyped DEF KeyAdd
  <2>2. req[p].cur \in Pair
    BY <2>1 DEF Request
  <2>3. QED
    BY <1>8, <2>2 DEF KeyAdd, DnsTyped
<1>9. CASE AllowAdd(p)
  <2>1. req[p] \in Request
    BY <1>9, AtTyped DEF AllowAdd
  <2>2. /\ req[p].snap \cup {req[p].cur[1]} \in SUBSET Users
        /\ req[p].cur[2] \in Zones
    BY <2>1 DEF Request, Pair
  <2>3. QED
    BY <1>9, <2>2 DEF AllowAdd, DnsTyped
<1>10. CASE AllowDelete(p)
  <2>1. req[p] \in Request
    BY <1>10, AtTyped DEF AllowDelete
  <2>2. /\ req[p].snap \ {req[p].cur[1]} \in SUBSET Users
        /\ req[p].cur[2] \in Zones
    BY <2>1 DEF Request, Pair
  <2>3. QED
    BY <1>10, <2>2 DEF AllowDelete, DnsTyped
<1>11. CASE KeyDelete(p)
  BY <1>11 DEF KeyDelete, DnsTyped
<1>12. CASE DeleteNextKey(p)
  BY <1>12 DEF DeleteNextKey, DnsTyped
<1>13. CASE DeleteFromDns(p)
  <2>1. req[p] \in Request
    BY <1>13, AtTyped DEF DeleteFromDns
  <2>2. req[p].zone \in Zones
    BY <2>1 DEF Request
  <2>3. QED
    BY <1>13, <2>2, <1>1, ZonesDeleteTyped DEF DeleteFromDns
<1>14. QED
  BY <1>1, <1>2, <1>3, <1>4, <1>5, <1>6, <1>7, <1>8, <1>9, <1>10, <1>11, <1>12,
     <1>13, DnsChanges

\* The type of requests survives the steps of a creation, ...
LEMMA CreateStepTyped ==
  ASSUME TypeOK, NEW p \in Procs, CreateStep(p)
  PROVE  RequestsTyped'
<1> DEFINE r == req[p]
<1>1. RequestsTyped /\ r \in Request
  <2>1. RequestsTyped
    BY DEF TypeOK
  <2>2. \E pc \in Labels : At(p, pc) /\ pc # "idle"
    BY DEF CreateStep, Authorize, ParentDefinition, CreateExists,
       IntermediateGet, IntermediateAdd, DelegationDrop, DelegationAdd, DropZone,
       DropKey, AddZone, FetchZone, FindParent, ParentSharing, ParentOwners,
       Labels, Replied
  <2>3. QED
    BY <2>1, <2>2, AtTyped
<1>2. /\ r.op \in AllOps /\ r.login \in {"session", "token"}
      /\ r.caller \in Users /\ r.zone \in Zones /\ r.target \in Users
      /\ r.at \in Zones /\ r.chain \subseteq Zones /\ r.todo \subseteq Pair
      /\ r.cur \in Pair /\ r.cur[1] \in Users /\ r.cur[2] \in Zones
      /\ r.snap \subseteq Users
  BY <1>1 DEF Request, Pair
<1>3. CASE Authorize(p)
  <2>1. ASSUME NEW d \in CallerDefinitions(r),
               Set(p, [r EXCEPT !.pc = "exists", !.at = d.soa])
        PROVE  RequestsTyped'
    <3>1. d.soa \in Zones
      BY <1>2, NoEmailAssumption, DefinitionsTyped DEF CallerDefinitions, Definition
    <3>2. [r EXCEPT !.pc = "exists", !.at = d.soa] \in Request
      BY <1>1, <3>1 DEF Request, Labels
    <3>3. QED
      BY <1>1, <2>1, <3>2, SetTyped
  <2>2. ASSUME NEW w \in Zones,
               Set(p, [r EXCEPT !.pc = "parentDef", !.at = w])
        PROVE  RequestsTyped'
    <3>1. [r EXCEPT !.pc = "parentDef", !.at = w] \in Request
      BY <1>1 DEF Request, Labels
    <3>2. QED
      BY <1>1, <2>2, <3>1, SetTyped
  <2>3. CASE Reply(p, "refused")
    BY <1>1, <2>3, ReplyTyped DEF Replied
  <2>4. Closest({w \in ListUserZones(r.caller) : <<r.zone, w>> \in Below})
          \subseteq Zones
    BY DEF Closest, ListUserZones
  <2>5. QED
    BY <1>3, <2>1, <2>2, <2>3, <2>4 DEF Authorize
<1>4. CASE ParentDefinition(p)
  BY <1>1, <1>4, GotoTyped, ReplyTyped DEF ParentDefinition, Labels, Replied
<1>5. CASE CreateExists(p)
  <2>1. Intermediates(r.zone, r.at) \subseteq Zones
    BY DEF Intermediates
  <2>2. \A s \in Ensuring(r, Intermediates(r.zone, r.at)) : s \in Request
    BY <1>1, <2>1, EnsuringTyped
  <2>3. \/ Reply(p, "refused")
        \/ \E s \in Ensuring(r, Intermediates(r.zone, r.at)) : Set(p, s)
    BY <1>5 DEF CreateExists
  <2>4. QED
    BY <1>1, <2>2, <2>3, SetTyped, ReplyTyped DEF Replied
<1>6. CASE IntermediateGet(p)
  BY <1>1, <1>6, GotoTyped DEF IntermediateGet, Labels
<1>7. CASE IntermediateAdd(p)
  BY <1>1, <1>7, GotoTyped, ReplyTyped DEF IntermediateAdd, Labels, Replied
<1>8. CASE DelegationDrop(p)
  BY <1>1, <1>8, GotoTyped DEF DelegationDrop, Labels
<1>9. CASE DelegationAdd(p)
  <2>1. \A s \in Ensuring(r, r.chain \ {r.at}) : s \in Request
    BY <1>1, <1>2, EnsuringTyped
  <2>2. \/ Reply(p, "failed")
        \/ \E s \in Ensuring(r, r.chain \ {r.at}) : Set(p, s)
    BY <1>9 DEF DelegationAdd
  <2>3. QED
    BY <1>1, <2>1, <2>2, SetTyped, ReplyTyped DEF Replied
<1>10. CASE DropZone(p)
  BY <1>1, <1>10, GotoTyped DEF DropZone, Labels
<1>11. CASE DropKey(p)
  BY <1>1, <1>11, GotoTyped DEF DropKey, Labels
<1>12. CASE AddZone(p)
  BY <1>1, <1>12, GotoTyped, ReplyTyped DEF AddZone, Labels, Replied
<1>13. CASE FetchZone(p)
  BY <1>1, <1>13, GotoTyped, ReplyTyped DEF FetchZone, Labels, Replied
<1>14. CASE FindParent(p)
  <2>1. CASE Reply(p, "ok")
    BY <1>1, <2>1, ReplyTyped DEF Replied
  <2>2. ASSUME NEW w \in closestStoredParent(r.zone),
               Set(p, [r EXCEPT !.pc = "shareCheck", !.at = w])
        PROVE  RequestsTyped'
    <3>1. w \in Zones
      BY DEF closestStoredParent, Closest
    <3>2. [r EXCEPT !.pc = "shareCheck", !.at = w] \in Request
      BY <1>1, <3>1 DEF Request, Labels
    <3>3. QED
      BY <1>1, <2>2, <3>2, SetTyped
  <2>3. QED
    BY <1>14, <2>1, <2>2 DEF FindParent
<1>15. CASE ParentSharing(p)
  BY <1>1, <1>15, GotoTyped, ReplyTyped DEF ParentSharing, Labels, Replied
<1>16. CASE ParentOwners(p)
  <2> DEFINE heirs == (ListZoneOwners(r.at) \ {r.caller}) \X {r.zone}
  <2>1. heirs \subseteq Pair
    BY <1>2, OwnersAreUsers DEF TypeOK, Pair
  <2>2. [r EXCEPT !.pc = "grant", !.todo = heirs] \in Request
    BY <1>1, <2>1 DEF Request, Labels
  <2>3. QED
    BY <1>1, <1>16, <2>2, SetTyped DEF ParentOwners
<1>17. QED
  BY <1>3, <1>4, <1>5, <1>6, <1>7, <1>8, <1>9, <1>10, <1>11, <1>12, <1>13,
     <1>14, <1>15, <1>16 DEF CreateStep

\* ... of the granting of ownership, ...
LEMMA GrantStepTyped ==
  ASSUME TypeOK, NEW p \in Procs, GrantStep(p)
  PROVE  RequestsTyped'
<1> DEFINE r == req[p]
<1>1. RequestsTyped /\ r \in Request
  <2>1. RequestsTyped
    BY DEF TypeOK
  <2>2. \E pc \in Labels : At(p, pc) /\ pc # "idle"
    BY DEF GrantStep, JoinExists, JoinAuthorize, CallerIsOwner, AddSharing,
       AddTarget, InsertRow, KeyAdd, AllowRead, AllowAdd, ListSubtree, GrantNext,
       Labels, Replied
  <2>3. QED
    BY <2>1, <2>2, AtTyped
<1>2. /\ r.zone \in Zones /\ r.caller \in Users /\ r.todo \subseteq Pair
      /\ r.snap \subseteq Users /\ r.cur \in Pair
      /\ r.cur[1] \in Users /\ r.cur[2] \in Zones
  BY <1>1 DEF Request, Pair
<1>3. CASE JoinExists(p)
  BY <1>1, <1>3, GotoTyped, ReplyTyped DEF JoinExists, Labels, Replied
<1>4. CASE JoinAuthorize(p)
  BY <1>1, <1>4, GotoTyped, ReplyTyped DEF JoinAuthorize, Labels, Replied
<1>5. CASE CallerIsOwner(p)
  <2>1. \A op \in DOMAIN AfterOwnerCheck : AfterOwnerCheck[op] \in Labels
    BY DEF AfterOwnerCheck, Labels
  <2>2. QED
    BY <1>1, <1>5, <2>1, GotoTyped, ReplyTyped DEF CallerIsOwner, Replied
<1>6. CASE AddSharing(p)
  BY <1>1, <1>6, GotoTyped, ReplyTyped DEF AddSharing, Labels, Replied
<1>7. CASE AddTarget(p)
  <2>1. Goto(p, "subtree") \/ Goto(p, "insert")
    BY <1>7 DEF AddTarget
  <2>2. QED
    BY <1>1, <2>1, GotoTyped DEF Labels
<1>8. CASE InsertRow(p)
  <2>1. Goto(p, "parent") \/ Goto(p, "keyAdd")
    BY <1>8 DEF InsertRow
  <2>2. QED
    BY <1>1, <2>1, GotoTyped DEF Labels
<1>9. CASE KeyAdd(p)
  BY <1>1, <1>9, GotoTyped DEF KeyAdd, Labels
<1>10. CASE AllowRead(p)
  <2> DEFINE new == [r EXCEPT !.pc = "allowAdd", !.snap = allow[r.cur[2]]]
  <2>1. new \in Request
    BY <1>1, <1>2 DEF TypeOK, DnsTyped, Request, Labels
  <2>2. Reply(p, "failed") \/ Set(p, new)
    BY <1>10 DEF AllowRead
  <2>3. QED
    BY <1>1, <2>1, <2>2, SetTyped, ReplyTyped DEF Replied
<1>11. CASE AllowAdd(p)
  <2> DEFINE new == [r EXCEPT !.pc = AfterKey(r), !.snap = {}]
  <2>1. AfterKey(r) \in Labels
    BY DEF AfterKey, Labels
  <2>2. new \in Request
    BY <1>1, <2>1 DEF Request
  <2>3. Reply(p, "failed") \/ Set(p, new)
    BY <1>11 DEF AllowAdd
  <2>4. QED
    BY <1>1, <2>2, <2>3, SetTyped, ReplyTyped DEF Replied
<1>12. CASE ListSubtree(p)
  <2> DEFINE pairs == {MainPair(r)[1]} \X subzonesOf(r.zone)
             next  == IF r.op = "remove" THEN "revoke" ELSE "grant"
  <2>1. pairs \subseteq Pair
    BY <1>1, MainPairTyped DEF subzonesOf, Pair
  <2>2. next \in Labels
    BY DEF Labels
  <2> HIDE DEF pairs, next
  <2>3. [r EXCEPT !.todo = pairs, !.pc = next] \in Request
    BY <1>1, <2>1, <2>2 DEF Request
  <2>4. Set(p, [r EXCEPT !.todo = pairs, !.pc = next])
    BY <1>12 DEF ListSubtree, pairs, next
  <2>5. QED
    BY <1>1, <2>3, <2>4, SetTyped
<1>13. CASE GrantNext(p)
  <2>1. CASE Reply(p, "ok")
    BY <1>1, <2>1, ReplyTyped DEF Replied
  <2>2. ASSUME NEW t \in r.todo,
               \/ Set(p, [r EXCEPT !.todo = @ \ {t}])
               \/ Set(p, [Visit(r, t) EXCEPT !.pc = "insert"])
        PROVE  RequestsTyped'
    <3>1. "insert" \in Labels
      BY DEF Labels
    <3>2. /\ [r EXCEPT !.todo = @ \ {t}] \in Request
          /\ [Visit(r, t) EXCEPT !.pc = "insert"] \in Request
      BY <1>1, <3>1, SkipTyped, VisitTyped
    <3>3. QED
      BY <1>1, <2>2, <3>2, SetTyped
  <2>3. QED
    BY <1>13, <2>1, <2>2 DEF GrantNext
<1>14. QED
  BY <1>3, <1>4, <1>5, <1>6, <1>7, <1>8, <1>9, <1>10, <1>11, <1>12, <1>13
     DEF GrantStep

\* ... of its removal and the rotation of keys, ...
LEMMA RevokeStepTyped ==
  ASSUME TypeOK, NEW p \in Procs, RevokeStep(p)
  PROVE  RequestsTyped'
<1> DEFINE r == req[p]
<1>1. RequestsTyped /\ r \in Request
  <2>1. RequestsTyped
    BY DEF TypeOK
  <2>2. \E pc \in Labels : At(p, pc) /\ pc # "idle"
    BY DEF RevokeStep, RemoveTarget, CountOwners, DeleteRow, AllowReadForDelete,
       AllowDelete, KeyDelete, RevokeNext, ListOwners, RotateNext,
       Labels, Replied
  <2>3. QED
    BY <2>1, <2>2, AtTyped
<1>2. /\ r.zone \in Zones /\ r.caller \in Users /\ r.todo \subseteq Pair
      /\ r.snap \subseteq Users /\ r.cur \in Pair
      /\ r.cur[1] \in Users /\ r.cur[2] \in Zones
  BY <1>1 DEF Request, Pair
<1>3. CASE RemoveTarget(p)
  BY <1>1, <1>3, GotoTyped, ReplyTyped DEF RemoveTarget, Labels, Replied
<1>4. CASE CountOwners(p)
  BY <1>1, <1>4, GotoTyped, ReplyTyped DEF CountOwners, Labels, Replied
<1>5. CASE DeleteRow(p)
  BY <1>1, <1>5, GotoTyped DEF DeleteRow, Labels
<1>6. CASE AllowReadForDelete(p)
  <2> DEFINE new == [r EXCEPT !.pc = "allowDel", !.snap = allow[r.cur[2]]]
  <2>1. new \in Request
    BY <1>1, <1>2 DEF TypeOK, DnsTyped, Request, Labels
  <2>2. Goto(p, "keyDel") \/ Set(p, new)
    BY <1>6 DEF AllowReadForDelete
  <2>3. QED
    BY <1>1, <2>1, <2>2, SetTyped, GotoTyped DEF Labels
<1>7. CASE AllowDelete(p)
  <2>1. [r EXCEPT !.pc = "keyDel", !.snap = {}] \in Request
    BY <1>1 DEF Request, Labels
  <2>2. QED
    BY <1>1, <1>7, <2>1, SetTyped DEF AllowDelete
<1>8. CASE KeyDelete(p)
  <2>1. \/ Reply(p, "failed")
        \/ Goto(p, "keyAdd") \/ Goto(p, "subtree") \/ Goto(p, "revoke")
    BY <1>8 DEF KeyDelete
  <2>2. QED
    BY <1>1, <2>1, GotoTyped, ReplyTyped DEF Labels, Replied
<1>9. CASE RevokeNext(p)
  <2>1. CASE Reply(p, "ok")
    BY <1>1, <2>1, ReplyTyped DEF Replied
  <2>2. ASSUME NEW t \in r.todo,
               \/ Set(p, [r EXCEPT !.todo = @ \ {t}])
               \/ Set(p, [Visit(r, t) EXCEPT !.pc = "count"])
        PROVE  RequestsTyped'
    <3>1. "count" \in Labels
      BY DEF Labels
    <3>2. /\ [r EXCEPT !.todo = @ \ {t}] \in Request
          /\ [Visit(r, t) EXCEPT !.pc = "count"] \in Request
      BY <1>1, <3>1, SkipTyped, VisitTyped
    <3>3. QED
      BY <1>1, <2>2, <3>2, SetTyped
  <2>3. QED
    BY <1>9, <2>1, <2>2 DEF RevokeNext
<1>10. CASE ListOwners(p)
  <2> DEFINE pairs == ListZoneOwners(r.zone) \X {r.zone}
  <2>1. pairs \subseteq Pair
    BY <1>2, OwnersAreUsers DEF TypeOK, Pair
  <2>2. [r EXCEPT !.pc = "rotate", !.todo = pairs] \in Request
    BY <1>1, <2>1 DEF Request, Labels
  <2>3. QED
    BY <1>1, <1>10, <2>2, SetTyped DEF ListOwners
<1>11. CASE RotateNext(p)
  <2>1. CASE Reply(p, "ok")
    BY <1>1, <2>1, ReplyTyped DEF Replied
  <2>2. ASSUME NEW t \in r.todo,
               Set(p, [Visit(r, t) EXCEPT !.pc = "allowReadDel"])
        PROVE  RequestsTyped'
    <3>1. "allowReadDel" \in Labels
      BY DEF Labels
    <3>2. [Visit(r, t) EXCEPT !.pc = "allowReadDel"] \in Request
      BY <1>1, <3>1, VisitTyped
    <3>3. QED
      BY <1>1, <2>2, <3>2, SetTyped
  <2>3. QED
    BY <1>11, <2>1, <2>2 DEF RotateNext
<1>12. QED
  BY <1>3, <1>4, <1>5, <1>6, <1>7, <1>8, <1>9, <1>10, <1>11 DEF RevokeStep

\* ... and of a deletion.
LEMMA DeleteStepTyped ==
  ASSUME TypeOK, NEW p \in Procs, DeleteStep(p)
  PROVE  RequestsTyped'
<1> DEFINE r == req[p]
<1>1. RequestsTyped /\ r \in Request
  <2>1. RequestsTyped
    BY DEF TypeOK
  <2>2. \E pc \in Labels : At(p, pc) /\ pc # "idle"
    BY DEF DeleteStep, OrphanLookup, OwnSubzones, ListKeys, DeleteNextKey,
       DeleteFromDns, DeleteRows,
       Labels, Replied
  <2>3. QED
    BY <2>1, <2>2, AtTyped
<1>2. /\ r.zone \in Zones /\ r.caller \in Users /\ r.todo \subseteq Pair
      /\ r.snap \subseteq Users /\ r.cur \in Pair
      /\ r.cur[1] \in Users /\ r.cur[2] \in Zones
  BY <1>1 DEF Request, Pair
<1>3. CASE OrphanLookup(p)
  <2>1. CASE Reply(p, "refused")
    BY <1>1, <2>1, ReplyTyped DEF Replied
  <2>2. ASSUME NEW w \in GetZoneByName(r.zone),
               Set(p, [r EXCEPT !.pc = "ownSubs", !.caller = w.user])
        PROVE  RequestsTyped'
    <3>1. w.user \in Users
      BY <1>2 DEF GetZoneByName, TypeOK, RowsTyped, Row
    <3>2. [r EXCEPT !.pc = "ownSubs", !.caller = w.user] \in Request
      BY <1>1, <3>1 DEF Request, Labels
    <3>3. QED
      BY <1>1, <2>2, <3>2, SetTyped
  <2>3. QED
    BY <1>3, <2>1, <2>2 DEF OrphanLookup
<1>4. CASE OwnSubzones(p)
  BY <1>1, <1>4, GotoTyped, ReplyTyped DEF OwnSubzones, Labels, Replied
<1>5. CASE ListKeys(p)
  <2> DEFINE next == IF allow[r.zone] = {} THEN "zoneDel" ELSE "keysDel"
             new  == [r EXCEPT !.snap = allow[r.zone], !.pc = next]
  <2>1. new \in Request
    BY <1>1, <1>2 DEF TypeOK, DnsTyped, Request, Labels
  <2>2. Reply(p, "failed") \/ Set(p, new)
    BY <1>5 DEF ListKeys
  <2>3. QED
    BY <1>1, <2>1, <2>2, SetTyped, ReplyTyped DEF Replied
<1>6. CASE DeleteNextKey(p)
  <2>1. CASE Reply(p, "failed")
    BY <1>1, <2>1, ReplyTyped DEF Replied
  <2>2. ASSUME NEW u \in r.snap,
               Set(p, [r EXCEPT !.snap = @ \ {u},
                         !.pc = IF r.snap = {u} THEN "zoneDel" ELSE "keysDel"])
        PROVE  RequestsTyped'
    <3>1. [r EXCEPT !.snap = @ \ {u},
             !.pc = IF r.snap = {u} THEN "zoneDel" ELSE "keysDel"] \in Request
      BY <1>1, <1>2 DEF Request, Labels
    <3>2. QED
      BY <1>1, <2>2, <3>1, SetTyped
  <2>3. QED
    BY <1>6, <2>1, <2>2 DEF DeleteNextKey
<1>7. CASE DeleteFromDns(p)
  BY <1>1, <1>7, GotoTyped, ReplyTyped DEF DeleteFromDns, Labels, Replied
<1>8. CASE DeleteRows(p)
  BY <1>1, <1>8, ReplyTyped DEF DeleteRows, Replied
<1>9. QED
  BY <1>3, <1>4, <1>5, <1>6, <1>7, <1>8 DEF DeleteStep

LEMMA StepTyped ==
  ASSUME TypeOK, NEW p \in Procs, Step(p)
  PROVE  TypeOK'
<1>1. RequestsTyped'
  <2>1. CASE Respond(p)
    BY <2>1, SetTyped DEF Respond, TypeOK
  <2>2. QED
    BY <2>1, CreateStepTyped, GrantStepTyped, RevokeStepTyped, DeleteStepTyped
       DEF Step
<1>2. BudgetTyped'
  BY BudgetChanges DEF TypeOK, BudgetTyped, budget
<1>3. QED
  BY <1>1, <1>2, RowsStayTyped, DnsStaysTyped DEF TypeOK

\* The initial rows of a zone are as many as its list of owners is long.
LEMMA InitTyped ==
  ASSUME Init
  PROVE  TypeOK
<1>1. PICK table \in InitTables : InitWith(table)
  BY DEF Init
<1>2. table \in [Zones -> Seq(Users)]
  BY <1>1, ServiceAssumption
<1>3. RowsTyped
  <2> SUFFICES ASSUME NEW z \in Zones
               PROVE  rows[z] \in SUBSET Row /\ IsFiniteSet(rows[z])
    BY <1>1 DEF RowsTyped, InitWith
  <2> DEFINE row == [i \in DOMAIN table[z] |-> [user |-> table[z][i], id |-> i]]
  <2>1. table[z] \in Seq(Users)
    BY <1>2
  <2>2. DOMAIN table[z] = 1 .. Len(table[z]) /\ Len(table[z]) \in Nat
    BY <2>1
  <2>3. IsFiniteSet(DOMAIN table[z])
    BY <2>2, FS_Interval
  <2>4. rows[z] = {row[i] : i \in DOMAIN table[z]}
    BY <1>1 DEF InitWith
  <2>5. row \in Surjection(DOMAIN table[z], rows[z])
    BY <2>4 DEF Surjection
  <2>6. IsFiniteSet(rows[z])
    BY <2>3, <2>5, FS_Surjection
  <2>7. \A i \in DOMAIN table[z] : row[i] \in Row
    BY <2>1, <2>2 DEF Row
  <2>8. QED
    BY <2>4, <2>6, <2>7
<1>4. DnsTyped
  BY <1>1 DEF InitWith, DnsTyped, ServedFor, StoredZones, KeysFor
<1>5. RequestsTyped
  BY DEF Init, RequestsTyped
<1>6. BudgetTyped
  BY ServiceAssumption DEF Init, BudgetTyped
<1>7. QED
  BY <1>3, <1>4, <1>5, <1>6 DEF TypeOK

\* No request leaves a table or a request record malformed, whatever the tables
\* were filled with and however many requests there are.
THEOREM TypeCorrect == Spec => []TypeOK
<1>1. ASSUME TypeOK, [Next]_vars
      PROVE  TypeOK'
  <2>1. ASSUME NEW p \in Procs, Receive(p)
        PROVE  TypeOK'
    <3>1. PICK op \in Ops, login \in Logins, caller \in Users, zone \in Zones,
               target \in Users :
            Set(p, Fresh(op, login, caller, zone, target, FirstLabel(op)))
      BY <2>1 DEF Receive
    <3>2. FirstLabel(op) \in Labels
      BY DEF FirstLabel, Labels
    <3>3. Fresh(op, login, caller, zone, target, FirstLabel(op)) \in Request
      BY <3>2, ServiceAssumption, FreshTyped
    <3>4. RequestsTyped'
      BY <1>1, <3>1, <3>3, SetTyped DEF TypeOK
    <3>5. UNCHANGED <<rows, dnsVars, faults>>
      BY <2>1 DEF Receive
    <3>6. BudgetTyped'
      BY <1>1, <2>1, <3>5, ServiceAssumption DEF Receive, TypeOK, BudgetTyped
    <3>7. QED
      BY <1>1, <3>4, <3>5, <3>6 DEF TypeOK, RowsTyped, DnsTyped, dnsVars
  <2>2. ASSUME NEW p \in Procs, CallFails(p)
        PROVE  TypeOK'
    <3>1. req[p] \in Request
      BY <1>1, <2>2 DEF CallFails, BetweenCalls, TypeOK, RequestsTyped, Idle
    <3>2. \A pc \in DOMAIN AfterIgnoredError : AfterIgnoredError[pc] \in Labels
      BY DEF AfterIgnoredError, Labels
    <3>3. RequestsTyped'
      BY <1>1, <2>2, <3>1, <3>2, GotoTyped, ReplyTyped
         DEF CallFails, TypeOK, Replied
    <3>4. BudgetTyped'
      BY <1>1, <2>2, ServiceAssumption DEF CallFails, TypeOK, BudgetTyped
    <3>5. UNCHANGED <<rows, dnsVars>>
      BY <2>2 DEF CallFails
    <3>6. QED
      BY <1>1, <3>3, <3>4, <3>5 DEF TypeOK, RowsTyped, DnsTyped, dnsVars
  <2>3. ASSUME Crash
        PROVE  TypeOK'
    <3>1. RequestsTyped'
      BY <2>3 DEF Crash, RequestsTyped
    <3>2. BudgetTyped'
      BY <1>1, <2>3, ServiceAssumption DEF Crash, TypeOK, BudgetTyped
    <3>3. UNCHANGED <<rows, dnsVars>>
      BY <2>3 DEF Crash
    <3>4. QED
      BY <1>1, <3>1, <3>2, <3>3 DEF TypeOK, RowsTyped, DnsTyped, dnsVars
  <2>4. CASE UNCHANGED vars
    BY <1>1, <2>4 DEF vars, TypeOK, RowsTyped, DnsTyped, RequestsTyped,
       BudgetTyped
  <2>5. QED
    BY <1>1, <2>1, <2>2, <2>3, <2>4, StepTyped DEF Next
<1>2. QED
  BY <1>1, InitTyped, PTL DEF Spec

-------------------------------------------------------------------------------
(* Ownership follows the policy *)

\* `s` is the request `r`, possibly further on.
Same(r, s) ==
  /\ s.op = r.op /\ s.login = r.login /\ s.caller = r.caller
  /\ s.zone = r.zone /\ s.target = r.target

LEMMA SharingAnswersTyped ==
  ASSUME RowsTyped, NEW z \in Zones
  PROVE  zoneSharingAnswers(z) \subseteq BOOLEAN
<1>1. \A u \in ListZoneOwners(z) : ZoneDefinitions(z, u) \subseteq Definition
  BY DefinitionsTyped, OwnersAreUsers
<1>2. GoverningDefs(z, ListZoneOwners(z)) \subseteq Definition
  BY <1>1 DEF GoverningDefs
<1>3. QED
  BY <1>2 DEF zoneSharingAnswers, SharingAnswers, Definition

\* An owner's definition that allows sharing makes the zone shareable.
LEMMA SharingIsVetted ==
  ASSUME RowsTyped, NEW z \in Zones, TRUE \in zoneSharingAnswers(z)
  PROVE  /\ Shareable(z)
         /\ \A u \in Users : PolicyReaches(u, z)
<1>1. PICK u \in ListZoneOwners(z) : \E d \in ZoneDefinitions(z, u) : d.share
  BY DEF zoneSharingAnswers, SharingAnswers, GoverningDefs
<1>2. u \in Users
  BY OwnersAreUsers
<1>3. PolicyIsZoneAllowedForUser(z, u)
  BY <1>1, DefinedIsAllowed
<1>4. Shareable(z)
  BY <1>1, <1>2 DEF Shareable
<1>5. AtOrBelow(z, z)
  BY DEF AtOrBelow
<1>6. QED
  BY <1>2, <1>3, <1>4, <1>5 DEF PolicyReaches, ReachedUsers

\* What the policy gives a caller it gives to the e-mail address of some claims.
LEMMA CallerDefined ==
  ASSUME NEW r \in Request, NEW d \in CallerDefinitions(r)
  PROVE  \E v \in {r.caller, NoEmail} : v \in Users /\ d \in ZoneDefinitions(r.zone, v)
BY NoEmailAssumption DEF Request, CallerDefinitions

\* So does the caller's own definition, or that of their token.
LEMMA CallerIsVetted ==
  ASSUME NEW r \in Request, CallerDefinitions(r) # {}
  PROVE  PolicyReaches(r.caller, r.zone)
<1>1. r.caller \in Users /\ r.zone \in Zones
  BY DEF Request
<1>2. PICK v \in {r.caller, NoEmail} : v \in Users /\ ZoneDefinitions(r.zone, v) # {}
  BY CallerDefined
<1>3. PolicyIsZoneAllowedForUser(r.zone, v)
  BY <1>2, DefinedIsAllowed
<1>4. Entitled(r.caller, r.zone)
  BY <1>3 DEF Entitled
<1>5. AtOrBelow(r.zone, r.zone)
  BY DEF AtOrBelow
<1>6. QED
  BY <1>1, <1>2, <1>3, <1>4, <1>5 DEF PolicyReaches, ReachedUsers

\* One of them that allows sharing lets the zone be shared.
LEMMA CallerShares ==
  ASSUME NEW r \in Request, NEW d \in CallerDefinitions(r), d.share
  PROVE  r.zone \in SharedZones
<1>1. r.zone \in Zones /\ \E v \in Users : d \in ZoneDefinitions(r.zone, v)
  BY CallerDefined DEF Request
<1>2. QED
  BY <1>1 DEF SharedZones, Shareable, AtOrBelow

\* What is below a zone that may be shared may be shared.
LEMMA SharedBelow ==
  ASSUME NEW z \in Zones, NEW w \in SharedZones, AtOrBelow(z, w)
  PROVE  z \in SharedZones
BY BelowTransitive DEF SharedZones

\* What the policy lets a user do above a zone reaches them on the zone, once
\* anybody is entitled to the zone.
LEMMA ReachesBelow ==
  ASSUME NEW u \in Users, NEW z \in Zones, NEW w \in Zones, AtOrBelow(z, w),
         PolicyReaches(u, w),
         \E v \in Users : PolicyIsZoneAllowedForUser(z, v)
  PROVE  PolicyReaches(u, z)
<1>1. PICK x \in Zones :
        /\ AtOrBelow(w, x)
        /\ Entitled(u, x) \/ Shareable(x)
  BY DEF PolicyReaches, ReachedUsers
<1>2. AtOrBelow(z, x)
  BY <1>1, BelowTransitive
<1>3. QED
  BY <1>1, <1>2 DEF PolicyReaches, ReachedUsers

\* The policy covers a zone on which it reaches anybody for somebody, ...
LEMMA ReachedIsCovered ==
  ASSUME NEW u \in Users, NEW z \in Zones, PolicyReaches(u, z)
  PROVE  \E v \in Users : PolicyIsZoneAllowedForUser(z, v)
BY DEF PolicyReaches, ReachedUsers

\* ... and so every stored zone.
LEMMA StoredIsCovered ==
  ASSUME RowsTyped, OwnershipFollowsPolicy, NEW z \in Zones, ZoneExists(z)
  PROVE  \E v \in Users : PolicyIsZoneAllowedForUser(z, v)
<1>1. PICK w \in rows[z] : TRUE
  BY DEF ZoneExists
<1>2. w.user \in ListZoneOwners(z)
  BY <1>1 DEF ListZoneOwners
<1>3. QED
  BY <1>2 DEF OwnershipFollowsPolicy, PolicyReaches, ReachedUsers

\* A request that has been vetted stays vetted while it takes no new pairs.
LEMMA PairsKept ==
  ASSUME NEW r \in Request, NEW s \in Request, Same(r, s), PairsVetted(r),
         r.pc \notin Replied,
         r.op \in DOMAIN Unvetted =>
           r.pc \notin Unvetted[r.op] /\ s.pc \notin Unvetted[r.op],
         {s.cur} \cup s.todo \subseteq {MainPair(r), r.cur} \cup r.todo
  PROVE  PairsVetted(s)
<1>1. MainPair(s) = MainPair(r)
  BY DEF MainPair, Fresh, Same
<1>2. CASE r.op \in DOMAIN Unvetted
  <2>1. \A t \in {MainPair(r), r.cur} \cup r.todo : PairVetted(r, t)
    BY <1>2 DEF PairsVetted
  <2>2. \A t : PairVetted(s, t) <=> PairVetted(r, t)
    BY <1>1 DEF PairVetted, Same
  <2>3. QED
    BY <1>1, <2>1, <2>2 DEF PairsVetted, Same
<1>3. QED
  BY <1>2 DEF PairsVetted, Same

\* The only other way a vetted request goes on is to reply.
LEMMA RepliedIsVetted ==
  ASSUME NEW r, r.pc \in Replied
  PROVE  Vetted(r)
BY DEF Vetted, ParentVetted, PairsVetted, OpsAt, Replied

LEMMA FreshIsVetted ==
  ASSUME NEW op \in AllOps, NEW login, NEW caller, NEW zone, NEW target
  PROVE  Vetted(Fresh(op, login, caller, zone, target, FirstLabel(op)))
<1> DEFINE r == Fresh(op, login, caller, zone, target, FirstLabel(op))
<1>1. /\ r.op = op /\ r.pc = FirstLabel(op) /\ r.cur = MainPair(r)
      /\ r.todo = {}
  BY DEF Fresh, MainPair
<1>2. op \in DOMAIN Unvetted => FirstLabel(op) \in Unvetted[op]
  BY DEF Unvetted, FirstLabel
<1>3. /\ FirstLabel(op) \in DOMAIN OpsAt => op \in OpsAt[FirstLabel(op)]
      /\ FirstLabel(op) \notin {"parentDef", "shareCheck", "parentOwners"}
  BY DEF FirstLabel, OpsAt, AllOps
<1> HIDE DEF r
<1>4. Vetted(r)
  BY <1>1, <1>2, <1>3 DEF Vetted, ParentVetted, PairsVetted
<1>5. QED
  BY <1>4 DEF r

\* A step changes one request, and the policy does not depend on the stores.
LEMMA SetVetted ==
  ASSUME RequestsTyped, RequestsVetted, NEW p \in Procs, NEW r,
         r = Idle \/ Vetted(r), Set(p, r)
  PROVE  RequestsVetted'
<1>1. \A q \in Procs : req'[q] = req[q] \/ req'[q] = r
  BY DEF Set, RequestsTyped
<1>2. \A q \in Procs : req'[q] # Idle => Vetted(req'[q])
  BY <1>1 DEF RequestsVetted
<1>3. QED
  BY <1>2 DEF RequestsVetted

LEMMA ReplyVetted ==
  ASSUME RequestsTyped, RequestsVetted, NEW p \in Procs,
         NEW status \in Replied, Reply(p, status)
  PROVE  RequestsVetted'
<1> DEFINE r == req[p]
           s == Fresh(r.op, r.login, r.caller, r.zone, r.target, status)
<1>1. s.pc = status
  BY DEF Fresh
<1>2. Set(p, s)
  BY DEF Reply
<1> HIDE DEF s
<1>3. QED
  BY <1>1, <1>2, RepliedIsVetted, SetVetted

\* A vetted request stays so when it goes on to a label past its policy check.
LEMMA AdvanceVetted ==
  ASSUME TypeOK, RequestsVetted, NEW p \in Procs, req[p] \in Request,
         NEW s \in Request, Set(p, s), Same(req[p], s), ParentVetted(s),
         req[p].pc \notin Replied,
         s.pc \in DOMAIN OpsAt => s.op \in OpsAt[s.pc],
         s.op \in DOMAIN Unvetted =>
           req[p].pc \notin Unvetted[s.op] /\ s.pc \notin Unvetted[s.op],
         {s.cur} \cup s.todo \subseteq
           {MainPair(req[p]), req[p].cur} \cup req[p].todo
  PROVE  RequestsVetted'
<1>1. PairsVetted(req[p])
  BY DEF RequestsVetted, Vetted, Idle, Request
<1>2. PairsVetted(s)
  BY <1>1, PairsKept DEF Same
<1>3. QED
  BY <1>2, SetVetted DEF TypeOK, Vetted

LEMMA GotoVetted ==
  ASSUME TypeOK, RequestsVetted, NEW p \in Procs, req[p] \in Request,
         NEW pc \in Labels, Goto(p, pc),
         req[p].pc \notin Replied,
         pc \notin {"parentDef", "shareCheck", "parentOwners"},
         pc \in DOMAIN OpsAt => req[p].op \in OpsAt[pc],
         req[p].op \in DOMAIN Unvetted =>
           req[p].pc \notin Unvetted[req[p].op] /\ pc \notin Unvetted[req[p].op]
  PROVE  RequestsVetted'
<1> DEFINE s == [req[p] EXCEPT !.pc = pc]
<1>1. /\ s \in Request /\ Same(req[p], s)
      /\ s.pc = pc /\ s.cur = req[p].cur /\ s.todo = req[p].todo
  BY DEF Request, Same
<1>2. Set(p, s)
  BY DEF Goto
<1> HIDE DEF s
<1>3. ParentVetted(s)
  BY <1>1 DEF ParentVetted
<1>4. QED
  BY <1>1, <1>2, <1>3, AdvanceVetted DEF Same

\* Past its policy check the pairs of a creation, join or addition are vetted.
LEMMA VettedPairs ==
  ASSUME NEW r, PairsVetted(r), r.op \in DOMAIN Unvetted,
         r.pc \notin Unvetted[r.op] \cup Replied
  PROVE  \A t \in {MainPair(r), r.cur} \cup r.todo : PairVetted(r, t)
BY DEF PairsVetted

LEMMA VettedAt ==
  ASSUME TypeOK, PolicyInv, NEW p \in Procs, NEW pc, At(p, pc), pc # "idle"
  PROVE  /\ RequestsTyped /\ RequestsVetted
         /\ req[p] \in Request /\ req[p].pc = pc /\ Vetted(req[p])
BY AtTyped DEF TypeOK, PolicyInv, RequestsVetted, At, Idle, Request

\* The steps of a creation: its policy check, ...
LEMMA AuthorizeVetted ==
  ASSUME TypeOK, PolicyInv, NEW p \in Procs, Authorize(p)
  PROVE  RequestsVetted'
<1> DEFINE r == req[p]
<1>1. r \in Request /\ r.pc = "authorize" /\ RequestsVetted /\ RequestsTyped
  BY VettedAt DEF Authorize
<1>2. Vetted(r)
  BY VettedAt DEF Authorize
<1>3. r.op = "create"
  BY <1>1, <1>2 DEF Vetted, OpsAt
<1>4. r.cur = MainPair(r) /\ r.todo = {} /\ MainPair(r) = <<r.caller, r.zone>>
  BY <1>1, <1>2, <1>3 DEF Vetted, PairsVetted, Unvetted, Replied, MainPair, Fresh
<1>5. r.caller \in Users /\ r.zone \in Zones
  BY <1>1 DEF Request
<1>6. ASSUME NEW d \in CallerDefinitions(r),
             Set(p, [r EXCEPT !.pc = "exists", !.at = d.soa])
      PROVE  RequestsVetted'
  <2> DEFINE s == [r EXCEPT !.pc = "exists", !.at = d.soa]
  <2>1. PolicyReaches(r.caller, r.zone)
    BY <1>1, CallerIsVetted
  <2>2. s.pc = "exists" /\ s.op = "create" /\ s.cur = r.cur /\ s.todo = {} /\ Same(r, s)
    BY <1>1, <1>3, <1>4 DEF Request, Same
  <2> HIDE DEF s
  <2>3. MainPair(s) = <<r.caller, r.zone>>
    BY <1>4, <2>2 DEF MainPair, Fresh, Same
  <2>4. PairsVetted(s)
    BY <1>4, <2>1, <2>2, <2>3 DEF PairsVetted, PairVetted, Unvetted
  <2>5. Vetted(s)
    BY <2>2, <2>4 DEF Vetted, ParentVetted, OpsAt
  <2>6. QED
    BY <1>1, <1>6, <2>5, SetVetted DEF s
<1>7. ASSUME NEW w \in Zones, IsZoneOwner(r.caller, w), <<r.zone, w>> \in Below,
             Set(p, [r EXCEPT !.pc = "parentDef", !.at = w])
      PROVE  RequestsVetted'
  <2> DEFINE s == [r EXCEPT !.pc = "parentDef", !.at = w]
  <2>1. PolicyReaches(r.caller, w)
    BY <1>7 DEF IsZoneOwner, PolicyInv, OwnershipFollowsPolicy
  <2>2. /\ s.pc = "parentDef" /\ s.op = "create" /\ s.cur = r.cur
        /\ s.todo = {} /\ s.at = w /\ Same(r, s)
    BY <1>1, <1>3, <1>4 DEF Request, Same
  <2> HIDE DEF s
  <2>3. MainPair(s) = MainPair(r)
    BY <2>2 DEF MainPair, Fresh, Same
  <2>4. PairsVetted(s)
    BY <1>4, <2>2, <2>3 DEF PairsVetted, Unvetted
  <2>5. Vetted(s)
    BY <1>7, <2>1, <2>2, <2>4 DEF Vetted, ParentVetted, OpsAt, Same
  <2>6. QED
    BY <1>1, <1>7, <2>5, SetVetted DEF s
<1>8. CASE Reply(p, "refused")
  BY <1>1, <1>8, ReplyVetted DEF Replied
<1>9. \A w \in Closest({x \in ListUserZones(r.caller) : <<r.zone, x>> \in Below}) :
        w \in Zones /\ IsZoneOwner(r.caller, w) /\ <<r.zone, w>> \in Below
  BY DEF Closest, ListUserZones
<1>10. QED
  BY <1>6, <1>7, <1>8, <1>9 DEF Authorize

LEMMA ParentDefinitionVetted ==
  ASSUME TypeOK, PolicyInv, NEW p \in Procs, ParentDefinition(p)
  PROVE  RequestsVetted'
<1> DEFINE r == req[p]
           s == [r EXCEPT !.pc = "exists"]
           defs == GoverningDefs(r.at, ListZoneOwners(r.at))
<1>1. r \in Request /\ r.pc = "parentDef" /\ RequestsVetted /\ RequestsTyped
  BY VettedAt DEF ParentDefinition
<1>2. Vetted(r)
  BY VettedAt DEF ParentDefinition
<1>3. /\ r.op = "create" /\ <<r.zone, r.at>> \in Below
      /\ PolicyReaches(r.caller, r.at)
  BY <1>1, <1>2 DEF Vetted, ParentVetted, OpsAt
<1>4. r.cur = MainPair(r) /\ r.todo = {} /\ MainPair(r) = <<r.caller, r.zone>>
  BY <1>1, <1>2, <1>3 DEF Vetted, PairsVetted, Unvetted, Replied, MainPair, Fresh
<1>5. r.caller \in Users /\ r.zone \in Zones /\ r.at \in Zones
  BY <1>1 DEF Request
<1>6. ASSUME NEW d \in defs, d.sub, Goto(p, "exists")
      PROVE  RequestsVetted'
  <2>1. PICK u \in Users : d \in ZoneDefinitions(r.at, u)
    BY <1>5, OwnersAreUsers DEF GoverningDefs, TypeOK
  <2>2. PolicyIsZoneAllowedForUser(r.zone, u)
    BY <1>3, <1>5, <1>6, <2>1, SubzonesAllowed
  <2>3. PolicyReaches(r.caller, r.zone)
    BY <1>3, <1>5, <2>2, ReachesBelow DEF AtOrBelow
  <2>4. s.pc = "exists" /\ s.op = "create" /\ s.cur = r.cur /\ s.todo = {} /\ Same(r, s)
    BY <1>1, <1>3, <1>4 DEF Request, Same
  <2>5. Set(p, s)
    BY <1>6 DEF Goto
  <2> HIDE DEF s
  <2>6. MainPair(s) = <<r.caller, r.zone>>
    BY <1>4, <2>4 DEF MainPair, Fresh, Same
  <2>7. PairsVetted(s)
    BY <1>4, <2>3, <2>4, <2>6 DEF PairsVetted, PairVetted, Unvetted
  <2>8. Vetted(s)
    BY <2>4, <2>7 DEF Vetted, ParentVetted, OpsAt
  <2>9. QED
    BY <1>1, <2>5, <2>8, SetVetted
<1>7. CASE Reply(p, "refused")
  BY <1>1, <1>7, ReplyVetted DEF Replied
<1>8. QED
  BY <1>6, <1>7 DEF ParentDefinition

\* ... the inheritance from its parent, ...
LEMMA FindParentVetted ==
  ASSUME TypeOK, PolicyInv, NEW p \in Procs, FindParent(p)
  PROVE  RequestsVetted'
<1> DEFINE r == req[p]
<1>1. /\ r \in Request /\ r.pc = "parent" /\ Vetted(r)
      /\ RequestsVetted /\ RequestsTyped
  BY VettedAt DEF FindParent
<1>2. r.op = "create"
  BY <1>1 DEF Vetted, OpsAt
<1>3. ASSUME NEW w \in closestStoredParent(r.zone),
             Set(p, [r EXCEPT !.pc = "shareCheck", !.at = w])
      PROVE  RequestsVetted'
  <2> DEFINE s == [r EXCEPT !.pc = "shareCheck", !.at = w]
  <2>1. w \in Zones /\ <<r.zone, w>> \in Below
    BY DEF closestStoredParent, Closest
  <2>2. s \in Request
    BY <1>1, <2>1 DEF Request, Labels
  <2>3. /\ s.pc = "shareCheck" /\ s.at = w /\ Same(r, s)
        /\ s.cur = r.cur /\ s.todo = r.todo
    BY <1>1 DEF Request, Same
  <2>4. Set(p, s)
    BY <1>3
  <2> HIDE DEF s
  <2>5. ParentVetted(s)
    BY <2>1, <2>3 DEF ParentVetted, Same
  <2>6. QED
    BY <1>1, <1>2, <2>2, <2>3, <2>4, <2>5, AdvanceVetted
       DEF Same, OpsAt, Unvetted, Replied
<1>4. CASE Reply(p, "ok")
  BY <1>1, <1>4, ReplyVetted DEF Replied
<1>5. QED
  BY <1>3, <1>4 DEF FindParent

LEMMA ParentSharingVetted ==
  ASSUME TypeOK, PolicyInv, NEW p \in Procs, ParentSharing(p)
  PROVE  RequestsVetted'
<1> DEFINE r == req[p]
           s == [r EXCEPT !.pc = "parentOwners"]
<1>1. /\ r \in Request /\ r.pc = "shareCheck" /\ r.op = "create"
      /\ RequestsVetted /\ RequestsTyped
  BY VettedAt DEF ParentSharing
<1>2. <<r.zone, r.at>> \in Below
  BY <1>1, VettedAt DEF ParentSharing, Vetted, ParentVetted
<1>3. CASE TRUE \in zoneSharingAnswers(r.at) /\ Goto(p, "parentOwners")
  <2>1. Shareable(r.at)
    BY <1>1, <1>3, SharingIsVetted DEF TypeOK, Request
  <2>2. s \in Request
    BY <1>1 DEF Request, Labels
  <2>3. /\ s.pc = "parentOwners" /\ s.at = r.at /\ Same(r, s)
        /\ s.cur = r.cur /\ s.todo = r.todo
    BY <1>1 DEF Request, Same
  <2>4. Set(p, s)
    BY <1>3 DEF Goto
  <2> HIDE DEF s
  <2>5. ParentVetted(s)
    BY <1>2, <2>1, <2>3 DEF ParentVetted, Same
  <2>6. QED
    BY <1>1, <2>2, <2>3, <2>4, <2>5, AdvanceVetted
       DEF Same, OpsAt, Unvetted, Replied
<1>4. CASE Reply(p, "ok")
  BY <1>1, <1>4, ReplyVetted DEF Replied
<1>5. zoneSharingAnswers(r.at) \subseteq BOOLEAN
  BY <1>1, SharingAnswersTyped DEF TypeOK, Request
<1>6. QED
  BY <1>3, <1>4, <1>5 DEF ParentSharing

LEMMA ParentOwnersVetted ==
  ASSUME TypeOK, PolicyInv, NEW p \in Procs, ParentOwners(p)
  PROVE  RequestsVetted'
<1> DEFINE r == req[p]
           heirs == (ListZoneOwners(r.at) \ {r.caller}) \X {r.zone}
           s == [r EXCEPT !.pc = "grant", !.todo = heirs]
<1>1. /\ r \in Request /\ r.pc = "parentOwners" /\ Vetted(r)
      /\ RequestsVetted /\ RequestsTyped
  BY VettedAt DEF ParentOwners
<1>2. r.op = "create" /\ <<r.zone, r.at>> \in Below /\ Shareable(r.at)
  BY <1>1 DEF Vetted, ParentVetted, OpsAt
<1>3. r.caller \in Users /\ r.zone \in Zones /\ r.at \in Zones
  BY <1>1 DEF Request
<1>4. \A t \in {MainPair(r), r.cur} \cup r.todo : PairVetted(r, t)
  BY <1>1, <1>2, VettedPairs DEF Vetted, Unvetted, Replied
<1>5. MainPair(r) = <<r.caller, r.zone>>
  BY <1>2 DEF MainPair, Fresh
<1>6. \E v \in Users : PolicyIsZoneAllowedForUser(r.zone, v)
  <2>1. PolicyReaches(r.caller, r.zone)
    BY <1>4, <1>5 DEF PairVetted
  <2>2. QED
    BY <1>3, <2>1, ReachedIsCovered
<1>7. \A u \in Users : PolicyReaches(u, r.zone)
  BY <1>2, <1>3, <1>6 DEF PolicyReaches, ReachedUsers, AtOrBelow
<1>8. \A t \in heirs : PairVetted(r, t)
  <2>1. \A t \in heirs : PolicyReaches(t[1], t[2])
    BY <1>3, <1>7, OwnersAreUsers DEF TypeOK
  <2>2. r.zone \in SharedZones
    BY <1>2, <1>3 DEF SharedZones, AtOrBelow
  <2>3. QED
    BY <2>1, <2>2 DEF PairVetted
<1>9. /\ s.pc = "grant" /\ s.op = "create" /\ Same(r, s)
      /\ s.cur = r.cur /\ s.todo = heirs
  BY <1>1, <1>2 DEF Request, Same
<1>10. Set(p, s)
  BY DEF ParentOwners
<1> HIDE DEF s, heirs
<1>11. MainPair(s) = MainPair(r)
  BY <1>9 DEF MainPair, Fresh, Same
<1>12. PairsVetted(s)
  <2>1. \A t : PairVetted(s, t) <=> PairVetted(r, t)
    BY <1>9, <1>11 DEF PairVetted, Same
  <2>2. QED
    BY <1>4, <1>8, <1>9, <1>11, <2>1 DEF PairsVetted, Unvetted
<1>13. Vetted(s)
  BY <1>9, <1>12 DEF Vetted, ParentVetted, OpsAt
<1>14. QED
  BY <1>1, <1>10, <1>13, SetVetted

\* ... and everything between.
LEMMA CreateStepVetted ==
  ASSUME TypeOK, PolicyInv, NEW p \in Procs, CreateStep(p)
  PROVE  RequestsVetted'
<1> DEFINE r == req[p]
<1>1. ASSUME NEW chain, chain \subseteq Zones,
             r \in Request, r.op = "create", Vetted(r),
             r.pc \notin {"authorize", "parentDef"} \cup Replied,
             NEW s \in Ensuring(r, chain), Set(p, s)
      PROVE  RequestsVetted'
  <2>1. /\ s \in Request /\ s.pc \in {"dropZone", "interGet"} /\ Same(r, s)
        /\ s.cur = r.cur /\ s.todo = r.todo
    BY <1>1, EnsuringTyped DEF Same
  <2>2. ParentVetted(s)
    BY <2>1 DEF ParentVetted
  <2>3. RequestsVetted
    BY DEF PolicyInv
  <2>4. QED
    BY <1>1, <2>1, <2>2, <2>3, AdvanceVetted
       DEF Same, OpsAt, Unvetted, Replied
<1>2. CASE CreateExists(p)
  <2>1. /\ r \in Request /\ r.pc = "exists" /\ r.op = "create"
        /\ Vetted(r) /\ RequestsVetted
    BY <1>2, VettedAt DEF CreateExists
  <2>2. \/ Reply(p, "refused")
        \/ \E s \in Ensuring(r, Intermediates(r.zone, r.at)) : Set(p, s)
    BY <1>2 DEF CreateExists
  <2>3. Intermediates(r.zone, r.at) \subseteq Zones
    BY DEF Intermediates
  <2>4. QED
    BY <1>1, <2>1, <2>2, <2>3, ReplyVetted DEF TypeOK, Replied
<1>3. CASE DelegationAdd(p)
  <2>1. r \in Request /\ r.pc = "nsAdd" /\ RequestsVetted /\ Vetted(r)
    BY <1>3, VettedAt DEF DelegationAdd
  <2>2. r.op = "create"
    BY <2>1 DEF Vetted, OpsAt
  <2>3. r.chain \ {r.at} \subseteq Zones
    BY <2>1 DEF Request
  <2>4. \/ Reply(p, "failed")
        \/ \E s \in Ensuring(r, r.chain \ {r.at}) : Set(p, s)
    BY <1>3 DEF DelegationAdd
  <2>5. QED
    BY <1>1, <2>1, <2>2, <2>3, <2>4, ReplyVetted DEF TypeOK, Replied
<1>4. CASE \/ IntermediateGet(p) \/ IntermediateAdd(p) \/ DelegationDrop(p)
           \/ DropZone(p) \/ DropKey(p) \/ AddZone(p) \/ FetchZone(p)
  <2>1. /\ r \in Request /\ RequestsVetted /\ Vetted(r)
        /\ r.pc \in {"interGet", "interAdd", "nsDrop", "dropZone", "dropKey",
                     "addZone", "fetch"}
    BY <1>4, VettedAt DEF IntermediateGet, IntermediateAdd, DelegationDrop,
       DropZone, DropKey, AddZone, FetchZone
  <2>2. r.op = "create"
    BY <2>1 DEF Vetted, OpsAt
  <2>3. \/ Reply(p, "failed")
        \/ \E pc \in {"interAdd", "nsDrop", "nsAdd", "dropKey", "addZone",
                      "keyAdd", "insert"} : Goto(p, pc)
    BY <1>4 DEF IntermediateGet, IntermediateAdd, DelegationDrop, DropZone,
       DropKey, AddZone, FetchZone
  <2>4. ASSUME NEW pc \in {"interAdd", "nsDrop", "nsAdd", "dropKey", "addZone",
                           "keyAdd", "insert"},
               Goto(p, pc)
        PROVE  RequestsVetted'
    BY <2>1, <2>2, <2>4, GotoVetted DEF Labels, OpsAt, Unvetted, Replied
  <2>5. QED
    BY <2>1, <2>3, <2>4, ReplyVetted DEF TypeOK, Replied
<1>5. QED
  BY <1>1, <1>2, <1>3, <1>4, AuthorizeVetted, ParentDefinitionVetted,
     FindParentVetted, ParentSharingVetted, ParentOwnersVetted DEF CreateStep

\* Joining and adding: the policy check ...
LEMMA JoinAuthorizeVetted ==
  ASSUME TypeOK, PolicyInv, NEW p \in Procs, JoinAuthorize(p)
  PROVE  RequestsVetted'
<1> DEFINE r == req[p]
           s == [r EXCEPT !.pc = "insert"]
<1>1. /\ r \in Request /\ r.pc = "isOwner" /\ r.op = "join" /\ Vetted(r)
      /\ RequestsVetted /\ RequestsTyped
  BY VettedAt DEF JoinAuthorize
<1>2. r.cur = MainPair(r) /\ r.todo = {} /\ MainPair(r) = <<r.caller, r.zone>>
  BY <1>1 DEF Vetted, PairsVetted, Unvetted, Replied, MainPair, Fresh
<1>3. CASE (\E d \in CallerDefinitions(r) : d.share) /\ Goto(p, "insert")
  <2>1. PolicyReaches(r.caller, r.zone) /\ r.zone \in SharedZones
    BY <1>1, <1>3, CallerIsVetted, CallerShares
  <2>2. s.pc = "insert" /\ s.op = "join" /\ s.cur = r.cur /\ s.todo = {} /\ Same(r, s)
    BY <1>1, <1>2 DEF Request, Same
  <2>3. Set(p, s)
    BY <1>3 DEF Goto
  <2> HIDE DEF s
  <2>4. MainPair(s) = MainPair(r)
    BY <2>2 DEF MainPair, Fresh, Same
  <2>5. PairsVetted(s)
    BY <1>2, <2>1, <2>2, <2>4 DEF PairsVetted, PairVetted, Unvetted
  <2>6. Vetted(s)
    BY <2>2, <2>5 DEF Vetted, ParentVetted, OpsAt
  <2>7. QED
    BY <1>1, <2>3, <2>6, SetVetted
<1>4. CASE Reply(p, "ok") \/ Reply(p, "refused")
  BY <1>1, <1>4, ReplyVetted DEF Replied
<1>5. QED
  BY <1>3, <1>4 DEF JoinAuthorize

LEMMA AddSharingVetted ==
  ASSUME TypeOK, PolicyInv, NEW p \in Procs, AddSharing(p)
  PROVE  RequestsVetted'
<1> DEFINE r == req[p]
           s == [r EXCEPT !.pc = "targetOwner"]
<1>1. /\ r \in Request /\ r.pc = "shareCheck" /\ r.op = "add" /\ Vetted(r)
      /\ RequestsVetted /\ RequestsTyped
  BY VettedAt DEF AddSharing
<1>2. r.cur = MainPair(r) /\ r.todo = {} /\ MainPair(r) = <<r.target, r.zone>>
  BY <1>1 DEF Vetted, PairsVetted, Unvetted, Replied, MainPair, Fresh
<1>3. r.zone \in Zones /\ r.target \in Users
  BY <1>1 DEF Request
<1>4. CASE TRUE \in zoneSharingAnswers(r.zone) /\ Goto(p, "targetOwner")
  <2>1. PolicyReaches(r.target, r.zone) /\ r.zone \in SharedZones
    BY <1>3, <1>4, SharingIsVetted DEF TypeOK, SharedZones, AtOrBelow
  <2>2. /\ s.pc = "targetOwner" /\ s.op = "add" /\ s.cur = r.cur
        /\ s.todo = {} /\ Same(r, s)
    BY <1>1, <1>2 DEF Request, Same
  <2>3. Set(p, s)
    BY <1>4 DEF Goto
  <2> HIDE DEF s
  <2>4. MainPair(s) = MainPair(r)
    BY <2>2 DEF MainPair, Fresh, Same
  <2>5. PairsVetted(s)
    BY <1>2, <2>1, <2>2, <2>4 DEF PairsVetted, PairVetted, Unvetted
  <2>6. Vetted(s)
    BY <2>2, <2>5 DEF Vetted, ParentVetted, OpsAt
  <2>7. QED
    BY <1>1, <2>3, <2>6, SetVetted
<1>5. CASE Reply(p, "refused")
  BY <1>1, <1>5, ReplyVetted DEF Replied
<1>6. zoneSharingAnswers(r.zone) \subseteq BOOLEAN
  BY <1>3, SharingAnswersTyped DEF TypeOK
<1>7. QED
  BY <1>4, <1>5, <1>6 DEF AddSharing

\* ... and the stored subzones, which the policy covers because somebody owns them.
LEMMA ListSubtreeVetted ==
  ASSUME TypeOK, PolicyInv, NEW p \in Procs, ListSubtree(p)
  PROVE  RequestsVetted'
<1> DEFINE r == req[p]
           pairs == {MainPair(r)[1]} \X subzonesOf(r.zone)
           next  == IF r.op = "remove" THEN "revoke" ELSE "grant"
           s == [r EXCEPT !.todo = pairs, !.pc = next]
<1>1. /\ r \in Request /\ r.pc = "subtree" /\ Vetted(r)
      /\ RequestsVetted /\ RequestsTyped
  BY VettedAt DEF ListSubtree
<1>2. r.op \in {"join", "add", "remove"}
  BY <1>1 DEF Vetted, OpsAt
<1>3. /\ s.pc = next /\ s.op = r.op /\ Same(r, s)
      /\ s.cur = r.cur /\ s.todo = pairs
  BY <1>1 DEF Request, Same
<1>4. Set(p, s)
  BY DEF ListSubtree
<1>5. r.zone \in Zones /\ MainPair(r) \in Pair
  BY <1>1, MainPairTyped DEF Request
<1> HIDE DEF s
<1>6. PairsVetted(s)
  <2>1. CASE r.op = "remove"
    BY <1>3, <2>1 DEF PairsVetted, Unvetted
  <2>2. CASE r.op \in {"join", "add"}
    <3>1. \A t \in {MainPair(r), r.cur} \cup r.todo : PairVetted(r, t)
      BY <1>1, <2>2, VettedPairs DEF Vetted, Unvetted, Replied
    <3>2. MainPair(r)[1] \in Users /\ MainPair(r)[2] = r.zone
      BY <1>5 DEF MainPair, Fresh, Pair
    <3>3. ASSUME NEW z \in subzonesOf(r.zone)
          PROVE  PolicyReaches(MainPair(r)[1], z) /\ z \in SharedZones
      <4>1. z \in Zones /\ ZoneExists(z) /\ AtOrBelow(z, r.zone)
        BY DEF subzonesOf, AtOrBelow
      <4>2. \E v \in Users : PolicyIsZoneAllowedForUser(z, v)
        BY <4>1, StoredIsCovered DEF TypeOK, PolicyInv
      <4>3. PolicyReaches(MainPair(r)[1], r.zone) /\ r.zone \in SharedZones
        BY <2>2, <3>1, <3>2 DEF PairVetted
      <4>4. QED
        BY <1>5, <3>2, <4>1, <4>2, <4>3, ReachesBelow, SharedBelow
    <3>4. \A t \in pairs : PairVetted(r, t)
      BY <3>3 DEF PairVetted
    <3>5. MainPair(s) = MainPair(r)
      BY <1>3 DEF MainPair, Fresh, Same
    <3>6. s.pc = "grant"
      BY <1>3, <2>2
    <3> HIDE DEF pairs, next
    <3>7. \A t : PairVetted(s, t) <=> PairVetted(r, t)
      BY <1>3, <3>5 DEF PairVetted
    <3>8. QED
      BY <1>3, <3>1, <3>4, <3>5, <3>6, <3>7, <2>2 DEF PairsVetted, Unvetted
  <2>3. QED
    BY <1>2, <2>1, <2>2
<1>7. Vetted(s)
  BY <1>2, <1>3, <1>6 DEF Vetted, ParentVetted, OpsAt
<1>8. QED
  BY <1>1, <1>4, <1>7, SetVetted

\* Before their policy check, joining and adding only carry their own pair on.
LEMMA UnvettedGoto ==
  ASSUME TypeOK, RequestsVetted, NEW p \in Procs, req[p] \in Request,
         req[p].op \in {"join", "add"}, req[p].pc \in Unvetted[req[p].op],
         NEW pc \in Unvetted[req[p].op], Goto(p, pc)
  PROVE  RequestsVetted'
<1> DEFINE r == req[p]
           s == [r EXCEPT !.pc = pc]
<1>1. /\ r.pc \in {"exists", "isOwner", "shareCheck"}
      /\ pc \in {"exists", "isOwner", "shareCheck"}
      /\ r.op \in DOMAIN Unvetted
  BY DEF Unvetted
<1>2. r # Idle /\ r.pc \notin Replied
  BY <1>1 DEF Idle, Replied
<1>3. PairsVetted(r)
  BY <1>2 DEF RequestsVetted, Vetted
<1>4. r.cur = MainPair(r) /\ r.todo = {}
  BY <1>1, <1>2, <1>3 DEF PairsVetted
<1>5. s.pc = pc /\ s.cur = r.cur /\ s.todo = {} /\ Same(r, s)
  BY <1>4 DEF Request, Same
<1>6. Set(p, s)
  BY DEF Goto
<1> HIDE DEF s
<1>7. MainPair(s) = MainPair(r)
  BY <1>5 DEF MainPair, Fresh, Same
<1>8. PairsVetted(s)
  BY <1>4, <1>5, <1>7 DEF PairsVetted, Same
<1>9. Vetted(s)
  BY <1>1, <1>5, <1>8 DEF Vetted, ParentVetted, OpsAt, Same
<1>10. QED
  BY <1>6, <1>9, SetVetted DEF TypeOK

LEMMA CallerIsOwnerVetted ==
  ASSUME TypeOK, PolicyInv, NEW p \in Procs, CallerIsOwner(p)
  PROVE  RequestsVetted'
<1> DEFINE r == req[p]
<1>1. /\ r \in Request /\ r.pc = "isOwner" /\ RequestsVetted
      /\ r.op \in {"add", "remove", "rotate", "delete"}
  BY VettedAt DEF CallerIsOwner, AfterOwnerCheck
<1>2. CASE Reply(p, "refused")
  BY <1>1, <1>2, ReplyVetted DEF TypeOK, Replied
<1>3. CASE r.op = "add" /\ Goto(p, "shareCheck")
  BY <1>1, <1>3, UnvettedGoto DEF Unvetted
<1>4. CASE r.op = "remove" /\ Goto(p, "targetOwner")
  BY <1>1, <1>4, GotoVetted DEF Labels, OpsAt, Unvetted, Replied
<1>5. CASE r.op = "rotate" /\ Goto(p, "listOwners")
  BY <1>1, <1>5, GotoVetted DEF Labels, OpsAt, Unvetted, Replied
<1>6. CASE r.op = "delete" /\ Goto(p, "ownSubs")
  BY <1>1, <1>6, GotoVetted DEF Labels, OpsAt, Unvetted, Replied
<1>7. QED
  BY <1>1, <1>2, <1>3, <1>4, <1>5, <1>6 DEF CallerIsOwner, AfterOwnerCheck

\* A loop that goes on to one of its pairs, or skips it, stays vetted.
LEMMA LoopVetted ==
  ASSUME TypeOK, RequestsVetted, NEW p \in Procs, req[p] \in Request,
         req[p].pc \in {"grant", "revoke", "rotate"}, NEW t \in req[p].todo,
         NEW pc \in Labels \ (Replied \cup {"authorize", "parentDef", "exists",
                                "isOwner", "shareCheck", "parentOwners"}),
         pc \in DOMAIN OpsAt => req[p].op \in OpsAt[pc],
         Set(p, [Visit(req[p], t) EXCEPT !.pc = pc])
  PROVE  RequestsVetted'
<1> DEFINE r == req[p]
           s == [Visit(r, t) EXCEPT !.pc = pc]
<1>1. s \in Request
  BY VisitTyped
<1>2. s.pc = pc /\ s.cur = t /\ s.todo \subseteq r.todo /\ Same(r, s)
  BY DEF Visit, Request, Same
<1>3. Set(p, s)
  OBVIOUS
<1> HIDE DEF s
<1>4. ParentVetted(s)
  BY <1>2 DEF ParentVetted
<1>5. QED
  BY <1>1, <1>2, <1>3, <1>4, AdvanceVetted DEF Same, Unvetted, Replied

LEMMA SkipVetted ==
  ASSUME TypeOK, RequestsVetted, NEW p \in Procs, req[p] \in Request,
         req[p].pc \in {"grant", "revoke"}, NEW t \in req[p].todo,
         Set(p, [req[p] EXCEPT !.todo = @ \ {t}])
  PROVE  RequestsVetted'
<1> DEFINE r == req[p]
           s == [r EXCEPT !.todo = @ \ {t}]
<1>1. s \in Request
  BY SkipTyped
<1>2. s.pc = r.pc /\ s.cur = r.cur /\ s.todo \subseteq r.todo /\ Same(r, s)
  BY DEF Request, Same
<1>3. Set(p, s)
  OBVIOUS
<1>4. s.pc \in DOMAIN OpsAt => s.op \in OpsAt[s.pc]
  BY <1>2 DEF RequestsVetted, Vetted, Idle, Same
<1> HIDE DEF s
<1>5. ParentVetted(s)
  BY <1>2 DEF ParentVetted
<1>6. QED
  BY <1>1, <1>2, <1>3, <1>4, <1>5, AdvanceVetted DEF Same, Unvetted, Replied

LEMMA GrantStepVetted ==
  ASSUME TypeOK, PolicyInv, NEW p \in Procs, GrantStep(p)
  PROVE  RequestsVetted'
<1> DEFINE r == req[p]
<1>1. CASE JoinExists(p)
  <2>1. r \in Request /\ r.pc = "exists" /\ r.op = "join" /\ RequestsVetted
    BY <1>1, VettedAt DEF JoinExists
  <2>2. CASE Goto(p, "isOwner")
    BY <2>1, <2>2, UnvettedGoto DEF Unvetted
  <2>3. CASE Reply(p, "refused")
    BY <2>1, <2>3, ReplyVetted DEF TypeOK, Replied
  <2>4. QED
    BY <1>1, <2>2, <2>3 DEF JoinExists
<1>2. CASE AddTarget(p)
  <2>1. r \in Request /\ r.pc = "targetOwner" /\ r.op = "add" /\ RequestsVetted
    BY <1>2, VettedAt DEF AddTarget
  <2>2. Goto(p, "subtree") \/ Goto(p, "insert")
    BY <1>2 DEF AddTarget
  <2>3. QED
    BY <2>1, <2>2, GotoVetted DEF Labels, OpsAt, Unvetted, Replied
<1>3. CASE InsertRow(p)
  <2>1. r \in Request /\ r.pc = "insert" /\ Vetted(r) /\ RequestsVetted
    BY <1>3, VettedAt DEF InsertRow
  <2>2. r.op \in {"create", "join", "add"}
    BY <2>1 DEF Vetted, OpsAt
  <2>3. (r.op = "create" /\ Goto(p, "parent")) \/ Goto(p, "keyAdd")
    BY <1>3 DEF InsertRow
  <2>4. QED
    BY <2>1, <2>2, <2>3, GotoVetted DEF Labels, OpsAt, Unvetted, Replied
<1>4. CASE KeyAdd(p)
  <2>1. r \in Request /\ r.pc = "keyAdd" /\ Vetted(r) /\ RequestsVetted
    BY <1>4, VettedAt DEF KeyAdd
  <2>2. r.op \in {"create", "join", "add", "rotate"}
    BY <2>1 DEF Vetted, OpsAt
  <2>3. Goto(p, "allowRead")
    BY <1>4 DEF KeyAdd
  <2>4. QED
    BY <2>1, <2>2, <2>3, GotoVetted DEF Labels, OpsAt, Unvetted, Replied
<1>5. CASE AllowRead(p)
  <2> DEFINE s == [r EXCEPT !.pc = "allowAdd", !.snap = allow[r.cur[2]]]
  <2>1. r \in Request /\ r.pc = "allowRead" /\ Vetted(r) /\ RequestsVetted
    BY <1>5, VettedAt DEF AllowRead
  <2>2. r.op \in {"create", "join", "add", "rotate"}
    BY <2>1 DEF Vetted, OpsAt
  <2>3. r.cur[2] \in Zones /\ allow[r.cur[2]] \subseteq Users
    BY <2>1 DEF Request, Pair, TypeOK, DnsTyped
  <2>4. s \in Request
    BY <2>1, <2>3 DEF Request, Labels
  <2>5. s.pc = "allowAdd" /\ s.cur = r.cur /\ s.todo = r.todo /\ Same(r, s)
    BY <2>1 DEF Request, Same
  <2>6. Reply(p, "failed") \/ Set(p, s)
    BY <1>5 DEF AllowRead
  <2> HIDE DEF s
  <2>7. ParentVetted(s)
    BY <2>5 DEF ParentVetted
  <2>8. CASE Set(p, s)
    BY <2>1, <2>2, <2>4, <2>5, <2>7, <2>8, AdvanceVetted
       DEF Same, OpsAt, Unvetted, Replied
  <2>9. QED
    BY <2>1, <2>6, <2>8, ReplyVetted DEF TypeOK, Replied
<1>6. CASE AllowAdd(p)
  <2> DEFINE s == [r EXCEPT !.pc = AfterKey(r), !.snap = {}]
  <2>1. r \in Request /\ r.pc = "allowAdd" /\ Vetted(r) /\ RequestsVetted
    BY <1>6, VettedAt DEF AllowAdd
  <2>2. r.op \in {"create", "join", "add", "rotate"}
    BY <2>1 DEF Vetted, OpsAt
  <2>3. \/ AfterKey(r) = "rotate" /\ r.op = "rotate"
        \/ AfterKey(r) = "fetch" /\ r.op = "create"
        \/ AfterKey(r) = "subtree" /\ r.op \in {"join", "add"}
        \/ AfterKey(r) = "grant" /\ r.op \in {"create", "join", "add"}
    BY <2>2 DEF AfterKey
  <2>4. AfterKey(r) \in Labels
    BY <2>3 DEF Labels
  <2>5. s \in Request
    BY <2>1, <2>4 DEF Request
  <2>6. s.pc = AfterKey(r) /\ s.cur = r.cur /\ s.todo = r.todo /\ Same(r, s)
    BY <2>1 DEF Request, Same
  <2>7. Reply(p, "failed") \/ Set(p, s)
    BY <1>6 DEF AllowAdd
  <2> HIDE DEF s
  <2>8. ParentVetted(s)
    BY <2>3, <2>6 DEF ParentVetted
  <2>9. CASE Set(p, s)
    BY <2>1, <2>3, <2>5, <2>6, <2>8, <2>9, AdvanceVetted
       DEF Same, OpsAt, Unvetted, Replied
  <2>10. QED
    BY <2>1, <2>7, <2>9, ReplyVetted DEF TypeOK, Replied
<1>7. CASE GrantNext(p)
  <2>1. r \in Request /\ r.pc = "grant" /\ Vetted(r) /\ RequestsVetted
    BY <1>7, VettedAt DEF GrantNext
  <2>2. r.op \in {"create", "join", "add"}
    BY <2>1 DEF Vetted, OpsAt
  <2>3. CASE Reply(p, "ok")
    BY <2>1, <2>3, ReplyVetted DEF TypeOK, Replied
  <2>4. ASSUME NEW t \in r.todo, Set(p, [r EXCEPT !.todo = @ \ {t}])
        PROVE  RequestsVetted'
    BY <2>1, <2>4, SkipVetted
  <2>5. ASSUME NEW t \in r.todo, Set(p, [Visit(r, t) EXCEPT !.pc = "insert"])
        PROVE  RequestsVetted'
    BY <2>1, <2>2, <2>5, LoopVetted DEF Labels, OpsAt, Replied
  <2>6. QED
    BY <1>7, <2>3, <2>4, <2>5 DEF GrantNext
<1>8. QED
  BY <1>1, <1>2, <1>3, <1>4, <1>5, <1>6, <1>7, JoinAuthorizeVetted,
     CallerIsOwnerVetted, AddSharingVetted, ListSubtreeVetted DEF GrantStep

\* Removals, rotations and deletions insert no row: nothing has to be vetted.
LEMMA RevokingIsVetted ==
  ASSUME NEW r, r.op \notin DOMAIN Unvetted,
         r.pc \notin {"parentDef", "shareCheck", "parentOwners"},
         r.pc \in DOMAIN OpsAt => r.op \in OpsAt[r.pc]
  PROVE  Vetted(r)
BY DEF Vetted, ParentVetted, PairsVetted

LEMMA RevokeStepVetted ==
  ASSUME TypeOK, PolicyInv, NEW p \in Procs, RevokeStep(p)
  PROVE  RequestsVetted'
<1> DEFINE r == req[p]
<1>1. CASE RemoveTarget(p)
  <2>1. r \in Request /\ r.pc = "targetOwner" /\ r.op = "remove" /\ RequestsVetted
    BY <1>1, VettedAt DEF RemoveTarget
  <2>2. Goto(p, "count") \/ Reply(p, "refused")
    BY <1>1 DEF RemoveTarget
  <2>3. QED
    BY <2>1, <2>2, GotoVetted, ReplyVetted
       DEF TypeOK, Labels, OpsAt, Unvetted, Replied
<1>2. CASE CountOwners(p)
  <2>1. r \in Request /\ r.pc = "count" /\ Vetted(r) /\ RequestsVetted
    BY <1>2, VettedAt DEF CountOwners
  <2>2. r.op = "remove"
    BY <2>1 DEF Vetted, OpsAt
  <2>3. Goto(p, "rowDel") \/ Goto(p, "revoke") \/ Reply(p, "refused")
    BY <1>2 DEF CountOwners
  <2>4. QED
    BY <2>1, <2>2, <2>3, GotoVetted, ReplyVetted
       DEF TypeOK, Labels, OpsAt, Unvetted, Replied
<1>3. CASE DeleteRow(p)
  <2>1. r \in Request /\ r.pc = "rowDel" /\ Vetted(r) /\ RequestsVetted
    BY <1>3, VettedAt DEF DeleteRow
  <2>2. r.op = "remove"
    BY <2>1 DEF Vetted, OpsAt
  <2>3. Goto(p, "allowReadDel")
    BY <1>3 DEF DeleteRow
  <2>4. QED
    BY <2>1, <2>2, <2>3, GotoVetted DEF Labels, OpsAt, Unvetted, Replied
<1>4. CASE AllowReadForDelete(p)
  <2> DEFINE s == [r EXCEPT !.pc = "allowDel", !.snap = allow[r.cur[2]]]
  <2>1. r \in Request /\ r.pc = "allowReadDel" /\ Vetted(r) /\ RequestsVetted
    BY <1>4, VettedAt DEF AllowReadForDelete
  <2>2. r.op \in {"remove", "rotate"}
    BY <2>1 DEF Vetted, OpsAt
  <2>3. s.pc = "allowDel" /\ s.op = r.op
    BY <2>1 DEF Request
  <2>4. Goto(p, "keyDel") \/ Set(p, s)
    BY <1>4 DEF AllowReadForDelete
  <2> HIDE DEF s
  <2>5. Vetted(s)
    BY <2>2, <2>3, RevokingIsVetted DEF OpsAt, Unvetted
  <2>6. CASE Set(p, s)
    BY <2>1, <2>5, <2>6, SetVetted DEF TypeOK
  <2>7. QED
    BY <2>1, <2>2, <2>4, <2>6, GotoVetted DEF Labels, OpsAt, Unvetted, Replied
<1>5. CASE AllowDelete(p)
  <2> DEFINE s == [r EXCEPT !.pc = "keyDel", !.snap = {}]
  <2>1. r \in Request /\ r.pc = "allowDel" /\ Vetted(r) /\ RequestsVetted
    BY <1>5, VettedAt DEF AllowDelete
  <2>2. r.op \in {"remove", "rotate"}
    BY <2>1 DEF Vetted, OpsAt
  <2>3. s.pc = "keyDel" /\ s.op = r.op
    BY <2>1 DEF Request
  <2>4. Set(p, s)
    BY <1>5 DEF AllowDelete
  <2> HIDE DEF s
  <2>5. Vetted(s)
    BY <2>2, <2>3, RevokingIsVetted DEF OpsAt, Unvetted
  <2>6. QED
    BY <2>1, <2>4, <2>5, SetVetted DEF TypeOK
<1>6. CASE KeyDelete(p)
  <2>1. r \in Request /\ r.pc = "keyDel" /\ Vetted(r) /\ RequestsVetted
    BY <1>6, VettedAt DEF KeyDelete
  <2>2. r.op \in {"remove", "rotate"}
    BY <2>1 DEF Vetted, OpsAt
  <2>3. CASE Reply(p, "failed")
    BY <2>1, <2>3, ReplyVetted DEF TypeOK, Replied
  <2>4. CASE r.op = "rotate" /\ Goto(p, "keyAdd")
    BY <2>1, <2>4, GotoVetted DEF Labels, OpsAt, Unvetted, Replied
  <2>5. CASE r.op = "remove" /\ (Goto(p, "subtree") \/ Goto(p, "revoke"))
    BY <2>1, <2>5, GotoVetted DEF Labels, OpsAt, Unvetted, Replied
  <2>6. QED
    BY <1>6, <2>2, <2>3, <2>4, <2>5 DEF KeyDelete
<1>7. CASE RevokeNext(p)
  <2>1. r \in Request /\ r.pc = "revoke" /\ Vetted(r) /\ RequestsVetted
    BY <1>7, VettedAt DEF RevokeNext
  <2>2. r.op = "remove"
    BY <2>1 DEF Vetted, OpsAt
  <2>3. CASE Reply(p, "ok")
    BY <2>1, <2>3, ReplyVetted DEF TypeOK, Replied
  <2>4. ASSUME NEW t \in r.todo, Set(p, [r EXCEPT !.todo = @ \ {t}])
        PROVE  RequestsVetted'
    BY <2>1, <2>4, SkipVetted
  <2>5. ASSUME NEW t \in r.todo, Set(p, [Visit(r, t) EXCEPT !.pc = "count"])
        PROVE  RequestsVetted'
    BY <2>1, <2>2, <2>5, LoopVetted DEF Labels, OpsAt, Replied
  <2>6. QED
    BY <1>7, <2>3, <2>4, <2>5 DEF RevokeNext
<1>8. CASE ListOwners(p)
  <2> DEFINE s == [r EXCEPT !.pc = "rotate",
                     !.todo = ListZoneOwners(r.zone) \X {r.zone}]
  <2>1. r \in Request /\ r.pc = "listOwners" /\ Vetted(r) /\ RequestsVetted
    BY <1>8, VettedAt DEF ListOwners
  <2>2. r.op = "rotate"
    BY <2>1 DEF Vetted, OpsAt
  <2>3. s.pc = "rotate" /\ s.op = "rotate"
    BY <2>1, <2>2 DEF Request
  <2>4. Set(p, s)
    BY <1>8 DEF ListOwners
  <2> HIDE DEF s
  <2>5. Vetted(s)
    BY <2>3, RevokingIsVetted DEF OpsAt, Unvetted
  <2>6. QED
    BY <2>1, <2>4, <2>5, SetVetted DEF TypeOK
<1>9. CASE RotateNext(p)
  <2>1. r \in Request /\ r.pc = "rotate" /\ Vetted(r) /\ RequestsVetted
    BY <1>9, VettedAt DEF RotateNext
  <2>2. r.op = "rotate"
    BY <2>1 DEF Vetted, OpsAt
  <2>3. CASE Reply(p, "ok")
    BY <2>1, <2>3, ReplyVetted DEF TypeOK, Replied
  <2>4. ASSUME NEW t \in r.todo, Set(p, [Visit(r, t) EXCEPT !.pc = "allowReadDel"])
        PROVE  RequestsVetted'
    BY <2>1, <2>2, <2>4, LoopVetted DEF Labels, OpsAt, Replied
  <2>5. QED
    BY <1>9, <2>3, <2>4 DEF RotateNext
<1>10. QED
  BY <1>1, <1>2, <1>3, <1>4, <1>5, <1>6, <1>7, <1>8, <1>9 DEF RevokeStep

LEMMA DeleteStepVetted ==
  ASSUME TypeOK, PolicyInv, NEW p \in Procs, DeleteStep(p)
  PROVE  RequestsVetted'
<1> DEFINE r == req[p]
<1>1. CASE OrphanLookup(p)
  <2>1. r \in Request /\ r.pc = "lookup" /\ Vetted(r) /\ RequestsVetted
    BY <1>1, VettedAt DEF OrphanLookup
  <2>2. r.op = "orphan"
    BY <2>1 DEF Vetted, OpsAt
  <2>3. CASE Reply(p, "refused")
    BY <2>1, <2>3, ReplyVetted DEF TypeOK, Replied
  <2>4. ASSUME NEW u, Set(p, [r EXCEPT !.pc = "ownSubs", !.caller = u])
        PROVE  RequestsVetted'
    <3> DEFINE s == [r EXCEPT !.pc = "ownSubs", !.caller = u]
    <3>1. s.pc = "ownSubs" /\ s.op = "orphan"
      BY <2>1, <2>2 DEF Request
    <3>2. Set(p, s)
      BY <2>4
    <3> HIDE DEF s
    <3>3. Vetted(s)
      BY <3>1, RevokingIsVetted DEF OpsAt, Unvetted
    <3>4. QED
      BY <2>1, <3>2, <3>3, SetVetted DEF TypeOK
  <2>5. QED
    BY <1>1, <2>3, <2>4 DEF OrphanLookup
<1>2. CASE ListKeys(p)
  <2> DEFINE next == IF allow[r.zone] = {} THEN "zoneDel" ELSE "keysDel"
             s == [r EXCEPT !.snap = allow[r.zone], !.pc = next]
  <2>1. /\ r \in Request /\ r.pc = "listKeys" /\ RequestsVetted
        /\ r.op \in {"delete", "orphan"}
    BY <1>2, VettedAt DEF ListKeys, Vetted, OpsAt
  <2>2. r.zone \in Zones /\ allow[r.zone] \subseteq Users
    BY <2>1 DEF Request, TypeOK, DnsTyped
  <2>3. s \in Request
    BY <2>1, <2>2 DEF Request, Labels
  <2>4. /\ s.pc \in {"zoneDel", "keysDel"} /\ Same(r, s)
        /\ s.cur = r.cur /\ s.todo = r.todo
    BY <2>1 DEF Request, Same
  <2>5. Reply(p, "failed") \/ Set(p, s)
    BY <1>2 DEF ListKeys
  <2> HIDE DEF s
  <2>6. ParentVetted(s)
    BY <2>4 DEF ParentVetted
  <2>7. CASE Set(p, s)
    BY <2>1, <2>3, <2>4, <2>6, <2>7, AdvanceVetted
       DEF Same, OpsAt, Unvetted, Replied
  <2>8. QED
    BY <2>1, <2>5, <2>7, ReplyVetted DEF TypeOK, Replied
<1>3. CASE DeleteNextKey(p)
  <2>1. /\ r \in Request /\ r.pc = "keysDel" /\ RequestsVetted
        /\ r.op \in {"delete", "orphan"}
    BY <1>3, VettedAt DEF DeleteNextKey, Vetted, OpsAt
  <2>2. ASSUME NEW u \in r.snap,
               Set(p, [r EXCEPT !.snap = @ \ {u},
                         !.pc = IF r.snap = {u} THEN "zoneDel" ELSE "keysDel"])
        PROVE  RequestsVetted'
    <3> DEFINE s == [r EXCEPT !.snap = @ \ {u},
                       !.pc = IF r.snap = {u} THEN "zoneDel" ELSE "keysDel"]
    <3>1. s \in Request
      BY <2>1 DEF Request, Labels
    <3>2. /\ s.pc \in {"zoneDel", "keysDel"} /\ Same(r, s)
          /\ s.cur = r.cur /\ s.todo = r.todo
      BY <2>1 DEF Request, Same
    <3>3. Set(p, s)
      BY <2>2
    <3> HIDE DEF s
    <3>4. ParentVetted(s)
      BY <3>2 DEF ParentVetted
    <3>5. QED
      BY <2>1, <3>1, <3>2, <3>3, <3>4, AdvanceVetted
         DEF Same, OpsAt, Unvetted, Replied
  <2>3. CASE Reply(p, "failed")
    BY <2>1, <2>3, ReplyVetted DEF TypeOK, Replied
  <2>4. QED
    BY <1>3, <2>2, <2>3 DEF DeleteNextKey
<1>4. CASE OwnSubzones(p) \/ DeleteFromDns(p) \/ DeleteRows(p)
  <2>1. /\ r \in Request /\ r.pc \in {"ownSubs", "zoneDel", "rowsDel"}
        /\ RequestsVetted /\ r.op \in {"delete", "orphan"}
    BY <1>4, VettedAt
       DEF OwnSubzones, DeleteFromDns, DeleteRows, Vetted, OpsAt
  <2>2. \/ Goto(p, "listKeys") \/ Goto(p, "rowsDel")
        \/ \E status \in Replied : Reply(p, status)
    BY <1>4 DEF OwnSubzones, DeleteFromDns, DeleteRows, Replied
  <2>3. CASE Goto(p, "listKeys") \/ Goto(p, "rowsDel")
    BY <2>1, <2>3, GotoVetted DEF Labels, OpsAt, Unvetted, Replied
  <2>4. QED
    BY <2>1, <2>2, <2>3, ReplyVetted DEF TypeOK
<1>5. QED
  BY <1>1, <1>2, <1>3, <1>4 DEF DeleteStep

\* The rows of a step: only InsertRow adds one, for a vetted pair.
LEMMA RowsFollowPolicy ==
  ASSUME TypeOK, PolicyInv, NEW p \in Procs, Step(p)
  PROVE  OwnershipFollowsPolicy'
<1> DEFINE r == req[p]
<1>1. OwnershipFollowsPolicy /\ RowsTyped
  BY DEF PolicyInv, TypeOK
<1>2. CASE UNCHANGED rows
  BY <1>1, <1>2 DEF OwnershipFollowsPolicy, ListZoneOwners
<1>3. CASE InsertRow(p)
  <2>1. r \in Request /\ r.pc = "insert" /\ Vetted(r)
    BY <1>3, VettedAt DEF InsertRow
  <2>2. r.op \in {"create", "join", "add"}
    BY <2>1 DEF Vetted, OpsAt
  <2>3. PolicyReaches(r.cur[1], r.cur[2])
    BY <2>1, <2>2, VettedPairs DEF Vetted, PairVetted, Unvetted, Replied
  <2>4. ASSUME NEW z \in Zones, NEW w \in rows'[z], w \notin rows[z]
        PROVE  w.user = r.cur[1] /\ z = r.cur[2]
    BY <1>1, <1>3, <2>4 DEF InsertRow, CreateZone, RowsTyped
  <2>5. QED
    BY <1>1, <2>3, <2>4 DEF OwnershipFollowsPolicy, ListZoneOwners
<1>4. CASE DeleteRow(p)
  <2> DEFINE kept == {w \in rows[r.cur[2]] : w.user # r.cur[1]}
  <2>1. rows' = [rows EXCEPT ![r.cur[2]] = Renumbered(kept)]
    BY <1>4 DEF DeleteRow, DeleteZone
  <2>2. r \in Request
    BY <1>4, VettedAt DEF DeleteRow
  <2>3. r.cur[2] \in Zones /\ kept \in SUBSET Row
    BY <1>1, <2>2 DEF Request, Pair, RowsTyped
  <2>4. {w.user : w \in Renumbered(kept)} = {w.user : w \in kept}
    BY <2>3, RenumberedUsers
  <2>5. {w.user : w \in kept} \subseteq {w.user : w \in rows[r.cur[2]]}
    OBVIOUS
  <2> HIDE DEF kept
  <2>6. ASSUME NEW z \in Zones
        PROVE  {w.user : w \in rows'[z]} \subseteq {w.user : w \in rows[z]}
    BY <1>1, <2>1, <2>3, <2>4, <2>5 DEF RowsTyped
  <2>7. QED
    BY <1>1, <2>6 DEF OwnershipFollowsPolicy, ListZoneOwners
<1>5. CASE DeleteRows(p)
  <2>1. r \in Request
    BY <1>5, VettedAt DEF DeleteRows
  <2>2. \A z \in Zones : rows'[z] \subseteq rows[z]
    BY <1>1, <1>5, <2>1 DEF DeleteRows, DeleteAllZoneOwners, RowsTyped, Request
  <2>3. QED
    BY <1>1, <2>2 DEF OwnershipFollowsPolicy, ListZoneOwners
<1>6. QED
  BY <1>2, <1>3, <1>4, <1>5, RowChanges

LEMMA InitFollowsPolicy ==
  ASSUME Init
  PROVE  PolicyInv
<1>1. PICK table \in InitTables : InitWith(table)
  BY DEF Init
<1>2. OwnershipFollowsPolicy
  BY <1>1, TablesFollowPolicy
     DEF InitWith, OwnershipFollowsPolicy, ListZoneOwners
<1>3. RequestsVetted
  BY DEF Init, RequestsVetted
<1>4. QED
  BY <1>2, <1>3 DEF PolicyInv

\* However many requests overlap, fail or are cut off by a crash, what a policy
\* check established for a request stays true until the insertion it is about.
THEOREM PolicyInvariant == Spec => []PolicyInv
<1>1. ASSUME TypeOK, PolicyInv, [Next]_vars
      PROVE  PolicyInv'
  <2> USE <1>1
  <2>1. ASSUME NEW p \in Procs, Receive(p)
        PROVE  PolicyInv'
    <3>1. PICK op \in Ops, login \in Logins, caller \in Users, zone \in Zones,
               target \in Users :
            Set(p, Fresh(op, login, caller, zone, target, FirstLabel(op)))
      BY <2>1 DEF Receive
    <3>2. Vetted(Fresh(op, login, caller, zone, target, FirstLabel(op)))
      BY ServiceAssumption, FreshIsVetted
    <3>3. RequestsVetted'
      BY <3>1, <3>2, SetVetted DEF TypeOK, PolicyInv
    <3>4. UNCHANGED rows
      BY <2>1 DEF Receive
    <3>5. QED
      BY <3>3, <3>4 DEF PolicyInv, OwnershipFollowsPolicy, ListZoneOwners
  <2>2. ASSUME NEW p \in Procs, Step(p)
        PROVE  PolicyInv'
    <3>1. ASSUME Respond(p)
          PROVE  RequestsVetted'
      BY <3>1, SetVetted DEF Respond, TypeOK, PolicyInv
    <3>2. RequestsVetted'
      BY <2>2, <3>1, CreateStepVetted, GrantStepVetted, RevokeStepVetted,
         DeleteStepVetted DEF Step
    <3>3. QED
      BY <2>2, <3>2, RowsFollowPolicy DEF PolicyInv
  <2>3. ASSUME NEW p \in Procs, CallFails(p)
        PROVE  PolicyInv'
    <3> DEFINE r == req[p]
    <3>1. r \in Request /\ r.pc \notin Replied /\ RequestsVetted
      BY <2>3 DEF CallFails, BetweenCalls, TypeOK, RequestsTyped, Idle, PolicyInv
    <3>2. Vetted(r)
      BY <2>3, <3>1 DEF CallFails, BetweenCalls, RequestsVetted, Idle
    <3>3. ASSUME r.pc \in DOMAIN AfterIgnoredError, Goto(p, AfterIgnoredError[r.pc])
          PROVE  RequestsVetted'
      <4>1. \/ r.op = "create" /\ AfterIgnoredError[r.pc] \in
                 {"interAdd", "nsAdd", "dropKey", "addZone"}
            \/ r.op \in {"remove", "rotate"} /\ AfterIgnoredError[r.pc] = "keyDel"
        BY <3>2, <3>3 DEF AfterIgnoredError, Vetted, OpsAt
      <4>2. r.pc \notin {"authorize", "parentDef"}
        BY <3>3 DEF AfterIgnoredError
      <4>3. QED
        BY <3>1, <3>3, <4>1, <4>2, GotoVetted DEF Labels, OpsAt, Unvetted
    <3>4. ASSUME Reply(p, "failed")
          PROVE  RequestsVetted'
      BY <3>1, <3>4, ReplyVetted DEF TypeOK, Replied
    <3>5. RequestsVetted' /\ UNCHANGED rows
      BY <2>3, <3>3, <3>4 DEF CallFails
    <3>6. QED
      BY <3>5 DEF PolicyInv, OwnershipFollowsPolicy, ListZoneOwners
  <2>4. ASSUME Crash
        PROVE  PolicyInv'
    BY <2>4 DEF Crash, PolicyInv, OwnershipFollowsPolicy, ListZoneOwners,
       RequestsVetted
  <2>5. CASE UNCHANGED vars
    BY <2>5 DEF vars, PolicyInv, OwnershipFollowsPolicy, ListZoneOwners,
       RequestsVetted
  <2>6. QED
    BY <2>1, <2>2, <2>3, <2>4, <2>5 DEF Next
<1>2. QED
  BY <1>1, InitFollowsPolicy, TypeCorrect, PTL DEF Spec

\* Nobody comes to own a zone on which the policy does not reach them: in the chain
\* from a policy check to an insertion no handler loses what the check established.
THEOREM OwnershipCorrect == Spec => []OwnershipFollowsPolicy
<1>1. PolicyInv => OwnershipFollowsPolicy
  BY DEF PolicyInv
<1>2. QED
  BY <1>1, PolicyInvariant, PTL

\* Every request in flight is about pairs the policy reaches, as far as it got.
THEOREM RequestsVettedCorrect == Spec => []RequestsVetted
<1>1. PolicyInv => RequestsVetted
  BY DEF PolicyInv
<1>2. QED
  BY <1>1, PolicyInvariant, PTL

===============================================================================
