-------------------------- MODULE ZoneOwnershipProofs --------------------------
(***************************************************************************)
(* ZoneService implements ZoneOwnership as long as requests come one at a  *)
(* time, for every set of users, zones and rules, however many requests    *)
(* there are and wherever their calls fail or the process dies.            *)
(***************************************************************************)
EXTENDS ZoneServiceProofs

-------------------------------------------------------------------------------
(* The rows of a zone *)

\* The owners of every zone, the refinement mapping.
OwnersOf == [z \in Zones |-> ListZoneOwners(z)]

LEMMA NoRowsNoOwners ==
  ASSUME NEW z
  PROVE  ZoneExists(z) <=> ListZoneOwners(z) # {}
BY DEF ZoneExists, ListZoneOwners

LEMMA CreateZoneOwners ==
  ASSUME RowsTyped, NEW u \in Users, NEW z \in Zones, CreateZone(u, z)
  PROVE  OwnersOf' = [OwnersOf EXCEPT ![z] = @ \cup {u}]
<1> DEFINE new == [user |-> u, id |-> Cardinality(rows[z]) + 1]
<1>1. rows' = [rows EXCEPT ![z] = rows[z] \cup {new}]
  BY DEF CreateZone
<1>2. new.user = u
  OBVIOUS
<1> HIDE DEF new
<1>3. ASSUME NEW w \in Zones
      PROVE  {v.user : v \in rows'[w]} =
               IF w = z THEN {v.user : v \in rows[w]} \cup {u}
                        ELSE {v.user : v \in rows[w]}
  BY <1>1, <1>2 DEF RowsTyped
<1>4. QED
  BY <1>3 DEF OwnersOf, ListZoneOwners

LEMMA DeleteZoneOwners ==
  ASSUME RowsTyped, NEW u \in Users, NEW z \in Zones, DeleteZone(u, z)
  PROVE  OwnersOf' = [OwnersOf EXCEPT ![z] = @ \ {u}]
<1> DEFINE kept == {w \in rows[z] : w.user # u}
<1>1. rows' = [rows EXCEPT ![z] = Renumbered(kept)]
  BY DEF DeleteZone
<1>2. kept \in SUBSET Row
  BY DEF RowsTyped
<1>3. {w.user : w \in kept} = {w.user : w \in rows[z]} \ {u}
  OBVIOUS
<1> HIDE DEF kept
<1>4. {w.user : w \in Renumbered(kept)} = {w.user : w \in rows[z]} \ {u}
  BY <1>2, <1>3, RenumberedUsers
<1>5. ASSUME NEW w \in Zones
      PROVE  {v.user : v \in rows'[w]} =
               IF w = z THEN {v.user : v \in rows[w]} \ {u}
                        ELSE {v.user : v \in rows[w]}
  BY <1>1, <1>4 DEF RowsTyped
<1>6. QED
  BY <1>5 DEF OwnersOf, ListZoneOwners

LEMMA DeleteAllOwners ==
  ASSUME RowsTyped, NEW z \in Zones, DeleteAllZoneOwners(z)
  PROVE  OwnersOf' = [OwnersOf EXCEPT ![z] = {}]
<1>1. ASSUME NEW w \in Zones
      PROVE  {v.user : v \in rows'[w]} =
               IF w = z THEN {} ELSE {v.user : v \in rows[w]}
  BY DEF RowsTyped, DeleteAllZoneOwners
<1>2. QED
  BY <1>1 DEF OwnersOf, ListZoneOwners

LEMMA CreateZoneOneRowEach ==
  ASSUME RowsTyped, OneRowEach, NEW u, NEW z \in Zones, ~ IsZoneOwner(u, z),
         CreateZone(u, z)
  PROVE  OneRowEach'
<1> DEFINE new == [user |-> u, id |-> Cardinality(rows[z]) + 1]
<1>1. rows' = [rows EXCEPT ![z] = rows[z] \cup {new}]
  BY DEF CreateZone
<1>2. new.user = u /\ \A w \in rows[z] : w.user # u
  BY DEF IsZoneOwner, ListZoneOwners
<1> HIDE DEF new
<1>3. QED
  BY <1>1, <1>2 DEF RowsTyped, OneRowEach

LEMMA DeleteZoneOneRowEach ==
  ASSUME RowsTyped, OneRowEach, NEW u, NEW z \in Zones, DeleteZone(u, z)
  PROVE  OneRowEach'
<1> DEFINE kept == {w \in rows[z] : w.user # u}
           new(w) == [w EXCEPT !.id = Cardinality({v \in kept : v.id <= w.id})]
<1>1. rows' = [rows EXCEPT ![z] = Renumbered(kept)]
  BY DEF DeleteZone
<1>2. Renumbered(kept) = {new(w) : w \in kept}
  BY DEF Renumbered
<1>3. \A w \in kept : new(w).user = w.user
  BY DEF RowsTyped, Row
<1>4. \A v, w \in kept : v.user = w.user => v = w
  BY DEF OneRowEach
<1> HIDE DEF kept, new
<1>5. \A v, w \in Renumbered(kept) : v.user = w.user => v = w
  BY <1>2, <1>3, <1>4
<1>6. QED
  BY <1>1, <1>5 DEF RowsTyped, OneRowEach

\* Where no owner has two rows, two rows are two owners.
LEMMA SecondOwner ==
  ASSUME RowsTyped, OneRowEach, NEW z \in Zones, CountZoneOwners(z) > 1, NEW u
  PROVE  ListZoneOwners(z) \ {u} # {}
<1> SUFFICES ASSUME ListZoneOwners(z) \subseteq {u}
             PROVE  FALSE
  OBVIOUS
<1>1. \A v, w \in rows[z] : v = w
  BY DEF ListZoneOwners, OneRowEach
<1>2. CASE rows[z] = {}
  BY <1>2, FS_EmptySet DEF CountZoneOwners
<1>3. CASE rows[z] # {}
  <2>1. PICK w \in rows[z] : TRUE
    BY <1>3
  <2>2. rows[z] = {w}
    BY <1>1, <2>1
  <2>3. Cardinality(rows[z]) = 1
    BY <2>2, FS_Singleton
  <2>4. QED
    BY <2>3 DEF CountZoneOwners
<1>4. QED
  BY <1>2, <1>3

-------------------------------------------------------------------------------
(* Requests that stay checked: steps that leave the table alone *)

LEMMA SetChecked ==
  ASSUME NEW p, Procs = {p}, RequestsTyped, OneRowEach, UNCHANGED rows,
         NEW s, s = Idle \/ RowChecked(s), Set(p, s)
  PROVE  AloneInv'
<1>1. req'[p] = s
  BY DEF Set, RequestsTyped
<1>2. OneRowEach'
  BY DEF OneRowEach
<1>3. ASSUME req'[p] # Idle
      PROVE  RowChecked(req[p])'
  BY <1>1, <1>3 DEF RowChecked, IsZoneOwner, ListZoneOwners, ZoneExists,
     MainPair, Fresh
<1>4. QED
  BY <1>2, <1>3 DEF AloneInv

LEMMA ReplyChecked ==
  ASSUME NEW p, Procs = {p}, RequestsTyped, OneRowEach, UNCHANGED rows,
         NEW status \in Replied, Reply(p, status)
  PROVE  AloneInv'
<1> DEFINE r == req[p]
           s == Fresh(r.op, r.login, r.caller, r.zone, r.target, status)
<1>1. s.pc \in {"ok", "refused", "failed"} /\ s.todo = {}
  BY DEF Fresh, Replied
<1>2. Set(p, s)
  BY DEF Reply
<1> HIDE DEF s
<1>3. RowChecked(s)
  BY <1>1 DEF RowChecked, Creating
<1>4. QED
  BY <1>2, <1>3, SetChecked

\* A request stays checked on its way to a label that changes no row, if it takes no
\* new pair and was among the labels of a creation before.
LEMMA AdvanceChecked ==
  ASSUME NEW r, RowChecked(r), NEW s, Same(r, s),
         s.pc \notin {"insert", "rowDel", "fetch"},
         s.pc = "targetOwner" /\ r.op = "add" => s.cur = MainPair(r),
         r.op = "create" =>
           /\ MainPair(r) \notin s.todo
           /\ s.pc \in Creating => r.pc \in Creating /\ s.cur = r.cur
  PROVE  RowChecked(s)
<1>1. MainPair(s) = MainPair(r)
  BY DEF MainPair, Fresh, Same
<1>2. QED
  BY <1>1 DEF RowChecked, Same

LEMMA GotoChecked ==
  ASSUME NEW p, Procs = {p}, RequestsTyped, AloneInv, UNCHANGED rows,
         req[p] \in Request, NEW pc, Goto(p, pc),
         pc \notin {"insert", "rowDel", "fetch"},
         pc = "targetOwner" /\ req[p].op = "add" => req[p].cur = MainPair(req[p]),
         req[p].op = "create" /\ pc \in Creating => req[p].pc \in Creating
  PROVE  AloneInv'
<1> DEFINE r == req[p]
           s == [r EXCEPT !.pc = pc]
<1>1. Same(r, s) /\ s.pc = pc /\ s.cur = r.cur /\ s.todo = r.todo
  BY DEF Request, Same
<1>2. Set(p, s)
  BY DEF Goto
<1>3. RowChecked(r) /\ OneRowEach
  BY DEF AloneInv, Idle, Request
<1> HIDE DEF s
<1>4. RowChecked(s)
  BY <1>1, <1>3, AdvanceChecked DEF RowChecked
<1>5. QED
  BY <1>2, <1>3, <1>4, SetChecked

LEMMA CheckedAt ==
  ASSUME TypeOK, PolicyInv, AloneInv, NEW p \in Procs, NEW pc, At(p, pc), pc # "idle"
  PROVE  /\ RequestsTyped /\ OneRowEach /\ req[p] \in Request
         /\ req[p].pc = pc /\ Vetted(req[p]) /\ RowChecked(req[p])
BY VettedAt DEF AloneInv, At, Idle, Request

\* A request about to insert a row that it has just looked for.
LEMMA InsertChecked ==
  ASSUME NEW p, Procs = {p}, RequestsTyped, AloneInv, UNCHANGED rows,
         req[p] \in Request, NEW s, Same(req[p], s), s.pc = "insert",
         ~ IsZoneOwner(s.cur[1], s.cur[2]), s.todo \subseteq req[p].todo,
         req[p].op = "create" =>
           s.cur # MainPair(req[p]) \/ ~ ZoneExists(req[p].zone),
         Set(p, s)
  PROVE  AloneInv'
<1> DEFINE r == req[p]
<1>1. RowChecked(r) /\ OneRowEach
  BY DEF AloneInv, Idle, Request
<1>2. MainPair(s) = MainPair(r)
  BY DEF MainPair, Fresh, Same
<1>3. RowChecked(s)
  BY <1>1, <1>2 DEF RowChecked, Same
<1>4. QED
  BY <1>1, <1>3, SetChecked

-------------------------------------------------------------------------------
(* Requests that stay checked: the steps *)

\* A creation looks for the zone before it touches the server, ...
LEMMA CreateStepChecked ==
  ASSUME NEW p, Procs = {p}, TypeOK, PolicyInv, AloneInv, CreateStep(p)
  PROVE  AloneInv'
<1> DEFINE r == req[p]
<1>1. PICK pc \in {"authorize", "parentDef", "exists", "interGet", "interAdd",
                   "nsDrop", "nsAdd", "dropZone", "dropKey", "addZone", "fetch",
                   "parent", "shareCheck", "parentOwners"} :
        At(p, pc) /\ (pc \in {"exists", "shareCheck"} => r.op = "create")
  BY DEF CreateStep, Authorize, ParentDefinition, CreateExists, IntermediateGet,
     IntermediateAdd, DelegationDrop, DelegationAdd, DropZone, DropKey, AddZone,
     FetchZone, FindParent, ParentSharing, ParentOwners
<1>2. /\ r \in Request /\ r.pc = pc /\ Vetted(r) /\ RowChecked(r)
      /\ RequestsTyped /\ OneRowEach
  BY <1>1, CheckedAt
<1>3. r.op = "create" /\ MainPair(r) = <<r.caller, r.zone>>
  BY <1>1, <1>2 DEF Vetted, OpsAt, MainPair, Fresh
<1>4. MainPair(r) \notin r.todo
  BY <1>2, <1>3 DEF RowChecked
<1>5. UNCHANGED rows
  BY DEF CreateStep, Authorize, ParentDefinition, CreateExists, IntermediateGet,
     IntermediateAdd, DelegationDrop, DelegationAdd, DropZone, DropKey, AddZone,
     FetchZone, FindParent, ParentSharing, ParentOwners
<1>6. ASSUME NEW status \in Replied, Reply(p, status)
      PROVE  AloneInv'
  BY <1>2, <1>5, <1>6, ReplyChecked
<1>7. ASSUME NEW next, Goto(p, next), next \notin {"insert", "rowDel", "fetch"},
             next \in Creating => pc \in Creating
      PROVE  AloneInv'
  BY <1>2, <1>3, <1>5, <1>7, GotoChecked
<1>8. ASSUME NEW s, Set(p, s), RowChecked(s)
      PROVE  AloneInv'
  BY <1>2, <1>5, <1>8, SetChecked
<1>9. ASSUME NEW chain, NEW s \in Ensuring(r, chain), Set(p, s),
             pc \in Creating \/ ~ ZoneExists(r.zone)
      PROVE  AloneInv'
  <2>1. /\ s.pc \in {"dropZone", "interGet"} /\ Same(r, s)
        /\ s.cur = r.cur /\ s.todo = r.todo
    BY <1>2 DEF Ensuring, Request, Same
  <2>2. MainPair(s) = MainPair(r)
    BY <2>1 DEF MainPair, Fresh, Same
  <2>3. RowChecked(s)
    BY <1>2, <1>3, <1>4, <1>9, <2>1, <2>2 DEF RowChecked, Creating, Same
  <2>4. QED
    BY <1>8, <1>9, <2>3
<1>10. ASSUME NEW z, NEW next \in {"exists", "parentDef", "shareCheck"},
              Set(p, [r EXCEPT !.pc = next, !.at = z])
       PROVE  AloneInv'
  <2> DEFINE s == [r EXCEPT !.pc = next, !.at = z]
  <2>1. Same(r, s) /\ s.pc = next /\ s.todo = r.todo
    BY <1>2 DEF Request, Same
  <2>2. Set(p, s)
    BY <1>10
  <2> HIDE DEF s
  <2>3. RowChecked(s)
    BY <1>2, <1>4, <2>1, AdvanceChecked DEF Creating
  <2>4. QED
    BY <1>8, <2>2, <2>3
<1>11. CASE Authorize(p) \/ FindParent(p)
  BY <1>6, <1>10, <1>11 DEF Authorize, FindParent, Replied
<1>12. CASE ParentDefinition(p) \/ ParentSharing(p)
  BY <1>6, <1>7, <1>12 DEF ParentDefinition, ParentSharing, Replied, Creating
<1>13. CASE CreateExists(p)
  BY <1>6, <1>9, <1>13 DEF CreateExists, Replied
<1>14. CASE DelegationAdd(p)
  <2>1. pc \in Creating
    BY <1>1, <1>2, <1>14 DEF DelegationAdd, At, Creating
  <2>2. QED
    BY <1>6, <1>9, <1>14, <2>1 DEF DelegationAdd, Replied
<1>15. CASE FetchZone(p)
  <2> DEFINE s == [r EXCEPT !.pc = "insert"]
  <2>1. r.pc = "fetch"
    BY <1>15 DEF FetchZone, At
  <2>2. r.cur = MainPair(r) /\ ~ ZoneExists(r.zone)
    BY <1>2, <1>3, <2>1 DEF RowChecked, Creating
  <2>3. /\ Same(r, s) /\ s.pc = "insert" /\ s.cur = <<r.caller, r.zone>>
        /\ s.todo = r.todo
    BY <1>2, <1>3, <2>2 DEF Request, Same
  <2>4. ~ IsZoneOwner(r.caller, r.zone)
    BY <2>2, NoRowsNoOwners DEF IsZoneOwner
  <2>5. ASSUME Goto(p, "insert")
        PROVE  Set(p, s)
    BY <2>5 DEF Goto
  <2> HIDE DEF s
  <2>6. CASE Goto(p, "insert")
    BY <1>2, <1>5, <2>2, <2>3, <2>4, <2>5, <2>6, InsertChecked
  <2>7. QED
    BY <1>6, <1>15, <2>6 DEF FetchZone, Replied
<1>16. CASE ParentOwners(p)
  <2> DEFINE s == [r EXCEPT !.pc = "grant",
                     !.todo = (ListZoneOwners(r.at) \ {r.caller}) \X {r.zone}]
  <2>1. Same(r, s) /\ s.pc = "grant" /\ MainPair(r) \notin s.todo
    BY <1>2, <1>3 DEF Request, Same
  <2>2. Set(p, s)
    BY <1>16 DEF ParentOwners
  <2> HIDE DEF s
  <2>3. RowChecked(s)
    BY <1>2, <2>1, AdvanceChecked DEF Creating
  <2>4. QED
    BY <1>8, <2>2, <2>3
<1>17. CASE \/ IntermediateGet(p) \/ IntermediateAdd(p) \/ DelegationDrop(p)
            \/ DropZone(p) \/ DropKey(p) \/ AddZone(p)
  <2>1. pc \in Creating
    BY <1>1, <1>2, <1>17 DEF IntermediateGet, IntermediateAdd, DelegationDrop,
       DropZone, DropKey, AddZone, At, Creating
  <2>2. \/ Reply(p, "failed")
        \/ \E next \in {"interAdd", "nsDrop", "nsAdd", "dropKey", "addZone",
                        "keyAdd"} : Goto(p, next)
    BY <1>17 DEF IntermediateGet, IntermediateAdd, DelegationDrop, DropZone,
       DropKey, AddZone
  <2>3. QED
    BY <1>6, <1>7, <2>1, <2>2 DEF Replied
<1>18. QED
  BY <1>11, <1>12, <1>13, <1>14, <1>15, <1>16, <1>17 DEF CreateStep

\* ... and whoever is granted a zone is looked for right before the insertion.
LEMMA GrantStepChecked ==
  ASSUME NEW p, Procs = {p}, TypeOK, PolicyInv, AloneInv, GrantStep(p)
  PROVE  AloneInv'
<1> DEFINE r == req[p]
<1>1. ASSUME UNCHANGED rows, NEW status \in Replied, Reply(p, status)
      PROVE  AloneInv'
  BY <1>1, ReplyChecked DEF TypeOK, AloneInv
<1>2. ASSUME UNCHANGED rows, r \in Request, NEW next, Goto(p, next),
             next \notin {"insert", "rowDel", "fetch"},
             next = "targetOwner" /\ r.op = "add" => r.cur = MainPair(r),
             r.op = "create" /\ next \in Creating => r.pc \in Creating
      PROVE  AloneInv'
  BY <1>2, GotoChecked DEF TypeOK
<1>3. ASSUME UNCHANGED rows, r \in Request, Goto(p, "insert"),
             r.op \in {"join", "add"}, r.cur = MainPair(r),
             ~ IsZoneOwner(MainPair(r)[1], r.zone)
      PROVE  AloneInv'
  <2> DEFINE s == [r EXCEPT !.pc = "insert"]
  <2>1. Same(r, s) /\ s.pc = "insert" /\ s.cur = MainPair(r) /\ s.todo = r.todo
    BY <1>3 DEF Request, Same
  <2>2. Set(p, s)
    BY <1>3 DEF Goto
  <2>3. MainPair(r)[2] = r.zone
    BY DEF MainPair, Fresh
  <2> HIDE DEF s
  <2>4. QED
    BY <1>3, <2>1, <2>2, <2>3, InsertChecked DEF TypeOK
<1>4. CASE JoinExists(p) \/ AddSharing(p)
  <2>1. UNCHANGED rows /\ r \in Request /\ r.op \in {"join", "add"}
    BY <1>4, CheckedAt DEF JoinExists, AddSharing
  <2>2. \/ Goto(p, "isOwner") \/ Goto(p, "targetOwner")
        \/ Reply(p, "refused")
    BY <1>4 DEF JoinExists, AddSharing
  <2>3. r.op = "add" /\ Goto(p, "targetOwner") => r.cur = MainPair(r)
    BY <1>4, CheckedAt
       DEF AddSharing, Vetted, PairsVetted, Unvetted, Replied, JoinExists, Goto
  <2>4. QED
    BY <1>1, <1>2, <2>1, <2>2, <2>3 DEF Replied, Creating
<1>5. CASE JoinAuthorize(p)
  <2>1. r \in Request /\ r.pc = "isOwner" /\ r.op = "join" /\ Vetted(r)
    BY <1>5, CheckedAt DEF JoinAuthorize
  <2>2. r.cur = MainPair(r) /\ MainPair(r) = <<r.caller, r.zone>>
    BY <2>1 DEF Vetted, PairsVetted, Unvetted, Replied, MainPair, Fresh
  <2>3. QED
    BY <1>1, <1>3, <1>5, <2>1, <2>2 DEF JoinAuthorize, Replied
<1>6. CASE CallerIsOwner(p)
  <2>1. r \in Request /\ r.pc = "isOwner" /\ r.op \in DOMAIN AfterOwnerCheck
    BY <1>6, CheckedAt DEF CallerIsOwner
  <2>2. AfterOwnerCheck[r.op] \in {"shareCheck", "targetOwner", "listOwners", "ownSubs"}
    BY <2>1 DEF AfterOwnerCheck
  <2>3. (Goto(p, AfterOwnerCheck[r.op]) \/ Reply(p, "refused")) /\ UNCHANGED rows
    BY <1>6 DEF CallerIsOwner
  <2>4. AfterOwnerCheck[r.op] = "targetOwner" => r.op = "remove"
    BY <2>1 DEF AfterOwnerCheck
  <2>5. QED
    BY <1>1, <1>2, <2>1, <2>2, <2>3, <2>4 DEF Replied, Creating
<1>7. CASE AddTarget(p)
  <2>1. r \in Request /\ r.pc = "targetOwner" /\ r.op = "add"
    BY <1>7, CheckedAt DEF AddTarget
  <2>2. r.cur = MainPair(r) /\ MainPair(r) = <<r.target, r.zone>>
    BY <1>7, <2>1, CheckedAt DEF AddTarget, RowChecked, MainPair, Fresh
  <2>3. QED
    BY <1>2, <1>3, <1>7, <2>1, <2>2 DEF AddTarget
<1>8. CASE InsertRow(p)
  <2> DEFINE next == IF r.op = "create" /\ r.cur = MainPair(r)
                       THEN "parent" ELSE "keyAdd"
             s == [r EXCEPT !.pc = next]
  <2>1. /\ r \in Request /\ r.pc = "insert" /\ RowChecked(r)
        /\ RequestsTyped /\ OneRowEach
    BY <1>8, CheckedAt DEF InsertRow
  <2>2. r.cur[1] \in Users /\ r.cur[2] \in Zones
    BY <2>1 DEF Request, Pair
  <2>3. OneRowEach'
    BY <1>8, <2>1, <2>2, CreateZoneOneRowEach DEF InsertRow, RowChecked, TypeOK
  <2>4. req'[p] = s
    BY <1>8, <2>1 DEF InsertRow, Goto, Set, RequestsTyped
  <2>5. Same(r, s) /\ s.pc = next /\ s.cur = r.cur /\ s.todo = r.todo
    BY <2>1 DEF Request, Same
  <2> HIDE DEF s
  <2>6. MainPair(s) = MainPair(r)
    BY <2>5 DEF MainPair, Fresh, Same
  <2>7. RowChecked(req[p])'
    BY <2>1, <2>4, <2>5, <2>6 DEF RowChecked, Creating, Same, MainPair, Fresh
  <2>8. QED
    BY <2>3, <2>7 DEF AloneInv
<1>9. CASE KeyAdd(p)
  <2>1. r \in Request /\ r.pc = "keyAdd" /\ Goto(p, "allowRead") /\ UNCHANGED rows
    BY <1>9, CheckedAt DEF KeyAdd
  <2>2. QED
    BY <1>2, <2>1 DEF Creating
<1>10. CASE AllowRead(p)
  <2> DEFINE s == [r EXCEPT !.pc = "allowAdd", !.snap = allow[r.cur[2]]]
  <2>1. /\ r \in Request /\ r.pc = "allowRead" /\ RowChecked(r)
        /\ RequestsTyped /\ OneRowEach
    BY <1>10, CheckedAt DEF AllowRead
  <2>2. Same(r, s) /\ s.pc = "allowAdd" /\ s.cur = r.cur /\ s.todo = r.todo
    BY <2>1 DEF Request, Same
  <2>3. (Reply(p, "failed") \/ Set(p, s)) /\ UNCHANGED rows
    BY <1>10 DEF AllowRead
  <2> HIDE DEF s
  <2>4. RowChecked(s)
    BY <2>1, <2>2, AdvanceChecked DEF RowChecked, Creating
  <2>5. QED
    BY <1>1, <2>1, <2>3, <2>4, SetChecked DEF Replied
<1>11. CASE AllowAdd(p)
  <2> DEFINE s == [r EXCEPT !.pc = AfterKey(r), !.snap = {}]
  <2>1. /\ r \in Request /\ r.pc = "allowAdd" /\ RowChecked(r)
        /\ RequestsTyped /\ OneRowEach
    BY <1>11, CheckedAt DEF AllowAdd
  <2>2. Same(r, s) /\ s.pc = AfterKey(r) /\ s.cur = r.cur /\ s.todo = r.todo
    BY <2>1 DEF Request, Same
  <2>3. \/ AfterKey(r) \in {"rotate", "subtree", "grant"}
        \/ AfterKey(r) = "fetch" /\ r.cur = MainPair(r)
    BY DEF AfterKey
  <2>4. (Reply(p, "failed") \/ Set(p, s)) /\ UNCHANGED rows
    BY <1>11 DEF AllowAdd
  <2> HIDE DEF s
  <2>5. MainPair(s) = MainPair(r)
    BY <2>2 DEF MainPair, Fresh, Same
  <2>6. RowChecked(s)
    BY <2>1, <2>2, <2>3, <2>5 DEF RowChecked, Creating, Same
  <2>7. QED
    BY <1>1, <2>1, <2>4, <2>6, SetChecked DEF Replied
<1>12. CASE ListSubtree(p)
  <2> DEFINE next == IF r.op = "remove" THEN "revoke" ELSE "grant"
             s == [r EXCEPT !.todo = {MainPair(r)[1]} \X subzonesOf(r.zone), !.pc = next]
  <2>1. /\ r \in Request /\ r.pc = "subtree" /\ Vetted(r) /\ RowChecked(r)
        /\ RequestsTyped /\ OneRowEach
    BY <1>12, CheckedAt DEF ListSubtree
  <2>2. r.op # "create"
    BY <2>1 DEF Vetted, OpsAt
  <2>3. Same(r, s) /\ s.pc \in {"revoke", "grant"}
    BY <2>1 DEF Request, Same
  <2>4. Set(p, s) /\ UNCHANGED rows
    BY <1>12 DEF ListSubtree
  <2> HIDE DEF s
  <2>5. RowChecked(s)
    BY <2>1, <2>2, <2>3, AdvanceChecked
  <2>6. QED
    BY <2>1, <2>4, <2>5, SetChecked
<1>13. CASE GrantNext(p)
  <2>1. /\ r \in Request /\ r.pc = "grant" /\ RowChecked(r)
        /\ RequestsTyped /\ OneRowEach /\ UNCHANGED rows
    BY <1>13, CheckedAt DEF GrantNext
  <2>2. ASSUME NEW t \in r.todo, Set(p, [r EXCEPT !.todo = @ \ {t}])
        PROVE  AloneInv'
    <3> DEFINE s == [r EXCEPT !.todo = @ \ {t}]
    <3>1. Same(r, s) /\ s.pc = "grant" /\ s.todo \subseteq r.todo
      BY <2>1 DEF Request, Same
    <3>2. Set(p, s)
      BY <2>2
    <3> HIDE DEF s
    <3>3. RowChecked(s)
      BY <2>1, <3>1, AdvanceChecked DEF RowChecked, Creating
    <3>4. QED
      BY <2>1, <3>2, <3>3, SetChecked
  <2>3. ASSUME NEW t \in r.todo, ~ IsZoneOwner(t[1], t[2]),
               Set(p, [Visit(r, t) EXCEPT !.pc = "insert"])
        PROVE  AloneInv'
    <3> DEFINE s == [Visit(r, t) EXCEPT !.pc = "insert"]
    <3>1. Same(r, s) /\ s.pc = "insert" /\ s.cur = t /\ s.todo \subseteq r.todo
      BY <2>1 DEF Request, Visit, Same
    <3>2. Set(p, s)
      BY <2>3
    <3>3. r.op = "create" => t # MainPair(r)
      BY <2>1 DEF RowChecked
    <3> HIDE DEF s
    <3>4. QED
      BY <2>1, <2>3, <3>1, <3>2, <3>3, InsertChecked
  <2>4. QED
    BY <1>1, <1>13, <2>1, <2>2, <2>3 DEF GrantNext, Replied
<1>14. QED
  BY <1>4, <1>5, <1>6, <1>7, <1>8, <1>9, <1>10, <1>11, <1>12, <1>13 DEF GrantStep

\* An owner is removed only when another one was counted.
LEMMA RevokeStepChecked ==
  ASSUME NEW p, Procs = {p}, TypeOK, PolicyInv, AloneInv, RevokeStep(p)
  PROVE  AloneInv'
<1> DEFINE r == req[p]
<1>1. ASSUME UNCHANGED rows, NEW status \in Replied, Reply(p, status)
      PROVE  AloneInv'
  BY <1>1, ReplyChecked DEF TypeOK, AloneInv
<1>2. ASSUME UNCHANGED rows, r \in Request, NEW next, Goto(p, next),
             next \notin {"insert", "rowDel", "fetch", "targetOwner"},
             r.op # "create"
      PROVE  AloneInv'
  BY <1>2, GotoChecked DEF TypeOK
<1>3. ASSUME UNCHANGED rows, r \in Request, NEW s, Same(r, s), Set(p, s),
             r.op # "create",
             s.pc \notin {"insert", "rowDel", "fetch", "targetOwner"}
      PROVE  AloneInv'
  <2>1. RowChecked(r) /\ OneRowEach
    BY <1>3 DEF AloneInv, Idle, Request
  <2>2. RowChecked(s)
    BY <1>3, <2>1, AdvanceChecked
  <2>3. QED
    BY <1>3, <2>1, <2>2, SetChecked DEF TypeOK
<1>4. PICK pc \in {"targetOwner", "count", "rowDel", "allowReadDel", "allowDel",
                   "keyDel", "revoke", "listOwners", "rotate"} :
        At(p, pc) /\ (pc = "targetOwner" => r.op = "remove")
  BY DEF RevokeStep, RemoveTarget, CountOwners, DeleteRow, AllowReadForDelete,
     AllowDelete, KeyDelete, RevokeNext, ListOwners, RotateNext
<1>5. /\ r \in Request /\ r.pc = pc /\ Vetted(r) /\ RowChecked(r)
      /\ RequestsTyped /\ OneRowEach
  BY <1>4, CheckedAt
<1>6. r.op # "create"
  BY <1>4, <1>5 DEF Vetted, OpsAt
<1>7. CASE CountOwners(p)
  <2> DEFINE s == [r EXCEPT !.pc = "rowDel"]
  <2>1. UNCHANGED rows
    BY <1>7 DEF CountOwners
  <2>2. CASE CountZoneOwners(r.cur[2]) > 1 /\ Goto(p, "rowDel")
    <3>1. r.cur[2] \in Zones
      BY <1>5 DEF Request, Pair
    <3>2. ListZoneOwners(r.cur[2]) \ {r.cur[1]} # {}
      BY <1>5, <2>2, <3>1, SecondOwner DEF TypeOK
    <3>3. s.op = r.op /\ s.pc = "rowDel" /\ s.cur = r.cur
      BY <1>5 DEF Request
    <3>4. Set(p, s)
      BY <2>2 DEF Goto
    <3> HIDE DEF s
    <3>5. RowChecked(s)
      BY <1>6, <3>2, <3>3 DEF RowChecked
    <3>6. QED
      BY <1>5, <2>1, <3>4, <3>5, SetChecked
  <2>3. QED
    BY <1>1, <1>2, <1>5, <1>6, <1>7, <2>1, <2>2 DEF CountOwners, Replied
<1>8. CASE DeleteRow(p)
  <2> DEFINE s == [r EXCEPT !.pc = "allowReadDel"]
  <2>1. r.cur[1] \in Users /\ r.cur[2] \in Zones
    BY <1>5 DEF Request, Pair
  <2>2. OneRowEach'
    BY <1>5, <1>8, <2>1, DeleteZoneOneRowEach DEF DeleteRow, TypeOK
  <2>3. req'[p] = s
    BY <1>5, <1>8 DEF DeleteRow, Goto, Set, RequestsTyped
  <2>4. s.op # "create" /\ s.pc = "allowReadDel"
    BY <1>5, <1>6 DEF Request
  <2> HIDE DEF s
  <2>5. RowChecked(req[p])'
    BY <2>3, <2>4 DEF RowChecked
  <2>6. QED
    BY <2>2, <2>5 DEF AloneInv
<1>9. CASE RemoveTarget(p) \/ KeyDelete(p)
  <2>1. \/ \E next \in {"count", "keyAdd", "subtree", "revoke"} : Goto(p, next)
        \/ \E status \in Replied : Reply(p, status)
    BY <1>9 DEF RemoveTarget, KeyDelete, Replied
  <2>2. UNCHANGED rows
    BY <1>9 DEF RemoveTarget, KeyDelete
  <2>3. QED
    BY <1>1, <1>2, <1>5, <1>6, <2>1, <2>2
<1>10. CASE AllowReadForDelete(p)
  <2> DEFINE s == [r EXCEPT !.pc = "allowDel", !.snap = allow[r.cur[2]]]
  <2>1. Same(r, s) /\ s.pc = "allowDel"
    BY <1>5 DEF Request, Same
  <2>2. (Goto(p, "keyDel") \/ Set(p, s)) /\ UNCHANGED rows
    BY <1>10 DEF AllowReadForDelete
  <2> HIDE DEF s
  <2>3. QED
    BY <1>2, <1>3, <1>5, <1>6, <2>1, <2>2
<1>11. CASE AllowDelete(p)
  <2> DEFINE s == [r EXCEPT !.pc = "keyDel", !.snap = {}]
  <2>1. Same(r, s) /\ s.pc = "keyDel"
    BY <1>5 DEF Request, Same
  <2>2. Set(p, s) /\ UNCHANGED rows
    BY <1>11 DEF AllowDelete
  <2> HIDE DEF s
  <2>3. QED
    BY <1>3, <1>5, <1>6, <2>1, <2>2
<1>12. CASE RevokeNext(p) \/ RotateNext(p)
  <2>1. UNCHANGED rows
    BY <1>12 DEF RevokeNext, RotateNext
  <2>2. ASSUME NEW t, pc = "revoke", Set(p, [r EXCEPT !.todo = @ \ {t}])
        PROVE  AloneInv'
    <3> DEFINE s == [r EXCEPT !.todo = @ \ {t}]
    <3>1. Same(r, s) /\ s.pc = "revoke"
      BY <1>5, <2>2 DEF Request, Same
    <3>2. Set(p, s)
      BY <2>2
    <3> HIDE DEF s
    <3>3. QED
      BY <1>3, <1>5, <1>6, <2>1, <3>1, <3>2
  <2>3. ASSUME NEW t, NEW next \in {"count", "allowReadDel"},
               Set(p, [Visit(r, t) EXCEPT !.pc = next])
        PROVE  AloneInv'
    <3> DEFINE s == [Visit(r, t) EXCEPT !.pc = next]
    <3>1. Same(r, s) /\ s.pc = next
      BY <1>5 DEF Request, Visit, Same
    <3>2. Set(p, s)
      BY <2>3
    <3> HIDE DEF s
    <3>3. QED
      BY <1>3, <1>5, <1>6, <2>1, <3>1, <3>2
  <2>4. RevokeNext(p) => pc = "revoke"
    BY <1>4, <1>5 DEF RevokeNext, At
  <2>5. QED
    BY <1>1, <1>12, <2>1, <2>2, <2>3, <2>4 DEF RevokeNext, RotateNext, Replied
<1>13. CASE ListOwners(p)
  <2> DEFINE s == [r EXCEPT !.pc = "rotate",
                     !.todo = ListZoneOwners(r.zone) \X {r.zone}]
  <2>1. Same(r, s) /\ s.pc = "rotate"
    BY <1>5 DEF Request, Same
  <2>2. Set(p, s) /\ UNCHANGED rows
    BY <1>13 DEF ListOwners
  <2> HIDE DEF s
  <2>3. QED
    BY <1>3, <1>5, <1>6, <2>1, <2>2
<1>14. QED
  BY <1>7, <1>8, <1>9, <1>10, <1>11, <1>12, <1>13 DEF RevokeStep

\* A deletion takes all rows of its zone.
LEMMA DeleteStepChecked ==
  ASSUME NEW p, Procs = {p}, TypeOK, PolicyInv, AloneInv, DeleteStep(p)
  PROVE  AloneInv'
<1> DEFINE r == req[p]
<1>1. PICK pc \in {"lookup", "ownSubs", "listKeys", "keysDel", "zoneDel", "rowsDel"} :
        At(p, pc)
  BY DEF DeleteStep, OrphanLookup, OwnSubzones, ListKeys, DeleteNextKey,
     DeleteFromDns, DeleteRows
<1>2. /\ r \in Request /\ r.pc = pc /\ Vetted(r) /\ RowChecked(r)
      /\ RequestsTyped /\ OneRowEach
  BY <1>1, CheckedAt
<1>3. ASSUME UNCHANGED rows, NEW status \in Replied, Reply(p, status)
      PROVE  AloneInv'
  BY <1>3, ReplyChecked DEF TypeOK, AloneInv
<1>4. ASSUME UNCHANGED rows, NEW s, Same(r, s), Set(p, s), s.todo = r.todo,
             s.pc \in {"listKeys", "zoneDel", "keysDel", "rowsDel"}
      PROVE  AloneInv'
  <2>1. RowChecked(s)
    BY <1>2, <1>4, AdvanceChecked DEF RowChecked, Creating
  <2>2. QED
    BY <1>2, <1>4, <2>1, SetChecked
<1>5. CASE OrphanLookup(p)
  <2>1. r.pc = "lookup"
    BY <1>5 DEF OrphanLookup, At
  <2>2. r.op = "orphan"
    BY <1>2, <2>1 DEF Vetted, OpsAt
  <2>3. ASSUME NEW u, Set(p, [r EXCEPT !.pc = "ownSubs", !.caller = u])
        PROVE  AloneInv'
    <3> DEFINE s == [r EXCEPT !.pc = "ownSubs", !.caller = u]
    <3>1. s.op = "orphan" /\ s.pc = "ownSubs"
      BY <1>2, <2>2 DEF Request
    <3>2. Set(p, s) /\ UNCHANGED rows
      BY <1>5, <2>3 DEF OrphanLookup
    <3> HIDE DEF s
    <3>3. RowChecked(s)
      BY <3>1 DEF RowChecked
    <3>4. QED
      BY <1>2, <3>2, <3>3, SetChecked
  <2>4. QED
    BY <1>3, <1>5, <2>3 DEF OrphanLookup, Replied
<1>6. CASE ListKeys(p)
  <2> DEFINE next == IF allow[r.zone] = {} THEN "zoneDel" ELSE "keysDel"
             s == [r EXCEPT !.snap = allow[r.zone], !.pc = next]
  <2>1. Same(r, s) /\ s.todo = r.todo /\ s.pc \in {"zoneDel", "keysDel"}
    BY <1>2 DEF Request, Same
  <2>2. (Set(p, s) \/ Reply(p, "failed")) /\ UNCHANGED rows
    BY <1>6 DEF ListKeys
  <2> HIDE DEF s
  <2>3. QED
    BY <1>3, <1>4, <2>1, <2>2 DEF Replied
<1>7. CASE DeleteNextKey(p)
  <2>1. UNCHANGED rows
    BY <1>7 DEF DeleteNextKey
  <2>2. ASSUME NEW u, Set(p, [r EXCEPT !.snap = @ \ {u},
                               !.pc = IF r.snap = {u} THEN "zoneDel" ELSE "keysDel"])
        PROVE  AloneInv'
    <3> DEFINE s == [r EXCEPT !.snap = @ \ {u},
                       !.pc = IF r.snap = {u} THEN "zoneDel" ELSE "keysDel"]
    <3>1. Same(r, s) /\ s.todo = r.todo /\ s.pc \in {"zoneDel", "keysDel"}
      BY <1>2 DEF Request, Same
    <3>2. Set(p, s)
      BY <2>2
    <3> HIDE DEF s
    <3>3. QED
      BY <1>4, <2>1, <3>1, <3>2
  <2>3. QED
    BY <1>3, <1>7, <2>1, <2>2 DEF DeleteNextKey, Replied
<1>8. CASE OwnSubzones(p) \/ DeleteFromDns(p)
  <2>1. \/ Goto(p, "listKeys") \/ Goto(p, "rowsDel")
        \/ \E status \in Replied : Reply(p, status)
    BY <1>8 DEF OwnSubzones, DeleteFromDns, Replied
  <2>2. UNCHANGED rows
    BY <1>8 DEF OwnSubzones, DeleteFromDns
  <2>3. QED
    BY <1>2, <1>3, <2>1, <2>2, GotoChecked DEF Creating
<1>9. CASE DeleteRows(p)
  <2>1. r.zone \in Zones
    BY <1>2 DEF Request
  <2>2. OneRowEach'
    BY <1>2, <1>9, <2>1 DEF DeleteRows, DeleteAllZoneOwners, OneRowEach, TypeOK, RowsTyped
  <2> DEFINE s == Fresh(r.op, r.login, r.caller, r.zone, r.target, "ok")
  <2>3. req'[p] = s
    BY <1>2, <1>9 DEF DeleteRows, Reply, Set, RequestsTyped
  <2>4. s.pc = "ok" /\ s.todo = {}
    BY DEF Fresh
  <2> HIDE DEF s
  <2>5. RowChecked(req[p])'
    BY <2>3, <2>4 DEF RowChecked, Creating
  <2>6. QED
    BY <2>2, <2>5 DEF AloneInv
<1>10. QED
  BY <1>5, <1>6, <1>7, <1>8, <1>9 DEF DeleteStep

\* A call that fails ends the request or goes on to another call on the server.
LEMMA CallFailsChecked ==
  ASSUME NEW p, Procs = {p}, TypeOK, AloneInv, CallFails(p)
  PROVE  AloneInv'
<1> DEFINE r == req[p]
<1>1. r \in Request /\ UNCHANGED rows
  BY DEF CallFails, BetweenCalls, TypeOK, RequestsTyped, Idle
<1>2. CASE r.pc \in DOMAIN AfterIgnoredError /\ Goto(p, AfterIgnoredError[r.pc])
  <2>1. /\ AfterIgnoredError[r.pc] \notin {"insert", "rowDel", "fetch", "targetOwner"}
        /\ AfterIgnoredError[r.pc] \in Creating => r.pc \in Creating
    BY <1>2 DEF AfterIgnoredError, Creating
  <2>2. QED
    BY <1>1, <1>2, <2>1, GotoChecked DEF TypeOK
<1>3. CASE Reply(p, "failed")
  BY <1>1, <1>3, ReplyChecked DEF TypeOK, AloneInv, Replied
<1>4. QED
  BY <1>2, <1>3 DEF CallFails

LEMMA InitChecked ==
  ASSUME Init
  PROVE  AloneInv
<1>1. PICK table \in InitTables : InitWith(table)
  BY DEF Init
<1>2. OneRowEach
  BY <1>1, TablesListOnce DEF InitWith, OneRowEach
<1>3. QED
  BY <1>2 DEF Init, AloneInv

\* One request at a time: what it found out about the rows it inserts and deletes
\* is still so when it does, also where earlier requests failed or died halfway.
THEOREM AloneInvariant ==
  ASSUME NEW p, Procs = {p}
  PROVE  Spec => []AloneInv
<1>1. ASSUME TypeOK, PolicyInv, AloneInv, [Next]_vars
      PROVE  AloneInv'
  <2> USE <1>1
  <2>1. RequestsTyped /\ OneRowEach
    BY DEF TypeOK, AloneInv
  <2>2. CASE Receive(p)
    <3>1. PICK op \in Ops, login \in Logins, caller \in Users, zone \in Zones,
               target \in Users :
            Set(p, Fresh(op, login, caller, zone, target, FirstLabel(op)))
      BY <2>2 DEF Receive
    <3> DEFINE s == Fresh(op, login, caller, zone, target, FirstLabel(op))
    <3>2. s.pc = FirstLabel(op) /\ s.todo = {} /\ s.cur = MainPair(s)
      BY DEF Fresh, MainPair
    <3>3. Set(p, s) /\ UNCHANGED rows
      BY <2>2, <3>1 DEF Receive
    <3> HIDE DEF s
    <3>4. RowChecked(s)
      BY <3>2 DEF RowChecked, Creating, FirstLabel
    <3>5. QED
      BY <2>1, <3>3, <3>4, SetChecked
  <2>3. CASE Step(p)
    <3>1. CASE Respond(p)
      BY <2>1, <3>1, SetChecked DEF Respond
    <3>2. QED
      BY <2>3, <3>1, CreateStepChecked, GrantStepChecked, RevokeStepChecked,
         DeleteStepChecked DEF Step
  <2>4. CASE CallFails(p)
    BY <2>4, CallFailsChecked
  <2>5. CASE Crash
    BY <2>1, <2>5 DEF Crash, AloneInv, OneRowEach
  <2>6. CASE UNCHANGED vars
    BY <2>6 DEF vars, AloneInv, OneRowEach, RowChecked, IsZoneOwner,
       ListZoneOwners, ZoneExists, MainPair
  <2>7. QED
    BY <2>2, <2>3, <2>4, <2>5, <2>6 DEF Next
<1>2. QED
  BY <1>1, InitChecked, TypeCorrect, PolicyInvariant, PTL DEF Spec

-------------------------------------------------------------------------------
(* The refinement *)

\* The three steps that change the table are steps of the abstract specification
\* or change no owner.
LEMMA InsertRowClaimsOrShares ==
  ASSUME NEW p \in Procs, TypeOK, PolicyInv, AloneInv, InsertRow(p)
  PROVE  Ownership!Next
<1> DEFINE r == req[p]
           u == r.cur[1]
           z == r.cur[2]
<1>1. /\ r \in Request /\ r.pc = "insert" /\ Vetted(r) /\ RowChecked(r)
  BY CheckedAt DEF InsertRow
<1>2. u \in Users /\ z \in Zones /\ r.cur = <<u, z>>
  BY <1>1 DEF Request, Pair
<1>3. r.op \in {"create", "join", "add"}
  BY <1>1 DEF Vetted, OpsAt
<1>4. PairVetted(r, r.cur)
  BY <1>1, <1>3, VettedPairs DEF Vetted, Unvetted, Replied
<1>5. <<u, z>> \in ReachedPairs
  BY <1>2, <1>4 DEF PairVetted, ReachedPairs, Pair
<1>6. OwnersOf' = [OwnersOf EXCEPT ![z] = @ \cup {u}]
  BY <1>2, CreateZoneOwners DEF InsertRow, TypeOK
<1>7. OwnersOf[z] = ListZoneOwners(z)
  BY <1>2 DEF OwnersOf
<1>8. CASE ListZoneOwners(z) = {}
  <2>1. OwnersOf' = [OwnersOf EXCEPT ![z] = {u}]
    BY <1>6, <1>7, <1>8
  <2>2. Ownership!Claim(u, z)
    BY <1>5, <1>7, <1>8, <2>1 DEF Ownership!Claim, OwnersOf
  <2>3. QED
    BY <1>2, <2>2 DEF Ownership!Next
<1>9. CASE ListZoneOwners(z) # {}
  <2>1. ~ (r.op = "create" /\ r.cur = MainPair(r))
    <3>1. MainPair(r)[2] = r.zone
      BY DEF MainPair, Fresh
    <3>2. QED
      BY <1>1, <1>9, <3>1, NoRowsNoOwners DEF RowChecked, Creating
  <2>2. z \in SharedZones
    BY <1>4, <2>1 DEF PairVetted
  <2>3. Ownership!Share(u, z)
    BY <1>5, <1>6, <1>7, <1>9, <2>2 DEF Ownership!Share, OwnersOf
  <2>4. QED
    BY <1>2, <2>3 DEF Ownership!Next
<1>10. QED
  BY <1>8, <1>9

LEMMA DeleteRowLeaves ==
  ASSUME NEW p \in Procs, TypeOK, PolicyInv, AloneInv, DeleteRow(p)
  PROVE  Ownership!Next
<1> DEFINE r == req[p]
           u == r.cur[1]
           z == r.cur[2]
<1>1. r \in Request /\ r.pc = "rowDel" /\ RowChecked(r)
  BY CheckedAt DEF DeleteRow
<1>2. u \in Users /\ z \in Zones
  BY <1>1 DEF Request, Pair
<1>3. OwnersOf' = [OwnersOf EXCEPT ![z] = @ \ {u}]
  BY <1>2, DeleteZoneOwners DEF DeleteRow, TypeOK
<1>4. OwnersOf[z] \ {u} # {}
  BY <1>1, <1>2 DEF RowChecked, OwnersOf
<1>5. Ownership!Leave(u, z)
  BY <1>3, <1>4 DEF Ownership!Leave, OwnersOf
<1>6. QED
  BY <1>2, <1>5 DEF Ownership!Next

LEMMA DeleteRowsDrops ==
  ASSUME NEW p \in Procs, TypeOK, PolicyInv, AloneInv, DeleteRows(p)
  PROVE  Ownership!Next
<1>1. req[p] \in Request
  BY CheckedAt DEF DeleteRows
<1>2. req[p].zone \in Zones
  BY <1>1 DEF Request
<1>3. OwnersOf' = [OwnersOf EXCEPT ![req[p].zone] = {}]
  BY <1>2, DeleteAllOwners DEF DeleteRows, TypeOK
<1>4. Ownership!Drop(req[p].zone)
  BY <1>3 DEF Ownership!Drop, OwnersOf
<1>5. QED
  BY <1>2, <1>4 DEF Ownership!Next

\* The table a run starts from is one that the policy allows.
LEMMA InitRefines ==
  ASSUME Init
  PROVE  Ownership!Init
<1>1. OwnershipFollowsPolicy
  BY InitFollowsPolicy DEF PolicyInv
<1>2. RowsTyped
  BY InitTyped DEF TypeOK
<1>3. \A z \in Zones : ListZoneOwners(z) \subseteq Users
  BY <1>2, OwnersAreUsers
<1>4. QED
  BY <1>1, <1>3 DEF Ownership!Init, OwnershipFollowsPolicy, ReachedPairs, Pair

\* Requests one at a time implement the promise about ownership: every step of a
\* request claims, shares, leaves or drops one zone, or leaves the owners alone.
THEOREM OwnershipImplemented ==
  ASSUME NEW p, Procs = {p}
  PROVE  Spec => ImplementsOwnership
<1>1. ASSUME TypeOK, PolicyInv, AloneInv, [Next]_vars
      PROVE  [Ownership!Next]_OwnersOf
  <2> USE <1>1
  <2>1. CASE UNCHANGED rows
    BY <2>1 DEF OwnersOf, ListZoneOwners
  <2>2. CASE Step(p)
    BY <2>1, <2>2, RowChanges, InsertRowClaimsOrShares, DeleteRowLeaves,
       DeleteRowsDrops
  <2>3. CASE Receive(p) \/ CallFails(p) \/ Crash \/ UNCHANGED vars
    BY <2>1, <2>3 DEF Receive, CallFails, Crash, vars
  <2>4. QED
    BY <2>2, <2>3 DEF Next
<1>2. Spec => []AloneInv
  BY AloneInvariant
<1>3. QED
  BY <1>1, <1>2, InitRefines, TypeCorrect, PolicyInvariant, PTL
     DEF Spec, ImplementsOwnership, Ownership!Spec, OwnersOf

\* As long as requests come one at a time, a zone loses its last owner only when it
\* is deleted: the owner that was counted beside the one to remove is still there.
THEOREM LastOwnerProtected ==
  ASSUME NEW q, Procs = {q}
  PROVE  Spec => LastOwnerStays
<1>1. ASSUME TypeOK, PolicyInv, AloneInv, [Next]_vars
      PROVE  [\A z \in Zones :
                rows[z] # {} /\ rows'[z] = {} =>
                  \E p \in Procs : Passes(p, "rowsDel")]_rows
  <2> USE <1>1
  <2>1. CASE UNCHANGED rows
    BY <2>1
  <2>2. CASE InsertRow(q)
    <3>1. \A z \in Zones : rows[z] \subseteq rows'[z]
      BY <2>2 DEF InsertRow, CreateZone, TypeOK, RowsTyped
    <3>2. QED
      BY <3>1
  <2>3. CASE DeleteRow(q)
    <3> DEFINE u == req[q].cur[1]
               z == req[q].cur[2]
    <3>1. req[q] \in Request /\ req[q].pc = "rowDel" /\ RowChecked(req[q])
      BY <2>3, CheckedAt DEF DeleteRow
    <3>2. u \in Users /\ z \in Zones
      BY <3>1 DEF Request, Pair
    <3>3. OwnersOf' = [OwnersOf EXCEPT ![z] = @ \ {u}]
      BY <2>3, <3>2, DeleteZoneOwners DEF DeleteRow, TypeOK
    <3>4. \A w \in Zones : OwnersOf[w] # {} => OwnersOf'[w] # {}
      BY <3>1, <3>2, <3>3 DEF RowChecked, OwnersOf
    <3>5. \A w \in Zones : /\ rows[w] # {} <=> OwnersOf[w] # {}
                           /\ rows'[w] # {} <=> OwnersOf'[w] # {}
      BY DEF OwnersOf, ListZoneOwners
    <3>6. QED
      BY <3>4, <3>5
  <2>4. CASE DeleteRows(q)
    <3>1. RequestsTyped /\ At(q, "rowsDel")
      BY <2>4 DEF DeleteRows, TypeOK
    <3>2. req'[q].pc = "ok"
      BY <2>4, <3>1 DEF DeleteRows, Reply, Set, Fresh, RequestsTyped
    <3>3. QED
      BY <3>1, <3>2 DEF Passes
  <2>5. CASE Step(q)
    BY <2>1, <2>2, <2>3, <2>4, <2>5, RowChanges
  <2>6. CASE Receive(q) \/ CallFails(q) \/ Crash \/ UNCHANGED vars
    BY <2>1, <2>6 DEF Receive, CallFails, Crash, vars
  <2>7. QED
    BY <2>5, <2>6 DEF Next
<1>2. Spec => []AloneInv
  BY AloneInvariant
<1>3. QED
  BY <1>1, <1>2, TypeCorrect, PolicyInvariant, PTL DEF Spec, LastOwnerStays

===============================================================================
