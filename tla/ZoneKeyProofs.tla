---------------------------- MODULE ZoneKeyProofs -----------------------------
(***************************************************************************)
(* Theorems about the TSIG keys of ZoneService: nobody holds a key beyond  *)
(* the reach of the policy, whatever stale lists of owners or of metadata  *)
(* the requests in flight write back.                                      *)
(***************************************************************************)
EXTENDS ZoneServiceProofs

-------------------------------------------------------------------------------
(* Requests that stay vetted *)

LEMMA SetKeyVetted ==
  ASSUME RequestsTyped, KeysVetted, NEW p \in Procs, NEW s,
         s = Idle \/ KeyVetted(s), Set(p, s)
  PROVE  KeysVetted'
<1>1. \A q \in Procs : req'[q] = req[q] \/ req'[q] = s
  BY DEF Set, RequestsTyped
<1>2. \A q \in Procs : req'[q] # Idle => KeyVetted(req'[q])
  BY <1>1 DEF KeysVetted
<1>3. QED
  BY <1>2 DEF KeysVetted

LEMMA ReplyKeyVetted ==
  ASSUME RequestsTyped, KeysVetted, NEW p \in Procs,
         NEW status \in Replied, Reply(p, status)
  PROVE  KeysVetted'
<1> DEFINE r == req[p]
           s == Fresh(r.op, r.login, r.caller, r.zone, r.target, status)
<1>1. s.pc = status
  BY DEF Fresh
<1>2. Set(p, s)
  BY DEF Reply
<1> HIDE DEF s
<1>3. KeyVetted(s)
  BY <1>1 DEF KeyVetted, KeyLabels, Replied
<1>4. QED
  BY <1>2, <1>3, SetKeyVetted

\* What a step of another operation, or one away from the keys, has to keep.
LEMMA AwayFromKeys ==
  ASSUME NEW r, NEW s, KeyVetted(r), r.pc \notin Replied, s.op = r.op,
         s.pc \notin {"allowAdd", "allowDel"},
         r.op = "rotate" =>
           /\ s.todo \subseteq r.todo
           /\ s.pc \in KeyLabels => s.cur = r.cur /\ r.pc \in KeyLabels
  PROVE  KeyVetted(s)
BY DEF KeyVetted

LEMMA GotoKeyVetted ==
  ASSUME TypeOK, KeysVetted, NEW p \in Procs, req[p] \in Request,
         req[p].pc \notin Replied, NEW pc, Goto(p, pc),
         pc \notin {"allowAdd", "allowDel"},
         req[p].op = "rotate" /\ pc \in KeyLabels => req[p].pc \in KeyLabels
  PROVE  KeysVetted'
<1> DEFINE r == req[p]
           s == [r EXCEPT !.pc = pc]
<1>1. s.op = r.op /\ s.pc = pc /\ s.cur = r.cur /\ s.todo = r.todo
  BY DEF Request
<1>2. Set(p, s)
  BY DEF Goto
<1>3. KeyVetted(r)
  BY DEF KeysVetted, Idle, Request
<1> HIDE DEF s
<1>4. KeyVetted(s)
  BY <1>1, <1>3, AwayFromKeys
<1>5. QED
  BY <1>2, <1>4, SetKeyVetted DEF TypeOK

LEMMA KeyVettedAt ==
  ASSUME TypeOK, PolicyInv, KeyInv, NEW p \in Procs, NEW pc, At(p, pc), pc # "idle"
  PROVE  /\ RequestsTyped /\ KeysVetted /\ req[p] \in Request
         /\ req[p].pc = pc /\ Vetted(req[p]) /\ KeyVetted(req[p])
BY VettedAt DEF KeyInv, KeysVetted, At, Idle, Request

\* Whatever metadata is read follows the policy.
LEMMA MetadataFollows ==
  ASSUME KeyInv, NEW z \in Zones
  PROVE  \A u \in allow[z] : PolicyReaches(u, z)
BY DEF KeyInv, KeysFollowPolicy

-------------------------------------------------------------------------------
(* The steps: the requests *)

\* A creation is no rotation and reads no metadata but at its own label.
LEMMA CreateStepKeyVetted ==
  ASSUME TypeOK, PolicyInv, KeyInv, NEW p \in Procs, CreateStep(p)
  PROVE  KeysVetted'
<1> DEFINE r == req[p]
<1>1. PICK pc \in {"authorize", "parentDef", "exists", "interGet", "interAdd",
                   "nsDrop", "nsAdd", "dropZone", "dropKey", "addZone", "fetch",
                   "parent", "shareCheck", "parentOwners"} :
        At(p, pc) /\ (pc \in {"exists", "shareCheck"} => r.op = "create")
  BY DEF CreateStep, Authorize, ParentDefinition, CreateExists, IntermediateGet,
     IntermediateAdd, DelegationDrop, DelegationAdd, DropZone, DropKey, AddZone,
     FetchZone, FindParent, ParentSharing, ParentOwners
<1>2. /\ r \in Request /\ r.pc = pc /\ KeysVetted /\ RequestsTyped
      /\ Vetted(r) /\ KeyVetted(r)
  BY <1>1, KeyVettedAt
<1>3. r.op = "create"
  BY <1>1, <1>2 DEF Vetted, OpsAt
<1>4. ASSUME NEW s, Set(p, s), s.op = "create", s.pc \notin {"allowAdd", "allowDel"}
      PROVE  KeysVetted'
  BY <1>2, <1>4, SetKeyVetted DEF KeyVetted
<1>5. ASSUME NEW status \in Replied, Reply(p, status)
      PROVE  KeysVetted'
  BY <1>2, <1>5, ReplyKeyVetted
<1>6. ASSUME NEW next, Goto(p, next), next \notin {"allowAdd", "allowDel"}
      PROVE  KeysVetted'
  BY <1>1, <1>2, <1>3, <1>6, GotoKeyVetted DEF Replied
<1>7. ASSUME NEW chain, NEW s \in Ensuring(r, chain), Set(p, s)
      PROVE  KeysVetted'
  <2>1. s.op = "create" /\ s.pc \in {"dropZone", "interGet"}
    BY <1>2, <1>3, <1>7 DEF Ensuring, Request
  <2>2. QED
    BY <1>4, <1>7, <2>1
<1>8. ASSUME NEW z, Set(p, [r EXCEPT !.pc = "exists", !.at = z])
      PROVE  KeysVetted'
  <2>1. /\ [r EXCEPT !.pc = "exists", !.at = z].op = "create"
        /\ [r EXCEPT !.pc = "exists", !.at = z].pc = "exists"
    BY <1>2, <1>3 DEF Request
  <2>2. QED
    BY <1>4, <1>8, <2>1
<1>9. ASSUME NEW z, NEW next \in {"parentDef", "shareCheck"},
             Set(p, [r EXCEPT !.pc = next, !.at = z])
      PROVE  KeysVetted'
  <2>1. /\ [r EXCEPT !.pc = next, !.at = z].op = "create"
        /\ [r EXCEPT !.pc = next, !.at = z].pc = next
    BY <1>2, <1>3 DEF Request
  <2>2. QED
    BY <1>4, <1>9, <2>1
<1>10. CASE Authorize(p)
  BY <1>5, <1>8, <1>9, <1>10 DEF Authorize, Replied
<1>11. CASE ParentDefinition(p)
  BY <1>5, <1>6, <1>11 DEF ParentDefinition, Replied
<1>12. CASE CreateExists(p) \/ DelegationAdd(p)
  BY <1>5, <1>7, <1>12 DEF CreateExists, DelegationAdd, Replied
<1>13. CASE FindParent(p)
  BY <1>5, <1>9, <1>13 DEF FindParent, Replied
<1>14. CASE ParentSharing(p)
  BY <1>5, <1>6, <1>14 DEF ParentSharing, Replied
<1>15. CASE ParentOwners(p)
  <2> DEFINE s == [r EXCEPT !.pc = "grant",
                     !.todo = (ListZoneOwners(r.at) \ {r.caller}) \X {r.zone}]
  <2>1. s.op = "create" /\ s.pc = "grant"
    BY <1>2, <1>3 DEF Request
  <2>2. Set(p, s)
    BY <1>15 DEF ParentOwners
  <2> HIDE DEF s
  <2>3. QED
    BY <1>4, <2>1, <2>2
<1>16. CASE \/ IntermediateGet(p) \/ IntermediateAdd(p) \/ DelegationDrop(p)
            \/ DropZone(p) \/ DropKey(p) \/ AddZone(p) \/ FetchZone(p)
  <2>1. \/ Reply(p, "failed")
        \/ \E next \in {"interAdd", "nsDrop", "nsAdd", "dropKey", "addZone",
                        "keyAdd", "insert"} : Goto(p, next)
    BY <1>16 DEF IntermediateGet, IntermediateAdd, DelegationDrop, DropZone,
       DropKey, AddZone, FetchZone
  <2>2. QED
    BY <1>5, <1>6, <2>1 DEF Replied
<1>17. QED
  BY <1>10, <1>11, <1>12, <1>13, <1>14, <1>15, <1>16 DEF CreateStep

\* Granting: a rotation passes here with the pair it is at, ...
LEMMA GrantStepKeyVetted ==
  ASSUME TypeOK, PolicyInv, KeyInv, NEW p \in Procs, GrantStep(p)
  PROVE  KeysVetted'
<1> DEFINE r == req[p]
<1>1. ASSUME r \in Request, r.pc \notin Replied, NEW next, Goto(p, next),
             next \notin {"allowAdd", "allowDel"},
             r.op = "rotate" /\ next \in KeyLabels => r.pc \in KeyLabels
      PROVE  KeysVetted'
  BY <1>1, GotoKeyVetted DEF KeyInv
<1>2. ASSUME NEW status \in Replied, Reply(p, status)
      PROVE  KeysVetted'
  BY <1>2, ReplyKeyVetted DEF TypeOK, KeyInv
<1>3. CASE JoinExists(p) \/ JoinAuthorize(p) \/ AddSharing(p) \/ AddTarget(p)
  <2>1. /\ r \in Request /\ r.op \in {"join", "add"}
        /\ r.pc \in {"exists", "isOwner", "shareCheck", "targetOwner"}
    BY <1>3, KeyVettedAt DEF JoinExists, JoinAuthorize, AddSharing, AddTarget
  <2>2. \/ \E next \in {"isOwner", "insert", "targetOwner", "subtree"} : Goto(p, next)
        \/ \E status \in Replied : Reply(p, status)
    BY <1>3 DEF JoinExists, JoinAuthorize, AddSharing, AddTarget, Replied
  <2>3. QED
    BY <1>1, <1>2, <2>1, <2>2 DEF Replied
<1>4. CASE CallerIsOwner(p)
  <2>1. r \in Request /\ r.pc = "isOwner" /\ r.op \in DOMAIN AfterOwnerCheck
    BY <1>4, KeyVettedAt DEF CallerIsOwner
  <2>2. AfterOwnerCheck[r.op] \in {"shareCheck", "targetOwner", "listOwners", "ownSubs"}
    BY <2>1 DEF AfterOwnerCheck
  <2>3. Goto(p, AfterOwnerCheck[r.op]) \/ Reply(p, "refused")
    BY <1>4 DEF CallerIsOwner
  <2>4. QED
    BY <1>1, <1>2, <2>1, <2>2, <2>3 DEF Replied, KeyLabels
<1>5. CASE InsertRow(p)
  <2>1. r \in Request /\ r.pc = "insert" /\ Vetted(r)
    BY <1>5, KeyVettedAt DEF InsertRow
  <2>2. r.op \in {"create", "join", "add"}
    BY <2>1 DEF Vetted, OpsAt
  <2>3. Goto(p, "parent") \/ Goto(p, "keyAdd")
    BY <1>5 DEF InsertRow
  <2>4. QED
    BY <1>1, <2>1, <2>2, <2>3 DEF Replied
<1>6. CASE KeyAdd(p)
  <2>1. r \in Request /\ r.pc = "keyAdd" /\ Goto(p, "allowRead")
    BY <1>6, KeyVettedAt DEF KeyAdd
  <2>2. QED
    BY <1>1, <2>1 DEF Replied, KeyLabels
\* ... and takes the metadata along as it is now.
<1>7. CASE AllowRead(p)
  <2> DEFINE s == [r EXCEPT !.pc = "allowAdd", !.snap = allow[r.cur[2]]]
  <2>1. r \in Request /\ r.pc = "allowRead" /\ KeyVetted(r)
    BY <1>7, KeyVettedAt DEF AllowRead
  <2>2. r.cur[2] \in Zones
    BY <2>1 DEF Request, Pair
  <2>3. /\ s.op = r.op /\ s.pc = "allowAdd" /\ s.cur = r.cur /\ s.todo = r.todo
        /\ s.snap = allow[r.cur[2]]
    BY <2>1 DEF Request
  <2>4. Reply(p, "failed") \/ Set(p, s)
    BY <1>7 DEF AllowRead
  <2> HIDE DEF s
  <2>5. KeyVetted(s)
    BY <2>1, <2>2, <2>3, MetadataFollows DEF KeyVetted, KeyLabels, Replied
  <2>6. QED
    BY <1>2, <2>4, <2>5, SetKeyVetted DEF TypeOK, KeyInv, Replied
<1>8. CASE AllowAdd(p)
  <2> DEFINE s == [r EXCEPT !.pc = AfterKey(r), !.snap = {}]
  <2>1. r \in Request /\ r.pc = "allowAdd" /\ Vetted(r) /\ KeyVetted(r)
    BY <1>8, KeyVettedAt DEF AllowAdd
  <2>2. r.op \in {"create", "join", "add", "rotate"}
    BY <2>1 DEF Vetted, OpsAt
  <2>3. AfterKey(r) \in {"rotate", "fetch", "subtree", "grant"}
    BY <2>2 DEF AfterKey
  <2>4. s.op = r.op /\ s.pc = AfterKey(r) /\ s.cur = r.cur /\ s.todo = r.todo
    BY <2>1 DEF Request
  <2>5. Reply(p, "failed") \/ Set(p, s)
    BY <1>8 DEF AllowAdd
  <2> HIDE DEF s
  <2>6. KeyVetted(s)
    BY <2>1, <2>3, <2>4, AwayFromKeys DEF KeyLabels, Replied
  <2>7. QED
    BY <1>2, <2>5, <2>6, SetKeyVetted DEF TypeOK, KeyInv, Replied
<1>9. CASE ListSubtree(p) \/ GrantNext(p)
  <2>1. r \in Request /\ r.pc \in {"subtree", "grant"} /\ Vetted(r)
    BY <1>9, KeyVettedAt DEF ListSubtree, GrantNext
  <2>2. r.op # "rotate"
    BY <2>1 DEF Vetted, OpsAt
  <2>3. ASSUME NEW s, Set(p, s), s.op = r.op, s.pc \in {"revoke", "grant", "insert"}
        PROVE  KeysVetted'
    BY <2>2, <2>3, SetKeyVetted DEF KeyVetted, TypeOK, KeyInv
  <2>4. CASE ListSubtree(p)
    <3> DEFINE next == IF r.op = "remove" THEN "revoke" ELSE "grant"
               s == [r EXCEPT !.todo = {MainPair(r)[1]} \X subzonesOf(r.zone), !.pc = next]
    <3>1. s.op = r.op /\ s.pc \in {"revoke", "grant"}
      BY <2>1 DEF Request
    <3>2. Set(p, s)
      BY <2>4 DEF ListSubtree
    <3> HIDE DEF s
    <3>3. QED
      BY <2>3, <3>1, <3>2
  <2>5. CASE GrantNext(p)
    <3>1. r.pc = "grant"
      BY <2>5 DEF GrantNext, At
    <3>2. ASSUME NEW t, Set(p, [r EXCEPT !.todo = @ \ {t}])
          PROVE  KeysVetted'
      <4>1. [r EXCEPT !.todo = @ \ {t}].op = r.op /\ [r EXCEPT !.todo = @ \ {t}].pc = r.pc
        BY <2>1 DEF Request
      <4>2. QED
        BY <2>3, <3>1, <3>2, <4>1
    <3>3. ASSUME NEW t, Set(p, [Visit(r, t) EXCEPT !.pc = "insert"])
          PROVE  KeysVetted'
      <4>1. /\ [Visit(r, t) EXCEPT !.pc = "insert"].op = r.op
            /\ [Visit(r, t) EXCEPT !.pc = "insert"].pc = "insert"
        BY <2>1 DEF Request, Visit
      <4>2. QED
        BY <2>3, <3>3, <4>1
    <3>4. QED
      BY <1>2, <2>5, <3>2, <3>3 DEF GrantNext, Replied
  <2>6. QED
    BY <1>9, <2>4, <2>5
<1>10. QED
  BY <1>3, <1>4, <1>5, <1>6, <1>7, <1>8, <1>9 DEF GrantStep

\* Revoking and rotating: a rotation works on the owners it has listed.
LEMMA RevokeStepKeyVetted ==
  ASSUME TypeOK, PolicyInv, KeyInv, NEW p \in Procs, RevokeStep(p)
  PROVE  KeysVetted'
<1> DEFINE r == req[p]
<1>1. ASSUME NEW status \in Replied, Reply(p, status)
      PROVE  KeysVetted'
  BY <1>1, ReplyKeyVetted DEF TypeOK, KeyInv
<1>2. ASSUME r.op = "remove", NEW s, Set(p, s), s.op = r.op,
             s.pc \notin {"allowAdd", "allowDel"}
      PROVE  KeysVetted'
  BY <1>2, SetKeyVetted DEF KeyVetted, TypeOK, KeyInv
<1>3. CASE RemoveTarget(p) \/ CountOwners(p) \/ DeleteRow(p)
  <2>1. /\ r \in Request /\ r.pc \in {"targetOwner", "count", "rowDel"}
        /\ Vetted(r) /\ (r.pc = "targetOwner" => r.op = "remove")
    BY <1>3, KeyVettedAt DEF RemoveTarget, CountOwners, DeleteRow
  <2>2. r.op = "remove"
    BY <2>1 DEF Vetted, OpsAt
  <2>3. \/ \E next \in {"count", "rowDel", "revoke", "allowReadDel"} : Goto(p, next)
        \/ Reply(p, "refused")
    BY <1>3 DEF RemoveTarget, CountOwners, DeleteRow
  <2>4. QED
    BY <1>1, <2>1, <2>2, <2>3, GotoKeyVetted DEF KeyInv, Replied
<1>4. CASE AllowReadForDelete(p)
  <2> DEFINE s == [r EXCEPT !.pc = "allowDel", !.snap = allow[r.cur[2]]]
  <2>1. r \in Request /\ r.pc = "allowReadDel" /\ KeyVetted(r)
    BY <1>4, KeyVettedAt DEF AllowReadForDelete
  <2>2. r.cur[2] \in Zones
    BY <2>1 DEF Request, Pair
  <2>3. /\ s.op = r.op /\ s.pc = "allowDel" /\ s.cur = r.cur /\ s.todo = r.todo
        /\ s.snap = allow[r.cur[2]]
    BY <2>1 DEF Request
  <2>4. Goto(p, "keyDel") \/ Set(p, s)
    BY <1>4 DEF AllowReadForDelete
  <2> HIDE DEF s
  <2>5. KeyVetted(s)
    BY <2>1, <2>2, <2>3, MetadataFollows DEF KeyVetted, KeyLabels, Replied
  <2>6. CASE Goto(p, "keyDel")
    BY <2>1, <2>6, GotoKeyVetted DEF KeyInv, KeyLabels, Replied
  <2>7. QED
    BY <2>4, <2>5, <2>6, SetKeyVetted DEF TypeOK, KeyInv
<1>5. CASE AllowDelete(p)
  <2> DEFINE s == [r EXCEPT !.pc = "keyDel", !.snap = {}]
  <2>1. r \in Request /\ r.pc = "allowDel" /\ KeyVetted(r)
    BY <1>5, KeyVettedAt DEF AllowDelete
  <2>2. s.op = r.op /\ s.pc = "keyDel" /\ s.cur = r.cur /\ s.todo = r.todo
    BY <2>1 DEF Request
  <2>3. Set(p, s)
    BY <1>5 DEF AllowDelete
  <2> HIDE DEF s
  <2>4. KeyVetted(s)
    BY <2>1, <2>2, AwayFromKeys DEF KeyLabels, Replied
  <2>5. QED
    BY <2>3, <2>4, SetKeyVetted DEF TypeOK, KeyInv
<1>6. CASE KeyDelete(p)
  <2>1. r \in Request /\ r.pc = "keyDel"
    BY <1>6, KeyVettedAt DEF KeyDelete
  <2>2. \/ Reply(p, "failed")
        \/ \E next \in {"keyAdd", "subtree", "revoke"} : Goto(p, next)
    BY <1>6 DEF KeyDelete
  <2>3. QED
    BY <1>1, <2>1, <2>2, GotoKeyVetted DEF KeyInv, KeyLabels, Replied
<1>7. CASE RevokeNext(p)
  <2>1. r \in Request /\ r.pc = "revoke" /\ Vetted(r)
    BY <1>7, KeyVettedAt DEF RevokeNext
  <2>2. r.op = "remove"
    BY <2>1 DEF Vetted, OpsAt
  <2>3. ASSUME NEW t, Set(p, [r EXCEPT !.todo = @ \ {t}])
        PROVE  KeysVetted'
    <3>1. [r EXCEPT !.todo = @ \ {t}].op = r.op /\ [r EXCEPT !.todo = @ \ {t}].pc = r.pc
      BY <2>1 DEF Request
    <3>2. QED
      BY <1>2, <2>1, <2>2, <2>3, <3>1
  <2>4. ASSUME NEW t, Set(p, [Visit(r, t) EXCEPT !.pc = "count"])
        PROVE  KeysVetted'
    <3>1. /\ [Visit(r, t) EXCEPT !.pc = "count"].op = r.op
          /\ [Visit(r, t) EXCEPT !.pc = "count"].pc = "count"
      BY <2>1 DEF Request, Visit
    <3>2. QED
      BY <1>2, <2>2, <2>4, <3>1
  <2>5. QED
    BY <1>1, <1>7, <2>3, <2>4 DEF RevokeNext, Replied
<1>8. CASE ListOwners(p)
  <2> DEFINE owned == ListZoneOwners(r.zone) \X {r.zone}
             s == [r EXCEPT !.pc = "rotate", !.todo = owned]
  <2>1. r \in Request /\ r.pc = "listOwners"
    BY <1>8, KeyVettedAt DEF ListOwners
  <2>2. r.zone \in Zones
    BY <2>1 DEF Request
  <2>3. \A t \in owned : PolicyReaches(t[1], t[2])
    BY <2>2 DEF PolicyInv, OwnershipFollowsPolicy
  <2>4. s.pc = "rotate" /\ s.todo = owned
    BY <2>1 DEF Request
  <2>5. Set(p, s)
    BY <1>8 DEF ListOwners
  <2> HIDE DEF s
  <2>6. KeyVetted(s)
    BY <2>3, <2>4 DEF KeyVetted, KeyLabels
  <2>7. QED
    BY <2>5, <2>6, SetKeyVetted DEF TypeOK, KeyInv
<1>9. CASE RotateNext(p)
  <2>1. r \in Request /\ r.pc = "rotate" /\ Vetted(r) /\ KeyVetted(r)
    BY <1>9, KeyVettedAt DEF RotateNext
  <2>2. r.op = "rotate"
    BY <2>1 DEF Vetted, OpsAt
  <2>3. \A t \in r.todo : PolicyReaches(t[1], t[2])
    BY <2>1, <2>2 DEF KeyVetted, Replied
  <2>4. ASSUME NEW t \in r.todo, Set(p, [Visit(r, t) EXCEPT !.pc = "allowReadDel"])
        PROVE  KeysVetted'
    <3> DEFINE s == [Visit(r, t) EXCEPT !.pc = "allowReadDel"]
    <3>1. s.pc = "allowReadDel" /\ s.cur = t /\ s.todo \subseteq r.todo
      BY <2>1 DEF Request, Visit
    <3>2. Set(p, s)
      BY <2>4
    <3> HIDE DEF s
    <3>3. KeyVetted(s)
      BY <2>3, <3>1 DEF KeyVetted
    <3>4. QED
      BY <3>2, <3>3, SetKeyVetted DEF TypeOK, KeyInv
  <2>5. QED
    BY <1>1, <1>9, <2>4 DEF RotateNext, Replied
<1>10. QED
  BY <1>3, <1>4, <1>5, <1>6, <1>7, <1>8, <1>9 DEF RevokeStep

\* Deletions and orphan removals only take keys away.
LEMMA DeleteStepKeyVetted ==
  ASSUME TypeOK, PolicyInv, KeyInv, NEW p \in Procs, DeleteStep(p)
  PROVE  KeysVetted'
<1> DEFINE r == req[p]
<1>1. PICK pc \in {"lookup", "ownSubs", "listKeys", "keysDel", "zoneDel", "rowsDel"} :
        At(p, pc)
  BY DEF DeleteStep, OrphanLookup, OwnSubzones, ListKeys, DeleteNextKey,
     DeleteFromDns, DeleteRows
<1>2. r \in Request /\ r.pc = pc /\ KeyVetted(r)
  BY <1>1, KeyVettedAt
<1>3. ASSUME NEW s, Set(p, s), s.op = r.op, s.todo = r.todo,
             s.pc \in {"ownSubs", "listKeys", "zoneDel", "keysDel", "rowsDel"}
      PROVE  KeysVetted'
  <2>1. KeyVetted(s)
    BY <1>1, <1>2, <1>3, AwayFromKeys DEF KeyLabels, Replied
  <2>2. QED
    BY <1>3, <2>1, SetKeyVetted DEF TypeOK, KeyInv
<1>4. ASSUME NEW status \in Replied, Reply(p, status)
      PROVE  KeysVetted'
  BY <1>4, ReplyKeyVetted DEF TypeOK, KeyInv
<1>5. CASE OrphanLookup(p)
  <2>1. ASSUME NEW u, Set(p, [r EXCEPT !.pc = "ownSubs", !.caller = u])
        PROVE  KeysVetted'
    <3> DEFINE s == [r EXCEPT !.pc = "ownSubs", !.caller = u]
    <3>1. s.op = r.op /\ s.todo = r.todo /\ s.pc = "ownSubs"
      BY <1>2 DEF Request
    <3>2. Set(p, s)
      BY <2>1
    <3> HIDE DEF s
    <3>3. QED
      BY <1>3, <3>1, <3>2
  <2>2. QED
    BY <1>4, <1>5, <2>1 DEF OrphanLookup, Replied
<1>6. CASE ListKeys(p)
  <2> DEFINE next == IF allow[r.zone] = {} THEN "zoneDel" ELSE "keysDel"
             s == [r EXCEPT !.snap = allow[r.zone], !.pc = next]
  <2>1. s.op = r.op /\ s.todo = r.todo /\ s.pc \in {"zoneDel", "keysDel"}
    BY <1>2 DEF Request
  <2>2. Set(p, s) \/ Reply(p, "failed")
    BY <1>6 DEF ListKeys
  <2> HIDE DEF s
  <2>3. QED
    BY <1>3, <1>4, <2>1, <2>2 DEF Replied
<1>7. CASE DeleteNextKey(p)
  <2>1. ASSUME NEW u, Set(p, [r EXCEPT !.snap = @ \ {u},
                               !.pc = IF r.snap = {u} THEN "zoneDel" ELSE "keysDel"])
        PROVE  KeysVetted'
    <3> DEFINE s == [r EXCEPT !.snap = @ \ {u},
                       !.pc = IF r.snap = {u} THEN "zoneDel" ELSE "keysDel"]
    <3>1. s.op = r.op /\ s.todo = r.todo /\ s.pc \in {"zoneDel", "keysDel"}
      BY <1>2 DEF Request
    <3>2. Set(p, s)
      BY <2>1
    <3> HIDE DEF s
    <3>3. QED
      BY <1>3, <3>1, <3>2
  <2>2. QED
    BY <1>4, <1>7, <2>1 DEF DeleteNextKey, Replied
<1>8. CASE OwnSubzones(p) \/ DeleteFromDns(p) \/ DeleteRows(p)
  <2>1. \/ Goto(p, "listKeys") \/ Goto(p, "rowsDel")
        \/ \E status \in Replied : Reply(p, status)
    BY <1>8 DEF OwnSubzones, DeleteFromDns, DeleteRows, Replied
  <2>2. QED
    BY <1>1, <1>2, <1>4, <2>1, GotoKeyVetted DEF KeyInv, KeyLabels, Replied
<1>9. QED
  BY <1>5, <1>6, <1>7, <1>8 DEF DeleteStep

-------------------------------------------------------------------------------
(* The steps: the keys *)

\* Fewer keys and shorter lists still follow the policy.
LEMMA FewerKeys ==
  ASSUME KeysFollowPolicy, keys' \subseteq keys,
         \A z \in Zones : allow'[z] \subseteq allow[z]
  PROVE  KeysFollowPolicy'
BY DEF KeysFollowPolicy

LEMMA ZonesDeleteFollows ==
  ASSUME DnsTyped, KeysFollowPolicy, NEW z \in Zones, ZonesDelete(z)
  PROVE  KeysFollowPolicy'
BY FewerKeys DEF ZonesDelete, DnsTyped

\* The pair at one of these labels is one that the policy reaches, by the policy
\* check of a request or as an owner of the zone that is rotated.
LEMMA KeyPairVetted ==
  ASSUME NEW r \in Request, Vetted(r), KeyVetted(r),
         r.pc \in {"keyAdd", "allowRead", "allowAdd"}
  PROVE  PolicyReaches(r.cur[1], r.cur[2])
<1>1. r.op \in {"create", "join", "add", "rotate"}
  BY DEF Vetted, OpsAt
<1>2. CASE r.op = "rotate"
  BY <1>2 DEF KeyVetted, KeyLabels
<1>3. CASE r.op \in {"create", "join", "add"}
  BY <1>3, VettedPairs DEF Vetted, PairVetted, Unvetted, Replied
<1>4. QED
  BY <1>1, <1>2, <1>3

\* Only KeyAdd and AllowAdd add a key, and both for a vetted pair; what AllowAdd
\* and AllowDelete write back of a list they read earlier was vetted then.
LEMMA StepKeysFollow ==
  ASSUME TypeOK, PolicyInv, KeyInv, NEW p \in Procs, Step(p)
  PROVE  KeysFollowPolicy'
<1> DEFINE r == req[p]
<1>1. KeysFollowPolicy /\ DnsTyped
  BY DEF KeyInv, TypeOK
<1>2. CASE UNCHANGED <<keys, allow>>
  BY <1>1, <1>2 DEF KeysFollowPolicy
<1>3. CASE DropKey(p) \/ KeyDelete(p) \/ DeleteNextKey(p)
  BY <1>1, <1>3, FewerKeys DEF DropKey, KeyDelete, DeleteNextKey
<1>4. CASE DropZone(p) \/ DeleteFromDns(p)
  <2>1. r \in Request
    BY <1>4, KeyVettedAt DEF DropZone, DeleteFromDns
  <2>2. r.zone \in Zones
    BY <2>1 DEF Request
  <2>3. QED
    BY <1>1, <1>2, <1>4, <2>2, ZonesDeleteFollows
       DEF DropZone, DeleteFromDns, dnsVars
<1>5. CASE KeyAdd(p)
  <2>1. PolicyReaches(r.cur[1], r.cur[2])
    BY <1>5, KeyVettedAt, KeyPairVetted DEF KeyAdd
  <2>2. QED
    BY <1>1, <1>5, <2>1 DEF KeyAdd, KeysFollowPolicy
<1>6. CASE AllowAdd(p)
  <2>1. /\ r \in Request /\ r.pc = "allowAdd" /\ KeyVetted(r)
        /\ PolicyReaches(r.cur[1], r.cur[2])
    BY <1>6, KeyVettedAt, KeyPairVetted DEF AllowAdd
  <2>2. \A u \in r.snap \cup {r.cur[1]} : PolicyReaches(u, r.cur[2])
    BY <2>1 DEF KeyVetted
  <2>3. UNCHANGED keys
    BY <1>6 DEF AllowAdd
  <2>4. \A z \in Zones : \A u \in allow'[z] : PolicyReaches(u, z)
    BY <1>1, <1>6, <2>2 DEF AllowAdd, KeysFollowPolicy, DnsTyped
  <2>5. QED
    BY <1>1, <2>3, <2>4 DEF KeysFollowPolicy
<1>7. CASE AllowDelete(p)
  <2>1. r \in Request /\ r.pc = "allowDel" /\ KeyVetted(r)
    BY <1>7, KeyVettedAt DEF AllowDelete
  <2>2. \A u \in r.snap \ {r.cur[1]} : PolicyReaches(u, r.cur[2])
    BY <2>1 DEF KeyVetted
  <2>3. UNCHANGED keys
    BY <1>7 DEF AllowDelete
  <2>4. \A z \in Zones : \A u \in allow'[z] : PolicyReaches(u, z)
    BY <1>1, <1>7, <2>2 DEF AllowDelete, KeysFollowPolicy, DnsTyped
  <2>5. QED
    BY <1>1, <2>3, <2>4 DEF KeysFollowPolicy
<1>8. CASE \/ UNCHANGED dnsVars \/ IntermediateAdd(p) \/ DelegationDrop(p)
           \/ DelegationAdd(p) \/ AddZone(p)
  <2>1. UNCHANGED <<keys, allow>>
    BY <1>8 DEF dnsVars, IntermediateAdd, DelegationDrop, DelegationAdd, AddZone,
       ZonesAdd
  <2>2. QED
    BY <1>2, <2>1
<1>9. QED
  BY <1>3, <1>4, <1>5, <1>6, <1>7, <1>8, DnsChanges

\* A stored zone's keys are those of its owners, who followed the policy.
LEMMA InitKeysFollow ==
  ASSUME Init
  PROVE  KeyInv
<1>1. PICK table \in InitTables : InitWith(table)
  BY DEF Init
<1>2. \A k \in KeysFor(table) : PolicyReaches(k[1], k[2])
  BY TablesFollowPolicy DEF KeysFor, Pair
<1>3. KeysFollowPolicy
  BY <1>1, <1>2 DEF InitWith, KeysFollowPolicy
<1>4. KeysVetted
  BY DEF Init, KeysVetted
<1>5. QED
  BY <1>3, <1>4 DEF KeyInv

\* A call that fails takes a rotation at most from one label of a key to the next.
LEMMA CallFailsKeyVetted ==
  ASSUME TypeOK, PolicyInv, KeyInv, NEW p \in Procs, CallFails(p)
  PROVE  KeysVetted'
<1> DEFINE r == req[p]
<1>1. r \in Request /\ r.pc \notin Replied /\ KeysVetted
  BY DEF CallFails, BetweenCalls, TypeOK, RequestsTyped, Idle, KeyInv
<1>2. CASE r.pc \in DOMAIN AfterIgnoredError /\ Goto(p, AfterIgnoredError[r.pc])
  <2>1. /\ AfterIgnoredError[r.pc] \notin {"allowAdd", "allowDel"}
        /\ AfterIgnoredError[r.pc] \in KeyLabels => r.pc \in KeyLabels
    BY <1>2 DEF AfterIgnoredError, KeyLabels
  <2>2. QED
    BY <1>1, <1>2, <2>1, GotoKeyVetted
<1>3. CASE Reply(p, "failed")
  BY <1>1, <1>3, ReplyKeyVetted DEF TypeOK, Replied
<1>4. QED
  BY <1>2, <1>3 DEF CallFails

\* The lists a request read in an earlier step hold nobody beyond the policy, and
\* neither do the stores they are written back to.
THEOREM KeyInvariant == Spec => []KeyInv
<1>1. ASSUME TypeOK, PolicyInv, KeyInv, [Next]_vars
      PROVE  KeyInv'
  <2> USE <1>1
  <2>1. ASSUME UNCHANGED dnsVars
        PROVE  KeysFollowPolicy'
    BY <2>1 DEF dnsVars, KeyInv, KeysFollowPolicy
  <2>2. ASSUME NEW p \in Procs, Receive(p)
        PROVE  KeyInv'
    <3>1. PICK op \in Ops, login \in Logins, caller \in Users, zone \in Zones,
               target \in Users :
            Set(p, Fresh(op, login, caller, zone, target, FirstLabel(op)))
      BY <2>2 DEF Receive
    <3> DEFINE s == Fresh(op, login, caller, zone, target, FirstLabel(op))
    <3>2. s.pc = FirstLabel(op) /\ s.todo = {}
      BY DEF Fresh
    <3>3. Set(p, s)
      BY <3>1
    <3> HIDE DEF s
    <3>4. KeyVetted(s)
      BY <3>2 DEF KeyVetted, KeyLabels, FirstLabel
    <3>5. KeysVetted'
      BY <3>3, <3>4, SetKeyVetted DEF TypeOK, KeyInv
    <3>6. QED
      BY <2>1, <2>2, <3>5 DEF Receive, KeyInv
  <2>3. ASSUME NEW p \in Procs, Step(p)
        PROVE  KeyInv'
    <3>1. ASSUME Respond(p)
          PROVE  KeysVetted'
      BY <3>1, SetKeyVetted DEF Respond, TypeOK, KeyInv
    <3>2. KeysVetted'
      BY <2>3, <3>1, CreateStepKeyVetted, GrantStepKeyVetted,
         RevokeStepKeyVetted, DeleteStepKeyVetted DEF Step
    <3>3. QED
      BY <2>3, <3>2, StepKeysFollow DEF KeyInv
  <2>4. ASSUME NEW p \in Procs, CallFails(p)
        PROVE  KeyInv'
    BY <2>1, <2>4, CallFailsKeyVetted DEF CallFails, KeyInv
  <2>5. CASE Crash
    BY <2>1, <2>5 DEF Crash, KeyInv, KeysVetted
  <2>6. CASE UNCHANGED vars
    BY <2>6 DEF vars, KeyInv, KeysFollowPolicy, KeysVetted
  <2>7. QED
    BY <2>2, <2>3, <2>4, <2>5, <2>6 DEF Next
<1>2. QED
  BY <1>1, InitKeysFollow, TypeCorrect, PolicyInvariant, PTL DEF Spec

\* Nobody ever holds a key, or an entry in a zone's metadata, beyond the reach of
\* the policy: neither a rotation that works on a stale list of owners nor a
\* metadata list that is read, changed elsewhere and written back brings one in.
THEOREM KeysCorrect == Spec => []KeysFollowPolicy
<1>1. KeyInv => KeysFollowPolicy
  BY DEF KeyInv
<1>2. QED
  BY <1>1, KeyInvariant, PTL

\* Whatever a request has still to write to the keys follows the policy.
THEOREM KeysVettedCorrect == Spec => []KeysVetted
<1>1. KeyInv => KeysVetted
  BY DEF KeyInv
<1>2. QED
  BY <1>1, KeyInvariant, PTL

===============================================================================
