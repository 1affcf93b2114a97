-------------------------- MODULE ZoneAgreementProofs --------------------------
(***************************************************************************)
(* As long as requests come one at a time, what they answer is true, and   *)
(* as long as none of their calls fails, the zone table, the keys and the  *)
(* metadata agree: for every set of users, zones and rules.                *)
(***************************************************************************)
EXTENDS ZoneOwnershipProofs, ZoneAgreement

-------------------------------------------------------------------------------
(* The request in flight, and where a step takes it *)

\* What the other theorems and the invariant to prove say of a state.
Standing == TypeOK /\ PolicyInv /\ AloneInv /\ CourseInv

\* The stores agree as far as the request of `p` lets them.
Agreed(p) == OthersAgree(req[p]) /\ Agrees(req[p])

LEMMA StandingAt ==
  ASSUME NEW p, Procs = {p}, Standing, NEW pc, At(p, pc), pc # "idle"
  PROVE  /\ RequestsTyped /\ OneRowEach /\ req[p] \in Request
         /\ req[p].pc = pc /\ Vetted(req[p]) /\ RowChecked(req[p])
         /\ OnCourse(req[p])
<1>1. /\ RequestsTyped /\ OneRowEach /\ req[p] \in Request
      /\ req[p].pc = pc /\ Vetted(req[p]) /\ RowChecked(req[p])
  BY CheckedAt DEF Standing
<1>2. OnCourse(req[p])
  BY <1>1 DEF Standing, CourseInv, Request, Idle
<1>3. QED
  BY <1>1, <1>2

LEMMA MainPairIs ==
  ASSUME NEW r
  PROVE  MainPair(r) =
           <<IF r.op \in {"create", "join"} THEN r.caller ELSE r.target, r.zone>>
BY DEF MainPair, Fresh

LEMMA SamePair ==
  ASSUME NEW r, NEW s, Same(r, s)
  PROVE  MainPair(s) = MainPair(r)
BY DEF MainPair, Fresh, Same

\* The request `s` is `r` at another label, ...
Moved(r, s, pc) ==
  /\ Same(r, s) /\ s.pc = pc /\ s.at = r.at /\ s.chain = r.chain
  /\ s.cur = r.cur /\ s.todo = r.todo /\ s.snap = r.snap

\* ... or answered, ...
Answered(r, s, status) ==
  /\ Same(r, s) /\ s.pc = status
  /\ s.cur = MainPair(r) /\ s.todo = {} /\ s.snap = {} /\ s.chain = {}

\* ... or at another zone.
Placed(r, s, z, pc) ==
  /\ Same(r, s) /\ s.pc = pc /\ s.at = z /\ s.chain = r.chain
  /\ s.cur = r.cur /\ s.todo = r.todo /\ s.snap = r.snap

\* ... or turned to the next pair of a loop.
Turned(r, s, t, pc) ==
  /\ Same(r, s) /\ s.pc = pc /\ s.at = r.at /\ s.chain = r.chain
  /\ s.cur = t /\ s.todo = r.todo \ {t} /\ s.snap = r.snap

LEMMA GotoMoves ==
  ASSUME RequestsTyped, NEW p \in Procs, req[p] \in Request, NEW pc, Goto(p, pc)
  PROVE  Moved(req[p], req'[p], pc)
BY DEF Goto, Set, RequestsTyped, Request, Moved, Same

LEMMA ReplyAnswers ==
  ASSUME RequestsTyped, NEW p \in Procs, req[p] \in Request, NEW status,
         Reply(p, status)
  PROVE  Answered(req[p], req'[p], status)
<1> DEFINE r == req[p]
           s == Fresh(r.op, r.login, r.caller, r.zone, r.target, status)
<1>1. Answered(r, s, status)
  BY DEF Answered, Fresh, MainPair, Same
<1>2. req'[p] = s
  BY DEF Reply, Set, RequestsTyped
<1>3. QED
  BY <1>1, <1>2

LEMMA PlaceMoves ==
  ASSUME RequestsTyped, NEW p \in Procs, req[p] \in Request, NEW z, NEW pc,
         Set(p, [req[p] EXCEPT !.pc = pc, !.at = z])
  PROVE  Placed(req[p], req'[p], z, pc)
BY DEF Set, RequestsTyped, Request, Placed, Same

LEMMA VisitTurns ==
  ASSUME RequestsTyped, NEW p \in Procs, req[p] \in Request, NEW t, NEW pc,
         Set(p, [Visit(req[p], t) EXCEPT !.pc = pc])
  PROVE  Turned(req[p], req'[p], t, pc)
BY DEF Set, Visit, RequestsTyped, Request, Turned, Same

-------------------------------------------------------------------------------
(* Steps that stay on course, and keep the stores in agreement *)

\* An answer that reports no success says nothing.
LEMMA RefusedOnCourse ==
  ASSUME NEW p, NEW status \in {"refused", "failed"},
         Answered(req[p], req'[p], status)
  PROVE  OnCourse(req[p])'
<1>1. /\ Same(req[p], req'[p]) /\ req'[p].pc = status /\ req'[p].todo = {}
      /\ req'[p].cur = MainPair(req[p])
  BY DEF Answered
<1>2. MainPair(req[p])' = req'[p].cur
  BY <1>1 DEF MainPair, Fresh, Same
<1>3. req'[p].op = "remove" => req'[p].cur[1] = req'[p].target
  BY <1>1 DEF MainPair, Fresh, Same
<1>4. Focused(req[p])' /\ CreationOnCourse(req[p])' /\ DelegationOnCourse(req[p])'
  BY <1>1 DEF Focused, Early, CreationOnCourse, DelegationOnCourse,
     EnsureLabels, KeyLabels
<1>5. GrantOnCourse(req[p])' /\ RotationOnCourse(req[p])' /\ DeletionOnCourse(req[p])'
  BY <1>1 DEF GrantOnCourse, RotationOnCourse, DeletionOnCourse, KeyLabels
<1>6. RemovalOnCourse(req[p])'
  BY <1>1, <1>3 DEF RemovalOnCourse, KeyLabels
<1>7. QED
  BY <1>4, <1>5, <1>6 DEF OnCourse

\* The labels at which no pair is at work, ...
Calm(r) == ~ Halfway(r) /\ r.pc \notin DeletionLabels

\* ... so that the stores agree about all of them.
AllAgree ==
  /\ \A k \in Pair : Settled(k)
  /\ \A z \in Zones : ZoneExists(z) => z \in pdns

LEMMA CalmSettled ==
  ASSUME NEW r, Calm(r), OthersAgree(r)
  PROVE  AllAgree
<1>1. Unsettled(r) = {} /\ r.pc # "rowsDel"
  BY DEF Calm, Unsettled, DeletionLabels
<1>2. QED
  BY <1>1 DEF OthersAgree, AllAgree

LEMMA CalmAgreed ==
  ASSUME NEW p, AllAgree', Calm(req[p])', Found(req[p])', req'[p].pc # "failed"
  PROVE  Agreed(p)'
<1>1. OthersAgree(req[p])'
  BY DEF AllAgree, OthersAgree
<1>2. PairAtWork(req[p])' /\ ZoneAtWork(req[p])'
  BY DEF Calm, PairAtWork, ZoneAtWork
<1>3. QED
  BY <1>1, <1>2 DEF Agreed, Agrees

\* A step from one such label to another that writes to no store.
LEMMA QuietAgreed ==
  ASSUME NEW p, Calm(req[p]), OthersAgree(req[p]), UNCHANGED <<rows, pdns, keys, allow>>,
         Calm(req[p])', Found(req[p])', req'[p].pc # "failed"
  PROVE  Agreed(p)'
<1>1. AllAgree
  BY CalmSettled
<1>2. AllAgree'
  BY <1>1 DEF AllAgree, Settled, Owns, IsZoneOwner, ListZoneOwners, ZoneExists
<1>3. QED
  BY <1>2, CalmAgreed

\* A refusal from such a label leaves everything as it is.
LEMMA RefusedAgreed ==
  ASSUME NEW p, NEW status \in {"ok", "refused"},
         Answered(req[p], req'[p], status),
         UNCHANGED <<rows, pdns, keys, allow>>, Calm(req[p]), Agreed(p)
  PROVE  Agreed(p)'
<1>1. Calm(req[p])' /\ Found(req[p])'
  BY DEF Answered, Calm, Halfway, KeyLabels, DeletionLabels, Found
<1>2. QED
  BY <1>1, QuietAgreed DEF Agreed, Answered

-------------------------------------------------------------------------------
(* The steps of a creation *)

LEMMA DefinitionSoa ==
  ASSUME NEW z \in Zones, NEW u \in Users, NEW d \in ZoneDefinitions(z, u)
  PROVE  d.soa = z => z \in OwnSoa
<1>1. CASE ExactMatches(z, u) # {}
  <2>1. d \in PolicyGetUserZones(u) /\ d.zone = z
    BY <1>1 DEF ZoneDefinitions, ExactMatches
  <2>2. QED
    BY <2>1 DEF OwnSoa
<1>2. CASE ExactMatches(z, u) = {}
  <2>1. PICK e \in SubzoneParents(z, u) :
          d = [zone |-> z, soa |-> e.zone, sub |-> TRUE, share |-> e.share]
    BY <1>2, Zenon DEF ZoneDefinitions
  <2>2. d.soa = e.zone
    BY <2>1
  <2>3. QED
    BY <2>2, BelowAssumption DEF SubzoneParents
<1>3. QED
  BY <1>1, <1>2

LEMMA EnsuringMoves ==
  ASSUME RequestsTyped, NEW p \in Procs, req[p] \in Request, NEW chain,
         NEW s \in Ensuring(req[p], chain), Set(p, s)
  PROVE  /\ Same(req[p], req'[p])
         /\ req'[p].cur = req[p].cur /\ req'[p].todo = req[p].todo
         /\ \/ chain = {} /\ req'[p].pc = "dropZone"
            \/ /\ req'[p].pc = "interGet"
               /\ req'[p].chain = chain /\ req'[p].at \in chain
<1>1. req'[p] = s
  BY DEF Set, RequestsTyped
<1>2. CASE chain = {}
  BY <1>1, <1>2 DEF Ensuring, Request, Same
<1>3. CASE chain # {}
  BY <1>1, <1>3 DEF Ensuring, Request, Same
<1>4. QED
  BY <1>2, <1>3

\* What is known of a creation at one of its labels.
LEMMA CreationAt ==
  ASSUME NEW p, Procs = {p}, Standing,
         NEW pc \in Early \cup {"fetch", "parentOwners"}, At(p, pc),
         pc \in {"exists", "isOwner", "shareCheck", "targetOwner"} =>
           req[p].op = "create"
  PROVE  /\ RequestsTyped /\ req[p] \in Request /\ req[p].pc = pc
         /\ Vetted(req[p]) /\ RowChecked(req[p]) /\ OnCourse(req[p])
         /\ req[p].op = "create"
         /\ MainPair(req[p]) = <<req[p].caller, req[p].zone>>
         /\ pc # "fetch" => Calm(req[p])
         /\ pc \in Early => req[p].cur = MainPair(req[p])
<1>1. /\ RequestsTyped /\ req[p] \in Request /\ req[p].pc = pc
      /\ Vetted(req[p]) /\ RowChecked(req[p]) /\ OnCourse(req[p])
  BY StandingAt DEF Early
<1>2. req[p].op = "create"
  BY <1>1 DEF Vetted, OpsAt, Early
<1>3. pc # "fetch" => Calm(req[p])
  BY <1>1 DEF Calm, Halfway, KeyLabels, DeletionLabels, Early
<1>4. pc \in Early => req[p].cur = MainPair(req[p])
  BY <1>1 DEF OnCourse, Focused
<1>5. QED
  BY <1>1, <1>2, <1>3, <1>4, MainPairIs

LEMMA CreationStays ==
  ASSUME NEW p, Same(req[p], req'[p]), req[p].op = "create",
         Focused(req[p])', CreationOnCourse(req[p])', DelegationOnCourse(req[p])',
         req'[p].pc # "rowsDel"
  PROVE  OnCourse(req[p])'
BY DEF Same, OnCourse, GrantOnCourse, RemovalOnCourse, RotationOnCourse,
   DeletionOnCourse

\* Before its key, a creation relies on nothing but its delegations.
LEMMA EarlyStays ==
  ASSUME NEW p, Same(req[p], req'[p]), req[p].op = "create",
         req'[p].cur = req[p].cur, req[p].cur = MainPair(req[p]),
         req'[p].pc \in (Early \cup {"keyAdd"}) \ {"parent", "shareCheck"},
         DelegationOnCourse(req[p])'
  PROVE  OnCourse(req[p])'
<1>1. MainPair(req[p])' = req'[p].cur
  BY DEF MainPair, Fresh, Same
<1>2. Focused(req[p])'
  BY <1>1 DEF Focused, Early
<1>3. CreationOnCourse(req[p])'
  BY <1>1 DEF CreationOnCourse, Early
<1>4. QED
  BY <1>2, <1>3, CreationStays DEF Early

\* A creation between two labels where no pair is at work.
LEMMA CreationQuiet ==
  ASSUME NEW p, Same(req[p], req'[p]), req[p].op = "create",
         req'[p].cur = req[p].cur, req'[p].todo = req[p].todo,
         req[p].pc \in Early \cup {"parentOwners"},
         req'[p].pc \in Early \cup {"parentOwners"},
         UNCHANGED <<rows, pdns, keys, allow>>,
         req'[p].pc = "interAdd" => req'[p].at \notin pdns,
         req'[p].pc \in {"nsDrop", "nsAdd"} => req'[p].at \in pdns,
         req'[p].pc \in {"dropKey", "addZone"} => req'[p].zone \notin pdns,
         req'[p].pc \in {"parent", "shareCheck", "parentOwners", "targetOwner"} =>
           ZoneExists(req[p].zone),
         Agreed(p)
  PROVE  Agreed(p)'
<1>1. Calm(req[p]) /\ OthersAgree(req[p]) /\ Found(req[p])
  BY DEF Agreed, Agrees, Calm, Halfway, KeyLabels, DeletionLabels, Early
<1>2. Calm(req[p])'
  BY DEF Calm, Halfway, KeyLabels, DeletionLabels, Early
<1>3. \A z : ZoneExists(z)' <=> ZoneExists(z)
  BY DEF ZoneExists
<1>4. Found(req[p])'
  BY <1>1, <1>3 DEF Found, Same, Early, ZoneExists
<1>5. QED
  BY <1>1, <1>2, <1>4, QuietAgreed DEF Early

LEMMA AuthorizeStays ==
  ASSUME NEW p, Procs = {p}, Standing, Authorize(p)
  PROVE  OnCourse(req[p])' /\ (Agreed(p) => Agreed(p)')
<1> DEFINE r == req[p]
<1>1. /\ RequestsTyped /\ r \in Request /\ r.pc = "authorize"
      /\ OnCourse(r) /\ r.op = "create" /\ r.cur = MainPair(r) /\ Calm(r)
  <2>1. At(p, "authorize")
    BY DEF Authorize
  <2>2. QED
    BY <2>1, CreationAt DEF Early
<1>2. UNCHANGED <<rows, pdns, keys, allow>>
  BY DEF Authorize, dnsVars
<1>3. CASE Reply(p, "refused")
  <2>1. Answered(r, req'[p], "refused")
    BY <1>1, <1>3, ReplyAnswers
  <2>2. Agreed(p) => Agreed(p)'
    BY <1>1, <1>2, <2>1, RefusedAgreed
  <2>3. QED
    BY <2>1, <2>2, RefusedOnCourse
<1>4. ASSUME NEW z, NEW pc \in {"exists", "parentDef"},
             Set(p, [r EXCEPT !.pc = pc, !.at = z]),
             pc = "exists" /\ z = r.zone => z \in OwnSoa
      PROVE  OnCourse(req[p])' /\ (Agreed(p) => Agreed(p)')
  <2>1. Placed(r, req'[p], z, pc)
    BY <1>1, <1>4, PlaceMoves
  <2>2. DelegationOnCourse(req[p])'
    BY <1>4, <2>1 DEF DelegationOnCourse, Placed, Same, EnsureLabels
  <2>3. OnCourse(req[p])'
    BY <1>1, <2>1, <2>2, EarlyStays DEF Placed, Early
  <2>4. Agreed(p) => Agreed(p)'
    BY <1>1, <1>2, <2>1, CreationQuiet DEF Placed, Early
  <2>5. QED
    BY <2>3, <2>4
<1>5. ASSUME NEW d \in CallerDefinitions(r),
             Set(p, [r EXCEPT !.pc = "exists", !.at = d.soa])
      PROVE  OnCourse(req[p])' /\ (Agreed(p) => Agreed(p)')
  <2>1. PICK v \in Users : r.zone \in Zones /\ d \in ZoneDefinitions(r.zone, v)
    BY <1>1, CallerDefined DEF Request
  <2>2. d.soa = r.zone => r.zone \in OwnSoa
    BY <2>1, DefinitionSoa
  <2>3. PICK z : z = d.soa /\ Set(p, [r EXCEPT !.pc = "exists", !.at = z])
    BY <1>5
  <2>4. QED
    BY <1>4, <2>2, <2>3
<1>6. QED
  BY <1>3, <1>4, <1>5 DEF Authorize

LEMMA ParentDefinitionStays ==
  ASSUME NEW p, Procs = {p}, Standing, ParentDefinition(p)
  PROVE  OnCourse(req[p])' /\ (Agreed(p) => Agreed(p)')
<1> DEFINE r == req[p]
<1>1. /\ RequestsTyped /\ r \in Request /\ r.pc = "parentDef" /\ Vetted(r)
      /\ OnCourse(r) /\ r.op = "create" /\ r.cur = MainPair(r) /\ Calm(r)
  BY CreationAt DEF ParentDefinition, Early
<1>2. UNCHANGED <<rows, pdns, keys, allow>>
  BY DEF ParentDefinition, dnsVars
<1>3. r.at # r.zone
  BY <1>1, BelowAssumption DEF Vetted, ParentVetted, Request
<1>4. CASE Reply(p, "refused")
  <2>1. Answered(r, req'[p], "refused")
    BY <1>1, <1>4, ReplyAnswers
  <2>2. Agreed(p) => Agreed(p)'
    BY <1>1, <1>2, <2>1, RefusedAgreed
  <2>3. QED
    BY <2>1, <2>2, RefusedOnCourse
<1>5. CASE Goto(p, "exists")
  <2>1. Moved(r, req'[p], "exists")
    BY <1>1, <1>5, GotoMoves
  <2>2. DelegationOnCourse(req[p])'
    BY <1>3, <2>1 DEF DelegationOnCourse, Moved, Same, EnsureLabels
  <2>3. OnCourse(req[p])'
    BY <1>1, <2>1, <2>2, EarlyStays DEF Moved, Early
  <2>4. Agreed(p) => Agreed(p)'
    BY <1>1, <1>2, <2>1, CreationQuiet DEF Moved, Early
  <2>5. QED
    BY <2>3, <2>4
<1>6. QED
  BY <1>4, <1>5 DEF ParentDefinition

\* A creation goes on to the next intermediate zone, or is done with them.
LEMMA EnsuringStays ==
  ASSUME NEW p \in Procs, RequestsTyped, req[p] \in Request, req[p].op = "create",
         req[p].cur = MainPair(req[p]), req[p].pc \in Early,
         NEW chain, NEW s \in Ensuring(req[p], chain), Set(p, s),
         UNCHANGED <<rows, pdns, keys, allow>>,
         \A w \in Zones : RightAbove(w, req[p].zone) =>
           <<w, req[p].zone>> \in deleg' \/ w \in chain
  PROVE  OnCourse(req[p])' /\ (Agreed(p) => Agreed(p)')
<1> DEFINE r == req[p]
<1>1. /\ Same(r, req'[p]) /\ req'[p].cur = r.cur /\ req'[p].todo = r.todo
      /\ \/ chain = {} /\ req'[p].pc = "dropZone"
         \/ /\ req'[p].pc = "interGet"
            /\ req'[p].chain = chain /\ req'[p].at \in chain
  BY EnsuringMoves
<1>2. DelegationOnCourse(req[p])'
  <2>1. \A w \in Zones : RightAbove(w, r.zone) <=> RightAbove(w, req'[p].zone)
    BY <1>1 DEF Same
  <2>2. QED
    BY <1>1, <2>1 DEF DelegationOnCourse, RightAbove, Same, EnsureLabels
<1>3. OnCourse(req[p])'
  BY <1>1, <1>2, EarlyStays DEF Early
<1>4. Agreed(p) => Agreed(p)'
  BY <1>1, CreationQuiet DEF Early
<1>5. QED
  BY <1>3, <1>4

LEMMA CreateExistsStays ==
  ASSUME NEW p, Procs = {p}, Standing, CreateExists(p)
  PROVE  OnCourse(req[p])' /\ (Agreed(p) => Agreed(p)')
<1> DEFINE r == req[p]
<1>1. /\ RequestsTyped /\ r \in Request /\ r.pc = "exists"
      /\ OnCourse(r) /\ r.op = "create" /\ r.cur = MainPair(r) /\ Calm(r)
  <2>1. At(p, "exists") /\ r.op = "create"
    BY DEF CreateExists
  <2>2. QED
    BY <2>1, CreationAt DEF Early
<1>2. UNCHANGED <<rows, pdns, keys, allow>> /\ UNCHANGED deleg
  BY DEF CreateExists, dnsVars
<1>3. CASE Reply(p, "refused")
  <2>1. Answered(r, req'[p], "refused")
    BY <1>1, <1>3, ReplyAnswers
  <2>2. Agreed(p) => Agreed(p)'
    BY <1>1, <1>2, <2>1, RefusedAgreed
  <2>3. QED
    BY <2>1, <2>2, RefusedOnCourse
<1>4. CASE /\ AtOrBelow(r.zone, r.at)
           /\ \E s \in Ensuring(r, Intermediates(r.zone, r.at)) : Set(p, s)
  <2>1. ASSUME NEW w \in Zones, RightAbove(w, r.zone)
        PROVE  w \in Intermediates(r.zone, r.at)
    <3>1. <<r.zone, w>> \in Below /\ r.zone \in Zones /\ r.at \in Zones
      BY <1>1, <2>1 DEF RightAbove, Request
    <3>2. <<r.zone, r.at>> \in Below
      BY <1>1, <1>4, <2>1, <3>1 DEF OnCourse, DelegationOnCourse, AtOrBelow, RightAbove
    <3>3. <<r.at, w>> \notin Below
      BY <2>1, <3>1, <3>2 DEF RightAbove, ChildToward
    <3>4. w = r.at \/ <<w, r.at>> \in Below
      BY <3>1, <3>2, <3>3, BelowAssumption
    <3>5. QED
      BY <3>1, <3>4 DEF Intermediates, AtOrBelow
  <2>2. PICK s \in Ensuring(r, Intermediates(r.zone, r.at)) : Set(p, s)
    BY <1>4
  <2>3. QED
    BY <1>1, <1>2, <2>1, <2>2, EnsuringStays DEF Early
<1>5. QED
  BY <1>3, <1>4 DEF CreateExists

LEMMA IntermediateGetStays ==
  ASSUME NEW p, Procs = {p}, Standing, IntermediateGet(p)
  PROVE  OnCourse(req[p])' /\ (Agreed(p) => Agreed(p)')
<1> DEFINE r == req[p]
<1>1. /\ RequestsTyped /\ r \in Request /\ r.pc = "interGet"
      /\ OnCourse(r) /\ r.op = "create" /\ r.cur = MainPair(r)
  <2>1. At(p, "interGet")
    BY DEF IntermediateGet
  <2>2. QED
    BY <2>1, CreationAt DEF Early
<1>2. UNCHANGED <<rows, pdns, keys, allow>> /\ UNCHANGED deleg
  BY DEF IntermediateGet, dnsVars
<1>3. PICK pc \in {"nsDrop", "interAdd"} :
        Moved(r, req'[p], pc) /\ (r.at \in pdns <=> pc = "nsDrop")
  BY <1>1, GotoMoves DEF IntermediateGet
<1>4. DelegationOnCourse(req[p])'
  BY <1>1, <1>2, <1>3 DEF OnCourse, DelegationOnCourse, Moved, Same, EnsureLabels
<1>5. OnCourse(req[p])'
  BY <1>1, <1>3, <1>4, EarlyStays DEF Moved, Early
<1>6. Agreed(p) => Agreed(p)'
  BY <1>1, <1>2, <1>3, CreationQuiet DEF Moved, Early
<1>7. QED
  BY <1>5, <1>6

LEMMA IntermediateAddStays ==
  ASSUME NEW p, Procs = {p}, Standing, IntermediateAdd(p)
  PROVE  OnCourse(req[p])' /\ (Agreed(p) => Agreed(p)')
<1> DEFINE r == req[p]
<1>1. /\ RequestsTyped /\ r \in Request /\ r.pc = "interAdd" /\ Calm(r)
      /\ OnCourse(r) /\ r.op = "create" /\ r.cur = MainPair(r)
  <2>1. At(p, "interAdd")
    BY DEF IntermediateAdd
  <2>2. QED
    BY <2>1, CreationAt DEF Early
<1>2. CASE r.at \in pdns /\ Reply(p, "failed")
  <2>1. Answered(r, req'[p], "failed")
    BY <1>1, <1>2, ReplyAnswers
  <2>2. ~ Agreed(p)
    BY <1>1, <1>2 DEF Agreed, Agrees, Found
  <2>3. QED
    BY <2>1, <2>2, RefusedOnCourse
<1>3. CASE Goto(p, "nsDrop") /\ ZonesAdd(r.at)
  <2>1. Moved(r, req'[p], "nsDrop")
    BY <1>1, <1>3, GotoMoves
  <2>2. /\ pdns' = pdns \cup {r.at} /\ UNCHANGED <<rows, keys, allow>>
        /\ UNCHANGED deleg
    BY <1>3 DEF IntermediateAdd, ZonesAdd
  <2>3. DelegationOnCourse(req[p])'
    BY <1>1, <2>1, <2>2
       DEF OnCourse, DelegationOnCourse, Moved, Same, EnsureLabels
  <2>4. OnCourse(req[p])'
    BY <1>1, <2>1, <2>3, EarlyStays DEF Moved, Early
  <2>5. ASSUME Agreed(p)
        PROVE  Agreed(p)'
    <3>1. AllAgree /\ Found(r)
      BY <1>1, <2>5, CalmSettled DEF Agreed, Agrees
    <3>2. AllAgree'
      BY <2>2, <3>1 DEF AllAgree, Settled, Owns, IsZoneOwner, ListZoneOwners,
         ZoneExists
    <3>3. Calm(req[p])' /\ Found(req[p])'
      BY <1>1, <2>1, <2>2, <3>1
         DEF Calm, Halfway, KeyLabels, DeletionLabels, Found, Moved, Same, ZoneExists
    <3>4. QED
      BY <2>1, <3>2, <3>3, CalmAgreed DEF Moved
  <2>6. QED
    BY <2>4, <2>5
<1>4. QED
  BY <1>2, <1>3 DEF IntermediateAdd

\* Writing the delegations of one zone: nothing else relies on them.
LEMMA DelegationDropStays ==
  ASSUME NEW p, Procs = {p}, Standing, DelegationDrop(p)
  PROVE  OnCourse(req[p])' /\ (Agreed(p) => Agreed(p)')
<1> DEFINE r == req[p]
<1>1. /\ RequestsTyped /\ r \in Request /\ r.pc = "nsDrop"
      /\ OnCourse(r) /\ r.op = "create" /\ r.cur = MainPair(r)
  <2>1. At(p, "nsDrop")
    BY DEF DelegationDrop
  <2>2. QED
    BY <2>1, CreationAt DEF Early
<1>2. /\ UNCHANGED <<rows, pdns, keys, allow>>
      /\ deleg' = deleg \ ({r.at} \X ChildToward(r.at, r.zone))
  BY DEF DelegationDrop
<1>3. Moved(r, req'[p], "nsAdd")
  BY <1>1, GotoMoves DEF DelegationDrop
<1>4. DelegationOnCourse(r)
  BY <1>1 DEF OnCourse
<1>5. \A w : w # r.at => (<<w, r.zone>> \in deleg' <=> <<w, r.zone>> \in deleg)
  BY <1>2
<1>6. DelegationOnCourse(req[p])'
  BY <1>1, <1>3, <1>4, <1>5 DEF DelegationOnCourse, Moved, Same, EnsureLabels
<1>7. OnCourse(req[p])'
  BY <1>1, <1>3, <1>6, EarlyStays DEF Moved, Early
<1>8. ASSUME Agreed(p)
      PROVE  Agreed(p)'
  <2>1. r.at \in pdns
    BY <1>1, <1>8 DEF Agreed, Agrees, Found
  <2>2. QED
    BY <1>1, <1>2, <1>3, <1>8, <2>1, CreationQuiet DEF Moved, Early
<1>9. QED
  BY <1>7, <1>8

LEMMA DelegationAddStays ==
  ASSUME NEW p, Procs = {p}, Standing, DelegationAdd(p)
  PROVE  OnCourse(req[p])' /\ (Agreed(p) => Agreed(p)')
<1> DEFINE r == req[p]
<1>1. /\ RequestsTyped /\ r \in Request /\ r.pc = "nsAdd"
      /\ OnCourse(r) /\ r.op = "create" /\ r.cur = MainPair(r)
  <2>1. At(p, "nsAdd")
    BY DEF DelegationAdd
  <2>2. QED
    BY <2>1, CreationAt DEF Early
<1>2. UNCHANGED <<rows, pdns, keys, allow>>
  BY DEF DelegationAdd
<1>3. CASE r.at \notin pdns /\ Reply(p, "failed")
  <2>1. Answered(r, req'[p], "failed")
    BY <1>1, <1>3, ReplyAnswers
  <2>2. ~ Agreed(p)
    BY <1>1, <1>3 DEF Agreed, Agrees, Found
  <2>3. QED
    BY <2>1, <2>2, RefusedOnCourse
<1>4. ASSUME NEW s \in Ensuring(r, r.chain \ {r.at}), Set(p, s),
             deleg' = deleg \cup ({r.at} \X ChildToward(r.at, r.zone))
      PROVE  OnCourse(req[p])' /\ (Agreed(p) => Agreed(p)')
  <2>1. DelegationOnCourse(r)
    BY <1>1 DEF OnCourse
  <2>2. ASSUME NEW w \in Zones, RightAbove(w, r.zone)
        PROVE  <<w, r.zone>> \in deleg' \/ w \in r.chain \ {r.at}
    <3>1. <<w, r.zone>> \in deleg \/ w \in r.chain
      BY <1>1, <2>1, <2>2 DEF DelegationOnCourse
    <3>2. w = r.at => <<w, r.zone>> \in deleg'
      BY <1>4, <2>2 DEF RightAbove
    <3>3. QED
      BY <1>4, <3>1, <3>2
  <2>3. QED
    BY <1>1, <1>2, <1>4, <2>2, EnsuringStays DEF Early
<1>5. QED
  BY <1>3, <1>4 DEF DelegationAdd

\* The creator of a zone that does not exist has nothing on it.
LEMMA DropZoneStays ==
  ASSUME NEW p, Procs = {p}, Standing, DropZone(p)
  PROVE  OnCourse(req[p])' /\ (Agreed(p) => Agreed(p)')
<1> DEFINE r == req[p]
<1>1. /\ RequestsTyped /\ r \in Request /\ r.pc = "dropZone" /\ RowChecked(r)
      /\ OnCourse(r) /\ r.op = "create" /\ r.cur = MainPair(r) /\ Calm(r)
  <2>1. At(p, "dropZone")
    BY DEF DropZone
  <2>2. QED
    BY <2>1, CreationAt DEF Early
<1>2. /\ UNCHANGED rows /\ UNCHANGED keys /\ pdns' = pdns \ {r.zone}
      /\ allow' = [allow EXCEPT ![r.zone] = {}]
      /\ deleg' = {d \in deleg : d[1] # r.zone}
  BY DEF DropZone, ZonesDelete
<1>3. Moved(r, req'[p], "dropKey")
  BY <1>1, GotoMoves DEF DropZone
<1>4. DelegationOnCourse(r)
  BY <1>1 DEF OnCourse
<1>5. ASSUME NEW w, RightAbove(w, r.zone)
      PROVE  <<w, r.zone>> \in deleg' <=> <<w, r.zone>> \in deleg
  <2>1. w # r.zone
    BY <1>1, <1>5, BelowAssumption DEF RightAbove, Request
  <2>2. QED
    BY <1>2, <2>1
<1>6. DelegationOnCourse(req[p])'
  BY <1>1, <1>3, <1>4, <1>5
     DEF DelegationOnCourse, Moved, Same, EnsureLabels, RightAbove
<1>7. OnCourse(req[p])'
  BY <1>1, <1>3, <1>6, EarlyStays DEF Moved, Early
<1>8. ASSUME Agreed(p)
      PROVE  Agreed(p)'
  <2>1. AllAgree /\ Found(r)
    BY <1>1, <1>8, CalmSettled DEF Agreed, Agrees
  <2>2. ~ ZoneExists(r.zone)
    BY <1>1 DEF RowChecked, Creating
  <2>3. \A z \in Zones : allow'[z] = IF z = r.zone THEN {} ELSE allow[z]
    BY <1>2 DEF Standing, TypeOK, DnsTyped
  <2>4. \A k \in Pair : k[2] = r.zone => ~ Owns(k)
    BY <2>2 DEF Owns, IsZoneOwner, ListZoneOwners, ZoneExists
  <2>5. ASSUME NEW k \in Pair
        PROVE  Settled(k)'
    <3>1. Owns(k)' <=> Owns(k)
      BY <1>2 DEF Owns, IsZoneOwner, ListZoneOwners
    <3>2. Settled(k) /\ k[2] \in Zones
      BY <2>1, <2>5 DEF AllAgree, Pair
    <3>3. QED
      BY <1>2, <2>3, <2>4, <3>1, <3>2 DEF Settled
  <2>6. AllAgree'
    BY <1>2, <2>1, <2>2, <2>5 DEF AllAgree, ZoneExists
  <2>7. Calm(req[p])' /\ Found(req[p])'
    BY <1>1, <1>2, <1>3, <2>1
       DEF Calm, Halfway, KeyLabels, DeletionLabels, Found, Moved, Same, ZoneExists
  <2>8. QED
    BY <1>3, <2>6, <2>7, CalmAgreed DEF Moved
<1>9. QED
  BY <1>7, <1>8

LEMMA DropKeyStays ==
  ASSUME NEW p, Procs = {p}, Standing, DropKey(p)
  PROVE  OnCourse(req[p])' /\ (Agreed(p) => Agreed(p)')
<1> DEFINE r == req[p]
<1>1. /\ RequestsTyped /\ r \in Request /\ r.pc = "dropKey" /\ RowChecked(r)
      /\ OnCourse(r) /\ r.op = "create" /\ r.cur = MainPair(r) /\ Calm(r)
      /\ MainPair(r) = <<r.caller, r.zone>>
  <2>1. At(p, "dropKey")
    BY DEF DropKey
  <2>2. QED
    BY <2>1, CreationAt DEF Early
<1>2. UNCHANGED <<rows, pdns, allow, deleg>> /\ keys' = keys \ {r.cur}
  BY <1>1 DEF DropKey
<1>3. Moved(r, req'[p], "addZone")
  BY <1>1, GotoMoves DEF DropKey
<1>4. DelegationOnCourse(req[p])'
  BY <1>1, <1>2, <1>3 DEF OnCourse, DelegationOnCourse, Moved, Same, EnsureLabels
<1>5. OnCourse(req[p])'
  BY <1>1, <1>3, <1>4, EarlyStays DEF Moved, Early
<1>6. ASSUME Agreed(p)
      PROVE  Agreed(p)'
  <2>1. AllAgree /\ Found(r)
    BY <1>1, <1>6, CalmSettled DEF Agreed, Agrees
  <2>2. ~ Owns(r.cur)
    BY <1>1 DEF RowChecked, Creating, Owns, IsZoneOwner, ListZoneOwners, ZoneExists
  <2>3. AllAgree'
    BY <1>2, <2>1, <2>2 DEF AllAgree, Settled, Owns, IsZoneOwner, ListZoneOwners,
       ZoneExists
  <2>4. Calm(req[p])' /\ Found(req[p])'
    BY <1>1, <1>2, <1>3, <2>1
       DEF Calm, Halfway, KeyLabels, DeletionLabels, Found, Moved, Same, ZoneExists
  <2>5. QED
    BY <1>3, <2>3, <2>4, CalmAgreed DEF Moved
<1>7. QED
  BY <1>5, <1>6

LEMMA AddZoneStays ==
  ASSUME NEW p, Procs = {p}, Standing, AddZone(p)
  PROVE  OnCourse(req[p])' /\ (Agreed(p) => Agreed(p)')
<1> DEFINE r == req[p]
<1>1. /\ RequestsTyped /\ r \in Request /\ r.pc = "addZone" /\ RowChecked(r)
      /\ OnCourse(r) /\ r.op = "create" /\ r.cur = MainPair(r) /\ Calm(r)
      /\ MainPair(r) = <<r.caller, r.zone>>
  <2>1. At(p, "addZone")
    BY DEF AddZone
  <2>2. QED
    BY <2>1, CreationAt DEF Early
<1>2. CASE r.zone \in pdns /\ Reply(p, "failed")
  <2>1. Answered(r, req'[p], "failed")
    BY <1>1, <1>2, ReplyAnswers
  <2>2. ~ Agreed(p)
    BY <1>1, <1>2 DEF Agreed, Agrees, Found
  <2>3. QED
    BY <2>1, <2>2, RefusedOnCourse
<1>3. CASE Goto(p, "keyAdd") /\ ZonesAdd(r.zone)
  <2>1. Moved(r, req'[p], "keyAdd")
    BY <1>1, <1>3, GotoMoves
  <2>2. /\ pdns' = pdns \cup {r.zone} /\ UNCHANGED <<rows, keys, allow>>
        /\ UNCHANGED deleg
    BY <1>3 DEF AddZone, ZonesAdd
  <2>3. DelegationOnCourse(req[p])'
    BY <1>1, <2>1, <2>2
       DEF OnCourse, DelegationOnCourse, Moved, Same, EnsureLabels
  <2>4. OnCourse(req[p])'
    BY <1>1, <2>1, <2>3, EarlyStays DEF Moved, Early
  <2>5. ASSUME Agreed(p)
        PROVE  Agreed(p)'
    <3>1. AllAgree /\ Found(r)
      BY <1>1, <2>5, CalmSettled DEF Agreed, Agrees
    <3>2. ~ Owns(r.cur)
      BY <1>1 DEF RowChecked, Creating, Owns, IsZoneOwner, ListZoneOwners,
         ZoneExists
    <3>3. Settled(r.cur)
      BY <1>1, <3>1, MainPairTyped DEF AllAgree
    <3>4. OthersAgree(req[p])'
      BY <2>1, <2>2, <3>1 DEF AllAgree, OthersAgree, Settled, Owns, IsZoneOwner,
         ListZoneOwners, ZoneExists, Moved
    <3>5. Founding(req[p])'
      BY <1>1, <2>1 DEF Founding, Moved, Same, MainPair, Fresh
    <3>6. PairAtWork(req[p])'
      BY <1>1, <2>1, <2>2, <3>2, <3>3, <3>5 DEF PairAtWork, Settled, Moved, Owns,
         IsZoneOwner, ListZoneOwners
    <3>7. ZoneAtWork(req[p])' /\ Found(req[p])'
      BY <1>1, <2>1, <2>2, <3>1
         DEF ZoneAtWork, DeletionLabels, Found, Moved, Same, ZoneExists
    <3>8. QED
      BY <2>1, <3>4, <3>6, <3>7 DEF Agreed, Agrees, Moved
  <2>6. QED
    BY <2>4, <2>5
<1>4. QED
  BY <1>2, <1>3 DEF AddZone

LEMMA FetchZoneStays ==
  ASSUME NEW p, Procs = {p}, Standing, FetchZone(p)
  PROVE  OnCourse(req[p])' /\ (Agreed(p) => Agreed(p)')
<1> DEFINE r == req[p]
<1>1. /\ RequestsTyped /\ r \in Request /\ r.pc = "fetch" /\ RowChecked(r)
      /\ OnCourse(r) /\ r.op = "create"
      /\ MainPair(r) = <<r.caller, r.zone>>
  <2>1. At(p, "fetch")
    BY DEF FetchZone
  <2>2. QED
    BY <2>1, CreationAt
<1>2. r.cur = MainPair(r)
  BY <1>1 DEF RowChecked
<1>3. UNCHANGED <<rows, pdns, keys, allow>> /\ UNCHANGED deleg
  BY DEF FetchZone, dnsVars
<1>4. CASE /\ \/ r.zone \notin pdns
              \/ r.caller \in allow[r.zone] /\ r.cur \notin keys
           /\ Reply(p, "failed")
  <2>1. Answered(r, req'[p], "failed")
    BY <1>1, <1>4, ReplyAnswers
  <2>2. ~ Agreed(p)
    BY <1>1, <1>2, <1>4 DEF Agreed, Agrees, PairAtWork, Halfway
  <2>3. QED
    BY <2>1, <2>2, RefusedOnCourse
<1>5. CASE r.zone \in pdns /\ Goto(p, "insert")
  <2>1. Moved(r, req'[p], "insert")
    BY <1>1, <1>5, GotoMoves
  <2>2. MainPair(req[p])' = MainPair(r)
    BY <2>1 DEF Moved, Same, MainPair, Fresh
  <2>3. CreationOnCourse(r) /\ DelegationOnCourse(r)
    BY <1>1 DEF OnCourse
  <2>4. DelegationOnCourse(req[p])'
    BY <1>1, <1>3, <2>1, <2>3 DEF DelegationOnCourse, Moved, Same, EnsureLabels
  <2>5. CreationOnCourse(req[p])'
    BY <1>1, <1>2, <1>3, <1>5, <2>1, <2>2, <2>3 DEF CreationOnCourse, Moved, Same
  <2>6. OnCourse(req[p])'
    BY <1>1, <2>1, <2>4, <2>5, CreationStays DEF Moved, Focused, Early
  <2>7. ASSUME Agreed(p)
        PROVE  Agreed(p)'
    <3>1. Founding(r) /\ Founding(req[p])'
      BY <1>1, <1>2, <2>1, <2>2 DEF Founding, Moved, Same
    <3>2. /\ Halfway(r) /\ Halfway(req[p])'
          /\ r.pc \notin DeletionLabels /\ req'[p].pc \notin DeletionLabels
      BY <1>1, <2>1, <3>1 DEF Halfway, Moved, DeletionLabels
    <3>3. Unsettled(req[p])' = Unsettled(r)
      BY <2>1, <3>2 DEF Unsettled, Moved
    <3>4. OthersAgree(req[p])'
      BY <1>1, <1>3, <2>1, <2>7, <3>3 DEF Agreed, OthersAgree, Settled, Owns,
         IsZoneOwner, ListZoneOwners, ZoneExists, Moved
    <3>5. PairAtWork(req[p])'
      BY <1>1, <1>3, <2>1, <2>7, <3>1, <3>2 DEF Agreed, Agrees, PairAtWork, Moved,
         Owns, IsZoneOwner, ListZoneOwners
    <3>6. ZoneAtWork(req[p])' /\ Found(req[p])'
      BY <1>1, <1>3, <2>1, <2>7, <3>1 DEF Agreed, Agrees, ZoneAtWork,
         DeletionLabels, Found, Moved, Same, ZoneExists
    <3>7. QED
      BY <2>1, <3>4, <3>5, <3>6 DEF Agreed, Agrees, Moved
  <2>8. QED
    BY <2>6, <2>7
<1>6. QED
  BY <1>4, <1>5 DEF FetchZone

\* A creation past its row, which only reads: the creator keeps what they have.
LEMMA FoundedStays ==
  ASSUME NEW p, OnCourse(req[p]), Same(req[p], req'[p]), req[p].op = "create",
         req[p].pc \in {"parent", "shareCheck", "parentOwners", "grant"},
         req'[p].pc \in {"shareCheck", "parentOwners", "grant", "insert", "ok"},
         req'[p].pc = "shareCheck" => req'[p].cur = MainPair(req[p]),
         req'[p].pc = "insert" => req'[p].cur # MainPair(req[p]),
         UNCHANGED <<rows, pdns, keys, allow>>, UNCHANGED deleg
  PROVE  OnCourse(req[p])'
<1>1. MainPair(req[p])' = MainPair(req[p])
  BY DEF MainPair, Fresh, Same
<1>2. CreationOnCourse(req[p]) /\ DelegationOnCourse(req[p])
  BY DEF OnCourse
<1>3. Focused(req[p])'
  BY <1>1 DEF Focused, Early
<1>4. Owns(MainPair(req[p])) /\ Works(MainPair(req[p]))
  BY <1>2 DEF CreationOnCourse
<1>5. (Owns(MainPair(req[p])) /\ Works(MainPair(req[p])))'
  BY <1>1, <1>4 DEF Owns, Works, IsZoneOwner, ListZoneOwners, Usable
<1>6. CreationOnCourse(req[p])'
  BY <1>1, <1>5 DEF CreationOnCourse, KeyLabels
<1>7. DelegationOnCourse(req[p])'
  BY <1>2 DEF DelegationOnCourse, Same, EnsureLabels
<1>8. QED
  BY <1>3, <1>6, <1>7, CreationStays

LEMMA FoundedAnswer ==
  ASSUME NEW p, RequestsTyped, OnCourse(req[p]), p \in Procs, req[p] \in Request,
         req[p].op = "create", Calm(req[p]),
         req[p].pc \in {"parent", "shareCheck", "parentOwners", "grant"},
         Reply(p, "ok"), UNCHANGED <<rows, pdns, keys, allow>>, UNCHANGED deleg
  PROVE  OnCourse(req[p])' /\ (Agreed(p) => Agreed(p)')
<1>1. Answered(req[p], req'[p], "ok")
  BY ReplyAnswers
<1>2. OnCourse(req[p])'
  BY <1>1, FoundedStays DEF Answered
<1>3. QED
  BY <1>1, <1>2, RefusedAgreed

LEMMA FindParentStays ==
  ASSUME NEW p, Procs = {p}, Standing, FindParent(p)
  PROVE  OnCourse(req[p])' /\ (Agreed(p) => Agreed(p)')
<1> DEFINE r == req[p]
<1>1. /\ RequestsTyped /\ r \in Request /\ r.pc = "parent" /\ Calm(r)
      /\ OnCourse(r) /\ r.op = "create" /\ r.cur = MainPair(r)
  <2>1. At(p, "parent")
    BY DEF FindParent
  <2>2. QED
    BY <2>1, CreationAt DEF Early
<1>2. UNCHANGED <<rows, pdns, keys, allow>> /\ UNCHANGED deleg
  BY DEF FindParent, dnsVars
<1>3. CASE Reply(p, "ok")
  BY <1>1, <1>2, <1>3, FoundedAnswer
<1>4. ASSUME NEW w, Set(p, [r EXCEPT !.pc = "shareCheck", !.at = w])
      PROVE  OnCourse(req[p])' /\ (Agreed(p) => Agreed(p)')
  <2>1. Placed(r, req'[p], w, "shareCheck")
    BY <1>1, <1>4, PlaceMoves
  <2>2. OnCourse(req[p])'
    BY <1>1, <1>2, <2>1, FoundedStays DEF Placed
  <2>3. ASSUME Agreed(p)
        PROVE  Agreed(p)'
    <3>1. ZoneExists(r.zone)
      BY <1>1, <2>3 DEF Agreed, Agrees, Found
    <3>2. QED
      BY <1>1, <1>2, <2>1, <2>3, <3>1, CreationQuiet DEF Placed, Early
  <2>4. QED
    BY <2>2, <2>3
<1>5. QED
  BY <1>3, <1>4 DEF FindParent

LEMMA ParentSharingStays ==
  ASSUME NEW p, Procs = {p}, Standing, ParentSharing(p)
  PROVE  OnCourse(req[p])' /\ (Agreed(p) => Agreed(p)')
<1> DEFINE r == req[p]
<1>1. /\ RequestsTyped /\ r \in Request /\ r.pc = "shareCheck" /\ Calm(r)
      /\ OnCourse(r) /\ r.op = "create" /\ r.cur = MainPair(r)
  <2>1. At(p, "shareCheck") /\ r.op = "create"
    BY DEF ParentSharing
  <2>2. QED
    BY <2>1, CreationAt DEF Early
<1>2. UNCHANGED <<rows, pdns, keys, allow>> /\ UNCHANGED deleg
  BY DEF ParentSharing, dnsVars
<1>3. CASE Reply(p, "ok")
  BY <1>1, <1>2, <1>3, FoundedAnswer
<1>4. CASE Goto(p, "parentOwners")
  <2>1. Moved(r, req'[p], "parentOwners")
    BY <1>1, <1>4, GotoMoves
  <2>2. OnCourse(req[p])'
    BY <1>1, <1>2, <2>1, FoundedStays DEF Moved
  <2>3. ASSUME Agreed(p)
        PROVE  Agreed(p)'
    <3>1. ZoneExists(r.zone)
      BY <1>1, <2>3 DEF Agreed, Agrees, Found
    <3>2. QED
      BY <1>1, <1>2, <2>1, <2>3, <3>1, CreationQuiet DEF Moved, Early
  <2>4. QED
    BY <2>2, <2>3
<1>5. QED
  BY <1>3, <1>4 DEF ParentSharing

LEMMA ParentOwnersStays ==
  ASSUME NEW p, Procs = {p}, Standing, ParentOwners(p)
  PROVE  OnCourse(req[p])' /\ (Agreed(p) => Agreed(p)')
<1> DEFINE r == req[p]
           heirs == (ListZoneOwners(r.at) \ {r.caller}) \X {r.zone}
<1>1. /\ RequestsTyped /\ r \in Request /\ r.pc = "parentOwners" /\ Calm(r)
      /\ OnCourse(r) /\ r.op = "create"
  <2>1. At(p, "parentOwners")
    BY DEF ParentOwners
  <2>2. QED
    BY <2>1, CreationAt DEF Early
<1>2. UNCHANGED <<rows, pdns, keys, allow>> /\ UNCHANGED deleg
  BY DEF ParentOwners, dnsVars
<1>3. /\ Same(r, req'[p]) /\ req'[p].pc = "grant" /\ req'[p].cur = r.cur
      /\ req'[p].todo = heirs
  BY <1>1 DEF ParentOwners, Set, RequestsTyped, Request, Same
<1>4. OnCourse(req[p])'
  BY <1>1, <1>2, <1>3, FoundedStays
<1>5. ASSUME Agreed(p)
      PROVE  Agreed(p)'
  <2>1. ZoneExists(r.zone) /\ OthersAgree(r)
    BY <1>1, <1>5 DEF Agreed, Agrees, Found
  <2>2. \A t \in heirs : t[2] = r.zone
    OBVIOUS
  <2> HIDE DEF heirs
  <2>3. Found(req[p])'
    BY <1>1, <1>2, <1>3, <2>1, <2>2 DEF Found, ZoneExists, Same
  <2>4. Calm(req[p])'
    BY <1>3 DEF Calm, Halfway, KeyLabels, DeletionLabels
  <2>5. QED
    BY <1>1, <1>2, <1>3, <2>1, <2>3, <2>4, QuietAgreed
<1>6. QED
  BY <1>4, <1>5

LEMMA CreateStepStays ==
  ASSUME NEW p, Procs = {p}, Standing, CreateStep(p)
  PROVE  OnCourse(req[p])' /\ (Agreed(p) => Agreed(p)')
BY AuthorizeStays, ParentDefinitionStays, CreateExistsStays, IntermediateGetStays,
   IntermediateAddStays, DelegationDropStays, DelegationAddStays, DropZoneStays,
   DropKeyStays, AddZoneStays, FetchZoneStays, FindParentStays,
   ParentSharingStays, ParentOwnersStays DEF CreateStep

-------------------------------------------------------------------------------
(* The steps of joins and additions, and of every grant *)

\* Steps that only take a request to another label before it changes anything.
LEMMA EarlyMoves ==
  ASSUME NEW p, Same(req[p], req'[p]), OnCourse(req[p]),
         req[p].op # "create", req'[p].cur = req[p].cur, req'[p].todo = req[p].todo,
         req[p].pc \in {"exists", "isOwner", "shareCheck", "targetOwner"},
         req'[p].pc \in {"isOwner", "shareCheck", "targetOwner", "insert", "listOwners",
                         "ownSubs", "count"}
  PROVE  OnCourse(req[p])'
<1>1. MainPair(req[p])' = MainPair(req[p])
  BY DEF MainPair, Fresh, Same
<1>2. req[p].cur = MainPair(req[p])
  BY DEF OnCourse, Focused, Early
<1>3. Focused(req[p])' /\ CreationOnCourse(req[p])' /\ DelegationOnCourse(req[p])'
  BY <1>1, <1>2 DEF Focused, CreationOnCourse, DelegationOnCourse, Same
<1>4. GrantOnCourse(req[p])'
  BY <1>1, <1>2 DEF GrantOnCourse
<1>5. RemovalOnCourse(req[p])'
  BY <1>1, <1>2 DEF OnCourse, RemovalOnCourse, Same, KeyLabels
<1>6. RotationOnCourse(req[p])' /\ DeletionOnCourse(req[p])'
  BY DEF OnCourse, RotationOnCourse, DeletionOnCourse, Same, KeyLabels
<1>7. QED
  BY <1>3, <1>4, <1>5, <1>6 DEF OnCourse

\* The same steps, where the zone has been found to be in the table.
LEMMA EarlyAgreed ==
  ASSUME NEW p, Same(req[p], req'[p]), req[p].op # "create",
         req'[p].cur = req[p].cur, req'[p].todo = req[p].todo,
         req[p].pc \in {"exists", "isOwner", "shareCheck", "targetOwner"},
         req'[p].pc \in {"isOwner", "shareCheck", "targetOwner", "insert", "listOwners",
                         "ownSubs", "count"},
         UNCHANGED <<rows, pdns, keys, allow>>,
         ZoneExists(req[p].zone) \/ req'[p].pc = "count",
         req'[p].pc = "insert" => req[p].cur[2] = req[p].zone,
         req'[p].pc = "count" => Owns(req[p].cur),
         Agreed(p)
  PROVE  Agreed(p)'
<1>1. Calm(req[p]) /\ OthersAgree(req[p]) /\ Found(req[p])
  BY DEF Agreed, Agrees, Calm, Halfway, KeyLabels, DeletionLabels
<1>2. Calm(req[p])'
  BY DEF Calm, Halfway, KeyLabels, DeletionLabels, Founding, Same
<1>3. Found(req[p])'
  BY <1>1 DEF Found, Same, ZoneExists, Owns, IsZoneOwner, ListZoneOwners
<1>4. QED
  BY <1>1, <1>2, <1>3, QuietAgreed

LEMMA JoinExistsStays ==
  ASSUME NEW p, Procs = {p}, Standing, JoinExists(p)
  PROVE  OnCourse(req[p])' /\ (Agreed(p) => Agreed(p)')
<1> DEFINE r == req[p]
<1>1. /\ RequestsTyped /\ r \in Request /\ r.pc = "exists" /\ OnCourse(r)
      /\ r.op = "join"
  BY StandingAt DEF JoinExists
<1>2. UNCHANGED <<rows, pdns, keys, allow>>
  BY DEF JoinExists, dnsVars
<1>3. CASE ZoneExists(r.zone) /\ Goto(p, "isOwner")
  <2>1. Moved(r, req'[p], "isOwner")
    BY <1>1, <1>3, GotoMoves
  <2>2. QED
    BY <1>1, <1>2, <1>3, <2>1, EarlyMoves, EarlyAgreed DEF Moved
<1>4. CASE Reply(p, "refused")
  <2>1. Answered(r, req'[p], "refused") /\ Calm(r)
    BY <1>1, <1>4, ReplyAnswers DEF Calm, Halfway, KeyLabels, DeletionLabels
  <2>2. QED
    BY <1>2, <2>1, RefusedOnCourse, RefusedAgreed
<1>5. QED
  BY <1>3, <1>4 DEF JoinExists

LEMMA JoinAuthorizeStays ==
  ASSUME NEW p, Procs = {p}, Standing, JoinAuthorize(p)
  PROVE  OnCourse(req[p])' /\ (Agreed(p) => Agreed(p)')
<1> DEFINE r == req[p]
<1>1. /\ RequestsTyped /\ r \in Request /\ r.pc = "isOwner" /\ OnCourse(r)
      /\ r.op = "join"
  BY StandingAt DEF JoinAuthorize
<1>2. r.cur = MainPair(r) /\ MainPair(r) = <<r.caller, r.zone>> /\ Calm(r)
  BY <1>1, MainPairIs DEF OnCourse, Focused, Early, Calm, Halfway, KeyLabels,
     DeletionLabels
<1>3. UNCHANGED <<rows, pdns, keys, allow>>
  BY DEF JoinAuthorize, dnsVars
<1>4. CASE IsZoneOwner(r.caller, r.zone) /\ Reply(p, "ok")
  <2>1. Answered(r, req'[p], "ok")
    BY <1>1, <1>4, ReplyAnswers
  <2>2. MainPair(req[p])' = MainPair(r) /\ req'[p].op = "join" /\ req'[p].pc = "ok"
    BY <1>1, <2>1 DEF MainPair, Fresh, Same, Answered
  <2>3. GrantOnCourse(req[p])'
    BY <1>2, <1>3, <1>4, <2>2 DEF GrantOnCourse, Owns, IsZoneOwner, ListZoneOwners
  <2>4. OnCourse(req[p])'
    BY <2>2, <2>3 DEF OnCourse, Focused, Early, CreationOnCourse, DelegationOnCourse,
       RemovalOnCourse, RotationOnCourse, DeletionOnCourse
  <2>5. QED
    BY <1>2, <1>3, <2>1, <2>4, RefusedAgreed
<1>5. CASE Reply(p, "refused")
  <2>1. Answered(r, req'[p], "refused")
    BY <1>1, <1>5, ReplyAnswers
  <2>2. QED
    BY <1>2, <1>3, <2>1, RefusedOnCourse, RefusedAgreed
<1>6. CASE Goto(p, "insert")
  <2>1. Moved(r, req'[p], "insert")
    BY <1>1, <1>6, GotoMoves
  <2>2. OnCourse(req[p])'
    BY <1>1, <2>1, EarlyMoves DEF Moved
  <2>3. ASSUME Agreed(p)
        PROVE  Agreed(p)'
    <3>1. ZoneExists(r.zone)
      BY <1>1, <2>3 DEF Agreed, Agrees, Found
    <3>2. QED
      BY <1>1, <1>2, <1>3, <2>1, <2>3, <3>1, EarlyAgreed DEF Moved
  <2>4. QED
    BY <2>2, <2>3
<1>7. QED
  BY <1>4, <1>5, <1>6 DEF JoinAuthorize

LEMMA CallerIsOwnerStays ==
  ASSUME NEW p, Procs = {p}, Standing, CallerIsOwner(p)
  PROVE  OnCourse(req[p])' /\ (Agreed(p) => Agreed(p)')
<1> DEFINE r == req[p]
<1>1. /\ RequestsTyped /\ r \in Request /\ r.pc = "isOwner" /\ OnCourse(r)
      /\ r.op \in DOMAIN AfterOwnerCheck
  BY StandingAt DEF CallerIsOwner
<1>2. r.op # "create"
  BY <1>1 DEF AfterOwnerCheck
<1>3. UNCHANGED <<rows, pdns, keys, allow>>
  BY DEF CallerIsOwner, dnsVars
<1>4. CASE IsZoneOwner(r.caller, r.zone) /\ Goto(p, AfterOwnerCheck[r.op])
  <2>1. PICK pc \in {"shareCheck", "targetOwner", "listOwners", "ownSubs"} :
          Goto(p, pc)
    BY <1>1, <1>4 DEF AfterOwnerCheck
  <2>2. Moved(r, req'[p], pc)
    BY <1>1, <2>1, GotoMoves
  <2>3. ZoneExists(r.zone)
    BY <1>4, NoRowsNoOwners DEF IsZoneOwner
  <2>4. QED
    BY <1>1, <1>2, <1>3, <2>2, <2>3, EarlyMoves, EarlyAgreed DEF Moved
<1>5. CASE Reply(p, "refused")
  <2>1. Answered(r, req'[p], "refused") /\ Calm(r)
    BY <1>1, <1>5, ReplyAnswers DEF Calm, Halfway, KeyLabels, DeletionLabels
  <2>2. QED
    BY <1>3, <2>1, RefusedOnCourse, RefusedAgreed
<1>6. QED
  BY <1>4, <1>5 DEF CallerIsOwner

\* A grant whose own pair has its row.
LEMMA GrantStays ==
  ASSUME NEW p, Same(req[p], req'[p]), req[p].op \in {"join", "add"},
         Focused(req[p])', Owns(MainPair(req[p]))', req'[p].pc # "rowsDel"
  PROVE  OnCourse(req[p])'
BY DEF OnCourse, Same, CreationOnCourse, DelegationOnCourse, GrantOnCourse,
   RemovalOnCourse, RotationOnCourse, DeletionOnCourse

LEMMA AddSharingStays ==
  ASSUME NEW p, Procs = {p}, Standing, AddSharing(p)
  PROVE  OnCourse(req[p])' /\ (Agreed(p) => Agreed(p)')
<1> DEFINE r == req[p]
<1>1. /\ RequestsTyped /\ r \in Request /\ r.pc = "shareCheck" /\ OnCourse(r)
      /\ r.op = "add"
  BY StandingAt DEF AddSharing
<1>2. Calm(r)
  BY <1>1 DEF Calm, Halfway, KeyLabels, DeletionLabels
<1>3. UNCHANGED <<rows, pdns, keys, allow>>
  BY DEF AddSharing, dnsVars
<1>4. CASE Goto(p, "targetOwner")
  <2>1. Moved(r, req'[p], "targetOwner")
    BY <1>1, <1>4, GotoMoves
  <2>2. OnCourse(req[p])'
    BY <1>1, <2>1, EarlyMoves DEF Moved
  <2>3. ASSUME Agreed(p)
        PROVE  Agreed(p)'
    <3>1. ZoneExists(r.zone)
      BY <1>1, <2>3 DEF Agreed, Agrees, Found
    <3>2. QED
      BY <1>1, <1>3, <2>1, <2>3, <3>1, EarlyAgreed DEF Moved
  <2>4. QED
    BY <2>2, <2>3
<1>5. CASE Reply(p, "refused")
  <2>1. Answered(r, req'[p], "refused")
    BY <1>1, <1>5, ReplyAnswers
  <2>2. QED
    BY <1>2, <1>3, <2>1, RefusedOnCourse, RefusedAgreed
<1>6. QED
  BY <1>4, <1>5 DEF AddSharing

LEMMA AddTargetStays ==
  ASSUME NEW p, Procs = {p}, Standing, AddTarget(p)
  PROVE  OnCourse(req[p])' /\ (Agreed(p) => Agreed(p)')
<1> DEFINE r == req[p]
<1>1. /\ RequestsTyped /\ r \in Request /\ r.pc = "targetOwner" /\ OnCourse(r)
      /\ r.op = "add"
  BY StandingAt DEF AddTarget
<1>2. r.cur = MainPair(r) /\ MainPair(r) = <<r.target, r.zone>> /\ Calm(r)
  BY <1>1, MainPairIs DEF OnCourse, Focused, Early, Calm, Halfway, KeyLabels,
     DeletionLabels
<1>3. UNCHANGED <<rows, pdns, keys, allow>>
  BY DEF AddTarget, dnsVars
<1>4. CASE Goto(p, "insert")
  <2>1. Moved(r, req'[p], "insert")
    BY <1>1, <1>4, GotoMoves
  <2>2. OnCourse(req[p])'
    BY <1>1, <2>1, EarlyMoves DEF Moved
  <2>3. ASSUME Agreed(p)
        PROVE  Agreed(p)'
    <3>1. ZoneExists(r.zone)
      BY <1>1, <2>3 DEF Agreed, Agrees, Found
    <3>2. QED
      BY <1>1, <1>2, <1>3, <2>1, <2>3, <3>1, EarlyAgreed DEF Moved
  <2>4. QED
    BY <2>2, <2>3
<1>5. CASE IsZoneOwner(r.target, r.zone) /\ Goto(p, "subtree")
  <2>1. Moved(r, req'[p], "subtree")
    BY <1>1, <1>5, GotoMoves
  <2>2. MainPair(req[p])' = <<r.target, r.zone>>
    BY <1>1, <2>1 DEF MainPair, Fresh, Moved, Same
  <2>3. Owns(MainPair(req[p]))'
    BY <1>3, <1>5, <2>2 DEF Owns, IsZoneOwner, ListZoneOwners
  <2>4. OnCourse(req[p])'
    BY <1>1, <2>1, <2>3, GrantStays DEF Moved, Focused, Early
  <2>5. ASSUME Agreed(p)
        PROVE  Agreed(p)'
    <3>1. Calm(req[p])' /\ Found(req[p])'
      BY <1>1, <1>3, <2>1, <2>5 DEF Agreed, Agrees, Found, Moved, Same, ZoneExists,
         Calm, Halfway, KeyLabels, DeletionLabels
    <3>2. QED
      BY <1>2, <1>3, <2>1, <2>5, <3>1, QuietAgreed DEF Agreed, Moved
  <2>6. QED
    BY <2>4, <2>5
<1>6. QED
  BY <1>4, <1>5 DEF AddTarget

-------------------------------------------------------------------------------
(* Work on the current pair *)

\* The stores agree about all pairs but one, and PowerDNS serves what is in the table.
AllAgreeBut(k) ==
  /\ \A j \in Pair \ {k} : Settled(j)
  /\ \A z \in Zones : ZoneExists(z) => z \in pdns

LEMMA HalfwayAgree ==
  ASSUME NEW r, Halfway(r), OthersAgree(r)
  PROVE  AllAgreeBut(r.cur)
<1>1. r.pc \notin DeletionLabels
  BY DEF Halfway, KeyLabels, DeletionLabels
<1>2. Unsettled(r) \subseteq {r.cur} /\ r.pc # "rowsDel"
  BY <1>1 DEF Unsettled, DeletionLabels
<1>3. QED
  BY <1>2 DEF OthersAgree, AllAgreeBut

LEMMA HalfwayAgreed ==
  ASSUME NEW p, AllAgreeBut(req[p].cur)', Halfway(req[p])', PairAtWork(req[p])',
         Found(req[p])'
  PROVE  Agreed(p)'
<1>1. req'[p].pc \notin DeletionLabels /\ req'[p].pc # "failed"
  BY DEF Halfway, KeyLabels, DeletionLabels
<1>2. \A k \in Pair : k \notin Unsettled(req[p])' => k # req'[p].cur
  BY DEF Unsettled
<1>3. OthersAgree(req[p])'
  BY <1>2 DEF AllAgreeBut, OthersAgree
<1>4. ZoneAtWork(req[p])'
  BY <1>1 DEF ZoneAtWork
<1>5. QED
  BY <1>1, <1>3, <1>4 DEF Agreed, Agrees

LEMMA PairSettled ==
  ASSUME NEW p, AllAgreeBut(req[p].cur)', Settled(req[p].cur)'
  PROVE  AllAgree'
BY DEF AllAgreeBut, AllAgree

\* A step that touches the key or the metadata of the current pair only.
LEMMA OthersUntouched ==
  ASSUME NEW p, AllAgreeBut(req[p].cur), UNCHANGED <<rows, pdns>>,
         req'[p].cur = req[p].cur,
         \A k \in Pair \ {req[p].cur} :
           /\ k \in keys' <=> k \in keys
           /\ k[1] \in allow'[k[2]] <=> k[1] \in allow[k[2]]
  PROVE  AllAgreeBut(req[p].cur)'
<1>1. \A k : Owns(k)' <=> Owns(k)
  BY DEF Owns, IsZoneOwner, ListZoneOwners
<1>2. ASSUME NEW k \in Pair, k # req[p].cur
      PROVE  Settled(k)'
  BY <1>1, <1>2 DEF AllAgreeBut, Settled
<1>3. QED
  BY <1>2 DEF AllAgreeBut, ZoneExists

\* One more label at work on the same pair.
LEMMA HalfwayOn ==
  ASSUME NEW p, Agreed(p), Halfway(req[p]), Halfway(req[p])',
         Same(req[p], req'[p]), req'[p].cur = req[p].cur, req'[p].todo = req[p].todo,
         req'[p].pc \notin {"insert", "fetch"}, UNCHANGED <<rows, pdns>>,
         \A k \in Pair \ {req[p].cur} :
           /\ k \in keys' <=> k \in keys
           /\ k[1] \in allow'[k[2]] <=> k[1] \in allow[k[2]],
         req[p].cur \in keys' <=> req'[p].pc # "keyAdd",
         req[p].cur[1] \in allow'[req[p].cur[2]] <=>
           req'[p].pc \in {"allowReadDel", "allowDel"}
  PROVE  Agreed(p)'
<1> DEFINE r == req[p]
<1>1. AllAgreeBut(r.cur) /\ PairAtWork(r) /\ Found(r)
  BY HalfwayAgree DEF Agreed, Agrees
<1>2. AllAgreeBut(r.cur)'
  BY <1>1, OthersUntouched
<1>3. Founding(req[p])' <=> Founding(r)
  BY DEF Founding, MainPair, Fresh, Same
<1>4. PairAtWork(req[p])'
  BY <1>1, <1>3 DEF PairAtWork, Owns, IsZoneOwner, ListZoneOwners, Same
<1>5. req'[p].pc \in KeyLabels
  BY DEF Halfway
<1>6. Found(req[p])'
  BY <1>1, <1>5 DEF Found, KeyLabels, Same, Owns, IsZoneOwner, ListZoneOwners, ZoneExists
<1>7. QED
  BY <1>2, <1>4, <1>6, HalfwayAgreed

LEMMA KeyAddStays ==
  ASSUME NEW p, Procs = {p}, Standing, KeyAdd(p)
  PROVE  OnCourse(req[p])' /\ (Agreed(p) => Agreed(p)')
<1> DEFINE r == req[p]
<1>1. /\ RequestsTyped /\ r \in Request /\ r.pc = "keyAdd" /\ OnCourse(r)
      /\ Vetted(r)
  BY StandingAt DEF KeyAdd
<1>2. r.op \in {"create", "join", "add", "rotate"}
  BY <1>1 DEF Vetted, OpsAt
<1>3. UNCHANGED <<rows, pdns, allow, deleg>> /\ keys' = keys \cup {r.cur}
  BY DEF KeyAdd
<1>4. Moved(r, req'[p], "allowRead")
  BY <1>1, GotoMoves DEF KeyAdd
<1>5. MainPair(req[p])' = MainPair(r)
  BY <1>4 DEF MainPair, Fresh, Same, Moved
<1>6. \A k : (Owns(k)' <=> Owns(k)) /\ (Works(k) => Works(k)')
  BY <1>3 DEF Owns, IsZoneOwner, ListZoneOwners, Works, Usable
<1>7. Focused(req[p])' /\ DeletionOnCourse(req[p])' /\ RemovalOnCourse(req[p])'
  BY <1>2, <1>4 DEF Focused, Early, DeletionOnCourse, RemovalOnCourse, Moved, Same
<1>8. CreationOnCourse(req[p])'
  BY <1>1, <1>3, <1>4, <1>5, <1>6
     DEF OnCourse, CreationOnCourse, KeyLabels, Moved, Same, Owns, Works,
         IsZoneOwner, ListZoneOwners, Usable
<1>9. DelegationOnCourse(req[p])'
  BY <1>1, <1>3, <1>4 DEF OnCourse, DelegationOnCourse, EnsureLabels, Moved, Same
<1>10. GrantOnCourse(req[p])'
  BY <1>1, <1>3, <1>4, <1>5 DEF OnCourse, GrantOnCourse, Moved, Same, Owns,
     IsZoneOwner, ListZoneOwners
<1>11. RotationOnCourse(req[p])'
  BY <1>1, <1>3, <1>4 DEF OnCourse, RotationOnCourse, KeyLabels, Moved, Same, Usable,
     ListZoneOwners
<1>12. OnCourse(req[p])'
  BY <1>7, <1>8, <1>9, <1>10, <1>11 DEF OnCourse
<1>13. ASSUME Agreed(p)
       PROVE  Agreed(p)'
  <2>1. Halfway(r) /\ Halfway(req[p])'
    BY <1>1, <1>4 DEF Halfway, KeyLabels, Moved
  <2>2. r.cur[1] \notin allow[r.cur[2]]
    BY <1>1, <1>13, <2>1 DEF Agreed, Agrees, PairAtWork
  <2>3. QED
    BY <1>3, <1>4, <1>13, <2>1, <2>2, HalfwayOn DEF Moved
<1>14. QED
  BY <1>12, <1>13

\* The request has read a metadata list, or is done with it.
Read(r, s, pc, snap) ==
  /\ Same(r, s) /\ s.pc = pc /\ s.at = r.at /\ s.chain = r.chain
  /\ s.cur = r.cur /\ s.todo = r.todo /\ s.snap = snap

LEMMA ReadMoves ==
  ASSUME RequestsTyped, NEW p \in Procs, req[p] \in Request, NEW pc, NEW snap,
         Set(p, [req[p] EXCEPT !.pc = pc, !.snap = snap])
  PROVE  Read(req[p], req'[p], pc, snap)
BY DEF Set, RequestsTyped, Request, Read, Same

\* A call that PowerDNS refuses although nothing failed before: there is none.
LEMMA NeverRefused ==
  ASSUME NEW p, RequestsTyped, p \in Procs, req[p] \in Request, ~ Agreed(p),
         Reply(p, "failed")
  PROVE  OnCourse(req[p])' /\ (Agreed(p) => Agreed(p)')
BY ReplyAnswers, RefusedOnCourse

LEMMA AllowReadStays ==
  ASSUME NEW p, Procs = {p}, Standing, AllowRead(p)
  PROVE  OnCourse(req[p])' /\ (Agreed(p) => Agreed(p)')
<1> DEFINE r == req[p]
<1>1. /\ RequestsTyped /\ r \in Request /\ r.pc = "allowRead" /\ OnCourse(r)
      /\ Vetted(r)
  BY StandingAt DEF AllowRead
<1>2. r.op \in {"create", "join", "add", "rotate"} /\ Halfway(r)
  BY <1>1 DEF Vetted, OpsAt, Halfway, KeyLabels
<1>3. UNCHANGED <<rows, pdns, keys, allow>> /\ UNCHANGED deleg
  BY DEF AllowRead, dnsVars
<1>4. CASE r.cur[2] \notin pdns /\ Reply(p, "failed")
  <2>1. ~ Agreed(p)
    BY <1>2, <1>4 DEF Agreed, Agrees, PairAtWork
  <2>2. QED
    BY <1>1, <1>4, <2>1, NeverRefused
<1>5. CASE Set(p, [r EXCEPT !.pc = "allowAdd", !.snap = allow[r.cur[2]]])
  <2>1. Read(r, req'[p], "allowAdd", allow[r.cur[2]])
    BY <1>1, <1>5, ReadMoves
  <2>2. MainPair(req[p])' = MainPair(r)
    BY <2>1 DEF MainPair, Fresh, Same, Read
  <2>3. Focused(req[p])'
    BY <1>3, <2>1 DEF Focused, Early, Read
  <2>4. DeletionOnCourse(req[p])' /\ RemovalOnCourse(req[p])'
    BY <1>2, <2>1 DEF DeletionOnCourse, RemovalOnCourse, Read, Same
  <2>5. CreationOnCourse(req[p])'
    BY <1>1, <1>3, <2>1, <2>2
       DEF OnCourse, CreationOnCourse, KeyLabels, Read, Same, Owns, Works,
           IsZoneOwner, ListZoneOwners, Usable
  <2>6. DelegationOnCourse(req[p])'
    BY <1>1, <1>3, <2>1 DEF OnCourse, DelegationOnCourse, EnsureLabels, Read, Same
  <2>7. GrantOnCourse(req[p])'
    BY <1>1, <1>3, <2>1, <2>2 DEF OnCourse, GrantOnCourse, Read, Same, Owns,
       IsZoneOwner, ListZoneOwners
  <2>8. RotationOnCourse(req[p])'
    BY <1>1, <1>3, <2>1 DEF OnCourse, RotationOnCourse, KeyLabels, Read, Same, Usable,
       ListZoneOwners
  <2>9. OnCourse(req[p])'
    BY <2>3, <2>4, <2>5, <2>6, <2>7, <2>8 DEF OnCourse
  <2>10. ASSUME Agreed(p)
         PROVE  Agreed(p)'
    <3>1. Halfway(req[p])'
      BY <2>1 DEF Halfway, KeyLabels, Read
    <3>2. r.cur \in keys /\ r.cur[1] \notin allow[r.cur[2]]
      BY <1>1, <1>2, <2>10 DEF Agreed, Agrees, PairAtWork
    <3>3. QED
      BY <1>2, <1>3, <2>1, <2>10, <3>1, <3>2, HalfwayOn DEF Read
  <2>11. QED
    BY <2>9, <2>10
<1>6. QED
  BY <1>4, <1>5 DEF AllowRead

\* With the key in place, where the grant or the rotation goes on.
LEMMA AllowAddStays ==
  ASSUME NEW p, Procs = {p}, Standing, AllowAdd(p)
  PROVE  OnCourse(req[p])' /\ (Agreed(p) => Agreed(p)')
<1> DEFINE r == req[p]
           z == r.cur[2]
           u == r.cur[1]
<1>1. /\ RequestsTyped /\ r \in Request /\ r.pc = "allowAdd" /\ OnCourse(r)
      /\ Vetted(r)
  BY StandingAt DEF AllowAdd
<1>2. /\ r.op \in {"create", "join", "add", "rotate"} /\ Halfway(r)
      /\ r.snap = allow[z]
  BY <1>1 DEF Vetted, OpsAt, Halfway, KeyLabels, OnCourse, Focused
<1>3. UNCHANGED <<rows, pdns, keys, deleg>>
  BY DEF AllowAdd
<1>4. CASE z \notin pdns /\ Reply(p, "failed")
  <2>1. ~ Agreed(p)
    BY <1>2, <1>4 DEF Agreed, Agrees, PairAtWork
  <2>2. QED
    BY <1>1, <1>4, <2>1, NeverRefused
<1>5. CASE /\ z \in pdns
           /\ allow' = [allow EXCEPT ![z] = r.snap \cup {u}]
           /\ Set(p, [r EXCEPT !.pc = AfterKey(r), !.snap = {}])
  <2>1. Read(r, req'[p], AfterKey(r), {})
    BY <1>1, <1>5, ReadMoves
  <2>2. MainPair(req[p])' = MainPair(r)
    BY <2>1 DEF MainPair, Fresh, Same, Read
  <2>3. /\ r.cur \in Pair /\ MainPair(r) \in Pair /\ z \in Zones
        /\ r.cur = <<u, z>>
    BY <1>1, MainPairTyped DEF Request, Pair
  <2>4. /\ \A w \in Zones : w # z => allow'[w] = allow[w]
        /\ allow'[z] = allow[z] \cup {u}
    BY <1>2, <1>5, <2>3 DEF Standing, TypeOK, DnsTyped
  <2>5. \A k \in Pair : (Owns(k)' <=> Owns(k)) /\ (Works(k) => Works(k)')
    BY <1>3, <2>4 DEF Owns, IsZoneOwner, ListZoneOwners, Works, Usable, Pair
  <2>6. /\ r.op = "rotate" => AfterKey(r) = "rotate"
        /\ r.op = "create" => AfterKey(r) = IF r.cur = MainPair(r) THEN "fetch" ELSE "grant"
        /\ r.op \in {"join", "add"} =>
             AfterKey(r) = IF r.cur = MainPair(r) THEN "subtree" ELSE "grant"
    BY DEF AfterKey
  <2>7. AfterKey(r) \in {"rotate", "fetch", "subtree", "grant"}
    BY <1>2, <2>6
  <2>8. Focused(req[p])' /\ DeletionOnCourse(req[p])' /\ RemovalOnCourse(req[p])'
    BY <1>2, <2>1, <2>7 DEF Focused, Early, DeletionOnCourse, RemovalOnCourse, Read, Same
  <2>9. CreationOnCourse(req[p])'
    BY <1>1, <1>3, <2>1, <2>2, <2>3, <2>4, <2>5, <2>6
       DEF OnCourse, CreationOnCourse, KeyLabels, Read, Same
  <2>10. DelegationOnCourse(req[p])'
    BY <1>1, <1>3, <2>1, <2>7 DEF OnCourse, DelegationOnCourse, EnsureLabels, Read, Same
  <2>11. GrantOnCourse(req[p])'
    BY <1>1, <2>1, <2>2, <2>3, <2>5 DEF OnCourse, GrantOnCourse, Read, Same
  <2>12. RotationOnCourse(req[p])'
    <3>1. SUFFICES ASSUME r.op = "rotate"
                   PROVE  RotationOnCourse(req[p])'
      BY <2>1 DEF RotationOnCourse, Read, Same
    <3>2. req'[p].pc = "rotate" /\ req'[p].todo = r.todo /\ req'[p].zone = r.zone
      BY <2>1, <2>6, <3>1 DEF Read, Same
    <3>3. RotationOnCourse(r)
      BY <1>1 DEF OnCourse
    <3>4. r.cur \in keys /\ z = r.zone
      BY <1>1, <3>1, <3>3 DEF RotationOnCourse, KeyLabels
    <3>5. ASSUME NEW v \in ListZoneOwners(r.zone)
          PROVE  Usable(v, r.zone)' \/ <<v, r.zone>> \in r.todo
      <4>1. CASE r.cur = <<v, r.zone>>
        BY <1>3, <1>5, <2>3, <2>4, <3>2, <3>4, <4>1 DEF Usable
      <4>2. CASE Usable(v, r.zone)
        BY <1>3, <2>3, <2>4, <3>2, <3>4, <4>2 DEF Usable
      <4>3. QED
        BY <1>1, <3>1, <3>3, <4>1, <4>2 DEF RotationOnCourse, KeyLabels
    <3>6. ListZoneOwners(req[p].zone)' = ListZoneOwners(r.zone)
      BY <1>3, <3>2 DEF ListZoneOwners
    <3>7. QED
      BY <3>1, <3>2, <3>3, <3>5, <3>6 DEF RotationOnCourse, KeyLabels, Usable
  <2>13. OnCourse(req[p])'
    BY <2>8, <2>9, <2>10, <2>11, <2>12 DEF OnCourse
  <2>14. ASSUME Agreed(p)
         PROVE  Agreed(p)'
    <3>1. AllAgreeBut(r.cur) /\ PairAtWork(r) /\ Found(r)
      BY <1>2, <2>14, HalfwayAgree DEF Agreed, Agrees
    <3>2. AllAgreeBut(req[p].cur)'
      <4>1. \A k \in Pair \ {r.cur} :
              /\ k \in keys' <=> k \in keys
              /\ k[1] \in allow'[k[2]] <=> k[1] \in allow[k[2]]
        BY <1>3, <2>3, <2>4 DEF Pair
      <4>2. req'[p].cur = r.cur
        BY <2>1 DEF Read
      <4>3. QED
        BY <1>3, <3>1, <4>1, <4>2, OthersUntouched
    <3>3. Founding(req[p])' <=> Founding(r)
      BY <2>1, <2>2 DEF Founding, Read, Same
    <3>4. r.cur \in keys' /\ u \in allow'[z] /\ (Owns(r.cur) <=> ~ Founding(r))
      BY <1>1, <1>2, <1>3, <2>4, <3>1 DEF PairAtWork
    <3>5. Found(req[p])'
      BY <1>3, <2>1, <2>7, <3>1 DEF Found, Read, Same, Owns, IsZoneOwner,
         ListZoneOwners, ZoneExists
    <3>6. CASE Founding(r)
      <4>1. req'[p].pc = "fetch"
        BY <2>1, <2>6, <3>6 DEF Founding, Read
      <4>2. Owns(req[p].cur)' <=> Owns(r.cur)
        BY <1>3, <2>1 DEF Owns, IsZoneOwner, ListZoneOwners, Read
      <4>3. Halfway(req[p])' /\ PairAtWork(req[p])'
        BY <1>3, <1>5, <2>1, <2>3, <3>3, <3>4, <3>6, <4>1, <4>2
           DEF Halfway, PairAtWork, Read
      <4>4. QED
        BY <3>2, <3>5, <4>3, HalfwayAgreed
    <3>7. CASE ~ Founding(r)
      <4>1. req'[p].pc \in {"rotate", "subtree", "grant"}
        BY <2>1, <2>6, <1>2, <3>7 DEF Founding, Read
      <4>2. Calm(req[p])'
        BY <4>1 DEF Calm, Halfway, KeyLabels, DeletionLabels
      <4>3. Settled(req[p].cur)'
        BY <1>3, <2>1, <3>4, <3>7 DEF Settled, Read, Owns, IsZoneOwner, ListZoneOwners
      <4>4. QED
        BY <3>2, <3>5, <4>1, <4>2, <4>3, PairSettled, CalmAgreed
    <3>8. QED
      BY <3>6, <3>7
  <2>15. QED
    BY <2>13, <2>14
<1>6. QED
  BY <1>4, <1>5 DEF AllowAdd

-------------------------------------------------------------------------------
(* Insertions, and the loop over the pairs to grant *)

\* One row more.
LEMMA InsertedOwner ==
  ASSUME RowsTyped, NEW u \in Users, NEW z \in Zones, CreateZone(u, z)
  PROVE  /\ \A k \in Pair : Owns(k)' <=> Owns(k) \/ k = <<u, z>>
         /\ \A w \in Zones : ZoneExists(w)' <=> ZoneExists(w) \/ w = z
<1>1. OwnersOf' = [OwnersOf EXCEPT ![z] = @ \cup {u}]
  BY CreateZoneOwners
<1>2. \A w \in Zones : OwnersOf[w] = ListZoneOwners(w)
  BY DEF OwnersOf
<1>3. \A w \in Zones : OwnersOf'[w] = ListZoneOwners(w)'
  BY DEF OwnersOf
<1>4. \A w \in Zones :
        ListZoneOwners(w)' = IF w = z THEN ListZoneOwners(w) \cup {u} ELSE ListZoneOwners(w)
  BY <1>1, <1>2, <1>3 DEF OwnersOf
<1>5. \A k \in Pair : Owns(k)' <=> Owns(k) \/ k = <<u, z>>
  BY <1>4 DEF Owns, IsZoneOwner, Pair
<1>6. \A w : ZoneExists(w)' <=> ListZoneOwners(w)' # {}
  BY DEF ZoneExists, ListZoneOwners
<1>7. QED
  BY <1>4, <1>5, <1>6, NoRowsNoOwners

LEMMA InsertRowStays ==
  ASSUME NEW p, Procs = {p}, Standing, InsertRow(p)
  PROVE  OnCourse(req[p])' /\ (Agreed(p) => Agreed(p)')
<1> DEFINE r == req[p]
<1>1. /\ RequestsTyped /\ r \in Request /\ r.pc = "insert" /\ OnCourse(r)
      /\ Vetted(r) /\ RowChecked(r)
  BY StandingAt DEF InsertRow
<1>2. r.op \in {"create", "join", "add"}
  BY <1>1 DEF Vetted, OpsAt
<1>3. UNCHANGED <<pdns, keys, allow>> /\ UNCHANGED deleg
  BY DEF InsertRow, dnsVars
<1>4. /\ r.cur \in Pair /\ MainPair(r) \in Pair /\ MainPair(r)[2] = r.zone
      /\ r.cur[1] \in Users /\ r.cur[2] \in Zones /\ r.cur = <<r.cur[1], r.cur[2]>>
      /\ \A t \in r.todo : t[2] \in Zones
  BY <1>1, MainPairTyped, MainPairIs DEF Request, Pair
<1>5. /\ \A k \in Pair : Owns(k)' <=> Owns(k) \/ k = r.cur
      /\ \A w \in Zones : ZoneExists(w)' <=> ZoneExists(w) \/ w = r.cur[2]
  BY <1>4, InsertedOwner DEF InsertRow, Standing, TypeOK
<1>6. Moved(r, req'[p], IF Founding(r) THEN "parent" ELSE "keyAdd")
  BY <1>1, GotoMoves DEF InsertRow, Founding
<1>7. MainPair(req[p])' = MainPair(r)
  BY <1>6 DEF MainPair, Fresh, Same, Moved
<1>8. Focused(req[p])'
  BY <1>6, <1>7 DEF Focused, Early, Moved, Founding
<1>9. CreationOnCourse(req[p])'
  <2>1. CreationOnCourse(r)
    BY <1>1 DEF OnCourse
  <2>2. \A k \in Pair : (Owns(k) => Owns(k)') /\ (Works(k)' <=> Works(k))
    BY <1>3, <1>5 DEF Works, Usable
  <2>3. Founding(r) => Works(MainPair(r)) /\ Owns(MainPair(r))'
    BY <1>1, <1>4, <1>5, <1>7, <2>1 DEF CreationOnCourse, Founding, Works, Usable
  <2>4. r.op = "create" => (Owns(MainPair(r)) /\ Works(MainPair(r)))'
    BY <1>1, <1>4, <1>6, <1>7, <2>1, <2>2, <2>3 DEF CreationOnCourse, Founding
  <2>5. req'[p].op = r.op /\ req'[p].pc \in {"parent", "keyAdd"}
    BY <1>6 DEF Moved, Same
  <2>6. QED
    BY <1>7, <2>4, <2>5 DEF CreationOnCourse
<1>10. DelegationOnCourse(req[p])'
  BY <1>1, <1>3, <1>6 DEF OnCourse, DelegationOnCourse, EnsureLabels, Moved, Same
<1>11. GrantOnCourse(req[p])'
  BY <1>1, <1>4, <1>5, <1>6, <1>7 DEF OnCourse, GrantOnCourse, Moved, Same
<1>12. OnCourse(req[p])'
  BY <1>2, <1>6, <1>8, <1>9, <1>10, <1>11 DEF OnCourse, RemovalOnCourse,
     RotationOnCourse, DeletionOnCourse, Moved, Same
<1>13. ASSUME Agreed(p)
       PROVE  Agreed(p)'
  <2>1. OthersAgree(r) /\ PairAtWork(r) /\ Found(r)
    BY <1>13 DEF Agreed, Agrees
  <2>2. \A k : (k \in keys' <=> k \in keys) /\ (k[1] \in allow'[k[2]] <=> k[1] \in allow[k[2]])
    BY <1>3
  <2>3. ~ Owns(r.cur)
    BY <1>1, <1>4 DEF RowChecked, Owns
  <2>4. AllAgreeBut(r.cur) /\ r.cur[2] \in pdns
    <3>1. CASE Founding(r)
      BY <1>1, <2>1, <3>1, HalfwayAgree DEF Halfway, PairAtWork
    <3>2. CASE ~ Founding(r)
      <4>1. Calm(r) /\ ZoneExists(r.cur[2])
        BY <1>1, <2>1, <3>2 DEF Calm, Halfway, KeyLabels, DeletionLabels, Found
      <4>2. QED
        BY <1>4, <2>1, <4>1, CalmSettled DEF AllAgree, AllAgreeBut
    <3>3. QED
      BY <3>1, <3>2
  <2>5. req'[p].cur = r.cur /\ req'[p].todo = r.todo /\ Same(r, req'[p])
    BY <1>6 DEF Moved
  <2>6. AllAgreeBut(req[p].cur)'
    <3>1. ASSUME NEW k \in Pair, k # r.cur
          PROVE  Settled(k)'
      BY <1>5, <2>2, <2>4, <3>1 DEF AllAgreeBut, Settled
    <3>2. ASSUME NEW w \in Zones, ZoneExists(w)'
          PROVE  w \in pdns'
      BY <1>3, <1>5, <2>4, <3>2 DEF AllAgreeBut
    <3>3. QED
      BY <2>5, <3>1, <3>2 DEF AllAgreeBut
  <2>7. Found(req[p])'
    BY <1>2, <1>4, <1>5, <1>6, <2>1, <2>5 DEF Found, Same, Moved, Founding
  <2>8. Owns(req[p].cur)'
    BY <1>4, <1>5, <2>5
  <2>9. CASE Founding(r)
    <3>1. Calm(req[p])' /\ req'[p].pc # "failed"
      BY <1>6, <2>9 DEF Moved, Calm, Halfway, KeyLabels, DeletionLabels
    <3>2. r.cur \in keys /\ r.cur[1] \in allow[r.cur[2]]
      BY <1>1, <2>1, <2>9 DEF PairAtWork, Halfway
    <3>3. Settled(req[p].cur)'
      BY <1>3, <2>5, <2>8, <3>2 DEF Settled
    <3>4. QED
      BY <2>6, <2>7, <3>1, <3>3, PairSettled, CalmAgreed
  <2>10. CASE ~ Founding(r)
    <3>1. req'[p].pc = "keyAdd" /\ Halfway(req[p])' /\ ~ Founding(req[p])'
      BY <1>6, <1>7, <2>5, <2>10 DEF Moved, Same, Halfway, KeyLabels, Founding
    <3>2. Calm(r)
      BY <1>1, <2>10 DEF Calm, Halfway, KeyLabels, DeletionLabels
    <3>3. Settled(r.cur)
      BY <1>4, <2>1, <3>2, CalmSettled DEF AllAgree
    <3>4. r.cur \notin keys' /\ r.cur[1] \notin allow'[r.cur[2]] /\ r.cur[2] \in pdns'
      BY <1>3, <2>3, <2>4, <3>3 DEF Settled
    <3>5. req'[p].op # "remove"
      BY <1>2, <2>5 DEF Same
    <3>6. PairAtWork(req[p])'
      BY <2>5, <2>8, <3>1, <3>4, <3>5 DEF PairAtWork
    <3>7. QED
      BY <2>6, <2>7, <3>1, <3>6, HalfwayAgreed
  <2>11. QED
    BY <2>9, <2>10
<1>14. QED
  BY <1>12, <1>13

LEMMA ListSubtreeStays ==
  ASSUME NEW p, Procs = {p}, Standing, ListSubtree(p)
  PROVE  OnCourse(req[p])' /\ (Agreed(p) => Agreed(p)')
<1> DEFINE r == req[p]
           m == MainPair(r)
           subtree == {m[1]} \X subzonesOf(r.zone)
<1>1. /\ RequestsTyped /\ r \in Request /\ r.pc = "subtree" /\ OnCourse(r)
      /\ Vetted(r)
  BY StandingAt DEF ListSubtree
<1>2. r.op \in {"join", "add", "remove"} /\ Calm(r)
  BY <1>1 DEF Vetted, OpsAt, Calm, Halfway, KeyLabels, DeletionLabels
<1>3. UNCHANGED <<rows, pdns, keys, allow>>
  BY DEF ListSubtree, dnsVars
<1>4. /\ Same(r, req'[p]) /\ req'[p].cur = r.cur /\ req'[p].todo = subtree
      /\ req'[p].pc = IF r.op = "remove" THEN "revoke" ELSE "grant"
  BY <1>1 DEF ListSubtree, Set, RequestsTyped, Request, Same
<1>5. MainPair(req[p])' = m
  BY <1>4 DEF MainPair, Fresh, Same
<1>6. Owns(m)' <=> Owns(m)
  BY <1>3, <1>4 DEF Owns, IsZoneOwner, ListZoneOwners, MainPair, Fresh, Same
<1>7. OnCourse(req[p])'
  <2>1. CASE r.op \in {"join", "add"}
    <3>1. Owns(m)
      BY <1>1, <2>1 DEF OnCourse, GrantOnCourse
    <3>2. Focused(req[p])' /\ req'[p].pc # "rowsDel"
      BY <1>4, <2>1 DEF Focused, Early
    <3>3. QED
      BY <1>4, <1>6, <2>1, <3>1, <3>2, GrantStays
  <2>2. CASE r.op = "remove"
    <3>1. RemovalOnCourse(r)
      BY <1>1 DEF OnCourse
    <3>2. m = <<r.target, r.zone>> /\ r.zone \in Zones
      BY <1>1, <2>2, MainPairIs DEF Request
    <3>3. ~ Owns(m) /\ m \notin keys /\ r.cur[1] = r.target
      BY <1>1, <2>2, <3>1 DEF RemovalOnCourse
    <3>4. m \notin subtree
      BY <3>2, BelowAssumption DEF subzonesOf
    <3>5. req'[p].pc = "revoke" /\ req'[p].op = "remove" /\ req'[p].zone = r.zone
          /\ req'[p].target = r.target
      BY <1>4, <2>2 DEF Same
    <3>6. \A t \in subtree : t[1] = r.target
      BY <3>2
    <3>7. subzonesOf(req[p].zone)' = subzonesOf(r.zone)
      BY <1>3, <3>5 DEF subzonesOf, ZoneExists
    <3>8. \A s \in subzonesOf(r.zone) : <<r.target, s>> \in subtree
      BY <3>2
    <3> HIDE DEF subtree
    <3>9. RemovalOnCourse(req[p])'
      BY <1>3, <1>4, <1>5, <1>6, <3>3, <3>4, <3>5, <3>6, <3>7, <3>8
         DEF RemovalOnCourse, KeyLabels
    <3>10. QED
      BY <3>5, <3>9 DEF OnCourse, Focused, Early, CreationOnCourse, DelegationOnCourse,
         GrantOnCourse, RotationOnCourse, DeletionOnCourse
  <2>3. QED
    BY <1>2, <2>1, <2>2
<1>8. ASSUME Agreed(p)
      PROVE  Agreed(p)'
  <2>1. Calm(req[p])' /\ req'[p].pc # "failed"
    BY <1>4 DEF Calm, Halfway, KeyLabels, DeletionLabels
  <2>2. \A t \in subtree : ZoneExists(t[2])
    BY DEF subzonesOf
  <2> HIDE DEF subtree
  <2>3. Found(req[p])'
    BY <1>2, <1>3, <1>4, <2>2 DEF Found, Same, ZoneExists
  <2>4. QED
    BY <1>2, <1>3, <1>8, <2>1, <2>3, QuietAgreed DEF Agreed
<1>9. QED
  BY <1>7, <1>8

LEMMA GrantNextStays ==
  ASSUME NEW p, Procs = {p}, Standing, GrantNext(p)
  PROVE  OnCourse(req[p])' /\ (Agreed(p) => Agreed(p)')
<1> DEFINE r == req[p]
<1>1. /\ RequestsTyped /\ r \in Request /\ r.pc = "grant" /\ OnCourse(r)
      /\ Vetted(r) /\ RowChecked(r)
  BY StandingAt DEF GrantNext
<1>2. r.op \in {"create", "join", "add"} /\ Calm(r)
  BY <1>1 DEF Vetted, OpsAt, Calm, Halfway, KeyLabels, DeletionLabels
<1>3. UNCHANGED <<rows, pdns, keys, allow>> /\ UNCHANGED deleg
  BY DEF GrantNext, dnsVars
<1>4. ASSUME Same(r, req'[p]), req'[p].pc \in {"grant", "insert", "ok"},
             req'[p].pc = "insert" /\ r.op = "create" => req'[p].cur # MainPair(r)
      PROVE  OnCourse(req[p])'
  <2>1. CASE r.op = "create"
    BY <1>1, <1>3, <1>4, <2>1, FoundedStays
  <2>2. CASE r.op \in {"join", "add"}
    <3>1. Owns(MainPair(r))
      BY <1>1, <2>2 DEF OnCourse, GrantOnCourse
    <3>2. MainPair(req[p])' = MainPair(r)
      BY <1>4 DEF MainPair, Fresh, Same
    <3>3. Owns(MainPair(req[p]))'
      BY <1>3, <3>1, <3>2 DEF Owns, IsZoneOwner, ListZoneOwners
    <3>4. Focused(req[p])'
      BY <1>4 DEF Focused, Early
    <3>5. QED
      BY <1>4, <2>2, <3>3, <3>4, GrantStays
  <2>3. QED
    BY <1>2, <2>1, <2>2
<1>5. CASE Reply(p, "ok")
  <2>1. Answered(r, req'[p], "ok")
    BY <1>1, <1>5, ReplyAnswers
  <2>2. QED
    BY <1>2, <1>3, <1>4, <2>1, RefusedAgreed DEF Answered
<1>6. ASSUME NEW t \in r.todo, Set(p, [r EXCEPT !.todo = @ \ {t}])
      PROVE  OnCourse(req[p])' /\ (Agreed(p) => Agreed(p)')
  <2>1. Same(r, req'[p]) /\ req'[p].pc = "grant" /\ req'[p].todo = r.todo \ {t}
    BY <1>1, <1>6 DEF Set, RequestsTyped, Request, Same
  <2>2. ASSUME Agreed(p)
        PROVE  Agreed(p)'
    <3>1. Calm(req[p])' /\ Found(req[p])'
      BY <1>1, <1>2, <1>3, <2>1, <2>2 DEF Agreed, Agrees, Found, Same, ZoneExists, Calm,
         Halfway, KeyLabels, DeletionLabels
    <3>2. QED
      BY <1>2, <1>3, <2>1, <2>2, <3>1, QuietAgreed DEF Agreed
  <2>3. QED
    BY <1>4, <2>1, <2>2
<1>7. ASSUME NEW t \in r.todo, Set(p, [Visit(r, t) EXCEPT !.pc = "insert"])
      PROVE  OnCourse(req[p])' /\ (Agreed(p) => Agreed(p)')
  <2>1. Turned(r, req'[p], t, "insert")
    BY <1>1, <1>7, VisitTurns
  <2>2. r.op = "create" => t # MainPair(r)
    BY <1>1 DEF RowChecked
  <2>3. ASSUME Agreed(p)
        PROVE  Agreed(p)'
    <3>1. ~ Founding(req[p])'
      BY <2>1, <2>2 DEF Founding, Turned, MainPair, Fresh, Same
    <3>2. Calm(req[p])' /\ Found(req[p])'
      BY <1>1, <1>2, <1>3, <2>1, <2>3, <3>1 DEF Agreed, Agrees, Found, Turned, Same,
         ZoneExists, Calm, Halfway, KeyLabels, DeletionLabels
    <3>3. QED
      BY <1>2, <1>3, <2>1, <2>3, <3>2, QuietAgreed DEF Agreed, Turned
  <2>4. QED
    BY <1>4, <2>1, <2>2, <2>3 DEF Turned
<1>8. QED
  BY <1>5, <1>6, <1>7 DEF GrantNext

LEMMA GrantStepStays ==
  ASSUME NEW p, Procs = {p}, Standing, GrantStep(p)
  PROVE  OnCourse(req[p])' /\ (Agreed(p) => Agreed(p)')
BY JoinExistsStays, JoinAuthorizeStays, CallerIsOwnerStays, AddSharingStays,
   AddTargetStays, InsertRowStays, KeyAddStays, AllowReadStays, AllowAddStays,
   ListSubtreeStays, GrantNextStays DEF GrantStep

-------------------------------------------------------------------------------
(* The steps of removals and rotations *)

\* A removal or rotation is on course by its own invariant alone.
LEMMA RevokingStays ==
  ASSUME NEW p, Same(req[p], req'[p]), req[p].op \in {"remove", "rotate"},
         Focused(req[p])', RemovalOnCourse(req[p])', RotationOnCourse(req[p])',
         req'[p].pc # "rowsDel"
  PROVE  OnCourse(req[p])'
BY DEF OnCourse, Same, CreationOnCourse, DelegationOnCourse, GrantOnCourse,
   DeletionOnCourse

LEMMA RemoveTargetStays ==
  ASSUME NEW p, Procs = {p}, Standing, RemoveTarget(p)
  PROVE  OnCourse(req[p])' /\ (Agreed(p) => Agreed(p)')
<1> DEFINE r == req[p]
<1>1. /\ RequestsTyped /\ r \in Request /\ r.pc = "targetOwner" /\ OnCourse(r)
      /\ r.op = "remove"
  BY StandingAt DEF RemoveTarget
<1>2. r.cur = MainPair(r) /\ MainPair(r) = <<r.target, r.zone>> /\ Calm(r)
  BY <1>1, MainPairIs DEF OnCourse, Focused, Early, Calm, Halfway, KeyLabels,
     DeletionLabels
<1>3. UNCHANGED <<rows, pdns, keys, allow>>
  BY DEF RemoveTarget, dnsVars
<1>4. CASE IsZoneOwner(r.target, r.zone) /\ Goto(p, "count")
  <2>1. Moved(r, req'[p], "count")
    BY <1>1, <1>4, GotoMoves
  <2>2. Owns(r.cur)
    BY <1>2, <1>4 DEF Owns
  <2>3. QED
    BY <1>1, <1>3, <2>1, <2>2, EarlyMoves, EarlyAgreed DEF Moved
<1>5. CASE Reply(p, "refused")
  <2>1. Answered(r, req'[p], "refused")
    BY <1>1, <1>5, ReplyAnswers
  <2>2. QED
    BY <1>2, <1>3, <2>1, RefusedOnCourse, RefusedAgreed
<1>6. QED
  BY <1>4, <1>5 DEF RemoveTarget

\* A zone with at most one row, of the owner looked at, has no other owner.
LEMMA LastOwner ==
  ASSUME RowsTyped, NEW z \in Zones, NEW u, IsZoneOwner(u, z),
         CountZoneOwners(z) <= 1
  PROVE  ListZoneOwners(z) = {u}
<1>1. IsFiniteSet(rows[z])
  BY DEF RowsTyped
<1>2. PICK w \in rows[z] : w.user = u
  BY DEF IsZoneOwner, ListZoneOwners
<1>3. Cardinality(rows[z] \ {w}) = Cardinality(rows[z]) - 1
  BY <1>1, FS_RemoveElement
<1>4. Cardinality(rows[z]) \in Nat /\ IsFiniteSet(rows[z] \ {w})
  BY <1>1, FS_CardinalityType, FS_RemoveElement
<1>5. Cardinality(rows[z] \ {w}) \in Nat
  BY <1>4, FS_CardinalityType
<1>6. Cardinality(rows[z] \ {w}) = 0
  BY <1>3, <1>4, <1>5 DEF CountZoneOwners
<1>7. rows[z] = {w}
  BY <1>4, <1>6, FS_EmptySet
<1>8. QED
  BY <1>2, <1>7 DEF ListZoneOwners

LEMMA CountOwnersStays ==
  ASSUME NEW p, Procs = {p}, Standing, CountOwners(p)
  PROVE  OnCourse(req[p])' /\ (Agreed(p) => Agreed(p)')
<1> DEFINE r == req[p]
<1>1. /\ RequestsTyped /\ r \in Request /\ r.pc = "count" /\ OnCourse(r)
      /\ Vetted(r)
  BY StandingAt DEF CountOwners
<1>2. r.op = "remove" /\ Calm(r) /\ RemovalOnCourse(r)
  BY <1>1 DEF Vetted, OpsAt, Calm, Halfway, KeyLabels, DeletionLabels, OnCourse
<1>3. UNCHANGED <<rows, pdns, keys, allow>>
  BY DEF CountOwners, dnsVars
<1>4. CASE Reply(p, "refused")
  <2>1. Answered(r, req'[p], "refused")
    BY <1>1, <1>4, ReplyAnswers
  <2>2. QED
    BY <1>2, <1>3, <2>1, RefusedOnCourse, RefusedAgreed
<1>5. ASSUME NEW pc \in {"rowDel", "revoke"}, Goto(p, pc),
             pc = "revoke" => CountZoneOwners(r.cur[2]) <= 1 /\ r.cur # MainPair(r)
      PROVE  OnCourse(req[p])' /\ (Agreed(p) => Agreed(p)')
  <2>1. Moved(r, req'[p], pc)
    BY <1>1, <1>5, GotoMoves
  <2>2. /\ MainPair(req[p])' = MainPair(r) /\ req'[p].zone = r.zone
        /\ req'[p].target = r.target /\ req'[p].op = "remove"
    BY <1>2, <2>1 DEF MainPair, Fresh, Moved, Same
  <2>3. subzonesOf(req[p].zone)' = subzonesOf(r.zone)
    BY <1>3, <2>2 DEF subzonesOf, ZoneExists
  <2>4. \A s : ListZoneOwners(s)' = ListZoneOwners(s)
    BY <1>3 DEF ListZoneOwners
  <2>5. Owns(MainPair(req[p]))' <=> Owns(MainPair(r))
    BY <1>3, <2>2 DEF Owns, IsZoneOwner, ListZoneOwners
  <2>6. ASSUME pc = "revoke", NEW s \in subzonesOf(r.zone), IsZoneOwner(r.target, s),
               r.cur = <<r.target, s>>
        PROVE  ListZoneOwners(s) = {r.target}
    <3>1. s \in Zones /\ CountZoneOwners(s) <= 1
      BY <1>5, <2>6 DEF subzonesOf
    <3>2. QED
      BY <2>6, <3>1, LastOwner DEF Standing, TypeOK
  <2>7. RemovalOnCourse(req[p])'
    BY <1>1, <1>2, <1>3, <1>5, <2>1, <2>2, <2>3, <2>4, <2>5, <2>6
       DEF RemovalOnCourse, Moved, KeyLabels, IsZoneOwner
  <2>8. RotationOnCourse(req[p])' /\ Focused(req[p])'
    BY <2>1, <2>2 DEF RotationOnCourse, Focused, Early, Moved
  <2>9. OnCourse(req[p])'
    BY <1>2, <2>1, <2>7, <2>8, RevokingStays DEF Moved
  <2>10. ASSUME Agreed(p)
         PROVE  Agreed(p)'
    <3>1. Calm(req[p])'
      BY <2>1 DEF Moved, Calm, Halfway, KeyLabels, DeletionLabels
    <3>2. Found(req[p])'
      BY <1>1, <1>3, <2>1, <2>2, <2>10 DEF Agreed, Agrees, Found, Moved, Owns,
         IsZoneOwner, ListZoneOwners
    <3>3. QED
      BY <1>2, <1>3, <2>1, <2>10, <3>1, <3>2, QuietAgreed DEF Agreed, Moved
  <2>11. QED
    BY <2>9, <2>10
<1>6. QED
  BY <1>4, <1>5 DEF CountOwners

\* One row less.
LEMMA DeletedOwner ==
  ASSUME RowsTyped, NEW u \in Users, NEW z \in Zones, DeleteZone(u, z)
  PROVE  /\ \A w \in Zones : ListZoneOwners(w)' =
              IF w = z THEN ListZoneOwners(w) \ {u} ELSE ListZoneOwners(w)
         /\ \A w \in Zones : ZoneExists(w)' => ZoneExists(w)
<1>1. OwnersOf' = [OwnersOf EXCEPT ![z] = @ \ {u}]
  BY DeleteZoneOwners
<1>2. \A w \in Zones : OwnersOf[w] = ListZoneOwners(w)
  BY DEF OwnersOf
<1>3. \A w \in Zones : OwnersOf'[w] = ListZoneOwners(w)'
  BY DEF OwnersOf
<1>4. \A w \in Zones :
        ListZoneOwners(w)' = IF w = z THEN ListZoneOwners(w) \ {u} ELSE ListZoneOwners(w)
  BY <1>1, <1>2, <1>3 DEF OwnersOf
<1>5. \A w : ZoneExists(w)' <=> ListZoneOwners(w)' # {}
  BY DEF ZoneExists, ListZoneOwners
<1>6. QED
  BY <1>4, <1>5, NoRowsNoOwners

LEMMA DeleteRowStays ==
  ASSUME NEW p, Procs = {p}, Standing, DeleteRow(p)
  PROVE  OnCourse(req[p])' /\ (Agreed(p) => Agreed(p)')
<1> DEFINE r == req[p]
<1>1. /\ RequestsTyped /\ r \in Request /\ r.pc = "rowDel" /\ OnCourse(r)
      /\ Vetted(r)
  BY StandingAt DEF DeleteRow
<1>2. r.op = "remove" /\ Calm(r) /\ RemovalOnCourse(r)
  BY <1>1 DEF Vetted, OpsAt, Calm, Halfway, KeyLabels, DeletionLabels, OnCourse
<1>3. UNCHANGED <<pdns, keys, allow>>
  BY DEF DeleteRow, dnsVars
<1>4. /\ r.cur \in Pair /\ MainPair(r) \in Pair
      /\ r.cur[1] \in Users /\ r.cur[2] \in Zones /\ r.cur = <<r.cur[1], r.cur[2]>>
  BY <1>1, MainPairTyped DEF Request, Pair
<1>5. /\ \A w \in Zones : ListZoneOwners(w)' =
           IF w = r.cur[2] THEN ListZoneOwners(w) \ {r.cur[1]} ELSE ListZoneOwners(w)
      /\ \A w \in Zones : ZoneExists(w)' => ZoneExists(w)
  BY <1>4, DeletedOwner DEF DeleteRow, Standing, TypeOK
<1>6. \A k \in Pair : Owns(k)' <=> Owns(k) /\ k # r.cur
  BY <1>4, <1>5 DEF Owns, IsZoneOwner, Pair
<1>7. Moved(r, req'[p], "allowReadDel")
  BY <1>1, GotoMoves DEF DeleteRow
<1>8. /\ MainPair(req[p])' = MainPair(r) /\ req'[p].zone = r.zone
      /\ req'[p].target = r.target /\ req'[p].op = "remove"
  BY <1>2, <1>7 DEF MainPair, Fresh, Moved, Same
<1>9. RemovalOnCourse(req[p])'
  <2>1. ~ Owns(r.cur)'
    BY <1>4, <1>6, <1>7 DEF Moved
  <2>2. ~ Owns(MainPair(r)) => ~ Owns(MainPair(r))'
    BY <1>4, <1>6, <1>8
  <2>3. ASSUME r.cur # MainPair(r), NEW s \in subzonesOf(req[p].zone)',
               r.target \in ListZoneOwners(s)'
        PROVE  ListZoneOwners(s)' = {r.target} \/ <<r.target, s>> \in r.todo
    <3>1. s \in subzonesOf(r.zone) /\ s \in Zones
      BY <1>5, <1>8, <2>3 DEF subzonesOf
    <3>2. IsZoneOwner(r.target, s) /\ r.cur # <<r.target, s>>
      BY <1>4, <1>5, <2>3, <3>1 DEF IsZoneOwner
    <3>3. ListZoneOwners(s) = {r.target} \/ <<r.target, s>> \in r.todo
      BY <1>1, <1>2, <2>3, <3>1, <3>2 DEF RemovalOnCourse
    <3>4. r.cur[1] = r.target
      BY <1>2 DEF RemovalOnCourse
    <3>5. QED
      BY <1>4, <1>5, <3>1, <3>2, <3>3, <3>4
  <2>4. req'[p].cur = r.cur /\ req'[p].todo = r.todo /\ req'[p].pc = "allowReadDel"
    BY <1>7 DEF Moved
  <2>5. \A s : IsZoneOwner(r.target, s)' <=> r.target \in ListZoneOwners(s)'
    BY <1>8 DEF IsZoneOwner
  <2>6. QED
    BY <1>1, <1>2, <1>3, <1>8, <2>1, <2>2, <2>3, <2>4, <2>5
       DEF RemovalOnCourse, KeyLabels, IsZoneOwner
<1>10. RotationOnCourse(req[p])' /\ Focused(req[p])'
  BY <1>7, <1>8 DEF RotationOnCourse, Focused, Early, Moved
<1>11. OnCourse(req[p])'
  BY <1>2, <1>7, <1>9, <1>10, RevokingStays DEF Moved
<1>12. ASSUME Agreed(p)
       PROVE  Agreed(p)'
  <2>1. AllAgree /\ Owns(r.cur)
    BY <1>1, <1>2, <1>12, CalmSettled DEF Agreed, Agrees, Found
  <2>2. ZoneExists(r.cur[2])
    BY <2>1, NoRowsNoOwners DEF Owns, IsZoneOwner
  <2>3. r.cur[2] \in pdns /\ r.cur \in keys /\ r.cur[1] \in allow[r.cur[2]]
    BY <1>4, <2>1, <2>2 DEF AllAgree, Settled
  <2>4. AllAgreeBut(req[p].cur)'
    <3>1. ASSUME NEW k \in Pair, k # r.cur
          PROVE  Settled(k)'
      BY <1>3, <1>6, <2>1, <3>1 DEF AllAgree, Settled
    <3>2. req'[p].cur = r.cur
      BY <1>7 DEF Moved
    <3>3. QED
      BY <1>3, <1>5, <2>1, <3>1, <3>2 DEF AllAgree, AllAgreeBut
  <2>5. ~ Owns(req[p].cur)'
    BY <1>4, <1>6, <1>7 DEF Moved
  <2>6. Halfway(req[p])' /\ PairAtWork(req[p])' /\ Found(req[p])'
    BY <1>3, <1>7, <1>8, <2>3, <2>5 DEF Halfway, KeyLabels, PairAtWork, Found, Moved,
       Founding
  <2>7. QED
    BY <2>4, <2>6, HalfwayAgreed
<1>13. QED
  BY <1>11, <1>12

\* A removal or rotation that only goes on to take the key of the current pair.
LEMMA RevokingOn ==
  ASSUME Standing, NEW p, req[p] \in Request, OnCourse(req[p]),
         Same(req[p], req'[p]), req[p].op \in {"remove", "rotate"},
         req[p].pc \in {"allowReadDel", "allowDel", "keyDel"},
         req'[p].pc \in {"allowReadDel", "allowDel", "keyDel", "keyAdd"},
         req[p].op = "remove" => req'[p].pc # "keyAdd",
         req'[p].cur = req[p].cur, req'[p].todo = req[p].todo, Focused(req[p])',
         UNCHANGED <<rows, pdns>>, keys' \subseteq keys,
         \A k \in Pair \ {req[p].cur} :
           /\ k \in keys' <=> k \in keys
           /\ k[1] \in allow'[k[2]] <=> k[1] \in allow[k[2]]
  PROVE  OnCourse(req[p])'
<1> DEFINE r == req[p]
<1>1. /\ MainPair(req[p])' = MainPair(r) /\ req'[p].zone = r.zone
      /\ req'[p].target = r.target /\ req'[p].op = r.op
  BY DEF MainPair, Fresh, Same
<1>2. \A s : ListZoneOwners(s)' = ListZoneOwners(s)
  BY DEF ListZoneOwners
<1>3. subzonesOf(req[p].zone)' = subzonesOf(r.zone)
  BY <1>1 DEF subzonesOf, ZoneExists
<1>4. Owns(MainPair(req[p]))' <=> Owns(MainPair(r))
  BY <1>1, <1>2 DEF Owns, IsZoneOwner
<1>5. Owns(req[p].cur)' <=> Owns(r.cur)
  BY <1>2 DEF Owns, IsZoneOwner
<1>6. RemovalOnCourse(req[p])'
  BY <1>1, <1>2, <1>3, <1>4, <1>5
     DEF OnCourse, RemovalOnCourse, KeyLabels, IsZoneOwner
<1>7. RotationOnCourse(req[p])'
  <2>1. SUFFICES ASSUME r.op = "rotate"
                 PROVE  RotationOnCourse(req[p])'
    BY <1>1 DEF RotationOnCourse
  <2>2. RotationOnCourse(r)
    BY DEF OnCourse
  <2>3. r.zone \in Zones
    BY DEF Request
  <2>4. ASSUME NEW u \in ListZoneOwners(r.zone), Usable(u, r.zone),
               r.cur # <<u, r.zone>>
        PROVE  Usable(u, r.zone)'
    <3>1. PICK k \in Pair : k = <<u, r.zone>>
      BY <2>3, <2>4, OwnersAreUsers DEF Pair, Standing, TypeOK
    <3>2. QED
      BY <1>1, <2>4, <3>1 DEF Usable
  <2>5. ListZoneOwners(req[p].zone)' = ListZoneOwners(r.zone)
    BY <1>1, <1>2 DEF ListZoneOwners
  <2>6. QED
    BY <1>1, <2>1, <2>2, <2>4, <2>5 DEF RotationOnCourse, KeyLabels, Usable
<1>8. QED
  BY <1>6, <1>7, RevokingStays

LEMMA AllowReadForDeleteStays ==
  ASSUME NEW p, Procs = {p}, Standing, AllowReadForDelete(p)
  PROVE  OnCourse(req[p])' /\ (Agreed(p) => Agreed(p)')
<1> DEFINE r == req[p]
<1>1. /\ RequestsTyped /\ r \in Request /\ r.pc = "allowReadDel" /\ OnCourse(r)
      /\ Vetted(r)
  BY StandingAt DEF AllowReadForDelete
<1>2. r.op \in {"remove", "rotate"} /\ Halfway(r)
  BY <1>1 DEF Vetted, OpsAt, Halfway, KeyLabels
<1>3. UNCHANGED <<rows, pdns, keys, allow>>
  BY DEF AllowReadForDelete, dnsVars
<1>4. CASE Set(p, [r EXCEPT !.pc = "allowDel", !.snap = allow[r.cur[2]]])
  <2>1. Read(r, req'[p], "allowDel", allow[r.cur[2]])
    BY <1>1, <1>4, ReadMoves
  <2>2. Focused(req[p])'
    BY <1>3, <2>1 DEF Focused, Early, Read
  <2>3. OnCourse(req[p])'
    BY <1>1, <1>2, <1>3, <2>1, <2>2, RevokingOn DEF Read
  <2>4. ASSUME Agreed(p)
        PROVE  Agreed(p)'
    <3>1. Halfway(req[p])'
      BY <2>1 DEF Halfway, KeyLabels, Read
    <3>2. r.cur \in keys /\ r.cur[1] \in allow[r.cur[2]]
      BY <1>1, <1>2, <2>4 DEF Agreed, Agrees, PairAtWork
    <3>3. QED
      BY <1>2, <1>3, <2>1, <2>4, <3>1, <3>2, HalfwayOn DEF Read
  <2>5. QED
    BY <2>3, <2>4
<1>5. CASE r.cur[2] \notin pdns /\ Goto(p, "keyDel")
  <2>1. Moved(r, req'[p], "keyDel")
    BY <1>1, <1>5, GotoMoves
  <2>2. Focused(req[p])'
    BY <2>1 DEF Focused, Early, Moved
  <2>3. OnCourse(req[p])'
    BY <1>1, <1>2, <1>3, <2>1, <2>2, RevokingOn DEF Moved
  <2>4. ~ Agreed(p)
    BY <1>2, <1>5 DEF Agreed, Agrees, PairAtWork
  <2>5. QED
    BY <2>3, <2>4
<1>6. QED
  BY <1>4, <1>5 DEF AllowReadForDelete

LEMMA AllowDeleteStays ==
  ASSUME NEW p, Procs = {p}, Standing, AllowDelete(p)
  PROVE  OnCourse(req[p])' /\ (Agreed(p) => Agreed(p)')
<1> DEFINE r == req[p]
           z == r.cur[2]
           u == r.cur[1]
<1>1. /\ RequestsTyped /\ r \in Request /\ r.pc = "allowDel" /\ OnCourse(r)
      /\ Vetted(r)
  BY StandingAt DEF AllowDelete
<1>2. r.op \in {"remove", "rotate"} /\ Halfway(r) /\ r.snap = allow[z]
  BY <1>1 DEF Vetted, OpsAt, Halfway, KeyLabels, OnCourse, Focused
<1>3. UNCHANGED <<rows, pdns, keys>>
  BY DEF AllowDelete
<1>4. Read(r, req'[p], "keyDel", {})
  BY <1>1, ReadMoves DEF AllowDelete
<1>5. r.cur \in Pair /\ z \in Zones /\ r.cur = <<u, z>>
  BY <1>1 DEF Request, Pair
<1>6. /\ \A w \in Zones : w # z => allow'[w] = allow[w]
      /\ allow'[z] = IF z \in pdns THEN allow[z] \ {u} ELSE allow[z]
  BY <1>2, <1>5 DEF AllowDelete, Standing, TypeOK, DnsTyped
<1>7. \A k \in Pair \ {r.cur} : k[1] \in allow'[k[2]] <=> k[1] \in allow[k[2]]
  BY <1>5, <1>6 DEF Pair
<1>8. Focused(req[p])'
  BY <1>4 DEF Focused, Early, Read
<1>9. OnCourse(req[p])'
  BY <1>1, <1>2, <1>3, <1>4, <1>7, <1>8, RevokingOn DEF Read
<1>10. ASSUME Agreed(p)
       PROVE  Agreed(p)'
  <2>1. Halfway(req[p])'
    BY <1>4 DEF Halfway, KeyLabels, Read
  <2>2. r.cur \in keys /\ u \notin allow'[z]
    BY <1>1, <1>2, <1>6, <1>10 DEF Agreed, Agrees, PairAtWork
  <2>3. QED
    BY <1>2, <1>3, <1>4, <1>7, <1>10, <2>1, <2>2, HalfwayOn DEF Read
<1>11. QED
  BY <1>9, <1>10

LEMMA KeyDeleteStays ==
  ASSUME NEW p, Procs = {p}, Standing, KeyDelete(p)
  PROVE  OnCourse(req[p])' /\ (Agreed(p) => Agreed(p)')
<1> DEFINE r == req[p]
<1>1. /\ RequestsTyped /\ r \in Request /\ r.pc = "keyDel" /\ OnCourse(r)
      /\ Vetted(r)
  BY StandingAt DEF KeyDelete
<1>2. r.op \in {"remove", "rotate"} /\ Halfway(r)
  BY <1>1 DEF Vetted, OpsAt, Halfway, KeyLabels
<1>3. UNCHANGED <<rows, pdns, allow>>
  BY DEF KeyDelete
<1>4. CASE r.cur \notin keys /\ Reply(p, "failed")
  <2>1. ~ Agreed(p)
    BY <1>1, <1>2, <1>4 DEF Agreed, Agrees, PairAtWork
  <2>2. QED
    BY <1>1, <1>4, <2>1, NeverRefused
<1>5. ASSUME keys' = keys \ {r.cur}, r.op = "rotate", Goto(p, "keyAdd")
      PROVE  OnCourse(req[p])' /\ (Agreed(p) => Agreed(p)')
  <2>1. Moved(r, req'[p], "keyAdd")
    BY <1>1, <1>5, GotoMoves
  <2>2. Focused(req[p])'
    BY <2>1 DEF Focused, Early, Moved
  <2>3. OnCourse(req[p])'
    BY <1>1, <1>2, <1>3, <1>5, <2>1, <2>2, RevokingOn DEF Moved
  <2>4. ASSUME Agreed(p)
        PROVE  Agreed(p)'
    <3>1. Halfway(req[p])'
      BY <2>1 DEF Halfway, KeyLabels, Moved
    <3>2. r.cur[1] \notin allow[r.cur[2]]
      BY <1>1, <1>2, <2>4 DEF Agreed, Agrees, PairAtWork
    <3>3. QED
      BY <1>2, <1>3, <1>5, <2>1, <2>4, <3>1, <3>2, HalfwayOn DEF Moved
  <2>5. QED
    BY <2>3, <2>4
<1>6. ASSUME keys' = keys \ {r.cur}, r.op = "remove",
             NEW pc \in {"subtree", "revoke"}, Goto(p, pc),
             pc = "subtree" <=> r.cur = MainPair(r)
      PROVE  OnCourse(req[p])' /\ (Agreed(p) => Agreed(p)')
  <2>1. Moved(r, req'[p], pc)
    BY <1>1, <1>6, GotoMoves
  <2>2. /\ MainPair(req[p])' = MainPair(r) /\ req'[p].zone = r.zone
        /\ req'[p].target = r.target /\ req'[p].op = "remove"
    BY <1>6, <2>1 DEF MainPair, Fresh, Moved, Same
  <2>3. subzonesOf(req[p].zone)' = subzonesOf(r.zone)
    BY <1>3, <2>2 DEF subzonesOf, ZoneExists
  <2>4. \A s : ListZoneOwners(s)' = ListZoneOwners(s)
    BY <1>3 DEF ListZoneOwners
  <2>5. Owns(MainPair(req[p]))' <=> Owns(MainPair(r))
    BY <2>2, <2>4 DEF Owns, IsZoneOwner
  <2>6. RemovalOnCourse(r)
    BY <1>1 DEF OnCourse
  <2>7. ~ Owns(MainPair(r)) /\ MainPair(r) \notin keys'
    BY <1>1, <1>6, <2>6 DEF RemovalOnCourse, KeyLabels
  <2>8. RemovalOnCourse(req[p])'
    BY <1>1, <1>6, <2>1, <2>2, <2>3, <2>4, <2>5, <2>6, <2>7
       DEF RemovalOnCourse, Moved, KeyLabels, IsZoneOwner
  <2>9. RotationOnCourse(req[p])' /\ Focused(req[p])'
    BY <2>1, <2>2 DEF RotationOnCourse, Focused, Early, Moved
  <2>10. OnCourse(req[p])'
    BY <1>2, <2>1, <2>8, <2>9, RevokingStays DEF Moved
  <2>11. ASSUME Agreed(p)
         PROVE  Agreed(p)'
    <3>1. AllAgreeBut(r.cur) /\ PairAtWork(r)
      BY <1>2, <2>11, HalfwayAgree DEF Agreed, Agrees
    <3>2. AllAgreeBut(req[p].cur)'
      <4>1. req'[p].cur = r.cur
        BY <2>1 DEF Moved
      <4>2. QED
        BY <1>3, <1>6, <3>1, <4>1, OthersUntouched
    <3>3. ~ Owns(r.cur) /\ r.cur[1] \notin allow[r.cur[2]]
      BY <1>1, <1>2, <1>6, <3>1 DEF PairAtWork
    <3>4. Settled(req[p].cur)'
      BY <1>3, <1>6, <2>1, <2>4, <3>3 DEF Settled, Moved, Owns, IsZoneOwner
    <3>5. Calm(req[p])' /\ Found(req[p])'
      BY <2>1, <2>2 DEF Moved, Calm, Halfway, KeyLabels, DeletionLabels, Found
    <3>6. QED
      BY <2>1, <3>2, <3>4, <3>5, PairSettled, CalmAgreed DEF Moved
  <2>12. QED
    BY <2>10, <2>11
<1>7. CASE r.op = "rotate"
  BY <1>4, <1>5, <1>7 DEF KeyDelete
<1>8. CASE r.op = "remove"
  BY <1>4, <1>6, <1>8 DEF KeyDelete
<1>9. QED
  BY <1>2, <1>7, <1>8

LEMMA RevokeNextStays ==
  ASSUME NEW p, Procs = {p}, Standing, RevokeNext(p)
  PROVE  OnCourse(req[p])' /\ (Agreed(p) => Agreed(p)')
<1> DEFINE r == req[p]
           m == MainPair(r)
<1>1. /\ RequestsTyped /\ r \in Request /\ r.pc = "revoke" /\ OnCourse(r)
      /\ Vetted(r)
  BY StandingAt DEF RevokeNext
<1>2. r.op = "remove" /\ Calm(r) /\ RemovalOnCourse(r)
  BY <1>1 DEF Vetted, OpsAt, Calm, Halfway, KeyLabels, DeletionLabels, OnCourse
<1>3. UNCHANGED <<rows, pdns, keys, allow>>
  BY DEF RevokeNext, dnsVars
<1>4. /\ \A t \in r.todo : t[1] = r.target /\ t \in Pair /\ t # m
      /\ ~ Owns(m) /\ m \notin keys /\ m[1] = r.target /\ r.cur[1] = r.target
      /\ \A s \in subzonesOf(r.zone) :
           IsZoneOwner(r.target, s) =>
             ListZoneOwners(s) = {r.target} \/ <<r.target, s>> \in r.todo
  BY <1>1, <1>2, MainPairIs DEF RemovalOnCourse, Request
<1>5. ASSUME Same(r, req'[p]), req'[p].pc \in {"count", "revoke", "ok"},
             NEW kept \in SUBSET r.todo, req'[p].todo = kept,
             req'[p].pc = "ok" => kept = {},
             req'[p].cur \in r.todo \cup {m, r.cur},
             req'[p].pc = "count" => req'[p].cur \in r.todo,
             \A t \in r.todo \ kept : \/ ~ IsZoneOwner(t[1], t[2])
                                      \/ req'[p].pc = "count" /\ req'[p].cur = t
      PROVE  OnCourse(req[p])'
  <2>1. /\ MainPair(req[p])' = m /\ req'[p].zone = r.zone
        /\ req'[p].target = r.target /\ req'[p].op = "remove"
    BY <1>2, <1>5 DEF MainPair, Fresh, Same
  <2>2. subzonesOf(req[p].zone)' = subzonesOf(r.zone)
    BY <1>3, <2>1 DEF subzonesOf, ZoneExists
  <2>3. \A s : ListZoneOwners(s)' = ListZoneOwners(s)
    BY <1>3 DEF ListZoneOwners
  <2>4. ~ Owns(MainPair(req[p]))'
    BY <1>4, <2>1, <2>3 DEF Owns, IsZoneOwner
  <2>5. ASSUME NEW s \in subzonesOf(r.zone), IsZoneOwner(r.target, s)
        PROVE  \/ ListZoneOwners(s) = {r.target}
               \/ <<r.target, s>> \in kept
               \/ req'[p].pc = "count" /\ req'[p].cur = <<r.target, s>>
    <3>1. ListZoneOwners(s) = {r.target} \/ <<r.target, s>> \in r.todo
      BY <1>4, <2>5
    <3>2. QED
      BY <1>5, <2>5, <3>1
  <2>6. RemovalOnCourse(req[p])'
    BY <1>3, <1>4, <1>5, <2>1, <2>2, <2>3, <2>4, <2>5
       DEF RemovalOnCourse, KeyLabels, IsZoneOwner
  <2>7. RotationOnCourse(req[p])' /\ Focused(req[p])'
    BY <1>5, <2>1 DEF RotationOnCourse, Focused, Early
  <2>8. QED
    BY <1>2, <1>5, <2>6, <2>7, RevokingStays
<1>6. CASE r.todo = {} /\ Reply(p, "ok")
  <2>1. Answered(r, req'[p], "ok")
    BY <1>1, <1>6, ReplyAnswers
  <2>2. OnCourse(req[p])'
    BY <1>5, <1>6, <2>1 DEF Answered
  <2>3. QED
    BY <1>2, <1>3, <2>1, <2>2, RefusedAgreed
<1>7. ASSUME NEW t \in r.todo, IsZoneOwner(t[1], t[2]),
             Set(p, [Visit(r, t) EXCEPT !.pc = "count"])
      PROVE  OnCourse(req[p])' /\ (Agreed(p) => Agreed(p)')
  <2>1. Turned(r, req'[p], t, "count")
    BY <1>1, <1>7, VisitTurns
  <2>2. OnCourse(req[p])'
    BY <1>5, <2>1 DEF Turned
  <2>3. ASSUME Agreed(p)
        PROVE  Agreed(p)'
    <3>1. Calm(req[p])'
      BY <2>1 DEF Turned, Calm, Halfway, KeyLabels, DeletionLabels
    <3>2. Owns(req[p].cur)'
      BY <1>3, <1>7, <2>1 DEF Owns, IsZoneOwner, ListZoneOwners, Turned
    <3>3. Found(req[p])'
      BY <1>2, <2>1, <3>2 DEF Found, Turned, Same
    <3>4. QED
      BY <1>2, <1>3, <2>1, <2>3, <3>1, <3>3, QuietAgreed DEF Agreed, Turned
  <2>4. QED
    BY <2>2, <2>3
<1>8. ASSUME NEW t \in r.todo, ~ IsZoneOwner(t[1], t[2]),
             Set(p, [r EXCEPT !.todo = @ \ {t}])
      PROVE  OnCourse(req[p])' /\ (Agreed(p) => Agreed(p)')
  <2>1. /\ Same(r, req'[p]) /\ req'[p].pc = "revoke" /\ req'[p].cur = r.cur
        /\ req'[p].todo = r.todo \ {t}
    BY <1>1, <1>8 DEF Set, RequestsTyped, Request, Same
  <2>2. OnCourse(req[p])'
    BY <1>5, <1>8, <2>1
  <2>3. ASSUME Agreed(p)
        PROVE  Agreed(p)'
    <3>1. Calm(req[p])' /\ Found(req[p])'
      BY <1>2, <2>1 DEF Calm, Halfway, KeyLabels, DeletionLabels, Found, Same
    <3>2. QED
      BY <1>2, <1>3, <2>1, <2>3, <3>1, QuietAgreed DEF Agreed
  <2>4. QED
    BY <2>2, <2>3
<1>9. QED
  BY <1>6, <1>7, <1>8 DEF RevokeNext

LEMMA ListOwnersStays ==
  ASSUME NEW p, Procs = {p}, Standing, ListOwners(p)
  PROVE  OnCourse(req[p])' /\ (Agreed(p) => Agreed(p)')
<1> DEFINE r == req[p]
           pairs == ListZoneOwners(r.zone) \X {r.zone}
<1>1. /\ RequestsTyped /\ r \in Request /\ r.pc = "listOwners" /\ Vetted(r)
  BY StandingAt DEF ListOwners
<1>2. r.op = "rotate" /\ Calm(r)
  BY <1>1 DEF Vetted, OpsAt, Calm, Halfway, KeyLabels, DeletionLabels
<1>3. UNCHANGED <<rows, pdns, keys, allow>>
  BY DEF ListOwners, dnsVars
<1>4. /\ Same(r, req'[p]) /\ req'[p].pc = "rotate" /\ req'[p].cur = r.cur
      /\ req'[p].todo = pairs
  BY <1>1 DEF ListOwners, Set, RequestsTyped, Request, Same
<1>5. \A t \in pairs : t[2] = r.zone /\ Owns(t)
  BY DEF Owns, IsZoneOwner
<1>6. \A u \in ListZoneOwners(r.zone) : <<u, r.zone>> \in pairs
  OBVIOUS
<1> HIDE DEF pairs
<1>7. req'[p].zone = r.zone /\ req'[p].op = "rotate"
  BY <1>2, <1>4 DEF Same
<1>8. ListZoneOwners(req[p].zone)' = ListZoneOwners(r.zone)
  BY <1>3, <1>7 DEF ListZoneOwners
<1>9. RotationOnCourse(req[p])'
  BY <1>4, <1>5, <1>6, <1>7, <1>8 DEF RotationOnCourse, KeyLabels
<1>10. OnCourse(req[p])'
  BY <1>2, <1>4, <1>7, <1>9, RevokingStays DEF RemovalOnCourse, Focused, Early
<1>11. ASSUME Agreed(p)
       PROVE  Agreed(p)'
  <2>1. \A t : Owns(t)' <=> Owns(t)
    BY <1>3 DEF Owns, IsZoneOwner, ListZoneOwners
  <2>2. Calm(req[p])' /\ Found(req[p])'
    BY <1>4, <1>5, <1>7, <2>1 DEF Calm, Halfway, KeyLabels, DeletionLabels, Found
  <2>3. QED
    BY <1>2, <1>3, <1>4, <1>11, <2>2, QuietAgreed DEF Agreed
<1>12. QED
  BY <1>10, <1>11

LEMMA RotateNextStays ==
  ASSUME NEW p, Procs = {p}, Standing, RotateNext(p)
  PROVE  OnCourse(req[p])' /\ (Agreed(p) => Agreed(p)')
<1> DEFINE r == req[p]
<1>1. /\ RequestsTyped /\ r \in Request /\ r.pc = "rotate" /\ OnCourse(r)
      /\ Vetted(r)
  BY StandingAt DEF RotateNext
<1>2. r.op = "rotate" /\ Calm(r) /\ RotationOnCourse(r)
  BY <1>1 DEF Vetted, OpsAt, Calm, Halfway, KeyLabels, DeletionLabels, OnCourse
<1>3. UNCHANGED <<rows, pdns, keys, allow>>
  BY DEF RotateNext, dnsVars
<1>4. ASSUME Same(r, req'[p])
      PROVE  /\ req'[p].zone = r.zone /\ req'[p].op = "rotate"
             /\ ListZoneOwners(req[p].zone)' = ListZoneOwners(r.zone)
             /\ \A u \in ListZoneOwners(r.zone) : Usable(u, r.zone)' <=> Usable(u, r.zone)
  BY <1>2, <1>3, <1>4 DEF Same, ListZoneOwners, Usable
<1>5. CASE r.todo = {} /\ Reply(p, "ok")
  <2>1. Answered(r, req'[p], "ok")
    BY <1>1, <1>5, ReplyAnswers
  <2>2. RotationOnCourse(req[p])'
    BY <1>1, <1>2, <1>3, <1>4, <1>5, <2>1
       DEF RotationOnCourse, Answered, KeyLabels, Usable
  <2>3. OnCourse(req[p])'
    BY <1>2, <1>4, <2>1, <2>2, RevokingStays
       DEF RemovalOnCourse, Focused, Early, Answered
  <2>4. QED
    BY <1>2, <1>3, <2>1, <2>3, RefusedAgreed
<1>6. ASSUME NEW t \in r.todo, Set(p, [Visit(r, t) EXCEPT !.pc = "allowReadDel"])
      PROVE  OnCourse(req[p])' /\ (Agreed(p) => Agreed(p)')
  <2>1. Turned(r, req'[p], t, "allowReadDel")
    BY <1>1, <1>6, VisitTurns
  <2>2. t \in Pair /\ t[2] = r.zone /\ r.zone \in Zones
    BY <1>1, <1>2 DEF RotationOnCourse, Request
  <2>3. RotationOnCourse(req[p])'
    BY <1>1, <1>2, <1>3, <1>4, <2>1, <2>2
       DEF RotationOnCourse, Turned, KeyLabels, Usable
  <2>4. OnCourse(req[p])'
    BY <1>2, <1>4, <2>1, <2>3, RevokingStays
       DEF RemovalOnCourse, Focused, Early, Turned
  <2>5. ASSUME Agreed(p)
        PROVE  Agreed(p)'
    <3>1. AllAgree /\ Found(r)
      BY <1>2, <2>5, CalmSettled DEF Agreed, Agrees
    <3>2. Owns(t) /\ Settled(t)
      BY <1>2, <2>2, <3>1 DEF Found, AllAgree
    <3>3. ZoneExists(t[2])
      BY <3>2, NoRowsNoOwners DEF Owns, IsZoneOwner
    <3>4. t \in keys /\ t[1] \in allow[t[2]] /\ t[2] \in pdns
      BY <2>2, <3>1, <3>2, <3>3 DEF AllAgree, Settled
    <3>5. AllAgreeBut(req[p].cur)'
      BY <1>3, <2>1, <3>1 DEF AllAgree, AllAgreeBut, Settled, Owns, IsZoneOwner,
         ListZoneOwners, ZoneExists, Turned
    <3>6. Owns(req[p].cur)'
      BY <1>3, <2>1, <3>2 DEF Owns, IsZoneOwner, ListZoneOwners, Turned
    <3>7. Halfway(req[p])' /\ PairAtWork(req[p])'
      BY <1>2, <1>3, <2>1, <3>4, <3>6 DEF Halfway, KeyLabels, PairAtWork, Turned, Same,
         Founding
    <3>8. Found(req[p])'
      BY <1>2, <1>3, <2>1, <3>1 DEF Found, Turned, Same, Owns, IsZoneOwner,
         ListZoneOwners
    <3>9. QED
      BY <3>5, <3>7, <3>8, HalfwayAgreed
  <2>6. QED
    BY <2>4, <2>5
<1>7. QED
  BY <1>5, <1>6 DEF RotateNext

LEMMA RevokeStepStays ==
  ASSUME NEW p, Procs = {p}, Standing, RevokeStep(p)
  PROVE  OnCourse(req[p])' /\ (Agreed(p) => Agreed(p)')
BY RemoveTargetStays, CountOwnersStays, DeleteRowStays, AllowReadForDeleteStays,
   AllowDeleteStays, KeyDeleteStays, RevokeNextStays, ListOwnersStays,
   RotateNextStays DEF RevokeStep

-------------------------------------------------------------------------------
(* The steps of deletions *)

LEMMA DeletingStays ==
  ASSUME NEW p, req'[p].op \in {"delete", "orphan"},
         req'[p].pc \notin Early \cup {"allowAdd", "allowDel", "rowsDel", "ok"}
  PROVE  OnCourse(req[p])'
BY DEF OnCourse, Focused, CreationOnCourse, DelegationOnCourse, GrantOnCourse,
   RemovalOnCourse, RotationOnCourse, DeletionOnCourse

LEMMA OrphanLookupStays ==
  ASSUME NEW p, Procs = {p}, Standing, OrphanLookup(p)
  PROVE  OnCourse(req[p])' /\ (Agreed(p) => Agreed(p)')
<1> DEFINE r == req[p]
<1>1. /\ RequestsTyped /\ r \in Request /\ r.pc = "lookup" /\ Vetted(r)
  BY StandingAt DEF OrphanLookup
<1>2. r.op = "orphan" /\ Calm(r)
  BY <1>1 DEF Vetted, OpsAt, Calm, Halfway, KeyLabels, DeletionLabels
<1>3. UNCHANGED <<rows, pdns, keys, allow>>
  BY DEF OrphanLookup, dnsVars
<1>4. CASE Reply(p, "refused")
  <2>1. Answered(r, req'[p], "refused")
    BY <1>1, <1>4, ReplyAnswers
  <2>2. QED
    BY <1>2, <1>3, <2>1, RefusedOnCourse, RefusedAgreed
<1>5. ASSUME NEW w \in GetZoneByName(r.zone),
             Set(p, [r EXCEPT !.pc = "ownSubs", !.caller = w.user])
      PROVE  OnCourse(req[p])' /\ (Agreed(p) => Agreed(p)')
  <2>1. /\ req'[p].op = "orphan" /\ req'[p].pc = "ownSubs"
        /\ req'[p].zone = r.zone /\ req'[p].todo = r.todo
    BY <1>1, <1>2, <1>5 DEF Set, RequestsTyped, Request
  <2>2. OnCourse(req[p])'
    BY <2>1, DeletingStays DEF Early
  <2>3. ZoneExists(r.zone)
    BY <1>5 DEF GetZoneByName, ZoneExists
  <2>4. Calm(req[p])' /\ Found(req[p])'
    BY <1>3, <2>1, <2>3 DEF Calm, Halfway, KeyLabels, DeletionLabels, Found, ZoneExists
  <2>5. Agreed(p) => Agreed(p)'
    BY <1>2, <1>3, <2>1, <2>4, QuietAgreed DEF Agreed
  <2>6. QED
    BY <2>2, <2>5
<1>6. QED
  BY <1>4, <1>5 DEF OrphanLookup

\* What is known of a deletion.
LEMMA DeletionAt ==
  ASSUME NEW p, Procs = {p}, Standing,
         NEW pc \in {"ownSubs", "listKeys", "keysDel", "zoneDel", "rowsDel"}, At(p, pc)
  PROVE  /\ RequestsTyped /\ req[p] \in Request /\ req[p].pc = pc /\ OnCourse(req[p])
         /\ req[p].op \in {"delete", "orphan"} /\ ~ Halfway(req[p])
         /\ req[p].zone \in Zones
<1>1. /\ RequestsTyped /\ req[p] \in Request /\ req[p].pc = pc /\ OnCourse(req[p])
      /\ Vetted(req[p])
  BY StandingAt
<1>2. req[p].op \in {"delete", "orphan"}
  BY <1>1 DEF Vetted, OpsAt
<1>3. QED
  BY <1>1, <1>2 DEF Halfway, KeyLabels, Request

LEMMA OwnSubzonesStays ==
  ASSUME NEW p, Procs = {p}, Standing, OwnSubzones(p)
  PROVE  OnCourse(req[p])' /\ (Agreed(p) => Agreed(p)')
<1> DEFINE r == req[p]
<1>1. /\ RequestsTyped /\ r \in Request /\ r.pc = "ownSubs" /\ Calm(r)
      /\ r.op \in {"delete", "orphan"}
  BY DeletionAt DEF OwnSubzones, Calm, DeletionLabels
<1>2. UNCHANGED <<rows, pdns, keys, allow>>
  BY DEF OwnSubzones, dnsVars
<1>3. CASE Reply(p, "refused")
  <2>1. Answered(r, req'[p], "refused")
    BY <1>1, <1>3, ReplyAnswers
  <2>2. QED
    BY <1>1, <1>2, <2>1, RefusedOnCourse, RefusedAgreed
<1>4. CASE Goto(p, "listKeys")
  <2>1. Moved(r, req'[p], "listKeys")
    BY <1>1, <1>4, GotoMoves
  <2>2. OnCourse(req[p])'
    BY <1>1, <2>1, DeletingStays DEF Early, Moved, Same
  <2>3. ASSUME Agreed(p)
        PROVE  Agreed(p)'
    <3>1. ZoneExists(r.zone)
      BY <1>1, <2>3 DEF Agreed, Agrees, Found
    <3>2. Calm(req[p])' /\ Found(req[p])'
      BY <1>1, <1>2, <2>1, <3>1 DEF Calm, Halfway, KeyLabels, DeletionLabels, Found,
         ZoneExists, Moved, Same
    <3>3. QED
      BY <1>1, <1>2, <2>1, <2>3, <3>2, QuietAgreed DEF Agreed, Moved
  <2>4. QED
    BY <2>2, <2>3
<1>5. QED
  BY <1>3, <1>4 DEF OwnSubzones

\* A deletion at work on its zone.
LEMMA DeletingAgreed ==
  ASSUME NEW p, req'[p].pc \in DeletionLabels, req'[p].op \in {"delete", "orphan"},
         \A k \in Pair : k[2] # req'[p].zone => Settled(k)',
         \A z \in Zones : ZoneExists(z)' =>
           z \in pdns' \/ (req'[p].pc = "rowsDel" /\ z = req'[p].zone),
         ZoneAtWork(req[p])'
  PROVE  Agreed(p)'
<1>1. ~ Halfway(req[p])'
  BY DEF Halfway, DeletionLabels, KeyLabels
<1>2. \A k \in Pair : k \notin Unsettled(req[p])' => k[2] # req'[p].zone
  BY DEF Unsettled
<1>3. OthersAgree(req[p])'
  BY <1>2 DEF OthersAgree
<1>4. PairAtWork(req[p])' /\ Found(req[p])'
  BY <1>1 DEF PairAtWork, Found, DeletionLabels
<1>5. QED
  BY <1>3, <1>4 DEF Agreed, Agrees, DeletionLabels

LEMMA DeletingAgree ==
  ASSUME NEW r, r.pc \in DeletionLabels, ~ Halfway(r), OthersAgree(r)
  PROVE  /\ \A k \in Pair : k[2] # r.zone => Settled(k)
         /\ \A z \in Zones : ZoneExists(z) => z \in pdns \/ (r.pc = "rowsDel" /\ z = r.zone)
BY DEF OthersAgree, Unsettled

LEMMA ListKeysStays ==
  ASSUME NEW p, Procs = {p}, Standing, ListKeys(p)
  PROVE  OnCourse(req[p])' /\ (Agreed(p) => Agreed(p)')
<1> DEFINE r == req[p]
           z == r.zone
           next == IF allow[z] = {} THEN "zoneDel" ELSE "keysDel"
<1>1. /\ RequestsTyped /\ r \in Request /\ r.pc = "listKeys" /\ Calm(r)
      /\ r.op \in {"delete", "orphan"} /\ z \in Zones
  BY DeletionAt DEF ListKeys, Calm, DeletionLabels
<1>2. UNCHANGED <<rows, pdns, keys, allow>>
  BY DEF ListKeys, dnsVars
<1>3. Agreed(p) => AllAgree /\ z \in pdns
  <2>1. SUFFICES ASSUME Agreed(p)
                 PROVE  AllAgree /\ z \in pdns
    OBVIOUS
  <2>2. AllAgree /\ ZoneExists(z)
    BY <1>1, <2>1, CalmSettled DEF Agreed, Agrees, Found
  <2>3. QED
    BY <1>1, <2>2 DEF AllAgree
<1>4. CASE z \notin pdns /\ Reply(p, "failed")
  BY <1>1, <1>3, <1>4, NeverRefused
<1>5. CASE z \in pdns /\ Set(p, [r EXCEPT !.snap = allow[z], !.pc = next])
  <2>1. /\ Same(r, req'[p]) /\ req'[p].pc = next /\ req'[p].snap = allow[z]
    BY <1>1, <1>5 DEF Set, RequestsTyped, Request, Same
  <2>2. OnCourse(req[p])'
    BY <1>1, <2>1, DeletingStays DEF Early, Same
  <2>3. ASSUME Agreed(p)
        PROVE  Agreed(p)'
    <3>1. AllAgree
      BY <1>3, <2>3
    <3>2. \A k : Settled(k)' <=> Settled(k)
      BY <1>2 DEF Settled, Owns, IsZoneOwner, ListZoneOwners
    <3>3. \A u \in Users : /\ <<u, z>> \in keys <=> u \in allow[z]
                           /\ u \in allow[z] <=> IsZoneOwner(u, z)
      <4>1. ASSUME NEW u \in Users
            PROVE  Settled(<<u, z>>)
        BY <1>1, <3>1 DEF AllAgree, Pair
      <4>2. QED
        BY <4>1 DEF Settled, Owns
    <3>4. req'[p].zone = z /\ req'[p].op \in {"delete", "orphan"}
      BY <1>1, <2>1 DEF Same
    <3>5. ZoneAtWork(req[p])'
      BY <1>2, <1>5, <2>1, <3>3, <3>4 DEF ZoneAtWork, IsZoneOwner, ListZoneOwners
    <3>6. QED
      BY <1>2, <2>1, <3>1, <3>2, <3>4, <3>5, DeletingAgreed
         DEF AllAgree, ZoneExists, DeletionLabels
  <2>4. QED
    BY <2>2, <2>3
<1>6. QED
  BY <1>4, <1>5 DEF ListKeys

LEMMA DeleteNextKeyStays ==
  ASSUME NEW p, Procs = {p}, Standing, DeleteNextKey(p)
  PROVE  OnCourse(req[p])' /\ (Agreed(p) => Agreed(p)')
<1> DEFINE r == req[p]
           z == r.zone
<1>1. /\ RequestsTyped /\ r \in Request /\ r.pc = "keysDel" /\ ~ Halfway(r)
      /\ r.op \in {"delete", "orphan"} /\ z \in Zones /\ r.snap \subseteq Users
  BY DeletionAt DEF DeleteNextKey, Request
<1>2. UNCHANGED <<rows, pdns, allow>>
  BY DEF DeleteNextKey
<1>3. ASSUME NEW u \in r.snap, <<u, z>> \notin keys, Reply(p, "failed")
      PROVE  OnCourse(req[p])' /\ (Agreed(p) => Agreed(p)')
  <2>1. ~ Agreed(p)
    BY <1>1, <1>3 DEF Agreed, Agrees, ZoneAtWork, DeletionLabels
  <2>2. QED
    BY <1>1, <1>3, <2>1, NeverRefused
<1>4. ASSUME NEW u \in r.snap, keys' = keys \ {<<u, z>>},
             Set(p, [r EXCEPT !.snap = @ \ {u},
                       !.pc = IF r.snap = {u} THEN "zoneDel" ELSE "keysDel"])
      PROVE  OnCourse(req[p])' /\ (Agreed(p) => Agreed(p)')
  <2>1. /\ Same(r, req'[p]) /\ req'[p].snap = r.snap \ {u}
        /\ req'[p].pc = IF r.snap = {u} THEN "zoneDel" ELSE "keysDel"
    BY <1>1, <1>4 DEF Set, RequestsTyped, Request, Same
  <2>2. req'[p].zone = z /\ req'[p].op \in {"delete", "orphan"}
    BY <1>1, <2>1 DEF Same
  <2>3. OnCourse(req[p])'
    BY <2>1, <2>2, DeletingStays DEF Early
  <2>4. ASSUME Agreed(p)
        PROVE  Agreed(p)'
    <3>1. /\ \A k \in Pair : k[2] # z => Settled(k)
          /\ \A w \in Zones : ZoneExists(w) => w \in pdns
      BY <1>1, <2>4, DeletingAgree DEF Agreed, DeletionLabels
    <3>2. ZoneAtWork(r)
      BY <2>4 DEF Agreed, Agrees
    <3>3. \A k \in Pair : k[2] # z => (Settled(k)' <=> Settled(k))
      BY <1>2, <1>4 DEF Settled, Owns, IsZoneOwner, ListZoneOwners
    <3>4. \A v : <<v, z>> \in keys' <=> <<v, z>> \in keys /\ v # u
      BY <1>4
    <3>5. ZoneAtWork(req[p])'
      BY <1>1, <1>2, <2>1, <2>2, <3>2, <3>4
         DEF ZoneAtWork, DeletionLabels, IsZoneOwner, ListZoneOwners
    <3>6. QED
      BY <1>2, <2>1, <2>2, <3>1, <3>3, <3>5, DeletingAgreed DEF ZoneExists, DeletionLabels
  <2>5. QED
    BY <2>3, <2>4
<1>5. QED
  BY <1>3, <1>4 DEF DeleteNextKey

LEMMA DeleteFromDnsStays ==
  ASSUME NEW p, Procs = {p}, Standing, DeleteFromDns(p)
  PROVE  OnCourse(req[p])' /\ (Agreed(p) => Agreed(p)')
<1> DEFINE r == req[p]
           z == r.zone
<1>1. /\ RequestsTyped /\ r \in Request /\ r.pc = "zoneDel" /\ ~ Halfway(r)
      /\ r.op \in {"delete", "orphan"} /\ z \in Zones
  BY DeletionAt DEF DeleteFromDns
<1>2. UNCHANGED rows
  BY DEF DeleteFromDns
<1>3. CASE z \notin pdns /\ Reply(p, "failed")
  <2>1. ~ Agreed(p)
    BY <1>1, <1>3 DEF Agreed, Agrees, ZoneAtWork, DeletionLabels
  <2>2. QED
    BY <1>1, <1>3, <2>1, NeverRefused
<1>4. CASE Goto(p, "rowsDel") /\ ZonesDelete(z)
  <2>1. Moved(r, req'[p], "rowsDel")
    BY <1>1, <1>4, GotoMoves
  <2>2. req'[p].zone = z /\ req'[p].op \in {"delete", "orphan"} /\ req'[p].pc = "rowsDel"
    BY <1>1, <2>1 DEF Moved, Same
  <2>3. /\ pdns' = pdns \ {z} /\ UNCHANGED keys
        /\ \A w \in Zones : allow'[w] = IF w = z THEN {} ELSE allow[w]
    BY <1>4 DEF ZonesDelete, Standing, TypeOK, DnsTyped
  <2>4. OnCourse(req[p])'
    BY <2>2, <2>3 DEF OnCourse, Focused, Early, CreationOnCourse, DelegationOnCourse,
       GrantOnCourse, RemovalOnCourse, RotationOnCourse, DeletionOnCourse
  <2>5. ASSUME Agreed(p)
        PROVE  Agreed(p)'
    <3>1. /\ \A k \in Pair : k[2] # z => Settled(k)
          /\ \A w \in Zones : ZoneExists(w) => w \in pdns
      BY <1>1, <2>5, DeletingAgree DEF Agreed, DeletionLabels
    <3>2. ZoneAtWork(r)
      BY <2>5 DEF Agreed, Agrees
    <3>3. \A k \in Pair : k[2] # z => (Settled(k)' <=> Settled(k))
      BY <1>2, <2>3 DEF Settled, Owns, IsZoneOwner, ListZoneOwners, Pair
    <3>4. ZoneAtWork(req[p])'
      BY <1>1, <2>2, <2>3, <3>2 DEF ZoneAtWork, DeletionLabels
    <3>5. \A w : ZoneExists(w)' <=> ZoneExists(w)
      BY <1>2 DEF ZoneExists
    <3>6. QED
      BY <2>2, <2>3, <3>1, <3>3, <3>4, <3>5, DeletingAgreed DEF DeletionLabels
  <2>6. QED
    BY <2>4, <2>5
<1>5. QED
  BY <1>3, <1>4 DEF DeleteFromDns

LEMMA DeleteRowsStays ==
  ASSUME NEW p, Procs = {p}, Standing, DeleteRows(p)
  PROVE  OnCourse(req[p])' /\ (Agreed(p) => Agreed(p)')
<1> DEFINE r == req[p]
           z == r.zone
<1>1. /\ RequestsTyped /\ r \in Request /\ r.pc = "rowsDel" /\ ~ Halfway(r)
      /\ r.op \in {"delete", "orphan"} /\ z \in Zones /\ OnCourse(r)
  BY DeletionAt DEF DeleteRows
<1>2. UNCHANGED <<pdns, keys, allow>>
  BY DEF DeleteRows, dnsVars
<1>3. Answered(r, req'[p], "ok")
  BY <1>1, ReplyAnswers DEF DeleteRows
<1>4. \A w \in Zones : rows'[w] = IF w = z THEN {} ELSE rows[w]
  BY DEF DeleteRows, DeleteAllZoneOwners, Standing, TypeOK, RowsTyped
<1>5. /\ req'[p].zone = z /\ req'[p].op \in {"delete", "orphan"} /\ req'[p].pc = "ok"
      /\ req'[p].todo = {}
  BY <1>1, <1>3 DEF Answered, Same
<1>6. ~ ZoneExists(req[p].zone)' /\ z \notin pdns'
  BY <1>1, <1>2, <1>4, <1>5 DEF ZoneExists, OnCourse, DeletionOnCourse
<1>7. OnCourse(req[p])'
  BY <1>5, <1>6 DEF OnCourse, Focused, Early, CreationOnCourse, DelegationOnCourse,
     GrantOnCourse, RemovalOnCourse, RotationOnCourse, DeletionOnCourse
<1>8. ASSUME Agreed(p)
      PROVE  Agreed(p)'
  <2>1. /\ \A k \in Pair : k[2] # z => Settled(k)
        /\ \A w \in Zones : ZoneExists(w) => w \in pdns \/ w = z
    BY <1>1, <1>8, DeletingAgree DEF Agreed, DeletionLabels
  <2>2. (\A u \in Users : <<u, z>> \notin keys) /\ allow[z] = {}
    BY <1>1, <1>8 DEF Agreed, Agrees, ZoneAtWork, DeletionLabels
  <2>3. ASSUME NEW k \in Pair
        PROVE  Settled(k)'
    <3>1. CASE k[2] # z
      <4>1. Owns(k)' <=> Owns(k)
        BY <1>4, <3>1 DEF Owns, IsZoneOwner, ListZoneOwners, Pair
      <4>2. QED
        BY <1>2, <2>1, <3>1, <4>1 DEF Settled
    <3>2. CASE k[2] = z
      <4>1. ~ Owns(k)'
        BY <1>1, <1>4, <3>2 DEF Owns, IsZoneOwner, ListZoneOwners
      <4>2. k \notin keys /\ k[1] \notin allow[k[2]]
        BY <2>2, <3>2 DEF Pair
      <4>3. QED
        BY <1>2, <4>1, <4>2 DEF Settled
    <3>3. QED
      BY <3>1, <3>2
  <2>4. AllAgree'
    BY <1>2, <1>4, <2>1, <2>3 DEF AllAgree, ZoneExists
  <2>5. Calm(req[p])' /\ Found(req[p])'
    BY <1>5 DEF Calm, Halfway, KeyLabels, DeletionLabels, Found
  <2>6. QED
    BY <1>5, <2>4, <2>5, CalmAgreed
<1>9. QED
  BY <1>7, <1>8

LEMMA DeleteStepStays ==
  ASSUME NEW p, Procs = {p}, Standing, DeleteStep(p)
  PROVE  OnCourse(req[p])' /\ (Agreed(p) => Agreed(p)')
BY OrphanLookupStays, OwnSubzonesStays, ListKeysStays, DeleteNextKeyStays,
   DeleteFromDnsStays, DeleteRowsStays DEF DeleteStep

-------------------------------------------------------------------------------
(* Receiving, answering and failing *)

LEMMA ReceiveStays ==
  ASSUME NEW p, Procs = {p}, Standing, Receive(p)
  PROVE  OnCourse(req[p])' /\ (OthersAgree(req[p]) => Agreed(p)')
<1>1. req[p].pc = "idle" /\ RequestsTyped
  BY DEF Receive, At, Standing, TypeOK
<1>2. PICK op \in Ops, login \in Logins, caller \in Users, zone \in Zones,
           target \in Users :
        Set(p, Fresh(op, login, caller, zone, target, FirstLabel(op)))
  BY DEF Receive
<1> DEFINE s == Fresh(op, login, caller, zone, target, FirstLabel(op))
<1>3. /\ s.pc = FirstLabel(op) /\ s.op = op /\ s.todo = {} /\ s.cur = MainPair(s)
      /\ s.target = target
  BY DEF Fresh, MainPair
<1>4. op \in AllOps
  BY ServiceAssumption
<1>5. /\ op = "create" => s.pc = "authorize"
      /\ op = "join" => s.pc = "exists"
      /\ s.pc \in {"authorize", "exists", "lookup", "isOwner"}
  BY <1>3, <1>4 DEF FirstLabel, AllOps
<1>6. op = "remove" => s.cur[1] = s.target
  BY <1>3 DEF MainPair, Fresh
<1>7. req'[p] = s
  BY <1>1, <1>2 DEF Set, RequestsTyped
<1> HIDE DEF s
<1>8. MainPair(req[p])' = req'[p].cur
  BY <1>3, <1>7 DEF MainPair, Fresh
<1>9. OnCourse(req[p])'
  <2>1. Focused(req[p])' /\ CreationOnCourse(req[p])' /\ DelegationOnCourse(req[p])'
    BY <1>3, <1>5, <1>7, <1>8 DEF Focused, CreationOnCourse, DelegationOnCourse,
       EnsureLabels, KeyLabels
  <2>2. GrantOnCourse(req[p])' /\ RotationOnCourse(req[p])' /\ DeletionOnCourse(req[p])'
    BY <1>3, <1>5, <1>7 DEF GrantOnCourse, RotationOnCourse, DeletionOnCourse, KeyLabels
  <2>3. RemovalOnCourse(req[p])'
    BY <1>3, <1>5, <1>6, <1>7 DEF RemovalOnCourse, KeyLabels
  <2>4. QED
    BY <2>1, <2>2, <2>3 DEF OnCourse
<1>10. ASSUME OthersAgree(req[p])
       PROVE  Agreed(p)'
  <2>1. Calm(req[p])
    BY <1>1 DEF Calm, Halfway, KeyLabels, DeletionLabels
  <2>2. Calm(req[p])' /\ Found(req[p])' /\ req'[p].pc # "failed"
    BY <1>3, <1>5, <1>7 DEF Calm, Halfway, KeyLabels, DeletionLabels, Found
  <2>3. UNCHANGED <<rows, pdns, keys, allow>>
    BY DEF Receive, dnsVars
  <2>4. QED
    BY <1>10, <2>1, <2>2, <2>3, QuietAgreed
<1>11. QED
  BY <1>9, <1>10

\* With nothing in flight the stores agree about everything.
LEMMA RespondStays ==
  ASSUME NEW p, Procs = {p}, Standing, Respond(p)
  PROVE  req'[p] = Idle /\ (Agreed(p) => OthersAgree(req[p])')
<1>1. req'[p] = Idle
  BY DEF Respond, Set, Standing, TypeOK, RequestsTyped
<1>2. ASSUME Agreed(p)
      PROVE  OthersAgree(req[p])'
  <2>1. Calm(req[p])
    BY DEF Respond, Replied, Calm, Halfway, KeyLabels, DeletionLabels
  <2>2. AllAgree
    BY <1>2, <2>1, CalmSettled DEF Agreed
  <2>3. UNCHANGED <<rows, pdns, keys, allow>>
    BY DEF Respond, dnsVars
  <2>4. QED
    BY <2>2, <2>3 DEF AllAgree, OthersAgree, Settled, Owns, IsZoneOwner,
       ListZoneOwners, ZoneExists
<1>3. QED
  BY <1>1, <1>2

LEMMA CallFailsStays ==
  ASSUME NEW p, Procs = {p}, Standing, CallFails(p)
  PROVE  OnCourse(req[p])'
<1> DEFINE r == req[p]
<1>1. RequestsTyped /\ r \in Request
  BY DEF CallFails, BetweenCalls, Standing, TypeOK, RequestsTyped, Idle
<1>2. r.pc # "idle"
  BY <1>1 DEF Request, Labels, Replied
<1>3. OnCourse(r) /\ Vetted(r)
  BY <1>2, StandingAt DEF At
<1>4. UNCHANGED <<rows, pdns, keys, allow>> /\ UNCHANGED deleg
  BY DEF CallFails, dnsVars
<1>5. CASE Reply(p, "failed")
  BY <1>1, <1>5, ReplyAnswers, RefusedOnCourse
<1>6. ASSUME r.pc \in DOMAIN AfterIgnoredError, Goto(p, AfterIgnoredError[r.pc])
      PROVE  OnCourse(req[p])'
  <2>1. Moved(r, req'[p], AfterIgnoredError[r.pc])
    BY <1>1, <1>6, GotoMoves
  <2>2. CASE r.pc \in {"allowReadDel", "allowDel"}
    <3>1. r.op \in {"remove", "rotate"}
      BY <1>3, <2>2 DEF Vetted, OpsAt
    <3>2. req'[p].pc = "keyDel"
      BY <2>1, <2>2 DEF Moved, AfterIgnoredError
    <3>3. Focused(req[p])'
      BY <3>2 DEF Focused, Early
    <3>4. QED
      BY <1>1, <1>3, <1>4, <2>1, <2>2, <3>1, <3>2, <3>3, RevokingOn DEF Moved
  <2>3. CASE r.pc \in {"interGet", "nsDrop", "dropZone", "dropKey"}
    <3>1. r.op = "create" /\ r.cur = MainPair(r) /\ DelegationOnCourse(r)
      BY <1>3, <2>3 DEF Vetted, OpsAt, OnCourse, Focused, Early
    <3>2. /\ req'[p].pc \in {"interAdd", "nsAdd", "dropKey", "addZone"}
          /\ req'[p].pc \in {"interAdd", "nsAdd"} <=> r.pc \in {"interGet", "nsDrop"}
      BY <2>1, <2>3 DEF Moved, AfterIgnoredError
    <3>3. DelegationOnCourse(req[p])'
      BY <1>4, <2>1, <2>3, <3>1, <3>2 DEF DelegationOnCourse, EnsureLabels, Moved, Same
    <3>4. QED
      BY <2>1, <3>1, <3>2, <3>3, EarlyStays DEF Moved, Early
  <2>4. QED
    BY <1>6, <2>2, <2>3 DEF AfterIgnoredError
<1>7. QED
  BY <1>5, <1>6 DEF CallFails

LEMMA StepStays ==
  ASSUME NEW p, Procs = {p}, Standing, Step(p), ~ Respond(p)
  PROVE  OnCourse(req[p])' /\ (Agreed(p) => Agreed(p)')
BY CreateStepStays, GrantStepStays, RevokeStepStays, DeleteStepStays DEF Step

-------------------------------------------------------------------------------
(* The two invariants *)

\* One request at a time: whatever calls of this or of earlier requests failed, a
\* request is as far as its label says with every pair and zone it changes.
THEOREM CourseInvariant ==
  ASSUME NEW p, Procs = {p}
  PROVE  Spec => []CourseInv
<1>1. ASSUME TypeOK, PolicyInv, AloneInv, CourseInv, [Next]_vars
      PROVE  CourseInv'
  <2> USE <1>1
  <2>1. Standing
    BY DEF Standing
  <2>2. CASE Receive(p)
    BY <2>1, <2>2, ReceiveStays DEF CourseInv
  <2>3. CASE Step(p) /\ ~ Respond(p)
    BY <2>1, <2>3, StepStays DEF CourseInv
  <2>4. CASE Respond(p)
    BY <2>1, <2>4, RespondStays DEF CourseInv
  <2>5. CASE CallFails(p)
    BY <2>1, <2>5, CallFailsStays DEF CourseInv
  <2>6. CASE Crash
    BY <2>6 DEF Crash, CourseInv
  <2>7. CASE UNCHANGED vars
    <3>1. ASSUME req[p] # Idle
          PROVE  OnCourse(req[p])'
      <4>1. OnCourse(req[p])
        BY <3>1 DEF CourseInv
      <4>2. MainPair(req[p])' = MainPair(req[p])
        BY <2>7 DEF vars, MainPair
      <4>3. Focused(req[p])' /\ CreationOnCourse(req[p])' /\ DelegationOnCourse(req[p])'
        BY <2>7, <4>1, <4>2 DEF vars, OnCourse, Focused, CreationOnCourse, DelegationOnCourse,
           Owns, IsZoneOwner, ListZoneOwners, Works, Usable
      <4>4. GrantOnCourse(req[p])' /\ RotationOnCourse(req[p])' /\ DeletionOnCourse(req[p])'
        BY <2>7, <4>1, <4>2 DEF vars, OnCourse, GrantOnCourse, RotationOnCourse,
           DeletionOnCourse, Owns, IsZoneOwner, ListZoneOwners, Usable, ZoneExists
      <4>5. RemovalOnCourse(req[p])'
        BY <2>7, <4>1, <4>2 DEF vars, OnCourse, RemovalOnCourse, Owns, IsZoneOwner,
           ListZoneOwners, subzonesOf, ZoneExists
      <4>6. QED
        BY <4>3, <4>4, <4>5 DEF OnCourse
    <3>2. QED
      BY <2>7, <3>1 DEF CourseInv, vars
  <2>8. QED
    BY <2>2, <2>3, <2>4, <2>5, <2>6, <2>7 DEF Next
<1>2. Init => CourseInv
  BY DEF Init, CourseInv
<1>3. Spec => []AloneInv
  BY AloneInvariant
<1>4. QED
  BY <1>1, <1>2, <1>3, TypeCorrect, PolicyInvariant, PTL DEF Spec

LEMMA StepStarts ==
  ASSUME NEW p \in Procs, Step(p)
  PROVE  req[p].pc # "idle"
<1>1. CASE CreateStep(p)
  BY <1>1 DEF CreateStep, Authorize, ParentDefinition, CreateExists, IntermediateGet,
     IntermediateAdd, DelegationDrop, DelegationAdd, DropZone, DropKey, AddZone,
     FetchZone, FindParent, ParentSharing, ParentOwners, At
<1>2. CASE GrantStep(p)
  BY <1>2 DEF GrantStep, JoinExists, JoinAuthorize, CallerIsOwner, AddSharing,
     AddTarget, InsertRow, KeyAdd, AllowRead, AllowAdd, ListSubtree, GrantNext, At
<1>3. CASE RevokeStep(p)
  BY <1>3 DEF RevokeStep, RemoveTarget, CountOwners, DeleteRow, AllowReadForDelete,
     AllowDelete, KeyDelete, RevokeNext, ListOwners, RotateNext, At
<1>4. CASE DeleteStep(p)
  BY <1>4 DEF DeleteStep, OrphanLookup, OwnSubzones, ListKeys, DeleteNextKey,
     DeleteFromDns, DeleteRows, At
<1>5. CASE Respond(p)
  BY <1>5 DEF Respond, Replied
<1>6. QED
  BY <1>1, <1>2, <1>3, <1>4, <1>5 DEF Step

LEMMA InitAgrees == Init => AllAgree
<1> SUFFICES ASSUME Init
             PROVE  AllAgree
  OBVIOUS
<1>1. PICK table \in InitTables : InitWith(table)
  BY DEF Init
<1>2. table \in [Zones -> Seq(Users)]
  BY ServiceAssumption
<1>3. ASSUME NEW u \in Users, NEW z \in Zones
      PROVE  /\ IsZoneOwner(u, z) <=> \E i \in DOMAIN table[z] : table[z][i] = u
             /\ <<u, z>> \in KeysFor(table) <=> \E i \in DOMAIN table[z] : table[z][i] = u
  <2>1. rows[z] = {[user |-> table[z][i], id |-> i] : i \in DOMAIN table[z]}
    BY <1>1 DEF InitWith
  <2>2. IsZoneOwner(u, z) <=> \E w \in rows[z] : w.user = u
    BY DEF IsZoneOwner, ListZoneOwners
  <2>3. <<u, z>> \in KeysFor(table) <=> \E i \in DOMAIN table[z] : table[z][i] = u
    BY DEF KeysFor, Pair
  <2>4. (\E w \in rows[z] : w.user = u) <=> \E i \in DOMAIN table[z] : table[z][i] = u
    <3>1. ASSUME NEW w \in rows[z], w.user = u
          PROVE  \E i \in DOMAIN table[z] : table[z][i] = u
      BY <2>1, <3>1
    <3>2. ASSUME NEW i \in DOMAIN table[z], table[z][i] = u
          PROVE  \E w \in rows[z] : w.user = u
      <4>1. [user |-> table[z][i], id |-> i] \in rows[z]
        BY <2>1
      <4>2. QED
        BY <3>2, <4>1
    <3>3. QED
      BY <3>1, <3>2
  <2>5. QED
    BY <2>2, <2>3, <2>4
<1>4. ASSUME NEW k \in Pair
      PROVE  Settled(k)
  <2>1. PICK u \in Users, z \in Zones : k = <<u, z>>
    BY DEF Pair
  <2>2. keys = KeysFor(table) /\ allow[z] = {v \in Users : <<v, z>> \in KeysFor(table)}
    BY <1>1 DEF InitWith
  <2>3. QED
    BY <1>3, <2>1, <2>2 DEF Settled, Owns
<1>5. ASSUME NEW z \in Zones, ZoneExists(z)
      PROVE  z \in pdns
  <2>1. rows[z] = {[user |-> table[z][i], id |-> i] : i \in DOMAIN table[z]}
    BY <1>1 DEF InitWith
  <2>2. table[z] # <<>>
    BY <1>5, <2>1 DEF ZoneExists
  <2>3. QED
    BY <1>1, <2>2 DEF InitWith, ServedFor, StoredZones
<1>6. QED
  BY <1>4, <1>5 DEF AllAgree

\* One request at a time, and no call has failed: the rows, the keys and the
\* metadata agree about every pair but those the request is at work on, and it finds
\* what it needs at every call.
THEOREM AgreeInvariant ==
  ASSUME NEW p, Procs = {p}
  PROVE  Spec => []AgreeInv
<1>1. ASSUME TypeOK, PolicyInv, AloneInv, CourseInv, AgreeInv, [Next]_vars
      PROVE  AgreeInv'
  <2> USE <1>1
  <2> SUFFICES ASSUME faults' = 0
               PROVE  /\ OthersAgree(req[p])'
                      /\ req'[p] # Idle => Agrees(req[p])'
    BY DEF AgreeInv
  <2>1. Standing
    BY DEF Standing
  <2>2. faults \in Nat
    BY ServiceAssumption DEF TypeOK, BudgetTyped
  <2>3. ASSUME faults = 0
        PROVE  /\ OthersAgree(req[p])
               /\ req[p] # Idle => Agreed(p)
    BY <2>3 DEF AgreeInv, Agreed
  <2>4. CASE Receive(p)
    <3>1. faults = 0
      BY <2>4 DEF Receive
    <3>2. Agreed(p)'
      BY <2>1, <2>3, <2>4, <3>1, ReceiveStays
    <3>3. QED
      BY <3>2 DEF Agreed
  <2>5. CASE Step(p)
    <3>1. faults = 0
      BY <2>5, BudgetChanges DEF budget
    <3>2. req[p] # Idle
      BY <2>5, StepStarts DEF Idle
    <3>3. Agreed(p)
      BY <2>3, <3>1, <3>2
    <3>4. CASE Respond(p)
      BY <2>1, <3>3, <3>4, RespondStays
    <3>5. CASE ~ Respond(p)
      <4>1. Agreed(p)'
        BY <2>1, <2>5, <3>3, <3>5, StepStays
      <4>2. QED
        BY <4>1 DEF Agreed
    <3>6. QED
      BY <3>4, <3>5
  <2>6. CASE CallFails(p) \/ Crash
    BY <2>2, <2>6 DEF CallFails, Crash
  <2>7. CASE UNCHANGED vars
    <3>1. faults = 0
      BY <2>7 DEF vars
    <3>2. UNCHANGED <<rows, pdns, keys, allow, req>>
      BY <2>7 DEF vars
    <3>3. OthersAgree(req[p])'
      BY <2>3, <3>1, <3>2 DEF OthersAgree, Unsettled, Halfway, Founding, MainPair, Settled,
         Owns, IsZoneOwner, ListZoneOwners, ZoneExists
    <3>4. ASSUME req'[p] # Idle
          PROVE  Agrees(req[p])'
      <4>1. Agrees(req[p])
        BY <2>3, <3>1, <3>2, <3>4 DEF Agreed
      <4>2. PairAtWork(req[p])' /\ ZoneAtWork(req[p])'
        BY <3>2, <4>1 DEF Agrees, PairAtWork, ZoneAtWork, Halfway, Founding, MainPair, Owns,
           IsZoneOwner, ListZoneOwners
      <4>3. Found(req[p])'
        BY <3>2, <4>1 DEF Agrees, Found, Founding, MainPair, Owns, IsZoneOwner,
           ListZoneOwners, ZoneExists
      <4>4. QED
        BY <3>2, <4>1, <4>2, <4>3 DEF Agrees
    <3>5. QED
      BY <3>3, <3>4
  <2>8. QED
    BY <2>4, <2>5, <2>6, <2>7 DEF Next
<1>2. Init => AgreeInv
  BY InitAgrees DEF Init, AgreeInv, AllAgree, OthersAgree
<1>3. Spec => []AloneInv
  BY AloneInvariant
<1>4. Spec => []CourseInv
  BY CourseInvariant
<1>5. QED
  BY <1>1, <1>2, <1>3, <1>4, TypeCorrect, PolicyInvariant, PTL DEF Spec

-------------------------------------------------------------------------------
(* What the answers are worth *)

LEMMA RepliedOk ==
  ASSUME NEW p, Procs = {p}, TypeOK, CourseInv, At(p, "ok")
  PROVE  req[p] \in Request /\ req[p].pc = "ok" /\ OnCourse(req[p])
BY DEF TypeOK, RequestsTyped, CourseInv, At, Idle

\* A success is true, whatever calls failed before: the creator and every owner
\* after a rotation can get the zone with a working key, a joined or added user owns
\* it, and a removed user or a deleted zone has neither a row nor a working key.
THEOREM AnswersCorrect ==
  ASSUME NEW q, Procs = {q}
  PROVE  Spec => []AnswersAreTrue
<1>1. ASSUME TypeOK, CourseInv
      PROVE  AnswersAreTrue
  <2> SUFFICES ASSUME NEW p \in Procs, At(p, "ok")
               PROVE  LET r == req[p]
                      IN  CASE r.op = "create" -> ZoneGet(r.caller, r.zone) = "ok"
                            [] r.op = "join"   -> IsZoneOwner(r.caller, r.zone)
                            [] r.op = "add"    -> IsZoneOwner(r.target, r.zone)
                            [] r.op = "remove" -> /\ ~ IsZoneOwner(r.target, r.zone)
                                                  /\ ~ Usable(r.target, r.zone)
                            [] r.op = "rotate" ->
                                 \A u \in ListZoneOwners(r.zone) : ZoneGet(u, r.zone) = "ok"
                            [] OTHER           ->
                                 /\ ~ ZoneExists(r.zone)
                                 /\ \A u \in Users : ~ Usable(u, r.zone)
    BY DEF AnswersAreTrue
  <2> DEFINE r == req[p]
             m == MainPair(r)
  <2>1. Procs = {p}
    OBVIOUS
  <2>2. r \in Request /\ r.pc = "ok" /\ OnCourse(r)
    BY <1>1, <2>1, RepliedOk
  <2>3. m = <<IF r.op \in {"create", "join"} THEN r.caller ELSE r.target, r.zone>>
    BY MainPairIs
  <2>4. CASE r.op = "create"
    <3>1. Owns(m) /\ Works(m)
      BY <2>2, <2>4 DEF OnCourse, CreationOnCourse
    <3>2. ZoneGet(r.caller, r.zone) = "ok"
      BY <2>3, <2>4, <3>1 DEF Owns, Works, ZoneGet
    <3>3. QED
      BY <2>4, <3>2
  <2>5. CASE r.op \in {"join", "add"}
    <3>1. Owns(m)
      BY <2>2, <2>5 DEF OnCourse, GrantOnCourse
    <3>2. QED
      BY <2>3, <2>5, <3>1 DEF Owns
  <2>6. CASE r.op = "remove"
    <3>1. ~ Owns(m) /\ m \notin keys
      BY <2>2, <2>6 DEF OnCourse, RemovalOnCourse
    <3>2. QED
      BY <2>3, <2>6, <3>1 DEF Owns, Usable
  <2>7. CASE r.op = "rotate"
    <3>1. r.todo = {} /\ RotationOnCourse(r)
      BY <2>2, <2>7 DEF OnCourse, RotationOnCourse
    <3>2. ASSUME NEW u \in ListZoneOwners(r.zone)
          PROVE  ZoneGet(u, r.zone) = "ok"
      <4>1. Usable(u, r.zone)
        BY <2>2, <2>7, <3>1 DEF RotationOnCourse, KeyLabels
      <4>2. QED
        BY <4>1 DEF ZoneGet, IsZoneOwner
    <3>3. QED
      BY <2>7, <3>2
  <2>8. CASE r.op \in {"delete", "orphan"}
    <3>1. ~ ZoneExists(r.zone) /\ r.zone \notin pdns
      BY <2>2, <2>8 DEF OnCourse, DeletionOnCourse
    <3>2. QED
      BY <2>8, <3>1 DEF Usable
  <2>9. QED
    BY <2>2, <2>4, <2>5, <2>6, <2>7, <2>8 DEF Request, AllOps
<1>2. Spec => []CourseInv
  BY CourseInvariant
<1>3. QED
  BY <1>1, <1>2, TypeCorrect, PTL

\* A removal that reports success has taken the owner's row and key on the zone, and
\* every row of theirs below it but the last one of a subzone.
THEOREM RemovalsRevoke ==
  ASSUME NEW q, Procs = {q}
  PROVE  Spec => []RemovalRevokes
<1>1. ASSUME TypeOK, CourseInv
      PROVE  RemovalRevokes
  <2> SUFFICES ASSUME NEW p \in Procs, At(p, "ok"), req[p].op = "remove"
               PROVE  LET u == req[p].target
                          z == req[p].zone
                      IN  /\ ~ IsZoneOwner(u, z)
                          /\ ~ Usable(u, z)
                          /\ \A s \in subzonesOf(z) :
                               IsZoneOwner(u, s) => ListZoneOwners(s) = {u}
    BY DEF RemovalRevokes
  <2> DEFINE r == req[p]
             m == MainPair(r)
  <2>1. r.pc = "ok" /\ RemovalOnCourse(r)
    BY <1>1, RepliedOk DEF OnCourse
  <2>2. m = <<r.target, r.zone>>
    BY MainPairIs
  <2>3. ~ Owns(m) /\ m \notin keys /\ r.todo = {}
    BY <2>1 DEF RemovalOnCourse
  <2>4. ~ IsZoneOwner(r.target, r.zone) /\ ~ Usable(r.target, r.zone)
    BY <2>2, <2>3 DEF Owns, Usable
  <2>5. ASSUME NEW s \in subzonesOf(r.zone), IsZoneOwner(r.target, s)
        PROVE  ListZoneOwners(s) = {r.target}
    BY <2>1, <2>3, <2>5 DEF RemovalOnCourse
  <2>6. QED
    BY <2>4, <2>5
<1>2. Spec => []CourseInv
  BY CourseInvariant
<1>3. QED
  BY <1>1, <1>2, TypeCorrect, PTL

\* A creation that reports success has delegated the new zone from the zone right
\* above it.  A rule that makes a zone its own SOA makes its creation pass over the
\* zones above, so no such zone may have one: the rules are to give each name one SOA.
THEOREM CreationsDelegate ==
  ASSUME NEW q, Procs = {q}, \A z \in OwnSoa : \A w \in Zones : <<z, w>> \notin Below
  PROVE  Spec => []CreationDelegates
<1>1. ASSUME TypeOK, CourseInv
      PROVE  CreationDelegates
  <2> SUFFICES ASSUME NEW p \in Procs, At(p, "ok"), req[p].op = "create", NEW w \in pdns,
                      <<req[p].zone, w>> \in Below,
                      req[p].zone \in ChildToward(w, req[p].zone)
               PROVE  <<w, req[p].zone>> \in deleg
    BY DEF CreationDelegates
  <2>1. req[p].pc = "ok" /\ DelegationOnCourse(req[p])
    BY <1>1, RepliedOk DEF OnCourse
  <2>2. w \in Zones
    BY <1>1 DEF TypeOK, DnsTyped
  <2>3. RightAbove(w, req[p].zone)
    BY <2>2 DEF RightAbove
  <2>4. QED
    BY <2>1, <2>2, <2>3 DEF DelegationOnCourse, EnsureLabels
<1>2. Spec => []CourseInv
  BY CourseInvariant
<1>3. QED
  BY <1>1, <1>2, TypeCorrect, PTL

\* Between requests none of which failed, the owners in the table are exactly the
\* users with a working key.
THEOREM OwnersHoldTheirKeys ==
  ASSUME NEW p, Procs = {p}, MaxFaults = 0
  PROVE  Spec => []OwnersHoldKeys
<1>1. ASSUME TypeOK, AgreeInv
      PROVE  OwnersHoldKeys
  <2> SUFFICES ASSUME Quiescent, NEW u \in Users, NEW z \in Zones
               PROVE  IsZoneOwner(u, z) <=> Usable(u, z)
    BY DEF OwnersHoldKeys
  <2>1. faults = 0
    BY <1>1 DEF TypeOK, BudgetTyped
  <2>2. OthersAgree(req[p]) /\ req[p].pc = "idle"
    BY <1>1, <2>1 DEF AgreeInv, Quiescent, At
  <2>3. AllAgree
    BY <2>2, CalmSettled DEF Calm, Halfway, KeyLabels, DeletionLabels
  <2>4. <<u, z>> \in Pair
    BY DEF Pair
  <2>5. IsZoneOwner(u, z) => z \in pdns
    BY <2>3 DEF AllAgree, IsZoneOwner, ListZoneOwners, ZoneExists
  <2>6. Settled(<<u, z>>)
    BY <2>3, <2>4 DEF AllAgree
  <2>7. QED
    BY <2>5, <2>6 DEF Settled, Owns, Usable
<1>2. Spec => []AgreeInv
  BY AgreeInvariant
<1>3. QED
  BY <1>1, <1>2, TypeCorrect, PTL

\* Requests that run one after the other and whose calls all succeed never end in a
\* server error.
THEOREM NoFailureAlone ==
  ASSUME IsFiniteSet(Procs)
  PROVE  Spec => []AloneNeverFails
<1>1. CASE Cardinality(Procs) = 1
  <2>1. PICK p : Procs = {p}
    BY <1>1, FS_Singleton
  <2>2. Spec => []AgreeInv
    BY <2>1, AgreeInvariant
  <2>3. AgreeInv => AloneNeverFails
    BY <2>1 DEF AgreeInv, Agrees, AloneNeverFails, At, Idle
  <2>4. QED
    BY <2>2, <2>3, PTL
<1>2. CASE Cardinality(Procs) # 1
  <2>1. AloneNeverFails
    BY <1>2 DEF AloneNeverFails
  <2>2. QED
    BY <2>1, PTL
<1>3. QED
  BY <1>1, <1>2

-------------------------------------------------------------------------------
(* Whoever owns a zone owns what is below it *)


\* Of finitely many zones above one, one is below all others.
LEMMA ClosestExists ==
  ASSUME IsFiniteSet(Zones), NEW z \in Zones,
         NEW S \in SUBSET {w \in Zones : <<z, w>> \in Below}, S # {}
  PROVE  Closest(S) # {}
<1> DEFINE Lower(w) == {x \in S : <<x, w>> \in Below}
           T == {Lower(w) : w \in S}
<1>1. \A w \in S : Lower(w) \in FiniteSubsetsOf(Zones)
  BY FS_Subset DEF FiniteSubsetsOf
<1>2. T \subseteq FiniteSubsetsOf(Zones) /\ T # {}
  BY <1>1
<1>3. PICK L \in T : \A M \in T : <<M, L>> \notin StrictSubsetOrdering(Zones)
  <2>1. IsWellFoundedOn(StrictSubsetOrdering(Zones), FiniteSubsetsOf(Zones))
    BY FS_StrictSubsetOrderingWellFounded
  <2> HIDE DEF T
  <2>2. QED
    BY <1>2, <2>1, WFMin
<1>4. PICK w \in S : L = Lower(w)
  OBVIOUS
<1>5. ASSUME NEW v \in S, v # w, <<w, v>> \notin Below
      PROVE  FALSE
  <2>1. <<v, w>> \in Below
    BY <1>5, BelowAssumption
  <2>2. Lower(v) \subseteq Lower(w)
    BY <2>1, BelowAssumption
  <2>3. v \in Lower(w) /\ v \notin Lower(v)
    BY <2>1, BelowAssumption
  <2>4. Lower(v) \in SUBSET Zones /\ Lower(w) \in SUBSET Zones /\ Lower(v) # Lower(w)
    BY <2>3
  <2>5. <<Lower(v), Lower(w)>> \in StrictSubsetOrdering(Zones)
    BY <2>2, <2>4 DEF StrictSubsetOrdering
  <2>6. QED
    BY <1>3, <1>4, <2>5
<1>6. w \in Closest(S)
  BY <1>5 DEF Closest
<1>7. QED
  BY <1>6

\* The policy entitles a user to a zone exactly when it yields a definition.
LEMMA AllowedIsDefined ==
  ASSUME IsFiniteSet(Zones), NEW z \in Zones, NEW u, PolicyIsZoneAllowedForUser(z, u)
  PROVE  ZoneDefinitions(z, u) # {}
<1>1. CASE ExactMatches(z, u) # {}
  BY <1>1 DEF ZoneDefinitions
<1>2. CASE ExactMatches(z, u) = {}
  <2> DEFINE S == {f.zone : f \in SubzoneParents(z, u)}
  <2>1. S \in SUBSET {w \in Zones : <<z, w>> \in Below}
    <3>1. \A w : <<z, w>> \in Below => w \in Zones
      BY BelowAssumption
    <3>2. \A e \in SubzoneParents(z, u) : <<z, e.zone>> \in Below
      BY DEF SubzoneParents
    <3>3. QED
      BY <3>1, <3>2
  <2>2. S # {}
    BY <1>2 DEF PolicyIsZoneAllowedForUser
  <2>3. PICK w : w \in Closest(S)
    <3> HIDE DEF S
    <3>1. QED
      BY <2>1, <2>2, ClosestExists
  <2>4. PICK e \in SubzoneParents(z, u) : e.zone = w
    BY <2>3 DEF Closest
  <2>5. QED
    BY <1>2, <2>3, <2>4 DEF ZoneDefinitions
<1>3. QED
  BY <1>1, <1>2

LEMMA DefinitionsShare ==
  ASSUME RulesShare, NEW z, NEW u, NEW d \in ZoneDefinitions(z, u)
  PROVE  d.share = TRUE
<1>1. \A i \in DOMAIN Rules : Rules[i].share = TRUE
  BY RulesAssumption DEF RulesShare, Rule
<1>2. \A e \in PolicyGetUserZones(u) : e.share = TRUE
  BY <1>1 DEF PolicyGetUserZones, EffectiveRules
<1>3. CASE ExactMatches(z, u) # {}
  BY <1>2, <1>3 DEF ZoneDefinitions, ExactMatches
<1>4. CASE ExactMatches(z, u) = {}
  <2>1. PICK e \in SubzoneParents(z, u) :
          d = [zone |-> z, soa |-> e.zone, sub |-> TRUE, share |-> e.share]
    BY <1>4, Zenon DEF ZoneDefinitions
  <2>2. d.share = e.share
    BY <2>1
  <2>3. QED
    BY <1>2, <2>2 DEF SubzoneParents
<1>5. QED
  BY <1>3, <1>4

\* Under such rules the sharing of a zone is not refused once the policy entitles one of
\* its owners.
LEMMA EntitledOwnerShares ==
  ASSUME IsFiniteSet(Zones), RulesShare, NEW z \in Zones,
         NEW u \in ListZoneOwners(z), PolicyIsZoneAllowedForUser(z, u)
  PROVE  FALSE \notin zoneSharingAnswers(z)
<1> DEFINE defs == GoverningDefs(z, ListZoneOwners(z))
<1>1. ZoneDefinitions(z, u) # {}
  BY AllowedIsDefined
<1>2. defs # {}
  BY <1>1 DEF GoverningDefs
<1>3. \A d \in defs : d.share = TRUE
  BY DefinitionsShare DEF GoverningDefs
<1> HIDE DEF defs
<1>4. FALSE \notin SharingAnswers(defs)
  BY <1>2, <1>3 DEF SharingAnswers
<1>5. QED
  BY <1>4 DEF zoneSharingAnswers, defs

\* The request `s` is `r` a step later: another label, the loop no longer than it was.
Onward(r, s) ==
  /\ Same(r, s)
  /\ s.todo \subseteq r.todo
  /\ s.cur \in {r.cur, MainPair(r)} \cup r.todo

LEMMA MovesOnward ==
  ASSUME NEW r, NEW s
  PROVE  /\ \A pc : Moved(r, s, pc) \/ Answered(r, s, pc) => Onward(r, s)
         /\ \A z, pc : Placed(r, s, z, pc) => Onward(r, s)
         /\ \A t \in r.todo : \A pc : Turned(r, s, t, pc) => Onward(r, s)
BY DEF Onward, Moved, Answered, Placed, Turned

\* What such a request has found out is still so as long as no rows change.
LEMMA InheritingKept ==
  ASSUME NEW p, UNCHANGED rows, Onward(req[p], req'[p]), Inheriting(req[p]),
         req[p].op \in Giving => Looping(req'[p]) \/ req'[p].todo = {},
         req[p].op = "create" /\ req'[p].pc \notin {"authorize", "parentDef"} \cup Replied =>
           Warranted(req[p]),
         req[p].op = "create" /\ req'[p].pc \in {"shareCheck", "parentOwners"} =>
           req'[p].at \in closestStoredParent(req[p].zone)
  PROVE  Inheriting(req[p])'
<1> DEFINE r == req[p]
<1>1. Same(r, req'[p])
  BY DEF Onward
<1>2. MainPair(req[p])' = MainPair(r)
  BY <1>1 DEF MainPair, Fresh, Same
<1>3. \A u, z : OwnsAbove(u, z)' <=> OwnsAbove(u, z)
  BY DEF OwnsAbove, IsZoneOwner, ListZoneOwners
<1>4. \A t : Heir(r, t) => Heir(req[p], t)'
  BY <1>1, <1>2, <1>3 DEF Heir, Same
<1>5. ASSUME r.op \in Giving
      PROVE  /\ req'[p].cur = MainPair(r) \/ Heir(req[p], req[p].cur)'
             /\ \A t \in req'[p].todo : Heir(req[p], t)'
  <2>1. /\ r.cur = MainPair(r) \/ Heir(r, r.cur)
        /\ \A t \in r.todo : Heir(r, t)
    BY <1>5 DEF Inheriting
  <2>2. /\ req'[p].todo \subseteq r.todo
        /\ req'[p].cur \in {r.cur, MainPair(r)} \cup r.todo
    BY DEF Onward
  <2>3. \A t : t = req'[p].cur => (Heir(req[p], t)' => Heir(req[p], req[p].cur)')
    BY DEF Heir, MainPair, Fresh
  <2>4. req'[p].cur = MainPair(r) \/ Heir(r, req'[p].cur)
    BY <2>1, <2>2
  <2>5. QED
    BY <1>4, <2>1, <2>2, <2>3, <2>4
<1>6. Looping(req[p])' <=> Looping(req'[p])
  BY <1>2 DEF Looping, MainPair, Fresh
<1>7. Warranted(r) => Warranted(req[p])'
  BY <1>1, <1>3 DEF Warranted, Same
<1>8. closestStoredParent(req[p].zone)' = closestStoredParent(r.zone)
  BY <1>1 DEF closestStoredParent, Closest, ZoneExists, Same
<1>9. QED
  BY <1>1, <1>2, <1>5, <1>6, <1>7, <1>8 DEF Inheriting, Same

\* A step that changes no rows, and makes or lists the owners that were to come.
LEMMA SubtreeKept ==
  ASSUME NEW p, Procs = {p}, SubtreeInv, UNCHANGED rows,
         \A z \in Zones : \A u :
           ZoneExists(z) /\ OwnsAbove(u, z) /\ Coming(req[p], u, z) =>
             IsZoneOwner(u, z) \/ Coming(req'[p], u, z),
         req'[p] # Idle => req'[p].op \notin Leaving /\ Inheriting(req[p])'
  PROVE  SubtreeInv'
<1>1. /\ \A u, z : OwnsAbove(u, z)' <=> OwnsAbove(u, z)
      /\ \A u, z : IsZoneOwner(u, z)' <=> IsZoneOwner(u, z)
      /\ \A z : ZoneExists(z)' <=> ZoneExists(z)
      /\ \A z : subzonesOf(z)' = subzonesOf(z)
      /\ \A z : ListZoneOwners(z)' = ListZoneOwners(z)
  BY DEF OwnsAbove, IsZoneOwner, ListZoneOwners, ZoneExists, subzonesOf
<1>2. AllRepresented'
  BY <1>1 DEF SubtreeInv, AllRepresented, Represented
<1>3. ASSUME NEW w \in Zones, NEW z \in subzonesOf(w), NEW u \in ListZoneOwners(w)
      PROVE  IsZoneOwner(u, z) \/ Coming(req'[p], u, z)
  <2>1. z \in Zones /\ ZoneExists(z) /\ OwnsAbove(u, z)
    BY <1>3 DEF subzonesOf, OwnsAbove, IsZoneOwner
  <2>2. IsZoneOwner(u, z) \/ Coming(req[p], u, z)
    BY <1>3 DEF SubtreeInv, OwnedBelow
  <2>3. QED
    BY <2>1, <2>2
<1>4. \A u, z : Coming(req[p], u, z)' <=> Coming(req'[p], u, z)
  BY DEF Coming, MainPair, Fresh
<1>5. OwnedBelow'
  BY <1>1, <1>3, <1>4 DEF OwnedBelow
<1>6. QED
  BY <1>2, <1>5 DEF SubtreeInv

\* A request that has no owners to come.
Silent(r) ==
  \/ r.op \notin Giving
  \/ /\ r.todo = {}
     /\ r.pc \notin IF r.op = "create"
                      THEN {"insert", "parent", "shareCheck", "parentOwners"}
                      ELSE {"insert", "subtree", "keyAdd", "allowRead", "allowAdd"}

LEMMA NothingComing ==
  ASSUME NEW r, Silent(r)
  PROVE  \A u, z : ~ Coming(r, u, z)
BY DEF Silent, Coming

\* The next label of a creation that is not yet to share, or of another request.
LEMMA SilentStep ==
  ASSUME NEW p, Procs = {p}, SubtreeInv, UNCHANGED rows, req[p] \in Request,
         Silent(req[p]), Onward(req[p], req'[p]),
         req[p].op \in Giving => Looping(req'[p]) \/ req'[p].todo = {},
         req[p].op = "create" /\ req'[p].pc \notin {"authorize", "parentDef"} \cup Replied =>
           Warranted(req[p]),
         req[p].op = "create" /\ req'[p].pc \in {"shareCheck", "parentOwners"} =>
           req'[p].at \in closestStoredParent(req[p].zone)
  PROVE  SubtreeInv'
<1>1. req[p] # Idle
  BY DEF Request, Labels, Replied, Idle
<1>2. req[p].op \notin Leaving /\ Inheriting(req[p])
  BY <1>1 DEF SubtreeInv
<1>3. Inheriting(req[p])'
  BY <1>2, InheritingKept
<1>4. req'[p].op = req[p].op
  BY DEF Onward, Same
<1>5. QED
  BY <1>2, <1>3, <1>4, SubtreeKept, NothingComing

LEMMA SharingAt ==
  ASSUME NEW p, Procs = {p}, Standing, SubtreeInv, NEW pc, At(p, pc), pc # "idle"
  PROVE  /\ RequestsTyped /\ req[p] \in Request /\ req[p].pc = pc
         /\ Vetted(req[p]) /\ RowChecked(req[p]) /\ OnCourse(req[p])
         /\ req[p].op \notin Leaving /\ Inheriting(req[p])
         /\ AllRepresented /\ OwnedBelow
<1>1. /\ RequestsTyped /\ req[p] \in Request /\ req[p].pc = pc
      /\ Vetted(req[p]) /\ RowChecked(req[p]) /\ OnCourse(req[p])
  BY StandingAt
<1>2. req[p] # Idle
  BY <1>1 DEF Idle
<1>3. QED
  BY <1>1, <1>2 DEF SubtreeInv

\* A creation up to the insertion of its own row, once the policy has allowed it.
LEMMA CreationSilent ==
  ASSUME NEW p, Procs = {p}, Standing, SubtreeInv, UNCHANGED rows, req[p].op = "create",
         req[p].pc \in {"exists", "interGet", "interAdd", "nsDrop", "nsAdd", "dropZone",
                        "dropKey", "addZone", "fetch"},
         Onward(req[p], req'[p]), req'[p].pc \notin {"shareCheck", "parentOwners"}
  PROVE  SubtreeInv'
<1> DEFINE r == req[p]
<1>1. r \in Request /\ Inheriting(r) /\ r.pc # "idle"
  BY SharingAt DEF At
<1>2. ~ Looping(r) /\ r.op \in Giving
  BY DEF Looping, Giving
<1>3. r.todo = {} /\ Warranted(r)
  BY <1>1, <1>2 DEF Inheriting, Replied
<1>4. Silent(r)
  BY <1>3 DEF Silent
<1>5. req'[p].todo = {}
  BY <1>3 DEF Onward
<1>6. QED
  BY <1>1, <1>3, <1>4, <1>5, SilentStep

LEMMA CreationStepsSilent ==
  ASSUME NEW p, Procs = {p}, Standing, SubtreeInv,
         \/ CreateExists(p)   \/ IntermediateGet(p) \/ IntermediateAdd(p)
         \/ DelegationDrop(p) \/ DelegationAdd(p)   \/ DropZone(p)
         \/ DropKey(p)        \/ AddZone(p)         \/ FetchZone(p)
  PROVE  SubtreeInv'
<1> DEFINE r == req[p]
           S == {"exists", "interGet", "interAdd", "nsDrop", "nsAdd", "dropZone",
                 "dropKey", "addZone", "fetch"}
<1>1. r.pc \in S /\ (r.pc = "exists" => r.op = "create")
  BY DEF CreateExists, IntermediateGet, IntermediateAdd, DelegationDrop, DelegationAdd,
     DropZone, DropKey, AddZone, FetchZone, At
<1>2. RequestsTyped /\ r \in Request /\ Vetted(r)
  BY <1>1, SharingAt DEF At
<1>3. r.op = "create"
  BY <1>1, <1>2 DEF Vetted, OpsAt
<1>4. UNCHANGED rows
  BY DEF CreateExists, IntermediateGet, IntermediateAdd, DelegationDrop, DelegationAdd,
     DropZone, DropKey, AddZone, FetchZone, ZonesDelete, ZonesAdd
<1>5. ASSUME NEW pc, pc \notin {"shareCheck", "parentOwners"}, Goto(p, pc)
      PROVE  SubtreeInv'
  <2>1. Moved(r, req'[p], pc)
    BY <1>2, <1>5, GotoMoves
  <2>2. Onward(r, req'[p]) /\ req'[p].pc = pc
    BY <2>1, MovesOnward DEF Moved
  <2>3. QED
    BY <1>1, <1>3, <1>4, <1>5, <2>2, CreationSilent
<1>6. ASSUME NEW status \in Replied, Reply(p, status)
      PROVE  SubtreeInv'
  <2>1. Answered(r, req'[p], status)
    BY <1>2, <1>6, ReplyAnswers
  <2>2. Onward(r, req'[p]) /\ req'[p].pc = status
    BY <2>1, MovesOnward DEF Answered
  <2>3. QED
    BY <1>1, <1>3, <1>4, <2>2, CreationSilent DEF Replied
<1>7. ASSUME NEW chain, NEW s \in Ensuring(r, chain), Set(p, s)
      PROVE  SubtreeInv'
  <2>1. /\ Same(r, req'[p]) /\ req'[p].cur = r.cur /\ req'[p].todo = r.todo
        /\ req'[p].pc \in {"dropZone", "interGet"}
    BY <1>2, <1>7, EnsuringMoves
  <2>2. Onward(r, req'[p])
    BY <2>1 DEF Onward
  <2>3. QED
    BY <1>1, <1>3, <1>4, <2>1, <2>2, CreationSilent
<1>8. CASE CreateExists(p) \/ DelegationAdd(p)
  BY <1>6, <1>7, <1>8 DEF CreateExists, DelegationAdd, Replied
<1>9. CASE IntermediateGet(p) \/ IntermediateAdd(p) \/ DelegationDrop(p)
  BY <1>5, <1>6, <1>9 DEF IntermediateGet, IntermediateAdd, DelegationDrop, Replied
<1>10. CASE DropZone(p) \/ DropKey(p) \/ AddZone(p) \/ FetchZone(p)
  BY <1>5, <1>6, <1>10 DEF DropZone, DropKey, AddZone, FetchZone, Replied
<1>11. QED
  BY <1>8, <1>9, <1>10

\* The policy allows the zone for the caller, or for the owner of a zone above whose
\* definition lets subdomains be created.
LEMMA AuthorizeShares ==
  ASSUME NEW p, Procs = {p}, TokensGiveNoMore, Standing, SubtreeInv,
         Authorize(p) \/ ParentDefinition(p)
  PROVE  SubtreeInv'
<1> DEFINE r == req[p]
<1>1. r.pc \in {"authorize", "parentDef"}
  BY DEF Authorize, ParentDefinition, At
<1>2. /\ RequestsTyped /\ r \in Request /\ Vetted(r) /\ Inheriting(r)
      /\ r.caller \in Users /\ r.zone \in Zones
  BY <1>1, SharingAt DEF At, Request
<1>3. r.op = "create"
  BY <1>1, <1>2 DEF Vetted, OpsAt
<1>4. Silent(r) /\ r.todo = {}
  BY <1>1, <1>2, <1>3 DEF Inheriting, Giving, Looping, Silent
<1>5. UNCHANGED rows
  BY DEF Authorize, ParentDefinition
<1>6. ASSUME Onward(r, req'[p]),
             \/ req'[p].pc \in {"parentDef", "refused"}
             \/ req'[p].pc = "exists" /\ Warranted(r)
      PROVE  SubtreeInv'
  <2>1. req'[p].todo = {}
    BY <1>4, <1>6 DEF Onward
  <2>2. QED
    BY <1>2, <1>4, <1>5, <1>6, <2>1, SilentStep DEF Replied
<1>7. CASE Reply(p, "refused")
  <2>1. Answered(r, req'[p], "refused")
    BY <1>2, <1>7, ReplyAnswers
  <2>2. Onward(r, req'[p]) /\ req'[p].pc = "refused"
    BY <2>1, MovesOnward DEF Answered
  <2>3. QED
    BY <1>6, <2>2
<1>8. CASE Authorize(p)
  <2>1. ASSUME NEW w, Set(p, [r EXCEPT !.pc = "parentDef", !.at = w])
        PROVE  SubtreeInv'
    <3>1. Placed(r, req'[p], w, "parentDef")
      BY <1>2, <2>1, PlaceMoves
    <3>2. Onward(r, req'[p]) /\ req'[p].pc = "parentDef"
      BY <3>1, MovesOnward DEF Placed
    <3>3. QED
      BY <1>6, <3>2
  <2>2. ASSUME NEW d \in CallerDefinitions(r),
               Set(p, [r EXCEPT !.pc = "exists", !.at = d.soa])
        PROVE  SubtreeInv'
    <3>1. PICK w : w = d.soa /\ Set(p, [r EXCEPT !.pc = "exists", !.at = w])
      BY <2>2
    <3>2. Placed(r, req'[p], w, "exists")
      BY <1>2, <3>1, PlaceMoves
    <3>3. PolicyIsZoneAllowedForUser(r.zone, r.caller)
      BY <1>2, <2>2, CallerDefined, DefinedIsAllowed DEF TokensGiveNoMore, Request
    <3>4. Warranted(r)
      BY <1>2, <3>3 DEF Warranted
    <3>5. QED
      BY <1>6, <3>2, <3>4, MovesOnward DEF Placed
  <2>3. QED
    BY <1>7, <1>8, <2>1, <2>2 DEF Authorize
<1>9. CASE ParentDefinition(p)
  <2>1. ASSUME NEW d \in GoverningDefs(r.at, ListZoneOwners(r.at)), d.sub,
               Goto(p, "exists")
        PROVE  SubtreeInv'
    <3>1. r.at \in Zones /\ <<r.zone, r.at>> \in Below
      BY <1>2, <1>9 DEF ParentDefinition, At, Vetted, ParentVetted, Request
    <3>2. PICK u \in ListZoneOwners(r.at) : d \in ZoneDefinitions(r.at, u)
      BY <2>1 DEF GoverningDefs
    <3>3. u \in Users
      BY <3>1, <3>2, OwnersAreUsers DEF Standing, TypeOK
    <3>4. PolicyIsZoneAllowedForUser(r.zone, u)
      BY <1>2, <2>1, <3>1, <3>2, <3>3, SubzonesAllowed
    <3>5. OwnsAbove(u, r.zone)
      BY <3>1, <3>2 DEF OwnsAbove, IsZoneOwner
    <3>6. Warranted(r)
      BY <3>3, <3>4, <3>5 DEF Warranted
    <3>7. Moved(r, req'[p], "exists")
      BY <1>2, <2>1, GotoMoves
    <3>8. QED
      BY <1>6, <3>6, <3>7, MovesOnward DEF Moved
  <2>2. QED
    BY <1>7, <1>9, <2>1 DEF ParentDefinition
<1>10. QED
  BY <1>8, <1>9

\* Joins and additions before they insert a row, and rotations.
LEMMA ChecksSilent ==
  ASSUME NEW p, Procs = {p}, Standing, SubtreeInv,
         \/ JoinExists(p) \/ JoinAuthorize(p) \/ CallerIsOwner(p)
         \/ AddSharing(p) \/ AddTarget(p)
  PROVE  SubtreeInv'
<1> DEFINE r == req[p]
<1>1. /\ r.pc \in {"exists", "isOwner", "shareCheck", "targetOwner"}
      /\ r.op \in {"join", "add"} \cup DOMAIN AfterOwnerCheck
  BY DEF JoinExists, JoinAuthorize, CallerIsOwner, AddSharing, AddTarget, At
<1>2. RequestsTyped /\ r \in Request /\ r.op \notin Leaving /\ Inheriting(r)
  BY <1>1, SharingAt DEF At
<1>3. r.op \in {"join", "add", "rotate", "delete"}
  BY <1>1, <1>2 DEF AfterOwnerCheck, Leaving
<1>4. r.op \in Giving => r.todo = {}
  BY <1>1, <1>2 DEF Inheriting, Looping
<1>5. Silent(r)
  BY <1>1, <1>3, <1>4 DEF Silent
<1>6. UNCHANGED rows
  BY DEF JoinExists, JoinAuthorize, CallerIsOwner, AddSharing, AddTarget
<1>7. ASSUME Onward(r, req'[p])
      PROVE  SubtreeInv'
  <2>1. r.op \in Giving => req'[p].todo = {}
    BY <1>4, <1>7 DEF Onward
  <2>2. QED
    BY <1>2, <1>3, <1>5, <1>6, <1>7, <2>1, SilentStep
<1>8. ASSUME NEW pc, Goto(p, pc)
      PROVE  SubtreeInv'
  BY <1>2, <1>7, <1>8, GotoMoves, MovesOnward
<1>9. ASSUME NEW status, Reply(p, status)
      PROVE  SubtreeInv'
  BY <1>2, <1>7, <1>9, ReplyAnswers, MovesOnward
<1>10. QED
  BY <1>8, <1>9 DEF JoinExists, JoinAuthorize, CallerIsOwner, AddSharing, AddTarget

\* Rotations and deletions give nobody a zone.
LEMMA OthersSilent ==
  ASSUME NEW p, Procs = {p}, Standing, SubtreeInv, RevokeStep(p) \/ DeleteStep(p),
         ~ DeleteRows(p)
  PROVE  SubtreeInv'
<1> DEFINE r == req[p]
<1>1. r.pc # "idle"
  BY StepStarts DEF Step
<1>2. RequestsTyped /\ r \in Request /\ Vetted(r) /\ Inheriting(r) /\ r.op \notin Leaving
  BY <1>1, SharingAt DEF At
<1>3. ~ (RemoveTarget(p) \/ CountOwners(p) \/ DeleteRow(p) \/ RevokeNext(p))
  BY <1>2 DEF Vetted, OpsAt, Leaving, RemoveTarget, CountOwners, DeleteRow, RevokeNext, At
<1>4. \/ AllowReadForDelete(p) \/ AllowDelete(p) \/ KeyDelete(p)
      \/ ListOwners(p)         \/ RotateNext(p)
      \/ OrphanLookup(p)       \/ OwnSubzones(p) \/ ListKeys(p)
      \/ DeleteNextKey(p)      \/ DeleteFromDns(p)
  BY <1>3 DEF RevokeStep, DeleteStep
<1>5. r.pc \in {"allowReadDel", "allowDel", "keyDel", "listOwners", "rotate",
               "lookup", "ownSubs", "listKeys", "keysDel", "zoneDel"}
  BY <1>4 DEF AllowReadForDelete, AllowDelete, KeyDelete, ListOwners, RotateNext,
     OrphanLookup, OwnSubzones, ListKeys, DeleteNextKey, DeleteFromDns, At
<1>6. r.op \in {"rotate", "delete", "orphan"}
  BY <1>2, <1>5 DEF Vetted, OpsAt, Leaving
<1>7. UNCHANGED rows
  BY <1>4 DEF AllowReadForDelete, AllowDelete, KeyDelete, ListOwners, RotateNext,
     OrphanLookup, OwnSubzones, ListKeys, DeleteNextKey, DeleteFromDns
<1>8. req'[p].op = r.op
  <2>1. ASSUME NEW status, Reply(p, status)
        PROVE  req'[p].op = r.op
    BY <1>2, <2>1, ReplyAnswers DEF Answered, Same
  <2>2. ASSUME NEW pc, Goto(p, pc)
        PROVE  req'[p].op = r.op
    BY <1>2, <2>2, GotoMoves DEF Moved, Same
  <2>3. CASE AllowReadForDelete(p)
    BY <1>2, <2>2, <2>3 DEF AllowReadForDelete, Set, RequestsTyped, Request
  <2>4. CASE AllowDelete(p)
    BY <1>2, <2>4 DEF AllowDelete, Set, RequestsTyped, Request
  <2>5. CASE KeyDelete(p) \/ OwnSubzones(p) \/ DeleteFromDns(p)
    BY <2>1, <2>2, <2>5 DEF KeyDelete, OwnSubzones, DeleteFromDns
  <2>6. CASE ListOwners(p)
    BY <1>2, <2>6 DEF ListOwners, Set, RequestsTyped, Request
  <2>7. CASE RotateNext(p)
    <3>1. ASSUME NEW t, Set(p, [Visit(r, t) EXCEPT !.pc = "allowReadDel"])
          PROVE  req'[p].op = r.op
      BY <1>2, <3>1, VisitTurns DEF Turned, Same
    <3>2. QED
      BY <2>1, <2>7, <3>1 DEF RotateNext
  <2>8. CASE OrphanLookup(p)
    <3>1. ASSUME NEW u, Set(p, [r EXCEPT !.pc = "ownSubs", !.caller = u])
          PROVE  req'[p].op = r.op
      BY <1>2, <3>1 DEF Set, RequestsTyped, Request
    <3>2. QED
      BY <2>1, <2>8, <3>1 DEF OrphanLookup
  <2>9. CASE ListKeys(p)
    <3>1. ASSUME NEW pc, NEW s, Set(p, [r EXCEPT !.snap = s, !.pc = pc])
          PROVE  req'[p].op = r.op
      BY <1>2, <3>1 DEF Set, RequestsTyped, Request
    <3>2. QED
      BY <2>1, <2>9, <3>1 DEF ListKeys
  <2>10. CASE DeleteNextKey(p)
    <3>1. ASSUME NEW pc, NEW u, Set(p, [r EXCEPT !.snap = @ \ {u}, !.pc = pc])
          PROVE  req'[p].op = r.op
      BY <1>2, <3>1 DEF Set, RequestsTyped, Request
    <3>2. QED
      BY <2>1, <2>10, <3>1 DEF DeleteNextKey
  <2>11. QED
    BY <1>4, <2>3, <2>4, <2>5, <2>6, <2>7, <2>8, <2>9, <2>10
<1>9. Inheriting(req[p])'
  BY <1>6, <1>8 DEF Inheriting, Giving
<1>10. Silent(r)
  BY <1>6 DEF Silent, Giving
<1>11. QED
  BY <1>2, <1>7, <1>8, <1>9, <1>10, SubtreeKept, NothingComing

\* The owners of a deleted zone keep what is below it, the entitled one included.
LEMMA DeleteRowsShares ==
  ASSUME NEW p, Procs = {p}, Standing, SubtreeInv, DeleteRows(p)
  PROVE  SubtreeInv'
<1> DEFINE r == req[p]
<1>1. /\ RequestsTyped /\ r \in Request /\ r.pc = "rowsDel" /\ Vetted(r)
      /\ r.op \notin Leaving /\ AllRepresented /\ OwnedBelow
  <2>1. At(p, "rowsDel")
    BY DEF DeleteRows
  <2>2. QED
    BY <2>1, SharingAt
<1>2. r.op \notin Giving /\ r.op # "create"
  BY <1>1 DEF Vetted, OpsAt, Giving
<1>3. PICK d \in Zones : d = r.zone
  BY <1>1 DEF Request
<1>4. \A z \in Zones :
        ListZoneOwners(z)' = IF z = d THEN {} ELSE ListZoneOwners(z)
  <2>1. OwnersOf' = [OwnersOf EXCEPT ![d] = {}]
    BY <1>3, DeleteAllOwners DEF DeleteRows, Standing, TypeOK
  <2>2. /\ \A z \in Zones : OwnersOf[z] = ListZoneOwners(z)
        /\ \A z \in Zones : OwnersOf'[z] = ListZoneOwners(z)'
    BY DEF OwnersOf
  <2>3. QED
    BY <2>1, <2>2 DEF OwnersOf
<1>5. ASSUME NEW z \in Zones, ZoneExists(z)'
      PROVE  z # d /\ ZoneExists(z)
  <2>1. ListZoneOwners(z)' # {}
    BY <1>5 DEF ZoneExists, ListZoneOwners
  <2>2. z # d /\ ListZoneOwners(z) # {}
    BY <1>4, <2>1
  <2>3. QED
    BY <2>2, NoRowsNoOwners
<1>6. \A w \in Zones : \A z \in subzonesOf(w) : ListZoneOwners(w) \subseteq ListZoneOwners(z)
  <2>1. \A u, z : ~ Coming(r, u, z)
    BY <1>2 DEF Coming
  <2>2. QED
    BY <1>1, <2>1 DEF OwnedBelow, IsZoneOwner
<1>7. AllRepresented'
  <2>1. ASSUME NEW z \in Zones, ZoneExists(z)'
        PROVE  Represented(z)'
    <3>1. z # d /\ ZoneExists(z)
      BY <1>5, <2>1
    <3>2. PICK v \in Users : /\ PolicyIsZoneAllowedForUser(z, v)
                             /\ IsZoneOwner(v, z) \/ OwnsAbove(v, z)
      BY <1>1, <3>1 DEF AllRepresented, Represented
    <3>3. v \in ListZoneOwners(z)
      <4>1. ASSUME NEW w \in Zones, <<z, w>> \in Below, v \in ListZoneOwners(w)
            PROVE  v \in ListZoneOwners(z)
        <5>1. z \in subzonesOf(w)
          BY <3>1, <4>1 DEF subzonesOf
        <5>2. QED
          BY <1>6, <4>1, <5>1
      <4>2. QED
        BY <3>2, <4>1 DEF OwnsAbove, IsZoneOwner
    <3>4. IsZoneOwner(v, z)'
      BY <1>4, <3>1, <3>3 DEF IsZoneOwner
    <3>5. QED
      BY <3>2, <3>4 DEF Represented
  <2>2. QED
    BY <2>1 DEF AllRepresented
<1>8. OwnedBelow'
  <2>1. ASSUME NEW w \in Zones, NEW z \in subzonesOf(w)', NEW u \in ListZoneOwners(w)'
        PROVE  IsZoneOwner(u, z)'
    <3>1. z \in Zones /\ <<z, w>> \in Below /\ ZoneExists(z)'
      BY <2>1 DEF subzonesOf
    <3>2. z # d /\ ZoneExists(z) /\ u \in ListZoneOwners(w)
      <4>1. z # d /\ ZoneExists(z)
        BY <1>5, <3>1
      <4>2. ListZoneOwners(w)' \subseteq ListZoneOwners(w)
        BY <1>4
      <4>3. QED
        BY <2>1, <4>1, <4>2
    <3>3. u \in ListZoneOwners(z)
      <4>1. z \in subzonesOf(w)
        BY <3>1, <3>2 DEF subzonesOf
      <4>2. QED
        BY <1>6, <3>2, <4>1
    <3>4. QED
      BY <1>4, <3>1, <3>2, <3>3 DEF IsZoneOwner
  <2>2. QED
    BY <2>1 DEF OwnedBelow
<1>9. req'[p].op = r.op
  BY <1>1, ReplyAnswers DEF DeleteRows, Answered, Same
<1>10. Inheriting(req[p])'
  BY <1>2, <1>9 DEF Inheriting
<1>11. QED
  BY <1>1, <1>7, <1>8, <1>9, <1>10 DEF SubtreeInv

\* While a key is added the owners to come stay the same.
LEMMA KeyKept ==
  ASSUME NEW p, Procs = {p}, Standing, SubtreeInv, UNCHANGED rows,
         req[p].pc \in {"keyAdd", "allowRead", "allowAdd"},
         Same(req[p], req'[p]), req'[p].cur = req[p].cur, req'[p].todo = req[p].todo,
         req'[p].pc \in {"allowRead", "allowAdd", AfterKey(req[p])}
  PROVE  SubtreeInv'
<1> DEFINE r == req[p]
<1>1. r \in Request /\ Vetted(r) /\ Inheriting(r) /\ r.op \notin Leaving /\ r.pc # "idle"
  BY SharingAt DEF At
<1>2. Onward(r, req'[p]) /\ MainPair(req'[p]) = MainPair(r)
  BY SamePair DEF Onward
<1>3. CASE r.op \notin Giving
  BY <1>1, <1>2, <1>3, SilentStep DEF Silent, Giving
<1>4. CASE r.op \in Giving
  <2>1. /\ r.op = "create" /\ r.cur = MainPair(r) => AfterKey(r) = "fetch"
        /\ r.op # "create" /\ r.cur = MainPair(r) => AfterKey(r) = "subtree"
        /\ r.cur # MainPair(r) => AfterKey(r) = "grant"
    BY <1>4 DEF AfterKey, Giving
  <2>2. Looping(req'[p]) \/ req'[p].todo = {}
    BY <1>1, <1>2, <1>4, <2>1 DEF Inheriting, Looping
  <2>3. r.op = "create" => Warranted(r) /\ req'[p].pc \notin {"shareCheck", "parentOwners"}
    BY <1>1, <2>1 DEF Inheriting, Replied
  <2>4. Inheriting(req[p])'
    BY <1>1, <1>2, <2>2, <2>3, InheritingKept
  <2>5. ASSUME NEW u, NEW z, Coming(r, u, z)
        PROVE  Coming(req'[p], u, z)
    <3>1. \/ <<u, z>> \in r.todo
          \/ r.op # "create" /\ u = MainPair(r)[1] /\ <<z, r.zone>> \in Below
             /\ r.cur = MainPair(r)
      BY <2>5 DEF Coming
    <3>2. req'[p] # Idle
      BY <2>1 DEF Idle
    <3>3. QED
      BY <1>2, <1>4, <2>1, <3>1, <3>2 DEF Coming, Same
  <2>6. QED
    BY <1>1, <2>4, <2>5, SubtreeKept DEF Same
<1>5. QED
  BY <1>3, <1>4

LEMMA KeyStepsShare ==
  ASSUME NEW p, Procs = {p}, Standing, SubtreeInv,
         KeyAdd(p) \/ AllowRead(p) \/ AllowAdd(p), req'[p].pc # "failed"
  PROVE  SubtreeInv'
<1> DEFINE r == req[p]
<1>1. r.pc \in {"keyAdd", "allowRead", "allowAdd"} /\ UNCHANGED rows
  BY DEF KeyAdd, AllowRead, AllowAdd, At
<1>2. RequestsTyped /\ r \in Request
  BY <1>1, SharingAt DEF At
<1>3. ~ Reply(p, "failed")
  BY <1>2, ReplyAnswers DEF Answered
<1>4. /\ Same(r, req'[p]) /\ req'[p].cur = r.cur /\ req'[p].todo = r.todo
      /\ req'[p].pc \in {"allowRead", "allowAdd", AfterKey(r)}
  <2>1. CASE KeyAdd(p)
    <3>1. Moved(r, req'[p], "allowRead")
      BY <1>2, <2>1, GotoMoves DEF KeyAdd
    <3>2. QED
      BY <3>1 DEF Moved
  <2>2. CASE AllowRead(p)
    <3>1. Set(p, [r EXCEPT !.pc = "allowAdd", !.snap = allow[r.cur[2]]])
      BY <1>3, <2>2 DEF AllowRead
    <3>2. QED
      BY <1>2, <3>1 DEF Set, RequestsTyped, Request, Same
  <2>3. CASE AllowAdd(p)
    <3> DEFINE pc == AfterKey(r)
    <3>1. Set(p, [r EXCEPT !.pc = pc, !.snap = {}])
      BY <1>3, <2>3 DEF AllowAdd
    <3> HIDE DEF pc
    <3>2. Same(r, req'[p]) /\ req'[p].cur = r.cur /\ req'[p].todo = r.todo /\ req'[p].pc = pc
      BY <1>2, <3>1 DEF Set, RequestsTyped, Request, Same
    <3>3. QED
      BY <3>2 DEF pc
  <2>4. QED
    BY <2>1, <2>2, <2>3
<1>5. QED
  BY <1>1, <1>4, KeyKept

\* The list of the subzones holds every zone that the new owner is to get.
LEMMA ListSubtreeShares ==
  ASSUME NEW p, Procs = {p}, Standing, SubtreeInv, ListSubtree(p)
  PROVE  SubtreeInv'
<1> DEFINE r == req[p]
           m == MainPair(r)
           subtree == {m[1]} \X subzonesOf(r.zone)
<1>1. /\ r.pc = "subtree" /\ RequestsTyped /\ r \in Request /\ Vetted(r)
      /\ Inheriting(r) /\ r.op \notin Leaving
  <2>1. At(p, "subtree")
    BY DEF ListSubtree
  <2>2. QED
    BY <2>1, SharingAt
<1>2. r.op \in {"join", "add"}
  BY <1>1 DEF Vetted, OpsAt, Leaving
<1>3. UNCHANGED rows
  BY DEF ListSubtree
<1>4. /\ Same(r, req'[p]) /\ req'[p].pc = "grant"
      /\ req'[p].cur = r.cur /\ req'[p].todo = subtree
  BY <1>1, <1>2 DEF ListSubtree, Set, RequestsTyped, Request, Same
<1>5. MainPair(req[p])' = m
  BY <1>4 DEF MainPair, Fresh, Same
<1>6. Inheriting(req[p])'
  <2>1. Looping(req[p])'
    BY <1>4 DEF Looping
  <2>2. r.cur = m \/ Heir(r, r.cur)
    BY <1>1, <1>2 DEF Inheriting, Giving
  <2>3. Heir(r, r.cur) => Heir(req[p], req[p].cur)'
    BY <1>2, <1>4, <1>5 DEF Heir, Same
  <2>4. \A t \in subtree : Heir(req[p], t)'
    <3>1. \A t \in subtree : t[1] = m[1] /\ <<t[2], r.zone>> \in Below
      BY DEF subzonesOf
    <3>2. \A t : t[1] = m[1] /\ <<t[2], r.zone>> \in Below => Heir(req[p], t)'
      BY <1>2, <1>4, <1>5 DEF Heir, Same
    <3>3. QED
      BY <3>1, <3>2
  <2>5. QED
    BY <1>2, <1>4, <1>5, <2>1, <2>2, <2>3, <2>4 DEF Inheriting, Same
<1>7. ASSUME NEW z \in Zones, NEW u, ZoneExists(z), Coming(r, u, z)
      PROVE  Coming(req'[p], u, z)
  <2>1. r.todo = {}
    BY <1>1, <1>2 DEF Inheriting, Giving, Looping
  <2>2. u = m[1] /\ <<z, r.zone>> \in Below
    BY <1>1, <1>2, <1>7, <2>1 DEF Coming
  <2>3. <<u, z>> \in subtree
    BY <1>7, <2>2 DEF subzonesOf
  <2>4. req'[p] # Idle
    BY <1>4 DEF Idle
  <2>5. QED
    BY <1>2, <1>4, <2>3, <2>4 DEF Coming, Giving, Same
<1>8. QED
  BY <1>1, <1>3, <1>4, <1>6, <1>7, SubtreeKept DEF Same

LEMMA GrantNextShares ==
  ASSUME NEW p, Procs = {p}, Standing, SubtreeInv, GrantNext(p)
  PROVE  SubtreeInv'
<1> DEFINE r == req[p]
<1>1. /\ r.pc = "grant" /\ RequestsTyped /\ r \in Request /\ Vetted(r)
      /\ Inheriting(r) /\ r.op \notin Leaving /\ RowChecked(r)
  <2>1. At(p, "grant")
    BY DEF GrantNext
  <2>2. QED
    BY <2>1, SharingAt
<1>2. r.op \in Giving
  BY <1>1 DEF Vetted, OpsAt, Giving
<1>3. UNCHANGED rows
  BY DEF GrantNext
<1>4. r.op = "create" => Warranted(r)
  BY <1>1 DEF Inheriting, Replied
<1>5. ASSUME Onward(r, req'[p]), Looping(req'[p]) \/ req'[p].todo = {},
             req'[p].pc \in {"grant", "insert", "ok"},
             \A u, z : <<u, z>> \in r.todo => IsZoneOwner(u, z) \/ Coming(req'[p], u, z)
      PROVE  SubtreeInv'
  <2>1. Inheriting(req[p])'
    BY <1>1, <1>3, <1>4, <1>5, InheritingKept
  <2>2. \A u, z : Coming(r, u, z) => <<u, z>> \in r.todo
    BY <1>1 DEF Coming
  <2>3. QED
    BY <1>1, <1>3, <1>5, <2>1, <2>2, SubtreeKept DEF Onward, Same
<1>6. CASE r.todo = {} /\ Reply(p, "ok")
  <2>1. Answered(r, req'[p], "ok")
    BY <1>1, <1>6, ReplyAnswers
  <2>2. Onward(r, req'[p]) /\ req'[p].pc = "ok" /\ req'[p].todo = {}
    BY <2>1, MovesOnward DEF Answered
  <2>3. QED
    BY <1>5, <1>6, <2>2
<1>7. ASSUME NEW t \in r.todo, IsZoneOwner(t[1], t[2]), Set(p, [r EXCEPT !.todo = @ \ {t}])
      PROVE  SubtreeInv'
  <2>1. /\ Same(r, req'[p]) /\ req'[p].pc = "grant" /\ req'[p].cur = r.cur
        /\ req'[p].todo = r.todo \ {t}
    BY <1>1, <1>7 DEF Set, RequestsTyped, Request, Same
  <2>2. Onward(r, req'[p]) /\ Looping(req'[p]) /\ req'[p] # Idle
    BY <2>1 DEF Onward, Looping, Idle
  <2>3. ASSUME NEW u, NEW z, <<u, z>> \in r.todo
        PROVE  IsZoneOwner(u, z) \/ Coming(req'[p], u, z)
    <3>1. CASE <<u, z>> = t
      BY <1>7, <3>1
    <3>2. CASE <<u, z>> # t
      BY <1>2, <2>1, <2>2, <2>3, <3>2 DEF Coming, Same
    <3>3. QED
      BY <3>1, <3>2
  <2>4. QED
    BY <1>5, <2>1, <2>2, <2>3
<1>8. ASSUME NEW t \in r.todo, Set(p, [Visit(r, t) EXCEPT !.pc = "insert"])
      PROVE  SubtreeInv'
  <2>1. Turned(r, req'[p], t, "insert")
    BY <1>1, <1>8, VisitTurns
  <2>2. Onward(r, req'[p]) /\ req'[p] # Idle
    BY <2>1, MovesOnward DEF Turned, Idle
  <2>3. t # MainPair(r)
    <3>1. CASE r.op = "create"
      BY <1>1, <1>8, <3>1 DEF RowChecked
    <3>2. CASE r.op # "create"
      <4>1. <<t[2], r.zone>> \in Below
        BY <1>1, <1>2, <1>8, <3>2 DEF Inheriting, Heir
      <4>2. t[2] # r.zone
        BY <1>1, <4>1, BelowAssumption DEF Request
      <4>3. QED
        BY <4>2, MainPairIs
    <3>3. QED
      BY <3>1, <3>2
  <2>4. MainPair(req'[p]) = MainPair(r)
    BY <2>1, SamePair DEF Turned
  <2>5. Looping(req'[p])
    BY <2>1, <2>3, <2>4 DEF Looping, Turned
  <2>6. ASSUME NEW u, NEW z, <<u, z>> \in r.todo
        PROVE  Coming(req'[p], u, z)
    BY <1>2, <2>1, <2>2, <2>6 DEF Coming, Same, Turned
  <2>7. QED
    BY <1>5, <2>1, <2>2, <2>5, <2>6 DEF Turned
<1>9. QED
  BY <1>6, <1>7, <1>8 DEF GrantNext

\* Nothing is to come for another zone than the new one.
LEMMA OnlyTheNewZone ==
  ASSUME NEW p, Procs = {p}, Standing, SubtreeInv, req[p].op = "create",
         req[p].pc \in {"parent", "shareCheck", "parentOwners"}
  PROVE  /\ req[p].todo = {}
         /\ \A u, z : Coming(req[p], u, z) => z = req[p].zone
         /\ \A w \in Zones, z \in Zones : \A u :
              /\ <<z, w>> \in Below /\ ZoneExists(z) /\ IsZoneOwner(u, w)
              /\ z # req[p].zone
              => IsZoneOwner(u, z)
<1> DEFINE r == req[p]
<1>1. Inheriting(r) /\ OwnedBelow
  BY SharingAt DEF At
<1>2. r.todo = {}
  BY <1>1 DEF Inheriting, Giving, Looping
<1>3. \A u, z : Coming(r, u, z) => z = r.zone
  BY <1>2 DEF Coming
<1>4. ASSUME NEW w \in Zones, NEW z \in Zones, NEW u, <<z, w>> \in Below, ZoneExists(z),
             IsZoneOwner(u, w), z # r.zone
      PROVE  IsZoneOwner(u, z)
  <2>1. z \in subzonesOf(w) /\ u \in ListZoneOwners(w)
    BY <1>4 DEF subzonesOf, IsZoneOwner
  <2>2. QED
    BY <1>1, <1>3, <1>4, <2>1 DEF OwnedBelow
<1>5. QED
  BY <1>2, <1>3, <1>4

\* A zone that has owners above has a closest parent.
LEMMA FindParentShares ==
  ASSUME NEW p, Procs = {p}, IsFiniteSet(Zones), Standing, SubtreeInv, FindParent(p)
  PROVE  SubtreeInv'
<1> DEFINE r == req[p]
           above == {w \in Zones : ZoneExists(w) /\ <<r.zone, w>> \in Below}
<1>1. /\ r.pc = "parent" /\ RequestsTyped /\ r \in Request /\ Vetted(r)
      /\ Inheriting(r) /\ r.op \notin Leaving /\ r.zone \in Zones
  <2>1. At(p, "parent")
    BY DEF FindParent
  <2>2. QED
    BY <2>1, SharingAt DEF Request
<1>2. r.op = "create"
  BY <1>1 DEF Vetted, OpsAt
<1>3. UNCHANGED rows
  BY DEF FindParent
<1>4. /\ r.todo = {} /\ Warranted(r)
      /\ \A u, z : Coming(r, u, z) => z = r.zone
  <2>1. Warranted(r)
    BY <1>1, <1>2 DEF Inheriting, Replied
  <2>2. QED
    BY <1>1, <1>2, <2>1, OnlyTheNewZone
<1>5. closestStoredParent(r.zone) = Closest(above)
  BY DEF closestStoredParent
<1>6. CASE closestStoredParent(r.zone) = {} /\ Reply(p, "ok")
  <2>1. Answered(r, req'[p], "ok")
    BY <1>1, <1>6, ReplyAnswers
  <2>2. Onward(r, req'[p]) /\ req'[p].pc = "ok" /\ req'[p].todo = {}
    BY <2>1, MovesOnward DEF Answered
  <2>3. Inheriting(req[p])'
    BY <1>1, <1>2, <1>3, <2>2, InheritingKept DEF Replied
  <2>4. above = {}
    <3> HIDE DEF above
    <3>1. above \in SUBSET {w \in Zones : <<r.zone, w>> \in Below}
      BY DEF above
    <3>2. QED
      BY <1>1, <1>5, <1>6, <3>1, ClosestExists
  <2>5. \A u : ~ OwnsAbove(u, r.zone)
    BY <2>4 DEF OwnsAbove, IsZoneOwner, ListZoneOwners, ZoneExists
  <2>6. QED
    BY <1>1, <1>3, <1>4, <2>2, <2>3, <2>5, SubtreeKept DEF Onward, Same
<1>7. ASSUME NEW w \in closestStoredParent(r.zone),
             Set(p, [r EXCEPT !.pc = "shareCheck", !.at = w])
      PROVE  SubtreeInv'
  <2>1. Placed(r, req'[p], w, "shareCheck")
    BY <1>1, <1>7, PlaceMoves
  <2>2. /\ Onward(r, req'[p]) /\ req'[p].pc = "shareCheck" /\ req'[p].at = w
        /\ req'[p].todo = {} /\ req'[p] # Idle
    <3>1. Onward(r, req'[p]) /\ req'[p].pc = "shareCheck" /\ req'[p].at = w
      BY <2>1, MovesOnward DEF Placed
    <3>2. QED
      BY <1>4, <2>1, <3>1 DEF Placed, Idle
  <2>3. Inheriting(req[p])'
    BY <1>1, <1>3, <1>4, <1>7, <2>2, InheritingKept
  <2>4. \A u, z : Coming(r, u, z) => Coming(req'[p], u, z)
    BY <1>2, <1>4, <2>2 DEF Coming, Onward, Same, Giving
  <2>5. QED
    BY <1>1, <1>3, <2>2, <2>3, <2>4, SubtreeKept DEF Onward, Same
<1>8. QED
  BY <1>6, <1>7 DEF FindParent

\* The parent is shared: the policy entitles one of its owners, or of those above,
\* who own it as well.
LEMMA ParentSharingShares ==
  ASSUME NEW p, Procs = {p}, IsFiniteSet(Zones), RulesShare, Standing, SubtreeInv,
         ParentSharing(p)
  PROVE  SubtreeInv'
<1> DEFINE r == req[p]
<1>1. /\ r.pc = "shareCheck" /\ RequestsTyped /\ r \in Request
      /\ Inheriting(r) /\ r.op \notin Leaving /\ r.zone \in Zones /\ AllRepresented
  <2>1. At(p, "shareCheck")
    BY DEF ParentSharing
  <2>2. QED
    BY <2>1, SharingAt DEF Request
<1>2. r.op = "create"
  BY DEF ParentSharing
<1>3. UNCHANGED rows
  BY DEF ParentSharing
<1>4. /\ r.todo = {} /\ Warranted(r)
      /\ \A u, z : Coming(r, u, z) => z = r.zone
  <2>1. Warranted(r)
    BY <1>1, <1>2 DEF Inheriting, Replied
  <2>2. QED
    BY <1>1, <1>2, <2>1, OnlyTheNewZone
<1>5. r.at \in closestStoredParent(r.zone)
  BY <1>1, <1>2 DEF Inheriting
<1>6. /\ r.at \in Zones /\ ZoneExists(r.at) /\ <<r.zone, r.at>> \in Below
      /\ r.at # r.zone
  <2>1. r.at \in Zones /\ ZoneExists(r.at) /\ <<r.zone, r.at>> \in Below
    BY <1>5 DEF closestStoredParent, Closest
  <2>2. QED
    BY <1>1, <2>1, BelowAssumption
<1>7. FALSE \notin zoneSharingAnswers(r.at)
  <2>1. PICK v \in Users : /\ PolicyIsZoneAllowedForUser(r.at, v)
                           /\ IsZoneOwner(v, r.at) \/ OwnsAbove(v, r.at)
    BY <1>1, <1>6 DEF AllRepresented, Represented
  <2>2. IsZoneOwner(v, r.at)
    BY <1>1, <1>2, <1>6, <2>1, OnlyTheNewZone DEF OwnsAbove
  <2>3. QED
    BY <1>6, <2>1, <2>2, EntitledOwnerShares DEF IsZoneOwner
<1>8. Goto(p, "parentOwners")
  <2>1. zoneSharingAnswers(r.at) \subseteq {TRUE}
    BY <1>6, <1>7, SharingAnswersTyped DEF Standing, TypeOK
  <2>2. \E share \in zoneSharingAnswers(r.at) :
          IF share THEN Goto(p, "parentOwners") ELSE Reply(p, "ok")
    BY DEF ParentSharing
  <2>3. QED
    BY <2>1, <2>2
<1>9. Moved(r, req'[p], "parentOwners")
  BY <1>1, <1>8, GotoMoves
<1>10. /\ Onward(r, req'[p]) /\ req'[p].pc = "parentOwners" /\ req'[p].at = r.at
       /\ req'[p].todo = {} /\ req'[p] # Idle
  <2>1. Onward(r, req'[p]) /\ req'[p].pc = "parentOwners" /\ req'[p].at = r.at
    BY <1>9, MovesOnward DEF Moved
  <2>2. QED
    BY <1>4, <1>9, <2>1 DEF Moved, Idle
<1>11. Inheriting(req[p])'
  BY <1>1, <1>3, <1>4, <1>5, <1>10, InheritingKept
<1>12. \A u, z : Coming(r, u, z) => Coming(req'[p], u, z)
  BY <1>2, <1>4, <1>10 DEF Coming, Onward, Same, Giving
<1>13. QED
  BY <1>1, <1>3, <1>10, <1>11, <1>12, SubtreeKept DEF Onward, Same

\* The owners of the closest parent are all the owners above.
LEMMA ParentOwnersShare ==
  ASSUME NEW p, Procs = {p}, Standing, SubtreeInv, ParentOwners(p)
  PROVE  SubtreeInv'
<1> DEFINE r == req[p]
           heirs == (ListZoneOwners(r.at) \ {r.caller}) \X {r.zone}
<1>1. /\ r.pc = "parentOwners" /\ RequestsTyped /\ r \in Request /\ Vetted(r)
      /\ Inheriting(r) /\ r.op \notin Leaving /\ r.zone \in Zones /\ OnCourse(r)
  <2>1. At(p, "parentOwners")
    BY DEF ParentOwners
  <2>2. QED
    BY <2>1, SharingAt DEF Request
<1>2. r.op = "create"
  BY <1>1 DEF Vetted, OpsAt
<1>3. UNCHANGED rows
  BY DEF ParentOwners
<1>4. /\ r.todo = {} /\ Warranted(r)
      /\ \A u, z : Coming(r, u, z) => z = r.zone
  <2>1. Warranted(r)
    BY <1>1, <1>2 DEF Inheriting, Replied
  <2>2. QED
    BY <1>1, <1>2, <2>1, OnlyTheNewZone
<1>5. r.at \in closestStoredParent(r.zone)
  BY <1>1, <1>2 DEF Inheriting
<1>6. /\ r.at \in Zones /\ ZoneExists(r.at) /\ <<r.zone, r.at>> \in Below
      /\ r.at # r.zone
      /\ \A w \in Zones : ZoneExists(w) /\ <<r.zone, w>> \in Below =>
           w = r.at \/ <<r.at, w>> \in Below
  <2>1. /\ r.at \in Zones /\ ZoneExists(r.at) /\ <<r.zone, r.at>> \in Below
        /\ \A w \in Zones : ZoneExists(w) /\ <<r.zone, w>> \in Below =>
             w = r.at \/ <<r.at, w>> \in Below
    BY <1>5 DEF closestStoredParent, Closest
  <2>2. QED
    BY <1>1, <2>1, BelowAssumption
<1>7. /\ Same(r, req'[p]) /\ req'[p].pc = "grant" /\ req'[p].cur = r.cur
      /\ req'[p].todo = heirs /\ req'[p] # Idle
  <2>1. Set(p, [r EXCEPT !.pc = "grant", !.todo = heirs])
    BY DEF ParentOwners
  <2>2. QED
    BY <1>1, <2>1 DEF Set, RequestsTyped, Request, Same, Idle
<1>8. MainPair(req[p])' = MainPair(r)
  BY <1>7 DEF MainPair, Fresh, Same
<1>9. \A u, z : OwnsAbove(u, z)' <=> OwnsAbove(u, z)
  BY <1>3 DEF OwnsAbove, IsZoneOwner, ListZoneOwners
<1>10. Inheriting(req[p])'
  <2>1. Looping(req[p])'
    BY <1>7 DEF Looping
  <2>2. r.cur = MainPair(r) \/ Heir(req[p], req[p].cur)'
    <3>1. r.cur = MainPair(r) \/ Heir(r, r.cur)
      BY <1>1, <1>2 DEF Inheriting, Giving
    <3>2. Heir(r, r.cur) => Heir(req[p], req[p].cur)'
      BY <1>2, <1>7, <1>8, <1>9 DEF Heir, Same
    <3>3. QED
      BY <3>1, <3>2
  <2>3. \A t \in heirs : Heir(req[p], t)'
    <3>1. \A t \in heirs : t[2] = r.zone /\ OwnsAbove(t[1], r.zone)
      BY <1>6 DEF OwnsAbove, IsZoneOwner
    <3>2. \A t : t[2] = r.zone /\ OwnsAbove(t[1], r.zone) => Heir(req[p], t)'
      BY <1>2, <1>7, <1>9 DEF Heir, Same
    <3>3. QED
      BY <3>1, <3>2
  <2>4. Warranted(req[p])'
    BY <1>4, <1>7, <1>9 DEF Warranted, Same
  <2>5. QED
    BY <1>2, <1>7, <1>8, <2>1, <2>2, <2>3, <2>4 DEF Inheriting, Same
<1>11. ASSUME NEW z \in Zones, NEW u, ZoneExists(z), OwnsAbove(u, z), Coming(r, u, z)
       PROVE  IsZoneOwner(u, z) \/ Coming(req'[p], u, z)
  <2>1. z = r.zone
    BY <1>4, <1>11
  <2>2. PICK w \in Zones : <<z, w>> \in Below /\ IsZoneOwner(u, w)
    BY <1>11 DEF OwnsAbove
  <2>3. ZoneExists(w)
    BY <2>2 DEF IsZoneOwner, ListZoneOwners, ZoneExists
  <2>4. IsZoneOwner(u, r.at)
    BY <1>1, <1>2, <1>6, <2>1, <2>2, <2>3, OnlyTheNewZone
  <2>5. CASE u = r.caller
    <3>1. Owns(MainPair(r)) /\ MainPair(r) = <<r.caller, r.zone>>
      BY <1>1, <1>2, MainPairIs DEF OnCourse, CreationOnCourse
    <3>2. QED
      BY <2>1, <2>5, <3>1 DEF Owns
  <2>6. CASE u # r.caller
    <3>1. <<u, z>> \in heirs
      BY <2>1, <2>4, <2>6 DEF IsZoneOwner
    <3>2. QED
      BY <1>2, <1>7, <3>1 DEF Coming, Same, Giving
  <2>7. QED
    BY <2>5, <2>6
<1>12. QED
  BY <1>1, <1>3, <1>7, <1>10, <1>11, SubtreeKept DEF Same

\* A new row only makes more owners: whoever owned a zone, or one above it, still does.
LEMMA InsertedAbove ==
  ASSUME RowsTyped, NEW u \in Users, NEW z \in Zones, CreateZone(u, z)
  PROVE  /\ \A v \in Users, w \in Zones :
              IsZoneOwner(v, w)' <=> IsZoneOwner(v, w) \/ (v = u /\ w = z)
         /\ \A w \in Zones : ZoneExists(w)' <=> ZoneExists(w) \/ w = z
         /\ \A v \in Users : \A w : OwnsAbove(v, w) => OwnsAbove(v, w)'
         /\ \A w \in Zones : ListZoneOwners(w)' \subseteq Users
<1>1. /\ \A k \in Pair : Owns(k)' <=> Owns(k) \/ k = <<u, z>>
      /\ \A w \in Zones : ZoneExists(w)' <=> ZoneExists(w) \/ w = z
  BY InsertedOwner
<1>2. ASSUME NEW v \in Users, NEW w \in Zones
      PROVE  IsZoneOwner(v, w)' <=> IsZoneOwner(v, w) \/ (v = u /\ w = z)
  <2>1. <<v, w>> \in Pair
    BY DEF Pair
  <2>2. Owns(<<v, w>>)' <=> Owns(<<v, w>>) \/ <<v, w>> = <<u, z>>
    BY <1>1, <2>1
  <2>3. QED
    BY <2>2 DEF Owns, IsZoneOwner
<1>3. \A v \in Users : \A w : OwnsAbove(v, w) => OwnsAbove(v, w)'
  BY <1>2 DEF OwnsAbove
<1>4. OwnersOf' = [OwnersOf EXCEPT ![z] = @ \cup {u}]
  BY CreateZoneOwners
<1>5. \A w \in Zones : ListZoneOwners(w) \subseteq Users
  BY OwnersAreUsers
<1>6. \A w \in Zones : ListZoneOwners(w)' \subseteq Users
  BY <1>4, <1>5 DEF OwnersOf
<1>7. QED
  BY <1>1, <1>2, <1>3, <1>6

\* The insertion of a row: what is above and below the zone in the table, or to come,
\* stays closed.
LEMMA InsertRowShares ==
  ASSUME NEW p, Procs = {p}, Standing, SubtreeInv, Found(req[p]), CreatesAboveOwn,
         InsertRow(p)
  PROVE  SubtreeInv'
<1> DEFINE r == req[p]
           m == MainPair(r)
           v == r.cur[1]
           w == r.cur[2]
<1>1. /\ RequestsTyped /\ r \in Request /\ r.pc = "insert" /\ Vetted(r) /\ RowChecked(r)
      /\ OnCourse(r) /\ r.op \notin Leaving /\ Inheriting(r)
      /\ AllRepresented /\ OwnedBelow
  <2>1. At(p, "insert")
    BY DEF InsertRow
  <2>2. QED
    BY <2>1, SharingAt
<1>2. r.op \in Giving
  BY <1>1 DEF Vetted, OpsAt, Giving
<1>3. /\ v \in Users /\ w \in Zones /\ r.cur = <<v, w>> /\ r.zone \in Zones
      /\ r.caller \in Users
      /\ m = <<IF r.op \in {"create", "join"} THEN r.caller ELSE r.target, r.zone>>
  BY <1>1, MainPairIs DEF Request, Pair
<1>4. /\ \A u \in Users, z \in Zones :
           IsZoneOwner(u, z)' <=> IsZoneOwner(u, z) \/ (u = v /\ z = w)
      /\ \A z \in Zones : ZoneExists(z)' <=> ZoneExists(z) \/ z = w
      /\ \A u \in Users : \A z : OwnsAbove(u, z) => OwnsAbove(u, z)'
      /\ \A z \in Zones : ListZoneOwners(z)' \subseteq Users
  <2>1. RowsTyped /\ CreateZone(v, w)
    BY DEF Standing, TypeOK, InsertRow
  <2>2. QED
    BY <1>3, <2>1, InsertedAbove
<1>5. Moved(r, req'[p], IF Founding(r) THEN "parent" ELSE "keyAdd")
  BY <1>1, GotoMoves DEF InsertRow, Founding
<1>6. /\ Same(r, req'[p]) /\ req'[p].cur = r.cur /\ req'[p].todo = r.todo
      /\ req'[p].pc = IF Founding(r) THEN "parent" ELSE "keyAdd"
      /\ MainPair(req'[p]) = m
  BY <1>5, SamePair DEF Moved
<1>7. req'[p] # Idle
  BY <1>6 DEF Idle
<1>8. /\ r.cur = m \/ Heir(r, r.cur)
      /\ \A t \in r.todo : Heir(r, t)
      /\ r.cur = m => r.todo = {}
  BY <1>1, <1>2 DEF Inheriting, Looping
<1>9. r.op = "create" => Warranted(r)
  BY <1>1 DEF Inheriting, Replied
<1>10. AllRepresented'
  <2>1. ASSUME NEW z \in Zones, ZoneExists(z)
        PROVE  Represented(z)'
    <3>1. PICK u \in Users : /\ PolicyIsZoneAllowedForUser(z, u)
                             /\ IsZoneOwner(u, z) \/ OwnsAbove(u, z)
      BY <1>1, <2>1 DEF AllRepresented, Represented
    <3>2. QED
      BY <1>4, <3>1 DEF Represented
  <2>2. ASSUME NEW z \in Zones, z = w, ~ ZoneExists(z)
        PROVE  Represented(z)'
    <3>1. Founding(r)
      BY <1>1, <2>2 DEF Found
    <3>2. r.op = "create" /\ z = r.zone /\ v = r.caller
      BY <1>3, <2>2, <3>1 DEF Founding
    <3>3. PICK u \in Users : /\ PolicyIsZoneAllowedForUser(z, u)
                             /\ u = v \/ OwnsAbove(u, z)
      BY <1>9, <3>2 DEF Warranted
    <3>4. IsZoneOwner(u, z)' \/ OwnsAbove(u, z)'
      BY <1>4, <2>2, <3>3
    <3>5. QED
      BY <3>3, <3>4 DEF Represented
  <2>3. QED
    BY <1>4, <2>1, <2>2 DEF AllRepresented
<1>11. ASSUME NEW u \in Users, NEW z \in Zones, NEW x \in Zones, <<z, x>> \in Below,
              ZoneExists(z), IsZoneOwner(u, x)
       PROVE  IsZoneOwner(u, z)' \/ Coming(req'[p], u, z)
  <2>1. z \in subzonesOf(x) /\ u \in ListZoneOwners(x)
    BY <1>11 DEF subzonesOf, IsZoneOwner
  <2>2. IsZoneOwner(u, z) \/ Coming(r, u, z)
    BY <1>1, <2>1 DEF OwnedBelow
  <2>3. Coming(r, u, z) => <<u, z>> \in r.todo \/ r.cur = <<u, z>>
    BY <1>1 DEF Coming
  <2>4. <<u, z>> \in r.todo => Coming(req'[p], u, z)
    BY <1>2, <1>6, <1>7 DEF Coming, Same
  <2>5. r.cur = <<u, z>> => u = v /\ z = w
    OBVIOUS
  <2>6. QED
    BY <1>4, <2>2, <2>3, <2>4, <2>5
<1>12. ASSUME NEW u \in Users, NEW z \in Zones, NEW x \in Zones, <<z, x>> \in Below,
              ZoneExists(z)', IsZoneOwner(u, x)'
       PROVE  IsZoneOwner(u, z)' \/ Coming(req'[p], u, z)
  <2>1. z # x
    BY <1>12, BelowAssumption
  <2>2. CASE IsZoneOwner(u, x) /\ ~ ZoneExists(z)
    <3>1. z = w
      BY <1>4, <1>12, <2>2
    <3>2. Founding(r)
      BY <1>1, <2>2, <3>1 DEF Found
    <3>3. r.op = "create" /\ z = r.zone
      BY <1>3, <3>1, <3>2 DEF Founding
    <3>4. QED
      BY <1>6, <1>7, <3>2, <3>3 DEF Coming, Giving, Same
  <2>3. CASE ~ IsZoneOwner(u, x)
    <3>1. u = v /\ x = w /\ ZoneExists(z)
      BY <1>4, <1>12, <2>1, <2>3
    <3>2. CASE Founding(r)
      <4>1. x = r.zone /\ u = r.caller
        BY <1>3, <3>1, <3>2 DEF Founding
      <4>2. z \in subzonesOf(r.zone)
        BY <1>12, <3>1, <4>1 DEF subzonesOf
      <4>3. IsZoneOwner(r.caller, z)
        BY <1>1, <3>2, <4>2 DEF CreatesAboveOwn, At
      <4>4. QED
        BY <1>4, <4>1, <4>3
    <3>3. CASE r.op = "create" /\ ~ Founding(r)
      <4>1. OwnsAbove(u, x)
        BY <1>3, <1>8, <3>1, <3>3 DEF Founding, Heir
      <4>2. PICK y \in Zones : <<x, y>> \in Below /\ IsZoneOwner(u, y)
        BY <4>1 DEF OwnsAbove
      <4>3. <<z, y>> \in Below
        BY <1>12, <4>2, BelowAssumption
      <4>4. QED
        BY <1>11, <3>1, <4>2, <4>3
    <3>4. CASE r.op # "create" /\ r.cur = m
      <4>1. u = m[1] /\ x = r.zone
        BY <1>3, <3>1, <3>4
      <4>2. req'[p].pc = "keyAdd"
        BY <1>6, <3>4 DEF Founding
      <4>3. QED
        BY <1>2, <1>6, <1>7, <1>12, <3>4, <4>1, <4>2 DEF Coming, Same
    <3>5. CASE r.op # "create" /\ r.cur # m
      <4>1. u = m[1] /\ <<x, r.zone>> \in Below
        BY <1>3, <1>8, <3>1, <3>5 DEF Heir
      <4>2. Owns(m)
        BY <1>1, <1>2, <3>5 DEF OnCourse, GrantOnCourse, Giving
      <4>3. IsZoneOwner(u, r.zone)
        BY <1>3, <4>1, <4>2 DEF Owns
      <4>4. <<z, r.zone>> \in Below
        BY <1>3, <1>12, <4>1, BelowAssumption
      <4>5. QED
        BY <1>3, <1>11, <3>1, <4>3, <4>4
    <3>6. QED
      BY <3>2, <3>3, <3>4, <3>5 DEF Founding
  <2>4. QED
    BY <1>11, <1>12, <2>2, <2>3
<1>13. OwnedBelow'
  <2>1. \A u, z : Coming(req[p], u, z)' <=> Coming(req'[p], u, z)
    BY DEF Coming, MainPair, Fresh
  <2>2. ASSUME NEW x \in Zones, NEW z \in subzonesOf(x)', NEW u \in ListZoneOwners(x)'
        PROVE  (IsZoneOwner(u, z) \/ Coming(req[p], u, z))'
    <3>1. /\ z \in Zones /\ ZoneExists(z)' /\ <<z, x>> \in Below
          /\ u \in Users /\ IsZoneOwner(u, x)'
      BY <1>4, <2>2 DEF subzonesOf, IsZoneOwner
    <3>2. QED
      BY <1>12, <2>1, <3>1
  <2>3. QED
    BY <2>2 DEF OwnedBelow
<1>14. Inheriting(req[p])'
  <2>1. MainPair(req[p])' = m
    BY <1>6 DEF MainPair, Fresh, Same
  <2>2. Looping(req[p])' \/ req'[p].todo = {}
    BY <1>6, <1>8, <2>1 DEF Looping, Founding
  <2>3. \A t : t[1] \in Users /\ Heir(r, t) => Heir(req[p], t)'
    BY <1>4, <1>6, <2>1 DEF Heir, Same
  <2>4. \A t \in r.todo : t[1] \in Users
    BY <1>1 DEF Request, Pair
  <2>5. Heir(r, r.cur) => Heir(req[p], req[p].cur)'
    BY <1>3, <1>4, <1>6, <2>1 DEF Heir, Same
  <2>6. Warranted(r) => Warranted(req[p])'
    BY <1>4, <1>6 DEF Warranted, Same
  <2>7. req'[p].pc \notin {"shareCheck", "parentOwners"}
    BY <1>6
  <2>8. QED
    BY <1>6, <1>8, <1>9, <2>1, <2>2, <2>3, <2>4, <2>5, <2>6, <2>7 DEF Inheriting, Same
<1>15. QED
  BY <1>1, <1>6, <1>10, <1>13, <1>14 DEF SubtreeInv, Same

LEMMA ReceiveShares ==
  ASSUME NEW p, Procs = {p}, Ops \cap Leaving = {}, TypeOK, SubtreeInv, Receive(p)
  PROVE  SubtreeInv'
<1>1. req[p].pc = "idle" /\ RequestsTyped /\ UNCHANGED rows
  BY DEF Receive, At, TypeOK
<1>2. PICK op \in Ops, login \in Logins, caller \in Users, zone \in Zones,
           target \in Users :
        Set(p, Fresh(op, login, caller, zone, target, FirstLabel(op)))
  BY DEF Receive
<1> DEFINE s == Fresh(op, login, caller, zone, target, FirstLabel(op))
<1>3. /\ s.op = op /\ s.todo = {} /\ s.cur = MainPair(s)
      /\ op = "create" => s.pc = "authorize"
  BY DEF Fresh, MainPair, FirstLabel
<1>4. req'[p] = s
  BY <1>1, <1>2 DEF Set, RequestsTyped
<1> HIDE DEF s
<1>5. MainPair(req[p])' = req'[p].cur
  BY <1>3, <1>4 DEF MainPair, Fresh
<1>6. Inheriting(req[p])'
  BY <1>3, <1>4, <1>5 DEF Inheriting
<1>7. req[p] = Idle \/ req[p] \in Request
  BY <1>1 DEF RequestsTyped
<1>8. req[p] = Idle
  BY <1>1, <1>7 DEF Request, Labels, Replied
<1>9. \A u, z : ~ Coming(req[p], u, z)
  BY <1>8 DEF Coming
<1>10. req'[p].op \notin Leaving
  BY <1>3, <1>4
<1>11. QED
  BY <1>1, <1>6, <1>9, <1>10, SubtreeKept

LEMMA RespondShares ==
  ASSUME NEW p, Procs = {p}, Standing, SubtreeInv, Respond(p)
  PROVE  SubtreeInv'
<1>1. req[p].pc \in Replied /\ UNCHANGED rows
  BY DEF Respond
<1>2. Inheriting(req[p])
  BY <1>1, SharingAt DEF At, Replied
<1>3. Silent(req[p])
  BY <1>1, <1>2 DEF Inheriting, Looping, Replied, Silent
<1>4. req'[p] = Idle
  BY RespondStays
<1>5. QED
  BY <1>1, <1>3, <1>4, SubtreeKept, NothingComing

LEMMA InitShares ==
  ASSUME NEW p, Procs = {p}, TablesShareSubtrees, Init
  PROVE  SubtreeInv
<1>1. PICK table \in InitTables : InitWith(table)
  BY DEF Init
<1> DEFINE Owners(z) == {table[z][i] : i \in DOMAIN table[z]}
<1>2. table \in [Zones -> Seq(Users)]
  BY ServiceAssumption
<1>3. \A z \in Zones : rows[z] = {[user |-> table[z][i], id |-> i] : i \in DOMAIN table[z]}
  BY <1>1 DEF InitWith
<1>4. \A z \in Zones : ListZoneOwners(z) = Owners(z)
  <2>1. ASSUME NEW z \in Zones
        PROVE  ListZoneOwners(z) \subseteq Owners(z)
    BY <1>3 DEF ListZoneOwners
  <2>2. ASSUME NEW z \in Zones, NEW u \in Owners(z)
        PROVE  u \in ListZoneOwners(z)
    <3>1. PICK i \in DOMAIN table[z] : u = table[z][i]
      OBVIOUS
    <3>2. [user |-> table[z][i], id |-> i] \in rows[z]
      BY <1>3
    <3>3. [user |-> table[z][i], id |-> i].user = u
      BY <3>1
    <3>4. QED
      BY <3>2, <3>3 DEF ListZoneOwners
  <2>3. QED
    BY <2>1, <2>2
<1>5. \A z \in Zones : ZoneExists(z) => z \in StoredZones(table)
  BY <1>3 DEF ZoneExists, StoredZones
<1>6. \A z \in Zones : ZoneExists(z) =>
        /\ \A w \in Zones : <<z, w>> \in Below => Owners(w) \subseteq Owners(z)
        /\ \E v \in Owners(z) : PolicyIsZoneAllowedForUser(z, v)
  BY <1>5 DEF TablesShareSubtrees
<1> HIDE DEF Owners
<1>7. AllRepresented
  <2>1. ASSUME NEW z \in Zones, ZoneExists(z)
        PROVE  Represented(z)
    <3>1. PICK v \in Owners(z) : PolicyIsZoneAllowedForUser(z, v)
      BY <1>6, <2>1
    <3>2. IsZoneOwner(v, z)
      BY <1>4 DEF IsZoneOwner
    <3>3. v \in Users
      BY <1>2 DEF Owners
    <3>4. QED
      BY <3>1, <3>2, <3>3 DEF Represented
  <2>2. QED
    BY <2>1 DEF AllRepresented
<1>8. OwnedBelow
  BY <1>4, <1>6 DEF OwnedBelow, subzonesOf, IsZoneOwner
<1>9. req[p] = Idle
  BY DEF Init
<1>10. QED
  BY <1>7, <1>8, <1>9 DEF SubtreeInv

\* Under rules that share every zone and give no token more than a session, as long as
\* requests come one at a time and none of their calls fails, nobody is removed from a
\* zone and nobody creates a zone above one they do not own: at every step of a creation, join or addition, an owner of a zone owns
\* what is below it or is among those the request is still to grant.
THEOREM SubtreeInvariant ==
  ASSUME NEW p, Procs = {p}, IsFiniteSet(Zones), MaxFaults = 0,
         Ops \cap Leaving = {}, RulesShare, TokensGiveNoMore, TablesShareSubtrees
  PROVE  Spec /\ []CreatesAboveOwn => []SubtreeInv
<1>1. ASSUME TypeOK, PolicyInv, AloneInv, CourseInv, AgreeInv, AgreeInv', TypeOK',
             CreatesAboveOwn, SubtreeInv, [Next]_vars
      PROVE  SubtreeInv'
  <2> USE <1>1
  <2>1. Standing
    BY DEF Standing
  <2>2. faults = 0 /\ faults' = 0
    BY ServiceAssumption DEF TypeOK, BudgetTyped
  <2>3. req'[p].pc # "failed"
    <3>1. req'[p] # Idle => Agrees(req[p])'
      BY <2>2 DEF AgreeInv
    <3>2. QED
      BY <3>1 DEF Agrees, Idle
  <2>4. CASE Receive(p)
    BY <2>4, ReceiveShares
  <2>5. CASE CreateStep(p)
    BY <2>1, <2>5, CreationStepsSilent, AuthorizeShares, FindParentShares,
       ParentSharingShares, ParentOwnersShare DEF CreateStep
  <2>6. CASE GrantStep(p) /\ ~ InsertRow(p)
    BY <2>1, <2>3, <2>6, ChecksSilent, KeyStepsShare, ListSubtreeShares, GrantNextShares
       DEF GrantStep
  <2>7. CASE InsertRow(p)
    <3>1. req[p].pc = "insert"
      BY <2>7 DEF InsertRow, At
    <3>2. Found(req[p])
      BY <2>2, <3>1 DEF AgreeInv, Agrees, Idle
    <3>3. QED
      BY <2>1, <2>7, <3>2, InsertRowShares
  <2>8. CASE RevokeStep(p) \/ DeleteStep(p)
    BY <2>1, <2>8, OthersSilent, DeleteRowsShares
  <2>9. CASE Respond(p)
    BY <2>1, <2>9, RespondShares
  <2>10. ~ CallFails(p) /\ ~ Crash
    BY <2>2 DEF CallFails, Crash
  <2>11. CASE UNCHANGED vars
    <3>1. UNCHANGED rows /\ req' = req
      BY <2>11 DEF vars
    <3>2. \A z : closestStoredParent(z)' = closestStoredParent(z)
      BY <3>1 DEF closestStoredParent, Closest, ZoneExists
    <3>3. ASSUME req'[p] # Idle
          PROVE  req'[p].op \notin Leaving /\ Inheriting(req[p])'
      <4>1. req[p].op \notin Leaving /\ Inheriting(req[p])
        BY <3>1, <3>3 DEF SubtreeInv
      <4>2. Onward(req[p], req'[p])
        BY <3>1 DEF Onward, Same
      <4>3. Inheriting(req[p])'
        BY <3>1, <4>1, <4>2, InheritingKept DEF Inheriting
      <4>4. QED
        BY <3>1, <4>1, <4>3
    <3>4. QED
      BY <3>1, <3>3, SubtreeKept
  <2>12. QED
    BY <2>4, <2>5, <2>6, <2>7, <2>8, <2>9, <2>10, <2>11 DEF Next, Step
<1>2. Init => SubtreeInv
  BY InitShares
<1>3. Spec => []AloneInv /\ []CourseInv /\ []AgreeInv
  BY AloneInvariant, CourseInvariant, AgreeInvariant
<1>4. QED
  BY <1>1, <1>2, <1>3, TypeCorrect, PolicyInvariant, PTL DEF Spec

\* Under the same conditions, whenever nothing is in flight, every owner of a zone owns
\* what is below it, as creations, joins, additions and deletions leave it: the invariant
\* that src/internal/zone_sharing.go is to maintain.
THEOREM SubtreeShared ==
  ASSUME NEW p, Procs = {p}, IsFiniteSet(Zones), MaxFaults = 0,
         Ops \cap Leaving = {}, RulesShare, TokensGiveNoMore, TablesShareSubtrees
  PROVE  Spec /\ []CreatesAboveOwn => []SubtreeOwnership
<1>1. ASSUME SubtreeInv
      PROVE  SubtreeOwnership
  <2> SUFFICES ASSUME req[p].pc = "idle", NEW w \in Zones, NEW z \in subzonesOf(w),
                      NEW u \in ListZoneOwners(w)
               PROVE  u \in ListZoneOwners(z)
    BY DEF SubtreeOwnership, Quiescent, At
  <2>1. IsZoneOwner(u, z) \/ Coming(req[p], u, z)
    BY <1>1 DEF SubtreeInv, OwnedBelow
  <2>2. ~ Coming(req[p], u, z)
    <3>1. req[p] # Idle => Inheriting(req[p])
      BY <1>1 DEF SubtreeInv
    <3>2. req[p].op \in Giving /\ req[p] # Idle => req[p].todo = {}
      BY <3>1 DEF Inheriting, Looping
    <3>3. QED
      BY <3>2 DEF Coming
  <2>3. QED
    BY <2>1, <2>2 DEF IsZoneOwner
<1>2. QED
  BY <1>1, SubtreeInvariant, PTL

===============================================================================
