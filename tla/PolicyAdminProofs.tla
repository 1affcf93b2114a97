--------------------------- MODULE PolicyAdminProofs --------------------------
(***************************************************************************)
(* Theorems about PolicyAdmin: however requests of super admins and of     *)
(* delegates overlap, only validated rules are stored, a deleted rule      *)
(* stays deleted, and what a delegate writes stays within what was         *)
(* delegated to them; for any number of users, rules and requests.         *)
(***************************************************************************)
EXTENDS PolicyAdmin, DnsNamesProofs

-------------------------------------------------------------------------------
(* Requests *)

Answer  == [pc : Replied \cup {"idle"}]
Pending == PendingRule \cup PendingDelegation

\* Like Entitled, when these suffixes were delegated at some time.
EntitledBy(u, drafts, G) == isSuperAdmin(u) \/ \A d \in drafts : InScopeOf(d.soa, G[u])

\* What RequestsChecked says of one request.
Sound(r, G) ==
  /\ r.pc \in LabelsOf(r.op)
  /\ r.op \in {"update", "delete"} => r.id \in RuleIds
  /\ r.op \in {"regrant", "drop"} => r.id \in DelegationIds
  /\ r.op \notin {"delete", "drop"} => r.body # None
  /\ r.op \in DelegationOps => isSuperAdmin(r.user)
  /\ r.pc \in {"insert", "getAgain", "write"} =>
       r.body \subseteq ValidDrafts /\ EntitledBy(r.user, r.body, G)
  /\ r.op \in {"update", "delete"} /\ r.pc # "get" => r.seen # None
  /\ \/ r.pc \in {"getAgain", "write", "erase"}
     \/ r.op = "update" /\ r.pc = "authNew" /\ r.okOld
     => EntitledBy(r.user, r.seen, G)

\* The history has every delegation there is.
Remembered ==
  \A id \in DelegationIds : \A d \in delegations[id] :
    \A u \in d.users : d.suffix \in granted[u]

\* Inductive.
AdminInv == TypeOK /\ Remembered /\ RequestsChecked

Tables ==
  /\ rules \in [RuleIds -> {None} \cup Single(ValidDrafts)]
  /\ lastRule \in 0 .. MaxRules
  /\ Stored(rules) \subseteq 1 .. lastRule
  /\ delegations \in [DelegationIds -> {None} \cup Single(ValidGrants)]
  /\ lastDelegation \in 0 .. MaxDelegations
  /\ Stored(delegations) \subseteq 1 .. lastDelegation
  /\ granted \in [Users -> SUBSET {g.suffix : g \in ValidGrants}]
  /\ Remembered

\* Nothing is ever taken off the history.
Grows == \A u \in Users : granted[u] \subseteq granted'[u]

LEMMA Labels ==
  ASSUME NEW op \in RuleOps \cup DelegationOps
  PROVE  /\ LabelsOf(op) \cap (Replied \cup {"idle"}) = {}
         /\ "authNew" \in LabelsOf(op) <=> op \in {"create", "update"}
         /\ "insert" \in LabelsOf(op) <=> op = "create"
         /\ "get" \in LabelsOf(op) <=> op \in {"update", "delete"}
         /\ "authOld" \in LabelsOf(op) <=> op \in {"update", "delete"}
         /\ "getAgain" \in LabelsOf(op) <=> op = "update"
         /\ "write" \in LabelsOf(op) <=> op = "update"
         /\ "erase" \in LabelsOf(op) <=> op = "delete"
         /\ "newDelegation" \in LabelsOf(op) <=> op = "grant"
         /\ "getDelegation" \in LabelsOf(op) <=> op = "regrant"
         /\ "setDelegation" \in LabelsOf(op) <=> op = "regrant"
         /\ "dropDelegation" \in LabelsOf(op) <=> op = "drop"
BY DEF LabelsOf, Replied, RuleOps, DelegationOps

LEMMA PendingNotFree ==
  ASSUME NEW r \in Pending
  PROVE  r.op \in RuleOps \cup DelegationOps /\ r.pc \notin Replied \cup {"idle"}
<1>1. PICK op \in RuleOps \cup DelegationOps : r.pc \in LabelsOf(op)
  BY DEF Pending, PendingRule, PendingDelegation
<1>2. QED
  BY <1>1, Labels DEF Pending, PendingRule, PendingDelegation

LEMMA InFlight ==
  ASSUME AdminInv, NEW p \in Procs, ~Free(p)
  PROVE  /\ req[p] \in Pending
         /\ req[p].op \in RuleOps \cup DelegationOps
         /\ req[p].user \in Users
         /\ req[p].op \in RuleOps => req[p] \in PendingRule
         /\ req[p].op \in DelegationOps => req[p] \in PendingDelegation
         /\ Sound(req[p], granted)
<1>1. req[p] \in Pending
  BY DEF AdminInv, TypeOK, Free, Pending
<1>2. req[p].op \in RuleOps \cup DelegationOps
  BY <1>1, PendingNotFree
<1>3. Sound(req[p], granted)
  BY DEF AdminInv, RequestsChecked, Sound, Entitled, EntitledBy
<1>4. RuleOps \cap DelegationOps = {}
  BY DEF RuleOps, DelegationOps
<1>5. /\ req[p].user \in Users
      /\ req[p].op \in RuleOps => req[p] \in PendingRule
      /\ req[p].op \in DelegationOps => req[p] \in PendingDelegation
  BY <1>1, <1>4 DEF Pending, PendingRule, PendingDelegation
<1>6. QED
  BY <1>1, <1>2, <1>3, <1>5

LEMMA EntitledStays ==
  ASSUME Grows, NEW u \in Users, NEW drafts, EntitledBy(u, drafts, granted)
  PROVE  EntitledBy(u, drafts, granted')
BY DEF Grows, EntitledBy, InScopeOf

LEMMA SoundStays ==
  ASSUME Grows, NEW r, r.user \in Users, Sound(r, granted)
  PROVE  Sound(r, granted')
BY EntitledStays DEF Sound

\* A step of one request, that leaves it answered or sound.
LEMMA StepSound ==
  ASSUME AdminInv, NEW p \in Procs, NEW s,
         req' = [req EXCEPT ![p] = s],
         s \in Answer \/ (s \in Pending /\ Sound(s, granted')),
         Tables', Grows,
         started' \in 0 .. MaxRequests, faults' \in 0 .. MaxFaults
  PROVE  AdminInv'
<1>1. req \in [Procs -> Answer \cup Pending]
  BY DEF AdminInv, TypeOK, Answer, Pending
<1>2. req' \in [Procs -> Answer \cup Pending] /\ req'[p] = s
  BY <1>1
<1>3. ASSUME NEW q \in Procs, ~Free(q)'
      PROVE  Sound(req'[q], granted')
  <2>1. CASE q = p
    BY <1>2, <1>3, <2>1 DEF Answer, Free
  <2>2. CASE q # p
    <3>1. req'[q] = req[q] /\ ~Free(q)
      BY <1>1, <1>3, <2>2 DEF Free
    <3>2. QED
      BY <3>1, InFlight, SoundStays
  <2>3. QED
    BY <2>1, <2>2
<1>4. TypeOK'
  BY <1>2 DEF Tables, TypeOK, Answer, Pending
<1>5. RequestsChecked'
  BY <1>3 DEF RequestsChecked, Sound, Entitled, EntitledBy
<1>6. QED
  BY <1>4, <1>5 DEF AdminInv, Tables

LEMMA Budgets ==
  ASSUME AdminInv, Continue
  PROVE  started' \in 0 .. MaxRequests /\ faults' \in 0 .. MaxFaults
BY DEF AdminInv, TypeOK, Continue

LEMMA TablesStay ==
  ASSUME AdminInv, UNCHANGED <<tables, granted>>
  PROVE  Tables' /\ Grows
BY DEF AdminInv, TypeOK, Tables, tables, Grows, Stored, Remembered

\* A request that is at another label, and the same otherwise.
Moved(s, r, pc) ==
  /\ s \in Pending
  /\ s.pc = pc
  /\ s.op = r.op /\ s.user = r.user /\ s.id = r.id
  /\ s.body = r.body /\ s.seen = r.seen /\ s.okOld = r.okOld

LEMMA GotoMoves ==
  ASSUME AdminInv, NEW p \in Procs, ~Free(p), NEW pc \in LabelsOf(req[p].op), Goto(p, pc)
  PROVE  \E s : req' = [req EXCEPT ![p] = s] /\ Moved(s, req[p], pc)
<1> DEFINE r == req[p]
           s == [r EXCEPT !.pc = pc]
<1>1. pc \notin Replied
  BY InFlight, Labels
<1>2. req' = [req EXCEPT ![p] = s]
  BY <1>1 DEF Goto
<1>3. ASSUME r \in PendingRule, pc \in UNION {LabelsOf(op) : op \in RuleOps}
      PROVE  Moved(s, r, pc)
  <2>1. /\ s \in PendingRule /\ s.pc = pc
        /\ s.op = r.op /\ s.user = r.user /\ s.id = r.id
        /\ s.body = r.body /\ s.seen = r.seen /\ s.okOld = r.okOld
    BY <1>3 DEF PendingRule
  <2> HIDE DEF s
  <2>2. QED
    BY <2>1 DEF Moved, Pending
<1>4. ASSUME r \in PendingDelegation, pc \in UNION {LabelsOf(op) : op \in DelegationOps}
      PROVE  Moved(s, r, pc)
  <2>1. /\ s \in PendingDelegation /\ s.pc = pc
        /\ s.op = r.op /\ s.user = r.user /\ s.id = r.id
        /\ s.body = r.body /\ s.seen = r.seen /\ s.okOld = r.okOld
    BY <1>4 DEF PendingDelegation
  <2> HIDE DEF s
  <2>2. QED
    BY <2>1 DEF Moved, Pending
<1>5. Moved(s, r, pc)
  BY <1>3, <1>4, InFlight
<1> HIDE DEF s
<1>6. QED
  BY <1>2, <1>5

\* A request that goes on, with what its new label asks for.
LEMMA GotoSound ==
  ASSUME AdminInv, NEW p \in Procs, ~Free(p), NEW pc \in LabelsOf(req[p].op),
         Goto(p, pc), pc # "authNew",
         pc \in {"insert", "getAgain", "write"} =>
           req[p].body \subseteq ValidDrafts
           /\ EntitledBy(req[p].user, req[p].body, granted),
         pc \in {"getAgain", "write", "erase"} =>
           EntitledBy(req[p].user, req[p].seen, granted),
         pc # "get" /\ req[p].op \in {"update", "delete"} => req[p].seen # None,
         Tables', Grows, Continue
  PROVE  AdminInv'
<1>1. PICK s : req' = [req EXCEPT ![p] = s] /\ Moved(s, req[p], pc)
  BY GotoMoves
<1>2. Sound(req[p], granted) /\ req[p].user \in Users
  BY InFlight
<1>3. Sound(s, granted)
  BY <1>1, <1>2 DEF Moved, Sound
<1>4. Sound(s, granted')
  BY <1>1, <1>2, <1>3, SoundStays DEF Moved
<1>5. QED
  BY <1>1, <1>4, Budgets, StepSound DEF Moved

LEMMA ReplySound ==
  ASSUME AdminInv, NEW p \in Procs, NEW pc \in Replied, Goto(p, pc),
         Tables', Grows, started' \in 0 .. MaxRequests, faults' \in 0 .. MaxFaults
  PROVE  AdminInv'
<1>1. req' = [req EXCEPT ![p] = [pc |-> pc]] /\ [pc |-> pc] \in Answer
  BY DEF Goto, Answer
<1>2. QED
  BY <1>1, StepSound

-------------------------------------------------------------------------------
(* One lemma per action *)

LEMMA ReceiveRuleKeeps ==
  ASSUME AdminInv, NEW p \in Procs, ReceiveRule(p) PROVE AdminInv'
<1>1. Tables' /\ Grows /\ started' \in 0 .. MaxRequests /\ faults' \in 0 .. MaxFaults
  BY TablesStay, AdminAssumption DEF ReceiveRule, Receive, AdminInv, TypeOK
<1>2. ASSUME NEW u \in Users, NEW id \in 0 .. MaxRules, NEW op \in RuleOps,
             NEW body \in {None} \cup Single(Drafts),
             NEW pc \in LabelsOf(op), pc \in {"get", "authNew"},
             op = "update" => pc = "get",
             op \in {"update", "delete"} => id \in RuleIds,
             op # "delete" => body # None,
             Accept(p, Running(op, u, id, body, pc))
      PROVE  AdminInv'
  <2> DEFINE s == Running(op, u, id, body, pc)
  <2>1. /\ s \in PendingRule
        /\ s.op = op /\ s.user = u /\ s.id = id /\ s.body = body
        /\ s.pc = pc /\ s.okOld = TRUE
    BY <1>2 DEF PendingRule, Running, None
  <2>2. req' = [req EXCEPT ![p] = s]
    BY <1>2 DEF Accept
  <2> HIDE DEF s
  <2>3. Sound(s, granted')
    BY <1>2, <2>1, Labels DEF Sound, RuleOps, DelegationOps
  <2>4. QED
    BY <1>1, <2>1, <2>2, <2>3, StepSound DEF Pending
<1>3. PICK u \in Users, id \in RuleIds :
        \/ \E d \in Drafts : \/ Accept(p, Running("create", u, 0, {d}, "authNew"))
                             \/ Accept(p, Running("update", u, id, {d}, "get"))
        \/ Accept(p, Running("delete", u, id, None, "get"))
  BY DEF ReceiveRule, None
<1>4. /\ "authNew" \in LabelsOf("create")
      /\ "get" \in LabelsOf("update")
      /\ "get" \in LabelsOf("delete")
  BY DEF LabelsOf
<1>5. ASSUME NEW d \in Drafts, Accept(p, Running("create", u, 0, {d}, "authNew"))
      PROVE  AdminInv'
  <2>1. {d} \in Single(Drafts) /\ {d} # None /\ 0 \in 0 .. MaxRules
    BY AdminAssumption DEF Single, None
  <2>2. "create" \in RuleOps
    BY DEF RuleOps
  <2>3. QED
    BY <1>2, <1>4, <1>5, <2>1, <2>2
<1>6. ASSUME NEW d \in Drafts, Accept(p, Running("update", u, id, {d}, "get"))
      PROVE  AdminInv'
  <2>1. {d} \in Single(Drafts) /\ {d} # None /\ id \in 0 .. MaxRules
    BY AdminAssumption DEF Single, None, RuleIds
  <2>2. "update" \in RuleOps
    BY DEF RuleOps
  <2>3. QED
    BY <1>2, <1>4, <1>6, <2>1, <2>2
<1>7. ASSUME Accept(p, Running("delete", u, id, None, "get"))
      PROVE  AdminInv'
  <2>1. id \in 0 .. MaxRules
    BY AdminAssumption DEF RuleIds
  <2>2. "delete" \in RuleOps
    BY DEF RuleOps
  <2>3. QED
    BY <1>2, <1>4, <1>7, <2>1, <2>2
<1>8. QED
  BY <1>3, <1>5, <1>6, <1>7

LEMMA ReceiveDelegationKeeps ==
  ASSUME AdminInv, NEW p \in Procs, ReceiveDelegation(p) PROVE AdminInv'
<1>1. Tables' /\ Grows /\ started' \in 0 .. MaxRequests /\ faults' \in 0 .. MaxFaults
  BY TablesStay, AdminAssumption DEF ReceiveDelegation, Receive, AdminInv, TypeOK
<1>2. ASSUME NEW u \in Users, isSuperAdmin(u),
             NEW id \in 0 .. MaxDelegations, NEW op \in DelegationOps,
             NEW body \in {None} \cup Single(ValidGrants),
             NEW pc \in LabelsOf(op),
             op \in {"regrant", "drop"} => id \in DelegationIds,
             op # "drop" => body # None,
             Accept(p, Running(op, u, id, body, pc))
      PROVE  AdminInv'
  <2> DEFINE s == Running(op, u, id, body, pc)
  <2>1. /\ s \in PendingDelegation
        /\ s.op = op /\ s.user = u /\ s.id = id /\ s.body = body
        /\ s.pc = pc /\ s.okOld = TRUE
    BY <1>2 DEF PendingDelegation, Running, None
  <2>2. req' = [req EXCEPT ![p] = s]
    BY <1>2 DEF Accept
  <2> HIDE DEF s
  <2>3. Sound(s, granted')
    BY <1>2, <2>1, Labels DEF Sound, DelegationOps
  <2>4. QED
    BY <1>1, <2>1, <2>2, <2>3, StepSound DEF Pending
<1>3. PICK u \in Users, id \in DelegationIds :
        \/ isSuperAdmin(u) /\ Accept(p, Running("drop", u, id, None, "dropDelegation"))
        \/ \E g \in Grants :
             /\ isSuperAdmin(u) /\ DelegationIsValid(g)
             /\ \/ Accept(p, Running("grant", u, 0, {g}, "newDelegation"))
                \/ Accept(p, Running("regrant", u, id, {g}, "getDelegation"))
        \/ Accept(p, [pc |-> "refused"])
  BY DEF ReceiveDelegation, None
<1>4. /\ "newDelegation" \in LabelsOf("grant")
      /\ "getDelegation" \in LabelsOf("regrant")
      /\ "dropDelegation" \in LabelsOf("drop")
  BY DEF LabelsOf
<1>5. ASSUME isSuperAdmin(u), Accept(p, Running("drop", u, id, None, "dropDelegation"))
      PROVE  AdminInv'
  <2>1. id \in 0 .. MaxDelegations
    BY AdminAssumption DEF DelegationIds
  <2>2. "drop" \in DelegationOps
    BY DEF DelegationOps
  <2>3. QED
    BY <1>2, <1>4, <1>5, <2>1, <2>2
<1>6. ASSUME isSuperAdmin(u), NEW g \in Grants, DelegationIsValid(g),
             Accept(p, Running("grant", u, 0, {g}, "newDelegation"))
      PROVE  AdminInv'
  <2>1. {g} \in Single(ValidGrants) /\ {g} # None
    BY <1>6 DEF Single, ValidGrants, DelegationIsValid, None
  <2>2. "grant" \in DelegationOps /\ 0 \in 0 .. MaxDelegations
    BY AdminAssumption DEF DelegationOps, DelegationIds
  <2>3. QED
    BY <1>2, <1>4, <1>6, <2>1, <2>2
<1>7. ASSUME isSuperAdmin(u), NEW g \in Grants, DelegationIsValid(g),
             Accept(p, Running("regrant", u, id, {g}, "getDelegation"))
      PROVE  AdminInv'
  <2>1. {g} \in Single(ValidGrants) /\ {g} # None
    BY <1>7 DEF Single, ValidGrants, DelegationIsValid, None
  <2>2. "regrant" \in DelegationOps /\ id \in 0 .. MaxDelegations
    BY AdminAssumption DEF DelegationOps, DelegationIds
  <2>3. QED
    BY <1>2, <1>4, <1>7, <2>1, <2>2
<1>8. CASE Accept(p, [pc |-> "refused"])
  <2>1. req' = [req EXCEPT ![p] = [pc |-> "refused"]] /\ [pc |-> "refused"] \in Answer
    BY <1>8 DEF Accept, Answer, Replied
  <2>2. QED
    BY <1>1, <2>1, StepSound
<1>9. QED
  BY <1>3, <1>5, <1>6, <1>7, <1>8

LEMMA CallFailsKeeps ==
  ASSUME AdminInv, NEW p \in Procs, CallFails(p) PROVE AdminInv'
<1>1. Tables' /\ Grows /\ started' \in 0 .. MaxRequests /\ faults' \in 0 .. MaxFaults
  BY TablesStay, AdminAssumption DEF CallFails, AdminInv, TypeOK
<1>2. \E pc \in Replied : Goto(p, pc)
  BY DEF CallFails, Replied
<1>3. QED
  BY <1>1, <1>2, ReplySound

\* What a request at each label is known to be.
LEMMA AtRule ==
  ASSUME AdminInv, NEW p \in Procs,
         NEW pc \in {"get", "authOld", "authNew", "insert", "getAgain", "write", "erase"},
         At(p, pc)
  PROVE  /\ ~Free(p)
         /\ req[p] \in PendingRule
         /\ Sound(req[p], granted)
         /\ req[p].pc = pc
<1>1. ~Free(p)
  BY DEF At, Free, Replied
<1>2. req[p].pc = pc /\ pc \in LabelsOf(req[p].op)
  BY <1>1, InFlight DEF At, Sound
<1>3. req[p].op \in RuleOps
  BY <1>1, <1>2, InFlight, Labels DEF RuleOps, DelegationOps
<1>4. QED
  BY <1>1, <1>2, <1>3, InFlight

LEMMA AtDelegation ==
  ASSUME AdminInv, NEW p \in Procs,
         NEW pc \in {"newDelegation", "getDelegation", "setDelegation", "dropDelegation"},
         At(p, pc)
  PROVE  /\ ~Free(p)
         /\ req[p] \in PendingDelegation
         /\ Sound(req[p], granted)
         /\ req[p].pc = pc
<1>1. ~Free(p)
  BY DEF At, Free, Replied
<1>2. req[p].pc = pc /\ pc \in LabelsOf(req[p].op)
  BY <1>1, InFlight DEF At, Sound
<1>3. req[p].op \in DelegationOps
  BY <1>1, <1>2, InFlight, Labels DEF RuleOps, DelegationOps
<1>4. QED
  BY <1>1, <1>2, <1>3, InFlight

\* Who may write for a SOA now is entitled to it for good.
LEMMA AllowedEntitled ==
  ASSUME AdminInv, NEW u \in Users, NEW drafts, MayWrite(u, drafts)
  PROVE  EntitledBy(u, drafts, granted)
<1>1. SuffixesOf(u) \subseteq granted[u]
  BY DEF AdminInv, Remembered, SuffixesOf
<1>2. QED
  BY <1>1 DEF EntitledBy, MayWrite, userCanManageZoneSoa, InScopeOf

LEMMA GetRuleKeeps ==
  ASSUME AdminInv, NEW p \in Procs, GetRule(p) PROVE AdminInv'
<1> DEFINE r == req[p]
           s == [r EXCEPT !.seen = rules[r.id], !.pc = "authOld"]
<1>1. Tables' /\ Grows /\ started' \in 0 .. MaxRequests /\ faults' \in 0 .. MaxFaults
  BY TablesStay, Budgets DEF GetRule
<1>2. r \in PendingRule /\ Sound(r, granted) /\ r.pc = "get"
  BY AtRule DEF GetRule
<1>3. r.op \in {"update", "delete"} /\ r.id \in RuleIds
  BY <1>2, Labels DEF Sound, PendingRule
<1>4. CASE rules[r.id] = None
  BY <1>1, <1>4, ReplySound DEF GetRule, Replied
<1>5. ASSUME rules[r.id] # None PROVE AdminInv'
  <2>1. rules[r.id] \in {None} \cup Single(ValidDrafts)
    BY <1>3 DEF AdminInv, TypeOK
  <2>2. "authOld" \in LabelsOf(r.op) /\ r.op \in RuleOps
    BY <1>2, <1>3, Labels DEF PendingRule
  <2>3. "authOld" \in UNION {LabelsOf(op) : op \in RuleOps}
    BY <2>2
  <2>4. /\ s \in PendingRule
        /\ s.op = r.op /\ s.user = r.user /\ s.id = r.id /\ s.body = r.body
        /\ s.pc = "authOld" /\ s.seen = rules[r.id]
    BY <1>2, <2>1, <2>3 DEF PendingRule
  <2>5. req' = [req EXCEPT ![p] = s]
    BY <1>5 DEF GetRule, Accept
  <2> HIDE DEF s
  <2>6. Sound(s, granted')
    BY <1>2, <1>3, <1>5, <2>2, <2>4 DEF Sound, DelegationOps
  <2>7. QED
    BY <1>1, <2>4, <2>5, <2>6, StepSound DEF Pending
<1>6. QED
  BY <1>4, <1>5

LEMMA AuthorizeOldKeeps ==
  ASSUME AdminInv, NEW p \in Procs, AuthorizeOld(p) PROVE AdminInv'
<1> DEFINE r == req[p]
           allowed == MayWrite(r.user, r.seen)
           s == [r EXCEPT !.okOld = allowed, !.pc = "authNew"]
<1>1. Tables' /\ Grows /\ started' \in 0 .. MaxRequests /\ faults' \in 0 .. MaxFaults
  BY TablesStay, Budgets DEF AuthorizeOld
<1>2. ~Free(p) /\ r \in PendingRule /\ Sound(r, granted) /\ r.pc = "authOld"
  BY AtRule DEF AuthorizeOld
<1>3. r.op \in {"update", "delete"} /\ r.seen # None
  BY <1>2, Labels DEF Sound, PendingRule
<1>4. allowed => EntitledBy(r.user, r.seen, granted)
  BY <1>2, AllowedEntitled DEF PendingRule
<1>5. ASSUME r.op = "update" PROVE AdminInv'
  <2>1. "authNew" \in LabelsOf(r.op) /\ r.op \in RuleOps
    BY <1>2, <1>5, Labels DEF PendingRule
  <2>2. "authNew" \in UNION {LabelsOf(op) : op \in RuleOps}
    BY <2>1
  <2>3. allowed \in BOOLEAN
    BY DEF MayWrite
  <2>4. req' = [req EXCEPT ![p] = s]
    BY <1>5, Zenon DEF AuthorizeOld, Accept
  <2> HIDE DEF allowed
  <2>5. /\ s \in PendingRule
        /\ s.op = r.op /\ s.user = r.user /\ s.id = r.id /\ s.body = r.body
        /\ s.seen = r.seen /\ s.pc = "authNew" /\ s.okOld = allowed
    BY <1>2, <2>2, <2>3 DEF PendingRule
  <2> HIDE DEF s
  <2>6. Sound(s, granted)
    BY <1>2, <1>3, <1>4, <1>5, <2>1, <2>5 DEF Sound, DelegationOps
  <2>7. s.user \in Users
    BY <1>2, <2>5 DEF PendingRule
  <2>8. QED
    BY <1>1, <2>4, <2>5, <2>6, <2>7, SoundStays, StepSound DEF Pending
<1>6. ASSUME r.op = "delete", allowed PROVE AdminInv'
  <2>1. Goto(p, "erase") /\ Continue
    BY <1>6 DEF AuthorizeOld
  <2>2. "erase" \in LabelsOf(r.op)
    BY <1>2, <1>6, Labels DEF PendingRule
  <2>3. QED
    BY <1>1, <1>2, <1>3, <1>4, <1>6, <2>1, <2>2, GotoSound
<1>7. ASSUME r.op = "delete", ~allowed PROVE AdminInv'
  <2>1. Goto(p, "refused")
    BY <1>7 DEF AuthorizeOld
  <2>2. QED
    BY <1>1, <2>1, ReplySound DEF Replied
<1>8. QED
  BY <1>3, <1>5, <1>6, <1>7

LEMMA AuthorizeNewKeeps ==
  ASSUME AdminInv, NEW p \in Procs, AuthorizeNew(p) PROVE AdminInv'
<1> DEFINE r == req[p]
           allowed == MayWrite(r.user, r.body)
           valid   == \A d \in r.body : policyValidateRequest(d)
<1>1. Tables' /\ Grows /\ started' \in 0 .. MaxRequests /\ faults' \in 0 .. MaxFaults
  BY TablesStay, Budgets DEF AuthorizeNew
<1>2. ~Free(p) /\ r \in PendingRule /\ Sound(r, granted) /\ r.pc = "authNew"
  BY AtRule DEF AuthorizeNew
<1>3. r.op \in {"create", "update"}
  BY <1>2, Labels DEF Sound, PendingRule
<1>4. CASE ~allowed \/ ~r.okOld \/ ~valid
  <2>1. Goto(p, "refused")
    BY <1>4 DEF AuthorizeNew
  <2>2. QED
    BY <1>1, <2>1, ReplySound DEF Replied
<1>5. ASSUME allowed, r.okOld, valid PROVE AdminInv'
  <2>1. r.body \subseteq ValidDrafts
    BY <1>2, <1>5 DEF PendingRule, ValidDrafts, policyValidateRequest, Single, None
  <2>2. EntitledBy(r.user, r.body, granted)
    BY <1>2, <1>5, AllowedEntitled DEF PendingRule
  <2>3. CASE r.op = "create"
    <3>1. Goto(p, "insert") /\ Continue
      BY <1>5, <2>3 DEF AuthorizeNew
    <3>2. "insert" \in LabelsOf(r.op)
      BY <1>2, <2>3, Labels DEF PendingRule
    <3>3. QED
      BY <1>1, <1>2, <2>1, <2>2, <2>3, <3>1, <3>2, GotoSound
  <2>4. CASE r.op = "update"
    <3>1. Goto(p, "getAgain") /\ Continue
      BY <1>5, <2>4 DEF AuthorizeNew
    <3>2. "getAgain" \in LabelsOf(r.op)
      BY <1>2, <2>4, Labels DEF PendingRule
    <3>3. r.seen # None /\ EntitledBy(r.user, r.seen, granted)
      BY <1>2, <1>5, <2>4 DEF Sound
    <3>4. QED
      BY <1>1, <1>2, <2>1, <2>2, <3>1, <3>2, <3>3, GotoSound
  <2>5. QED
    BY <1>3, <2>3, <2>4
<1>6. QED
  BY <1>4, <1>5

LEMMA PolicyCreateKeeps ==
  ASSUME AdminInv, NEW p \in Procs, PolicyCreate(p) PROVE AdminInv'
<1> DEFINE r == req[p]
           id == lastRule + 1
<1>1. r \in PendingRule /\ Sound(r, granted) /\ r.pc = "insert"
  BY AtRule DEF PolicyCreate
<1>2. r.body \in {None} \cup Single(ValidDrafts)
  BY <1>1 DEF Sound, PendingRule, Single
<1>3. /\ lastRule \in Nat /\ lastRule' = id /\ id \in 1 .. MaxRules
      /\ rules' = [rules EXCEPT ![id] = r.body]
      /\ Stored(rules) \subseteq 1 .. lastRule
      /\ rules \in [RuleIds -> {None} \cup Single(ValidDrafts)]
  BY AdminAssumption DEF PolicyCreate, AdminInv, TypeOK
<1>4. rules' \in [RuleIds -> {None} \cup Single(ValidDrafts)]
  BY <1>2, <1>3 DEF RuleIds
<1>5. Stored(rules)' \subseteq 1 .. lastRule'
  BY <1>3, <1>4 DEF Stored
<1>6. Tables' /\ Grows
  BY <1>3, <1>4, <1>5 DEF PolicyCreate, AdminInv, TypeOK, Tables, Grows, Remembered, Stored
<1>7. QED
  BY <1>6, Budgets, ReplySound DEF PolicyCreate, Replied

LEMMA GetAgainKeeps ==
  ASSUME AdminInv, NEW p \in Procs, GetAgain(p) PROVE AdminInv'
<1> DEFINE r == req[p]
<1>1. Tables' /\ Grows /\ started' \in 0 .. MaxRequests /\ faults' \in 0 .. MaxFaults
  BY TablesStay, Budgets DEF GetAgain
<1>2. ~Free(p) /\ r \in PendingRule /\ Sound(r, granted) /\ r.pc = "getAgain"
  BY AtRule DEF GetAgain
<1>3. CASE rules[r.id] = None
  BY <1>1, <1>3, ReplySound DEF GetAgain, Replied
<1>4. ASSUME rules[r.id] # None PROVE AdminInv'
  <2>1. Goto(p, "write") /\ Continue
    BY <1>4 DEF GetAgain
  <2>2. r.op = "update" /\ "write" \in LabelsOf(r.op)
    BY <1>2, Labels DEF Sound, PendingRule
  <2>3. /\ r.body \subseteq ValidDrafts /\ EntitledBy(r.user, r.body, granted)
        /\ r.seen # None /\ EntitledBy(r.user, r.seen, granted)
    BY <1>2, <2>2 DEF Sound
  <2>4. QED
    BY <1>1, <1>2, <2>1, <2>2, <2>3, GotoSound
<1>5. QED
  BY <1>3, <1>4

LEMMA PolicyUpdateKeeps ==
  ASSUME AdminInv, NEW p \in Procs, PolicyUpdate(p) PROVE AdminInv'
<1> DEFINE r == req[p]
<1>1. r \in PendingRule /\ Sound(r, granted) /\ r.pc = "write"
  BY AtRule DEF PolicyUpdate
<1>2. r.body \in {None} \cup Single(ValidDrafts)
  BY <1>1 DEF Sound, PendingRule, Single
<1>3. \/ UNCHANGED rules
      \/ rules[r.id] # None /\ rules' = [rules EXCEPT ![r.id] = r.body]
  BY DEF PolicyUpdate
<1>4. /\ rules \in [RuleIds -> {None} \cup Single(ValidDrafts)]
      /\ Stored(rules) \subseteq 1 .. lastRule
  BY DEF AdminInv, TypeOK
<1>5. rules' \in [RuleIds -> {None} \cup Single(ValidDrafts)]
  BY <1>2, <1>3, <1>4
<1>6. Stored(rules)' \subseteq 1 .. lastRule'
  BY <1>3, <1>4, <1>5 DEF Stored, PolicyUpdate
<1>7. Tables' /\ Grows
  BY <1>5, <1>6 DEF PolicyUpdate, AdminInv, TypeOK, Tables, Grows, Remembered, Stored
<1>8. \E pc \in Replied : Goto(p, pc)
  BY DEF PolicyUpdate, Replied
<1>9. QED
  BY <1>7, <1>8, Budgets, ReplySound DEF PolicyUpdate

LEMMA PolicyDeleteKeeps ==
  ASSUME AdminInv, NEW p \in Procs, PolicyDelete(p) PROVE AdminInv'
<1>1. /\ rules \in [RuleIds -> {None} \cup Single(ValidDrafts)]
      /\ Stored(rules) \subseteq 1 .. lastRule
      /\ rules' = [rules EXCEPT ![req[p].id] = None]
  BY DEF AdminInv, TypeOK, PolicyDelete
<1>2. rules' \in [RuleIds -> {None} \cup Single(ValidDrafts)]
  BY <1>1
<1>3. Stored(rules)' \subseteq 1 .. lastRule'
  BY <1>1, <1>2 DEF Stored, PolicyDelete
<1>4. Tables' /\ Grows
  BY <1>2, <1>3 DEF PolicyDelete, AdminInv, TypeOK, Tables, Grows, Remembered, Stored
<1>5. \E pc \in Replied : Goto(p, pc)
  BY DEF PolicyDelete, Replied
<1>6. QED
  BY <1>4, <1>5, Budgets, ReplySound DEF PolicyDelete

\* A delegation stored under an id given out, and remembered.
LEMMA GrantStored ==
  ASSUME AdminInv, NEW id \in 1 .. lastDelegation', NEW body,
         body \in Single(ValidGrants),
         lastDelegation' \in 0 .. MaxDelegations, lastDelegation <= lastDelegation',
         delegations' = [delegations EXCEPT ![id] = body],
         \A g \in body : granted' = WithGranted(g),
         UNCHANGED <<rules, lastRule>>
  PROVE  Tables' /\ Grows
<1>1. PICK g \in ValidGrants : body = {g}
  BY DEF Single
<1>2. granted' = WithGranted(g)
  BY <1>1
<1>3. /\ granted \in [Users -> SUBSET {h.suffix : h \in ValidGrants}]
      /\ delegations \in [DelegationIds -> {None} \cup Single(ValidGrants)]
      /\ Stored(delegations) \subseteq 1 .. lastDelegation
      /\ lastDelegation \in Nat /\ lastDelegation' \in Nat
      /\ id \in DelegationIds
  BY AdminAssumption DEF AdminInv, TypeOK, DelegationIds
<1>4. granted' \in [Users -> SUBSET {h.suffix : h \in ValidGrants}]
  BY <1>2, <1>3 DEF WithGranted
<1>5. Grows
  BY <1>2, <1>3 DEF WithGranted, Grows
<1>6. delegations' \in [DelegationIds -> {None} \cup Single(ValidGrants)]
  BY <1>3
<1>7. Stored(delegations)' \subseteq 1 .. lastDelegation'
  BY <1>3, <1>6 DEF Stored
<1>8. Remembered'
  <2>1. ASSUME NEW i \in DelegationIds, NEW d \in delegations'[i], NEW u \in d.users
        PROVE  d.suffix \in granted'[u]
    <3>1. d \in ValidGrants
      BY <1>6 DEF Single, None
    <3>2. u \in Users
      BY <3>1, AdminAssumption DEF ValidGrants, Grant
    <3>3. CASE i = id
      BY <1>1, <1>2, <1>3, <3>2, <3>3 DEF WithGranted
    <3>4. CASE i # id
      BY <1>3, <1>5, <3>2, <3>4 DEF AdminInv, Remembered, Grows
    <3>5. QED
      BY <3>3, <3>4
  <2>2. QED
    BY <2>1 DEF Remembered
<1>9. QED
  BY <1>4, <1>5, <1>6, <1>7, <1>8 DEF AdminInv, TypeOK, Tables, Stored

LEMMA DelegationCreateKeeps ==
  ASSUME AdminInv, NEW p \in Procs, DelegationCreate(p) PROVE AdminInv'
<1> DEFINE r == req[p]
<1>1. r \in PendingDelegation /\ Sound(r, granted) /\ r.pc = "newDelegation"
  BY AtDelegation DEF DelegationCreate
<1>2. r.op = "grant"
  BY <1>1, Labels DEF Sound, PendingDelegation
<1>3. r.body \in Single(ValidGrants)
  BY <1>1, <1>2 DEF Sound, PendingDelegation
<1>4. /\ lastDelegation' \in 0 .. MaxDelegations /\ lastDelegation <= lastDelegation'
      /\ lastDelegation + 1 \in 1 .. lastDelegation'
  BY AdminAssumption DEF DelegationCreate, AdminInv, TypeOK
<1>5. Tables' /\ Grows
  BY <1>3, <1>4, GrantStored DEF DelegationCreate
<1>6. QED
  BY <1>5, Budgets, ReplySound DEF DelegationCreate, Replied

LEMMA DelegationGetByIDKeeps ==
  ASSUME AdminInv, NEW p \in Procs, DelegationGetByID(p) PROVE AdminInv'
<1> DEFINE r == req[p]
<1>1. Tables' /\ Grows /\ started' \in 0 .. MaxRequests /\ faults' \in 0 .. MaxFaults
  BY TablesStay, Budgets DEF DelegationGetByID
<1>2. ~Free(p) /\ r \in PendingDelegation /\ Sound(r, granted) /\ r.pc = "getDelegation"
  BY AtDelegation DEF DelegationGetByID
<1>3. CASE delegations[r.id] = None
  BY <1>1, <1>3, ReplySound DEF DelegationGetByID, Replied
<1>4. ASSUME delegations[r.id] # None PROVE AdminInv'
  <2>1. Goto(p, "setDelegation") /\ Continue
    BY <1>4 DEF DelegationGetByID
  <2>2. r.op = "regrant" /\ "setDelegation" \in LabelsOf(r.op)
    BY <1>2, Labels DEF Sound, PendingDelegation
  <2>3. QED
    BY <1>1, <1>2, <2>1, <2>2, GotoSound
<1>5. QED
  BY <1>3, <1>4

LEMMA DelegationUpdateKeeps ==
  ASSUME AdminInv, NEW p \in Procs, DelegationUpdate(p) PROVE AdminInv'
<1> DEFINE r == req[p]
<1>1. r \in PendingDelegation /\ Sound(r, granted) /\ r.pc = "setDelegation"
  BY AtDelegation DEF DelegationUpdate
<1>2. r.op = "regrant"
  BY <1>1, Labels DEF Sound, PendingDelegation
<1>3. r.body \in Single(ValidGrants) /\ r.id \in DelegationIds
  BY <1>1, <1>2 DEF Sound, PendingDelegation
<1>4. \E pc \in Replied : Goto(p, pc)
  BY DEF DelegationUpdate, Replied
<1>5. CASE delegations[r.id] = None
  <2>1. Tables' /\ Grows
    BY <1>5, TablesStay DEF DelegationUpdate, tables
  <2>2. QED
    BY <1>4, <2>1, Budgets, ReplySound DEF DelegationUpdate
<1>6. CASE delegations[r.id] # None
  <2>1. /\ lastDelegation' \in 0 .. MaxDelegations /\ lastDelegation <= lastDelegation'
        /\ r.id \in 1 .. lastDelegation'
    BY <1>3, <1>6 DEF DelegationUpdate, AdminInv, TypeOK, Stored
  <2>2. Tables' /\ Grows
    BY <1>3, <1>6, <2>1, GrantStored DEF DelegationUpdate
  <2>3. QED
    BY <1>4, <2>2, Budgets, ReplySound DEF DelegationUpdate
<1>7. QED
  BY <1>5, <1>6

LEMMA DelegationDeleteKeeps ==
  ASSUME AdminInv, NEW p \in Procs, DelegationDelete(p) PROVE AdminInv'
<1>1. /\ delegations \in [DelegationIds -> {None} \cup Single(ValidGrants)]
      /\ Stored(delegations) \subseteq 1 .. lastDelegation
      /\ delegations' = [delegations EXCEPT ![req[p].id] = None]
  BY DEF AdminInv, TypeOK, DelegationDelete
<1>2. delegations' \in [DelegationIds -> {None} \cup Single(ValidGrants)]
  BY <1>1
<1>3. Stored(delegations)' \subseteq 1 .. lastDelegation'
  BY <1>1, <1>2 DEF Stored, DelegationDelete
<1>4. Remembered'
  BY <1>1 DEF AdminInv, Remembered, None, DelegationDelete
<1>5. Tables' /\ Grows
  BY <1>2, <1>3, <1>4 DEF DelegationDelete, AdminInv, TypeOK, Tables, Grows, Stored
<1>6. \E pc \in Replied : Goto(p, pc)
  BY DEF DelegationDelete, Replied
<1>7. QED
  BY <1>5, <1>6, Budgets, ReplySound DEF DelegationDelete

-------------------------------------------------------------------------------
(* The invariant *)

LEMMA InitSound == Init => AdminInv
<1> SUFFICES ASSUME Init PROVE AdminInv
  OBVIOUS
<1>1. /\ Len(InitRules) \in 0 .. MaxRules
      /\ \A i \in 1 .. Len(InitRules) : InitRules[i] \in ValidDrafts
  BY AdminAssumption, StoredBefore DEF ValidDrafts, policyValidateRequest
<1>2. /\ Len(InitGrants) \in 0 .. MaxDelegations
      /\ \A i \in 1 .. Len(InitGrants) : InitGrants[i] \in ValidGrants
  BY AdminAssumption, StoredBefore DEF ValidGrants, DelegationIsValid
<1>3. /\ rules \in [RuleIds -> {None} \cup Single(ValidDrafts)]
      /\ lastRule \in 0 .. MaxRules
      /\ Stored(rules) \subseteq 1 .. lastRule
  BY <1>1 DEF Init, RuleIds, Single, Stored
<1>4. /\ delegations \in [DelegationIds -> {None} \cup Single(ValidGrants)]
      /\ lastDelegation \in 0 .. MaxDelegations
      /\ Stored(delegations) \subseteq 1 .. lastDelegation
  BY <1>2 DEF Init, DelegationIds, Single, Stored
<1>5. \A u \in Users : granted[u] = SuffixesOf(u)
  BY DEF Init
<1>6. \A u \in Users : SuffixesOf(u) \subseteq {g.suffix : g \in ValidGrants}
  BY <1>4 DEF SuffixesOf, Single, None
<1>7. granted \in [Users -> SUBSET {g.suffix : g \in ValidGrants}]
  BY <1>6 DEF Init
<1>8. Remembered
  <2>1. ASSUME NEW id \in DelegationIds, NEW d \in delegations[id], NEW u \in d.users
        PROVE  d.suffix \in granted[u]
    <3>1. d \in Grants
      BY <1>4 DEF Single, None, ValidGrants
    <3>2. u \in Users
      BY <3>1, AdminAssumption DEF Grant
    <3>3. QED
      BY <1>5, <3>2 DEF SuffixesOf
  <2>2. QED
    BY <2>1 DEF Remembered
<1>9. /\ req \in [Procs -> [pc : Replied \cup {"idle"}] \cup PendingRule \cup PendingDelegation]
      /\ \A p \in Procs : Free(p)
  BY DEF Init, Idle, Free
<1>10. started \in 0 .. MaxRequests /\ faults \in 0 .. MaxFaults
  BY AdminAssumption DEF Init
<1>11. QED
  BY <1>3, <1>4, <1>7, <1>8, <1>9, <1>10 DEF AdminInv, TypeOK, RequestsChecked

LEMMA NextSound == AdminInv /\ [Next]_vars => AdminInv'
<1> SUFFICES ASSUME AdminInv, [Next]_vars PROVE AdminInv'
  OBVIOUS
<1>1. CASE UNCHANGED vars
  BY <1>1 DEF AdminInv, TypeOK, RequestsChecked, Remembered, Free, Entitled, Stored, vars
<1>2. CASE Next
  <2>1. PICK p \in Procs :
          \/ ReceiveRule(p) \/ ReceiveDelegation(p) \/ CallFails(p)
          \/ GetRule(p) \/ AuthorizeOld(p) \/ AuthorizeNew(p)
          \/ PolicyCreate(p) \/ GetAgain(p) \/ PolicyUpdate(p) \/ PolicyDelete(p)
          \/ DelegationCreate(p) \/ DelegationGetByID(p)
          \/ DelegationUpdate(p) \/ DelegationDelete(p)
    BY <1>2 DEF Next
  <2>2. QED
    BY <2>1, ReceiveRuleKeeps, ReceiveDelegationKeeps, CallFailsKeeps, GetRuleKeeps,
       AuthorizeOldKeeps, AuthorizeNewKeeps, PolicyCreateKeeps, GetAgainKeeps,
       PolicyUpdateKeeps, PolicyDeleteKeeps, DelegationCreateKeeps,
       DelegationGetByIDKeeps, DelegationUpdateKeeps, DelegationDeleteKeeps
<1>3. QED
  BY <1>1, <1>2

\* The inductive invariant.
THEOREM AdminInvariant == Spec => []AdminInv
<1>1. QED
  BY InitSound, NextSound, PTL DEF Spec

\* However requests overlap, only validated rules and delegations are stored, under
\* ids that were given out (policyValidateRequest before every write).
THEOREM TypeCorrect == Spec => []TypeOK
<1>1. AdminInv => TypeOK
  BY DEF AdminInv
<1>2. QED
  BY <1>1, AdminInvariant, PTL

\* Nobody gets to write a rule without having been entitled to its SOA and, to
\* replace or delete one, to the SOA it was read with (PolicyCreateRule,
\* PolicyUpdateRule, PolicyDeleteRule).
THEOREM RequestsCheckedCorrect == Spec => []RequestsChecked
<1>1. AdminInv => RequestsChecked
  BY DEF AdminInv
<1>2. QED
  BY <1>1, AdminInvariant, PTL

\* The list offers exactly what its reader may edit, at any time
\* (PolicyGetAllUserRules against userCanManageZoneSoa).
THEOREM ListingCorrect == Spec => []ListingMatchesRights
<1>1. TypeOK => ListingMatchesRights
  <2> SUFFICES ASSUME TypeOK, NEW u \in Users, NEW id \in RuleIds, NEW d \in rules[id]
               PROVE  LET list == PolicyGetAllUserRules(u)
                      IN  list.edit /\ id \in list.ids <=> userCanManageZoneSoa(u, d.soa)
    BY DEF ListingMatchesRights
  <2>1. rules[id] = {d} /\ id \in Stored(rules)
    BY DEF TypeOK, Single, None, Stored
  <2>2. CASE isSuperAdmin(u)
    BY <2>1, <2>2 DEF PolicyGetAllUserRules, userCanManageZoneSoa
  <2>3. CASE ~isSuperAdmin(u) /\ SuffixesOf(u) # {}
    BY <2>1, <2>3
    DEF PolicyGetAllUserRules, userCanManageZoneSoa, ListedToDelegate, InScopeOf
  <2>4. CASE ~isSuperAdmin(u) /\ SuffixesOf(u) = {}
    BY <2>4 DEF PolicyGetAllUserRules, userCanManageZoneSoa, InScopeOf
  <2>5. QED
    BY <2>2, <2>3, <2>4
<1>2. QED
  BY <1>1, TypeCorrect, PTL

\* No update, however late, brings a deleted rule back: the write of an update finds
\* no row, and ids are never given out again.
THEOREM RulesStayDeleted == Spec => DeletedRulesStayDeleted
<1>1. AdminInv /\ [Next]_vars
        => [\A id \in 1 .. lastRule : rules[id] = None => rules'[id] = None]_vars
  <2> SUFFICES ASSUME AdminInv, Next, NEW id \in 1 .. lastRule, rules[id] = None
               PROVE  rules'[id] = None
    BY DEF vars
  <2>1. /\ rules \in [RuleIds -> {None} \cup Single(ValidDrafts)]
        /\ lastRule \in 0 .. MaxRules /\ id \in RuleIds
    BY AdminAssumption DEF AdminInv, TypeOK, RuleIds
  <2>2. PICK p \in Procs :
          \/ UNCHANGED rules
          \/ PolicyCreate(p) \/ PolicyUpdate(p) \/ PolicyDelete(p)
    BY DEF Next, ReceiveRule, ReceiveDelegation, Receive, CallFails, GetRule, AuthorizeOld,
           AuthorizeNew, GetAgain, DelegationCreate, DelegationGetByID, DelegationUpdate,
           DelegationDelete, tables
  <2>3. CASE PolicyCreate(p)
    BY <2>1, <2>3 DEF PolicyCreate
  <2>4. CASE PolicyUpdate(p)
    BY <2>1, <2>4 DEF PolicyUpdate
  <2>5. CASE PolicyDelete(p)
    BY <2>1, <2>5 DEF PolicyDelete
  <2>6. QED
    BY <2>2, <2>3, <2>4, <2>5
<1>2. QED
  BY <1>1, AdminInvariant, PTL DEF Spec, DeletedRulesStayDeleted

-------------------------------------------------------------------------------
(* What the rules hand out *)

\* No SOA of a rule has a label that is the one its validation tries ("a").
NoSoaHasProbe ==
  \A d \in Drafts : \A i \in DOMAIN d.soa : Lower[d.soa[i]] # Lower[Probe]

LEMMA ValidDraftsConfined ==
  ASSUME NoSoaHasProbe, NEW d \in ValidDrafts, NEW u \in Users
  PROVE  /\ zoneInScope(Expand(d.pattern, LabelOf[u]), d.soa)
         /\ d \in Draft /\ LabelOf[u] \in STRING
<1>1. d \in Draft /\ LabelOf[u] \in STRING
  BY AdminAssumption DEF ValidDrafts
<1>2. /\ \A i \in DOMAIN d.soa : Lower[d.soa[i]] # Lower[Probe]
      /\ validatePatternWithinSoa(d.pattern, d.soa)
  BY DEF NoSoaHasProbe, ValidDrafts
<1>3. d.pattern \in Seq(STRING) /\ d.soa \in Seq(STRING)
  BY <1>1 DEF Draft
<1>4. QED
  BY <1>1, <1>2, <1>3, ValidPatternsStayWithinSoa

\* "any label keeps the suffix relationship intact": what a stored rule hands out
\* lies within its SOA for every user, as long as no SOA has the label that the
\* validation tries; with one the run PA_v_soa shows a rule that does not.
THEOREM PatternsConfined ==
  ASSUME NoSoaHasProbe PROVE Spec => []PatternsWithinSoa
<1>1. TypeOK => PatternsWithinSoa
  <2> SUFFICES ASSUME TypeOK, NEW id \in RuleIds, NEW d \in rules[id]
               PROVE  d \in ConfinedDrafts
    BY DEF PatternsWithinSoa
  <2>1. d \in ValidDrafts
    BY DEF TypeOK, Single, None
  <2>2. QED
    BY <2>1, ValidDraftsConfined DEF ConfinedDrafts, ValidDrafts
<1>2. QED
  BY <1>1, TypeCorrect, PTL

\* The zones to ensure between a stored rule's SOA and the zone it hands out are
\* exactly those in between, for any labels (getAuthoritativeZones).
THEOREM ChainsCorrect == Spec => []ChainsReachTheSoa
<1>1. TypeOK => ChainsReachTheSoa
  <2> SUFFICES ASSUME TypeOK, NEW id \in RuleIds, NEW d \in rules[id]
               PROVE  d \in ChainedDrafts
    BY DEF ChainsReachTheSoa
  <2>1. d \in ValidDrafts
    BY DEF TypeOK, Single, None
  <2>2. d \in Draft /\ d \in Drafts /\ d.soa # <<>>
    BY <2>1, AdminAssumption DEF ValidDrafts, validatePatternWithinSoa
  <2>3. d.soa \in Seq(STRING) /\ d.pattern \in Seq(STRING)
    BY <2>2 DEF Draft
  <2>4. \A u \in Users : Expand(d.pattern, LabelOf[u]) \in Seq(STRING)
    BY <2>3, AdminAssumption, ExpandName
  <2>5. QED
    BY <2>2, <2>3, <2>4, AuthoritativeZonesBetween DEF ChainedDrafts
<1>2. QED
  BY <1>1, TypeCorrect, PTL

\* ZonePolicy over a table M of rules: rule i is the first for its zone, the zones
\* of some rules, and that rule i is one by which u may have z.
IsFirst(M, i, u) ==
  /\ u \in M[i].users
  /\ \A j \in 1 .. (i - 1) : u \in M[j].users => M[j].pattern[u] # M[i].pattern[u]

ZonesBy(M, E, u) ==
  {[zone |-> M[i].pattern[u], soa |-> M[i].soa, sub |-> M[i].sub, share |-> M[i].share] :
     i \in E}

Gives(M, i, z, u) ==
  /\ IsFirst(M, i, u)
  /\ M[i].pattern[u] = z \/ (M[i].sub /\ <<z, M[i].pattern[u]>> \in Subdomains)

Meanings == [id \in RuleIds |-> Meaning(rules[id])]

LEMMA ZoneBy ==
  ASSUME NEW M, NEW E, NEW u, NEW z
  PROVE  (\E d \in ZonesBy(M, E, u) : d.zone = z \/ (d.sub /\ <<z, d.zone>> \in Subdomains))
           <=> \E i \in E :
                 M[i].pattern[u] = z \/ (M[i].sub /\ <<z, M[i].pattern[u]>> \in Subdomains)
<1> DEFINE D(i) == [zone |-> M[i].pattern[u], soa |-> M[i].soa, sub |-> M[i].sub,
                    share |-> M[i].share]
<1>1. \A i : D(i).zone = M[i].pattern[u] /\ D(i).sub = M[i].sub
  OBVIOUS
<1>2. ZonesBy(M, E, u) = {D(i) : i \in E}
  BY DEF ZonesBy
<1> HIDE DEF D
<1>3. QED
  BY <1>1, <1>2

LEMMA AllowedByRule ==
  ASSUME NEW u, NEW z
  PROVE  Policy!PolicyIsZoneAllowedForUser(z, u)
           <=> \E i \in RuleIds : Gives(Meanings, i, z, u)
<1> DEFINE M == Meanings
           E == {i \in DOMAIN M : IsFirst(M, i, u)}
<1>1. DOMAIN M = RuleIds
  BY DEF Meanings
<1>2. Policy!EffectiveRules(u) = E
  BY DEF Policy!EffectiveRules, IsFirst, Meanings
<1>3. Policy!PolicyGetUserZones(u) = ZonesBy(M, E, u)
  BY <1>2 DEF Policy!PolicyGetUserZones, ZonesBy, Meanings
<1>4. Policy!PolicyIsZoneAllowedForUser(z, u)
        <=> \E d \in ZonesBy(M, E, u) : d.zone = z \/ (d.sub /\ <<z, d.zone>> \in Subdomains)
  BY <1>3
  DEF Policy!PolicyIsZoneAllowedForUser, Policy!ExactMatches, Policy!SubzoneParents
<1> HIDE DEF M, E
<1>5. Policy!PolicyIsZoneAllowedForUser(z, u)
        <=> \E i \in E :
              M[i].pattern[u] = z \/ (M[i].sub /\ <<z, M[i].pattern[u]>> \in Subdomains)
  BY <1>4, ZoneBy
<1>6. \A i : i \in E <=> i \in RuleIds /\ IsFirst(M, i, u)
  BY <1>1 DEF E
<1>7. QED
  BY <1>5, <1>6, Zenon DEF Gives, M

LEMMA AllowedByRuleNext ==
  ASSUME NEW u, NEW z
  PROVE  Policy!PolicyIsZoneAllowedForUser(z, u)'
           <=> \E i \in RuleIds : Gives(Meanings', i, z, u)
<1> DEFINE M == Meanings'
           E == {i \in DOMAIN M : IsFirst(M, i, u)}
<1>1. DOMAIN M = RuleIds
  BY DEF Meanings
<1>2. Policy!EffectiveRules(u)' = E
  BY DEF Policy!EffectiveRules, IsFirst, Meanings
<1>3. Policy!PolicyGetUserZones(u)' = ZonesBy(M, E, u)
  BY <1>2 DEF Policy!PolicyGetUserZones, ZonesBy, Meanings
<1>4. Policy!PolicyIsZoneAllowedForUser(z, u)'
        <=> \E d \in ZonesBy(M, E, u) : d.zone = z \/ (d.sub /\ <<z, d.zone>> \in Subdomains)
  BY <1>3
  DEF Policy!PolicyIsZoneAllowedForUser, Policy!ExactMatches, Policy!SubzoneParents
<1> HIDE DEF M, E
<1>5. Policy!PolicyIsZoneAllowedForUser(z, u)'
        <=> \E i \in E :
              M[i].pattern[u] = z \/ (M[i].sub /\ <<z, M[i].pattern[u]>> \in Subdomains)
  BY <1>4, ZoneBy
<1>6. \A i : i \in E <=> i \in RuleIds /\ IsFirst(M, i, u)
  BY <1>1 DEF E
<1>7. QED
  BY <1>5, <1>6, Zenon DEF Gives, M

LEMMA MeaningInScope ==
  ASSUME NoSoaHasProbe, NEW stored \in {None} \cup Single(ValidDrafts), NEW u \in Users
  PROVE  /\ Meaning(stored).pattern[u] \in Seq(STRING)
         /\ \A G \in SUBSET Seq(STRING) :
              /\ \A d \in stored : InScopeOf(d.soa, G)
              /\ u \in Meaning(stored).users
              => InScopeOf(Meaning(stored).pattern[u], G)
<1>1. CASE stored = None
  BY <1>1 DEF Meaning
<1>2. ASSUME NEW d \in ValidDrafts, stored = {d}
      PROVE  /\ Meaning(stored).pattern[u] \in Seq(STRING)
             /\ \A G \in SUBSET Seq(STRING) :
                  (\A e \in stored : InScopeOf(e.soa, G))
                    => InScopeOf(Meaning(stored).pattern[u], G)
  <2> DEFINE zone == Expand(d.pattern, LabelOf[u])
  <2>1. stored # None /\ (CHOOSE e \in stored : TRUE) = d
    BY <1>2 DEF None
  <2>2. Meaning(stored).pattern[u] = zone
    BY <2>1 DEF Meaning
  <2>3. zoneInScope(zone, d.soa) /\ d \in Draft /\ LabelOf[u] \in STRING
    BY ValidDraftsConfined
  <2>4. d.pattern \in Seq(STRING) /\ d.soa \in Seq(STRING)
    BY <2>3 DEF Draft
  <2>5. zone \in Seq(STRING)
    BY <2>3, <2>4, ExpandName
  <2> HIDE DEF zone
  <2>6. ASSUME NEW G \in SUBSET Seq(STRING), InScopeOf(d.soa, G)
        PROVE  InScopeOf(zone, G)
    <3>1. PICK s \in G : zoneInScope(d.soa, s)
      BY <2>6 DEF InScopeOf
    <3>2. zoneInScope(zone, s)
      BY <2>3, <2>4, <2>5, <3>1, ScopeTransitive
    <3>3. QED
      BY <3>2 DEF InScopeOf
  <2>7. QED
    BY <1>2, <2>2, <2>5, <2>6
<1>3. QED
  BY <1>1, <1>2 DEF Single

\* A zone that a rule's zone gives is in every scope that the rule's zone is in.
LEMMA BelowInScope ==
  ASSUME NEW G \in SUBSET Seq(STRING), NEW z \in Names, NEW w \in Seq(STRING),
         z = w \/ <<z, w>> \in Subdomains, InScopeOf(w, G)
  PROVE  InScopeOf(z, G)
<1>1. z \in Seq(STRING)
  BY AdminAssumption
<1>2. CASE z = w
  BY <1>2
<1>3. CASE <<z, w>> \in Subdomains
  <2>1. zoneInScope(z, w)
    BY <1>1, <1>3, SubdomainInScope DEF Subdomains
  <2>2. PICK s \in G : zoneInScope(w, s)
    BY DEF InScopeOf
  <2>3. zoneInScope(z, s)
    BY <1>1, <2>1, <2>2, ScopeTransitive
  <2>4. QED
    BY <2>3 DEF InScopeOf
<1>4. QED
  BY <1>2, <1>3

\* One rule replaced by another, both with zones in a scope: nothing changes for the
\* zones out of that scope, although later rules may become the first for theirs.
LEMMA GivesStays ==
  ASSUME NEW M, NEW N, NEW id \in RuleIds, NEW u,
         \A j \in RuleIds \ {id} : M[j] = N[j],
         \A j \in RuleIds : M[j].pattern[u] \in Seq(STRING),
         NEW G \in SUBSET Seq(STRING),
         u \in M[id].users => InScopeOf(M[id].pattern[u], G),
         u \in N[id].users => InScopeOf(N[id].pattern[u], G),
         NEW z \in Names, ~InScopeOf(z, G),
         NEW i \in RuleIds, Gives(M, i, z, u)
  PROVE  Gives(N, i, z, u)
<1>1. ~InScopeOf(M[i].pattern[u], G)
  BY BelowInScope DEF Gives
<1>2. i # id /\ N[i] = M[i]
  BY <1>1 DEF Gives, IsFirst
<1>3. ASSUME NEW j \in 1 .. (i - 1), u \in N[j].users
      PROVE  N[j].pattern[u] # N[i].pattern[u]
  <2>1. j \in RuleIds
    BY AdminAssumption DEF RuleIds
  <2>2. CASE j = id
    BY <1>1, <1>2, <1>3, <2>2
  <2>3. CASE j # id
    BY <1>2, <1>3, <2>1, <2>3 DEF Gives, IsFirst
  <2>4. QED
    BY <2>2, <2>3
<1>4. IsFirst(N, i, u)
  BY <1>2, <1>3 DEF Gives, IsFirst
<1>5. QED
  BY <1>2, <1>4 DEF Gives

\* A step that writes one rule, where the rule before and the rule after have SOAs in
\* a scope, changes who may have which zone only in that scope.
LEMMA WriteInReach ==
  ASSUME NoSoaHasProbe, TypeOK, TypeOK', NEW id \in RuleIds,
         \A j \in RuleIds \ {id} : rules'[j] = rules[j],
         NEW G \in SUBSET Seq(STRING),
         \A d \in rules[id] : InScopeOf(d.soa, G),
         \A d \in rules'[id] : InScopeOf(d.soa, G),
         NEW u \in Users, NEW z \in Names, ~InScopeOf(z, G)
  PROVE  Policy!PolicyIsZoneAllowedForUser(z, u)
           <=> Policy!PolicyIsZoneAllowedForUser(z, u)'
<1> DEFINE M == Meanings
           N == Meanings'
<1>1. /\ rules \in [RuleIds -> {None} \cup Single(ValidDrafts)]
      /\ rules' \in [RuleIds -> {None} \cup Single(ValidDrafts)]
  BY DEF TypeOK
<1>2. \A j \in RuleIds : M[j] = Meaning(rules[j]) /\ N[j] = Meaning(rules'[j])
  BY DEF Meanings, Meaning
<1> HIDE DEF M, N
<1>3. \A j \in RuleIds \ {id} : M[j] = N[j]
  BY <1>2
<1>4. \A j \in RuleIds : M[j].pattern[u] \in Seq(STRING) /\ N[j].pattern[u] \in Seq(STRING)
  BY <1>1, <1>2, MeaningInScope
<1>5. /\ u \in M[id].users => InScopeOf(M[id].pattern[u], G)
      /\ u \in N[id].users => InScopeOf(N[id].pattern[u], G)
  BY <1>1, <1>2, MeaningInScope
<1>6. \A i \in RuleIds : Gives(M, i, z, u) <=> Gives(N, i, z, u)
  BY <1>3, <1>4, <1>5, GivesStays
<1>7. QED
  BY <1>6, AllowedByRule, AllowedByRuleNext DEF M, N

\* Only one request writes at a time: the one that a step changes.
LEMMA WriterIs ==
  ASSUME AdminInv, Next, rules' # rules, NEW p \in Procs, Acts(p)
  PROVE  PolicyCreate(p) \/ PolicyUpdate(p) \/ PolicyDelete(p)
<1>1. PICK q \in Procs : PolicyCreate(q) \/ PolicyUpdate(q) \/ PolicyDelete(q)
  BY DEF Next, ReceiveRule, ReceiveDelegation, Receive, CallFails, GetRule, AuthorizeOld,
         AuthorizeNew, GetAgain, DelegationCreate, DelegationGetByID, DelegationUpdate,
         DelegationDelete, tables
<1>2. \E pc \in Replied : Goto(q, pc)
  BY <1>1 DEF PolicyCreate, PolicyUpdate, PolicyDelete, Replied
<1>3. \E s : req' = [req EXCEPT ![q] = s]
  BY <1>2 DEF Goto
<1>4. DOMAIN req = Procs
  BY DEF AdminInv, TypeOK
<1>5. q = p
  BY <1>3, <1>4 DEF Acts
<1>6. QED
  BY <1>1, <1>5

\* Whatever a delegate writes, at whatever time, changes who may have which zone only
\* at or below the suffixes that were delegated to them, but for a rule that was moved
\* between the check and the write (authorization by SOA, with patterns within it).
THEOREM DelegatesStayInReach ==
  ASSUME NoSoaHasProbe PROVE Spec => DelegatedReach
<1>1. AdminInv /\ AdminInv' /\ [Next]_vars =>
        [\A p \in Procs :
           /\ rules' # rules
           /\ Acts(p)
           /\ ~isSuperAdmin(req[p].user)
           /\ ~Overtaken(req[p])
           => \A u \in Users, z \in Names :
                \/ InScopeOf(z, granted[req[p].user])
                \/ Policy!PolicyIsZoneAllowedForUser(z, u)
                     <=> Policy!PolicyIsZoneAllowedForUser(z, u)']_vars
  <2> SUFFICES ASSUME AdminInv, AdminInv', Next,
                      NEW p \in Procs, rules' # rules, Acts(p),
                      ~isSuperAdmin(req[p].user), ~Overtaken(req[p]),
                      NEW u \in Users, NEW z \in Names,
                      ~InScopeOf(z, granted[req[p].user])
               PROVE  Policy!PolicyIsZoneAllowedForUser(z, u)
                        <=> Policy!PolicyIsZoneAllowedForUser(z, u)'
    BY DEF vars
  <2> DEFINE r == req[p]
             G == granted[r.user]
  <2>1. PolicyCreate(p) \/ PolicyUpdate(p) \/ PolicyDelete(p)
    BY WriterIs
  <2>2. /\ TypeOK /\ TypeOK' /\ r.user \in Users
        /\ \A drafts : EntitledBy(r.user, drafts, granted)
                         => \A d \in drafts : InScopeOf(d.soa, G)
    <3>1. ~Free(p)
      BY <2>1, AtRule DEF PolicyCreate, PolicyUpdate, PolicyDelete
    <3>2. QED
      BY <3>1, InFlight DEF AdminInv, EntitledBy
  <2>3. G \in SUBSET Seq(STRING)
    BY <2>2, AdminAssumption DEF TypeOK, ValidGrants, Grant
  <2>4. CASE PolicyCreate(p)
    <3>1. r \in PendingRule /\ Sound(r, granted) /\ r.pc = "insert"
      BY <2>4, AtRule DEF PolicyCreate
    <3>2. \A d \in r.body : InScopeOf(d.soa, G)
      BY <2>2, <3>1 DEF Sound
    <3>3. /\ lastRule + 1 \in RuleIds /\ rules[lastRule + 1] = None
          /\ rules' = [rules EXCEPT ![lastRule + 1] = r.body]
          /\ DOMAIN rules = RuleIds
      BY <2>2, <2>4, AdminAssumption DEF PolicyCreate, TypeOK, RuleIds, Stored
    <3>4. QED
      BY <2>2, <2>3, <3>2, <3>3, WriteInReach DEF None
  <2>5. CASE PolicyUpdate(p)
    <3>1. r \in PendingRule /\ Sound(r, granted) /\ r.pc = "write"
      BY <2>5, AtRule DEF PolicyUpdate
    <3>2. r.op = "update" /\ r.id \in RuleIds
      BY <3>1, Labels DEF Sound, PendingRule
    <3>3. /\ \A d \in r.body : InScopeOf(d.soa, G)
          /\ \A d \in r.seen : InScopeOf(d.soa, G)
      BY <2>2, <3>1 DEF Sound
    <3>4. /\ rules[r.id] = r.seen
          /\ rules' = [rules EXCEPT ![r.id] = r.body]
          /\ DOMAIN rules = RuleIds
      BY <2>2, <2>5, <3>2 DEF PolicyUpdate, TypeOK, Overtaken
    <3>5. QED
      BY <2>2, <2>3, <3>2, <3>3, <3>4, WriteInReach
  <2>6. CASE PolicyDelete(p)
    <3>1. r \in PendingRule /\ Sound(r, granted) /\ r.pc = "erase"
      BY <2>6, AtRule DEF PolicyDelete
    <3>2. r.op = "delete" /\ r.id \in RuleIds
      BY <3>1, Labels DEF Sound, PendingRule
    <3>3. \A d \in r.seen : InScopeOf(d.soa, G)
      BY <2>2, <3>1 DEF Sound
    <3>4. /\ rules[r.id] = r.seen
          /\ rules' = [rules EXCEPT ![r.id] = None]
          /\ DOMAIN rules = RuleIds
      BY <2>2, <2>6, <3>2 DEF PolicyDelete, TypeOK, Overtaken
    <3>5. QED
      BY <2>2, <2>3, <3>2, <3>3, <3>4, WriteInReach DEF None
  <2>7. QED
    BY <2>1, <2>4, <2>5, <2>6
<1>2. QED
  BY <1>1, AdminInvariant, PTL DEF Spec, DelegatedReach

===============================================================================
