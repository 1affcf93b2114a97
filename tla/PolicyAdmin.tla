------------------------------ MODULE PolicyAdmin -----------------------------
(***************************************************************************)
(* Administration of the policy: rules, which super admins write and those *)
(* to whom a super admin delegated a part of the name space, and the       *)
(* delegations, which only super admins write                              *)
(* (src/internal/routes_policy.go, routes_delegation.go).  Requests run    *)
(* concurrently; one step is one call to the database, with the            *)
(* computation up to the next one.  ZonePolicy evaluates the rules.        *)
(***************************************************************************)
EXTENDS DnsNames, FiniteSets

CONSTANTS
  Procs,        \* concurrent requests
  Users,        \* e-mail addresses
  SuperAdmins,  \* super_admin_emails
  LabelOf,      \* the DNS label of a user (DnsMakeCompliant)
  Names,        \* the zone names in play
  Drafts,       \* the rules that requests carry
  Grants,       \* the delegations that requests carry
  InitRules,    \* the rules at the start, a sequence
  InitGrants,   \* the delegations at the start, a sequence
  MaxRules, MaxDelegations,  \* bounds on the ids given out
  MaxRequests,  \* bound on the requests received
  MaxFaults     \* bound on failed calls

\* PolicyRuleRequest; wellFormed says that the pattern is a DNS name and that the
\* filter, which stands for the users it matches, parses.
Draft ==
  [pattern : Seq(STRING), soa : Seq(STRING), users : SUBSET Users,
   sub : BOOLEAN, share : BOOLEAN, wellFormed : BOOLEAN]

\* DelegationPolicyRequest; the suffix may be blank.
Grant == [users : SUBSET Users, suffix : Seq(STRING), wellFormed : BOOLEAN]

ASSUME AdminAssumption ==
  /\ SuperAdmins \subseteq Users
  /\ LabelOf \in [Users -> STRING]
  /\ Names \subseteq Seq(STRING)
  /\ Drafts \subseteq Draft
  /\ Grants \subseteq Grant
  /\ InitRules \in Seq(Drafts) /\ Len(InitRules) <= MaxRules
  /\ InitGrants \in Seq(Grants) /\ Len(InitGrants) <= MaxDelegations
  /\ MaxRules \in Nat /\ MaxDelegations \in Nat
  /\ MaxRequests \in Nat /\ MaxFaults \in Nat

VARIABLES
  rules,        \* the rule table: per id the rule, or nothing
  lastRule,     \* the last id given to a rule; ids are never given out again
  delegations, lastDelegation,
  req,          \* the request each process is handling
  granted,      \* per user the suffixes ever delegated to them (history)
  started, faults

tables == <<rules, lastRule, delegations, lastDelegation>>
vars   == <<rules, lastRule, delegations, lastDelegation, req, granted, started, faults>>

None == {}

RuleIds       == 1 .. MaxRules
DelegationIds == 1 .. MaxDelegations

\* What is stored under an id is a set of at most one element.
Stored(table) == {id \in DOMAIN table : table[id] # None}

-------------------------------------------------------------------------------
(* Authorization and validation *)

\* The suffixes delegated to a user.
SuffixesOf(u) ==
  {d.suffix : d \in {e \in UNION {delegations[id] : id \in DelegationIds} : u \in e.users}}

isSuperAdmin(u) == u \in SuperAdmins

InScopeOf(soa, suffixes) == \E s \in suffixes : zoneInScope(soa, s)

userCanManageZoneSoa(u, soa) == isSuperAdmin(u) \/ InScopeOf(soa, SuffixesOf(u))

MayWrite(u, drafts) == \A d \in drafts : userCanManageZoneSoa(u, d.soa)

\* Mutated: trusts the filter and the pattern.
AnyWithinSoa(d) == validatePatternWithinSoa(d.pattern, d.soa)

policyValidateRequest(d) ==
  d.wellFormed /\ validatePatternWithinSoa(d.pattern, d.soa)

DelegationIsValid(g) == g.wellFormed /\ g.suffix # <<>>

\* What is stored at the start was validated, too.
ASSUME StoredBefore ==
  /\ \A i \in DOMAIN InitRules : policyValidateRequest(InitRules[i])
  /\ \A i \in DOMAIN InitGrants : DelegationIsValid(InitGrants[i])

-------------------------------------------------------------------------------
(* Requests *)

Idle    == [pc |-> "idle"]
Replied == {"ok", "refused", "failed"}   \* 2xx, 4xx, 5xx

Free(p)   == req[p].pc \in Replied \cup {"idle"}
At(p, pc) == req[p].pc = pc

Running(op, user, id, body, pc) ==
  [op |-> op, user |-> user, id |-> id, body |-> body, seen |-> {}, okOld |-> TRUE, pc |-> pc]

Goto(p, pc) ==
  req' = [req EXCEPT ![p] = IF pc \in Replied THEN [pc |-> pc] ELSE [@ EXCEPT !.pc = pc]]

Receive(p) ==
  /\ Free(p)
  /\ started < MaxRequests
  /\ started' = started + 1
  /\ UNCHANGED <<tables, granted, faults>>

Accept(p, r) == req' = [req EXCEPT ![p] = r]

Continue == UNCHANGED <<started, faults>>

ReceiveRule(p) ==
  /\ Receive(p)
  /\ \E u \in Users, id \in RuleIds :
       \/ \E d \in Drafts : \/ Accept(p, Running("create", u, 0, {d}, "authNew"))
                            \/ Accept(p, Running("update", u, id, {d}, "get"))
       \/ Accept(p, Running("delete", u, id, {}, "get"))

\* Who is not a super admin is refused before anything else.
ReceiveDelegation(p) ==
  /\ Receive(p)
  /\ \E u \in Users, id \in DelegationIds :
       \/ isSuperAdmin(u) /\ Accept(p, Running("drop", u, id, {}, "dropDelegation"))
       \/ \E g \in Grants :
            /\ isSuperAdmin(u) /\ DelegationIsValid(g)
            /\ \/ Accept(p, Running("grant", u, 0, {g}, "newDelegation"))
               \/ Accept(p, Running("regrant", u, id, {g}, "getDelegation"))
       \/ /\ ~isSuperAdmin(u) \/ \E g \in Grants : ~DelegationIsValid(g)
          /\ Accept(p, [pc |-> "refused"])

\* Any call of a request may fail.  A rule that cannot be read is "not found".
CallFails(p) ==
  /\ ~Free(p)
  /\ At(p, "authOld") \/ At(p, "authNew") => ~isSuperAdmin(req[p].user)
  /\ faults < MaxFaults
  /\ faults' = faults + 1
  /\ Goto(p, IF At(p, "authOld") \/ At(p, "authNew") THEN "failed" ELSE "refused")
  /\ UNCHANGED <<tables, granted, started>>

-------------------------------------------------------------------------------
(* Rules (src/internal/routes_policy.go, app_logic.go) *)

\* PolicyGetByID, to learn the zone the rule is about now.
GetRule(p) ==
  LET r == req[p]
  IN  /\ At(p, "get")
      /\ IF rules[r.id] = None
           THEN Goto(p, "refused")
           ELSE Accept(p, [r EXCEPT !.seen = rules[r.id], !.pc = "authOld"])
      /\ Continue /\ UNCHANGED <<tables, granted>>

\* Mutated: an update is authorized for the zone it moves the rule to only.
SkipOld(p) ==
  /\ At(p, "authOld")
  /\ Goto(p, IF req[p].op = "update" THEN "authNew" ELSE "erase")
  /\ Continue /\ UNCHANGED <<tables, granted>>

\* The zone of the stored rule; an update is refused only after the second query.
AuthorizeOld(p) ==
  LET r       == req[p]
      allowed == MayWrite(r.user, r.seen)
  IN  /\ At(p, "authOld")
      /\ \/ r.op = "update" /\ Accept(p, [r EXCEPT !.okOld = allowed, !.pc = "authNew"])
         \/ r.op # "update" /\ allowed /\ Goto(p, "erase")
         \/ r.op # "update" /\ ~allowed /\ Goto(p, "refused")
      /\ Continue /\ UNCHANGED <<tables, granted>>

\* The zone of the rule in the request, which is then validated.
AuthorizeNew(p) ==
  LET r       == req[p]
      allowed == MayWrite(r.user, r.body)
      valid   == \A d \in r.body : policyValidateRequest(d)
      passed  == allowed /\ r.okOld /\ valid
  IN  /\ At(p, "authNew")
      /\ \/ ~passed /\ Goto(p, "refused")
         \/ passed /\ r.op = "create" /\ Goto(p, "insert")
         \/ passed /\ r.op = "update" /\ Goto(p, "getAgain")
      /\ Continue /\ UNCHANGED <<tables, granted>>

PolicyCreate(p) ==
  /\ At(p, "insert")
  /\ lastRule < MaxRules
  /\ lastRule' = lastRule + 1
  /\ rules' = [rules EXCEPT ![lastRule + 1] = req[p].body]
  /\ Goto(p, "ok")
  /\ Continue /\ UNCHANGED <<delegations, lastDelegation, granted>>

\* PolicyUpdateRule reads the rule once more, to overwrite all that it may write.
GetAgain(p) ==
  /\ At(p, "getAgain")
  /\ Goto(p, IF rules[req[p].id] = None THEN "refused" ELSE "write")
  /\ Continue /\ UNCHANGED <<tables, granted>>

\* Mutated: saves the rule whether or not it is still there.
PolicySave(p) ==
  /\ At(p, "write")
  /\ rules' = [rules EXCEPT ![req[p].id] = req[p].body]
  /\ Goto(p, "ok")
  /\ Continue /\ UNCHANGED <<lastRule, delegations, lastDelegation, granted>>

\* UPDATE ... WHERE id: no row, if the rule was deleted in the meantime.
PolicyUpdate(p) ==
  LET r == req[p]
  IN  /\ At(p, "write")
      /\ IF rules[r.id] = None
           THEN Goto(p, "refused") /\ UNCHANGED rules
           ELSE Goto(p, "ok") /\ rules' = [rules EXCEPT ![r.id] = r.body]
      /\ Continue /\ UNCHANGED <<lastRule, delegations, lastDelegation, granted>>

PolicyDelete(p) ==
  LET r == req[p]
  IN  /\ At(p, "erase")
      /\ rules' = [rules EXCEPT ![r.id] = None]
      /\ Goto(p, IF rules[r.id] = None THEN "refused" ELSE "ok")
      /\ Continue /\ UNCHANGED <<lastRule, delegations, lastDelegation, granted>>

-------------------------------------------------------------------------------
(* Delegations (src/internal/routes_delegation.go, delegation_logic.go) *)

WithGranted(g) ==
  [u \in Users |-> IF u \in g.users THEN granted[u] \cup {g.suffix} ELSE granted[u]]

DelegationCreate(p) ==
  /\ At(p, "newDelegation")
  /\ lastDelegation < MaxDelegations
  /\ lastDelegation' = lastDelegation + 1
  /\ delegations' = [delegations EXCEPT ![lastDelegation + 1] = req[p].body]
  /\ \A g \in req[p].body : granted' = WithGranted(g)
  /\ Goto(p, "ok")
  /\ Continue /\ UNCHANGED <<rules, lastRule>>

DelegationGetByID(p) ==
  /\ At(p, "getDelegation")
  /\ Goto(p, IF delegations[req[p].id] = None THEN "refused" ELSE "setDelegation")
  /\ Continue /\ UNCHANGED <<tables, granted>>

DelegationUpdate(p) ==
  LET r == req[p]
  IN  /\ At(p, "setDelegation")
      /\ IF delegations[r.id] = None
           THEN Goto(p, "refused") /\ UNCHANGED <<delegations, granted>>
           ELSE /\ Goto(p, "ok")
                /\ delegations' = [delegations EXCEPT ![r.id] = r.body]
                /\ \A g \in r.body : granted' = WithGranted(g)
      /\ Continue /\ UNCHANGED <<rules, lastRule, lastDelegation>>

DelegationDelete(p) ==
  LET r == req[p]
  IN  /\ At(p, "dropDelegation")
      /\ delegations' = [delegations EXCEPT ![r.id] = None]
      /\ Goto(p, IF delegations[r.id] = None THEN "refused" ELSE "ok")
      /\ Continue /\ UNCHANGED <<rules, lastRule, lastDelegation, granted>>

-------------------------------------------------------------------------------
(* What the rules mean, and who sees them *)

\* A stored rule as ZonePolicy has it; an empty row is a rule for nobody.
Meaning(stored) ==
  IF stored = None
    THEN [pattern |-> [u \in Users |-> <<>>], soa |-> <<>>, users |-> {},
          sub |-> FALSE, share |-> FALSE]
    ELSE LET d == CHOOSE d \in stored : TRUE
         IN  [pattern |-> [u \in Users |-> Expand(d.pattern, LabelOf[u])],
              soa |-> d.soa, users |-> d.users, sub |-> d.sub, share |-> d.share]

Subdomains == {pair \in Names \X Names : isSubdomainOf(pair[1], pair[2])}

Policy == INSTANCE ZonePolicy WITH
  Zones <- Names,
  Below <- Subdomains,
  Rules <- [id \in RuleIds |-> Meaning(rules[id])]

\* Mutated: a delegate is shown the rules whose pattern is in their part.
ListedByPattern(u, id) ==
  \E d \in rules[id] : \E s \in SuffixesOf(u) : zoneInScope(d.pattern, s)

ListedToDelegate(u, id) ==
  \E d \in rules[id] : \E s \in SuffixesOf(u) : zoneInScope(d.soa, s)

\* The list of rules for a user, and whether it says that they may edit them.
PolicyGetAllUserRules(u) ==
  IF isSuperAdmin(u)
    THEN [edit |-> TRUE, ids |-> Stored(rules)]
  ELSE IF SuffixesOf(u) # {}
    THEN [edit |-> TRUE, ids |-> {id \in RuleIds : ListedToDelegate(u, id)}]
  ELSE [edit |-> FALSE, ids |-> {id \in RuleIds : \E d \in rules[id] : u \in d.users}]

-------------------------------------------------------------------------------

Init ==
  /\ rules = [id \in RuleIds |-> IF id <= Len(InitRules) THEN {InitRules[id]} ELSE None]
  /\ lastRule = Len(InitRules)
  /\ delegations =
       [id \in DelegationIds |-> IF id <= Len(InitGrants) THEN {InitGrants[id]} ELSE None]
  /\ lastDelegation = Len(InitGrants)
  /\ req = [p \in Procs |-> Idle]
  /\ granted = [u \in Users |-> SuffixesOf(u)]
  /\ started = 0
  /\ faults = 0

Next ==
  \E p \in Procs :
    \/ ReceiveRule(p) \/ ReceiveDelegation(p) \/ CallFails(p)
    \/ GetRule(p) \/ AuthorizeOld(p) \/ AuthorizeNew(p)
    \/ PolicyCreate(p) \/ GetAgain(p) \/ PolicyUpdate(p) \/ PolicyDelete(p)
    \/ DelegationCreate(p) \/ DelegationGetByID(p)
    \/ DelegationUpdate(p) \/ DelegationDelete(p)

Spec == Init /\ [][Next]_vars

-------------------------------------------------------------------------------
(* Properties *)

\* A rule in the table has a name for its pattern, a filter that parses, and a
\* pattern that the validation found within its SOA; a delegation, a suffix.
ValidDrafts ==
  {d \in Drafts : d.wellFormed /\ validatePatternWithinSoa(d.pattern, d.soa)}
ValidGrants == {g \in Grants : g.wellFormed /\ g.suffix # <<>>}

Single(S) == {{x} : x \in S}

\* Where a request of each kind may be.
LabelsOf(op) ==
  CASE op = "create"  -> {"authNew", "insert"}
    [] op = "update"  -> {"get", "authOld", "authNew", "getAgain", "write"}
    [] op = "delete"  -> {"get", "authOld", "erase"}
    [] op = "grant"   -> {"newDelegation"}
    [] op = "regrant" -> {"getDelegation", "setDelegation"}
    [] op = "drop"    -> {"dropDelegation"}

RuleOps       == {"create", "update", "delete"}
DelegationOps == {"grant", "regrant", "drop"}

PendingRule ==
  [op : RuleOps, user : Users, id : 0 .. MaxRules, body : {None} \cup Single(Drafts),
   seen : {None} \cup Single(ValidDrafts), okOld : BOOLEAN,
   pc : UNION {LabelsOf(op) : op \in RuleOps}]

PendingDelegation ==
  [op : DelegationOps, user : Users, id : 0 .. MaxDelegations,
   body : {None} \cup Single(ValidGrants), seen : {None}, okOld : {TRUE},
   pc : UNION {LabelsOf(op) : op \in DelegationOps}]

\* Only validated rules and delegations are stored, under ids given out.
TypeOK ==
  /\ rules \in [RuleIds -> {None} \cup Single(ValidDrafts)]
  /\ lastRule \in 0 .. MaxRules
  /\ Stored(rules) \subseteq 1 .. lastRule
  /\ delegations \in [DelegationIds -> {None} \cup Single(ValidGrants)]
  /\ lastDelegation \in 0 .. MaxDelegations
  /\ Stored(delegations) \subseteq 1 .. lastDelegation
  /\ req \in [Procs -> [pc : Replied \cup {"idle"}] \cup PendingRule \cup PendingDelegation]
  /\ granted \in [Users -> SUBSET {g.suffix : g \in ValidGrants}]
  /\ started \in 0 .. MaxRequests
  /\ faults \in 0 .. MaxFaults

\* Somebody who may, or could at some time, write rules for the SOAs of some drafts.
Entitled(u, drafts) ==
  isSuperAdmin(u) \/ \A d \in drafts : InScopeOf(d.soa, granted[u])

\* A request that gets to its writes carries a valid rule whose SOA its caller was
\* entitled to, and has seen its caller entitled to the SOA of the rule it replaces
\* or deletes, too; delegations are for super admins.
RequestsChecked ==
  \A p \in Procs : ~Free(p) =>
    LET r == req[p]
    IN  /\ r.pc \in LabelsOf(r.op)
        /\ r.op \in {"update", "delete"} => r.id \in RuleIds
        /\ r.op \in {"regrant", "drop"} => r.id \in DelegationIds
        /\ r.op \notin {"delete", "drop"} => r.body # None
        /\ r.op \in DelegationOps => isSuperAdmin(r.user)
        /\ r.pc \in {"insert", "getAgain", "write"} =>
             r.body \subseteq ValidDrafts /\ Entitled(r.user, r.body)
        /\ r.op \in {"update", "delete"} /\ r.pc # "get" => r.seen # None
        /\ \/ r.pc \in {"getAgain", "write", "erase"}
           \/ r.op = "update" /\ r.pc = "authNew" /\ r.okOld
           => Entitled(r.user, r.seen)

Acts(p) == req'[p] # req[p]

\* The rule changed since the request read it to check its caller.
Overtaken(r) == r.op # "create" /\ rules[r.id] # r.seen

\* Whatever a delegate does to the rules, with delegations and rules changing under
\* their requests, changes who may have which zone only at or below a suffix that
\* was delegated to them; but for a rule that was moved out of their reach between
\* the check and the write.
DelegatedReach ==
  [][\A p \in Procs :
       /\ rules' # rules
       /\ Acts(p)
       /\ ~isSuperAdmin(req[p].user)
       /\ ~Overtaken(req[p])
       => \A u \in Users, z \in Names :
            \/ InScopeOf(z, granted[req[p].user])
            \/ Policy!PolicyIsZoneAllowedForUser(z, u)
                 <=> Policy!PolicyIsZoneAllowedForUser(z, u)']_vars

\* The drafts that, for every user, name a zone at or below their SOA.
ConfinedDrafts ==
  {d \in Drafts : \A u \in Users : zoneInScope(Expand(d.pattern, LabelOf[u]), d.soa)}

\* "%u expands to a user label; any label keeps the suffix relationship intact":
\* every zone that a stored rule hands out lies at or below the rule's own SOA.
PatternsWithinSoa == \A id \in RuleIds : rules[id] \subseteq ConfinedDrafts

\* A deleted rule never comes back, not even when its update was already checked.
DeletedRulesStayDeleted ==
  [][\A id \in 1 .. lastRule : rules[id] = None => rules'[id] = None]_vars

\* The list offers for editing exactly the rules that the operations let its reader
\* edit, although the two are worked out separately.
ListingMatchesRights ==
  \A u \in Users, id \in RuleIds : \A d \in rules[id] :
    LET list == PolicyGetAllUserRules(u)
    IN  list.edit /\ id \in list.ids <=> userCanManageZoneSoa(u, d.soa)

\* The drafts for which getAuthoritativeZones goes label by label from the SOA to
\* the zone, for every user; only a difference in case may cut it off.
ChainedDrafts ==
  {d \in Drafts :
     \A u \in Users :
       LET zone     == Expand(d.pattern, LabelOf[u])
           chain    == getAuthoritativeZones(zone, d.soa)
           suffixes == {SubSeq(zone, i, Len(zone)) : i \in 1 .. Len(zone)}
       IN  \/ /\ {chain[i] : i \in DOMAIN chain} =
                   {s \in suffixes : zoneInScope(s, d.soa)}
              /\ \A i \in 1 .. Len(chain) - 1 : chain[i] = Tail(chain[i + 1])
           \/ chain = <<>> /\ ~IsSuffix(d.soa, zone)}

\* No rule gets stored for which the zones to ensure between its SOA and the zone
\* it hands out are not exactly those in between.
ChainsReachTheSoa == \A id \in RuleIds : rules[id] \subseteq ChainedDrafts

===============================================================================
