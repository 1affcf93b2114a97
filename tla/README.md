# A TLA+ model of dynamic-zones

dynamic-zones lets users create DNS zones for themselves. A policy says who may
have which zone. A zone has owners; each owner has a TSIG key with which dynamic
updates of the zone are signed. The service keeps the owners in a database and
everything DNS in a PowerDNS server, and has to keep the two in step.

This directory models the service's operations on zones, rules, delegations, tokens
and records, checks them with TLC on small instances, and proves most of what is
checked with TLAPS, for instances of any size.

| module | contents |
|---|---|
| `ZonePolicy` | evaluation of the policy rules (pure operators) |
| `ZoneService` | the zone operations over the zone table and PowerDNS, and what users are shown |
| `ZoneOwnership` | abstract specification: what the zone operations promise about owners |
| `ZoneAgreement` | what holds halfway through the zone operations when requests come one at a time |
| `ZoneServiceProofs`, `ZoneKeyProofs`, `ZoneOwnershipProofs`, `ZoneAgreementProofs` | theorems about `ZoneService` and their proofs: types and ownership; keys; requests one at a time and the refinement; agreement of the stores, answers and subtrees |
| `DnsNames` | names as sequences of labels: suffix tests, patterns, chains of zones (pure operators) |
| `PolicyAdmin` | administration of rules and delegations; evaluates them by `ZonePolicy` |
| `ApiTokens` | the token table and its operations |
| `RecordUpdates` | what the dynamic updates do to a set of records (pure operators) |
| `RecordApi` | requests for records and tokens, over `ApiTokens` and `RecordUpdates` |
| `UpstreamUpdate` | the periodic publication of the server's address, over `RecordUpdates` |
| `DnsNamesProofs`, `PolicyAdminProofs`, `RecordApiProofs`, `UpstreamUpdateProofs` | theorems about these modules and their proofs |
| `MCZoneService`, `MCPolicyAdmin`, `MCRecordApi`, `MCUpstreamUpdate` | instances for TLC |

## 1. The system

Paths are below `src/internal/`.

| component | state | operations | depends on |
|---|---|---|---|
| zone lifecycle and sharing (`app_logic.go`, `zone_sharing.go`, `routes_zones.go`) | none of its own | list, get, create, delete, join, list/add/remove owners, rotate keys | policy evaluation, zone table, PowerDNS |
| orphan removal (`routes_delegation.go`) | none | list and delete zones no policy covers | the same |
| zone table (`storage.go`) | one row per zone and owner | insert, delete, count, list | SQL database |
| policy evaluation (`app_logic.go`) | none | zones and definitions of a user | rule table |
| policy and delegation administration (`routes_policy.go`, `delegation_logic.go`, `routes_delegation.go`) | rule table, delegation table | CRUD by super admins and delegates | SQL database |
| API tokens (`routes_api_tokens.go`, `storage.go`) | token table | create, list with lazy deletion, look up, delete | SQL database, clock |
| authentication (`authentication.go`) | none | claims from an OIDC token or an API token | API tokens |
| PowerDNS client (`powerdns_client.go`) | zones, metadata, TSIG keys and records in PowerDNS | create and delete zones, add, remove and rotate keys, delegate | PowerDNS HTTP API |
| DNS record API (`routes_dns_client.go`, `helper/dns_update.go`) | records of a zone | list by AXFR, replace, delete | zone table, RFC 2136 updates |
| upstream updater (`upstream_dns_update.go`) | one address record upstream | periodic look-up and replacement | RFC 2136 updates, clock |
| reconciliation (`reconcile.go`) | channels | recreate zones PowerDNS lacks; nothing calls it | zone table, PowerDNS |
| names (`helper/dns_helper.go`, `app_logic.go`) | none | validation, labels from e-mail addresses, suffix tests | |
| start-up, configuration, rule seed (`app_setup.go`, `app_config.go`, `javascript_engine.go`) | configuration | wires the rest, seeds an empty rule table | |

Static pages, templates, key generation, packaging and the test harness carry no
logic of this kind and are left out for good.

What each must guarantee:

- **Zones and sharing**: nobody owns a zone beyond the policy's reach; a zone has
  an owner as long as it is stored; owners of a shared zone own all below it;
  owners, and only they, hold working keys; every request is answered.
- **PowerDNS client**: the keys it holds are within the policy's reach; a new zone is
  delegated from the zone above; what an operation reports is so.
- **Administration**: a delegate changes only rules in their own subtree, also when
  rules are changed at the same time.
- **Tokens**: no expired or deleted token authenticates, no good one disappears.
- **Records and upstream**: the address is there again after every failure that
  passes; nothing else is lost on the way.

### What is hard

The HTTP server runs each request in a goroutine of its own. A handler makes five
to thirty calls to the stores. There is no lock, no transaction around more
than one statement, no uniqueness constraint on (zone, user), and PowerDNS
metadata is changed by reading and rewriting a list. So every check may be stale when
acted upon, and every failure leaves the stores as they were after the last call that
succeeded. `PROJECT.json` lists the hazards with their lines.

## 2. ZonePolicy

`Rules` is the rule table in order of id. A rule's pattern with `%u` is a function
from users to zones, its filter a set of users. `PolicyGetUserZones` keeps the
first rule for each zone, as `rulesToUserZones` does; `ZoneDefinitions(z, u)` is
what `PolicyIsZoneAllowedForUser` returns: an exact match, else the definition
inherited from the longest zone above that allows subdomains. Results are sets with
at most one element where the code returns a pointer that may be nil.
`GoverningDefs` (`zoneGoverningDef`) may have several elements: the owners come
from a `SELECT DISTINCT` without an order, and the first entitled one wins.

`Below` is `isSubdomainOf`. Two facts of suffix tests are assumed
(`BelowAssumption`): it is a strict order, and the zones above a zone are ordered
among themselves.

## 3. ZoneService

### State

| variable | in the system |
|---|---|
| `rows` | table `zones`: for each zone its rows (user, id); ids are kept up to order, duplicates are possible |
| `pdns` | zones PowerDNS serves |
| `keys` | TSIG key objects; `keyNameFor` names one per user and zone |
| `allow` | `TSIG-ALLOW-DNSUPDATE` of each zone |
| `deleg` | NS record sets (parent, child) |
| `req` | the request each goroutine handles: its parameters, the next call (`pc`), and what it has read |
| `started`, `faults` | counters that bound the runs |

### Steps

One step is one call to a store, with the computation up to the next. `pc` names the
next call. Parts of handlers that several operations share are shared here: the
pair (`cur`) whose row or key is being changed, and the pairs (`todo`) a loop has
yet to visit.

| operation | actions, in the order of the code |
|---|---|
| create | `Authorize`, `ParentDefinition`, `CreateExists`, (`IntermediateGet`, `IntermediateAdd`, `DelegationDrop`, `DelegationAdd`)*, `DropZone`, `DropKey`, `AddZone`, `KeyAdd`, `AllowRead`, `AllowAdd`, `FetchZone`, `InsertRow`, `FindParent`, `ParentSharing`, `ParentOwners`, `GrantNext`* |
| join | `JoinExists`, `JoinAuthorize`, `InsertRow`, key, `ListSubtree`, `GrantNext`* |
| add owner | `CallerIsOwner`, `AddSharing`, `AddTarget`, `InsertRow`, key, `ListSubtree`, `GrantNext`* |
| remove owner | `CallerIsOwner`, `RemoveTarget`, `CountOwners`, `DeleteRow`, `AllowReadForDelete`, `AllowDelete`, `KeyDelete`, `ListSubtree`, `RevokeNext`* |
| rotate | `CallerIsOwner`, `ListOwners`, (`RotateNext`, key removal, key)* |
| delete | `CallerIsOwner`, `OwnSubzones`, `ListKeys`, `DeleteNextKey`*, `DeleteFromDns`, `DeleteRows` |
| orphan | `OrphanLookup`, then as delete, on behalf of the first owner |

`Receive` starts a request with any parameters, `Respond` ends it. `CallFails`
fails any call: the handler answers 500, or goes on where the code ignores the error
(`AfterIgnoredError`). `Crash` loses all requests; both stores persist. A call that
took effect although its answer was lost is the call followed by a failure of the
next one. That a client hangs up is a failure too, as its context is cancelled.

### Reading

The handlers that only read are operators on the state: `ZoneGet` (what an owner gets,
or why not) and `Listings(u)`, every answer `getZones` may give to a session of `u` (an
answer to a token starts from the rules for the empty address and is not modelled). It lists the
zones of the user's rules (`BaseStatus`), then those they own otherwise
(`CreatedStatus`), which are shown below the closest base zone that may have subzones.
The answer is not unique, as `zoneGoverningDef` is not (`GoverningChoices`). A listing
is one step: what changes between its queries is not modelled.

### What it promises

`ZoneOwnership` is the promise about owners without calls and stores: a zone is claimed
by one user, shared only where the policy allows sharing, left only while somebody else
stays, and dropped as a whole. The refinement mapping takes `owners[z]` to the users
with a row for `z`; every other step of `ZoneService` is a stutter.
`ImplementsOwnership` holds for requests one at a time. When they overlap it does not:
two creations give an unshared zone two owners, two removals leave none (below).

### Halfway through an operation

`ZoneAgreement` says, label by label, what a request has done so far and which calls are
still to come, for requests one at a time. `CourseInv` is the part that failures and crashes
leave true: a creation past its row has given its creator a key, a removal past a subzone
has taken the user out of it, a rotation has left a key with everyone it does not have to
visit any more. `AgreeInv` is the part that is true while no call has failed: table, key
objects and metadata agree on every pair but those the request is at work on (`Unsettled`),
and on these as far as the label says (`PairAtWork`, `ZoneAtWork`). `SubtreeInv` says of
creations, joins and additions that whoever owns a zone owns what is below it or is about to
be made an owner (`Coming`).

### PowerDNS

It is not in this repository; its behaviour is taken from how `powerdns_client.go`
uses it. Adding a zone that exists fails. Deleting a zone takes its
metadata and records along and leaves TSIG keys. Deleting a missing zone or key fails.
Reading or writing metadata of a missing zone fails.

### Abstractions

- The rules do not change while requests run; `PolicyAdmin` has the rules changing.
- Zone names are lower case and without trailing dot; `DnsNames` has the case.
- A session's e-mail address is its user name. The claims of an API token have a user
  name only: the policy judges a token caller by the empty address, `NoEmail`
  (`CallerDefinitions`), while rows and keys are in the user's name. `NoEmail` is a member
  of `Users`, so that a rule may match it, but sends no request and owns nothing. Of the
  entries of a filter only a bare `*` matches it, and that matches everybody
  (`NoEmailAssumption`).
- `addKeyToZone` reads, perhaps deletes and then creates the key object: one step.
  Which secret a key has is not modelled.
- Of three metadata lists only the one that authorises updates is modelled: the AXFR
  list gets the same entries by the same helper, the address list is constant. The
  admin key is not modelled.
- The order in which a loop visits its zones or owners is arbitrary.
- `grantOwnerSubtree` asks whether a user is an owner and `grantOwner` asks again:
  one step.
- The caller of `orphan` is a super admin.
- The time of an answer's arrival is that of the handler's last call.

## 4. PolicyAdmin and DnsNames

A name in `DnsNames` is the sequence of its labels, leaf first; `Lower` folds their
case. `isSubdomainOf` and `zoneInScope` compare in lower case, `getAuthoritativeZones`
as spelled, as in the code. `%u` stands for a whole label in a pattern
(`Expand`), as in the seeded rules; `%u` as a part of a label is not modelled.

| variable of `PolicyAdmin` | in the system |
|---|---|
| `rules`, `lastRule` | table `policy_rules`: per id a rule or nothing; the sequence of ids |
| `delegations`, `lastDelegation` | table `delegation_policies` |
| `req` | the request each goroutine handles |
| `granted` | history: the suffixes ever delegated to each user |

| operation | actions |
|---|---|
| create a rule | `ReceiveRule`, `AuthorizeNew` (which validates, too), `PolicyCreate` |
| update a rule | `ReceiveRule`, `GetRule`, `AuthorizeOld`, `AuthorizeNew`, `GetAgain`, `PolicyUpdate` |
| delete a rule | `ReceiveRule`, `GetRule`, `AuthorizeOld`, `PolicyDelete` |
| delegations | `ReceiveDelegation`, then `DelegationCreate`, or `DelegationGetByID` and `DelegationUpdate`, or `DelegationDelete` |

`AuthorizeOld` and `AuthorizeNew` are two queries of the delegation table: it may change in
between. `PolicyUpdate` is `UPDATE ... WHERE id`: it writes nothing when the rule is gone.
`CallFails` fails any call. The syntax of a name and of a user filter is one bit of a
request, `wellFormed`; a filter stands for the users it matches. `PolicyGetAllUserRules` is
the list of rules a user is shown.

`Policy` is `ZonePolicy` over the rules as they stand (`Meaning`), so that the effect of
an administrator's step is measured by what it lets users have, not by the fields it
writes.

## 5. ApiTokens, RecordUpdates and RecordApi

`ApiTokens` has the token table, the sequence of ids and the clock; a token string stands
for its row, because it is random and only its hash is stored. `Lifetime` is
`ApiTokenTTLHours`. `RecordUpdates` is what a server does with the updates of
`helper/dns_update.go`: `Rfc2136DeleteAAAARecord` removes one type of a name,
`Rfc2136DeleteARecord`, whose record has type ANY, all of them. At the apex of a zone a
server keeps the NS records (RFC 2136); SOA is left out.

`RecordApi` composes them. `req` is the request of each goroutine with its credentials:
the `cred` of a session is empty, that of a script is its token as it was when the
request arrived. `left` is a history: the caller of a running request, if they lost the zone
since it began.

| operation | actions |
|---|---|
| any | `ReceiveSession`, `ReceiveToken` (lookup and read-only test) or `TokenLookupFails` |
| list records | `RequireZoneOwner`, `ListRecords` |
| upsert | `RequireZoneOwner`, `Drop`, `Add` |
| delete | `RequireZoneOwner`, `Drop` |
| list tokens | `ListTokens`, `CleanUp`* |
| create, delete a token | `NewToken`, `OldToken` |
| environment | `LoseRow`, `LoseKey` (the two halves of a removal in `ZoneService`), `Clock` |

Every update may be refused (`Accepts`: an unknown key, a zone spelled with spaces that
`requireZoneOwner` trims and the update does not, a name outside the zone), and the answer
of every call may be lost, before or after it took effect.

Abstractions: one zone; all users own it at first, and owners only leave; the TTL; a value that
parses as an address of the other family (the library packs it as some address). Any
owner may present any owner's key: the service compares the caller with the zone, the server
the key with the zone, and nobody the caller with the key, so
`ChangesAreWarranted` does not claim that the key is the caller's.

## 6. UpstreamUpdate

`records` is what the upstream server holds for the host, `pc` the next call of the task,
`ips` what the lookup has found. `QueryA` and `QueryAAAA` are `PerformALookup`, which
takes a failed query for an empty answer; `DropA`, `DropAAAA` are `deleteRecords`, `AddRecord`
is `addRecord`; `Sleep` begins the next round. `Restart` and `Edit` may come at any time.
An update that is not answered may have been applied. `Init` has every configuration: with
no TSIG key, no valid address or an incomplete target the task is `"off"`.

Only the first address found is compared, and the order of an answer is the
server's choice: a stale address beside the own one may stay or go. So the
properties speak of the own address only. That a round may take a published address
away, to put it back, is the case of two addresses and stays allowed; `SoleAddressStays`
excludes it when there is one.

## 7. Runs

| run | instance | properties | states |
|---|---|---|---|
| `ZS_alone` | one request at a time, any number, no failures, all operations, sessions and tokens, three users, three zones | `TypeOK`, `OwnersHoldKeys`, `AloneNeverFails`, `RemovalRevokes`, `CreationDelegates`, `AgreeInv`, `LastOwnerStays`, `ImplementsOwnership` | 1.4 M |
| `ZS_grants` | two at a time, any number; create, join, add, on a base zone and its subzone | `SubtreeOwnership`, `SubtreeInv` | 0.6 M |
| `ZS_policy` | two requests, overlapping or not, all operations, one failure or crash, ten initial tables, a base zone that is not shared above one that is | `OwnershipFollowsPolicy`, `RequestsVetted`, `KeysFollowPolicy`, `KeysVetted` | 0.4 M |
| `ZS_finish` | the same from one table, with owners on every zone, without `orphan`, whose steps but the first are those of a deletion; with fairness | `RequestsFinish` | 0.2 M |
| `ZS_retry` | one request at a time, any number, two failures or crashes, all operations | `AnswersAreTrue`, `OffersAreHonoured`, `AloneInv`, `CourseInv` | 1.8 M |
| `PA` | a super admin, a delegate and a user; three requests, two at a time, one failure; six rules in and out of the delegated part, two of them refused | `TypeOK`, `RequestsChecked`, `PatternsWithinSoa`, `ListingMatchesRights`, `ChainsReachTheSoa`, `DelegatedReach`, `DeletedRulesStayDeleted` | 0.6 M |
| `RA` | two users, two overlapping requests, one failure, one tick of the clock, a token that may write and a read-only one, a name with both types of address | `TypeOK`, `CredentialsHold`, `UpsertsReplace`, `ChangesAreWarranted`, `TokenChangesAreWarranted`, `OthersUntouched` | 1.4 M |
| `UP` | two IPv4 addresses and one IPv6 address, any configuration, any records, three failures or restarts, two edits | `TypeOK`, `LookupHolds`, `NeverEmptyWithoutFault`, `AddressIsPublished`, `SoleAddressStays` | 10 k |

The instance of the `ZS_` runs is the SOA zone `p`, a base zone `a.p`, a subzone `x.a.p` (or
without `p`), users `ann`, `bob` and, where a third makes a difference, `cay`. Three levels
are enough for every relation the code distinguishes: SOA, intermediate and user zone;
parent, zone and subzone. In `ZS_v_subtree` the SOA zone is a base zone, too, so that two
subzones may be stored below a zone. `DeepBase`, part of `OwnedTop`, makes a creation ensure
two intermediate zones. `OwnedTop`, the rules of `ZS_alone`, ends with a rule whose filter is
`*`, so that creations and joins by token are granted, under another definition than a session of
`ann` has.

- `ZS_alone` says that the handlers fit together: whatever order of requests, the
  owners in the table are the users with working keys, and no handler fails over what
  another has left. The state space is finite although requests are unbounded, since
  everything but the stores and one request is forgotten.
- `ZS_grants` says that sharing reaches a subzone even if a subzone is created while
  an owner is added. It needs the order of the code: a creation inserts its row before
  it reads the parent's owners, a grant inserts its row before it lists the subzones, so
  one of the two sees the other. `SubtreeInv` says so at every step. With a
  further level of subzones that is not enough (`ZS_v_subtree`, below).
- `ZS_policy`: two requests are the least that make a check stale; one failure the
  least that leaves a handler half done. Initial tables stand for the requests that ran
  before. `KeysFollowPolicy` covers what `OwnershipFollowsPolicy` does not see: a rotation
  that works on an old list of owners, and metadata written back from an old copy.
- `ZS_retry`: a failure leaves the stores apart and later requests, the repeated one
  first, run into that. Two failures are the least for a retry that fails as well. What is
  answered with success is true all the same, because `CourseInv` never relies on the state
  an earlier request should have left. Not promised, and
  not so: that every failure can be repaired by repeating the request (below).
  `OffersAreHonoured` compares `getZones` with the checks of the operations.
- `PA`: three requests are the least for one that changes the ground under two others. The
  rules lie in and out of the delegated part under either SOA, one is spelled in another
  case. `DelegatedReach` says that a delegate changes nobody's rights on zones outside what
  was ever delegated to them. It excepts a rule that another request moved between the
  delegate's check and write (`Overtaken`): the code checks the one and overwrites the
  other.
- `RA`: two requests suffice for two upserts to interleave or for a token to be deleted or
  to expire under a request that uses it. One tick of the clock is the time a token of
  either lifetime is told apart by.
- `UP`: the own address is IPv4 or IPv6; two addresses of one type give a stale record beside
  the right one. Three failures reach every step of a round, in one round or several.

Bounds: `MaxRequests`, `MaxFaults`, `MaxTime`, `MaxTokens`, `MaxRules`, `MaxDelegations`,
`MaxEdits`; 0 requests means any number in `ZoneService`. Where a run's requests or edits are
bounded, or its task may be off, the system may come to rest and the run says `CHECK_DEADLOCK
FALSE`; `ZS_alone`, `ZS_grants`, `ZS_retry` and `ZS_v_join` check deadlock. Runs with several
requests at a time, but for the one with a liveness property, use the symmetry of
the goroutines.

Fairness in `ZS_finish` is weak fairness of each request's own steps: the Go scheduler runs
every goroutine, and a call to a store returns. The latter is an assumption: the PowerDNS
client sets no timeout of its own, and a request on a server that never answers waits
for its client to give up. In `UP` it is weak fairness of the task, which is a loop of calls
with a timeout and a sleep. Neither clients, failures, restarts nor edits are fair; they
are finite in number because of the bounds, which is what "once that stops" means
in `AddressIsPublished`.

### Where the code and its comments disagree

Each of these runs checks one statement of a comment, and TLC finds a behaviour of the
code that contradicts it. `PROJECT.json` quotes the comments.

| run | behaviour |
|---|---|
| `ZS_v_last_owner` | two removals count two owners each, then both delete: a zone without an owner |
| `ZS_v_join` | a join fails after its row; the repeated join answers "already a member" and gives no key |
| `ZS_v_subtree` | `bob` joins `p` and lists the subzones, `a.p` alone; before he is an owner of that, `ann` creates `x.a.p`, which inherits the owners of `a.p`: `bob` owns `p` and `a.p`, not `x.a.p` |
| `PA_v_soa` | the pattern `%u.site` is accepted under the SOA `a.site`, and gives `ann` the zone `ann.site` |

The drafts of `PA` leave the last case out, so that `PatternsWithinSoa` shows that it is the
only way.

The models have further behaviours that differ from what a comment or a reader may expect.
No run is kept for them:

- by API token a user may create or join a zone that their session may not, and the other way
  round: a token meets only the rules with the filter `*`, also where an earlier rule of the
  user for the same zone denies subzones or sharing;
- one of two owners can delete a shared zone, though `routes_zones.go:499` says such zones are
  protected;
- an owner removed from a subzone alone keeps the shared zone above it, though
  `zone_sharing.go:9` says who owns a shared zone owns all below;
- a user who creates a zone above somebody else's subzone does not own that subzone
  (`zone_sharing.go:9`): `inheritOwnersFromParent` looks up only;
- two overlapping creations of an unshared zone both succeed (`zone_sharing.go:148`: one owner);
- a zone is deleted from above another user's subzone (`app_logic.go:291`);
- an orphan is removed when its first owner has no policy, even if the second has one
  (`routes_delegation.go:192`);
- two overlapping additions to a metadata list lose one entry (`powerdns_client.go:363`);
- a rotation that overlaps a removal gives the removed owner a working key (`app_logic.go:456`);
- a removal that fails after its row leaves the key working, and repeated it answers 404;
- a deletion that fails between PowerDNS and the table leaves a zone that cannot be deleted
  until somebody creates it in PowerDNS again;
- the deletion or replacement of an A record takes the AAAA record of the name along, though
  `helper/dns_update.go:65` speaks of A records: the record to remove has type ANY;
- an upsert whose addition is refused, for instance for a value that is no address,
  has deleted the old record;
- a base zone created after a zone below it (it was an intermediate zone then) is deleted and
  created again by `CreateUserZone`, and the delegation of the lower zone goes with it.
  `CreationDelegates` is therefore a property of the moment a creation ends.

## 8. What is proved

Theorems hold for all values of the constants that satisfy the assumptions: any
number of users, zones, rules, requests at a time, failures and crashes.
`PROJECT.json` lists them with the properties they state. Each invariant was first
given to TLC.

**Ownership** (`ZoneServiceProofs`). `TypeCorrect` and `OwnershipCorrect`, that is `Spec =>
[]OwnershipFollowsPolicy`: nobody owns a zone `z` unless the policy entitles somebody to
`z`, and entitles them to, or lets somebody share, `z` or a zone above it. Entitled is who
the policy gives the zone by their own address or, as they may come with an API token, by the
empty one (`Entitled`).
It is not inductive: a request inserts a row long after its check, so a state in which a
request holds an unchecked pair would lead out of it. The inductive invariant is
`PolicyInv`, which adds `RequestsVetted`: from the check of its operation on, the policy
reaches every pair a request may yet insert (`PairsVetted`), and the parent a creation
looks at lies above the new zone and was found shareable or owned (`ParentVetted`).
The check of each operation establishes this: the caller's own definition, a sharing
definition among those that govern a zone, or one that allows subdomains above it.
Whatever is read later (subzones, parent's owners) is reached by transitivity of `Below`:
sharing covers the subtree. And no step of another request can undo it, because what is
vetted depends on the policy and not on the stores. This is why the invariant survives
stale reads, and why the rules being constant matters.

**Keys** (`ZoneKeyProofs`). `KeysCorrect`: `KeysFollowPolicy`, by `KeyInv` on top of
`PolicyInv`. `KeysVetted` says of each request that the owners and the metadata list it
has read name nobody beyond the policy, so that writing them back, however late,
brings nobody in.

**Requests one at a time** (`ZoneOwnershipProofs`). Under the hypothesis that there is
one process, `OwnershipImplemented` is the refinement: each step of `ZoneService` is a
step of `ZoneOwnership` or leaves the owners alone. `LastOwnerProtected` is
`LastOwnerStays`. Both rest on `AloneInv`: an owner has one row, and a request about
to insert or delete a row is right about the rows it looked at (`RowChecked`). The
hypothesis is needed, as `ZS_v_last_owner` shows; failures and crashes are not excluded.

**Requests one at a time: agreement** (`ZoneAgreementProofs`). `CourseInvariant` holds
whatever calls fail, and needs nothing but that there is one process. From it follow
`AnswersCorrect` (`AnswersAreTrue`), `RemovalsRevoke` and `CreationsDelegate`. The last has
a hypothesis: no zone lies above one that a rule makes its own SOA. Above such a zone the
code delegates nothing, by intention, as the SOA is where the server's authority is to
begin. `AgreeInvariant` says `[]AgreeInv`, which restricts itself to states before the first
failure (`faults = 0`); after one, the stores do come apart, and section 7 lists how. From
it follow `NoFailureAlone` (`AloneNeverFails`, which has its own restriction to one process)
and, with `MaxFaults = 0`, `OwnersHoldTheirKeys`. Neither property is inductive: both speak
of what holds between or at the end of requests, so the invariants have to say for each
label how far row, key object and metadata are apart. `AgreeInv` rests on `AloneInv`, since
a second row of an owner would outlive the key, and on `CourseInv`, since the next call of a
loop relies on the pair before being done.

**Subtrees** (`ZoneAgreementProofs`). `SubtreeShared`: owners of a zone own every stored
zone below it, at any depth, whenever nothing is in flight. `SubtreeInvariant` says the same
of every step: `[]SubtreeInv`. Each hypothesis excludes behaviours that break it:

- one process: `ZS_v_subtree`;
- no failures: a grant that fails halfway leaves the rest of the subtree without the owner;
- no removals: an owner may be removed from a subzone alone;
- every rule shares (`RulesShare`): a creation inherits nothing from a parent that is not shared;
- a token gives nobody a zone that their session does not (`TokensGiveNoMore`): the sharing of
  a zone is looked up by its owners' addresses, so one created by token may count as not shared;
- `CreatesAboveOwn`, a premise on the behaviour: creations do not look down;
- initial tables that keep the rule (`TablesShareSubtrees`);
- finitely many zones, without which a zone need not have a closest zone above it.

But for the first, `ZS_grants` is an instance that satisfies them. Deletions, orphan removals
and rotations are not excluded. The inductive invariant is
`SubtreeInv`. That `OwnedBelow` is preserved by the row of a creation is its heart: the new
zone's owners are to be those of its closest stored parent, and every owner of a zone
further up is among those, because the parent is below it (`ClosestExists`, the ordering of
the zones above one). The parent must then be found shareable, which the code derives from
the owners of the moment: a zone whose owners have no definition for it counts as not
shared. Hence `Represented` and `Warranted`: a stored zone, or one above it, always has an
owner whom the policy entitles to it, and that owner is by then an owner of the parent.

**Administration** (`PolicyAdminProofs`, `DnsNamesProofs`). The inductive invariant is
`AdminInv`: `TypeOK` (only validated rules and delegations are stored, under ids given out),
`Remembered` (the history of delegations has those there are) and `RequestsChecked` (what a
request has been found entitled to when it writes). From it follow `RulesStayDeleted`,
`ListingCorrect` and `ChainsCorrect`; the latter from `AuthoritativeZonesBetween`, a fact
about `getAuthoritativeZones` for all names. `PatternsConfined` and `DelegatesStayInReach`
have the hypothesis `NoSoaHasProbe`, that no label of an SOA is the one the validation
tries: `PA_v_soa` shows that `PatternsWithinSoa` fails otherwise, and
`ValidPatternsStayWithinSoa` that it fails in no other way. `DelegatedReach` compares the
policy before and after a write. A rule that is replaced may have hidden a later rule for
the same zone, so it is not enough that the rules written are in the delegate's part. The
argument (`GivesStays`): the rules by which a user has a zone outside that part have zones
outside of it, too, and neither the old nor the new rule, whose zones are inside, can hide
one of those. That zones inside give zones inside is `ScopeTransitive`.
`SubdomainsAreOrdered` proves of `isSubdomainOf` what `ZonePolicy` assumes of `Below`
(`BelowAssumption`), for names that do not differ in case only.

**Tokens and records** (`RecordApiProofs`). `RequestInv`: `TypeOK`, `TokensDistinct` (an id
names one token, ever) and `CredentialsHold` (the credentials could write when the request
came, its user was among the owners or is in `left`, and the tokens a listing is about to
delete are still the expired ones). From it `ChangesWarranted`, `TokenChangesWarranted` and
`OthersAreUntouched`. `UpsertsCorrect` counts: the addresses of one type at a name plus the
upserts between their two updates never exceed the processes plus the lost answers
(`UpsertInv`, with the cardinality theorems of the library).

**Upstream updater** (`UpstreamUpdateProofs`). `RoundInv`: `LookupHolds` (what the task found
is so until it acts on it, or somebody edited) and `NeverEmptyWithoutFault`. From it
`NeverEmptyCorrect` and `SoleAddressProtected`.

### Assumptions

- On the shapes of the constants: `BelowAssumption`, `RulesAssumption`,
  `ServiceAssumption`, `NoEmailAssumption`, `AdminAssumption` and those of `ApiTokens`, `RecordApi` and
  `UpstreamUpdate` (which has finitely many addresses).
- On what a behaviour starts from, which the empty stores satisfy: `TablesFollowPolicy`
  and `TablesListOnce` (initial tables keep to the policy and list an owner once),
  `StoredBefore` (initial rules and delegations were validated), `StartsReplaced`
  (a name starts with at most one address of a type per process). Tables written before,
  under other rules, need not satisfy the first.

TLC evaluates each of them on the instances.

The further hypotheses (`Procs = {p}`, `MaxFaults = 0`, `RulesShare`, `TokensGiveNoMore`, `TablesShareSubtrees`,
`CreatesAboveOwn`, `NoSoaHasProbe` and that on SOA zones) are part of the theorems that need them.

### Only model-checked

- `RequestsFinish` and `AddressIsPublished`: liveness, which the prover does not handle
  under fairness.
- `OffersAreHonoured`: it holds under the rules of the instance, not under all. Where the
  definitions of two owners of one zone disagree on sharing or on subzones, the listing may choose
  the one and the operation the other (the hazard at `storage.go:228`).
- `SubtreeOwnership` for overlapping requests with one level of subzones (`ZS_grants`): it relates
  what two grants in flight have read.

The modules declare no `RECURSIVE` operator, and no property needs induction over data.

## 9. What could follow

- `SubtreeOwnership` for overlapping grants on one level: `ZS_grants` says that `SubtreeInv` is
  the invariant for it; the proof has to do without `AloneInv` and `AgreeInv`, on which
  `SubtreeInvariant` rests.
- `OffersAreHonoured` for all rules: first the weakest condition on the rules under which
  it holds.

## 10. Not modelled

- Reconciliation (`reconcile.go`): nothing calls it. A model would describe a program that
  never runs.
- The characters of names (`DnsValidateName`, `DnsMakeCompliant`), user filters and e-mail
  addresses: functions of strings without state, met in the models as the label of a user,
  the set of users a filter matches, and one bit for a well-formed request.
- OIDC: the verification of a session's token by a library; a session is a user.
- Start-up and configuration, the JavaScript rule seed, static pages, templates, key
  generation, packaging and the test harness: they run once or keep no state.
- The AXFR metadata list, the admin key and the default records in PowerDNS (section 3).
