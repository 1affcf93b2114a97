------------------------------- MODULE RecordApi ------------------------------
(***************************************************************************)
(* Requests for the DNS records of one zone and for API tokens, from the   *)
(* authentication (src/internal/authentication.go) to the last update.     *)
(* Every request runs in a goroutine of its own; one step is one call to   *)
(* the database or to the DNS server, with the computation up to the next  *)
(* one.  Meanwhile the clock runs, tokens are deleted and owners leave.    *)
(***************************************************************************)
EXTENDS FiniteSets, ApiTokens, RecordUpdates

CONSTANTS
  Procs,        \* concurrent requests
  Ops,          \* the operations the clients use
  Apex,         \* the zone
  InZone,       \* the names that belong to it
  Values,       \* addresses that parse
  Bodies,       \* the record requests the clients send
  InitRecords,  \* what the zone may hold at the start
  MaxRequests,  \* bound on the requests received
  MaxFaults     \* bound on failed calls

ReadOps  == {"list", "listTokens"}   \* GET requests
WriteOps == {"create", "delete", "createToken", "deleteToken"}

\* A record request: the record, whose TSIG key it presents, and whether the zone
\* is spelled without the space that requireZoneOwner trims and the update keeps.
\* A relative name stands for its absolute form (canonicalRecordName).
BodyType(b) ==
  /\ DOMAIN b = {"name", "type", "value", "key", "trimmed"}
  /\ b.key \in Users
  /\ b.trimmed \in BOOLEAN

ASSUME RecordApiAssumption ==
  /\ Ops \subseteq ReadOps \cup WriteOps
  /\ \A b \in Bodies : BodyType(b)
  /\ MaxRequests \in Nat
  /\ MaxFaults \in Nat

VARIABLES
  owners,   \* the owners the zone table has
  keys,     \* the users whose key the DNS server accepts for the zone
  records,  \* the records of the zone
  req,      \* the request each process is handling, and how far it got
  left,     \* per process, its caller if they lost the zone meanwhile (history)
  started, faults

zoneVars == <<owners, keys>>
budget   == <<started, faults>>
vars     == <<tokens, issued, now, owners, keys, records, req, left, started, faults>>

Session == {}

NoBody ==
  [name |-> "", type |-> "", value |-> "", key |-> "", trimmed |-> TRUE]

\* What a request knows: who calls, by a session or {token}, and when the token was
\* shown; the record in question; a token's id or restriction; the tokens left to
\* clean up.
Request(op, user, cred, body, id, readOnly, pc) ==
  [op |-> op, user |-> user, cred |-> cred,
   since |-> IF cred = Session THEN 0 ELSE now,
   body |-> body, id |-> id, readOnly |-> readOnly, todo |-> {}, pc |-> pc]

Idle == [pc |-> "idle"]

Replied == {"ok", "refused", "failed"}   \* 2xx, 4xx, 5xx

Free(p)    == req[p].pc \in Replied \cup {"idle"}
At(p, pc)  == req[p].pc = pc

\* A finished request is forgotten but for its answer.
Goto(p, pc) ==
  req' = [req EXCEPT ![p] = IF pc \in Replied THEN [pc |-> pc] ELSE [@ EXCEPT !.pc = pc]]

Fault ==
  /\ faults < MaxFaults
  /\ faults' = faults + 1
  /\ UNCHANGED started

NoFault == UNCHANGED budget

-------------------------------------------------------------------------------
(* Authentication *)

\* Mutated: lets a read-only token do anything.
AllowsAll(t, op) == TRUE

\* A read-only token serves GET requests only.
Allows(t, op) == op \in ReadOps \/ ~t.readOnly

First(op) ==
  CASE op \in {"list", "create", "delete"} -> "owner"
    [] op = "listTokens"                   -> "tokens"
    [] op = "createToken"                  -> "newToken"
    [] op = "deleteToken"                  -> "oldToken"

\* A list names no record, and trims the zone for good.
BodiesOf(op) ==
  CASE op \in {"create", "delete"} -> Bodies
    [] op = "list" -> {[NoBody EXCEPT !.key = b.key] : b \in Bodies}
    [] OTHER       -> {NoBody}

IdsOf(op)      == IF op = "deleteToken" THEN 1 .. MaxTokens ELSE {0}
ReadOnlyOf(op) == IF op = "createToken" THEN BOOLEAN ELSE {FALSE}

Receive(p) ==
  /\ Free(p)
  /\ started < MaxRequests
  /\ started' = started + 1
  /\ left' = [left EXCEPT ![p] = {}]
  /\ UNCHANGED <<tokens, issued, now, owners, keys, records, faults>>

Accept(p, user, cred, op) ==
  \E body \in BodiesOf(op), id \in IdsOf(op), readOnly \in ReadOnlyOf(op) :
    req' = [req EXCEPT ![p] =
      Request(op, user, cred, body, id, readOnly, First(op))]

\* The browser: an OIDC token, checked without a store.
ReceiveSession(p) ==
  /\ Receive(p)
  /\ \E op \in Ops, user \in Users : Accept(p, user, Session, op)

\* A script: the token is looked up as the request arrives.
ReceiveToken(p) ==
  /\ Receive(p)
  /\ \E op \in Ops, id \in 1 .. MaxTokens :
       \/ \E t \in GetToken(id) :
            /\ Allows(t, op)
            /\ Accept(p, t.user, {t}, op)
       \/ /\ \A t \in GetToken(id) : ~Allows(t, op)
          /\ req' = [req EXCEPT ![p] = [pc |-> "refused"]]

TokenLookupFails(p) ==
  /\ Free(p)
  /\ started < MaxRequests
  /\ started' = started + 1
  /\ faults < MaxFaults
  /\ faults' = faults + 1
  /\ req' = [req EXCEPT ![p] = [pc |-> "failed"]]
  /\ UNCHANGED <<tokens, issued, now, owners, keys, records, left>>

-------------------------------------------------------------------------------
(* The record requests (src/internal/routes_dns_client.go) *)

\* Mutated: relays whatever request has a key.
RelayForAll(p) ==
  /\ At(p, "owner")
  /\ NoFault
  /\ Goto(p, IF req[p].op = "list" THEN "transfer" ELSE "drop")
  /\ UNCHANGED <<tokens, issued, now, owners, keys, records, left>>

Supported == {"A", "AAAA"}

\* requireZoneOwner, and the switch over the type.
RequireZoneOwner(p) ==
  LET r == req[p]
  IN  /\ At(p, "owner")
      /\ \/ /\ NoFault
            /\ Goto(p, IF r.user \notin owners THEN "refused"
                       ELSE IF r.op = "list" THEN "transfer"
                       ELSE IF r.body.type \in Supported THEN "drop"
                       ELSE "refused")
         \/ Fault /\ Goto(p, "failed")
      /\ UNCHANGED <<tokens, issued, now, owners, keys, records, left>>

\* What the server accepts: a key of the zone, a zone it knows, a name in it.
Accepts(b) == b.key \in keys /\ b.trimmed /\ b.name \in InZone

\* sendDNSUpdate: applied and answered; refused; or failed with the answer lost.
Send(p, accepted, updated, good, bad) ==
  \/ accepted /\ NoFault /\ records' = updated /\ Goto(p, good)
  \/ ~accepted /\ NoFault /\ UNCHANGED records /\ Goto(p, bad)
  \/ Fault /\ records' \in {records} \cup {s \in {updated} : accepted} /\ Goto(p, bad)

\* Mutated: deletes every type whatever the type.
CleanName(b) == DropName(records, b.name, Apex)

\* Mutated: an upsert that only adds.
CleanNothing(b) == records

Cleaned(b) ==
  IF b.type = "A" THEN Rfc2136DeleteARecord(records, b.name, Apex)
                  ELSE Rfc2136DeleteAAAARecord(records, b.name, Apex)

\* The first half of an upsert, whose failure is ignored, or a whole delete.
Drop(p) ==
  LET r == req[p]
  IN  /\ At(p, "drop")
      /\ Send(p, Accepts(r.body), Cleaned(r.body),
              IF r.op = "create" THEN "add" ELSE "ok",
              IF r.op = "create" THEN "add" ELSE "failed")
      /\ UNCHANGED <<tokens, issued, now, owners, keys, left>>

\* The second half of an upsert; the server refuses a value that is no address.
Add(p) ==
  LET b == req[p].body
  IN  /\ At(p, "add")
      /\ Send(p, Accepts(b) /\ b.value \in Values,
              Rfc2136Add(records, b.name, b.type, b.value), "ok", "failed")
      /\ UNCHANGED <<tokens, issued, now, owners, keys, left>>

\* A zone transfer with the caller's key; headers carry the key of the body.
ListRecords(p) ==
  /\ At(p, "transfer")
  /\ \/ NoFault /\ Goto(p, IF req[p].body.key \in keys THEN "ok" ELSE "failed")
     \/ Fault /\ Goto(p, "failed")
  /\ UNCHANGED <<tokens, issued, now, owners, keys, records, left>>

-------------------------------------------------------------------------------
(* The token requests (src/internal/routes_api_tokens.go) *)

\* GetTokens: one query, and then a deletion for every expired token it returned.
ListTokens(p) ==
  /\ At(p, "tokens")
  /\ \/ /\ NoFault
        /\ IF ExpiredTokensOf(req[p].user) = {}
             THEN Goto(p, "ok")
             ELSE req' = [req EXCEPT ![p].todo = ExpiredTokensOf(req[p].user),
                                     ![p].pc = "cleanUp"]
     \/ Fault /\ Goto(p, "failed")
  /\ UNCHANGED <<tokens, issued, now, owners, keys, records, left>>

CleanUp(p) ==
  /\ At(p, "cleanUp")
  /\ \E t \in req[p].todo :
       \/ /\ NoFault
          /\ ExpireToken(t)
          /\ IF req[p].todo = {t} THEN Goto(p, "ok")
             ELSE req' = [req EXCEPT ![p].todo = @ \ {t}]
       \/ Fault /\ UNCHANGED tokens /\ Goto(p, "failed")
  /\ UNCHANGED <<issued, now, owners, keys, records, left>>

\* The expiry is computed from the clock at the insertion.
NewToken(p) ==
  /\ At(p, "newToken")
  /\ \/ NoFault /\ CreateToken(req[p].user, req[p].readOnly) /\ Goto(p, "ok")
     \/ Fault /\ UNCHANGED <<tokens, issued>> /\ Goto(p, "failed")
  /\ UNCHANGED <<now, owners, keys, records, left>>

OldToken(p) ==
  LET r == req[p]
  IN  /\ At(p, "oldToken")
      /\ \/ /\ NoFault
            /\ DeleteToken(r.user, r.id)
            /\ Goto(p, IF Deletable(r.user, r.id) = {} THEN "refused" ELSE "ok")
         \/ Fault /\ UNCHANGED tokens /\ Goto(p, "failed")
      /\ UNCHANGED <<issued, now, owners, keys, records, left>>

-------------------------------------------------------------------------------
(* The environment: zone requests take a user out, first the row, then the key. *)

LoseRow(u) ==
  /\ u \in owners
  /\ owners' = owners \ {u}
  /\ left' = [p \in Procs |->
       IF ~Free(p) /\ req[p].user = u THEN {u} ELSE left[p]]
  /\ UNCHANGED <<tokens, issued, now, keys, records, req, started, faults>>

LoseKey(u) ==
  /\ u \in keys \ owners
  /\ keys' = keys \ {u}
  /\ UNCHANGED <<tokens, issued, now, owners, records, req, left, started, faults>>

Clock == Tick /\ UNCHANGED <<owners, keys, records, req, left, started, faults>>

Init ==
  /\ TokensInit
  /\ owners = Users
  /\ keys = Users
  /\ records \in InitRecords
  /\ req = [p \in Procs |-> Idle]
  /\ left = [p \in Procs |-> {}]
  /\ started = 0
  /\ faults = 0

Handle(p) ==
  \/ ReceiveSession(p) \/ ReceiveToken(p) \/ TokenLookupFails(p)
  \/ RequireZoneOwner(p) \/ Drop(p) \/ Add(p) \/ ListRecords(p)
  \/ ListTokens(p) \/ CleanUp(p) \/ NewToken(p) \/ OldToken(p)

Next ==
  \/ \E p \in Procs : Handle(p)
  \/ \E u \in Users : LoseRow(u) \/ LoseKey(u)
  \/ Clock

Spec == Init /\ [][Next]_vars

-------------------------------------------------------------------------------
(* Properties *)

\* What is in flight, and where it may be.
LabelsOf(op) ==
  CASE op = "list"        -> {"owner", "transfer"}
    [] op = "create"      -> {"owner", "drop", "add"}
    [] op = "delete"      -> {"owner", "drop"}
    [] op = "listTokens"  -> {"tokens", "cleanUp"}
    [] op = "createToken" -> {"newToken"}
    [] op = "deleteToken" -> {"oldToken"}

Pending ==
  [op : Ops, user : Users, cred : SUBSET Token, since : Nat,
   body : UNION {BodiesOf(op) : op \in Ops}, id : 0 .. MaxTokens,
   readOnly : BOOLEAN, todo : SUBSET Token,
   pc : UNION {LabelsOf(op) : op \in Ops}]

TypeOK ==
  /\ TokensTypeOK
  /\ owners \subseteq keys
  /\ keys \subseteq Users
  /\ started \in 0 .. MaxRequests
  /\ faults \in 0 .. MaxFaults
  /\ req \in [Procs -> [pc : Replied \cup {"idle"}] \cup Pending]
  /\ left \in [Procs -> SUBSET Users]
  /\ \A p \in Procs : ~Free(p) =>
       /\ req[p].pc \in LabelsOf(req[p].op)
       /\ req[p].body \in BodiesOf(req[p].op)
       /\ \A t \in req[p].todo : t.user = req[p].user /\ Expired(t)

\* The request whose step this is.
Acts(p) == req'[p] # req[p]

\* A request that writes came with a session, or with a token that was valid when
\* the request arrived, was not read-only, and was the user's.
MayWrite(r) ==
  \A t \in r.cred : ~t.readOnly /\ t.expires > r.since /\ t.user = r.user

\* A request at its updates of the zone.
Writing(r) == r.pc \in {"drop", "add"}

\* What makes a request in flight safe to go on, whatever happens between its
\* checks and its steps: its credentials could write when it came, it found its
\* user among the owners, and the tokens it is about to delete by their ids are
\* still the ones that had expired.
CredentialsHold ==
  \A p \in Procs : ~Free(p) =>
    LET r == req[p]
    IN  /\ r.op \in WriteOps => MayWrite(r)
        /\ Writing(r) => r.user \in owners \cup left[p] /\ r.body.type \in Supported
        /\ \A t \in r.todo :
             t.id <= issued /\ \A s \in tokens : s.id = t.id => s = t

\* No two tokens share an id, and no new one gets an old one's.
TokensDistinct ==
  \A t \in tokens : t.id <= issued /\ \A s \in tokens : s.id = t.id => s = t

\* The records of the zone change only for somebody who owned it at some time of
\* the request, whose credentials may write, and with a key the zone still accepts:
\* a token that expires, an owner who is removed and a key that is revoked in the
\* middle leave no other way in.
ChangesAreWarranted ==
  [][records' # records =>
       \E p \in Procs :
         /\ Acts(p)
         /\ MayWrite(req[p])
         /\ req[p].user \in owners \cup left[p]
         /\ req[p].body.key \in keys]_vars

\* A token disappears before its time only when its owner deletes it, and appears
\* only when its owner creates it, as restricted as asked for, in each case with
\* credentials that may write: no list cleans up a token that is still good, and
\* no read-only token makes one that is not.
TokenChangesAreWarranted ==
  [][LET Warranted(op, t) ==
           \E p \in Procs :
             Acts(p) /\ req[p].op = op /\ req[p].user = t.user /\ MayWrite(req[p])
               /\ (op = "createToken" => req[p].readOnly = t.readOnly)
     IN  /\ \A t \in tokens \ tokens' : Expired(t) \/ Warranted("deleteToken", t)
         /\ \A t \in tokens' \ tokens : Warranted("createToken", t)]_vars

Touched == (records \ records') \cup (records' \ records)

\* A request leaves the records of other names alone, and the delegation of the
\* zone itself; a request for an AAAA record leaves every other type alone.
OthersUntouched ==
  [][\A r \in Touched :
       /\ r.type # "NS" \/ r.name # Apex
       /\ \E p \in Procs :
            /\ Acts(p)
            /\ r.name = req[p].body.name
            /\ req[p].body.type = "AAAA" => r.type = "AAAA"]_vars

AddressesOf(name, type) == {r \in records : r.name = name /\ r.type = type}

\* Upserts that are half-way and will add an address.
Adding(name, type) ==
  {p \in Procs :
     /\ At(p, "add")
     /\ req[p].body.name = name
     /\ req[p].body.type = type
     /\ Accepts(req[p].body)}

\* The zone starts with no more addresses of a name than requests may overlap.
ASSUME StartsReplaced ==
  /\ IsFiniteSet(Procs)
  /\ \A R \in InitRecords, name \in InZone, type \in Supported :
       LET found == {r \in R : r.name = name /\ r.type = type}
       IN  IsFiniteSet(found) /\ Cardinality(found) <= Cardinality(Procs)

\* An upsert replaces: a name collects no more addresses of a type than upserts
\* overlapped or deletions failed, however many requests there were; and the
\* upserts that are half-way count as the addresses they will add.
UpsertsReplace ==
  \A name \in InZone, type \in Supported :
    Cardinality(AddressesOf(name, type)) + Cardinality(Adding(name, type))
      <= Cardinality(Procs) + faults

===============================================================================
