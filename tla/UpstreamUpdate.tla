---------------------------- MODULE UpstreamUpdate ----------------------------
(***************************************************************************)
(* The periodic task that publishes the address of this service's DNS      *)
(* server with the upstream DNS server                                     *)
(* (src/internal/upstream_dns_update.go).  One step is one query or update *)
(* sent to the upstream server, with the computation up to the next one.   *)
(* Every answer may be lost, before or after the server applied an update, *)
(* the service may restart, and somebody else may edit the records.        *)
(***************************************************************************)
EXTENDS Naturals, FiniteSets, SequencesExt, RecordUpdates

CONSTANTS
  IPv4, IPv6,  \* the addresses in play
  Host, Apex,  \* the name that is published, and the upstream zone
  MaxFaults,   \* bound on lost answers and restarts together
  MaxEdits     \* bound on edits of the records by others

ASSUME UpstreamAssumption ==
  /\ IPv4 \cap IPv6 = {}
  /\ IsFiniteSet(IPv4 \cup IPv6)
  /\ Host # Apex
  /\ MaxFaults \in Nat
  /\ MaxEdits \in Nat

Addresses == IPv4 \cup IPv6

TypeOf(a) == IF a \in IPv4 THEN "A" ELSE "AAAA"

RecordOf(a) == Record(Host, TypeOf(a), a)

\* Which parts of the configuration are there, and the address to publish.
Config == [tsig : BOOLEAN, address : BOOLEAN, target : BOOLEAN, own : Addresses]

VARIABLES
  config,
  records,  \* what the upstream server holds for the host
  pc,       \* where the task is
  ips,      \* the addresses the lookup returned so far
  edited,   \* whether others edited the records since the lookup began (history)
  faults, edits

vars == <<config, records, pc, ips, edited, faults, edits>>

TypeOK ==
  /\ config \in Config
  /\ records \subseteq {RecordOf(a) : a \in Addresses}
  /\ pc \in {"off", "queryA", "queryAAAA", "dropA", "dropAAAA", "add", "sleep"}
  /\ ips \in Seq(Addresses)
  /\ edited \in BOOLEAN
  /\ faults \in 0 .. MaxFaults
  /\ edits \in 0 .. MaxEdits

Published(type) == {r.value : r \in {s \in records : s.type = type}}

\* Updates are opt-in, and need a valid address and a complete target.
RunPeriodicUpstreamDnsUpdateCheck(c) ==
  IF c.tsig /\ c.address /\ c.target THEN "queryA" ELSE "off"

Init ==
  /\ config \in Config
  /\ records \in SUBSET {RecordOf(a) : a \in Addresses}
  /\ pc = RunPeriodicUpstreamDnsUpdateCheck(config)
  /\ ips = <<>>
  /\ edited = FALSE
  /\ faults = 0
  /\ edits = 0

-------------------------------------------------------------------------------
(* Calls to the upstream server *)

Answered == UNCHANGED faults

NotAnswered ==
  /\ faults < MaxFaults
  /\ faults' = faults + 1

\* The server applies an update and answers, or the answer is lost, in which case
\* it may or may not have applied it.  An error ends the round: it is only logged.
Update(updated, next) ==
  \/ Answered /\ records' = updated /\ pc' = next
  \/ NotAnswered /\ records' \in {records, updated} /\ pc' = "sleep"

-------------------------------------------------------------------------------
(* PerformSingleUpstreamDnsUpdateCheck *)

Own == config.own

\* Mutated: only asks whether there is any address.
AfterAnyAnswer(found) == IF found # <<>> THEN "sleep" ELSE "add"

\* Mutated: replaces the records whatever they are.
AfterEveryLookup(found) == IF found # <<>> THEN "dropA" ELSE "add"

\* Only the first address is compared.
AfterLookup(found) ==
  IF found = <<>> THEN "add"
  ELSE IF found[1] = Own THEN "sleep" ELSE "dropA"

\* PerformALookup hides its errors: a query that fails finds no address.  The
\* server may return the records of a type in any order.
Query(type) ==
  /\ \/ Answered /\ ips' \in {ips \o s : s \in SetToSeqs(Published(type))}
     \/ NotAnswered /\ UNCHANGED ips
  /\ UNCHANGED <<config, records, edits>>

QueryA ==
  /\ pc = "queryA"
  /\ Query("A")
  /\ pc' = "queryAAAA"
  /\ edited' = FALSE

QueryAAAA ==
  /\ pc = "queryAAAA"
  /\ Query("AAAA")
  /\ pc' = AfterLookup(ips')
  /\ UNCHANGED edited

DropA ==
  /\ pc = "dropA"
  /\ Update(Rfc2136DeleteARecord(records, Host, Apex), "dropAAAA")
  /\ UNCHANGED <<config, ips, edited, edits>>

DropAAAA ==
  /\ pc = "dropAAAA"
  /\ Update(Rfc2136DeleteAAAARecord(records, Host, Apex), "add")
  /\ UNCHANGED <<config, ips, edited, edits>>

\* Mutated: gives up the round without publishing.
AddNothing ==
  /\ pc = "add"
  /\ Update(records, "sleep")
  /\ UNCHANGED <<config, ips, edited, edits>>

\* Mutated: forgets that the address may be an IPv6 one.
AddAsA ==
  /\ pc = "add"
  /\ Update(Rfc2136Add(records, Host, "A", Own), "sleep")
  /\ UNCHANGED <<config, ips, edited, edits>>

AddRecord ==
  /\ pc = "add"
  /\ Update(Rfc2136Add(records, Host, TypeOf(Own), Own), "sleep")
  /\ UNCHANGED <<config, ips, edited, edits>>

\* The next round starts a new lookup.
Sleep ==
  /\ pc = "sleep"
  /\ pc' = "queryA"
  /\ ips' = <<>>
  /\ UNCHANGED <<config, records, edited, faults, edits>>

-------------------------------------------------------------------------------
(* The environment *)

Restart ==
  /\ pc # "off"
  /\ NotAnswered
  /\ pc' = RunPeriodicUpstreamDnsUpdateCheck(config)
  /\ ips' = <<>>
  /\ UNCHANGED <<config, records, edited, edits>>

Edit ==
  /\ edits < MaxEdits
  /\ edits' = edits + 1
  /\ records' \in SUBSET {RecordOf(a) : a \in Addresses}
  /\ edited' = TRUE
  /\ UNCHANGED <<config, pc, ips, faults>>

Task == QueryA \/ QueryAAAA \/ DropA \/ DropAAAA \/ AddRecord \/ Sleep

Next == Task \/ Restart \/ Edit

Spec == Init /\ [][Next]_vars /\ WF_vars(Task)

-------------------------------------------------------------------------------
(* Properties *)

\* Whatever the records were, whatever is edited, however many rounds fail in the
\* middle and wherever the service restarts: once that stops, the address of the
\* server is published and stays published.
AddressIsPublished ==
  pc # "off" => <>[](RecordOf(Own) \in records)

\* A round that works on what it just saw never takes down an address that was
\* published alone, even when its queries or updates fail.
SoleAddressStays ==
  [][/\ records = {RecordOf(Own)}
     /\ ~edited
     /\ edits' = edits
     => records' = records]_vars

\* What a round concludes from its lookup stays true up to the step that acts on it,
\* as long as nobody else edits the records: what it found is published, and it
\* replaces only addresses of which one is somebody else's.
LookupHolds ==
  /\ pc \in {"off", "queryA"} => ips = <<>>
  /\ pc \in {"queryAAAA", "dropA"} /\ ~edited =>
       \A i \in DOMAIN ips : RecordOf(ips[i]) \in records
  /\ pc = "dropA" => ips # <<>> /\ ips[1] # Own
  /\ pc = "dropAAAA" /\ ~edited => records = {}

\* A round that removes the old address ends without the new one only if an answer
\* was lost or somebody else edited the records in the meantime.
NeverEmptyWithoutFault ==
  /\ pc = "sleep"
  /\ records = {}
  => faults > 0 \/ edited

===============================================================================
