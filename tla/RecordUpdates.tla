---------------------------- MODULE RecordUpdates -----------------------------
(***************************************************************************)
(* What the dynamic updates this service sends do to the records of a zone *)
(* (src/internal/helper/dns_update.go), as a DNS server applies them.  A   *)
(* set of records is a set of [name, type, value].                         *)
(***************************************************************************)

Record(name, type, value) == [name |-> name, type |-> type, value |-> value]

Rfc2136Add(R, name, type, value) == R \cup {Record(name, type, value)}

\* One record type at one name.
DropType(R, name, type) == {r \in R : r.name # name \/ r.type # type}

\* The whole name; a server keeps the NS records at the apex of a zone.
DropName(R, name, apex) ==
  {r \in R : r.name # name \/ (name = apex /\ r.type = "NS")}

Rfc2136DeleteAAAARecord(R, name, apex) == DropType(R, name, "AAAA")

\* The record to remove is given the type ANY, which names all types of the name.
Rfc2136DeleteARecord(R, name, apex) == DropName(R, name, apex)

===============================================================================
