----------------------------- MODULE MCRecordApi ------------------------------
(* One zone "a.p" with a host and its apex, two users, and a few requests.    *)
EXTENDS RecordApi, TLC

ProcSymmetry == Permutations(Procs)

Users2 == {"ann", "bob"}

Names == {"a.p", "www.a.p"}

Body(name, type, value, key, trimmed) ==
  [name |-> name, type |-> type, value |-> value, key |-> key, trimmed |-> trimmed]

\* Both users change the host; the rest is refused by the service or the server.
SomeBodies ==
  {Body("www.a.p", "A", "v1", "ann", TRUE),
   Body("www.a.p", "A", "v2", "bob", TRUE),
   Body("www.a.p", "AAAA", "w1", "ann", TRUE),
   Body("a.p", "A", "bad", "ann", TRUE),
   Body("www.q", "A", "v1", "ann", TRUE),
   Body("www.a.p", "TXT", "v1", "ann", TRUE),
   Body("www.a.p", "A", "v1", "ann", FALSE)}

\* The delegation, and a host with an address of each type.
SomeRecords ==
  {{Record("a.p", "NS", "ns"),
    Record("www.a.p", "A", "v0"), Record("www.a.p", "AAAA", "w0")}}

\* A token that may write and ends early, and a read-only one.
SomeTokens ==
  {{[id |-> 1, user |-> "ann", readOnly |-> FALSE, expires |-> 1],
    [id |-> 2, user |-> "bob", readOnly |-> TRUE, expires |-> 2]}}

===============================================================================
