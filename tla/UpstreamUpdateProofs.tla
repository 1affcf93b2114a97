-------------------------- MODULE UpstreamUpdateProofs ------------------------
(***************************************************************************)
(* Theorems about UpstreamUpdate: the safety of its rounds, for every set  *)
(* of addresses and whatever number of answers is lost, restarts happen    *)
(* and edits are made.                                                     *)
(***************************************************************************)
EXTENDS UpstreamUpdate, FiniteSetTheorems, TLAPS

-------------------------------------------------------------------------------
(* Records and addresses *)

LEMMA RecordsOfOneHost ==
  ASSUME TypeOK, NEW r \in records
  PROVE  /\ r.name = Host
         /\ r.value \in Addresses
         /\ r = RecordOf(r.value)
BY DEF TypeOK, RecordOf, Record

LEMMA RecordOfInjective ==
  ASSUME NEW a, NEW b, RecordOf(a) = RecordOf(b)
  PROVE  a = b
<1>1. RecordOf(a).value = a /\ RecordOf(b).value = b
  BY DEF RecordOf, Record
<1>2. QED
  BY <1>1

\* Deleting the A records leaves the host without any record.
LEMMA DeleteALeavesNothing ==
  ASSUME TypeOK
  PROVE  Rfc2136DeleteARecord(records, Host, Apex) = {}
BY RecordsOfOneHost, UpstreamAssumption DEF Rfc2136DeleteARecord, DropName

LEMMA DeleteAAAASubset ==
  Rfc2136DeleteAAAARecord(records, Host, Apex) \subseteq records
BY DEF Rfc2136DeleteAAAARecord, DropType

\* What a query returns is a list of published addresses.
LEMMA AnswersPublished ==
  ASSUME TypeOK, NEW type, NEW s \in SetToSeqs(Published(type))
  PROVE  /\ s \in Seq(Addresses)
         /\ \A i \in DOMAIN s : RecordOf(s[i]) \in records
<1> DEFINE P == Published(type)
<1>1. P \subseteq Addresses /\ \A a \in P : RecordOf(a) \in records
  BY RecordsOfOneHost DEF Published
<1>2. IsFiniteSet(P)
  BY <1>1, UpstreamAssumption, FS_Subset DEF Addresses
<1>3. Cardinality(P) \in Nat
  BY <1>2, FS_CardinalityType
<1>4. s \in [1 .. Cardinality(P) -> P]
  BY DEF SetToSeqs
<1> HIDE DEF P
<1>5. s \in Seq(P)
  BY <1>3, <1>4
<1>6. QED
  BY <1>1, <1>4, <1>5

-------------------------------------------------------------------------------
(* The inductive invariant *)

RoundInv == LookupHolds /\ NeverEmptyWithoutFault

\* Every way a call to the server may end keeps the types.
LEMMA UpdateTyped ==
  ASSUME TypeOK, NEW updated \in SUBSET {RecordOf(a) : a \in Addresses},
         NEW next \in {"dropAAAA", "add", "sleep"}, Update(updated, next)
  PROVE  /\ records' \subseteq {RecordOf(a) : a \in Addresses}
         /\ pc' \in {"dropAAAA", "add", "sleep"}
         /\ faults' \in 0 .. MaxFaults
BY UpstreamAssumption DEF TypeOK, Update, Answered, NotAnswered

LEMMA QueryTyped ==
  ASSUME TypeOK, NEW type, Query(type)
  PROVE  /\ ips' \in Seq(Addresses)
         /\ faults' \in 0 .. MaxFaults
<1> DEFINE A == Addresses
<1>1. ips' \in Seq(A)
  <2>1. ips \in Seq(A)
    BY DEF TypeOK
  <2>2. \A s \in SetToSeqs(Published(type)) : s \in Seq(A)
    BY AnswersPublished
  <2> HIDE DEF A
  <2>3. \A s \in SetToSeqs(Published(type)) : ips \o s \in Seq(A)
    BY <2>1, <2>2
  <2>4. QED
    BY <2>1, <2>3 DEF Query
<1>2. faults' \in 0 .. MaxFaults
  BY UpstreamAssumption DEF Query, TypeOK, Answered, NotAnswered
<1>3. QED
  BY <1>1, <1>2

\* A query adds published addresses to those the lookup has.
LEMMA QueryPublished ==
  ASSUME TypeOK, NEW type, Query(type),
         \A i \in DOMAIN ips : RecordOf(ips[i]) \in records
  PROVE  \A i \in DOMAIN ips' : RecordOf(ips'[i]) \in records'
<1>1. records' = records
  BY DEF Query
<1>2. CASE ips' = ips
  BY <1>1, <1>2
<1>3. ASSUME NEW s \in SetToSeqs(Published(type)), ips' = ips \o s
      PROVE  \A i \in DOMAIN ips' : RecordOf(ips'[i]) \in records'
  <2>1. ips \in Seq(Addresses) /\ s \in Seq(Addresses)
    BY AnswersPublished DEF TypeOK
  <2>2. \A i \in DOMAIN s : RecordOf(s[i]) \in records
    BY AnswersPublished
  <2>3. TAKE i \in DOMAIN ips'
  <2>4. \/ i \in DOMAIN ips /\ ips'[i] = ips[i]
        \/ i - Len(ips) \in DOMAIN s /\ ips'[i] = s[i - Len(ips)]
    BY <1>3, <2>1
  <2>5. QED
    BY <1>1, <2>2, <2>4
<1>4. QED
  BY <1>2, <1>3 DEF Query

LEMMA AfterLookupType ==
  ASSUME NEW found
  PROVE  AfterLookup(found) \in {"add", "sleep", "dropA"}
BY DEF AfterLookup

-------------------------------------------------------------------------------
(* Theorems *)

\* The task, the records and the lookup keep their shape: nothing but records of
\* the host is ever published, and of the type that fits the address.
THEOREM TypeCorrect == Spec => []TypeOK
<1>1. Init => TypeOK
  <2>1. ips = <<>> => ips \in Seq(Addresses)
    OBVIOUS
  <2>2. RunPeriodicUpstreamDnsUpdateCheck(config) \in {"off", "queryA"}
    BY DEF RunPeriodicUpstreamDnsUpdateCheck
  <2>3. 0 \in 0 .. MaxFaults /\ 0 \in 0 .. MaxEdits
    BY UpstreamAssumption
  <2>4. QED
    BY <2>1, <2>2, <2>3 DEF Init, TypeOK
<1>2. TypeOK /\ [Next]_vars => TypeOK'
  <2> SUFFICES ASSUME TypeOK, [Next]_vars
               PROVE  TypeOK'
    OBVIOUS
  <2> USE UpstreamAssumption
  <2>1. CASE QueryA
    BY <2>1, QueryTyped DEF QueryA, Query, TypeOK
  <2>2. CASE QueryAAAA
    BY <2>2, QueryTyped, AfterLookupType DEF QueryAAAA, Query, TypeOK
  <2>3. CASE DropA
    <3>1. Rfc2136DeleteARecord(records, Host, Apex)
            \in SUBSET {RecordOf(a) : a \in Addresses}
      BY DeleteALeavesNothing
    <3>2. QED
      BY <2>3, <3>1, UpdateTyped DEF DropA, TypeOK
  <2>4. CASE DropAAAA
    <3>1. Rfc2136DeleteAAAARecord(records, Host, Apex)
            \in SUBSET {RecordOf(a) : a \in Addresses}
      BY DeleteAAAASubset DEF TypeOK
    <3>2. QED
      BY <2>4, <3>1, UpdateTyped DEF DropAAAA, TypeOK
  <2>5. CASE AddRecord
    <3>1. Own \in Addresses
      BY DEF TypeOK, Config, Own
    <3>2. Rfc2136Add(records, Host, TypeOf(Own), Own)
            \in SUBSET {RecordOf(a) : a \in Addresses}
      BY <3>1 DEF TypeOK, Rfc2136Add, RecordOf
    <3>3. QED
      BY <2>5, <3>2, UpdateTyped DEF AddRecord, TypeOK
  <2>6. CASE Sleep
    BY <2>6 DEF Sleep, TypeOK
  <2>7. CASE Restart
    BY <2>7 DEF Restart, NotAnswered, TypeOK, RunPeriodicUpstreamDnsUpdateCheck
  <2>8. CASE Edit
    BY <2>8 DEF Edit, TypeOK
  <2>9. CASE UNCHANGED vars
    BY <2>9 DEF vars, TypeOK
  <2>10. QED
    BY <2>1, <2>2, <2>3, <2>4, <2>5, <2>6, <2>7, <2>8, <2>9 DEF Next, Task
<1>3. QED
  BY <1>1, <1>2, PTL DEF Spec

\* What a round concludes from its lookup holds until it acts on it, and the two
\* ends of a round follow from that.
THEOREM RoundInvariant == Spec => []RoundInv
<1>1. Init => RoundInv
  BY DEF Init, RoundInv, LookupHolds, NeverEmptyWithoutFault,
         RunPeriodicUpstreamDnsUpdateCheck
<1>2. TypeOK /\ RoundInv /\ [Next]_vars => RoundInv'
  <2> SUFFICES ASSUME TypeOK, RoundInv, [Next]_vars
               PROVE  RoundInv'
    OBVIOUS
  <2> USE DEF RoundInv
  <2>1. CASE QueryA
    <3>1. \A i \in DOMAIN ips : RecordOf(ips[i]) \in records
      BY <2>1 DEF QueryA, LookupHolds
    <3>2. \A i \in DOMAIN ips' : RecordOf(ips'[i]) \in records'
      BY <2>1, <3>1, QueryPublished DEF QueryA
    <3>3. QED
      BY <2>1, <3>2 DEF QueryA, LookupHolds, NeverEmptyWithoutFault
  <2>2. CASE QueryAAAA
    <3>1. ~edited' => \A i \in DOMAIN ips' : RecordOf(ips'[i]) \in records'
      BY <2>2, QueryPublished DEF QueryAAAA, LookupHolds
    <3>2. ips' \in Seq(Addresses)
      BY <2>2, QueryTyped DEF QueryAAAA
    <3>3. pc' # "add" => ips' # <<>> /\ 1 \in DOMAIN ips'
      BY <2>2, <3>2 DEF QueryAAAA, AfterLookup
    <3>4. pc' = "dropA" => ips'[1] # Own'
      BY <2>2 DEF QueryAAAA, Query, AfterLookup, Own
    <3>5. pc' \in {"add", "sleep", "dropA"}
      BY <2>2, AfterLookupType DEF QueryAAAA
    <3>6. QED
      BY <3>1, <3>3, <3>4, <3>5 DEF LookupHolds, NeverEmptyWithoutFault
  <2>3. CASE DropA
    BY <2>3, DeleteALeavesNothing, UpstreamAssumption
    DEF DropA, Update, Answered, NotAnswered, TypeOK, LookupHolds,
        NeverEmptyWithoutFault
  <2>4. CASE DropAAAA
    BY <2>4, UpstreamAssumption
    DEF DropAAAA, Update, Answered, NotAnswered, TypeOK, LookupHolds,
        NeverEmptyWithoutFault
  <2>5. CASE AddRecord
    BY <2>5, UpstreamAssumption
    DEF AddRecord, Update, Answered, NotAnswered, TypeOK, LookupHolds,
        NeverEmptyWithoutFault, Rfc2136Add
  <2>6. CASE Sleep
    BY <2>6 DEF Sleep, LookupHolds, NeverEmptyWithoutFault
  <2>7. CASE Restart
    BY <2>7 DEF Restart, LookupHolds, NeverEmptyWithoutFault,
                RunPeriodicUpstreamDnsUpdateCheck
  <2>8. CASE Edit
    BY <2>8 DEF Edit, LookupHolds, NeverEmptyWithoutFault, Own
  <2>9. CASE UNCHANGED vars
    BY <2>9 DEF vars, LookupHolds, NeverEmptyWithoutFault, Own
  <2>10. QED
    BY <2>1, <2>2, <2>3, <2>4, <2>5, <2>6, <2>7, <2>8, <2>9 DEF Next, Task
<1>3. QED
  BY <1>1, <1>2, TypeCorrect, PTL DEF Spec

\* What a lookup found stays true up to the step that acts on it, unless somebody
\* else edits the records.
THEOREM LookupCorrect == Spec => []LookupHolds
<1>1. RoundInv => LookupHolds
  BY DEF RoundInv
<1>2. QED
  BY <1>1, RoundInvariant, PTL

\* A round that removes the old address ends without the new one only if an answer
\* was lost or somebody else edited the records in the meantime.
THEOREM NeverEmptyCorrect == Spec => []NeverEmptyWithoutFault
<1>1. RoundInv => NeverEmptyWithoutFault
  BY DEF RoundInv
<1>2. QED
  BY <1>1, RoundInvariant, PTL

\* A round that works on what it just saw never takes down an address that was
\* published alone, even when its queries or updates fail.
THEOREM SoleAddressProtected == Spec => SoleAddressStays
<1>1. TypeOK /\ RoundInv /\ [Next]_vars =>
        [/\ records = {RecordOf(Own)}
         /\ ~edited
         /\ edits' = edits
         => records' = records]_vars
  <2> SUFFICES ASSUME TypeOK, RoundInv, Next, records = {RecordOf(Own)},
                      ~edited, edits' = edits
               PROVE  records' = records
    OBVIOUS
  <2>1. CASE DropA
    <3>1. ips # <<>> /\ ips[1] # Own /\ ips \in Seq(Addresses)
      BY <2>1 DEF DropA, RoundInv, LookupHolds, TypeOK
    <3>2. RecordOf(ips[1]) \in records
      BY <2>1, <3>1 DEF DropA, RoundInv, LookupHolds
    <3>3. QED
      BY <3>1, <3>2, RecordOfInjective
  <2>2. CASE DropAAAA
    BY <2>2 DEF DropAAAA, RoundInv, LookupHolds
  <2>3. CASE AddRecord
    BY <2>3 DEF AddRecord, Update, Rfc2136Add, RecordOf
  <2>4. CASE Edit
    BY <2>4, UpstreamAssumption DEF Edit, TypeOK
  <2>5. QED
    BY <2>1, <2>2, <2>3, <2>4
    DEF Next, Task, QueryA, QueryAAAA, Query, Sleep, Restart
<1>2. QED
  BY <1>1, TypeCorrect, RoundInvariant, PTL DEF Spec, SoleAddressStays

===============================================================================
