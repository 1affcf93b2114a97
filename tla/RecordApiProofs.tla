---------------------------- MODULE RecordApiProofs ---------------------------
(***************************************************************************)
(* Theorems about RecordApi: whatever requests overlap, and whatever time, *)
(* owners, keys and other requests do between the steps of one of them,    *)
(* records and tokens change only as the request that changes them may     *)
(* change them.  They hold for every number of requests and processes.     *)
(***************************************************************************)
EXTENDS RecordApi, FiniteSetTheorems, TLAPS

-------------------------------------------------------------------------------
(* The tokens *)

\* What the tokens may do in a step: time does not go back, and a token that
\* appears has a new id.
Later ==
  /\ now <= now'
  /\ issued <= issued'
  /\ \A t \in tokens' : t \in tokens \/ t.id > issued

LEMMA TokensStay ==
  ASSUME TokensTypeOK, UNCHANGED tokenVars
  PROVE  TokensTypeOK' /\ Later /\ (TokensDistinct => TokensDistinct')
BY TokensAssumption DEF TokensTypeOK, tokenVars, Later, TokensDistinct

LEMMA TokensGo ==
  ASSUME TokensTypeOK, tokens' \subseteq tokens, UNCHANGED <<issued, now>>
  PROVE  TokensTypeOK' /\ Later /\ (TokensDistinct => TokensDistinct')
BY TokensAssumption DEF TokensTypeOK, Later, TokensDistinct

LEMMA TokensCome ==
  ASSUME TokensTypeOK, NEW u \in Users, NEW readOnly \in BOOLEAN,
         CreateToken(u, readOnly), UNCHANGED now
  PROVE  TokensTypeOK' /\ Later /\ (TokensDistinct => TokensDistinct')
<1> USE TokensAssumption
<1> DEFINE new == [id |-> issued + 1, user |-> u, readOnly |-> readOnly,
                   expires |-> now + Lifetime]
<1>1. tokens' = tokens \cup {new} /\ issued' = issued + 1 /\ issued < MaxTokens
  BY DEF CreateToken
<1>2. new \in Token /\ new.id = issued + 1
  BY <1>1 DEF TokensTypeOK, Token
<1> HIDE DEF new
<1>3. \A t \in tokens : t.id \in Nat
  BY DEF TokensTypeOK, Token
<1>4. TokensTypeOK' /\ Later
  BY <1>1, <1>2 DEF TokensTypeOK, Later
<1>5. TokensDistinct => TokensDistinct'
  BY <1>1, <1>2, <1>3 DEF TokensTypeOK, TokensDistinct
<1>6. QED
  BY <1>4, <1>5

LEMMA TimePasses ==
  ASSUME TokensTypeOK, Tick
  PROVE  TokensTypeOK' /\ Later /\ (TokensDistinct => TokensDistinct')
BY TokensAssumption DEF TokensTypeOK, Tick, Later, TokensDistinct

-------------------------------------------------------------------------------
(* Requests *)

Answer == [pc : Replied \cup {"idle"}]

\* Tokens of a user that a list may clean up by their ids.
TodoSound(todo, user, T, last, time) ==
  \A t \in todo :
    /\ t.user = user
    /\ t.expires <= time
    /\ t.id <= last
    /\ \A s \in T : s.id = t.id => s = t

\* A request in flight that is well-formed and vetted, when its user counts as an
\* owner with those in who, and the tokens, the last id and the time are these.
Sound(r, who, T, last, time) ==
  /\ r.pc \in LabelsOf(r.op)
  /\ r.body \in BodiesOf(r.op)
  /\ r.op \in WriteOps => MayWrite(r)
  /\ Writing(r) => r.user \in who /\ r.body.type \in Supported
  /\ TodoSound(r.todo, r.user, T, last, time)

RequestInv == TypeOK /\ TokensDistinct /\ CredentialsHold

LEMMA Labels ==
  ASSUME NEW op \in Ops
  PROVE  /\ LabelsOf(op) \cap (Replied \cup {"idle"}) = {}
         /\ "owner" \in LabelsOf(op) => op \in {"list", "create", "delete"}
         /\ "transfer" \in LabelsOf(op) => op = "list"
         /\ "drop" \in LabelsOf(op) => op \in {"create", "delete"}
         /\ "add" \in LabelsOf(op) => op = "create"
         /\ "tokens" \in LabelsOf(op) => op = "listTokens"
         /\ "cleanUp" \in LabelsOf(op) => op = "listTokens"
         /\ "newToken" \in LabelsOf(op) => op = "createToken"
         /\ "oldToken" \in LabelsOf(op) => op = "deleteToken"
         /\ First(op) \in LabelsOf(op) \ {"drop", "add"}
BY RecordApiAssumption DEF LabelsOf, Replied, ReadOps, WriteOps, First

LEMMA PendingNotFree ==
  ASSUME NEW r \in Pending
  PROVE  r.op \in Ops /\ r.pc \notin Replied \cup {"idle"}
<1>1. PICK op \in Ops : r.pc \in LabelsOf(op)
  BY DEF Pending
<1>2. QED
  BY <1>1, Labels DEF Pending

LEMMA InFlight ==
  ASSUME RequestInv, NEW p \in Procs, ~Free(p)
  PROVE  /\ req[p] \in Pending
         /\ req[p].op \in Ops
         /\ Sound(req[p], owners \cup left[p], tokens, issued, now)
<1>1. req[p] \in Pending
  BY DEF RequestInv, TypeOK, Free
<1>2. req[p].op \in Ops
  BY <1>1 DEF Pending
<1>3. Sound(req[p], owners \cup left[p], tokens, issued, now)
  BY DEF RequestInv, TypeOK, CredentialsHold, Sound, TodoSound, Expired
<1>4. QED
  BY <1>1, <1>2, <1>3

\* A sound request stays sound while it waits, whoever leaves meanwhile.
LEMMA SoundWaits ==
  ASSUME TokensTypeOK, TokensTypeOK', Later, NEW r \in Pending, NEW A, NEW B,
         Sound(r, A, tokens, issued, now), r.user \in A => r.user \in B
  PROVE  Sound(r, B, tokens', issued', now')
<1>1. \A t \in r.todo : t.id \in Nat /\ t.expires \in Nat
  BY DEF Pending, Token
<1>2. now \in Nat /\ now' \in Nat /\ issued \in Nat /\ issued' \in Nat
  BY TokensAssumption DEF TokensTypeOK
<1>3. \A t \in tokens' : t.id \in Nat
  BY DEF TokensTypeOK, Token
<1>4. QED
  BY <1>1, <1>2, <1>3 DEF Later, Sound, TodoSound

\* The invariant holds again if every request is answered or sound.
LEMMA AllSound ==
  ASSUME TokensTypeOK', TokensDistinct',
         (owners \subseteq keys /\ keys \subseteq Users)',
         started' \in 0 .. MaxRequests, faults' \in 0 .. MaxFaults,
         req' \in [Procs -> Answer \cup Pending], left' \in [Procs -> SUBSET Users],
         \A q \in Procs :
           \/ req'[q] \in Answer
           \/ Sound(req'[q], owners' \cup left'[q], tokens', issued', now')
  PROVE  RequestInv'
<1>1. ASSUME NEW q \in Procs, req'[q] \in Answer
      PROVE  Free(q)'
  BY <1>1 DEF Answer, Free
<1>2. ASSUME NEW q \in Procs, ~Free(q)'
      PROVE  Sound(req'[q], owners' \cup left'[q], tokens', issued', now')
  BY <1>1, <1>2
<1>3. TypeOK'
  BY <1>2 DEF TypeOK, Sound, TodoSound, Expired, Answer
<1>4. CredentialsHold'
  BY <1>2 DEF CredentialsHold, Sound, TodoSound, Writing, MayWrite
<1>5. QED
  BY <1>3, <1>4 DEF RequestInv

\* A step of one request, that leaves it answered or sound.
LEMMA StepSound ==
  ASSUME RequestInv, NEW p \in Procs, NEW s,
         req' = [req EXCEPT ![p] = s],
         \/ s \in Answer
         \/ s \in Pending /\ Sound(s, owners \cup left'[p], tokens', issued', now'),
         left' \in [Procs -> SUBSET Users],
         \A q \in Procs : q = p \/ left'[q] = left[q],
         UNCHANGED <<owners, keys>>,
         TokensTypeOK', TokensDistinct', Later,
         started' \in 0 .. MaxRequests, faults' \in 0 .. MaxFaults
  PROVE  RequestInv'
<1>1. req \in [Procs -> Answer \cup Pending] /\ TokensTypeOK
  BY DEF RequestInv, TypeOK, Answer
<1>2. req' \in [Procs -> Answer \cup Pending] /\ req'[p] = s
  BY <1>1
<1>3. ASSUME NEW q \in Procs
      PROVE  \/ req'[q] \in Answer
             \/ Sound(req'[q], owners' \cup left'[q], tokens', issued', now')
  <2>1. CASE q = p
    BY <1>2, <2>1
  <2>2. CASE q # p /\ Free(q)
    BY <1>1, <2>2, PendingNotFree DEF Free
  <2>3. CASE q # p /\ ~Free(q)
    <3>1. req'[q] = req[q] /\ left'[q] = left[q] /\ owners' = owners
      BY <1>1, <2>3
    <3>2. req[q] \in Pending
          /\ Sound(req[q], owners \cup left[q], tokens, issued, now)
      BY <2>3, InFlight
    <3>3. Sound(req[q], owners' \cup left'[q], tokens', issued', now')
      BY <1>1, <3>1, <3>2, SoundWaits
    <3>4. QED
      BY <3>1, <3>3
  <2>4. QED
    BY <2>1, <2>2, <2>3
<1>4. (owners \subseteq keys /\ keys \subseteq Users)'
  BY DEF RequestInv, TypeOK
<1>5. QED
  BY <1>2, <1>3, <1>4, AllSound

-------------------------------------------------------------------------------
(* The steps of a request *)

LEMMA Budgets ==
  ASSUME RequestInv, NoFault \/ Fault
  PROVE  started' \in 0 .. MaxRequests /\ faults' \in 0 .. MaxFaults
BY RecordApiAssumption DEF RequestInv, TypeOK, NoFault, Fault, budget

LEMMA GotoSound ==
  ASSUME RequestInv, NEW p \in Procs, ~Free(p),
         NEW pc \in Replied \cup LabelsOf(req[p].op), Goto(p, pc),
         pc \in {"drop", "add"} =>
           req[p].user \in owners \cup left[p] /\ req[p].body.type \in Supported,
         UNCHANGED <<owners, keys, left>>,
         TokensTypeOK', TokensDistinct', Later, NoFault \/ Fault
  PROVE  RequestInv'
<1> DEFINE r == req[p]
           s == IF pc \in Replied THEN [pc |-> pc] ELSE [r EXCEPT !.pc = pc]
<1>1. req' = [req EXCEPT ![p] = s]
  BY DEF Goto
<1>2. /\ r \in Pending /\ r.op \in Ops
      /\ Sound(r, owners \cup left[p], tokens, issued, now)
  BY InFlight
<1>3. ASSUME pc \in Replied
      PROVE  s \in Answer
  BY <1>3 DEF Answer
<1>4. ASSUME pc \notin Replied
      PROVE  s \in Pending /\ Sound(s, owners \cup left'[p], tokens', issued', now')
  <2>1. pc \in UNION {LabelsOf(op) : op \in Ops}
    BY <1>2, <1>4
  <2>2. /\ s \in Pending /\ s.pc = pc /\ s.op = r.op /\ s.user = r.user
        /\ s.body = r.body /\ s.todo = r.todo /\ s.cred = r.cred /\ s.since = r.since
    BY <1>2, <1>4, <2>1 DEF Pending
  <2>3. Sound(s, owners \cup left[p], tokens, issued, now)
    BY <1>2, <1>4, <2>2 DEF Sound, Writing, MayWrite
  <2> HIDE DEF s
  <2>4. TokensTypeOK /\ left' = left
    BY DEF RequestInv, TypeOK
  <2>5. QED
    BY <2>2, <2>3, <2>4, SoundWaits
<1> HIDE DEF s
<1>5. \/ s \in Answer
      \/ s \in Pending /\ Sound(s, owners \cup left'[p], tokens', issued', now')
  BY <1>3, <1>4
<1>6. left' \in [Procs -> SUBSET Users] /\ \A q \in Procs : left'[q] = left[q]
  BY DEF RequestInv, TypeOK
<1>7. QED
  BY <1>1, <1>5, <1>6, Budgets, StepSound

\* A step that leaves the tokens alone.
LEMMA TokensAlone ==
  ASSUME RequestInv, UNCHANGED tokenVars
  PROVE  TokensTypeOK' /\ Later /\ TokensDistinct'
BY TokensStay DEF RequestInv, TypeOK

\* A request that arrives is sound: its user stands for themselves, or shows a
\* token of theirs that is valid now and allows the operation.
LEMMA AcceptSound ==
  ASSUME RequestInv, NEW p \in Procs, NEW op \in Ops, NEW user \in Users,
         NEW cred \in SUBSET Token,
         op \in WriteOps => \A t \in cred : ~t.readOnly /\ t.expires > now /\ t.user = user,
         Receive(p), Accept(p, user, cred, op)
  PROVE  RequestInv'
<1>1. PICK body \in BodiesOf(op), id \in IdsOf(op), readOnly \in ReadOnlyOf(op) :
        req' = [req EXCEPT ![p] = Request(op, user, cred, body, id, readOnly, First(op))]
  BY DEF Accept
<1> DEFINE s == Request(op, user, cred, body, id, readOnly, First(op))
<1>2. now \in Nat /\ TokensTypeOK
  BY TokensAssumption DEF RequestInv, TypeOK, TokensTypeOK
<1>3. id \in 0 .. MaxTokens /\ readOnly \in BOOLEAN
  <2>1. IdsOf(op) \subseteq 0 .. MaxTokens
    BY TokensAssumption DEF IdsOf
  <2>2. ReadOnlyOf(op) \subseteq BOOLEAN
    BY DEF ReadOnlyOf
  <2>3. QED
    BY <2>1, <2>2
<1>4. First(op) \in LabelsOf(op) /\ First(op) \notin {"drop", "add"}
  BY Labels
<1>5. First(op) \in UNION {LabelsOf(o) : o \in Ops}
  BY <1>4
<1>6. body \in UNION {BodiesOf(o) : o \in Ops}
  OBVIOUS
<1>7. s \in Pending
  BY <1>2, <1>3, <1>5, <1>6 DEF Request, Pending
<1>8. Sound(s, owners \cup left'[p], tokens, issued, now)
  BY <1>4, Z3 DEF Request, Sound, TodoSound, Writing, MayWrite, Session
<1>9. req' = [req EXCEPT ![p] = s]
  BY <1>1
<1> HIDE DEF s
<1>10. UNCHANGED <<tokens, issued, now>>
  BY DEF Receive
<1>11. left' \in [Procs -> SUBSET Users] /\ \A q \in Procs : q = p \/ left'[q] = left[q]
  BY DEF Receive, RequestInv, TypeOK
<1>12. started' \in 0 .. MaxRequests /\ faults' \in 0 .. MaxFaults
  BY RecordApiAssumption DEF Receive, RequestInv, TypeOK
<1>13. TokensTypeOK' /\ Later /\ TokensDistinct' /\ UNCHANGED <<owners, keys>>
  BY <1>10, TokensAlone DEF tokenVars, Receive
<1>14. QED
  BY <1>7, <1>8, <1>9, <1>10, <1>11, <1>12, <1>13, StepSound

LEMMA RefuseSound ==
  ASSUME RequestInv, NEW p \in Procs, NEW status \in Replied,
         req' = [req EXCEPT ![p] = [pc |-> status]],
         left' \in [Procs -> SUBSET Users],
         \A q \in Procs : q = p \/ left'[q] = left[q],
         UNCHANGED <<tokens, issued, now, owners, keys>>,
         started' \in 0 .. MaxRequests, faults' \in 0 .. MaxFaults
  PROVE  RequestInv'
<1>1. [pc |-> status] \in Answer
  BY DEF Answer
<1>2. QED
  BY <1>1, TokensAlone, StepSound DEF tokenVars

LEMMA ReceiveSound ==
  ASSUME RequestInv, NEW p \in Procs,
         ReceiveSession(p) \/ ReceiveToken(p) \/ TokenLookupFails(p)
  PROVE  RequestInv'
<1>1. CASE ReceiveSession(p)
  <2>1. PICK op \in Ops, user \in Users : Accept(p, user, Session, op)
    BY <1>1 DEF ReceiveSession
  <2>2. Session \in SUBSET Token /\ \A t \in Session : FALSE
    BY DEF Session
  <2>3. QED
    BY <1>1, <2>1, <2>2, AcceptSound DEF ReceiveSession
<1>2. ASSUME ReceiveToken(p), NEW op \in Ops, NEW id \in 1 .. MaxTokens,
             NEW t \in GetToken(id), Allows(t, op), Accept(p, t.user, {t}, op)
      PROVE  RequestInv'
  <2>1. t \in tokens /\ t \in Token /\ t.user \in Users /\ t.expires \in Nat /\ now \in Nat
    BY TokensAssumption DEF GetToken, RequestInv, TypeOK, TokensTypeOK, Token
  <2>2. t.expires > now
    BY <2>1 DEF GetToken, Expired
  <2>3. op \in WriteOps => ~t.readOnly
    BY <1>2 DEF Allows, ReadOps, WriteOps
  <2>4. {t} \in SUBSET Token
        /\ (op \in WriteOps =>
              \A u \in {t} : ~u.readOnly /\ u.expires > now /\ u.user = t.user)
    BY <2>1, <2>2, <2>3
  <2>5. QED
    BY <1>2, <2>1, <2>4, AcceptSound DEF ReceiveToken
<1>3. ASSUME ReceiveToken(p), req' = [req EXCEPT ![p] = [pc |-> "refused"]]
      PROVE  RequestInv'
  <2>1. left' \in [Procs -> SUBSET Users] /\ \A q \in Procs : q = p \/ left'[q] = left[q]
    BY <1>3 DEF ReceiveToken, Receive, RequestInv, TypeOK
  <2>2. started' \in 0 .. MaxRequests /\ faults' \in 0 .. MaxFaults
    BY <1>3, RecordApiAssumption DEF ReceiveToken, Receive, RequestInv, TypeOK
  <2>3. QED
    BY <1>3, <2>1, <2>2, RefuseSound DEF ReceiveToken, Receive, Replied
<1>4. CASE TokenLookupFails(p)
  <2>1. left' \in [Procs -> SUBSET Users] /\ \A q \in Procs : left'[q] = left[q]
    BY <1>4 DEF TokenLookupFails, RequestInv, TypeOK
  <2>2. started' \in 0 .. MaxRequests /\ faults' \in 0 .. MaxFaults
    BY <1>4, RecordApiAssumption DEF TokenLookupFails, RequestInv, TypeOK
  <2>3. QED
    BY <1>4, <2>1, <2>2, RefuseSound DEF TokenLookupFails, Replied
<1>5. QED
  BY <1>1, <1>2, <1>3, <1>4 DEF ReceiveToken

\* The labels of an operation are where its steps lead.
LEMMA Steps ==
  ASSUME NEW op \in Ops
  PROVE  /\ op = "list" => "transfer" \in LabelsOf(op)
         /\ op \in {"create", "delete"} => "drop" \in LabelsOf(op)
         /\ op = "create" => "add" \in LabelsOf(op)
         /\ op = "listTokens" => "cleanUp" \in LabelsOf(op)
BY DEF LabelsOf

LEMMA AtLabel ==
  ASSUME RequestInv, NEW p \in Procs, ~Free(p)
  PROVE  req[p].op \in Ops /\ req[p].pc \in LabelsOf(req[p].op)
BY InFlight DEF Sound

LEMMA RecordStepSound ==
  ASSUME RequestInv, NEW p \in Procs,
         RequireZoneOwner(p) \/ Drop(p) \/ Add(p) \/ ListRecords(p)
  PROVE  RequestInv'
<1> DEFINE r == req[p]
<1>1. ~Free(p)
  BY DEF RequireZoneOwner, Drop, Add, ListRecords, At, Free, Replied
<1>2. r.op \in Ops /\ r.pc \in LabelsOf(r.op)
  BY <1>1, AtLabel
<1>3. Writing(r) => r.user \in owners \cup left[p] /\ r.body.type \in Supported
  BY <1>1, InFlight DEF Sound
<1>4. UNCHANGED <<tokens, issued, now, owners, keys, left>> /\ (NoFault \/ Fault)
  BY DEF RequireZoneOwner, Drop, Add, ListRecords, Send
<1>5. TokensTypeOK' /\ Later /\ TokensDistinct'
  BY <1>4, TokensAlone DEF tokenVars
<1>6. ASSUME NEW pc \in Replied \cup LabelsOf(r.op), Goto(p, pc),
             pc \in {"drop", "add"} =>
               r.user \in owners \cup left[p] /\ r.body.type \in Supported
      PROVE  RequestInv'
  BY <1>1, <1>4, <1>5, <1>6, GotoSound
<1>7. CASE RequireZoneOwner(p)
  <2>1. r.op \in {"list", "create", "delete"}
    BY <1>2, <1>7, Labels DEF RequireZoneOwner, At
  <2>2. \/ Goto(p, "refused") \/ Goto(p, "failed")
        \/ Goto(p, "transfer") /\ r.op = "list"
        \/ /\ Goto(p, "drop") /\ r.op \in {"create", "delete"}
           /\ r.user \in owners /\ r.body.type \in Supported
    BY <1>7, <2>1 DEF RequireZoneOwner
  <2>3. QED
    BY <1>2, <1>6, <2>2, Steps DEF Replied
<1>8. CASE Drop(p)
  <2>1. r.op \in {"create", "delete"} /\ Writing(r)
    BY <1>2, <1>8, Labels DEF Drop, At, Writing
  <2>2. \/ Goto(p, "ok") \/ Goto(p, "failed")
        \/ Goto(p, "add") /\ r.op = "create"
    BY <1>8, <2>1 DEF Drop, Send
  <2>3. QED
    BY <1>2, <1>3, <1>6, <2>1, <2>2, Steps DEF Replied
<1>9. CASE Add(p)
  <2>1. Goto(p, "ok") \/ Goto(p, "failed")
    BY <1>9 DEF Add, Send
  <2>2. QED
    BY <1>6, <2>1 DEF Replied
<1>10. CASE ListRecords(p)
  <2>1. Goto(p, "ok") \/ Goto(p, "failed")
    BY <1>10 DEF ListRecords
  <2>2. QED
    BY <1>6, <2>1 DEF Replied
<1>11. QED
  BY <1>7, <1>8, <1>9, <1>10

\* A list that is left with tokens to clean up.
CleaningUp(s, r, todo) ==
  /\ s \in Pending
  /\ s.pc = "cleanUp" /\ s.op = r.op /\ s.user = r.user /\ s.body = r.body
  /\ s.todo = todo

LEMMA CleaningUpRecord ==
  ASSUME NEW r \in Pending, r.op = "listTokens", NEW todo \in SUBSET Token
  PROVE  CleaningUp([r EXCEPT !.todo = todo, !.pc = "cleanUp"], r, todo)
<1>1. r.op \in Ops
  BY DEF Pending
<1>2. "cleanUp" \in LabelsOf(r.op)
  BY <1>1, Steps
<1>3. "cleanUp" \in UNION {LabelsOf(op) : op \in Ops}
  BY <1>1, <1>2
<1>4. QED
  BY <1>3 DEF CleaningUp, Pending

LEMMA CleaningSound ==
  ASSUME RequestInv, NEW p \in Procs, ~Free(p), req[p].op = "listTokens",
         NEW todo \in SUBSET Token, NEW s, CleaningUp(s, req[p], todo),
         req' = [req EXCEPT ![p] = s],
         TodoSound(todo, req[p].user, tokens, issued, now),
         tokens' \subseteq tokens, UNCHANGED <<issued, now, owners, keys, left>>,
         NoFault
  PROVE  RequestInv'
<1> DEFINE r == req[p]
<1>1. r.op \in Ops /\ Sound(r, owners \cup left[p], tokens, issued, now)
  BY InFlight
<1>2. "cleanUp" \in LabelsOf(r.op)
  BY <1>1, Steps
<1>3. Sound(s, owners \cup left'[p], tokens', issued', now')
  BY <1>1, <1>2 DEF CleaningUp, Sound, TodoSound, Writing, WriteOps
<1>4. TokensTypeOK' /\ Later /\ TokensDistinct'
  BY TokensGo DEF RequestInv, TypeOK
<1>5. left' \in [Procs -> SUBSET Users] /\ \A q \in Procs : left'[q] = left[q]
  BY DEF RequestInv, TypeOK
<1>6. QED
  BY <1>3, <1>4, <1>5, Budgets, StepSound DEF CleaningUp

LEMMA TokenStepSound ==
  ASSUME RequestInv, NEW p \in Procs,
         ListTokens(p) \/ CleanUp(p) \/ NewToken(p) \/ OldToken(p)
  PROVE  RequestInv'
<1> DEFINE r == req[p]
<1>1. ~Free(p)
  BY DEF ListTokens, CleanUp, NewToken, OldToken, At, Free, Replied
<1>2. r \in Pending /\ r.op \in Ops /\ r.pc \in LabelsOf(r.op) /\ r.user \in Users
  BY <1>1, AtLabel, InFlight DEF Pending
<1>3. TokensTypeOK /\ TokensDistinct
  BY DEF RequestInv, TypeOK
<1>4. UNCHANGED <<now, owners, keys, left>> /\ (NoFault \/ Fault)
  BY DEF ListTokens, CleanUp, NewToken, OldToken
<1>5. ASSUME NEW pc \in Replied, Goto(p, pc), TokensTypeOK', Later, TokensDistinct'
      PROVE  RequestInv'
  BY <1>1, <1>4, <1>5, GotoSound DEF Replied
<1>6. CASE ListTokens(p)
  <2>1. r.op = "listTokens"
    BY <1>2, <1>6, Labels DEF ListTokens, At
  <2>2. UNCHANGED <<tokens, issued, now>>
    BY <1>6 DEF ListTokens
  <2>3. TokensTypeOK' /\ Later /\ TokensDistinct'
    BY <2>2, TokensAlone DEF tokenVars
  <2>4. ASSUME NoFault, req' = [req EXCEPT ![p].todo = ExpiredTokensOf(r.user),
                                           ![p].pc = "cleanUp"]
        PROVE  RequestInv'
    <3>1. ExpiredTokensOf(r.user) \in SUBSET Token
      BY <1>3 DEF ExpiredTokensOf, TokensOf, TokensTypeOK
    <3>2. TodoSound(ExpiredTokensOf(r.user), r.user, tokens, issued, now)
      BY <1>3 DEF TodoSound, ExpiredTokensOf, TokensOf, Expired, TokensDistinct
    <3> DEFINE todo == ExpiredTokensOf(r.user)
               s == [r EXCEPT !.todo = todo, !.pc = "cleanUp"]
    <3>3. req' = [req EXCEPT ![p].todo = todo, ![p].pc = "cleanUp"]
      BY <2>4
    <3>4. req \in [Procs -> Answer \cup Pending]
      BY DEF RequestInv, TypeOK, Answer
    <3> HIDE DEF todo
    <3>5. req' = [req EXCEPT ![p] = s]
      BY <3>3, <3>4
    <3>6. CleaningUp(s, r, todo)
      BY <1>2, <2>1, <3>1, CleaningUpRecord DEF todo
    <3> HIDE DEF s
    <3>7. QED
      BY <1>1, <1>4, <2>1, <2>2, <2>4, <3>1, <3>2, <3>5, <3>6, CleaningSound DEF todo
  <2>5. QED
    BY <1>5, <1>6, <2>3, <2>4 DEF ListTokens, Replied
<1>7. CASE CleanUp(p)
  <2>1. r.op = "listTokens"
    BY <1>2, <1>7, Labels DEF CleanUp, At
  <2>2. tokens' \subseteq tokens /\ UNCHANGED <<issued, now>>
    BY <1>7 DEF CleanUp, ExpireToken
  <2>3. TokensTypeOK' /\ Later /\ TokensDistinct'
    BY <1>3, <2>2, TokensGo
  <2>4. ASSUME NoFault, NEW t \in r.todo, req' = [req EXCEPT ![p].todo = @ \ {t}]
        PROVE  RequestInv'
    <3>1. r.todo \ {t} \in SUBSET Token /\ r.pc = "cleanUp"
      BY <1>2, <1>7 DEF Pending, CleanUp, At
    <3>2. TodoSound(r.todo \ {t}, r.user, tokens, issued, now)
      BY <1>1, InFlight DEF Sound, TodoSound
    <3> DEFINE todo == r.todo \ {t}
               s == [r EXCEPT !.todo = todo]
    <3>3. req' = [req EXCEPT ![p] = s]
      BY <2>4
    <3>4. s = [r EXCEPT !.todo = todo, !.pc = "cleanUp"]
      BY <1>2, <3>1 DEF Pending
    <3>5. CleaningUp(s, r, todo)
      BY <1>2, <2>1, <3>1, <3>4, CleaningUpRecord
    <3> HIDE DEF s
    <3>6. QED
      BY <1>1, <1>4, <2>1, <2>2, <2>4, <3>1, <3>2, <3>3, <3>5, CleaningSound
  <2>5. QED
    BY <1>5, <1>7, <2>3, <2>4 DEF CleanUp, Replied
<1>8. CASE NewToken(p)
  <2>1. r.op = "createToken" /\ r.readOnly \in BOOLEAN
    BY <1>2, <1>8, Labels DEF NewToken, At, Pending
  <2>2. TokensTypeOK' /\ Later /\ TokensDistinct'
    BY <1>2, <1>3, <1>4, <1>8, <2>1, TokensCome, TokensStay DEF NewToken, tokenVars
  <2>3. QED
    BY <1>5, <1>8, <2>2 DEF NewToken, Replied
<1>9. CASE OldToken(p)
  <2>1. tokens' \subseteq tokens /\ UNCHANGED <<issued, now>>
    BY <1>9 DEF OldToken, DeleteToken
  <2>2. TokensTypeOK' /\ Later /\ TokensDistinct'
    BY <1>3, <2>1, TokensGo
  <2>3. QED
    BY <1>5, <1>9, <2>2 DEF OldToken, Replied
<1>10. QED
  BY <1>6, <1>7, <1>8, <1>9

-------------------------------------------------------------------------------
(* The environment *)

\* Whoever leaves, their requests in flight count as an owner's that has left.
LEMMA LoseRowSound ==
  ASSUME RequestInv, NEW u \in Users, LoseRow(u)
  PROVE  RequestInv'
<1>1. \A p \in Procs :
        left'[p] = IF ~Free(p) /\ req[p].user = u THEN {u} ELSE left[p]
  BY DEF LoseRow
<1>2. left' \in [Procs -> SUBSET Users]
  BY DEF LoseRow, RequestInv, TypeOK
<1>3. TokensTypeOK' /\ Later /\ TokensDistinct' /\ TokensTypeOK
  BY TokensAlone DEF LoseRow, tokenVars, RequestInv, TypeOK
<1>4. req' = req /\ req \in [Procs -> Answer \cup Pending]
  BY DEF LoseRow, RequestInv, TypeOK, Answer
<1>5. ASSUME NEW q \in Procs
      PROVE  \/ req'[q] \in Answer
             \/ Sound(req'[q], owners' \cup left'[q], tokens', issued', now')
  <2>1. CASE Free(q)
    BY <1>4, <2>1, PendingNotFree DEF Free
  <2>2. CASE ~Free(q)
    <3>1. req[q] \in Pending
          /\ Sound(req[q], owners \cup left[q], tokens, issued, now)
      BY <2>2, InFlight
    <3>2. req[q].user \in owners \cup left[q] =>
            req[q].user \in owners' \cup left'[q]
      BY <1>1, <2>2 DEF LoseRow
    <3>3. QED
      BY <1>3, <1>4, <3>1, <3>2, SoundWaits
  <2>3. QED
    BY <2>1, <2>2
<1>6. /\ (owners \subseteq keys /\ keys \subseteq Users)'
      /\ started' \in 0 .. MaxRequests /\ faults' \in 0 .. MaxFaults
  BY DEF LoseRow, RequestInv, TypeOK
<1>7. QED
  BY <1>2, <1>3, <1>4, <1>5, <1>6, AllSound

LEMMA ElsewhereSound ==
  ASSUME RequestInv, UNCHANGED <<owners, req, left, started, faults>>,
         keys' \subseteq keys, owners \subseteq keys',
         TokensTypeOK', Later, TokensDistinct'
  PROVE  RequestInv'
<1>1. TokensTypeOK /\ req \in [Procs -> Answer \cup Pending]
  BY DEF RequestInv, TypeOK, Answer
<1>2. ASSUME NEW q \in Procs
      PROVE  \/ req'[q] \in Answer
             \/ Sound(req'[q], owners' \cup left'[q], tokens', issued', now')
  <2>1. CASE Free(q)
    BY <1>1, <2>1, PendingNotFree DEF Free
  <2>2. CASE ~Free(q)
    BY <1>1, <2>2, InFlight, SoundWaits
  <2>3. QED
    BY <2>1, <2>2
<1>3. /\ (owners \subseteq keys /\ keys \subseteq Users)'
      /\ left' \in [Procs -> SUBSET Users]
      /\ started' \in 0 .. MaxRequests /\ faults' \in 0 .. MaxFaults
  BY DEF RequestInv, TypeOK
<1>4. QED
  BY <1>1, <1>2, <1>3, AllSound

-------------------------------------------------------------------------------
(* Theorems *)

LEMMA InitSound ==
  ASSUME Init
  PROVE  RequestInv
<1>1. TokensTypeOK /\ TokensDistinct
  BY TokensAssumption
  DEF Init, TokensInit, TokensTypeOK, TokensDistinct
<1>2. \A p \in Procs : req[p] = Idle /\ Free(p)
  BY DEF Init, Free, Idle
<1>3. req \in [Procs -> [pc : Replied \cup {"idle"}] \cup Pending]
  BY DEF Init, Idle
<1>4. CredentialsHold
  BY <1>2 DEF CredentialsHold
<1>5. started \in 0 .. MaxRequests /\ faults \in 0 .. MaxFaults
  BY RecordApiAssumption DEF Init
<1>6. QED
  BY <1>1, <1>2, <1>3, <1>4, <1>5 DEF Init, RequestInv, TypeOK

\* Requests in flight keep what their checks established, tokens keep their ids,
\* and the stores keep their shape.
THEOREM RequestInvariant == Spec => []RequestInv
<1>1. RequestInv /\ [Next]_vars => RequestInv'
  <2> SUFFICES ASSUME RequestInv, [Next]_vars
               PROVE  RequestInv'
    OBVIOUS
  <2>1. ASSUME NEW p \in Procs, Handle(p)
        PROVE  RequestInv'
    BY <2>1, ReceiveSound, RecordStepSound, TokenStepSound DEF Handle
  <2>2. ASSUME NEW u \in Users, LoseRow(u)
        PROVE  RequestInv'
    BY <2>2, LoseRowSound
  <2>3. ASSUME NEW u \in Users, LoseKey(u)
        PROVE  RequestInv'
    <3>1. owners \subseteq keys
      BY DEF RequestInv, TypeOK
    <3>2. QED
      BY <2>3, <3>1, TokensAlone, ElsewhereSound DEF LoseKey, tokenVars
  <2>4. CASE Clock
    <3>1. owners \subseteq keys /\ TokensTypeOK /\ TokensDistinct
      BY DEF RequestInv, TypeOK
    <3>2. QED
      BY <2>4, <3>1, TimePasses, ElsewhereSound DEF Clock
  <2>5. CASE UNCHANGED vars
    <3>1. owners \subseteq keys
      BY DEF RequestInv, TypeOK
    <3>2. QED
      BY <2>5, <3>1, TokensAlone, ElsewhereSound DEF vars, tokenVars
  <2>6. QED
    BY <2>1, <2>2, <2>3, <2>4, <2>5 DEF Next
<1>2. QED
  BY <1>1, InitSound, PTL DEF Spec

\* The stores and the requests in flight keep their shape.
THEOREM TypeCorrect == Spec => []TypeOK
<1>1. RequestInv => TypeOK
  BY DEF RequestInv
<1>2. QED
  BY <1>1, RequestInvariant, PTL

\* What the checks of a request established when it came still holds at the step
\* that relies on it, whatever happened in between.
THEOREM CredentialsHoldCorrect == Spec => []CredentialsHold
<1>1. RequestInv => CredentialsHold
  BY DEF RequestInv
<1>2. QED
  BY <1>1, RequestInvariant, PTL

-------------------------------------------------------------------------------
(* What a step may change *)

LEMMA GotoActs ==
  ASSUME RequestInv, NEW p \in Procs, ~Free(p), NEW pc, pc # req[p].pc, Goto(p, pc)
  PROVE  Acts(p)
<1>1. req \in [Procs -> Answer \cup Pending] /\ req[p] \in Pending
  BY InFlight DEF RequestInv, TypeOK, Answer
<1>2. req'[p] = IF pc \in Replied THEN [pc |-> pc] ELSE [req[p] EXCEPT !.pc = pc]
  BY <1>1 DEF Goto
<1>3. req'[p].pc = pc
  BY <1>1, <1>2 DEF Pending
<1>4. QED
  BY <1>3 DEF Acts

\* Only the updates of a request write records, and only with a key that counts.
LEMMA RecordWriter ==
  ASSUME RequestInv, Next, records' # records
  PROVE  \E p \in Procs :
           /\ \/ records' = Cleaned(req[p].body)
              \/ records' = Rfc2136Add(records, req[p].body.name,
                                       req[p].body.type, req[p].body.value)
           /\ Accepts(req[p].body)
           /\ Acts(p)
           /\ ~Free(p)
           /\ Writing(req[p])
<1>1. PICK p \in Procs : Drop(p) \/ Add(p)
  BY DEF Next, Handle, ReceiveSession, ReceiveToken, Receive, TokenLookupFails,
         RequireZoneOwner, ListRecords, ListTokens, CleanUp, NewToken, OldToken,
         LoseRow, LoseKey, Clock
<1>2. ~Free(p) /\ Writing(req[p])
  BY <1>1 DEF Drop, Add, At, Free, Replied, Writing
<1>3. CASE Drop(p)
  <2>1. records' = Cleaned(req[p].body) /\ Accepts(req[p].body)
    BY <1>3 DEF Drop, Send
  <2>2. PICK pc \in {"add", "ok", "failed"} : Goto(p, pc)
    BY <1>3 DEF Drop, Send
  <2>3. pc # req[p].pc
    BY <1>3 DEF Drop, At
  <2>4. QED
    BY <1>2, <1>3, <2>1, <2>2, <2>3, GotoActs
<1>4. CASE Add(p)
  <2>1. /\ records' = Rfc2136Add(records, req[p].body.name,
                                 req[p].body.type, req[p].body.value)
        /\ Accepts(req[p].body)
    BY <1>4 DEF Add, Send
  <2>2. PICK pc \in {"ok", "failed"} : Goto(p, pc)
    BY <1>4 DEF Add, Send
  <2>3. pc # req[p].pc
    BY <1>4 DEF Add, At
  <2>4. QED
    BY <1>2, <1>4, <2>1, <2>2, <2>3, GotoActs
<1>5. QED
  BY <1>1, <1>3, <1>4

LEMMA WriterVetted ==
  ASSUME RequestInv, NEW p \in Procs, ~Free(p), Writing(req[p])
  PROVE  /\ MayWrite(req[p])
         /\ req[p].user \in owners \cup left[p]
         /\ req[p].body.type \in Supported
<1>1. /\ req[p].op \in Ops
      /\ Sound(req[p], owners \cup left[p], tokens, issued, now)
  BY InFlight
<1>2. req[p].op \in WriteOps
  BY <1>1, Labels DEF Sound, Writing, WriteOps
<1>3. QED
  BY <1>1, <1>2 DEF Sound

\* Records change only for somebody who owned the zone at some time of the request,
\* whose credentials may write, and with a key the zone still accepts.
THEOREM ChangesWarranted == Spec => ChangesAreWarranted
<1>1. RequestInv /\ [Next]_vars =>
        [records' # records =>
           \E p \in Procs :
             /\ Acts(p)
             /\ MayWrite(req[p])
             /\ req[p].user \in owners \cup left[p]
             /\ req[p].body.key \in keys]_vars
  <2> SUFFICES ASSUME RequestInv, Next, records' # records
               PROVE  \E p \in Procs :
                        /\ Acts(p)
                        /\ MayWrite(req[p])
                        /\ req[p].user \in owners \cup left[p]
                        /\ req[p].body.key \in keys
    OBVIOUS
  <2>1. PICK p \in Procs : /\ Accepts(req[p].body) /\ Acts(p)
                           /\ ~Free(p) /\ Writing(req[p])
    BY RecordWriter
  <2>2. QED
    BY <2>1, WriterVetted DEF Accepts
<1>2. QED
  BY <1>1, RequestInvariant, PTL DEF Spec, ChangesAreWarranted

\* A request leaves the records of other names alone, and the delegation of the
\* zone itself; a request for an AAAA record leaves every other type alone.
THEOREM OthersAreUntouched == Spec => OthersUntouched
<1>1. RequestInv /\ [Next]_vars =>
        [\A r \in Touched :
           /\ r.type # "NS" \/ r.name # Apex
           /\ \E p \in Procs :
                /\ Acts(p)
                /\ r.name = req[p].body.name
                /\ req[p].body.type = "AAAA" => r.type = "AAAA"]_vars
  <2> SUFFICES ASSUME RequestInv, Next, NEW r \in Touched
               PROVE  /\ r.type # "NS" \/ r.name # Apex
                      /\ \E p \in Procs :
                           /\ Acts(p)
                           /\ r.name = req[p].body.name
                           /\ req[p].body.type = "AAAA" => r.type = "AAAA"
    OBVIOUS
  <2>1. records' # records
    BY DEF Touched
  <2>2. PICK p \in Procs :
          /\ \/ records' = Cleaned(req[p].body)
             \/ records' = Rfc2136Add(records, req[p].body.name,
                                      req[p].body.type, req[p].body.value)
          /\ Acts(p) /\ ~Free(p) /\ Writing(req[p])
    BY <2>1, RecordWriter
  <2>3. req[p].body.type \in Supported
    BY <2>2, WriterVetted
  <2>4. CASE records' = Cleaned(req[p].body)
    BY <2>2, <2>4 DEF Touched, Cleaned, Rfc2136DeleteARecord,
       Rfc2136DeleteAAAARecord, DropName, DropType
  <2>5. CASE records' = Rfc2136Add(records, req[p].body.name,
                                   req[p].body.type, req[p].body.value)
    BY <2>2, <2>3, <2>5 DEF Touched, Rfc2136Add, Record, Supported
  <2>6. QED
    BY <2>2, <2>4, <2>5
<1>2. QED
  BY <1>1, RequestInvariant, PTL DEF Spec, OthersUntouched

\* A clean-up removes expired tokens only, and a deletion its user's token.
LEMMA TokenGoes ==
  ASSUME RequestInv, Next, NEW t \in tokens \ tokens', ~Expired(t)
  PROVE  \E p \in Procs : OldToken(p) /\ req[p].user = t.user /\ Acts(p) /\ ~Free(p)
<1>1. PICK p \in Procs : CleanUp(p) \/ NewToken(p) \/ OldToken(p)
  BY DEF Next, Handle, ReceiveSession, ReceiveToken, Receive, TokenLookupFails,
         RequireZoneOwner, Drop, Add, ListRecords, ListTokens,
         LoseRow, LoseKey, Clock, Tick
<1>2. ~Free(p)
  BY <1>1 DEF CleanUp, NewToken, OldToken, At, Free, Replied
<1>3. ~CleanUp(p)
  <2>1. SUFFICES ASSUME CleanUp(p)
                 PROVE  FALSE
    OBVIOUS
  <2>2. PICK u \in req[p].todo : tokens' = {s \in tokens : s.id # u.id}
    BY <2>1 DEF CleanUp, ExpireToken
  <2>3. TodoSound(req[p].todo, req[p].user, tokens, issued, now)
    BY <1>2, InFlight DEF Sound
  <2>4. t = u /\ u.expires <= now
    BY <2>2, <2>3 DEF TodoSound
  <2>5. QED
    BY <2>4 DEF Expired
<1>4. ~NewToken(p)
  BY DEF NewToken, CreateToken
<1>5. OldToken(p) /\ tokens' = tokens \ Deletable(req[p].user, req[p].id)
  BY <1>1, <1>3, <1>4 DEF OldToken, DeleteToken
<1>6. req[p].user = t.user
  BY <1>5 DEF Deletable
<1>7. PICK pc \in {"refused", "ok", "failed"} : Goto(p, pc)
  BY <1>5 DEF OldToken
<1>8. pc # req[p].pc
  BY <1>5 DEF OldToken, At
<1>9. QED
  BY <1>2, <1>5, <1>6, <1>7, <1>8, GotoActs

LEMMA TokenComes ==
  ASSUME RequestInv, Next, NEW t \in tokens' \ tokens
  PROVE  \E p \in Procs :
           /\ NewToken(p) /\ Acts(p) /\ ~Free(p)
           /\ req[p].user = t.user /\ req[p].readOnly = t.readOnly
<1>1. PICK p \in Procs : CleanUp(p) \/ NewToken(p) \/ OldToken(p)
  BY DEF Next, Handle, ReceiveSession, ReceiveToken, Receive, TokenLookupFails,
         RequireZoneOwner, Drop, Add, ListRecords, ListTokens,
         LoseRow, LoseKey, Clock, Tick
<1>2. ~CleanUp(p) /\ ~OldToken(p)
  BY DEF CleanUp, ExpireToken, OldToken, DeleteToken
<1>3. NewToken(p) /\ CreateToken(req[p].user, req[p].readOnly) /\ Goto(p, "ok")
  BY <1>1, <1>2 DEF NewToken
<1>4. ~Free(p) /\ req[p].pc # "ok"
  BY <1>3 DEF NewToken, At, Free, Replied
<1>5. req[p].user = t.user /\ req[p].readOnly = t.readOnly
  BY <1>3 DEF CreateToken
<1>6. QED
  BY <1>3, <1>4, <1>5, GotoActs

LEMMA TokenWriterVetted ==
  ASSUME RequestInv, NEW p \in Procs, ~Free(p)
  PROVE  /\ OldToken(p) => req[p].op = "deleteToken" /\ MayWrite(req[p])
         /\ NewToken(p) => req[p].op = "createToken" /\ MayWrite(req[p])
<1>1. /\ req[p].op \in Ops
      /\ Sound(req[p], owners \cup left[p], tokens, issued, now)
  BY InFlight
<1>2. /\ OldToken(p) => req[p].op = "deleteToken"
      /\ NewToken(p) => req[p].op = "createToken"
  BY <1>1, Labels DEF Sound, OldToken, NewToken, At
<1>3. QED
  BY <1>1, <1>2 DEF Sound, WriteOps

\* A token disappears before its time only when its owner deletes it, and appears
\* only when its owner creates it, as restricted as asked for, in each case with
\* credentials that may write.
THEOREM TokenChangesWarranted == Spec => TokenChangesAreWarranted
<1>1. RequestInv /\ [Next]_vars =>
        [LET Warranted(op, t) ==
               \E p \in Procs :
                 Acts(p) /\ req[p].op = op /\ req[p].user = t.user /\ MayWrite(req[p])
                   /\ (op = "createToken" => req[p].readOnly = t.readOnly)
         IN  /\ \A t \in tokens \ tokens' : Expired(t) \/ Warranted("deleteToken", t)
             /\ \A t \in tokens' \ tokens : Warranted("createToken", t)]_vars
  <2> SUFFICES ASSUME RequestInv, Next
               PROVE  /\ \A t \in tokens \ tokens' : Expired(t) \/
                           \E p \in Procs :
                             /\ Acts(p) /\ req[p].op = "deleteToken"
                             /\ req[p].user = t.user /\ MayWrite(req[p])
                      /\ \A t \in tokens' \ tokens :
                           \E p \in Procs :
                             /\ Acts(p) /\ req[p].op = "createToken"
                             /\ req[p].user = t.user /\ MayWrite(req[p])
                             /\ req[p].readOnly = t.readOnly
    OBVIOUS
  <2>1. ASSUME NEW t \in tokens \ tokens', ~Expired(t)
        PROVE  \E p \in Procs :
                 /\ Acts(p) /\ req[p].op = "deleteToken"
                 /\ req[p].user = t.user /\ MayWrite(req[p])
    BY <2>1, TokenGoes, TokenWriterVetted
  <2>2. ASSUME NEW t \in tokens' \ tokens
        PROVE  \E p \in Procs :
                 /\ Acts(p) /\ req[p].op = "createToken"
                 /\ req[p].user = t.user /\ MayWrite(req[p])
                 /\ req[p].readOnly = t.readOnly
    BY <2>2, TokenComes, TokenWriterVetted
  <2>3. QED
    BY <2>1, <2>2
<1>2. QED
  BY <1>1, RequestInvariant, PTL DEF Spec, TokenChangesAreWarranted

-------------------------------------------------------------------------------
(* Upserts replace *)

UpsertInv ==
  /\ UpsertsReplace
  /\ \A name \in InZone, type \in Supported : IsFiniteSet(AddressesOf(name, type))

\* A request that goes anywhere else is not about to add an address.
LEMMA GotoElsewhere ==
  ASSUME RequestInv, NEW p \in Procs, ~Free(p), NEW pc, pc # "add", Goto(p, pc),
         NEW q \in Procs, At(q, "add")'
  PROVE  q # p /\ req'[q] = req[q]
<1>1. req \in [Procs -> Answer \cup Pending] /\ req[p] \in Pending
  BY InFlight DEF RequestInv, TypeOK, Answer
<1>2. req'[p] = IF pc \in Replied THEN [pc |-> pc] ELSE [req[p] EXCEPT !.pc = pc]
  BY <1>1 DEF Goto
<1>3. req'[p].pc = pc
  BY <1>1, <1>2 DEF Pending
<1>4. q # p
  BY <1>3 DEF At
<1>5. QED
  BY <1>1, <1>4 DEF Goto

LEMMA ReceiveElsewhere ==
  ASSUME RequestInv, NEW p \in Procs, NEW q \in Procs, At(q, "add")',
         ReceiveSession(p) \/ ReceiveToken(p) \/ TokenLookupFails(p)
  PROVE  req'[q] = req[q]
<1>1. req \in [Procs -> Answer \cup Pending]
  BY DEF RequestInv, TypeOK, Answer
<1>2. ASSUME NEW op \in Ops, NEW user, NEW cred, Accept(p, user, cred, op)
      PROVE  req'[q] = req[q]
  <2>1. PICK body \in BodiesOf(op), id \in IdsOf(op), readOnly \in ReadOnlyOf(op) :
          req' = [req EXCEPT ![p] =
                   Request(op, user, cred, body, id, readOnly, First(op))]
    BY <1>2 DEF Accept
  <2>2. req'[p].pc = First(op)
    BY <1>1, <2>1 DEF Request
  <2>3. First(op) # "add"
    BY Labels
  <2>4. QED
    BY <1>1, <2>1, <2>2, <2>3 DEF At
<1>3. ASSUME NEW status \in Replied, req' = [req EXCEPT ![p] = [pc |-> status]]
      PROVE  req'[q] = req[q]
  BY <1>1, <1>3 DEF At, Replied
<1>4. QED
  BY <1>2, <1>3 DEF ReceiveSession, ReceiveToken, TokenLookupFails, Replied

LEMMA ElsewhereStays ==
  ASSUME RequestInv, Next, NEW q \in Procs, At(q, "add")',
         ~ \E p \in Procs : Drop(p) \/ Add(p)
  PROVE  req'[q] = req[q]
<1>1. ASSUME NEW p \in Procs, RequireZoneOwner(p) \/ ListRecords(p)
      PROVE  req'[q] = req[q]
  <2>1. ~Free(p)
    BY <1>1 DEF RequireZoneOwner, ListRecords, At, Free, Replied
  <2>2. PICK pc \in {"refused", "transfer", "drop", "failed", "ok"} : Goto(p, pc)
    BY <1>1 DEF RequireZoneOwner, ListRecords
  <2>3. QED
    BY <2>1, <2>2, GotoElsewhere
<1>2. ASSUME NEW p \in Procs,
             ListTokens(p) \/ CleanUp(p) \/ NewToken(p) \/ OldToken(p)
      PROVE  req'[q] = req[q]
  <2>1. ~Free(p)
    BY <1>2 DEF ListTokens, CleanUp, NewToken, OldToken, At, Free, Replied
  <2>2. ASSUME NEW pc \in {"refused", "failed", "ok"}, Goto(p, pc)
        PROVE  req'[q] = req[q]
    BY <2>1, <2>2, GotoElsewhere
  <2>3. req \in [Procs -> Answer \cup Pending] /\ req[p] \in Pending
    BY <2>1, InFlight DEF RequestInv, TypeOK, Answer
  <2>4. ASSUME NEW todo, req' = [req EXCEPT ![p].todo = todo, ![p].pc = "cleanUp"]
        PROVE  req'[q] = req[q]
    <3>1. req'[p].pc = "cleanUp"
      BY <2>3, <2>4 DEF Pending
    <3>2. QED
      BY <2>3, <2>4, <3>1 DEF At
  <2>5. ASSUME CleanUp(p), NEW t, req' = [req EXCEPT ![p].todo = @ \ {t}]
        PROVE  req'[q] = req[q]
    <3>1. req'[p].pc = "cleanUp"
      BY <2>3, <2>5 DEF Pending, CleanUp, At
    <3>2. QED
      BY <2>3, <2>5, <3>1 DEF At
  <2>6. QED
    BY <1>2, <2>2, <2>4, <2>5 DEF ListTokens, CleanUp, NewToken, OldToken
<1>3. QED
  BY <1>1, <1>2, ReceiveElsewhere
  DEF Next, Handle, LoseRow, LoseKey, Clock

\* What does not add an address, nor goes to add one, keeps the count.
LEMMA CountShrinks ==
  ASSUME RequestInv, UpsertInv, NEW name \in InZone, NEW type \in Supported,
         AddressesOf(name, type)' \subseteq AddressesOf(name, type),
         Adding(name, type)' \subseteq Adding(name, type),
         faults \in Nat, faults' \in Nat, faults <= faults'
  PROVE  /\ IsFiniteSet(AddressesOf(name, type)')
         /\ Cardinality(AddressesOf(name, type)') + Cardinality(Adding(name, type)')
              <= Cardinality(Procs) + faults'
<1> DEFINE A == AddressesOf(name, type)
           B == Adding(name, type)
<1>1. IsFiniteSet(A) /\ Cardinality(A) + Cardinality(B) <= Cardinality(Procs) + faults
  BY DEF UpsertInv, UpsertsReplace
<1>2. B \subseteq Procs /\ IsFiniteSet(Procs)
  BY StartsReplaced DEF Adding
<1>3. IsFiniteSet(B)
  BY <1>2, FS_Subset
<1>4. A' \subseteq A /\ B' \subseteq B
  OBVIOUS
<1> HIDE DEF A, B
<1>5. /\ IsFiniteSet(A') /\ Cardinality(A') <= Cardinality(A)
      /\ IsFiniteSet(B') /\ Cardinality(B') <= Cardinality(B)
  BY <1>1, <1>3, <1>4, FS_Subset
<1>6. /\ Cardinality(A) \in Nat /\ Cardinality(B) \in Nat
      /\ Cardinality(A') \in Nat /\ Cardinality(B') \in Nat
      /\ Cardinality(Procs) \in Nat
  BY <1>1, <1>2, <1>3, <1>5, FS_CardinalityType
<1>7. IsFiniteSet(A') /\ Cardinality(A') + Cardinality(B') <= Cardinality(Procs) + faults'
  BY <1>1, <1>5, <1>6
<1>8. QED
  BY <1>7 DEF A, B

\* A deletion that the server applies makes room for every upsert there can be.
LEMMA CountRestarts ==
  ASSUME NEW name \in InZone, NEW type \in Supported,
         AddressesOf(name, type)' = {}, faults' \in Nat
  PROVE  /\ IsFiniteSet(AddressesOf(name, type)')
         /\ Cardinality(AddressesOf(name, type)') + Cardinality(Adding(name, type)')
              <= Cardinality(Procs) + faults'
<1> DEFINE B == Adding(name, type)'
<1>1. B \subseteq Procs /\ IsFiniteSet(Procs)
  BY StartsReplaced DEF Adding
<1> HIDE DEF B
<1>2. IsFiniteSet(B) /\ Cardinality(B) <= Cardinality(Procs)
  BY <1>1, FS_Subset
<1>3. Cardinality(B) \in Nat /\ Cardinality(Procs) \in Nat
  BY <1>1, <1>2, FS_CardinalityType
<1>4. IsFiniteSet({}) /\ Cardinality({}) = 0
  BY FS_EmptySet
<1>5. Cardinality({}) + Cardinality(B) <= Cardinality(Procs) + faults'
  BY <1>2, <1>3, <1>4
<1>6. QED
  BY <1>4, <1>5 DEF B

\* A deletion that fails may let an upsert go on, but counts as a failure.
LEMMA CountFault ==
  ASSUME RequestInv, UpsertInv, NEW name \in InZone, NEW type \in Supported,
         NEW p \in Procs,
         AddressesOf(name, type)' \subseteq AddressesOf(name, type),
         Adding(name, type)' \subseteq Adding(name, type) \cup {p},
         faults \in Nat, faults' = faults + 1
  PROVE  /\ IsFiniteSet(AddressesOf(name, type)')
         /\ Cardinality(AddressesOf(name, type)') + Cardinality(Adding(name, type)')
              <= Cardinality(Procs) + faults'
<1> DEFINE A == AddressesOf(name, type)
           B == Adding(name, type)
<1>1. IsFiniteSet(A) /\ Cardinality(A) + Cardinality(B) <= Cardinality(Procs) + faults
  BY DEF UpsertInv, UpsertsReplace
<1>2. B \subseteq Procs /\ IsFiniteSet(Procs)
  BY StartsReplaced DEF Adding
<1>3. IsFiniteSet(B)
  BY <1>2, FS_Subset
<1>4. A' \subseteq A /\ B' \subseteq B \cup {p}
  OBVIOUS
<1> HIDE DEF A, B
<1>5. IsFiniteSet(B \cup {p}) /\ Cardinality(B \cup {p}) <= Cardinality(B) + 1
  <2>1. Cardinality(B) \in Nat
    BY <1>3, FS_CardinalityType
  <2>2. /\ IsFiniteSet(B \cup {p})
        /\ \/ Cardinality(B \cup {p}) = Cardinality(B)
           \/ Cardinality(B \cup {p}) = Cardinality(B) + 1
    BY <1>3, FS_AddElement
  <2>3. QED
    BY <2>1, <2>2
<1>6. /\ IsFiniteSet(A') /\ Cardinality(A') <= Cardinality(A)
      /\ IsFiniteSet(B') /\ Cardinality(B') <= Cardinality(B \cup {p})
  BY <1>1, <1>4, <1>5, FS_Subset
<1>7. /\ Cardinality(A) \in Nat /\ Cardinality(B) \in Nat
      /\ Cardinality(A') \in Nat /\ Cardinality(B') \in Nat
      /\ Cardinality(B \cup {p}) \in Nat /\ Cardinality(Procs) \in Nat
  BY <1>1, <1>2, <1>3, <1>5, <1>6, FS_CardinalityType
<1>8. IsFiniteSet(A') /\ Cardinality(A') + Cardinality(B') <= Cardinality(Procs) + faults'
  BY <1>1, <1>5, <1>6, <1>7
<1>9. QED
  BY <1>8 DEF A, B

\* An upsert that was about to add an address adds it.
LEMMA CountAdds ==
  ASSUME RequestInv, UpsertInv, NEW name \in InZone, NEW type \in Supported,
         NEW new, NEW p \in Adding(name, type),
         AddressesOf(name, type)' \subseteq AddressesOf(name, type) \cup {new},
         Adding(name, type)' \subseteq Adding(name, type) \ {p},
         faults \in Nat, faults' \in Nat, faults <= faults'
  PROVE  /\ IsFiniteSet(AddressesOf(name, type)')
         /\ Cardinality(AddressesOf(name, type)') + Cardinality(Adding(name, type)')
              <= Cardinality(Procs) + faults'
<1> DEFINE A == AddressesOf(name, type)
           B == Adding(name, type)
<1>1. IsFiniteSet(A) /\ Cardinality(A) + Cardinality(B) <= Cardinality(Procs) + faults
  BY DEF UpsertInv, UpsertsReplace
<1>2. B \subseteq Procs /\ IsFiniteSet(Procs)
  BY StartsReplaced DEF Adding
<1>3. IsFiniteSet(B) /\ p \in B
  BY <1>2, FS_Subset
<1>4. A' \subseteq A \cup {new} /\ B' \subseteq B \ {p}
  OBVIOUS
<1> HIDE DEF A, B
<1>5. IsFiniteSet(A \cup {new}) /\ Cardinality(A \cup {new}) <= Cardinality(A) + 1
  <2>1. Cardinality(A) \in Nat
    BY <1>1, FS_CardinalityType
  <2>2. /\ IsFiniteSet(A \cup {new})
        /\ \/ Cardinality(A \cup {new}) = Cardinality(A)
           \/ Cardinality(A \cup {new}) = Cardinality(A) + 1
    BY <1>1, FS_AddElement
  <2>3. QED
    BY <2>1, <2>2
<1>6. IsFiniteSet(B \ {p}) /\ Cardinality(B \ {p}) = Cardinality(B) - 1
  BY <1>3, FS_RemoveElement
<1>7. /\ IsFiniteSet(A') /\ Cardinality(A') <= Cardinality(A \cup {new})
      /\ IsFiniteSet(B') /\ Cardinality(B') <= Cardinality(B \ {p})
  BY <1>4, <1>5, <1>6, FS_Subset
<1>8. /\ Cardinality(A) \in Nat /\ Cardinality(B) \in Nat
      /\ Cardinality(A') \in Nat /\ Cardinality(B') \in Nat
      /\ Cardinality(A \cup {new}) \in Nat /\ Cardinality(B \ {p}) \in Nat
      /\ Cardinality(Procs) \in Nat
  BY <1>1, <1>2, <1>3, <1>5, <1>6, <1>7, FS_CardinalityType
<1>9. IsFiniteSet(A') /\ Cardinality(A') + Cardinality(B') <= Cardinality(Procs) + faults'
  BY <1>1, <1>5, <1>6, <1>7, <1>8
<1>10. QED
  BY <1>9 DEF A, B

LEMMA CleanedNoMore ==
  ASSUME NEW b
  PROVE  /\ Cleaned(b) \subseteq records
         /\ b.type \in Supported =>
              {r \in Cleaned(b) : r.name = b.name /\ r.type = b.type} = {}
BY DEF Cleaned, Rfc2136DeleteARecord, Rfc2136DeleteAAAARecord, DropName, DropType,
       Supported

\* One name and type at an update: the other requests are where they were.
LEMMA UpdateCounts ==
  ASSUME RequestInv, UpsertInv, NEW p \in Procs, Drop(p) \/ Add(p),
         NEW name \in InZone, NEW type \in Supported
  PROVE  /\ IsFiniteSet(AddressesOf(name, type)')
         /\ Cardinality(AddressesOf(name, type)') + Cardinality(Adding(name, type)')
              <= Cardinality(Procs) + faults'
<1> DEFINE b == req[p].body
           matches == b.name = name /\ b.type = type
<1>1. ~Free(p) /\ req[p].pc \in {"drop", "add"}
  BY DEF Drop, Add, At, Free, Replied
<1>2. req \in [Procs -> Answer \cup Pending] /\ req[p] \in Pending
  BY <1>1, InFlight DEF RequestInv, TypeOK, Answer
<1>3. PICK pc \in {"add", "ok", "failed"} : Goto(p, pc) /\ (Add(p) => pc # "add")
  BY <1>1 DEF Drop, Add, Send, At
<1>4. /\ \A q \in Procs : q # p => req'[q] = req[q]
      /\ req'[p].pc = pc
      /\ pc = "add" => req'[p].body = b
  BY <1>2, <1>3 DEF Goto, Replied, Pending
<1>5. keys' = keys
  BY DEF Drop, Add
<1>6. \A q \in Procs : q # p /\ q \in Adding(name, type)' => q \in Adding(name, type)
  BY <1>4, <1>5 DEF Adding, At, Accepts
<1>7. p \in Adding(name, type)' => pc = "add" /\ matches /\ Accepts(b)
  BY <1>4, <1>5 DEF Adding, At, Accepts
<1>8. Adding(name, type)' \subseteq Procs
  BY DEF Adding
<1>9. /\ faults \in Nat /\ faults' \in Nat /\ faults <= faults'
      /\ Fault => faults' = faults + 1
  BY RecordApiAssumption DEF RequestInv, TypeOK, Drop, Add, Send, NoFault, Fault, budget
<1>10. CASE Drop(p)
  <2>1. records' \subseteq records
    BY <1>10, CleanedNoMore DEF Drop, Send
  <2>2. AddressesOf(name, type)' \subseteq AddressesOf(name, type)
    BY <2>1 DEF AddressesOf
  <2>3. CASE Fault
    <3>1. Adding(name, type)' \subseteq Adding(name, type) \cup {p}
      BY <1>6, <1>8
    <3>2. QED
      BY <1>9, <2>2, <2>3, <3>1, CountFault
  <2>4. CASE p \notin Adding(name, type)'
    <3>1. Adding(name, type)' \subseteq Adding(name, type)
      BY <1>6, <1>8, <2>4
    <3>2. QED
      BY <1>9, <2>2, <3>1, CountShrinks
  <2>5. CASE ~Fault /\ p \in Adding(name, type)'
    <3>1. records' = Cleaned(b) /\ matches
      BY <1>7, <1>10, <2>5 DEF Drop, Send
    <3>2. AddressesOf(name, type)' = {}
      BY <3>1, CleanedNoMore DEF AddressesOf
    <3>3. QED
      BY <1>9, <3>2, CountRestarts
  <2>6. QED
    BY <2>3, <2>4, <2>5
<1>11. CASE Add(p)
  <2>1. p \notin Adding(name, type)'
    BY <1>3, <1>7, <1>11
  <2>2. Adding(name, type)' \subseteq Adding(name, type) \ {p}
    BY <1>6, <1>8, <2>1
  <2>3. CASE AddressesOf(name, type)' \subseteq AddressesOf(name, type)
    BY <1>9, <2>2, <2>3, CountShrinks
  <2>4. CASE ~(AddressesOf(name, type)' \subseteq AddressesOf(name, type))
    <3> DEFINE new == Record(b.name, b.type, b.value)
    <3>1. records' = records \cup {new} /\ Accepts(b)
      BY <1>11, <2>4 DEF Add, Send, Rfc2136Add, AddressesOf
    <3>2. AddressesOf(name, type)' \subseteq AddressesOf(name, type) \cup {new}
      BY <3>1 DEF AddressesOf
    <3>3. matches
      BY <2>4, <3>1 DEF AddressesOf, Record
    <3>4. p \in Adding(name, type)
      BY <1>11, <3>1, <3>3 DEF Adding, Add
    <3>5. QED
      BY <1>9, <2>2, <3>2, <3>4, CountAdds
  <2>5. QED
    BY <2>3, <2>4
<1>12. QED
  BY <1>10, <1>11

LEMMA ElsewhereCounts ==
  ASSUME RequestInv, UpsertInv, [Next]_vars, ~ \E p \in Procs : Drop(p) \/ Add(p),
         NEW name \in InZone, NEW type \in Supported
  PROVE  /\ IsFiniteSet(AddressesOf(name, type)')
         /\ Cardinality(AddressesOf(name, type)') + Cardinality(Adding(name, type)')
              <= Cardinality(Procs) + faults'
<1>1. records' = records /\ keys' \subseteq keys
  BY DEF Next, Handle, ReceiveSession, ReceiveToken, Receive, TokenLookupFails,
         RequireZoneOwner, ListRecords, ListTokens, CleanUp, NewToken, OldToken,
         LoseRow, LoseKey, Clock, vars
<1>2. faults \in Nat /\ faults' \in Nat /\ faults <= faults'
  <2>1. faults' = faults \/ faults' = faults + 1
    BY DEF Next, Handle, ReceiveSession, ReceiveToken, Receive, TokenLookupFails,
           RequireZoneOwner, ListRecords, ListTokens, CleanUp, NewToken, OldToken,
           LoseRow, LoseKey, Clock, vars, NoFault, Fault, budget
  <2>2. faults \in Nat
    BY RecordApiAssumption DEF RequestInv, TypeOK
  <2>3. QED
    BY <2>1, <2>2
<1>3. \A q \in Procs : At(q, "add")' => req'[q] = req[q]
  BY ElsewhereStays DEF vars
<1>4. Adding(name, type)' \subseteq Adding(name, type)
  BY <1>1, <1>3 DEF Adding, At, Accepts
<1>5. AddressesOf(name, type)' \subseteq AddressesOf(name, type)
  BY <1>1 DEF AddressesOf
<1>6. QED
  BY <1>2, <1>4, <1>5, CountShrinks

\* A name collects no more addresses of a type than upserts overlap or deletions
\* fail, for any number of processes and however many requests there are.
THEOREM UpsertsCorrect == Spec => []UpsertsReplace
<1>1. Init => UpsertInv
  <2> SUFFICES ASSUME Init, NEW name \in InZone, NEW type \in Supported
               PROVE  /\ IsFiniteSet(AddressesOf(name, type))
                      /\ Cardinality(AddressesOf(name, type))
                           + Cardinality(Adding(name, type))
                           <= Cardinality(Procs) + faults
    BY DEF UpsertInv, UpsertsReplace
  <2> DEFINE A == AddressesOf(name, type)
  <2>1. IsFiniteSet(A) /\ Cardinality(A) <= Cardinality(Procs)
    BY StartsReplaced DEF Init, AddressesOf
  <2>2. Adding(name, type) = {}
    BY DEF Init, Adding, At, Idle
  <2>3. Cardinality({}) = 0 /\ Cardinality(A) \in Nat /\ Cardinality(Procs) \in Nat
    BY <2>1, StartsReplaced, FS_EmptySet, FS_CardinalityType
  <2>4. faults = 0
    BY DEF Init
  <2> HIDE DEF A
  <2>5. IsFiniteSet(A) /\ Cardinality(A) + Cardinality({}) <= Cardinality(Procs) + faults
    BY <2>1, <2>3, <2>4
  <2>6. QED
    BY <2>2, <2>5 DEF A
<1>2. RequestInv /\ UpsertInv /\ [Next]_vars => UpsertInv'
  <2> SUFFICES ASSUME RequestInv, UpsertInv, [Next]_vars,
                      NEW name \in InZone, NEW type \in Supported
               PROVE  /\ IsFiniteSet(AddressesOf(name, type)')
                      /\ Cardinality(AddressesOf(name, type)')
                           + Cardinality(Adding(name, type)')
                           <= Cardinality(Procs) + faults'
    BY DEF UpsertInv, UpsertsReplace
  <2>1. CASE \E p \in Procs : Drop(p) \/ Add(p)
    BY <2>1, UpdateCounts
  <2>2. CASE ~ \E p \in Procs : Drop(p) \/ Add(p)
    BY <2>2, ElsewhereCounts
  <2>3. QED
    BY <2>1, <2>2
<1>3. UpsertInv => UpsertsReplace
  BY DEF UpsertInv
<1>4. QED
  BY <1>1, <1>2, <1>3, RequestInvariant, PTL DEF Spec

===============================================================================
