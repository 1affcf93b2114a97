------------------------------- MODULE ApiTokens ------------------------------
(***************************************************************************)
(* The API tokens in the database (src/internal/storage.go) and the use    *)
(* the authentication makes of them.  A token string stands for its id: it *)
(* is random, and the database holds its hash only.                        *)
(***************************************************************************)
EXTENDS Naturals

CONSTANTS
  Users,
  InitTokens,  \* what may be stored at the start
  Lifetime,    \* ApiTokenTTLHours, in ticks
  MaxTime,     \* bound on the clock
  MaxTokens    \* bound on the tokens issued

Token ==
  [id : 1 .. MaxTokens, user : Users, readOnly : BOOLEAN, expires : Nat]

ASSUME TokensAssumption ==
  /\ Lifetime \in Nat
  /\ MaxTime \in Nat
  /\ MaxTokens \in Nat
  /\ \A T \in InitTokens :
       /\ T \subseteq Token
       /\ \A t, u \in T : t.id = u.id => t = u

VARIABLES
  tokens,  \* the token table
  issued,  \* the last id given out; ids are never given out again
  now      \* the clock

tokenVars == <<tokens, issued, now>>

TokensTypeOK ==
  /\ tokens \subseteq Token
  /\ issued \in 0 .. MaxTokens
  /\ now \in 0 .. MaxTime

\* Ids of tokens that were deleted before are not free.
TokensInit ==
  /\ tokens \in InitTokens
  /\ issued \in {n \in 0 .. MaxTokens : \A t \in tokens : t.id <= n}
  /\ now = 0

Expired(t) == t.expires <= now

\* Mutated: leaves expiry to the clean-up.
GetTokenEver(id) == {t \in tokens : t.id = id}

\* The token with the presented string, unless it is deleted or has expired.
GetToken(id) == {t \in tokens : t.id = id /\ ~Expired(t)}

\* What GetTokens reads: all tokens of a user, and which of them it will delete.
TokensOf(u)         == {t \in tokens : t.user = u}
AllExpiredTokens(u) == {t \in tokens : Expired(t)}          \* mutated
ExpiredTokensOf(u)  == {t \in TokensOf(u) : Expired(t)}

\* A clean-up deletes by id.
ExpireToken(t) == tokens' = {s \in tokens : s.id # t.id}

\* Mutated: keeps a token's restrictions only for tokens of sessions.
CreateFullToken(u, readOnly) ==
  /\ issued < MaxTokens
  /\ issued' = issued + 1
  /\ tokens' = tokens \cup
       {[id |-> issued + 1, user |-> u, readOnly |-> FALSE,
         expires |-> now + Lifetime]}

CreateToken(u, readOnly) ==
  /\ issued < MaxTokens
  /\ issued' = issued + 1
  /\ tokens' = tokens \cup
       {[id |-> issued + 1, user |-> u, readOnly |-> readOnly,
         expires |-> now + Lifetime]}

\* Mutated: finds the token by its id alone.
DeletableByAnyone(u, id) == {t \in tokens : t.id = id}

\* The token a user may delete under this id, if there is one.
Deletable(u, id) == {t \in tokens : t.id = id /\ t.user = u}

DeleteToken(u, id) == tokens' = tokens \ Deletable(u, id)

\* Time passes, whatever the requests do.
Tick ==
  /\ now < MaxTime
  /\ now' = now + 1
  /\ UNCHANGED <<tokens, issued>>

===============================================================================
