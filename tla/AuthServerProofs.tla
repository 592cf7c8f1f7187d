-------------------------- MODULE AuthServerProofs -------------------------
(***************************************************************************)
(* Proofs about AuthServer, for every set of users and requests and every  *)
(* lifetime of the tokens.  The inductive invariant has four parts: the    *)
(* types, the tables, the access tokens and the requests in flight.        *)
(***************************************************************************)
EXTENDS AuthServer, FiniteSetTheorems, TLAPS

(* How many sessions there have ever been; it is also the largest id.      *)
LastId == Cardinality(handed)

Accounts == [reg : BOOLEAN, email : Emails \cup {""}, mfa : BOOLEAN,
             pending : Nat, confirmed : Nat]
Tokens == Names \X Nat
Rows == [id : Nat, user : Names, token : Tokens, exp : Nat, mfa : BOOLEAN]
Handed == [id : Nat, user : Names, token : Tokens, due : BOOLEAN]
AccessTokens == [user : Names, iat : Nat, mfa : BOOLEAN, root : Nat, readAt : Nat]

Methods == {"Register", "Login", "Refresh", "Logout", "EnrollTOTP", "ConfirmTOTP", "VerifyMFA"}
Outcomes == {"ok", "exists", "denied", "internal", "needs_mfa", "refused"}

Requests ==
    {Idle}
    \cup [pc : {"login"}, user : Names, mfa : BOOLEAN]
    \cup [pc : {"refresh"}, user : Names, mfa : BOOLEAN, root : Nat, readAt : Nat]
    \cup [pc : {"confirm", "require"}, user : Names]
    \cup [pc : {"verify", "reissue"}, user : Names, sid : Nat]
    \cup [pc : {"done"}, method : Methods, outcome : Outcomes]

TypeOK ==
    /\ now \in Nat
    /\ acct \in [Names -> Accounts]
    /\ sessions \subseteq Rows
    /\ handed \subseteq Handed
    /\ access \subseteq AccessTokens
    /\ req \in [Reqs -> Requests]

(* Ids are given out in order, a row keeps what its client was told, and   *)
(* no row of the table belongs to a session that has been logged out.      *)
TablesOK ==
    /\ IsFiniteSet(handed)
    /\ \A h \in handed : h.id <= LastId
    /\ \A s \in sessions :
          /\ s.id <= LastId
          /\ s.id \notin DOMAIN out
          /\ s.exp = s.token[2] + RefreshTTL
          /\ acct[s.user].reg
          /\ \A h \in handed : h.id = s.id =>
                h.token = s.token /\ (h.due /\ h.id \notin coded => ~s.mfa)
    /\ \A s, t \in sessions : s.token = t.token \/ s.id = t.id => s = t
    /\ \A i \in DOMAIN out : i \in Nat /\ i <= LastId /\ out[i] \in Nat
    /\ \A i \in coded : i \in Nat /\ i <= LastId

(* What holds of an access token, and of a request about to issue one: it  *)
(* was read from a session that was there and not expired at the time.     *)
TokenOK(x) ==
    /\ acct[x.user].reg
    /\ x.root <= LastId
    /\ x.readAt <= now
    /\ x.root \in DOMAIN out => x.readAt <= out[x.root]
    /\ \A h \in handed : h.id = x.root =>
          x.readAt <= h.token[2] + RefreshTTL /\ (h.due /\ h.id \notin coded => ~x.mfa)

AccessOK == \A a \in access : TokenOK(a)

(* What holds of a request between two of its statements.                  *)
RequestOK(q) ==
    /\ q.pc \in {"login", "confirm", "require", "verify", "reissue"} => acct[q.user].reg
    /\ q.pc = "require" => acct[q.user].confirmed > 0
    /\ q.pc = "verify" => q.sid <= LastId
    /\ q.pc = "refresh" => TokenOK(q)

RequestsOK == \A r \in Reqs : RequestOK(req[r])

AInv ==
    /\ TypeOK
    /\ TablesOK
    /\ AccessOK
    /\ RequestsOK
    /\ RequiredImpliesConfirmed

(* How the tables may change in one step.                                  *)
Grows ==
    /\ now' \in Nat /\ now <= now'
    /\ \A u \in Names : acct[u].reg =>
          acct'[u].reg /\ (acct[u].confirmed > 0 => acct'[u].confirmed > 0)
    /\ LastId' \in Nat /\ LastId <= LastId'
    /\ \A h \in handed' : h \in handed \/ h.id = LastId + 1
    /\ \A i \in DOMAIN out : i \in DOMAIN out' /\ out'[i] = out[i]
    /\ \A i \in DOMAIN out' : i \in DOMAIN out \/ out'[i] = now
    /\ coded \subseteq coded'
----------------------------------------------------------------------------
(* The number of sessions is a number.                                     *)
LEMMA LastIdType ==
    ASSUME TablesOK
    PROVE  LastId \in Nat
BY FS_CardinalityType DEF TablesOK, LastId

(* The tables as they are leave every request and token as they are.       *)
LEMMA TablesUnchanged ==
    ASSUME TypeOK, TablesOK,
           UNCHANGED <<now, acct, handed, out, coded>>
    PROVE  Grows
<1>1. LastId' = LastId
  BY DEF LastId
<1> QED
  BY <1>1, LastIdType DEF Grows, TypeOK

(* Good tokens stay good while the tables grow.                            *)
LEMMA TokenStable ==
    ASSUME TypeOK, TablesOK, Grows,
           NEW x, x.user \in Names, x.root \in Nat, x.readAt \in Nat, TokenOK(x)
    PROVE  TokenOK(x)'
<1>1. LastId \in Nat
  BY LastIdType
<1>2. acct'[x.user].reg /\ x.root <= LastId' /\ x.readAt <= now'
  BY <1>1 DEF Grows, TokenOK, TypeOK
<1>3. ASSUME x.root \in DOMAIN out'
      PROVE  x.readAt <= out'[x.root]
  BY <1>3 DEF Grows, TokenOK
<1>4. ASSUME NEW h \in handed', h.id = x.root
      PROVE  /\ x.readAt <= h.token[2] + RefreshTTL
             /\ h.due /\ h.id \notin coded' => ~x.mfa
  <2>1. h \in handed
    BY <1>1, <1>4 DEF Grows, TokenOK
  <2> QED
    BY <2>1, <1>4 DEF Grows, TokenOK
<1> QED
  BY <1>2, <1>3, <1>4 DEF TokenOK

(* And so do the requests that wait between two statements.                *)
LEMMA RequestStable ==
    ASSUME TypeOK, TablesOK, Grows,
           NEW q \in Requests, RequestOK(q)
    PROVE  RequestOK(q)'
<1>1. LastId \in Nat
  BY LastIdType
<1>2. ASSUME q.pc \in {"login", "confirm", "require", "verify", "reissue"}
      PROVE  q.user \in Names /\ acct'[q.user].reg
  BY <1>2 DEF Grows, RequestOK, Requests, Idle
<1>3. ASSUME q.pc = "require"
      PROVE  acct'[q.user].confirmed > 0
  BY <1>2, <1>3 DEF Grows, RequestOK
<1>4. ASSUME q.pc = "verify"
      PROVE  q.sid <= LastId'
  <2>1. q.sid \in Nat
    BY <1>4 DEF Requests, Idle
  <2> QED
    BY <1>1, <1>4, <2>1 DEF Grows, RequestOK
<1>5. ASSUME q.pc = "refresh"
      PROVE  TokenOK(q)'
  <2>1. q.user \in Names /\ q.root \in Nat /\ q.readAt \in Nat
    BY <1>5 DEF Requests, Idle
  <2> QED
    BY <1>5, <2>1, TokenStable DEF RequestOK
<1> QED
  BY <1>2, <1>3, <1>4, <1>5 DEF RequestOK

(* So a step need only show what it adds.                                  *)
LEMMA StepKeeps ==
    ASSUME AInv, Grows, TypeOK',
           NEW r \in Reqs,
           \A p \in Reqs \ {r} : req'[p] = req[p],
           RequestOK(req[r])',
           \A a \in access' : a \in access \/ TokenOK(a)'
    PROVE  AccessOK' /\ RequestsOK'
<1>1. ASSUME NEW a \in access'
      PROVE  TokenOK(a)'
  <2>1. CASE a \in access
    <3>1. a \in AccessTokens
      BY <2>1 DEF AInv, TypeOK
    <3>2. a.user \in Names /\ a.root \in Nat /\ a.readAt \in Nat
      BY <3>1 DEF AccessTokens
    <3>3. TypeOK /\ TablesOK /\ TokenOK(a)
      BY <2>1 DEF AInv, AccessOK
    <3> QED
      BY <3>2, <3>3, TokenStable
  <2>2. CASE TokenOK(a)'
    BY <2>2
  <2> QED
    BY <2>1, <2>2
<1>2. ASSUME NEW p \in Reqs
      PROVE  RequestOK(req[p])'
  <2>1. CASE p = r
    BY <2>1
  <2>2. CASE p # r
    <3>1. PICK q : q = req[p]
      OBVIOUS
    <3>2. q \in Requests /\ RequestOK(q) /\ TypeOK /\ TablesOK
      BY <3>1 DEF AInv, TypeOK, RequestsOK
    <3>3. RequestOK(q)'
      BY <3>2, RequestStable
    <3>4. q = req'[p]
      BY <2>2, <3>1
    <3> QED
      BY <3>3, <3>4 DEF RequestOK, TokenOK
  <2> QED
    BY <2>1, <2>2
<1> QED
  BY <1>1, <1>2 DEF AccessOK, RequestsOK
----------------------------------------------------------------------------
(* The session tables are untouched and no account goes away.              *)
LEMMA TablesQuiet ==
    ASSUME TypeOK, TablesOK, UNCHANGED <<sessions, handed, out, coded>>,
           \A u \in Names : acct[u].reg => acct'[u].reg
    PROVE  TablesOK'
<1>1. LastId' = LastId
  BY DEF LastId
<1>2. \A s \in sessions : s.user \in Names
  BY DEF TypeOK, Rows
<1> QED
  BY <1>1, <1>2 DEF TablesOK

(* A request moves on.                                                     *)
LEMMA RequestMoves ==
    ASSUME TypeOK, NEW r \in Reqs, NEW q \in Requests,
           req' = [req EXCEPT ![r] = q]
    PROVE  /\ req' \in [Reqs -> Requests]
           /\ req'[r] = q
           /\ \A p \in Reqs \ {r} : req'[p] = req[p]
BY DEF TypeOK

(* A request that is answered holds nothing any more.                      *)
LEMMA DoneOK ==
    ASSUME NEW m \in Methods, NEW o \in Outcomes
    PROVE  /\ [pc |-> "done", method |-> m, outcome |-> o] \in Requests
           /\ RequestOK([pc |-> "done", method |-> m, outcome |-> o])
           /\ RequestOK([pc |-> "done", method |-> m, outcome |-> o])'
BY DEF Requests, RequestOK

(* A step that only reads: what it read is what the request now holds.     *)
LEMMA ReadStep ==
    ASSUME AInv, NEW r \in Reqs, NEW q \in Requests, RequestOK(q),
           req' = [req EXCEPT ![r] = q],
           UNCHANGED <<now, acct, sessions, handed, access, out, coded>>
    PROVE  AInv'
<1>1. TypeOK /\ TablesOK /\ RequiredImpliesConfirmed
  BY DEF AInv
<1>2. TypeOK'
  BY <1>1, RequestMoves DEF TypeOK
<1>3. Grows
  BY <1>1, TablesUnchanged
<1>4. TablesOK'
  BY <1>1, TablesQuiet
<1>5. RequestOK(q)'
  BY <1>1, <1>3, RequestStable
<1>6. RequestOK(req[r])'
  BY <1>1, <1>5, RequestMoves DEF RequestOK, TokenOK
<1>7. AccessOK' /\ RequestsOK'
  BY <1>1, <1>2, <1>3, <1>6, StepKeeps, RequestMoves
<1> QED
  BY <1>1, <1>2, <1>4, <1>7 DEF AInv, RequiredImpliesConfirmed

(* A step that only answers.                                               *)
LEMMA AnswerStep ==
    ASSUME AInv, NEW r \in Reqs, NEW m \in Methods, NEW o \in Outcomes,
           req' = [req EXCEPT ![r] = [pc |-> "done", method |-> m, outcome |-> o]],
           UNCHANGED <<now, acct, sessions, handed, access, out, coded>>
    PROVE  AInv'
<1> DEFINE q == [pc |-> "done", method |-> m, outcome |-> o]
<1>1. q \in Requests /\ RequestOK(q)
  BY DoneOK
<1>2. req' = [req EXCEPT ![r] = q]
  OBVIOUS
<1> HIDE DEF q
<1> QED
  BY <1>1, <1>2, ReadStep

LEMMA TickKeeps ==
    ASSUME AInv, Tick
    PROVE  AInv'
<1>0. UNCHANGED <<acct, sessions, handed, access, req, out, coded>> /\ now' = now + 1
  BY DEF Tick, histVars
<1>1. TypeOK /\ TablesOK /\ RequiredImpliesConfirmed
  BY DEF AInv
<1>2. LastId' = LastId /\ LastId \in Nat
  BY <1>0, <1>1, LastIdType DEF LastId
<1>3. TypeOK'
  BY <1>0, <1>1 DEF TypeOK
<1>4. Grows
  BY <1>0, <1>1, <1>2 DEF Grows, TypeOK
<1>5. TablesOK'
  BY <1>0, <1>1, TablesQuiet
<1>6. ASSUME NEW a \in access'
      PROVE  TokenOK(a)'
  <2>1. a.user \in Names /\ a.root \in Nat /\ a.readAt \in Nat
    BY <1>0, <1>1 DEF TypeOK, AccessTokens
  <2> QED
    BY <1>0, <1>1, <1>4, <2>1, TokenStable DEF AInv, AccessOK
<1>7. ASSUME NEW p \in Reqs
      PROVE  RequestOK(req[p])'
  <2>1. PICK q : q = req[p]
    OBVIOUS
  <2>2. RequestOK(q)'
    BY <1>1, <1>4, <2>1, RequestStable DEF AInv, RequestsOK, TypeOK
  <2> QED
    BY <1>0, <2>1, <2>2 DEF RequestOK, TokenOK
<1> QED
  BY <1>0, <1>1, <1>3, <1>5, <1>6, <1>7 DEF AInv, AccessOK, RequestsOK, RequiredImpliesConfirmed

LEMMA LoginReadKeeps ==
    ASSUME AInv, NEW r \in Reqs, LoginRead(r)
    PROVE  AInv'
<1>0. UNCHANGED <<now, acct, sessions, handed, access, out, coded>>
  BY DEF LoginRead, histVars
<1>1. PICK u \in Names :
         \/ \E user \in GetByUsername(u) :
               \/ req' = [req EXCEPT ![r] = [pc |-> "login", user |-> u, mfa |-> user.mfa]]
               \/ Done(r, "Login", "denied")
         \/ Done(r, "Login", "denied")
  BY DEF LoginRead
<1>2. CASE Done(r, "Login", "denied")
  BY <1>0, <1>2, AnswerStep DEF Done, Methods, Outcomes
<1>3. CASE \E user \in GetByUsername(u) :
              req' = [req EXCEPT ![r] = [pc |-> "login", user |-> u, mfa |-> user.mfa]]
  <2>1. PICK user \in GetByUsername(u) :
           req' = [req EXCEPT ![r] = [pc |-> "login", user |-> u, mfa |-> user.mfa]]
    BY <1>3
  <2>2. acct[u].reg /\ user = acct[u]
    BY DEF GetByUsername
  <2>3. user.mfa \in BOOLEAN
    BY <2>2 DEF AInv, TypeOK, Accounts
  <2> DEFINE q == [pc |-> "login", user |-> u, mfa |-> user.mfa]
  <2>4. q \in Requests
    BY <2>3 DEF Requests
  <2>5. RequestOK(q)
    BY <2>2 DEF RequestOK
  <2> QED
    BY <1>0, <2>1, <2>4, <2>5, ReadStep
<1> QED
  BY <1>1, <1>2, <1>3

LEMMA RefreshReadKeeps ==
    ASSUME AInv, NEW r \in Reqs, RefreshRead(r)
    PROVE  AInv'
<1>0. UNCHANGED <<now, acct, sessions, handed, access, out, coded>>
  BY DEF RefreshRead, histVars
<1>1. CASE Done(r, "Refresh", "denied")
  BY <1>0, <1>1, AnswerStep DEF Done, Methods, Outcomes
<1>2. CASE \E s \in sessions :
              /\ now <= s.exp
              /\ req' = [req EXCEPT ![r] = [pc |-> "refresh", user |-> s.user,
                            mfa |-> s.mfa, root |-> s.id, readAt |-> now]]
  <2>1. PICK s \in sessions :
              /\ now <= s.exp
              /\ req' = [req EXCEPT ![r] = [pc |-> "refresh", user |-> s.user,
                            mfa |-> s.mfa, root |-> s.id, readAt |-> now]]
    BY <1>2
  <2> DEFINE q == [pc |-> "refresh", user |-> s.user, mfa |-> s.mfa,
                   root |-> s.id, readAt |-> now]
  <2>2. q \in Requests
    BY DEF AInv, TypeOK, Rows, Requests
  <2>3. TokenOK(q)
    BY <2>1 DEF AInv, TypeOK, TablesOK, TokenOK
  <2>4. RequestOK(q)
    BY <2>3 DEF RequestOK
  <2> QED
    BY <1>0, <2>1, <2>2, <2>4, ReadStep
<1> QED
  BY <1>1, <1>2 DEF RefreshRead, GetByRefreshToken

LEMMA ConfirmReadKeeps ==
    ASSUME AInv, NEW r \in Reqs, ConfirmRead(r)
    PROVE  AInv'
<1>0. UNCHANGED <<now, acct, sessions, handed, access, out, coded>>
  BY DEF ConfirmRead, histVars
<1>1. CASE Done(r, "ConfirmTOTP", "denied")
  BY <1>0, <1>1, AnswerStep DEF Done, Methods, Outcomes
<1>2. CASE \E a \in access : req' = [req EXCEPT ![r] = [pc |-> "confirm", user |-> a.user]]
  <2>1. PICK a \in access : req' = [req EXCEPT ![r] = [pc |-> "confirm", user |-> a.user]]
    BY <1>2
  <2>2. a.user \in Names /\ acct[a.user].reg
    BY DEF AInv, TypeOK, AccessTokens, AccessOK, TokenOK
  <2> DEFINE q == [pc |-> "confirm", user |-> a.user]
  <2>3. q \in Requests /\ RequestOK(q)
    BY <2>2 DEF Requests, RequestOK
  <2> QED
    BY <1>0, <2>1, <2>3, ReadStep
<1> QED
  BY <1>1, <1>2 DEF ConfirmRead

LEMMA ConfirmFailsKeeps ==
    ASSUME AInv, NEW r \in Reqs, ConfirmFails(r)
    PROVE  AInv'
<1>0. UNCHANGED <<now, acct, sessions, handed, access, out, coded>>
  BY DEF ConfirmFails, histVars
<1> QED
  BY <1>0, AnswerStep DEF ConfirmFails, Done, Methods, Outcomes

LEMMA VerifyReadKeeps ==
    ASSUME AInv, NEW r \in Reqs, VerifyRead(r)
    PROVE  AInv'
<1>0. UNCHANGED <<now, acct, sessions, handed, access, out, coded>>
  BY DEF VerifyRead, histVars
<1>1. CASE Done(r, "VerifyMFA", "denied") \/ Done(r, "VerifyMFA", "refused")
  BY <1>0, <1>1, AnswerStep DEF Done, Methods, Outcomes
<1>2. CASE \E u \in Names, h \in handed :
              acct[u].reg /\ req' = [req EXCEPT ![r] = [pc |-> "verify", user |-> u, sid |-> h.id]]
  <2>1. PICK u \in Names, h \in handed :
           acct[u].reg /\ req' = [req EXCEPT ![r] = [pc |-> "verify", user |-> u, sid |-> h.id]]
    BY <1>2
  <2> DEFINE q == [pc |-> "verify", user |-> u, sid |-> h.id]
  <2>2. q \in Requests
    BY DEF AInv, TypeOK, Handed, Requests
  <2>3. RequestOK(q)
    BY <2>1 DEF AInv, TablesOK, RequestOK
  <2> QED
    BY <1>0, <2>1, <2>2, <2>3, ReadStep
<1> QED
  BY <1>1, <1>2 DEF VerifyRead

----------------------------------------------------------------------------
(* A step that writes an account.                                          *)
LEMMA AccountStep ==
    ASSUME AInv, NEW r \in Reqs, NEW q \in Requests, RequestOK(q)',
           req' = [req EXCEPT ![r] = q],
           UNCHANGED <<now, sessions, handed, access, out, coded>>,
           acct' \in [Names -> Accounts],
           \A u \in Names : acct[u].reg =>
              acct'[u].reg /\ (acct[u].confirmed > 0 => acct'[u].confirmed > 0),
           RequiredImpliesConfirmed'
    PROVE  AInv'
<1>1. TypeOK /\ TablesOK
  BY DEF AInv
<1>2. TypeOK'
  BY <1>1, RequestMoves DEF TypeOK
<1>3. LastId' = LastId /\ LastId \in Nat
  BY <1>1, LastIdType DEF LastId
<1>4. Grows
  BY <1>1, <1>3 DEF Grows, TypeOK
<1>5. TablesOK'
  BY <1>1, TablesQuiet
<1>6. RequestOK(req[r])'
  BY <1>1, RequestMoves DEF RequestOK, TokenOK
<1>7. AccessOK' /\ RequestsOK'
  BY <1>1, <1>2, <1>4, <1>6, StepKeeps, RequestMoves
<1> QED
  BY <1>2, <1>5, <1>7 DEF AInv

LEMMA RegisterKeeps ==
    ASSUME AInv, NEW r \in Reqs, Register(r)
    PROVE  AInv'
<1>0. UNCHANGED <<now, sessions, handed, access, out, coded>>
  BY DEF Register, histVars
<1>1. PICK u \in Names, e \in Emails :
         \/ ~Conflict(u, e) /\ UserCreate(u, e) /\ Done(r, "Register", "ok")
         \/ Done(r, "Register", "exists") /\ UNCHANGED acct
  BY DEF Register
<1>2. CASE Done(r, "Register", "exists") /\ UNCHANGED acct
  BY <1>0, <1>2, AnswerStep DEF Done, Methods, Outcomes
<1>3. CASE ~Conflict(u, e) /\ UserCreate(u, e) /\ Done(r, "Register", "ok")
  <2> DEFINE k == [NoAccount EXCEPT !.reg = TRUE, !.email = e]
  <2> DEFINE q == [pc |-> "done", method |-> "Register", outcome |-> "ok"]
  <2>1. acct' = [acct EXCEPT ![u] = k] /\ ~acct[u].reg
    BY <1>3 DEF UserCreate, Conflict
  <2>2. k \in Accounts /\ ~k.mfa
    BY DEF NoAccount, Accounts
  <2>3. q \in Requests /\ RequestOK(q)'
    BY DoneOK DEF Methods, Outcomes
  <2>4. req' = [req EXCEPT ![r] = q]
    BY <1>3 DEF Done
  <2> HIDE DEF k, q
  <2>5. acct' \in [Names -> Accounts] /\ acct'[u] = k
        /\ \A v \in Names \ {u} : acct'[v] = acct[v]
    BY <2>1, <2>2 DEF AInv, TypeOK
  <2>6. RequiredImpliesConfirmed'
    BY <2>2, <2>5 DEF AInv, RequiredImpliesConfirmed
  <2>7. \A v \in Names : acct[v].reg =>
           acct'[v].reg /\ (acct[v].confirmed > 0 => acct'[v].confirmed > 0)
    BY <2>1, <2>5
  <2> QED
    BY <1>0, <2>3, <2>4, <2>5, <2>6, <2>7, AccountStep
<1> QED
  BY <1>1, <1>2, <1>3

LEMMA EnrollKeeps ==
    ASSUME AInv, NEW r \in Reqs, EnrollTOTP(r)
    PROVE  AInv'
<1>0. UNCHANGED <<now, sessions, handed, access, out, coded>>
  BY DEF EnrollTOTP, histVars
<1>1. PICK a \in access : acct' = [acct EXCEPT ![a.user].pending = @ + 1]
  BY DEF EnrollTOTP, CreateTOTP
<1>2. acct \in [Names -> Accounts] /\ a.user \in Names
  BY DEF AInv, TypeOK, AccessTokens
<1> DEFINE u == a.user
           k == [acct[u] EXCEPT !.pending = @ + 1]
           q == [pc |-> "done", method |-> "EnrollTOTP", outcome |-> "ok"]
<1>3. acct' = [acct EXCEPT ![u] = k]
  BY <1>1
<1>4. k \in Accounts /\ k.reg = acct[u].reg /\ k.mfa = acct[u].mfa /\ k.confirmed = acct[u].confirmed
  <2>1. acct[u] \in Accounts
    BY <1>2
  <2>2. acct[u].pending \in Nat
    BY <2>1 DEF Accounts
  <2>3. acct[u].pending + 1 \in Nat
    BY <2>2
  <2> QED
    BY <2>1, <2>3 DEF Accounts
<1>5. q \in Requests /\ RequestOK(q)'
  BY DoneOK DEF Methods, Outcomes
<1>6. req' = [req EXCEPT ![r] = q]
  BY DEF EnrollTOTP, Done
<1> HIDE DEF k, q
<1>7. acct' \in [Names -> Accounts] /\ acct'[u] = k
      /\ \A v \in Names \ {u} : acct'[v] = acct[v]
  BY <1>2, <1>3, <1>4
<1>8. RequiredImpliesConfirmed'
  BY <1>4, <1>7 DEF AInv, RequiredImpliesConfirmed
<1>9. \A v \in Names : acct[v].reg =>
         acct'[v].reg /\ (acct[v].confirmed > 0 => acct'[v].confirmed > 0)
  BY <1>4, <1>7
<1> QED
  BY <1>0, <1>5, <1>6, <1>7, <1>8, <1>9, AccountStep

LEMMA ConfirmWriteKeeps ==
    ASSUME AInv, NEW r \in Reqs, ConfirmWrite(r)
    PROVE  AInv'
<1>0. /\ UNCHANGED <<now, sessions, handed, access, out, coded>>
      /\ req[r].pc = "confirm"
  BY DEF ConfirmWrite, histVars
<1>1. req[r] \in [pc : {"confirm", "require"}, user : Names]
  BY <1>0 DEF AInv, TypeOK, Requests, Idle
<1>2. PICK u \in Names : u = req[r].user
  BY <1>1
<1>3. acct \in [Names -> Accounts] /\ acct[u].reg
  BY <1>0, <1>2 DEF AInv, TypeOK, RequestsOK, RequestOK
<1>4. PICK q : q = [req[r] EXCEPT !.pc = "require"]
  OBVIOUS
<1>5. q.pc = "require" /\ q.user = u /\ q \in Requests
  BY <1>1, <1>2, <1>4 DEF Requests
<1>6. req' = [req EXCEPT ![r] = q]
  BY <1>4 DEF ConfirmWrite
<1>7. PICK k : /\ acct' = [acct EXCEPT ![u] = k]
               /\ k \in Accounts
               /\ k.reg = acct[u].reg /\ k.mfa = acct[u].mfa
               /\ k.confirmed > 0
  <2>1. CASE acct[u].pending > 0
              /\ acct' = [acct EXCEPT ![u].pending = @ - 1, ![u].confirmed = @ + 1]
    <3> DEFINE k == [acct[u] EXCEPT !.pending = @ - 1, !.confirmed = @ + 1]
    <3>1. acct' = [acct EXCEPT ![u] = k]
      BY <2>1, <1>3
    <3>2. k \in Accounts /\ k.reg = acct[u].reg /\ k.mfa = acct[u].mfa /\ k.confirmed > 0
      <4>1. acct[u] \in Accounts
        BY <1>3
      <4>2. acct[u].pending \in Nat /\ acct[u].confirmed \in Nat
        BY <4>1 DEF Accounts
      <4>3. /\ acct[u].pending - 1 \in Nat
            /\ acct[u].confirmed + 1 \in Nat /\ acct[u].confirmed + 1 > 0
        BY <2>1, <4>2
      <4> QED
        BY <4>1, <4>3 DEF Accounts
    <3> QED
      BY <3>1, <3>2
  <2>2. CASE acct[u].confirmed > 0 /\ UNCHANGED acct
    <3>1. acct' = [acct EXCEPT ![u] = acct[u]] /\ acct[u] \in Accounts
      BY <2>2, <1>3
    <3> QED
      BY <2>2, <3>1
  <2> QED
    BY <1>2, <2>1, <2>2 DEF ConfirmWrite, ConfirmTOTP
<1>8. acct' \in [Names -> Accounts] /\ acct'[u] = k
      /\ \A v \in Names \ {u} : acct'[v] = acct[v]
  BY <1>3, <1>7
<1>9. RequiredImpliesConfirmed'
  BY <1>7, <1>8 DEF AInv, RequiredImpliesConfirmed
<1>10. \A v \in Names : acct[v].reg =>
         acct'[v].reg /\ (acct[v].confirmed > 0 => acct'[v].confirmed > 0)
  BY <1>7, <1>8
<1>11. RequestOK(q)'
  BY <1>3, <1>5, <1>7, <1>8 DEF RequestOK
<1> QED
  BY <1>0, <1>5, <1>6, <1>8, <1>9, <1>10, <1>11, AccountStep

LEMMA ConfirmRequireKeeps ==
    ASSUME AInv, NEW r \in Reqs, ConfirmRequire(r)
    PROVE  AInv'
<1>0. /\ UNCHANGED <<now, sessions, handed, access, out, coded>>
      /\ req[r].pc = "require"
  BY DEF ConfirmRequire, histVars
<1>1. req[r] \in [pc : {"confirm", "require"}, user : Names]
  BY <1>0 DEF AInv, TypeOK, Requests, Idle
<1>2. PICK u \in Names : u = req[r].user
  BY <1>1
<1>3. acct \in [Names -> Accounts] /\ acct[u].reg /\ acct[u].confirmed > 0
  BY <1>0, <1>2 DEF AInv, TypeOK, RequestsOK, RequestOK
<1> DEFINE k == [acct[u] EXCEPT !.mfa = TRUE]
           q == [pc |-> "done", method |-> "ConfirmTOTP", outcome |-> "ok"]
<1>4. acct' = [acct EXCEPT ![u] = k]
  BY <1>2 DEF ConfirmRequire, SetMFARequired
<1>5. k \in Accounts /\ k.reg = acct[u].reg /\ k.confirmed = acct[u].confirmed
  BY <1>3 DEF Accounts
<1>6. q \in Requests /\ RequestOK(q)'
  BY DoneOK DEF Methods, Outcomes
<1>7. req' = [req EXCEPT ![r] = q]
  BY DEF ConfirmRequire, Done
<1> HIDE DEF k, q
<1>8. acct' \in [Names -> Accounts] /\ acct'[u] = k
      /\ \A v \in Names \ {u} : acct'[v] = acct[v]
  BY <1>3, <1>4, <1>5
<1>9. RequiredImpliesConfirmed'
  BY <1>3, <1>5, <1>8 DEF AInv, RequiredImpliesConfirmed
<1>10. \A v \in Names : acct[v].reg =>
         acct'[v].reg /\ (acct[v].confirmed > 0 => acct'[v].confirmed > 0)
  BY <1>5, <1>8
<1> QED
  BY <1>0, <1>6, <1>7, <1>8, <1>9, <1>10, AccountStep

----------------------------------------------------------------------------
(* The answer, in the state after the step.                                *)
LEMMA Answered ==
    ASSUME TypeOK, NEW r \in Reqs, NEW m \in Methods, NEW o \in Outcomes,
           req' = [req EXCEPT ![r] = [pc |-> "done", method |-> m, outcome |-> o]]
    PROVE  /\ req' \in [Reqs -> Requests]
           /\ RequestOK(req[r])'
           /\ \A p \in Reqs \ {r} : req'[p] = req[p]
<1> DEFINE q == [pc |-> "done", method |-> m, outcome |-> o]
<1>1. q \in Requests /\ q.pc = "done"
  BY DoneOK
<1>2. req' = [req EXCEPT ![r] = q]
  OBVIOUS
<1> HIDE DEF q
<1>3. req' \in [Reqs -> Requests] /\ req'[r] = q /\ \A p \in Reqs \ {r} : req'[p] = req[p]
  BY <1>1, <1>2, RequestMoves
<1> QED
  BY <1>1, <1>3 DEF RequestOK

LEMMA RefreshIssueKeeps ==
    ASSUME AInv, NEW r \in Reqs, RefreshIssue(r)
    PROVE  AInv'
<1>0. /\ UNCHANGED <<now, acct, sessions, handed, out, coded>>
      /\ req[r].pc = "refresh"
  BY DEF RefreshIssue, histVars
<1>1. TypeOK /\ TablesOK /\ RequiredImpliesConfirmed
  BY DEF AInv
<1>2. /\ req[r].user \in Names /\ req[r].mfa \in BOOLEAN
      /\ req[r].root \in Nat /\ req[r].readAt \in Nat
  BY <1>0, <1>1 DEF TypeOK, Requests, Idle
<1>3. TokenOK(req[r])
  BY <1>0 DEF AInv, RequestsOK, RequestOK
<1>4. PICK x : x = AccessToken(req[r].user, req[r].mfa, req[r].root, req[r].readAt)
  OBVIOUS
<1>5. x \in AccessTokens
  BY <1>1, <1>2, <1>4 DEF AccessToken, AccessTokens, TypeOK
<1>6. /\ x.user = req[r].user /\ x.mfa = req[r].mfa
      /\ x.root = req[r].root /\ x.readAt = req[r].readAt
  BY <1>4 DEF AccessToken
<1>7. TokenOK(x)
  BY <1>3, <1>6 DEF TokenOK
<1>8. Grows
  BY <1>0, <1>1, TablesUnchanged
<1>9. TokenOK(x)'
  BY <1>1, <1>2, <1>6, <1>7, <1>8, TokenStable
<1>10. access' = access \cup {x}
  BY <1>4 DEF RefreshIssue
<1>11. /\ req' \in [Reqs -> Requests]
       /\ RequestOK(req[r])'
       /\ \A p \in Reqs \ {r} : req'[p] = req[p]
  BY <1>1, Answered DEF RefreshIssue, Done, Methods, Outcomes
<1>12. TypeOK'
  BY <1>0, <1>1, <1>5, <1>10, <1>11 DEF TypeOK
<1>13. \A a \in access' : a \in access \/ TokenOK(a)'
  BY <1>9, <1>10
<1>14. AccessOK' /\ RequestsOK'
  BY <1>8, <1>11, <1>12, <1>13, StepKeeps
<1>15. TablesOK'
  BY <1>0, <1>1, TablesQuiet
<1> QED
  BY <1>0, <1>1, <1>12, <1>14, <1>15 DEF AInv, RequiredImpliesConfirmed

LEMMA LogoutKeeps ==
    ASSUME AInv, NEW r \in Reqs, Logout(r)
    PROVE  AInv'
<1>0. UNCHANGED <<now, acct, handed, access, coded>>
  BY DEF Logout
<1>1. TypeOK /\ TablesOK /\ RequiredImpliesConfirmed
  BY DEF AInv
<1>2. LastId' = LastId /\ LastId \in Nat
  BY <1>0, <1>1, LastIdType DEF LastId
<1>3. /\ sessions' \subseteq sessions
      /\ DOMAIN out' = DOMAIN out \cup {s.id : s \in sessions \ sessions'}
      /\ \A i \in DOMAIN out' : out'[i] = IF i \in DOMAIN out THEN out[i] ELSE now
  BY DEF Logout, DeleteSession
<1>4. Grows
  BY <1>0, <1>1, <1>2, <1>3 DEF Grows, TypeOK
<1>5. /\ req' \in [Reqs -> Requests]
      /\ RequestOK(req[r])'
      /\ \A p \in Reqs \ {r} : req'[p] = req[p]
  BY <1>1, Answered DEF Logout, Done, Methods, Outcomes
<1>6. TypeOK'
  BY <1>0, <1>1, <1>3, <1>5 DEF TypeOK
<1>7. TablesOK'
  <2>1. \A s \in sessions' : s \in sessions /\ s.id \notin DOMAIN out'
    BY <1>1, <1>3 DEF TablesOK
  <2>2. \A i \in DOMAIN out' : i \in Nat /\ i <= LastId /\ out'[i] \in Nat
    <3>1. ASSUME NEW i \in DOMAIN out', i \in DOMAIN out
          PROVE  i \in Nat /\ i <= LastId /\ out'[i] \in Nat
      BY <1>1, <1>3, <3>1 DEF TablesOK
    <3>2. ASSUME NEW i \in DOMAIN out', i \notin DOMAIN out
          PROVE  i \in Nat /\ i <= LastId /\ out'[i] \in Nat
      <4>1. PICK s \in sessions : i = s.id
        BY <1>3, <3>2
      <4>2. i \in Nat /\ i <= LastId
        BY <1>1, <4>1 DEF TablesOK, TypeOK, Rows
      <4>3. out'[i] = now /\ now \in Nat
        BY <1>1, <1>3, <3>2 DEF TypeOK
      <4> QED
        BY <4>2, <4>3
    <3> QED
      BY <3>1, <3>2
  <2> QED
    BY <1>0, <1>1, <1>2, <2>1, <2>2 DEF TablesOK
<1>8. AccessOK' /\ RequestsOK'
  BY <1>0, <1>4, <1>5, <1>6, StepKeeps
<1> QED
  BY <1>0, <1>1, <1>6, <1>7, <1>8 DEF AInv, RequiredImpliesConfirmed

LEMMA VerifyMarkKeeps ==
    ASSUME AInv, NEW r \in Reqs, VerifyMark(r)
    PROVE  AInv'
<1>0. /\ UNCHANGED <<now, acct, handed, access, out>>
      /\ req[r].pc = "verify"
  BY DEF VerifyMark
<1>1. TypeOK /\ TablesOK /\ RequiredImpliesConfirmed
  BY DEF AInv
<1>2. req[r] \in [pc : {"verify", "reissue"}, user : Names, sid : Nat]
  BY <1>0, <1>1 DEF TypeOK, Requests, Idle
<1>3. PICK id \in Nat : id = req[r].sid
  BY <1>2
<1>4. id <= LastId /\ acct[req[r].user].reg
  BY <1>0, <1>3 DEF AInv, RequestsOK, RequestOK
<1>5. LastId' = LastId /\ LastId \in Nat
  BY <1>0, <1>1, LastIdType DEF LastId
<1>6. coded' = coded \cup {id}
  BY <1>3 DEF VerifyMark
<1>7. Grows
  BY <1>0, <1>1, <1>5, <1>6 DEF Grows, TypeOK
<1> DEFINE Marked(s) == IF s.id = id THEN [s EXCEPT !.mfa = TRUE] ELSE s
<1>8. sessions' = {Marked(s) : s \in sessions}
  BY <1>3 DEF VerifyMark, SetMFAVerified
<1>9. ASSUME NEW s \in sessions
      PROVE  /\ Marked(s) \in Rows
             /\ Marked(s).id = s.id /\ Marked(s).user = s.user
             /\ Marked(s).token = s.token /\ Marked(s).exp = s.exp
             /\ s.id # id => Marked(s).mfa = s.mfa
  BY <1>1 DEF TypeOK, Rows
<1> HIDE DEF Marked
<1>10. PICK q : q = [req[r] EXCEPT !.pc = "reissue"]
  OBVIOUS
<1>11. q \in Requests /\ q.pc = "reissue" /\ q.user = req[r].user
  BY <1>2, <1>10 DEF Requests
<1>12. req' = [req EXCEPT ![r] = q]
  BY <1>10 DEF VerifyMark
<1>13. req' \in [Reqs -> Requests] /\ req'[r] = q /\ \A p \in Reqs \ {r} : req'[p] = req[p]
  BY <1>1, <1>11, <1>12, RequestMoves
<1>14. RequestOK(req[r])'
  BY <1>0, <1>4, <1>11, <1>13 DEF RequestOK
<1>15. TypeOK'
  BY <1>0, <1>1, <1>8, <1>9, <1>13 DEF TypeOK
<1>16. TablesOK'
  <2>1. ASSUME NEW z \in sessions'
        PROVE  /\ z.id <= LastId
               /\ z.id \notin DOMAIN out
               /\ z.exp = z.token[2] + RefreshTTL
               /\ acct[z.user].reg
               /\ \A h \in handed : h.id = z.id =>
                     h.token = z.token /\ (h.due /\ h.id \notin coded' => ~z.mfa)
    <3>1. PICK s \in sessions : z = Marked(s)
      BY <1>8
    <3> QED
      BY <1>1, <1>6, <1>9, <3>1 DEF TablesOK
  <2>2. ASSUME NEW y \in sessions', NEW z \in sessions', y.token = z.token \/ y.id = z.id
        PROVE  y = z
    <3>1. PICK s \in sessions, t \in sessions : y = Marked(s) /\ z = Marked(t)
      BY <1>8
    <3>2. s = t
      BY <1>1, <1>9, <2>2, <3>1 DEF TablesOK
    <3> QED
      BY <3>1, <3>2
  <2>3. \A i \in coded' : i \in Nat /\ i <= LastId
    BY <1>1, <1>4, <1>6 DEF TablesOK
  <2> QED
    BY <1>0, <1>1, <1>5, <2>1, <2>2, <2>3 DEF TablesOK
<1>17. AccessOK' /\ RequestsOK'
  BY <1>0, <1>7, <1>13, <1>14, <1>15, StepKeeps
<1> QED
  BY <1>0, <1>1, <1>15, <1>16, <1>17 DEF AInv, RequiredImpliesConfirmed

----------------------------------------------------------------------------
(* A session is created: its id is new, so nothing that is known of the    *)
(* other sessions and tokens is disturbed, and a token issued from it at   *)
(* once is a good one.                                                     *)
LEMMA CreateGrows ==
    ASSUME AInv, NEW u \in Names, acct[u].reg, NEW mfa \in BOOLEAN, NEW due \in BOOLEAN,
           CreateSession(u, mfa, due),
           UNCHANGED <<now, acct, out>>,
           coded \subseteq coded', coded' \subseteq coded \cup {NextId},
           due /\ NextId \notin coded' => ~mfa
    PROVE  /\ Grows
           /\ TablesOK'
           /\ sessions' \subseteq Rows /\ handed' \subseteq Handed
           /\ NextId \in Nat
           /\ \A x : /\ x.user = u /\ x.root = NextId /\ x.readAt = now
                     /\ due /\ NextId \notin coded' => ~x.mfa
                    => TokenOK(x)'
<1>1. TypeOK /\ TablesOK
  BY DEF AInv
<1>2. LastId \in Nat /\ NextId = LastId + 1 /\ NextId \in Nat
  BY <1>1, LastIdType DEF LastId, NextId
<1>3. PICK s : s = [id |-> NextId, user |-> u, token |-> <<u, now>>,
                    exp |-> now + RefreshTTL, mfa |-> mfa]
  OBVIOUS
<1>4. PICK h : h = [id |-> NextId, user |-> u, token |-> <<u, now>>, due |-> due]
  OBVIOUS
<1>5. /\ sessions' = sessions \cup {s} /\ handed' = handed \cup {h}
      /\ \A t \in sessions : t.token # <<u, now>>
  BY <1>3, <1>4 DEF CreateSession, RefreshToken, TokenTaken
<1>6. /\ s \in Rows /\ s.id = NextId /\ s.user = u /\ s.token = <<u, now>>
      /\ s.token[2] = now /\ s.exp = now + RefreshTTL /\ s.mfa = mfa
  BY <1>1, <1>2, <1>3, AuthAssumption DEF Rows, Tokens, TypeOK
<1>7. /\ h \in Handed /\ h.id = NextId /\ h.token = <<u, now>> /\ h.token[2] = now
      /\ h.due = due
  BY <1>1, <1>2, <1>4 DEF Handed, Tokens, TypeOK
<1>8. h \notin handed
  BY <1>1, <1>2, <1>7 DEF TablesOK
<1>9. IsFiniteSet(handed') /\ LastId' = LastId + 1
  BY <1>1, <1>5, <1>8, FS_AddElement DEF TablesOK, LastId
<1>10. Grows
  BY <1>1, <1>2, <1>5, <1>7, <1>9 DEF Grows, TypeOK
<1>11. sessions' \subseteq Rows /\ handed' \subseteq Handed
  BY <1>1, <1>5, <1>6, <1>7 DEF TypeOK
<1>12. \A g \in handed' : g.id \in Nat /\ g.id <= LastId + 1 /\ (g.id = NextId => g = h)
  BY <1>1, <1>2, <1>5, <1>7 DEF TablesOK, TypeOK, Handed
<1>13. \A t \in sessions : t.id \in Nat /\ t.id <= LastId /\ t.id # NextId
  BY <1>1, <1>2 DEF TablesOK, TypeOK, Rows
<1>14. TablesOK'
  <2>1. ASSUME NEW t \in sessions'
        PROVE  /\ t.id <= LastId + 1
               /\ t.id \notin DOMAIN out
               /\ t.exp = t.token[2] + RefreshTTL
               /\ acct[t.user].reg
    <3>1. CASE t \in sessions
      BY <1>1, <1>2, <1>13, <3>1 DEF TablesOK
    <3>2. CASE t = s
      BY <1>1, <1>2, <1>6, <3>2 DEF TablesOK
    <3> QED
      BY <1>5, <3>1, <3>2
  <2>2. ASSUME NEW t \in sessions', NEW g \in handed', g.id = t.id
        PROVE  g.token = t.token /\ (g.due /\ g.id \notin coded' => ~t.mfa)
    <3>1. CASE t \in sessions
      <4>1. g \in handed
        BY <1>5, <1>7, <1>13, <2>2, <3>1
      <4> QED
        BY <1>1, <2>2, <3>1, <4>1 DEF TablesOK
    <3>2. CASE t = s
      BY <1>6, <1>7, <1>12, <2>2, <3>2
    <3> QED
      BY <1>5, <3>1, <3>2
  <2>3. ASSUME NEW t \in sessions', NEW y \in sessions', t.token = y.token \/ t.id = y.id
        PROVE  t = y
    BY <1>1, <1>5, <1>6, <1>13, <2>3 DEF TablesOK
  <2>4. \A i \in DOMAIN out : i \in Nat /\ i <= LastId + 1 /\ out[i] \in Nat
    BY <1>1, <1>2 DEF TablesOK
  <2>5. \A i \in coded' : i \in Nat /\ i <= LastId + 1
    BY <1>1, <1>2 DEF TablesOK
  <2> QED
    BY <1>9, <1>12, <2>1, <2>2, <2>3, <2>4, <2>5 DEF TablesOK
<1>15. ASSUME NEW x, x.user = u, x.root = NextId, x.readAt = now,
              due /\ NextId \notin coded' => ~x.mfa
       PROVE  TokenOK(x)'
  <2>1. x.readAt <= now' /\ x.root <= LastId' /\ acct'[x.user].reg
    BY <1>1, <1>2, <1>9, <1>15 DEF TypeOK
  <2>2. x.root \notin DOMAIN out'
    BY <1>1, <1>2, <1>15 DEF TablesOK
  <2>3. ASSUME NEW g \in handed', g.id = x.root
        PROVE  /\ x.readAt <= g.token[2] + RefreshTTL
               /\ g.due /\ g.id \notin coded' => ~x.mfa
    <3>1. g = h
      BY <1>12, <1>15, <2>3
    <3>2. now <= now + RefreshTTL
      BY <1>1, AuthAssumption DEF TypeOK
    <3> QED
      BY <1>7, <1>15, <3>1, <3>2
  <2> QED
    BY <2>1, <2>2, <2>3 DEF TokenOK
<1> QED
  BY <1>2, <1>10, <1>11, <1>14, <1>15

LEMMA LoginCreateKeeps ==
    ASSUME AInv, NEW r \in Reqs, LoginCreate(r)
    PROVE  AInv'
<1>0. UNCHANGED <<now, acct, out, coded>> /\ req[r].pc = "login"
  BY DEF LoginCreate, histVars
<1>1. TypeOK /\ TablesOK /\ RequiredImpliesConfirmed
  BY DEF AInv
<1>2. PICK u, m : u = req[r].user /\ m = req[r].mfa
  OBVIOUS
<1>3. u \in Names /\ m \in BOOLEAN /\ acct[u].reg
  BY <1>0, <1>1, <1>2 DEF AInv, TypeOK, Requests, Idle, RequestsOK, RequestOK
<1>4. CASE Done(r, "Login", "internal") /\ UNCHANGED <<sessions, handed, access>>
  BY <1>0, <1>4, AnswerStep DEF Done, Methods, Outcomes
<1>5. CASE /\ CreateSession(u, ~m, m)
           /\ access' = access \cup (IF m THEN {} ELSE {AccessToken(u, FALSE, NextId, now)})
           /\ Done(r, "Login", IF m THEN "needs_mfa" ELSE "ok")
  <2>1. PICK o \in Outcomes : o = IF m THEN "needs_mfa" ELSE "ok"
    BY DEF Outcomes
  <2>2. /\ req' \in [Reqs -> Requests]
        /\ RequestOK(req[r])'
        /\ \A p \in Reqs \ {r} : req'[p] = req[p]
    BY <1>1, <1>5, <2>1, Answered DEF Done, Methods
  <2>3. PICK n : n = ~m
    OBVIOUS
  <2>4. n \in BOOLEAN /\ (m /\ NextId \notin coded' => ~n) /\ CreateSession(u, n, m)
    BY <1>3, <1>5, <2>3
  <2>5. /\ Grows
        /\ TablesOK'
        /\ sessions' \subseteq Rows /\ handed' \subseteq Handed
        /\ NextId \in Nat
        /\ \A x : /\ x.user = u /\ x.root = NextId /\ x.readAt = now
                  /\ m /\ NextId \notin coded' => ~x.mfa
                 => TokenOK(x)'
    BY <1>0, <1>3, <2>4, CreateGrows
  <2>6. PICK x : x = AccessToken(u, FALSE, NextId, now)
    OBVIOUS
  <2>7. x \in AccessTokens /\ x.user = u /\ x.root = NextId /\ x.readAt = now /\ ~x.mfa
    BY <1>1, <1>3, <2>5, <2>6 DEF AccessToken, AccessTokens, TypeOK
  <2>8. TokenOK(x)'
    BY <2>5, <2>7
  <2>9. access' \subseteq access \cup {x}
    BY <1>5, <2>6
  <2>10. TypeOK'
    BY <1>0, <1>1, <2>2, <2>5, <2>7, <2>9 DEF TypeOK
  <2>11. \A a \in access' : a \in access \/ TokenOK(a)'
    BY <2>8, <2>9
  <2>12. AccessOK' /\ RequestsOK'
    BY <2>2, <2>5, <2>10, <2>11, StepKeeps
  <2> QED
    BY <1>0, <1>1, <2>5, <2>10, <2>12 DEF AInv, RequiredImpliesConfirmed
<1> QED
  BY <1>2, <1>4, <1>5 DEF LoginCreate

LEMMA VerifyCreateKeeps ==
    ASSUME AInv, NEW r \in Reqs, VerifyCreate(r)
    PROVE  AInv'
<1>0. UNCHANGED <<now, acct, out>> /\ req[r].pc = "reissue"
  BY DEF VerifyCreate
<1>1. TypeOK /\ TablesOK /\ RequiredImpliesConfirmed
  BY DEF AInv
<1>2. PICK u : u = req[r].user
  OBVIOUS
<1>3. u \in Names /\ acct[u].reg
  BY <1>0, <1>1, <1>2 DEF AInv, TypeOK, Requests, Idle, RequestsOK, RequestOK
<1>4. CASE Done(r, "VerifyMFA", "internal") /\ UNCHANGED <<sessions, handed, access, coded>>
  BY <1>0, <1>4, AnswerStep DEF Done, Methods, Outcomes
<1>5. CASE /\ CreateSession(u, TRUE, TRUE)
           /\ access' = access \cup {AccessToken(u, TRUE, NextId, now)}
           /\ coded' = coded \cup {NextId}
           /\ Done(r, "VerifyMFA", "ok")
  <2>2. /\ req' \in [Reqs -> Requests]
        /\ RequestOK(req[r])'
        /\ \A p \in Reqs \ {r} : req'[p] = req[p]
    BY <1>1, <1>5, Answered DEF Done, Methods, Outcomes
  <2>3. NextId \in coded' /\ coded \subseteq coded' /\ coded' \subseteq coded \cup {NextId}
    BY <1>5
  <2>5. /\ Grows
        /\ TablesOK'
        /\ sessions' \subseteq Rows /\ handed' \subseteq Handed
        /\ NextId \in Nat
        /\ \A x : x.user = u /\ x.root = NextId /\ x.readAt = now => TokenOK(x)'
    BY <1>0, <1>3, <1>5, <2>3, CreateGrows
  <2>6. PICK x : x = AccessToken(u, TRUE, NextId, now)
    OBVIOUS
  <2>7. x \in AccessTokens /\ x.user = u /\ x.root = NextId /\ x.readAt = now
    BY <1>1, <1>3, <2>5, <2>6 DEF AccessToken, AccessTokens, TypeOK
  <2>8. TokenOK(x)'
    BY <2>5, <2>7
  <2>9. access' = access \cup {x}
    BY <1>5, <2>6
  <2>10. TypeOK'
    BY <1>0, <1>1, <2>2, <2>5, <2>7, <2>9 DEF TypeOK
  <2>11. \A a \in access' : a \in access \/ TokenOK(a)'
    BY <2>8, <2>9
  <2>12. AccessOK' /\ RequestsOK'
    BY <2>2, <2>5, <2>10, <2>11, StepKeeps
  <2> QED
    BY <1>0, <1>1, <2>5, <2>10, <2>12 DEF AInv, RequiredImpliesConfirmed
<1> QED
  BY <1>2, <1>4, <1>5 DEF VerifyCreate

----------------------------------------------------------------------------
LEMMA AInvInit ==
    ASSUME Init
    PROVE  AInv
<1>1. TypeOK
  BY DEF Init, TypeOK, NoAccount, Accounts, Requests
<1>2. TablesOK
  BY FS_EmptySet DEF Init, TablesOK
<1>3. AccessOK /\ RequestsOK /\ RequiredImpliesConfirmed
  BY DEF Init, AccessOK, RequestsOK, RequestOK, Idle, RequiredImpliesConfirmed, NoAccount
<1> QED
  BY <1>1, <1>2, <1>3 DEF AInv

LEMMA AInvStep ==
    ASSUME AInv, [Next]_vars
    PROVE  AInv'
<1>1. CASE Tick
  BY <1>1, TickKeeps
<1>2. ASSUME NEW r \in Reqs,
             \/ Register(r) \/ EnrollTOTP(r)
             \/ ConfirmRead(r) \/ ConfirmWrite(r) \/ ConfirmRequire(r) \/ ConfirmFails(r)
      PROVE  AInv'
  BY <1>2, RegisterKeeps, EnrollKeeps, ConfirmReadKeeps, ConfirmWriteKeeps,
     ConfirmRequireKeeps, ConfirmFailsKeeps
<1>3. ASSUME NEW r \in Reqs,
             \/ LoginRead(r) \/ LoginCreate(r) \/ RefreshRead(r) \/ RefreshIssue(r)
             \/ Logout(r) \/ VerifyRead(r) \/ VerifyMark(r) \/ VerifyCreate(r)
      PROVE  AInv'
  BY <1>3, LoginReadKeeps, LoginCreateKeeps, RefreshReadKeeps, RefreshIssueKeeps,
     LogoutKeeps, VerifyReadKeeps, VerifyMarkKeeps, VerifyCreateKeeps
<1>4. CASE UNCHANGED vars
  <2>1. UNCHANGED <<now, acct, sessions, handed, access, req, out, coded>>
    BY <1>4 DEF vars, histVars
  <2> QED
    BY <2>1 DEF AInv, TypeOK, TablesOK, AccessOK, RequestsOK, RequestOK, TokenOK,
       RequiredImpliesConfirmed, LastId
<1> QED
  BY <1>1, <1>2, <1>3, <1>4 DEF Next

(* The invariant holds of every run.                                       *)
THEOREM AuthInductive == Spec => []AInv
<1>1. Init => AInv
  BY AInvInit
<1>2. AInv /\ [Next]_vars => AInv'
  BY AInvStep
<1> QED
  BY <1>1, <1>2, PTL DEF Spec

(* Type correctness of the accounts, the tables and the requests.          *)
THEOREM AuthTypes == Spec => []TypeOK
<1>1. AInv => TypeOK
  BY DEF AInv
<1> QED
  BY <1>1, AuthInductive, PTL

(* No account that asks for a code is without a confirmed authenticator,   *)
(* wherever ConfirmTOTP stops between its two writes.                      *)
THEOREM NoLockout == Spec => []RequiredImpliesConfirmed
<1>1. AInv => RequiredImpliesConfirmed
  BY DEF AInv
<1> QED
  BY <1>1, AuthInductive, PTL

(* Refresh tokens are unique in the table, and access tokens are issued    *)
(* only from sessions that were there and not expired when Refresh, Login  *)
(* or VerifyMFA read or made them: a refresh that races a logout cannot    *)
(* read the row after it.                                                  *)
THEOREM LiveSessions == Spec => []TokensComeFromLiveSessions
<1>1. AInv => TokensComeFromLiveSessions
  BY DEF AInv, TablesOK, AccessOK, TokenOK, TokensComeFromLiveSessions
<1> QED
  BY <1>1, AuthInductive, PTL

LEMMA CodeFromInvariant ==
    ASSUME AInv
    PROVE  EnrolledNeedsCode
<1>1. ASSUME NEW h \in handed, h.due, h.id \notin coded
      PROVE  /\ \A s \in sessions : s.id = h.id => ~s.mfa
             /\ \A a \in access : a.root = h.id => ~a.mfa
  BY <1>1 DEF AInv, TablesOK, AccessOK, TokenOK
<1> QED
  BY <1>1 DEF EnrolledNeedsCode

(* A login that found the second factor on yields a verified session, or a *)
(* token that says so, only once VerifyMFA has accepted a code for it.     *)
THEOREM CodeIsNeeded == Spec => []EnrolledNeedsCode
<1>1. AInv => EnrolledNeedsCode
  BY CodeFromInvariant
<1> QED
  BY <1>1, AuthInductive, PTL

----------------------------------------------------------------------------
(* With the interceptor in front, as app.go wires it, no request gets past *)
(* the handler's question for a user id ...                                *)
NeverVerifies ==
    Intercepted =>
        /\ coded = {}
        /\ \A r \in Reqs : req[r].pc \notin {"verify", "reissue"}
        /\ \A h \in handed : h.due =>
              /\ \A s \in sessions : s.id = h.id => ~s.mfa
              /\ \A a \in access : a.root = h.id => ~a.mfa

(* Where a request can stand after a step of its own.                      *)
LEMMA StepOfOne ==
    ASSUME AInv, [Next]_vars, Intercepted,
           \A p \in Reqs : req[p].pc \notin {"verify", "reissue"},
           NEW p \in Reqs
    PROVE  req'[p].pc \notin {"verify", "reissue"}
<1>1. req = [q \in Reqs |-> req[q]]
  BY DEF AInv, TypeOK
<1>2. ~HasUserID("VerifyMFA")
  BY DEF HasUserID, PublicMethods
<1>3. CASE Tick \/ UNCHANGED vars
  BY <1>3 DEF Tick, vars
<1>4. ASSUME NEW r \in Reqs, Register(r) \/ LoginRead(r) \/ LoginCreate(r)
      PROVE  req'[p].pc \notin {"verify", "reissue"}
  <2>1. CASE Register(r)
    BY <1>1, <2>1 DEF Register, Done
  <2>2. CASE LoginRead(r)
    <3>1. \/ \E u, m : req' = [req EXCEPT ![r] = [pc |-> "login", user |-> u, mfa |-> m]]
          \/ Done(r, "Login", "denied")
      BY <2>2 DEF LoginRead
    <3> QED
      BY <1>1, <3>1 DEF Done
  <2>3. CASE LoginCreate(r)
    <3>1. \E o : Done(r, "Login", o)
      BY <2>3 DEF LoginCreate
    <3> QED
      BY <1>1, <3>1 DEF Done
  <2> QED
    BY <1>4, <2>1, <2>2, <2>3
<1>5. ASSUME NEW r \in Reqs, RefreshRead(r) \/ RefreshIssue(r) \/ Logout(r) \/ EnrollTOTP(r)
      PROVE  req'[p].pc \notin {"verify", "reissue"}
  BY <1>1, <1>5 DEF RefreshRead, RefreshIssue, Logout, EnrollTOTP, Done
<1>6. ASSUME NEW r \in Reqs, ConfirmRead(r) \/ ConfirmRequire(r) \/ ConfirmFails(r)
      PROVE  req'[p].pc \notin {"verify", "reissue"}
  BY <1>1, <1>6 DEF ConfirmRead, ConfirmRequire, ConfirmFails, Done
<1>7. ASSUME NEW r \in Reqs, ConfirmWrite(r)
      PROVE  req'[p].pc \notin {"verify", "reissue"}
  <2>1. req[r] \in [pc : {"confirm", "require"}, user : Names]
    BY <1>7 DEF ConfirmWrite, AInv, TypeOK, Requests, Idle
  <2> QED
    BY <1>1, <1>7, <2>1 DEF ConfirmWrite
<1>8. ASSUME NEW r \in Reqs, VerifyRead(r) \/ VerifyMark(r) \/ VerifyCreate(r)
      PROVE  req'[p].pc \notin {"verify", "reissue"}
  <2>1. VerifyRead(r)
    BY <1>8 DEF VerifyMark, VerifyCreate
  <2>2. \E o : Done(r, "VerifyMFA", o)
    BY <1>2, <2>1 DEF VerifyRead
  <2> QED
    BY <1>1, <2>2 DEF Done
<1> QED
  BY <1>3, <1>4, <1>5, <1>6, <1>7, <1>8 DEF Next

LEMMA NothingCoded ==
    ASSUME [Next]_vars, coded = {},
           \A p \in Reqs : req[p].pc \notin {"verify", "reissue"}
    PROVE  coded' = {}
BY DEF Next, vars, histVars, Tick, Register, LoginRead, LoginCreate, RefreshRead, RefreshIssue,
   Logout, EnrollTOTP, ConfirmRead, ConfirmWrite, ConfirmRequire, ConfirmFails, VerifyRead,
   VerifyMark, VerifyCreate

(* ... so no session of an account with the second factor on is ever       *)
(* verified, whatever codes its owner enters: VerifyMFA cannot be          *)
(* completed against a server wired as app.go wires it.                    *)
THEOREM WiredNeverVerifies == Spec => []NeverVerifies
<1> DEFINE Stuck == Intercepted =>
              coded = {} /\ \A r \in Reqs : req[r].pc \notin {"verify", "reissue"}
<1>1. Init => Stuck
  BY DEF Init, Idle
<1>2. AInv /\ Stuck /\ [Next]_vars => Stuck'
  BY StepOfOne, NothingCoded
<1>3. AInv => EnrolledNeedsCode
  BY CodeFromInvariant
<1>4. AInv /\ Stuck => NeverVerifies
  BY <1>3 DEF NeverVerifies, EnrolledNeedsCode
<1> HIDE DEF Stuck
<1> QED
  BY <1>1, <1>2, <1>4, AuthInductive, PTL DEF Spec

=============================================================================
