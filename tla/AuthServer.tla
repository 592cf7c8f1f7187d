----------------------------- MODULE AuthServer ----------------------------
(***************************************************************************)
(* Accounts, sessions and tokens of the server: service/auth.go,           *)
(* service/mfa.go, handler/auth.go, middleware/auth.go, shared/jwt/jwt.go  *)
(* and the users, sessions and mfa tables.                                 *)
(*                                                                         *)
(* Each request is a goroutine; its database statements are separate       *)
(* steps.  A token is its claims.  Claims carry whole seconds and nothing  *)
(* random, so a refresh token is <<user, second of issue>>.  Time is in    *)
(* seconds.  Clients present access tokens as bearer and refresh tokens to *)
(* Refresh and Logout, as the client of this repository does.              *)
(***************************************************************************)
EXTENDS Naturals, FiniteSets

CONSTANTS
    Names,          \* user names
    Emails,         \* e-mail addresses; the empty one is an address like any other
    Reqs,           \* requests, each used once
    AccessTTL,      \* seconds an access token is accepted (15 minutes)
    RefreshTTL,     \* seconds a session lasts (30 days)
    MaxNow,         \* bound on the clock
    MaxTotp,        \* bound on TOTP records per user
    Intercepted     \* TRUE: requests pass AuthInterceptor, as app.go wires it;
                    \* FALSE: handlers are called with ContextWithUserID

ASSUME AuthAssumption ==
    /\ AccessTTL \in Nat \ {0}
    /\ RefreshTTL \in Nat \ {0}
    /\ MaxNow \in Nat
    /\ MaxTotp \in Nat
    /\ Intercepted \in BOOLEAN

VARIABLES
    now,            \* the clock
    acct,           \* users and mfa_totp, per user name
    sessions,       \* the sessions table
    handed,         \* the refresh tokens clients have been given
    access,         \* access tokens clients have been given
    req,            \* the requests and their local variables
    audit,          \* the audit_log table: which request wrote which action
    \* history, read by the properties only
    out,            \* when each session that has ended was logged out
    coded           \* the sessions for which a code was accepted

histVars == <<out, coded>>
vars == <<now, acct, sessions, handed, access, req, audit, histVars>>

NoAccount == [reg |-> FALSE, email |-> "", mfa |-> FALSE, pending |-> 0, confirmed |-> 0]

Idle == [pc |-> "idle"]

(* IssueRefreshToken: sub, iat and exp at one second's granularity.        *)
RefreshToken(u) == <<u, now>>

(* IssueAccessToken; root and readAt are history: the session it was       *)
(* issued from and when that row was read.                                 *)
AccessToken(u, mfa, root, readAt) ==
    [user |-> u, iat |-> now, mfa |-> mfa, root |-> root, readAt |-> readAt]

(* ParseAccessToken                                                        *)
Accepted(a) == now < a.iat + AccessTTL

PublicMethods == {"Register", "Login", "Refresh", "VerifyMFA"}

(* The user id in the context of a call: AuthInterceptor leaves the        *)
(* context of a public method alone.                                       *)
HasUserID(method) == Intercepted => method \notin PublicMethods

Done(r, method, outcome) ==
    req' = [req EXCEPT ![r] = [pc |-> "done", method |-> method, outcome |-> outcome]]

----------------------------------------------------------------------------
(* The statements of the storage layer.  username and email are UNIQUE.    *)
Conflict(u, e) == acct[u].reg \/ \E v \in Names : acct[v].reg /\ acct[v].email = e

UserCreate(u, e) == acct' = [acct EXCEPT ![u] = [NoAccount EXCEPT !.reg = TRUE, !.email = e]]

GetByUsername(u) == {acct[v] : v \in {w \in {u} : acct[w].reg}}

SetMFARequired(u) == acct' = [acct EXCEPT ![u].mfa = TRUE]

(* A user has pending and confirmed records.                               *)
CreateTOTP(u) == acct' = [acct EXCEPT ![u].pending = @ + 1]

GetTOTPByID(u) == acct[u].pending + acct[u].confirmed > 0

(* The record may be confirmed already.                                    *)
ConfirmTOTP(u) ==
    \/ acct[u].pending > 0 /\ acct' = [acct EXCEPT ![u].pending = @ - 1, ![u].confirmed = @ + 1]
    \/ acct[u].confirmed > 0 /\ UNCHANGED acct

ListTOTP(u) == acct[u].confirmed > 0

GetByRefreshToken(t) == {s \in sessions : s.token = t}

SetMFAVerified(id) ==
    sessions' = {IF s.id = id THEN [s EXCEPT !.mfa = TRUE] ELSE s : s \in sessions}

DeleteSession(t) == sessions' = sessions \ GetByRefreshToken(t)

(* The address logAudit stores: that of the connection, port included.     *)
peerIP == [host |-> "address", port |-> "port"]

(* What the type INET of the column takes: an address on its own.          *)
Inet(a) == a.port = ""

(* The INSERT: an entry the table refuses is not stored.                   *)
AppendEntry(e) == audit' = audit \cup (IF Inet(peerIP) THEN {e} ELSE {})

(* The error of the INSERT is ignored.                                     *)
logAudit(r, action) == AppendEntry([req |-> r, action |-> action])

----------------------------------------------------------------------------
Init ==
    /\ now = 0
    /\ acct = [u \in Names |-> NoAccount]
    /\ sessions = {}
    /\ handed = {}
    /\ access = {}
    /\ req = [r \in Reqs |-> Idle]
    /\ audit = {}
    /\ out = [i \in {} |-> 0]
    /\ coded = {}

Tick ==
    /\ now < MaxNow
    /\ now' = now + 1
    /\ UNCHANGED <<acct, sessions, handed, access, req, audit, histVars>>

----------------------------------------------------------------------------
Register(r) ==
    /\ req[r] = Idle
    /\ \E u \in Names, e \in Emails :
         \/ /\ ~Conflict(u, e)
            /\ UserCreate(u, e)
            /\ logAudit(r, "auth.register")
            /\ Done(r, "Register", "ok")
         \/ /\ Conflict(u, e)
            /\ Done(r, "Register", "exists")
            /\ UNCHANGED <<acct, audit>>
    /\ UNCHANGED <<now, sessions, handed, access, histVars>>

(* Login: look the user up and compare the password ...                    *)
LoginRead(r) ==
    /\ req[r] = Idle
    /\ \E u \in Names, good \in BOOLEAN :
         \/ \E user \in GetByUsername(u) :
               \/ /\ good /\ UNCHANGED audit
                  /\ req' = [req EXCEPT ![r] = [pc |-> "login", user |-> u, mfa |-> user.mfa]]
               \/ ~good /\ logAudit(r, "auth.login_failed") /\ Done(r, "Login", "denied")
         \/ GetByUsername(u) = {} /\ Done(r, "Login", "denied") /\ UNCHANGED audit
    /\ UNCHANGED <<now, acct, sessions, handed, access, histVars>>

(* Sessions().Create: refresh_token is a UNIQUE column.                    *)
TokenTaken(t) == \E s \in sessions : s.token = t

(* The row, and the token handed to the client.  A row's id is new; due is *)
(* history: the user's second factor was on when the login read it.        *)
NextId == Cardinality(handed) + 1

CreateSession(u, mfa, due) ==
    LET t == RefreshToken(u) IN
    /\ ~TokenTaken(t)
    /\ sessions' = sessions \cup
          {[id |-> NextId, user |-> u, token |-> t, exp |-> now + RefreshTTL, mfa |-> mfa]}
    /\ handed' = handed \cup {[id |-> NextId, user |-> u, token |-> t, due |-> due]}

(* Mutant: every new session counts as verified.                           *)
LoginCreate_AlwaysVerified(r) ==
    /\ req[r].pc = "login"
    /\ CreateSession(req[r].user, TRUE, req[r].mfa)
    /\ access' = access \cup
          (IF req[r].mfa THEN {} ELSE {AccessToken(req[r].user, FALSE, NextId, now)})
    /\ Done(r, "Login", IF req[r].mfa THEN "needs_mfa" ELSE "ok")
    /\ UNCHANGED <<now, acct, audit, histVars>>

(* ... create the session and, unless a code is still due, issue the       *)
(* access token; a token that exists already fails the insert.             *)
LoginCreate(r) ==
    /\ req[r].pc = "login"
    /\ \/ /\ CreateSession(req[r].user, ~req[r].mfa, req[r].mfa)
          /\ access' = access \cup
                (IF req[r].mfa THEN {} ELSE {AccessToken(req[r].user, FALSE, NextId, now)})
          /\ IF req[r].mfa THEN UNCHANGED audit ELSE logAudit(r, "auth.login")
          /\ Done(r, "Login", IF req[r].mfa THEN "needs_mfa" ELSE "ok")
       \/ /\ TokenTaken(RefreshToken(req[r].user))
          /\ Done(r, "Login", "internal")
          /\ UNCHANGED <<sessions, handed, access, audit>>
    /\ UNCHANGED <<now, acct, histVars>>

(* Mutant: the signature of the refresh token is trusted on its own.       *)
RefreshRead_SignatureOnly(r) ==
    /\ req[r] = Idle
    /\ \E h \in handed :
         IF now <= h.token[2] + RefreshTTL
         THEN req' = [req EXCEPT ![r] = [pc |-> "refresh", user |-> h.user, mfa |-> FALSE,
                         root |-> h.id, readAt |-> now]]
         ELSE Done(r, "Refresh", "denied")
    /\ UNCHANGED <<now, acct, sessions, handed, access, audit, histVars>>

(* Refresh: read the session row and compare its expiry ...                *)
RefreshRead(r) ==
    /\ req[r] = Idle
    /\ \E h \in handed :
         \/ \E s \in GetByRefreshToken(h.token) :
              /\ now <= s.exp
              /\ req' = [req EXCEPT ![r] = [pc |-> "refresh", user |-> s.user,
                            mfa |-> s.mfa, root |-> s.id, readAt |-> now]]
         \/ /\ \A s \in GetByRefreshToken(h.token) : now > s.exp
            /\ Done(r, "Refresh", "denied")
    /\ UNCHANGED <<now, acct, sessions, handed, access, audit, histVars>>

(* ... and issue an access token with the flag that was read.              *)
RefreshIssue(r) ==
    /\ req[r].pc = "refresh"
    /\ access' = access \cup
          {AccessToken(req[r].user, req[r].mfa, req[r].root, req[r].readAt)}
    /\ logAudit(r, "auth.refresh")
    /\ Done(r, "Refresh", "ok")
    /\ UNCHANGED <<now, acct, sessions, handed, histVars>>

(* Logout deletes by refresh token, whoever calls; the answer is the same  *)
(* if it is gone.                                                          *)
Logout(r) ==
    /\ req[r] = Idle
    /\ \E a \in access, h \in handed :
         /\ Accepted(a)
         /\ DeleteSession(h.token)
         /\ out' = [i \in DOMAIN out \cup {s.id : s \in sessions \ sessions'} |->
                       IF i \in DOMAIN out THEN out[i] ELSE now]
    /\ logAudit(r, "auth.logout")
    /\ Done(r, "Logout", "ok")
    /\ UNCHANGED <<now, acct, handed, access, coded>>

----------------------------------------------------------------------------
(* EnrollTOTP stores an unconfirmed record.                                *)
EnrollTOTP(r) ==
    /\ req[r] = Idle
    /\ \E a \in access :
         /\ Accepted(a)
         /\ acct[a.user].pending + acct[a.user].confirmed < MaxTotp
         /\ CreateTOTP(a.user)
    /\ Done(r, "EnrollTOTP", "ok")
    /\ UNCHANGED <<now, sessions, handed, access, audit, histVars>>

(* ConfirmTOTP: read the record and check the code ...                     *)
ConfirmRead(r) ==
    /\ req[r] = Idle
    /\ \E a \in access, good \in BOOLEAN :
         /\ Accepted(a)
         /\ GetTOTPByID(a.user)
         /\ IF good
            THEN req' = [req EXCEPT ![r] = [pc |-> "confirm", user |-> a.user]]
            ELSE Done(r, "ConfirmTOTP", "denied")
    /\ UNCHANGED <<now, acct, sessions, handed, access, audit, histVars>>

(* Mutant: the account is switched first, then the record confirmed.       *)
ConfirmWrite_RequireFirst(r) ==
    /\ req[r].pc = "confirm"
    /\ acct' = [acct EXCEPT ![req[r].user].mfa = TRUE]
    /\ req' = [req EXCEPT ![r].pc = "require"]
    /\ UNCHANGED <<now, sessions, handed, access, audit, histVars>>

(* ... mark the record ...                                                 *)
ConfirmWrite(r) ==
    /\ req[r].pc = "confirm"
    /\ ConfirmTOTP(req[r].user)
    /\ req' = [req EXCEPT ![r].pc = "require"]
    /\ UNCHANGED <<now, sessions, handed, access, audit, histVars>>

(* ... and require a code from now on; or the second statement fails and   *)
(* the client is told the code was not accepted.                           *)
ConfirmRequire(r) ==
    /\ req[r].pc = "require"
    /\ SetMFARequired(req[r].user)
    /\ logAudit(r, "mfa.enroll")
    /\ Done(r, "ConfirmTOTP", "ok")
    /\ UNCHANGED <<now, sessions, handed, access, histVars>>

ConfirmFails(r) ==
    /\ req[r].pc \in {"confirm", "require"}
    /\ Done(r, "ConfirmTOTP", "denied")
    /\ UNCHANGED <<now, acct, sessions, handed, access, audit, histVars>>

----------------------------------------------------------------------------
(* VerifyMFA: the handler wants a user id in the context; VerifyTOTP then  *)
(* compares the code with the confirmed records of that user, and takes    *)
(* the session id as it comes ...                                          *)
VerifyRead(r) ==
    /\ req[r] = Idle
    /\ \E u \in Names, h \in handed, good \in BOOLEAN :
         /\ acct[u].reg
         /\ good => ListTOTP(u)
         /\ \/ /\ HasUserID("VerifyMFA") /\ good /\ UNCHANGED audit
               /\ req' = [req EXCEPT ![r] = [pc |-> "verify", user |-> u, sid |-> h.id]]
            \/ /\ HasUserID("VerifyMFA") /\ ~good
               /\ logAudit(r, "mfa.verify_failed") /\ Done(r, "VerifyMFA", "denied")
            \/ ~HasUserID("VerifyMFA") /\ Done(r, "VerifyMFA", "refused") /\ UNCHANGED audit
    /\ UNCHANGED <<now, acct, sessions, handed, access, histVars>>

(* ... marks the session, if it is still there ...                         *)
VerifyMark(r) ==
    /\ req[r].pc = "verify"
    /\ SetMFAVerified(req[r].sid)
    /\ req' = [req EXCEPT ![r].pc = "reissue"]
    /\ coded' = coded \cup {req[r].sid}
    /\ UNCHANGED <<now, acct, handed, access, audit, out>>

(* ... and hands out a second session with its tokens.                     *)
VerifyCreate(r) ==
    /\ req[r].pc = "reissue"
    /\ \/ /\ CreateSession(req[r].user, TRUE, TRUE)
          /\ access' = access \cup {AccessToken(req[r].user, TRUE, NextId, now)}
          /\ coded' = coded \cup {NextId}
          /\ logAudit(r, "mfa.verify")
          /\ Done(r, "VerifyMFA", "ok")
       \/ /\ TokenTaken(RefreshToken(req[r].user))
          /\ Done(r, "VerifyMFA", "internal")
          /\ UNCHANGED <<sessions, handed, access, audit, coded>>
    /\ UNCHANGED <<now, acct, out>>

Next ==
    \/ Tick
    \/ \E r \in Reqs :
         \/ Register(r)
         \/ LoginRead(r) \/ LoginCreate(r)
         \/ RefreshRead(r) \/ RefreshIssue(r)
         \/ Logout(r)
         \/ EnrollTOTP(r)
         \/ ConfirmRead(r) \/ ConfirmWrite(r) \/ ConfirmRequire(r) \/ ConfirmFails(r)
         \/ VerifyRead(r) \/ VerifyMark(r) \/ VerifyCreate(r)

Spec == Init /\ [][Next]_vars

----------------------------------------------------------------------------
(* Whoever is asked for a code has a confirmed authenticator: the two      *)
(* writes of ConfirmTOTP never leave an account locked out, wherever the   *)
(* request stops and whatever runs between them.                           *)
RequiredImpliesConfirmed ==
    \A u \in Names : acct[u].mfa => acct[u].confirmed > 0

(* A refresh token names one session, though two of one second are equal,  *)
(* and an access token is only ever issued from a session that was there,  *)
(* and not expired, when it was read: no read after the logout of a        *)
(* session yields a token, however requests interleave.                    *)
TokensComeFromLiveSessions ==
    /\ \A s, t \in sessions : s.token = t.token => s = t
    /\ \A a \in access :
          /\ a.root \in DOMAIN out => a.readAt <= out[a.root]
          /\ \A h \in handed : h.id = a.root => a.readAt <= h.token[2] + RefreshTTL

(* A session whose login found the second factor on is verified, and its   *)
(* tokens say so, only after a code was accepted for it.                   *)
EnrolledNeedsCode ==
    \A h \in handed : h.due /\ h.id \notin coded =>
        /\ \A s \in sessions : s.id = h.id => ~s.mfa
        /\ \A a \in access : a.root = h.id => ~a.mfa

(* "userID is set in context by the auth middleware": no VerifyMFA call is *)
(* turned away for want of a user id before its code is looked at.         *)
VerifyReachesCode ==
    \A r \in Reqs : req[r].pc = "done" =>
        ~(req[r].method = "VerifyMFA" /\ req[r].outcome = "refused")

(* "Every operation is recorded in the audit_log PostgreSQL table": the    *)
(* operations that end well and have an event in the table of the manual.  *)
OperationsRecorded ==
    \A r \in Reqs :
        req[r].pc = "done" /\ req[r].outcome = "ok" /\ req[r].method # "EnrollTOTP"
            => \E e \in audit : e.req = r
=============================================================================
