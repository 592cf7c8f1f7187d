--------------------------- MODULE ClientSession ---------------------------
(***************************************************************************)
(* Tokens on the client's side: config.yaml, the processes that read and   *)
(* write it, and refreshInterceptor, through which every unary call goes.  *)
(* A terminal UI keeps running and makes calls from several goroutines     *)
(* that share one Config; a command (auth login, credential, ...) loads    *)
(* the file, makes one call and exits.  A sign-in is a call too.           *)
(*                                                                         *)
(* An access token is <<session, number>>, the refresh token its session.  *)
(* The server is AuthServer's, reduced to the answers a client tells apart *)
(***************************************************************************)
EXTENDS Naturals, Sequences, FiniteSets

CONSTANTS
    Guis,           \* processes of the terminal UI, each started once
    Commands,       \* processes of the command line, each started once
    Accounts,       \* user names
    MaxSessions,    \* bound on the sign-ins that succeed
    MaxTokens,      \* bound on the access tokens of a session
    MaxCalls,       \* bound on the calls made, where a command counts for two
    Nobody          \* no token, no user name, no process

Procs == Guis \cup Commands

Configs == [access : ((1..MaxSessions) \X (1..MaxTokens)) \cup {Nobody},
            refresh : 0..MaxSessions, name : Accounts \cup {Nobody}]

ASSUME SessionAssumption ==
    /\ Guis \cap Commands = {} /\ Nobody \notin Accounts /\ Nobody \notin Configs
    /\ Accounts # {} /\ MaxSessions \in Nat \ {0} /\ MaxTokens \in Nat \ {0} /\ MaxCalls \in Nat

VARIABLES
    owner,      \* the server's sessions: the account of each
    issued,     \* access tokens given out for each session
    lapsed,     \* how many of them have expired
    file,       \* config.yaml
    mem,        \* the Config of each process
    call,       \* the calls of each process
    calls,      \* calls made so far
    started,    \* the processes started so far
    cache,      \* the vault cache: the key it is sealed with, whose items
    \* history, read by the properties only
    crossed,    \* a refresh stored its token over those of a sign-in
    unnamed,    \* a sign-in with a code in the terminal UI has been stored
    hurt,       \* a save was cut short or two saves overlapped
    switched    \* a listing came back to a process that had signed in anew

server  == <<owner, issued, lapsed>>
history == <<crossed, unnamed, hurt, switched>>
counts  == <<calls, started>>
disk    == <<file, cache>>
sessVars == <<server, disk, mem, call, counts, history>>

Slots == (Guis \X {1, 2}) \cup (Commands \X {1})

(* The defaults of Load: no tokens.                                        *)
Signed_out == [access |-> Nobody, refresh |-> 0, name |-> Nobody]

Idle == [pc |-> "idle", kind |-> "none", who |-> Nobody, token |-> Nobody, with |-> 0,
         got |-> 0, snap |-> Signed_out, mixed |-> FALSE, done |-> 0]

Valid(t) == t # Nobody /\ t[2] > lapsed[t[1]]

Of(i) == mem[i[1]]

Go(i, to) == call' = [call EXCEPT ![i].pc = to]

(* Nobody has signed in yet, or the file has the tokens of an account.     *)
SessInit ==
    /\ lapsed = [s \in 1..MaxSessions |-> 0]
    /\ \/ /\ owner = <<>>
          /\ issued = [s \in 1..MaxSessions |-> 0]
          /\ file = [st |-> "none", cfg |-> Signed_out]
       \/ LET u == CHOOSE u \in Accounts : TRUE   \* accounts are interchangeable
          IN /\ owner = <<u>>
             /\ issued = [s \in 1..MaxSessions |-> IF s = 1 THEN 1 ELSE 0]
             /\ file = [st |-> "ok", cfg |-> [access |-> <<1, 1>>, refresh |-> 1, name |-> u]]
    /\ mem = [p \in Procs |-> Nobody]
    /\ call = [i \in Slots |-> Idle]
    /\ calls = 0 /\ started = {}
    /\ cache = [key |-> 0, of |-> Nobody]
    /\ crossed = FALSE /\ unnamed = FALSE /\ hurt = FALSE /\ switched = FALSE

----------------------------------------------------------------------------
(* config.Load: no file and an empty one are the defaults; a file that is  *)
(* no YAML keeps every command from starting.                              *)
Load(p) ==
    /\ p \notin started /\ file.st # "garbled"
    /\ started' = started \cup {p}
    /\ calls' = calls + (IF p \in Commands THEN 2 ELSE 0) /\ calls' <= MaxCalls
    /\ mem' = [mem EXCEPT ![p] = IF file.st = "ok" THEN file.cfg ELSE Signed_out]
    /\ UNCHANGED <<server, disk, call, history>>

(* The process ends, wherever its goroutines are.                          *)
Exit(p) ==
    /\ mem[p] # Nobody
    /\ mem' = [mem EXCEPT ![p] = Nobody]
    /\ call' = [i \in Slots |-> IF i[1] = p THEN Idle ELSE call[i]]
    /\ hurt' = (hurt \/ \E i \in Slots : i[1] = p /\ call[i].pc = "writing")
    /\ UNCHANGED <<server, disk, counts, crossed, unnamed, switched>>

(* The end of a call, with which a command ends too.                       *)
Return(i) ==
    /\ call' = [call EXCEPT ![i] = Idle]
    /\ mem' = IF i[1] \in Commands THEN [mem EXCEPT ![i[1]] = Nobody] ELSE mem

(* A call goes out with the access token the Config holds.  kind "vault"   *)
(* needs a token, "login" and "code" (VerifyMFA) do not.  Goroutines are   *)
(* numbered as they are needed.  The Launcher signs in only without a      *)
(* token and opens the vault with one.                                     *)
Send(i, kind, u) ==
    /\ Of(i) # Nobody /\ call[i].pc = "idle"
    /\ calls' = calls + (IF i[1] \in Guis THEN 1 ELSE 0) /\ calls' <= MaxCalls
    /\ UNCHANGED started
    /\ i[1] \in Guis => ((kind = "vault") <=> (Of(i).access # Nobody))
    /\ \A k \in 1..(i[2] - 1) : call[<<i[1], k>>].pc # "idle"
    /\ call' = [call EXCEPT ![i] = [Idle EXCEPT !.pc = "sent", !.kind = kind, !.who = u,
                                     !.token = IF kind = "vault" THEN Of(i).access ELSE Nobody]]
    /\ UNCHANGED <<server, disk, mem, history>>

(* The middleware lets a vault call pass; the handler carries it out, and  *)
(* the answer arrives or is lost.                                          *)
CarriedOut(i) ==
    /\ call[i].pc \in {"sent", "resent"} /\ call[i].kind = "vault" /\ Valid(call[i].token)
    /\ call' = [call EXCEPT ![i].pc = "answered", ![i].done = @ + 1,
                             ![i].token = Nobody, ![i].with = call[i].token[1]]
    /\ UNCHANGED <<server, disk, mem, counts, history>>

(* Mutant: the same key whatever the refresh token is.                     *)
CacheKey_Fixed(refresh) == IF refresh = 0 THEN 0 ELSE 1

(* Derived from the refresh token; different tokens give different keys.   *)
CacheKey(refresh) == refresh

Answered(i) ==
    /\ call[i].pc = "answered"
    /\ Return(i)
    /\ UNCHANGED <<server, disk, counts, history>>

(* loadItems of the terminal UI: the listing is kept under the refresh     *)
(* token that the Config holds when the answer is there.                   *)
Listed(i) ==
    /\ call[i].pc = "answered" /\ i[1] \in Guis
    /\ cache' = [key |-> CacheKey(Of(i).refresh), of |-> owner[call[i].with]]
    /\ switched' = (switched \/ Of(i).refresh # call[i].with)
    /\ Return(i)
    /\ UNCHANGED <<server, file, counts, crossed, unnamed, hurt>>

(* Unauthenticated, and a refresh token to go on with.                     *)
RefreshWith(i) ==
    call' = [call EXCEPT ![i].pc = "refresh", ![i].token = Nobody, ![i].with = Of(i).refresh]

(* Mutant: any error is answered with a refresh and a second try.          *)
Lost_Retried(i) ==
    /\ call[i].pc = "answered"
    /\ RefreshWith(i)
    /\ UNCHANGED <<server, disk, mem, counts, history>>

(* An error other than Unauthenticated is handed to the caller.            *)
Lost(i) ==
    /\ call[i].pc = "answered"
    /\ Return(i)
    /\ UNCHANGED <<server, disk, counts, history>>

(* Unauthenticated: an expired token, a wrong password, a wrong code.      *)
Refused(i) ==
    /\ call[i].pc \in {"sent", "resent"}
    /\ call[i].kind = "vault" => ~Valid(call[i].token)
    /\ IF call[i].pc = "sent" /\ Of(i).refresh # 0
       THEN RefreshWith(i) /\ UNCHANGED mem
       ELSE Return(i)
    /\ UNCHANGED <<server, disk, counts, history>>

(* The deadline of a call, or the connection fails.  Calls of a command    *)
(* have no deadline, and a second try has lost it.                         *)
Deadline(i) ==
    /\ call[i].pc = "sent" /\ i[1] \in Guis
    /\ Return(i)
    /\ UNCHANGED <<server, disk, counts, history>>

Unavailable(i) ==
    /\ call[i].pc \in {"sent", "resent"}
    /\ Return(i)
    /\ UNCHANGED <<server, disk, counts, history>>

----------------------------------------------------------------------------
(* The access token is stored under whatever refresh token the Config has  *)
(* by now.                                                                 *)
RefreshDone(i) ==
    LET s == call[i].with
    IN  /\ call[i].pc = "refresh" /\ issued[s] < MaxTokens
        /\ issued' = [issued EXCEPT ![s] = @ + 1]
        /\ mem' = [mem EXCEPT ![i[1]].access = <<s, issued[s] + 1>>]
        /\ call' = [call EXCEPT ![i].pc = "save", ![i].with = 0]
        /\ crossed' = (crossed \/ Of(i).refresh # s)
        /\ UNCHANGED <<owner, lapsed, disk, counts, unnamed, hurt, switched>>

(* Refused: the first error is returned.                                   *)
RefreshRefused(i) ==
    /\ call[i].pc = "refresh"
    /\ Return(i)
    /\ UNCHANGED <<server, disk, counts, history>>

(* Ten seconds without an answer: the same.                                *)
RefreshDeadline(i) == RefreshRefused(i)

----------------------------------------------------------------------------
(* Login, or VerifyMFA when a code is needed, answers with a new session.  *)
NewSession(i) ==
    /\ call[i].pc \in {"sent", "resent"} /\ call[i].kind \in {"login", "code"}
    /\ Len(owner) < MaxSessions
    /\ owner' = Append(owner, call[i].who)
    /\ issued' = [issued EXCEPT ![Len(owner) + 1] = 1]
    /\ call' = [call EXCEPT ![i].pc = "save", ![i].got = Len(owner) + 1]
    /\ UNCHANGED lapsed

(* Mutant: the refresh token of the answer is forgotten.                   *)
SignIn_AccessOnly(i) ==
    /\ NewSession(i)
    /\ mem' = [mem EXCEPT ![i[1]].access = <<Len(owner) + 1, 1>>, ![i[1]].name = call[i].who]
    /\ UNCHANGED <<disk, counts, history>>

(* doLogin, doMFA and auth login: doMFA does not know the user name.       *)
SignIn(i) ==
    LET nameless == i[1] \in Guis /\ call[i].kind = "code"
    IN  /\ NewSession(i)
        /\ mem' = [mem EXCEPT ![i[1]] =
              [access |-> <<Len(owner) + 1, 1>>, refresh |-> Len(owner) + 1,
               name |-> IF nameless THEN @.name ELSE call[i].who]]
        /\ unnamed' = (unnamed \/ nameless)
        /\ UNCHANGED <<disk, counts, crossed, hurt, switched>>

----------------------------------------------------------------------------
(* config.Save, first half: the file is opened, which empties it.          *)
SaveOpen(i) ==
    /\ call[i].pc = "save"
    /\ call' = [call EXCEPT ![i].pc = "writing", ![i].snap = Of(i), ![i].mixed = FALSE]
    /\ file' = [st |-> "empty", cfg |-> Signed_out]
    /\ UNCHANGED <<server, mem, cache, counts, history>>

(* What follows a save: a sign-in is done, a refused call goes out once    *)
(* more.  Only auth login reports the error of a save.                     *)
AfterSave(i) ==
    IF call[i].got # 0 THEN [call EXCEPT ![i] = Idle]
    ELSE [call EXCEPT ![i].pc = "resent", ![i].snap = Signed_out, ![i].mixed = FALSE,
                      ![i].token = IF call[i].kind = "vault" THEN Of(i).access ELSE Nobody]

(* The others that have the file open will write over what is there now.   *)
Mixed(i, c) == [j \in Slots |-> IF j # i /\ c[j].pc = "writing" THEN [c[j] EXCEPT !.mixed = TRUE] ELSE c[j]]

Finish(i) ==
    mem' = IF i[1] \in Commands /\ call[i].got # 0 THEN [mem EXCEPT ![i[1]] = Nobody] ELSE mem

(* Mutant: the error of the write is taken for success.                    *)
SaveWrite_Ignored(i) ==
    /\ call[i].pc = "writing"
    /\ call' = Mixed(i, AfterSave(i))
    /\ Finish(i)
    /\ UNCHANGED <<server, disk, counts, history>>

(* Second half.  Over what another process wrote meanwhile, the longer     *)
(* text of the two can stick out.                                          *)
SaveWrite(i) ==
    /\ call[i].pc = "writing"
    /\ \E st \in {"ok"} \cup (IF call[i].mixed THEN {"garbled"} ELSE {}) :
          file' = [st |-> st, cfg |-> IF st = "ok" THEN call[i].snap ELSE Signed_out]
    /\ call' = Mixed(i, AfterSave(i))
    /\ Finish(i)
    /\ hurt' = (hurt \/ call[i].mixed)
    /\ UNCHANGED <<server, cache, counts, crossed, unnamed, switched>>

(* The write fails: the file stays empty.                                  *)
SaveFails(i) ==
    /\ call[i].pc = "writing"
    /\ call' = AfterSave(i)
    /\ Finish(i)
    /\ hurt' = TRUE
    /\ UNCHANGED <<server, disk, counts, crossed, unnamed, switched>>

----------------------------------------------------------------------------
(* The server's clock.                                                     *)
Lapse(s) ==
    /\ lapsed[s] < issued[s]
    /\ lapsed' = [lapsed EXCEPT ![s] = issued[s]]
    /\ UNCHANGED <<owner, issued, disk, mem, call, counts, history>>

Inside(i) == SaveOpen(i) \/ SaveWrite(i) \/ SaveFails(i) \/ Answered(i) \/ Listed(i) \/ Lost(i)

SessNext ==
    \/ \E p \in Procs : Load(p) \/ Exit(p)
    \/ \E i \in Slots :
          \/ Inside(i) \/ CarriedOut(i) \/ Refused(i) \/ Deadline(i) \/ Unavailable(i)
          \/ RefreshDone(i) \/ RefreshRefused(i) \/ RefreshDeadline(i) \/ SignIn(i)
          \/ Send(i, "vault", Nobody)
          \/ \E u \in Accounts : Send(i, "login", u)
          \/ \E u \in Accounts : i[1] \in Guis /\ Send(i, "code", u)
    \/ \E s \in 1..MaxSessions : Lapse(s)

(* Deadlines pass and a client carries on with what it has received; no    *)
(* answer has to come.                                                     *)
SessFairness == \A i \in Slots : WF_sessVars(Inside(i) \/ Deadline(i) \/ RefreshDeadline(i))

SessSpec == SessInit /\ [][SessNext]_sessVars /\ SessFairness

----------------------------------------------------------------------------
(* Types.                                                                  *)
SessTypeOK ==
    /\ owner \in Seq(Accounts) /\ Len(owner) <= MaxSessions
    /\ \A s \in 1..MaxSessions : lapsed[s] <= issued[s] /\ issued[s] <= MaxTokens
    /\ file.st \in {"none", "empty", "ok", "garbled"} /\ file.cfg \in Configs
    /\ \A p \in Procs : mem[p] \in Configs \cup {Nobody}
    /\ \A i \in Slots : call[i].pc # "idle" => mem[i[1]] # Nobody

(* A Config, in memory or on disk, has the two tokens of one session: what *)
(* is shown and what a refresh brings back belong to the same user.  Only  *)
(* a refresh answered after another sign-in in the same process mixes them *)
PairFits ==
    LET Fits(c) == c.access # Nobody => c.access[1] = c.refresh
    IN  ~crossed => /\ \A p \in Procs : mem[p] # Nobody => Fits(mem[p])
                    /\ Fits(file.cfg)

(* The user name next to the tokens is that of the account they are for,   *)
(* unless a sign-in with a code has been stored by the terminal UI.        *)
NameFits ==
    ~unnamed /\ file.st = "ok" /\ file.cfg.refresh # 0 => file.cfg.name = owner[file.cfg.refresh]

(* However often a vault call is sent, the server carries it out once at   *)
(* most: what is tried again has been refused before its handler ran.      *)
CarriedOutOnce == \A i \in Slots : call[i].done <= 1

(* The file can be read and is not empty, except while it is written and   *)
(* after a save that was cut short or overlapped another one.              *)
ConfigWhole ==
    file.st \in {"empty", "garbled"} => hurt \/ \E i \in Slots : call[i].pc = "writing"

(* localcache.Load with the key of this refresh token finds items.         *)
CacheOpens(refresh) == refresh # 0 /\ CacheKey(refresh) = cache.key

(* What an offline start shows is the vault of the account that is signed  *)
(* in, whoever used the cache file before: a listing is stored under       *)
(* another account's key only when that account signed in, in the same     *)
(* process, while the listing was on its way.                              *)
CacheIsOwn ==
    ~switched => \A r \in {file.cfg.refresh} \cup {mem[p].refresh : p \in {q \in Guis : mem[q] # Nobody}} :
        CacheOpens(r) => cache.of = owner[r]

(* A call of the terminal UI ends by its deadline or goes out once more:   *)
(* only the second try can wait for ever.                                  *)
CallEnds == \A i \in Guis \X {1, 2} : call[i].pc = "sent" ~> call[i].pc \in {"idle", "resent"}

(* The tokens of a Config are of one session and the name beside them is   *)
(* that of its account, in every process and on disk.                      *)
ConfigFits == PairFits /\ NameFits
=============================================================================
