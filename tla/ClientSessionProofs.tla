------------------------- MODULE ClientSessionProofs ------------------------
(***************************************************************************)
(* Proofs about ClientSession for every set of processes and accounts and  *)
(* every bound: what is in a Config belongs together, a call is carried    *)
(* out at most once, the config file is whole, the cache is the owner's.   *)
(*                                                                         *)
(* The inductive invariant SInv says of every Config, wherever it is kept  *)
(* (a process, the file, a save under way), that it fits the sessions of   *)
(* the server, and of every call what its phase makes of its fields.       *)
(***************************************************************************)
EXTENDS ClientSession, SequenceTheorems, TLAPS

Kinds  == {"none", "vault", "login", "code"}
Phases == {"idle", "sent", "resent", "answered", "refresh", "save", "writing"}

CallRecords ==
    [pc : Phases, kind : Kinds, who : Accounts \cup {Nobody},
     token : ((1..MaxSessions) \X (1..MaxTokens)) \cup {Nobody},
     with : 0..MaxSessions, got : 0..MaxSessions, snap : Configs, mixed : BOOLEAN, done : Nat]

(* A Config against the sessions o of the server.                          *)
Fit(c, o, x, n) ==
    /\ c \in Configs
    /\ c.refresh <= Len(o)
    /\ c.access # Nobody => c.access[1] <= Len(o)
    /\ ~x /\ c.access # Nobody => c.access[1] = c.refresh
    /\ ~n /\ c.refresh # 0 => c.name = o[c.refresh]

(* A call against the sessions o of the server.                            *)
CallFit(k, o, x, n) ==
    /\ k \in CallRecords
    /\ Fit(k.snap, o, x, n)
    /\ k.token # Nobody => k.token[1] <= Len(o)
    /\ k.with <= Len(o)
    /\ k.pc \in {"refresh", "answered"} => k.with # 0
    /\ k.done <= 1 /\ (k.pc # "answered" => k.done = 0)
    /\ k.kind \in {"login", "code"} => k.who \in Accounts

ServerOK ==
    /\ owner \in Seq(Accounts) /\ Len(owner) <= MaxSessions
    /\ issued \in [1..MaxSessions -> 0..MaxTokens]
    /\ lapsed \in [1..MaxSessions -> 0..MaxTokens]
    /\ \A s \in 1..MaxSessions : lapsed[s] <= issued[s] /\ (s > Len(owner) => issued[s] = 0)

FileOK == /\ file \in [st : {"none", "empty", "ok", "garbled"}, cfg : Configs]
          /\ Fit(file.cfg, owner, crossed, unnamed)

MemOK == /\ mem \in [Procs -> Configs \cup {Nobody}]
         /\ \A p \in Procs : mem[p] # Nobody => Fit(mem[p], owner, crossed, unnamed)

CallsOK == /\ call \in [Slots -> CallRecords]
           /\ \A i \in Slots : CallFit(call[i], owner, crossed, unnamed)

BusyOK == \A i \in Slots : call[i].pc # "idle" => mem[i[1]] # Nobody

CacheOK == /\ cache.key \in 0..Len(owner)
           /\ ~switched /\ cache.key # 0 => cache.of = owner[cache.key]

FlagsOK == crossed \in BOOLEAN /\ unnamed \in BOOLEAN /\ switched \in BOOLEAN /\ hurt \in BOOLEAN

SInv == ServerOK /\ FileOK /\ MemOK /\ CallsOK /\ BusyOK /\ CacheOK /\ FlagsOK /\ ConfigWhole

----------------------------------------------------------------------------
(* Sessions are only added.                                                *)
Longer(o, o2) == Len(o) <= Len(o2) /\ \A k \in 1..Len(o) : o2[k] = o[k]

LEMMA FitMono ==
  ASSUME NEW c, NEW o \in Seq(Accounts), NEW o2 \in Seq(Accounts),
         NEW x, NEW x2, NEW n, NEW n2,
         Fit(c, o, x, n), Longer(o, o2), x => x2, n => n2
  PROVE  Fit(c, o2, x2, n2)
<1>1. c \in Configs /\ c.refresh \in Nat /\ Len(o) \in Nat /\ Len(o2) \in Nat
  BY SessionAssumption DEF Fit, Configs
<1>2. c.refresh # 0 => c.refresh \in 1..Len(o)
  BY <1>1 DEF Fit
<1>3. c.access # Nobody => c.access[1] \in Nat
  BY <1>1, SessionAssumption DEF Configs
<1> QED
  BY <1>1, <1>2, <1>3 DEF Fit, Longer

LEMMA CallFitMono ==
  ASSUME NEW k, NEW o \in Seq(Accounts), NEW o2 \in Seq(Accounts),
         NEW x, NEW x2, NEW n, NEW n2,
         CallFit(k, o, x, n), Longer(o, o2), x => x2, n => n2
  PROVE  CallFit(k, o2, x2, n2)
<1>1. Fit(k.snap, o2, x2, n2)
  BY FitMono DEF CallFit
<1>2. Len(o) \in Nat /\ Len(o2) \in Nat
  OBVIOUS
<1>3. k.with \in Nat /\ (k.token # Nobody => k.token[1] \in Nat)
  BY SessionAssumption DEF CallFit, CallRecords
<1> QED
  BY <1>1, <1>2, <1>3 DEF CallFit, Longer

LEMMA SignedOutFits ==
  ASSUME NEW o \in Seq(Accounts), NEW x, NEW n
  PROVE  Signed_out \in Configs /\ Fit(Signed_out, o, x, n)
  BY SessionAssumption DEF Fit, Signed_out, Configs

LEMMA IdleFits ==
  ASSUME NEW o \in Seq(Accounts), NEW x, NEW n
  PROVE  Idle \in CallRecords /\ CallFit(Idle, o, x, n)
<1>1. Signed_out \in Configs /\ Fit(Signed_out, o, x, n)
  BY SignedOutFits
<1>2. Idle \in CallRecords
  BY <1>1, SessionAssumption DEF Idle, CallRecords, Kinds, Phases
<1> QED
  BY <1>1, <1>2 DEF CallFit, Idle

(* A command has one goroutine.                                            *)
LEMMA SlotProc ==
  ASSUME NEW i \in Slots
  PROVE  /\ i[1] \in Procs
         /\ \A j \in Slots : i[1] \in Commands /\ j[1] = i[1] => j = i
  BY SessionAssumption DEF Slots, Procs

----------------------------------------------------------------------------
(* The initial states need an account and a session for the case that      *)
(* somebody has signed in.                                                 *)
LEMMA InitSInv == SessInit => SInv
<1> SUFFICES ASSUME SessInit PROVE SInv
  OBVIOUS
<1>1. /\ owner \in Seq(Accounts) /\ Len(owner) <= MaxSessions
      /\ issued \in [1..MaxSessions -> 0..MaxTokens]
      /\ \A s \in 1..MaxSessions : s > Len(owner) => issued[s] = 0
      /\ file \in [st : {"none", "empty", "ok", "garbled"}, cfg : Configs] /\ file.st \in {"none", "ok"}
      /\ Fit(file.cfg, owner, crossed, unnamed)
  <2>1. CASE owner = <<>>
    <3>1. <<>> \in Seq(Accounts) /\ Len(<<>>) = 0
      OBVIOUS
    <3>2. Signed_out \in Configs /\ Fit(Signed_out, <<>>, crossed, unnamed)
      BY <3>1, SignedOutFits
    <3>3. issued = [s \in 1..MaxSessions |-> 0] /\ file = [st |-> "none", cfg |-> Signed_out]
      BY <2>1 DEF SessInit
    <3> QED
      BY <2>1, <3>1, <3>2, <3>3, SessionAssumption
  <2>2. CASE owner # <<>>
    <3>1. PICK u \in Accounts :
            /\ owner = <<u>> /\ issued = [s \in 1..MaxSessions |-> IF s = 1 THEN 1 ELSE 0]
            /\ file = [st |-> "ok", cfg |-> [access |-> <<1, 1>>, refresh |-> 1, name |-> u]]
      BY <2>2, SessionAssumption DEF SessInit
    <3>2. owner \in Seq(Accounts) /\ Len(owner) = 1 /\ owner[1] = u
      BY <3>1
    <3>3. [access |-> <<1, 1>>, refresh |-> 1, name |-> u] \in Configs
      BY SessionAssumption DEF Configs
    <3> QED
      BY <3>1, <3>2, <3>3, SessionAssumption DEF Fit
  <2> QED
    BY <2>1, <2>2
<1>2. ServerOK
  BY <1>1, SessionAssumption DEF ServerOK, SessInit
<1>3. FileOK /\ MemOK
  BY <1>1 DEF FileOK, MemOK, SessInit
<1>4. CallsOK /\ BusyOK
  <2>1. call = [i \in Slots |-> Idle]
    BY DEF SessInit
  <2>2. Idle \in CallRecords /\ CallFit(Idle, owner, crossed, unnamed) /\ Idle.pc = "idle"
    BY <1>1, IdleFits DEF Idle
  <2> QED
    BY <2>1, <2>2 DEF CallsOK, BusyOK
<1>5. CacheOK /\ FlagsOK /\ ConfigWhole
  <2>1. Len(owner) \in Nat /\ cache.key = 0
    BY <1>1 DEF SessInit
  <2>2. CacheOK
    BY <2>1 DEF CacheOK
  <2>3. FlagsOK
    BY DEF FlagsOK, SessInit
  <2>4. ConfigWhole
    BY <1>1 DEF ConfigWhole
  <2> QED
    BY <2>2, <2>3, <2>4
<1> QED
  BY <1>2, <1>3, <1>4, <1>5 DEF SInv

(* A call returns; with it a command ends.                                 *)
LEMMA Returns ==
  ASSUME SInv, NEW i \in Slots, Return(i), call[i].pc # "writing",
         UNCHANGED <<server, file, crossed, unnamed, hurt>>
  PROVE  ServerOK' /\ FileOK' /\ MemOK' /\ CallsOK' /\ BusyOK' /\ ConfigWhole'
<1>0. /\ UNCHANGED <<owner, issued, lapsed, file, crossed, unnamed, hurt>>
      /\ i[1] \in Procs /\ owner \in Seq(Accounts)
  BY SlotProc DEF server, SInv, ServerOK
<1>1. Idle \in CallRecords /\ CallFit(Idle, owner, crossed, unnamed) /\ Idle.pc = "idle"
  BY <1>0, IdleFits DEF Idle
<1>2. /\ call' \in [Slots -> CallRecords] /\ call'[i] = Idle
      /\ \A j \in Slots : j # i => call'[j] = call[j]
  BY <1>1 DEF Return, SInv, CallsOK
<1>3. /\ mem' \in [Procs -> Configs \cup {Nobody}]
      /\ \A p \in Procs : mem'[p] = mem[p] \/ (mem'[p] = Nobody /\ p = i[1] /\ p \in Commands)
  BY <1>0 DEF Return, SInv, MemOK
<1>4. ServerOK' /\ FileOK'
  BY <1>0 DEF SInv, ServerOK, FileOK
<1>5. MemOK'
  BY <1>0, <1>3 DEF SInv, MemOK
<1>6. CallsOK'
  BY <1>0, <1>1, <1>2 DEF SInv, CallsOK
<1>7. BusyOK'
  <2> SUFFICES ASSUME NEW j \in Slots, call'[j].pc # "idle" PROVE mem'[j[1]] # Nobody
    BY DEF BusyOK
  <2>1. j # i /\ mem[j[1]] # Nobody /\ j[1] \in Procs
    BY <1>1, <1>2, SlotProc DEF SInv, BusyOK
  <2> QED
    BY <2>1, <1>3, SlotProc
<1>8. ConfigWhole'
  BY <1>0, <1>2 DEF SInv, ConfigWhole
<1> QED
  BY <1>4, <1>5, <1>6, <1>7, <1>8

(* A call goes on, and nothing else changes.                               *)
LEMMA GoesOn ==
  ASSUME SInv, NEW i \in Slots, NEW k, call' = [call EXCEPT ![i] = k],
         CallFit(k, owner, crossed, unnamed), mem[i[1]] # Nobody, call[i].pc # "writing",
         UNCHANGED <<server, disk, mem, history>>
  PROVE  SInv'
<1>0. UNCHANGED <<owner, issued, lapsed, file, cache, mem, crossed, unnamed, hurt, switched>>
  BY DEF server, disk, history
<1>1. /\ call' \in [Slots -> CallRecords] /\ call'[i] = k
      /\ \A j \in Slots : j # i => call'[j] = call[j]
  BY DEF SInv, CallsOK, CallFit
<1>2. ServerOK' /\ FileOK' /\ MemOK' /\ CacheOK' /\ FlagsOK'
  BY <1>0 DEF SInv, ServerOK, FileOK, MemOK, CacheOK, FlagsOK
<1>3. CallsOK'
  BY <1>0, <1>1 DEF SInv, CallsOK
<1>4. BusyOK'
  BY <1>0, <1>1 DEF SInv, BusyOK
<1>5. ConfigWhole'
  BY <1>0, <1>1 DEF SInv, ConfigWhole
<1> QED
  BY <1>2, <1>3, <1>4, <1>5 DEF SInv

LEMMA CacheStays ==
  ASSUME SInv, UNCHANGED <<owner, cache, crossed, unnamed, hurt, switched>>
  PROVE  CacheOK' /\ FlagsOK'
  BY DEF SInv, CacheOK, FlagsOK

----------------------------------------------------------------------------
(* The actions.                                                            *)
LEMMA LoadKeeps == ASSUME SInv, NEW p \in Procs, Load(p) PROVE SInv'
<1>0. UNCHANGED <<owner, issued, lapsed, file, cache, call, crossed, unnamed, hurt, switched>>
  BY DEF Load, server, disk, history
<1>1. Signed_out \in Configs /\ Fit(Signed_out, owner, crossed, unnamed)
  BY SignedOutFits DEF SInv, ServerOK
<1>2. PICK c : mem' = [mem EXCEPT ![p] = c] /\ c \in Configs /\ Fit(c, owner, crossed, unnamed)
  BY <1>1 DEF Load, SInv, FileOK
<1>3. /\ mem' \in [Procs -> Configs \cup {Nobody}] /\ mem'[p] = c
      /\ \A q \in Procs : q # p => mem'[q] = mem[q]
  BY <1>2 DEF SInv, MemOK
<1>4. MemOK'
  BY <1>0, <1>2, <1>3 DEF SInv, MemOK
<1>5. BusyOK'
  <2> SUFFICES ASSUME NEW j \in Slots, call[j].pc # "idle" PROVE mem'[j[1]] # Nobody
    BY <1>0 DEF BusyOK
  <2>1. c # Nobody
    BY <1>2, SessionAssumption
  <2> QED
    BY <1>3, <2>1, SlotProc DEF SInv, BusyOK
<1>6. ServerOK' /\ FileOK' /\ CallsOK' /\ ConfigWhole'
  BY <1>0 DEF SInv, ServerOK, FileOK, CallsOK, ConfigWhole
<1> QED
  BY <1>0, <1>4, <1>5, <1>6, CacheStays DEF SInv

LEMMA ExitKeeps == ASSUME SInv, NEW p \in Procs, Exit(p) PROVE SInv'
<1>0. /\ UNCHANGED <<owner, issued, lapsed, file, cache, crossed, unnamed, switched>>
      /\ owner \in Seq(Accounts)
  BY DEF Exit, server, disk, SInv, ServerOK
<1>1. Idle \in CallRecords /\ CallFit(Idle, owner, crossed, unnamed) /\ Idle.pc = "idle"
  BY <1>0, IdleFits DEF Idle
<1>2. /\ call' \in [Slots -> CallRecords]
      /\ \A j \in Slots : call'[j] = IF j[1] = p THEN Idle ELSE call[j]
  BY <1>1 DEF Exit, SInv, CallsOK
<1>3. /\ mem' \in [Procs -> Configs \cup {Nobody}]
      /\ \A q \in Procs : mem'[q] = IF q = p THEN Nobody ELSE mem[q]
  BY DEF Exit, SInv, MemOK
<1>4. ServerOK' /\ FileOK'
  BY <1>0 DEF SInv, ServerOK, FileOK
<1>5. MemOK'
  BY <1>0, <1>3 DEF SInv, MemOK
<1>6. CallsOK'
  BY <1>0, <1>1, <1>2 DEF SInv, CallsOK
<1>7. BusyOK'
  BY <1>1, <1>2, <1>3, SlotProc DEF SInv, BusyOK
<1>8. CacheOK'
  BY <1>0 DEF SInv, CacheOK
<1>9. FlagsOK'
  BY <1>0 DEF SInv, FlagsOK, Exit
<1>10. ConfigWhole'
  BY <1>0, <1>2 DEF SInv, ConfigWhole, Exit
<1> QED
  BY <1>4, <1>5, <1>6, <1>7, <1>8, <1>9, <1>10 DEF SInv

LEMMA ReturnKeeps ==
  ASSUME SInv, NEW i \in Slots, Return(i), call[i].pc # "writing",
         UNCHANGED <<server, disk, history>>
  PROVE  SInv'
<1>1. UNCHANGED <<owner, file, cache, crossed, unnamed, hurt, switched>>
  BY DEF server, disk, history
<1> QED
  BY <1>1, Returns, CacheStays DEF SInv

LEMMA SendKeeps ==
  ASSUME SInv, NEW i \in Slots, NEW kind \in {"vault", "login", "code"}, NEW u \in Accounts \cup {Nobody},
         kind # "vault" => u \in Accounts, Send(i, kind, u)
  PROVE  SInv'
<1> DEFINE k == [Idle EXCEPT !.pc = "sent", !.kind = kind, !.who = u,
                             !.token = IF kind = "vault" THEN Of(i).access ELSE Nobody]
<1>1. Fit(mem[i[1]], owner, crossed, unnamed) /\ mem[i[1]] # Nobody /\ mem[i[1]] \in Configs
  BY SlotProc DEF Send, Of, SInv, MemOK, Fit
<1>2. Idle \in CallRecords /\ CallFit(Idle, owner, crossed, unnamed)
  BY IdleFits DEF SInv, ServerOK
<1>3. k \in CallRecords /\ k.snap = Idle.snap /\ k.with = 0 /\ k.done = 0 /\ k.pc = "sent" /\ k.kind = kind
      /\ k.who = u /\ k.token = IF kind = "vault" THEN mem[i[1]].access ELSE Nobody
  BY <1>1, <1>2 DEF Idle, CallRecords, Configs, Of, Kinds, Phases
<1>4. CallFit(k, owner, crossed, unnamed)
  <2>1. 0 <= Len(owner)
    BY DEF SInv, ServerOK
  <2> HIDE DEF k
  <2> QED
    BY <1>1, <1>2, <1>3, <2>1 DEF CallFit, Fit
<1> QED
  BY <1>1, <1>4, GoesOn DEF Send

LEMMA CarriedOutKeeps == ASSUME SInv, NEW i \in Slots, CarriedOut(i) PROVE SInv'
<1> DEFINE k == [call[i] EXCEPT !.pc = "answered", !.done = call[i].done + 1,
                               !.token = Nobody, !.with = call[i].token[1]]
<1>1. CallFit(call[i], owner, crossed, unnamed) /\ call[i] \in CallRecords /\ call[i].token # Nobody
      /\ call[i].pc \in {"sent", "resent"}
  BY DEF CarriedOut, Valid, SInv, CallsOK
<1>2. call' = [call EXCEPT ![i] = k]
  BY <1>1 DEF CarriedOut, SInv, CallsOK
<1>3. call[i].token[1] \in 1..MaxSessions /\ call[i].done = 0
  BY <1>1 DEF CallRecords, CallFit
<1>4. k \in CallRecords /\ k.snap = call[i].snap /\ k.with = call[i].token[1] /\ k.done = 1
      /\ k.pc = "answered" /\ k.token = Nobody /\ k.kind = call[i].kind /\ k.who = call[i].who
  <2>1. k = [call[i] EXCEPT !.pc = "answered", !.done = 1, !.token = Nobody, !.with = call[i].token[1]]
    BY <1>3
  <2> HIDE DEF k
  <2>2. call[i].token[1] \in 0..MaxSessions /\ 1 \in Nat
    BY <1>3, SessionAssumption
  <2> QED
    BY <1>1, <2>1, <2>2 DEF CallRecords, Phases
<1>5. CallFit(k, owner, crossed, unnamed)
  <2> HIDE DEF k
  <2> QED
    BY <1>1, <1>3, <1>4 DEF CallFit
<1>6. mem[i[1]] # Nobody /\ call[i].pc # "writing"
  BY <1>1 DEF SInv, BusyOK
<1> QED
  BY <1>2, <1>5, <1>6, GoesOn DEF CarriedOut

LEMMA RefreshWithKeeps ==
  ASSUME SInv, NEW i \in Slots, RefreshWith(i), call[i].pc = "sent", Of(i).refresh # 0,
         UNCHANGED <<server, disk, mem, history>>
  PROVE  SInv'
<1> DEFINE k == [call[i] EXCEPT !.pc = "refresh", !.token = Nobody, !.with = Of(i).refresh]
<1>1. CallFit(call[i], owner, crossed, unnamed) /\ call[i] \in CallRecords /\ mem[i[1]] # Nobody
  BY DEF SInv, CallsOK, BusyOK
<1>2. Fit(mem[i[1]], owner, crossed, unnamed) /\ mem[i[1]] \in Configs
  BY <1>1, SlotProc DEF SInv, MemOK, Fit
<1>3. call' = [call EXCEPT ![i] = k]
  BY <1>1 DEF RefreshWith, SInv, CallsOK
<1>4. k \in CallRecords /\ k.snap = call[i].snap /\ k.with = mem[i[1]].refresh /\ k.done = call[i].done
      /\ k.pc = "refresh" /\ k.token = Nobody /\ k.kind = call[i].kind /\ k.who = call[i].who
  BY <1>1, <1>2 DEF CallRecords, Phases, Configs, Of
<1>5. CallFit(k, owner, crossed, unnamed)
  <2> HIDE DEF k
  <2> QED
    BY <1>1, <1>2, <1>4 DEF CallFit, Fit, Of
<1> QED
  BY <1>1, <1>3, <1>5, GoesOn

LEMMA RefusedKeeps == ASSUME SInv, NEW i \in Slots, Refused(i) PROVE SInv'
<1>1. CASE call[i].pc = "sent" /\ Of(i).refresh # 0
  BY <1>1, RefreshWithKeeps DEF Refused
<1>2. CASE ~(call[i].pc = "sent" /\ Of(i).refresh # 0)
  BY <1>2, ReturnKeeps DEF Refused
<1> QED
  BY <1>1, <1>2

(* The listing of the terminal UI: the cache is the owner's unless the     *)
(* process has another session by now.                                     *)
LEMMA ListedKeeps == ASSUME SInv, NEW i \in Slots, Listed(i) PROVE SInv'
<1>0. /\ UNCHANGED <<server, file, crossed, unnamed, hurt>> /\ UNCHANGED owner
      /\ call[i].pc = "answered" /\ Return(i)
  BY DEF Listed, server
<1>1. ServerOK' /\ FileOK' /\ MemOK' /\ CallsOK' /\ BusyOK' /\ ConfigWhole'
  BY <1>0, Returns
<1>2. /\ Fit(mem[i[1]], owner, crossed, unnamed)
      /\ mem[i[1]].refresh \in Nat /\ Len(owner) \in Nat
  BY <1>0, SlotProc, SessionAssumption DEF SInv, BusyOK, MemOK, Fit, Configs, ServerOK
<1>3. CacheOK'
  <2>1. cache'.key = mem[i[1]].refresh /\ cache'.of = owner[call[i].with]
    BY DEF Listed, CacheKey, Of
  <2>2. ~switched' => mem[i[1]].refresh = call[i].with
    BY DEF Listed, Of
  <2>3. cache'.key \in 0..Len(owner)
    BY <1>2, <2>1 DEF Fit
  <2> QED
    BY <1>0, <2>1, <2>2, <2>3 DEF CacheOK
<1>4. FlagsOK'
  BY <1>0 DEF Listed, SInv, FlagsOK
<1> QED
  BY <1>1, <1>3, <1>4 DEF SInv

(* Sessions, tokens and flags may be added to: what fitted still fits.     *)
LEMMA Carry ==
  ASSUME SInv, owner' \in Seq(Accounts), Longer(owner, owner'), crossed => crossed', unnamed => unnamed',
         UNCHANGED <<file, cache, switched>>
  PROVE  /\ \A p \in Procs : mem[p] # Nobody => Fit(mem[p], owner', crossed', unnamed')
         /\ \A j \in Slots : CallFit(call[j], owner', crossed', unnamed')
         /\ FileOK' /\ CacheOK'
<1>0. owner \in Seq(Accounts) /\ Len(owner) \in Nat /\ Len(owner') \in Nat
  BY DEF SInv, ServerOK
<1>1. \A p \in Procs : mem[p] # Nobody => Fit(mem[p], owner', crossed', unnamed')
  BY <1>0, FitMono DEF SInv, MemOK
<1>2. \A j \in Slots : CallFit(call[j], owner', crossed', unnamed')
  BY <1>0, CallFitMono DEF SInv, CallsOK
<1>3. FileOK'
  BY <1>0, FitMono DEF SInv, FileOK
<1>4. CacheOK'
  <2>1. cache.key \in 0..Len(owner')
    BY <1>0 DEF SInv, CacheOK, Longer
  <2>2. cache.key # 0 => cache.key \in 1..Len(owner)
    BY <1>0 DEF SInv, CacheOK
  <2> QED
    BY <2>1, <2>2 DEF SInv, CacheOK, Longer
<1> QED
  BY <1>1, <1>2, <1>3, <1>4

LEMMA RefreshDoneKeeps == ASSUME SInv, NEW i \in Slots, RefreshDone(i) PROVE SInv'
<1> DEFINE s == call[i].with
           p == i[1]
           k == [call[i] EXCEPT !.pc = "save", !.with = 0]
<1>0. /\ UNCHANGED <<owner, lapsed, file, cache, unnamed, hurt, switched>> /\ call[i].pc = "refresh"
      /\ owner \in Seq(Accounts) /\ p \in Procs /\ Longer(owner, owner')
  BY SlotProc DEF RefreshDone, disk, SInv, ServerOK, Longer
<1>1. CallFit(call[i], owner, crossed, unnamed) /\ call[i] \in CallRecords
  BY DEF SInv, CallsOK
<1>2. s \in 1..Len(owner) /\ s \in 1..MaxSessions
  BY <1>0, <1>1, SessionAssumption DEF CallFit, CallRecords, SInv, ServerOK
<1>3. issued[s] \in 0..MaxTokens /\ issued[s] < MaxTokens
  BY <1>2 DEF SInv, ServerOK, RefreshDone
<1>4. ServerOK'
  <2>1. issued' \in [1..MaxSessions -> 0..MaxTokens]
    BY <1>2, <1>3, SessionAssumption DEF RefreshDone, SInv, ServerOK
  <2>2. \A q \in 1..MaxSessions : lapsed[q] <= issued'[q] /\ (q > Len(owner) => issued'[q] = 0)
    BY <1>2, <1>3, SessionAssumption DEF RefreshDone, SInv, ServerOK
  <2> QED
    BY <1>0, <2>1, <2>2 DEF SInv, ServerOK
<1>5. crossed => crossed'
  BY DEF RefreshDone
<1>6. /\ \A q \in Procs : mem[q] # Nobody => Fit(mem[q], owner', crossed', unnamed')
      /\ \A j \in Slots : CallFit(call[j], owner', crossed', unnamed')
      /\ FileOK' /\ CacheOK'
  BY <1>0, <1>5, Carry
<1>7. MemOK' /\ mem'[p] # Nobody /\ \A q \in Procs : q # p => mem'[q] = mem[q]
  <2> DEFINE c == [mem[p] EXCEPT !.access = <<s, issued[s] + 1>>]
  <2>1. mem[p] # Nobody /\ mem[p] \in Configs /\ Fit(mem[p], owner', crossed', unnamed')
    BY <1>0, <1>6 DEF SInv, BusyOK, MemOK, Fit
  <2>2. mem' = [mem EXCEPT ![p] = c]
    BY <1>0, <2>1 DEF RefreshDone, SInv, MemOK
  <2>3. <<s, issued[s] + 1>> \in (1..MaxSessions) \X (1..MaxTokens)
    BY <1>2, <1>3, SessionAssumption
  <2>4. c \in Configs /\ c.access = <<s, issued[s] + 1>> /\ c.refresh = mem[p].refresh /\ c.name = mem[p].name
    BY <2>1, <2>3 DEF Configs
  <2>5. c # Nobody
    BY <2>4, SessionAssumption
  <2>6. ~crossed' => mem[p].refresh = s
    BY DEF RefreshDone, Of
  <2>7. Fit(c, owner', crossed', unnamed')
    <3>1. c.access[1] = s /\ s <= Len(owner')
      BY <1>0, <1>2, <2>4
    <3> HIDE DEF c, s
    <3> QED
      BY <2>1, <2>4, <2>6, <3>1 DEF Fit
  <2> HIDE DEF c
  <2>8. mem' \in [Procs -> Configs \cup {Nobody}] /\ mem'[p] = c /\ \A q \in Procs : q # p => mem'[q] = mem[q]
    BY <1>0, <2>2, <2>4 DEF SInv, MemOK
  <2> QED
    BY <1>0, <1>6, <2>5, <2>7, <2>8 DEF MemOK
<1>8. k \in CallRecords /\ k.snap = call[i].snap /\ k.token = call[i].token /\ k.with = 0 /\ k.pc = "save"
      /\ k.done = call[i].done /\ k.kind = call[i].kind /\ k.who = call[i].who
  <2>1. 0 \in 0..MaxSessions
    BY SessionAssumption
  <2> QED
    BY <1>1, <2>1 DEF CallRecords, Phases
<1>9. /\ call' \in [Slots -> CallRecords] /\ call'[i] = k
      /\ \A j \in Slots : j # i => call'[j] = call[j]
  BY <1>1, <1>8 DEF RefreshDone, SInv, CallsOK
<1>10. CallsOK'
  <2>1. CallFit(call[i], owner', crossed', unnamed') /\ 0 <= Len(owner')
    BY <1>0, <1>6
  <2>2. CallFit(k, owner', crossed', unnamed')
    <3> HIDE DEF k, s
    <3> QED
      BY <1>0, <1>8, <2>1 DEF CallFit
  <2> QED
    BY <1>6, <1>9, <2>2 DEF CallsOK
<1>11. BusyOK'
  BY <1>7, <1>9, SlotProc DEF SInv, BusyOK
<1>12. FlagsOK'
  BY <1>0 DEF RefreshDone, SInv, FlagsOK
<1>13. ConfigWhole'
  BY <1>0, <1>9 DEF SInv, ConfigWhole
<1> QED
  BY <1>4, <1>6, <1>7, <1>10, <1>11, <1>12, <1>13 DEF SInv

LEMMA SignInKeeps == ASSUME SInv, NEW i \in Slots, SignIn(i) PROVE SInv'
<1> DEFINE m == Len(owner) + 1
           p == i[1]
           u == call[i].who
           k == [call[i] EXCEPT !.pc = "save", !.got = m]
           nameless == i[1] \in Guis /\ call[i].kind = "code"
<1>0. /\ UNCHANGED <<lapsed, file, cache, crossed, hurt, switched>> /\ call[i].pc \in {"sent", "resent"}
      /\ owner \in Seq(Accounts) /\ p \in Procs /\ Len(owner) < MaxSessions
  BY SlotProc DEF SignIn, NewSession, disk, SInv, ServerOK
<1>1. CallFit(call[i], owner, crossed, unnamed) /\ call[i] \in CallRecords /\ u \in Accounts
  BY DEF SInv, CallsOK, CallFit, SignIn, NewSession
<1>2. /\ owner' = Append(owner, u) /\ owner' \in Seq(Accounts) /\ Len(owner') = m /\ owner'[m] = u
      /\ Longer(owner, owner') /\ m \in 1..MaxSessions
  <2>1. owner' = Append(owner, u)
    BY DEF SignIn, NewSession
  <2>2. Len(owner) \in Nat /\ Len(owner') = m /\ owner' \in Seq(Accounts) /\ owner'[m] = u
    BY <1>0, <1>1, <2>1
  <2>3. \A q \in 1..Len(owner) : owner'[q] = owner[q]
    BY <1>0, <1>1, <2>1
  <2> QED
    BY <1>0, <2>1, <2>2, <2>3, SessionAssumption DEF Longer
<1>3. ServerOK'
  <2>1. issued' = [issued EXCEPT ![m] = 1]
    BY DEF SignIn, NewSession
  <2>2. issued' \in [1..MaxSessions -> 0..MaxTokens]
    BY <1>2, <2>1, SessionAssumption DEF SInv, ServerOK
  <2>3. lapsed[m] = 0 /\ \A q \in 1..MaxSessions : q > m => issued[q] = 0
    BY <1>0, <1>2 DEF SInv, ServerOK
  <2>4. \A q \in 1..MaxSessions : lapsed[q] <= issued'[q] /\ (q > m => issued'[q] = 0)
    BY <1>2, <2>1, <2>3 DEF SInv, ServerOK
  <2> QED
    BY <1>0, <1>2, <2>2, <2>4 DEF SInv, ServerOK
<1>4. unnamed' = (unnamed \/ nameless) /\ (unnamed => unnamed')
  BY DEF SignIn
<1>5. /\ \A q \in Procs : mem[q] # Nobody => Fit(mem[q], owner', crossed', unnamed')
      /\ \A j \in Slots : CallFit(call[j], owner', crossed', unnamed')
      /\ FileOK' /\ CacheOK'
  BY <1>0, <1>2, <1>4, Carry
<1>6. MemOK' /\ mem'[p] # Nobody /\ \A q \in Procs : q # p => mem'[q] = mem[q]
  <2> DEFINE c == [access |-> <<m, 1>>, refresh |-> m, name |-> IF nameless THEN mem[p].name ELSE u]
  <2>1. mem[p] # Nobody /\ mem[p] \in Configs
    BY <1>0 DEF SInv, BusyOK, MemOK
  <2>2. mem' = [mem EXCEPT ![p] = c]
    BY DEF SignIn
  <2>3. <<m, 1>> \in (1..MaxSessions) \X (1..MaxTokens) /\ m \in 0..MaxSessions /\ <<m, 1>>[1] = m
    BY <1>2, SessionAssumption
  <2>4. (IF nameless THEN mem[p].name ELSE u) \in Accounts \cup {Nobody}
    BY <1>1, <2>1 DEF Configs
  <2>5. c \in Configs
    BY <2>3, <2>4 DEF Configs
  <2>6. Fit(c, owner', crossed', unnamed')
    <3>1. c.access[1] = m /\ c.refresh = m /\ (~nameless => c.name = u)
      BY <2>3
    <3>2. ~unnamed' => c.name = u
      BY <1>4, <3>1
    <3>3. Len(owner') = m /\ owner'[m] = u /\ m <= m
      BY <1>2
    <3> HIDE DEF c, m, u
    <3> QED
      BY <2>5, <3>1, <3>2, <3>3 DEF Fit
  <2>7. c # Nobody
    BY <2>5, SessionAssumption
  <2> HIDE DEF c
  <2>8. mem' \in [Procs -> Configs \cup {Nobody}] /\ mem'[p] = c /\ \A q \in Procs : q # p => mem'[q] = mem[q]
    BY <1>0, <2>2, <2>5 DEF SInv, MemOK
  <2> QED
    BY <1>0, <1>5, <2>6, <2>7, <2>8 DEF MemOK
<1>7. k \in CallRecords /\ k.snap = call[i].snap /\ k.token = call[i].token /\ k.with = call[i].with /\ k.pc = "save"
      /\ k.done = call[i].done /\ k.kind = call[i].kind /\ k.who = call[i].who
  <2>1. m \in 0..MaxSessions
    BY <1>2
  <2> HIDE DEF m
  <2> QED
    BY <1>1, <2>1 DEF CallRecords, Phases
<1>8. /\ call' \in [Slots -> CallRecords] /\ call'[i] = k
      /\ \A j \in Slots : j # i => call'[j] = call[j]
  <2>1. call' = [call EXCEPT ![i] = k]
    BY <1>1 DEF SignIn, NewSession, SInv, CallsOK
  <2> HIDE DEF k
  <2> QED
    BY <1>7, <2>1 DEF SInv, CallsOK
<1>9. CallsOK'
  <2>1. CallFit(k, owner', crossed', unnamed')
    <3> HIDE DEF k, m, u
    <3> QED
      BY <1>0, <1>5, <1>7 DEF CallFit
  <2> QED
    BY <1>5, <1>8, <2>1 DEF CallsOK
<1>10. BusyOK'
  BY <1>6, <1>8, SlotProc DEF SInv, BusyOK
<1>11. FlagsOK'
  BY <1>0, <1>4 DEF SInv, FlagsOK
<1>12. ConfigWhole'
  BY <1>0, <1>8 DEF SInv, ConfigWhole
<1> QED
  BY <1>3, <1>5, <1>6, <1>9, <1>10, <1>11, <1>12 DEF SInv

----------------------------------------------------------------------------
(* Saving.                                                                 *)
LEMMA SaveOpenKeeps == ASSUME SInv, NEW i \in Slots, SaveOpen(i) PROVE SInv'
<1> DEFINE k == [call[i] EXCEPT !.pc = "writing", !.snap = Of(i), !.mixed = FALSE]
<1>0. /\ UNCHANGED <<owner, issued, lapsed, cache, mem, crossed, unnamed, hurt, switched>>
      /\ file' = [st |-> "empty", cfg |-> Signed_out] /\ call[i].pc = "save" /\ owner \in Seq(Accounts)
  BY DEF SaveOpen, server, history, SInv, ServerOK
<1>1. CallFit(call[i], owner, crossed, unnamed) /\ call[i] \in CallRecords
  BY DEF SInv, CallsOK
<1>2. mem[i[1]] # Nobody /\ mem[i[1]] \in Configs /\ Fit(mem[i[1]], owner, crossed, unnamed)
  BY <1>0, SlotProc DEF SInv, BusyOK, MemOK
<1>3. Signed_out \in Configs /\ Fit(Signed_out, owner, crossed, unnamed)
  BY <1>0, SignedOutFits
<1>4. k \in CallRecords /\ k.snap = mem[i[1]] /\ k.with = call[i].with /\ k.token = call[i].token /\ k.pc = "writing"
      /\ k.done = call[i].done /\ k.kind = call[i].kind /\ k.who = call[i].who
  BY <1>1, <1>2 DEF CallRecords, Phases, Of
<1>5. /\ call' \in [Slots -> CallRecords] /\ call'[i] = k
      /\ \A j \in Slots : j # i => call'[j] = call[j]
  <2>1. call' = [call EXCEPT ![i] = k]
    BY <1>1 DEF SaveOpen, SInv, CallsOK
  <2> HIDE DEF k
  <2> QED
    BY <1>4, <2>1 DEF SInv, CallsOK
<1>6. CallFit(k, owner, crossed, unnamed)
  <2> HIDE DEF k
  <2> QED
    BY <1>0, <1>1, <1>2, <1>4 DEF CallFit
<1>7. ServerOK' /\ MemOK'
  BY <1>0 DEF SInv, ServerOK, MemOK
<1>8. FileOK'
  BY <1>0, <1>3 DEF FileOK
<1>9. CallsOK'
  BY <1>0, <1>5, <1>6 DEF SInv, CallsOK
<1>10. BusyOK'
  BY <1>0, <1>2, <1>5 DEF SInv, BusyOK
<1>11. ConfigWhole'
  BY <1>4, <1>5 DEF ConfigWhole
<1> QED
  BY <1>0, <1>7, <1>8, <1>9, <1>10, <1>11, CacheStays DEF SInv

(* What a save leaves of its call.                                         *)
LEMMA AfterSaveFits ==
  ASSUME SInv, NEW i \in Slots, call[i].pc = "writing"
  PROVE  LET c == AfterSave(i)
         IN  /\ c \in [Slots -> CallRecords] /\ CallFit(c[i], owner, crossed, unnamed)
             /\ c[i].pc # "writing" /\ (call[i].got # 0 => c[i].pc = "idle")
             /\ \A j \in Slots : j # i => c[j] = call[j]
<1> DEFINE k == [call[i] EXCEPT !.pc = "resent", !.snap = Signed_out, !.mixed = FALSE,
                                !.token = IF call[i].kind = "vault" THEN Of(i).access ELSE Nobody]
<1>0. owner \in Seq(Accounts) /\ call \in [Slots -> CallRecords]
  BY DEF SInv, ServerOK, CallsOK
<1>1. CallFit(call[i], owner, crossed, unnamed) /\ call[i] \in CallRecords
  BY DEF SInv, CallsOK
<1>2. mem[i[1]] # Nobody /\ mem[i[1]] \in Configs /\ Fit(mem[i[1]], owner, crossed, unnamed)
  BY SlotProc DEF SInv, BusyOK, MemOK
<1>3. Signed_out \in Configs /\ Fit(Signed_out, owner, crossed, unnamed)
  BY <1>0, SignedOutFits
<1>4. CASE call[i].got # 0
  <2>1. Idle \in CallRecords /\ CallFit(Idle, owner, crossed, unnamed) /\ Idle.pc = "idle"
    BY <1>0, IdleFits DEF Idle
  <2> QED
    BY <1>0, <1>4, <2>1 DEF AfterSave
<1>5. CASE call[i].got = 0
  <2>1. k \in CallRecords /\ k.snap = Signed_out /\ k.with = call[i].with /\ k.pc = "resent"
        /\ k.token = (IF call[i].kind = "vault" THEN mem[i[1]].access ELSE Nobody)
        /\ k.done = call[i].done /\ k.kind = call[i].kind /\ k.who = call[i].who
    <3> DEFINE t == IF call[i].kind = "vault" THEN mem[i[1]].access ELSE Nobody
    <3>1. t \in ((1..MaxSessions) \X (1..MaxTokens)) \cup {Nobody}
      BY <1>2 DEF Configs
    <3>2. k = [call[i] EXCEPT !.pc = "resent", !.snap = Signed_out, !.mixed = FALSE, !.token = t]
      BY DEF Of
    <3> HIDE DEF k, t
    <3>3. k \in CallRecords
      BY <1>1, <1>3, <3>1, <3>2 DEF CallRecords, Phases
    <3>4. k.snap = Signed_out /\ k.with = call[i].with /\ k.pc = "resent" /\ k.token = t
          /\ k.done = call[i].done /\ k.kind = call[i].kind /\ k.who = call[i].who
      BY <1>1, <3>2 DEF CallRecords
    <3> QED
      BY <3>3, <3>4 DEF t
  <2>2. AfterSave(i) = [call EXCEPT ![i] = k]
    BY <1>0, <1>1, <1>5 DEF AfterSave
  <2> HIDE DEF k
  <2>3. CallFit(k, owner, crossed, unnamed)
    BY <1>1, <1>2, <1>3, <2>1 DEF CallFit, Fit
  <2> QED
    BY <1>0, <1>5, <2>1, <2>2, <2>3
<1> QED
  BY <1>4, <1>5

(* A save ends, with a file f, and the calls c.                            *)
LEMMA SaveEnds ==
  ASSUME SInv, NEW i \in Slots, call[i].pc = "writing", Finish(i), hurt' \in BOOLEAN, FileOK',
         UNCHANGED <<owner, issued, lapsed, cache, crossed, unnamed, switched>>,
         call' \in [Slots -> CallRecords], CallFit(call'[i], owner, crossed, unnamed),
         call[i].got # 0 => call'[i].pc = "idle",
         \A j \in Slots : j # i => call'[j].pc = call[j].pc /\ CallFit(call'[j], owner, crossed, unnamed),
         ConfigWhole'
  PROVE  SInv'
<1>1. ServerOK' /\ CacheOK' /\ FlagsOK'
  BY DEF SInv, ServerOK, CacheOK, FlagsOK
<1>2. CallsOK'
  BY DEF CallsOK
<1>3. /\ mem' \in [Procs -> Configs \cup {Nobody}]
      /\ \A p \in Procs : mem'[p] = mem[p] \/ (mem'[p] = Nobody /\ p = i[1] /\ p \in Commands /\ call[i].got # 0)
  BY SlotProc DEF Finish, SInv, MemOK
<1>4. MemOK'
  BY <1>3 DEF SInv, MemOK
<1>5. BusyOK'
  <2> SUFFICES ASSUME NEW j \in Slots, call'[j].pc # "idle" PROVE mem'[j[1]] # Nobody
    BY DEF BusyOK
  <2>1. mem[j[1]] # Nobody /\ j[1] \in Procs /\ (j = i => call[i].got = 0)
    BY SlotProc DEF SInv, BusyOK
  <2> QED
    BY <1>3, <2>1, SlotProc
<1> QED
  BY <1>1, <1>2, <1>4, <1>5 DEF SInv

LEMMA SaveFailsKeeps == ASSUME SInv, NEW i \in Slots, SaveFails(i) PROVE SInv'
<1>0. /\ UNCHANGED <<owner, issued, lapsed, cache, file, crossed, unnamed, switched>>
      /\ hurt' = TRUE /\ call[i].pc = "writing" /\ Finish(i) /\ call' = AfterSave(i)
  BY DEF SaveFails, server, disk
<1>1. /\ call' \in [Slots -> CallRecords] /\ CallFit(call'[i], owner, crossed, unnamed)
      /\ (call[i].got # 0 => call'[i].pc = "idle") /\ \A j \in Slots : j # i => call'[j] = call[j]
  BY <1>0, AfterSaveFits
<1>2. FileOK' /\ ConfigWhole'
  BY <1>0 DEF SInv, FileOK, ConfigWhole
<1>3. \A j \in Slots : j # i => call'[j].pc = call[j].pc /\ CallFit(call'[j], owner, crossed, unnamed)
  BY <1>1 DEF SInv, CallsOK
<1> QED
  BY <1>0, <1>1, <1>2, <1>3, SaveEnds

LEMMA SaveWriteKeeps == ASSUME SInv, NEW i \in Slots, SaveWrite(i) PROVE SInv'
<1> DEFINE c == AfterSave(i)
<1>0. /\ UNCHANGED <<owner, issued, lapsed, cache, crossed, unnamed, switched>>
      /\ hurt' = (hurt \/ call[i].mixed) /\ call[i].pc = "writing" /\ Finish(i) /\ call' = Mixed(i, c)
  BY DEF SaveWrite, server
<1>1. /\ c \in [Slots -> CallRecords] /\ CallFit(c[i], owner, crossed, unnamed)
      /\ (call[i].got # 0 => c[i].pc = "idle") /\ \A j \in Slots : j # i => c[j] = call[j]
  BY <1>0, AfterSaveFits
<1>2. CallFit(call[i], owner, crossed, unnamed) /\ call[i] \in CallRecords /\ owner \in Seq(Accounts)
  BY DEF SInv, CallsOK, ServerOK
<1> HIDE DEF c
<1>3. ASSUME NEW j \in Slots, j # i
      PROVE  /\ call'[j] \in CallRecords /\ call'[j].pc = call[j].pc
             /\ CallFit(call'[j], owner, crossed, unnamed)
  <2> DEFINE k == [call[j] EXCEPT !.mixed = TRUE]
  <2>1. CallFit(call[j], owner, crossed, unnamed) /\ call[j] \in CallRecords
    BY DEF SInv, CallsOK
  <2>2. call'[j] = IF call[j].pc = "writing" THEN k ELSE call[j]
    BY <1>0, <1>1, <1>3 DEF Mixed
  <2>3. /\ k \in CallRecords /\ k.snap = call[j].snap /\ k.token = call[j].token /\ k.with = call[j].with
        /\ k.pc = call[j].pc /\ k.done = call[j].done /\ k.kind = call[j].kind /\ k.who = call[j].who
    BY <2>1 DEF CallRecords
  <2> HIDE DEF k
  <2>4. CallFit(k, owner, crossed, unnamed)
    BY <2>1, <2>3 DEF CallFit
  <2> QED
    BY <2>1, <2>2, <2>3, <2>4
<1>4. call'[i] = c[i]
  BY <1>0 DEF Mixed
<1>5. call' \in [Slots -> CallRecords]
  <2>1. c[i] \in CallRecords /\ DOMAIN call' = Slots /\ call' = [j \in Slots |-> call'[j]]
    BY <1>0, <1>1 DEF Mixed
  <2>2. \A j \in Slots : call'[j] \in CallRecords
    BY <1>3, <1>4, <2>1
  <2> QED
    BY <2>1, <2>2
<1>6. PICK st \in {"ok"} \cup (IF call[i].mixed THEN {"garbled"} ELSE {}) :
         file' = [st |-> st, cfg |-> IF st = "ok" THEN call[i].snap ELSE Signed_out]
  BY DEF SaveWrite
<1>7. FileOK'
  <2>1. Signed_out \in Configs /\ Fit(Signed_out, owner, crossed, unnamed)
    BY <1>2, SignedOutFits
  <2>2. call[i].snap \in Configs /\ Fit(call[i].snap, owner, crossed, unnamed)
    BY <1>2 DEF CallFit, Fit
  <2>3. st \in {"ok", "garbled"}
    BY <1>6
  <2> QED
    BY <1>0, <1>6, <2>1, <2>2, <2>3 DEF FileOK
<1>8. ConfigWhole'
  <2>1. file'.st = "garbled" => call[i].mixed
    BY <1>6
  <2>2. file'.st # "empty"
    BY <1>6
  <2> QED
    BY <1>0, <2>1, <2>2 DEF ConfigWhole
<1>9. hurt' \in BOOLEAN
  BY <1>0 DEF SInv, FlagsOK
<1> QED
  BY <1>0, <1>1, <1>3, <1>4, <1>5, <1>7, <1>8, <1>9, SaveEnds

(* The server's clock moves past tokens that are there.                    *)
LEMMA LapseKeeps == ASSUME SInv, NEW s \in 1..MaxSessions, Lapse(s) PROVE SInv'
<1>0. UNCHANGED <<owner, issued, file, cache, mem, call, crossed, unnamed, hurt, switched>>
  BY DEF Lapse, disk, history
<1>1. ServerOK'
  BY <1>0 DEF Lapse, SInv, ServerOK
<1>2. FileOK' /\ MemOK' /\ CallsOK' /\ BusyOK' /\ ConfigWhole'
  BY <1>0 DEF SInv, FileOK, MemOK, CallsOK, BusyOK, ConfigWhole
<1> QED
  BY <1>0, <1>1, <1>2, CacheStays DEF SInv

----------------------------------------------------------------------------
LEMMA NextKeeps == SInv /\ [SessNext]_sessVars => SInv'
<1> SUFFICES ASSUME SInv, [SessNext]_sessVars PROVE SInv'
  OBVIOUS
<1>1. CASE UNCHANGED sessVars
  BY <1>1 DEF sessVars, server, disk, counts, history, SInv, ServerOK, FileOK, MemOK, CallsOK, BusyOK,
              CacheOK, FlagsOK, ConfigWhole
<1>2. ASSUME NEW p \in Procs, Load(p) \/ Exit(p) PROVE SInv'
  BY <1>2, LoadKeeps, ExitKeeps
<1>3. ASSUME NEW i \in Slots, Answered(i) \/ Lost(i) \/ Deadline(i) \/ Unavailable(i)
                                 \/ RefreshRefused(i) \/ RefreshDeadline(i)
      PROVE  SInv'
  BY <1>3, ReturnKeeps DEF Answered, Lost, Deadline, Unavailable, RefreshRefused, RefreshDeadline
<1>4. ASSUME NEW i \in Slots, SaveOpen(i) \/ SaveWrite(i) \/ SaveFails(i) \/ Listed(i) \/ CarriedOut(i)
                                 \/ Refused(i) \/ RefreshDone(i) \/ SignIn(i)
      PROVE  SInv'
  BY <1>4, SaveOpenKeeps, SaveWriteKeeps, SaveFailsKeeps, ListedKeeps, CarriedOutKeeps, RefusedKeeps,
     RefreshDoneKeeps, SignInKeeps
<1>5. ASSUME NEW i \in Slots, Send(i, "vault", Nobody) PROVE SInv'
  BY <1>5, SendKeeps
<1>6. ASSUME NEW i \in Slots, NEW u \in Accounts, Send(i, "login", u) \/ Send(i, "code", u) PROVE SInv'
  BY <1>6, SendKeeps
<1>7. ASSUME NEW s \in 1..MaxSessions, Lapse(s) PROVE SInv'
  BY <1>7, LapseKeeps
<1> QED
  BY <1>1, <1>2, <1>3, <1>4, <1>5, <1>6, <1>7 DEF SessNext, Inside

(* SInv holds in every reachable state, for every set of processes and     *)
(* accounts and every bound.                                               *)
THEOREM SessionInvariance == SessSpec => []SInv
<1>1. SessInit => SInv
  BY InitSInv
<1>2. SInv /\ [SessNext]_sessVars => SInv'
  BY NextKeeps
<1> QED
  BY <1>1, <1>2, PTL DEF SessSpec

(* The sessions of the server, the config file, the Configs in memory and  *)
(* the calls under way keep their types, and a call belongs to a process   *)
(* that has loaded its Config.                                             *)
LEMMA SessionTypes == SInv => SessTypeOK
<1> SUFFICES ASSUME SInv PROVE SessTypeOK
  OBVIOUS
<1>1. /\ owner \in Seq(Accounts) /\ Len(owner) <= MaxSessions
      /\ \A s \in 1..MaxSessions : lapsed[s] <= issued[s] /\ issued[s] <= MaxTokens
  BY SessionAssumption DEF SInv, ServerOK
<1>2. file.st \in {"none", "empty", "ok", "garbled"} /\ file.cfg \in Configs
  BY DEF SInv, FileOK
<1>3. \A p \in Procs : mem[p] \in Configs \cup {Nobody}
  BY DEF SInv, MemOK
<1>4. \A i \in Slots : call[i].pc # "idle" => mem[i[1]] # Nobody
  BY DEF SInv, BusyOK
<1> QED BY <1>1, <1>2, <1>3, <1>4 DEF SessTypeOK

(* A Config holds the two tokens of one session and the name of its        *)
(* account, in memory and on disk, whatever the goroutines of a terminal   *)
(* UI and the commands next to it do, but for the two ways ConfigFits      *)
(* names.                                                                  *)
THEOREM ConfigsFit == SessSpec => []ConfigFits
<1>1. SInv => ConfigFits
  BY DEF SInv, FileOK, MemOK, Fit, ConfigFits, PairFits, NameFits
<1> QED
  BY <1>1, SessionInvariance, PTL

(* refreshInterceptor never has a call carried out twice.                  *)
THEOREM NeverTwice == SessSpec => []CarriedOutOnce
<1>1. SInv => CarriedOutOnce
  BY DEF SInv, CallsOK, CallFit, CarriedOutOnce
<1> QED
  BY <1>1, SessionInvariance, PTL

(* config.yaml is whole unless a save is under way or has been hurt.       *)
THEOREM ConfigStaysWhole == SessSpec => []ConfigWhole
<1>1. SInv => ConfigWhole
  BY DEF SInv
<1> QED
  BY <1>1, SessionInvariance, PTL

(* An offline start shows nobody else's vault, but for the listing that    *)
(* CacheIsOwn names.                                                       *)
THEOREM CacheStaysOwn == SessSpec => []CacheIsOwn
<1>1. SInv => CacheIsOwn
  BY DEF SInv, CacheOK, CacheIsOwn, CacheOpens, CacheKey
<1> QED
  BY <1>1, SessionInvariance, PTL
=============================================================================
