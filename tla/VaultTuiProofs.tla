--------------------------- MODULE VaultTuiProofs ---------------------------
(***************************************************************************)
(* Proofs about VaultTui for every set of ids, kinds and slots and every   *)
(* bound.  TInv is inductive by itself; FInv, about which copy of the      *)
(* items is where while a single command runs, is inductive relative to it.*)
(***************************************************************************)
EXTENDS VaultTui, TLAPS

(* What a command carries is there when its goroutine needs it.            *)
CarriesAll(c) ==
    /\ c.op \in {"flag", "edit", "create"} => c.item \in Item
    /\ c.op \in {"flag", "edit", "delete"} => c.id \in Ids
    /\ c.pc = "build" => c.op \in {"edit", "create"}
    /\ c.pc = "save" \/ c.msg \in {"loaded", "offline"} => c.seen \in Listing

CommandsWhole == \A s \in Slots : CarriesAll(cmd[s])

TInv == TypeOK /\ ScreenHasItsData /\ CommandsWhole

Says(c, m) == c.pc = "msg" /\ c.msg = m

(* A command that has not touched the store yet, or never will.            *)
Harmless(c) ==
    \/ c.pc \in {"build", "call", "again"} /\ c.op # "load"
    \/ Says(c, "toast")

(* What holds of the only command c that may be running, or of an idle     *)
(* slot, when the store, the cache file, the list and the two flags of the *)
(* header have these values.                                               *)
Current(c, st, ca, its, err, off) ==
    /\ c.pc = "save" \/ Says(c, "loaded") => c.seen = st
    /\ Says(c, "offline") => c.seen = ca
    /\ ~err /\ ~off /\ (c.pc = "idle" \/ Harmless(c)) => its = st
    /\ off /\ ~Says(c, "loaded") => its = ca
    /\ c.pc = "build" /\ c.clean => its = st
    /\ c.pc \in {"call", "again"} /\ c.op \in {"flag", "edit"} /\ c.clean /\ Holds(st, c.id)
           => ~Forgets(c, st[c.id])

(* As long as no commands have overlapped, at most one is running, and     *)
(* everything is as it leaves it.                                          *)
FInv ==
    ~overlapped =>
        \E s \in Slots :
            /\ \A t \in Slots \ {s} : ~Busy(t)
            /\ Current(cmd[s], store, cache, items, syncErr, offline)

----------------------------------------------------------------------------
(* A new item is well formed.                                              *)
LEMMA FreshIsItem ==
    ASSUME NEW k \in Kinds, NEW p \in Passwords
    PROVE  FreshItem(k, p) \in Item
BY TuiAssumption DEF FreshItem, Item, Histories, Flags

(* What saveForm carries over is a history within its bound.               *)
LEMMA CarriedIsHistory ==
    ASSUME NEW old \in Item, NEW p \in Passwords
    PROVE  Carried(old, p) \in Histories
<1>1. old.password \in Passwords /\ old.history \in Seq(Passwords) /\ Len(old.history) <= MaxHistory
  BY DEF Item, Histories
<1>2. CASE old.password \in {0, p}
  BY <1>1, <1>2 DEF Carried, Histories
<1>3. CASE old.password \notin {0, p}
  <2> DEFINE h == <<old.password>> \o old.history
             n == IF Len(h) > MaxHistory THEN MaxHistory ELSE Len(h)
  <2>1. h \in Seq(Passwords) /\ Len(h) \in Nat
    BY <1>1
  <2>2. n \in 0..Len(h) /\ n <= MaxHistory
    BY <2>1, TuiAssumption
  <2> HIDE DEF h, n
  <2>3. SubSeq(h, 1, n) \in Seq(Passwords) /\ Len(SubSeq(h, 1, n)) = n
    BY <2>1, <2>2
  <2>4. Carried(old, p) = SubSeq(h, 1, n)
    BY <1>3 DEF Carried, h, n
  <2> QED BY <2>2, <2>3, <2>4 DEF Histories
<1> QED BY <1>2, <1>3

(* What Start does, without its choice of a slot.                          *)
LEMMA StartFacts ==
    ASSUME NEW c, Start(c)
    PROVE  /\ \E s \in Slots :
                  /\ ~Busy(s)
                  /\ cmd' = [cmd EXCEPT ![s] = c]
                  /\ overlapped' = (overlapped \/ \E t \in Slots : Busy(t))
           /\ started' = started + 1 /\ started < MaxCommands
           /\ failures' = failures
<1>1. \E s \in Slots : ~Busy(s)
  BY DEF Start
<1> DEFINE f == CHOOSE s \in Slots : ~Busy(s)
<1>2. f \in Slots /\ ~Busy(f)
  BY <1>1, Zenon
<1>3. cmd' = [cmd EXCEPT ![f] = c] /\ overlapped' = (overlapped \/ \E t \in Slots : Busy(t))
  BY Zenon DEF Start
<1>4. started' = started + 1 /\ started < MaxCommands /\ failures' = failures
  BY DEF Start
<1> HIDE DEF f
<1> QED BY <1>2, <1>3, <1>4, Zenon

----------------------------------------------------------------------------
(* A slot gets a command or a message that is whole.                       *)
LEMMA SlotKeepsCommands ==
    ASSUME TInv, NEW s \in Slots, NEW c \in Commands, CarriesAll(c),
           cmd' = [cmd EXCEPT ![s] = c]
    PROVE  cmd' \in [Slots -> Commands] /\ CommandsWhole'
<1>1. cmd \in [Slots -> Commands]
  BY DEF TInv, TypeOK
<1>2. \A t \in Slots : cmd'[t] = IF t = s THEN c ELSE cmd[t]
  BY <1>1
<1>3. \A t \in Slots : CarriesAll(cmd'[t])
  BY <1>2 DEF TInv, CommandsWhole
<1>4. cmd' \in [Slots -> Commands]
  BY <1>1
<1> QED BY <1>3, <1>4 DEF CommandsWhole

LEMMA StartKeepsCommands ==
    ASSUME TInv, NEW c \in Commands, CarriesAll(c), Start(c)
    PROVE  /\ cmd' \in [Slots -> Commands] /\ CommandsWhole'
           /\ started' \in 0..MaxCommands /\ failures' \in 0..MaxFailures
           /\ overlapped' \in BOOLEAN
<1>1. PICK s \in Slots :
        /\ cmd' = [cmd EXCEPT ![s] = c]
        /\ overlapped' = (overlapped \/ \E t \in Slots : Busy(t))
  BY StartFacts
<1>2. started' = started + 1 /\ started < MaxCommands /\ failures' = failures
  BY StartFacts
<1>3. started' \in 0..MaxCommands /\ failures' \in 0..MaxFailures
  BY <1>2, TuiAssumption DEF TInv, TypeOK
<1>4. overlapped' \in BOOLEAN
  BY <1>1
<1> QED BY <1>1, <1>3, <1>4, SlotKeepsCommands

(* Commands and messages of the model are well formed.                     *)
LEMMA CommandTypes ==
    ASSUME TInv,
           NEW op \in {"load", "flag", "edit", "create", "delete", "export"},
           NEW pc \in {"build", "call"}, NEW i \in Ids \cup {Nil},
           NEW it \in Item \cup {Nil},
           op \in {"flag", "edit", "create"} => it \in Item,
           op \in {"flag", "edit", "delete"} => i \in Ids,
           pc = "build" => op \in {"edit", "create"}
    PROVE  Command(op, pc, i, it) \in Commands /\ CarriesAll(Command(op, pc, i, it))
<1>1. syncErr \in BOOLEAN /\ offline \in BOOLEAN
  BY DEF TInv, TypeOK
<1>2. (op \in {"flag", "edit"} /\ ~syncErr /\ ~offline) \in BOOLEAN
  OBVIOUS
<1> QED BY <1>2 DEF Command, Commands, CarriesAll

LEMMA MessageTypes ==
    /\ Idle \in Commands /\ CarriesAll(Idle)
    /\ \A m \in {"saved", "deleted", "err", "toast"} :
          Message(m, Nil) \in Commands /\ CarriesAll(Message(m, Nil))
    /\ \A m \in {"loaded", "offline"}, l \in Listing :
          Message(m, l) \in Commands /\ CarriesAll(Message(m, l))
BY DEF Message, Idle, Commands, CarriesAll

LEMMA TInit == Init => TInv
<1> SUFFICES ASSUME Init PROVE TInv
  OBVIOUS
<1>1. FreshItem("login", MaxPassword) \in Item
  BY FreshIsItem, TuiAssumption DEF Passwords
<1>2. items \in Listing /\ store \in Listing /\ cache \in Listing \cup {Nil}
  BY <1>1 DEF Init, Listing
<1>3. Command("load", "call", Nil, Nil) \in Commands /\ CarriesAll(Command("load", "call", Nil, Nil))
  <2>1. (FALSE /\ ~syncErr /\ ~offline) \in BOOLEAN
    OBVIOUS
  <2> QED BY DEF Command, Commands, CarriesAll
<1>4. cmd \in [Slots -> Commands] /\ CommandsWhole
  <2> DEFINE f == CHOOSE t \in Slots : TRUE
  <2>1. cmd = [s \in Slots |-> IF s = f THEN Command("load", "call", Nil, Nil) ELSE Idle]
    BY DEF Init
  <2> HIDE DEF f
  <2> QED BY <2>1, <1>3, MessageTypes DEF CommandsWhole
<1>5. ScreenHasItsData
  BY DEF Init, ScreenHasItsData
<1>6. /\ mode = "list" /\ form = Nil /\ gen = Nil /\ target = Nil /\ export = Nil
      /\ loading = FALSE /\ offline = FALSE /\ syncErr = FALSE
      /\ started = 0 /\ failures = 0 /\ overlapped = FALSE
  BY Zenon DEF Init
<1>7. TypeOK
  <2>1. started \in 0..MaxCommands /\ failures \in 0..MaxFailures
    BY <1>6, TuiAssumption
  <2> QED BY <1>2, <1>4, <1>6, <2>1, Zenon DEF TypeOK, Modes
<1> QED BY <1>4, <1>5, <1>7 DEF TInv

----------------------------------------------------------------------------
ScreenTypes ==
    /\ mode \in Modes
    /\ form \in [id : Ids \cup {Nil}, kind : Kinds] \cup {Nil}
    /\ gen \in {"field", "alone", Nil}
    /\ target \in Ids \cup {Nil} /\ export \in Ids \cup {Nil}

(* Keys that only change what is shown.                                    *)
LEMMA ScreenKeys ==
    ASSUME TInv,
           \/ NewKey \/ SearchKey \/ GeneratorKey \/ PickerEnter \/ BackToList
           \/ CancelDelete \/ FormEsc \/ FormGenerate \/ GeneratorClose \/ ExportEsc
           \/ \E i \in Ids : EditKey(i) \/ DeleteKey(i) \/ ExportKey(i)
    PROVE  TInv'
<1>1. UNCHANGED <<status, outer, nothing>>
  BY DEF NewKey, SearchKey, GeneratorKey, PickerEnter, BackToList, CancelDelete,
         FormEsc, FormGenerate, GeneratorClose, ExportEsc, EditKey, DeleteKey,
         ExportKey, OpenForm
<1>2. ScreenTypes' /\ ScreenHasItsData'
  <2> USE TuiAssumption DEF TInv, TypeOK, ScreenTypes, ScreenHasItsData, Modes, Key
  <2>1. CASE NewKey \/ SearchKey \/ GeneratorKey \/ BackToList
    BY <2>1 DEF NewKey, SearchKey, GeneratorKey, BackToList
  <2>2. CASE CancelDelete \/ FormEsc \/ ExportEsc
    BY <2>2 DEF CancelDelete, FormEsc, ExportEsc
  <2>3. CASE FormGenerate \/ GeneratorClose
    BY <2>3 DEF FormGenerate, GeneratorClose
  <2>4. CASE \E i \in Ids : DeleteKey(i) \/ ExportKey(i)
    BY <2>4 DEF DeleteKey, ExportKey
  <2>5. ASSUME NEW i \in Ids \cup {Nil}, NEW k \in Kinds, OpenForm(i, k)
        PROVE  ScreenTypes' /\ ScreenHasItsData'
    BY <2>5 DEF OpenForm
  <2>6. CASE PickerEnter
    BY <2>5, <2>6 DEF PickerEnter
  <2>7. CASE \E i \in Ids : EditKey(i)
    <3>1. PICK i \in Ids : EditKey(i)
      BY <2>7
    <3>2. Holds(items, i)
      BY <3>1 DEF EditKey, Shown
    <3>3. items[i].kind \in Kinds
      BY <3>2 DEF Holds, Listing, Item
    <3> QED BY <2>5, <3>1, <3>3 DEF EditKey
  <2> QED BY <2>1, <2>2, <2>3, <2>4, <2>6, <2>7
<1>3. TypeOK'
  BY <1>1, <1>2 DEF TInv, TypeOK, ScreenTypes, status, outer, nothing
<1>4. CommandsWhole'
  BY <1>1 DEF TInv, CommandsWhole, nothing
<1> QED BY <1>2, <1>3, <1>4 DEF TInv

(* A flag change of an item on the screen is an item.                      *)
LEMMA FlaggedIsItem ==
    ASSUME TInv, NEW i \in Ids, Holds(items, i), NEW f \in Flags, NEW on
    PROVE  [items[i] EXCEPT !.flags = IF on THEN @ \cup {f} ELSE @ \ {f}] \in Item
BY DEF TInv, TypeOK, Listing, Holds, Item

(* What is known of a write when it starts.                                *)
NewWrite(c) ==
    /\ c.pc \in {"build", "call"} /\ c.op # "load"
    /\ c.clean => ~syncErr /\ ~offline
    /\ c.op = "edit" => c.pc = "build"
    /\ c.op = "flag" => c.item = [items[c.id] EXCEPT !.flags = c.item.flags]

(* Keys that start a write.                                                *)
LEMMA WriteKeys ==
    ASSUME TInv,
           \/ \E i \in Ids : \/ ArchiveKey(i) \/ TrashKey(i) \/ FavoriteKey(i)
                             \/ RestoreKey(i) \/ DuplicateKey(i)
           \/ ConfirmDelete \/ FormSave
    PROVE  \E c \in Commands :
              /\ CarriesAll(c) /\ NewWrite(c)
              /\ Start(c) /\ UNCHANGED <<screen, status, outer>>
<1>1. ASSUME NEW i \in Ids, Holds(items, i), NEW f \in Flags, NEW on, SetItemFlag(i, f, on)
      PROVE  \E c \in Commands :
                /\ CarriesAll(c) /\ NewWrite(c)
                /\ Start(c) /\ UNCHANGED <<screen, status, outer>>
  <2> DEFINE it == [items[i] EXCEPT !.flags = IF on THEN @ \cup {f} ELSE @ \ {f}]
  <2>1. it \in Item
    BY <1>1, FlaggedIsItem
  <2>2. Start(Command("flag", "call", i, it)) /\ UNCHANGED <<screen, status, outer>>
    BY <1>1 DEF SetItemFlag
  <2>3. it = [items[i] EXCEPT !.flags = it.flags]
    BY <1>1 DEF TInv, TypeOK, Listing, Holds, Item
  <2> HIDE DEF it
  <2>4. Command("flag", "call", i, it) \in Commands /\ CarriesAll(Command("flag", "call", i, it))
    BY <2>1, CommandTypes
  <2>5. NewWrite(Command("flag", "call", i, it))
    BY <2>3 DEF NewWrite, Command
  <2> QED BY <2>2, <2>4, <2>5
<1>2. "archived" \in Flags /\ "trashed" \in Flags /\ "favorite" \in Flags
  BY DEF Flags
<1>3. CASE \E i \in Ids : ArchiveKey(i) \/ TrashKey(i) \/ FavoriteKey(i) \/ RestoreKey(i)
  <2>1. PICK i \in Ids : ArchiveKey(i) \/ TrashKey(i) \/ FavoriteKey(i) \/ RestoreKey(i)
    BY <1>3
  <2>2. /\ Holds(items, i)
        /\ \E f \in Flags, on \in BOOLEAN : SetItemFlag(i, f, on)
    <3>1. Holds(items, i)
      BY <2>1, Zenon DEF ArchiveKey, TrashKey, FavoriteKey, RestoreKey, Shown
    <3>2. CASE ArchiveKey(i)
      <4>1. PICK c \in Categories : SetItemFlag(i, "archived", c # "archive")
        BY <3>2 DEF ArchiveKey
      <4> QED BY <3>1, <4>1, <1>2
    <3>3. CASE TrashKey(i)
      BY <3>1, <3>3, <1>2 DEF TrashKey
    <3>4. CASE FavoriteKey(i)
      BY <3>1, <3>4, <1>2 DEF FavoriteKey
    <3>5. CASE RestoreKey(i)
      BY <3>1, <3>5, <1>2 DEF RestoreKey
    <3> QED BY <2>1, <3>2, <3>3, <3>4, <3>5
  <2>3. PICK f \in Flags, on \in BOOLEAN : SetItemFlag(i, f, on)
    BY <2>2
  <2> QED BY <1>1, <2>2, <2>3
<1>4. CASE \E i \in Ids : DuplicateKey(i)
  <2>1. PICK i \in Ids : DuplicateKey(i)
    BY <1>4
  <2>2. items[i] \in Item
    BY <2>1 DEF DuplicateKey, Shown, Holds, TInv, TypeOK, Listing
  <2>3. Command("create", "call", Nil, items[i]) \in Commands
        /\ CarriesAll(Command("create", "call", Nil, items[i]))
    BY <2>2, CommandTypes
  <2>4. NewWrite(Command("create", "call", Nil, items[i]))
    BY DEF NewWrite, Command
  <2> QED BY <2>1, <2>3, <2>4 DEF DuplicateKey
<1>5. CASE ConfirmDelete
  <2>1. target \in Ids
    BY <1>5 DEF ConfirmDelete, Key, TInv, TypeOK, ScreenHasItsData
  <2>2. Command("delete", "call", target, Nil) \in Commands
        /\ CarriesAll(Command("delete", "call", target, Nil))
    BY <2>1, CommandTypes
  <2>3. NewWrite(Command("delete", "call", target, Nil))
    BY DEF NewWrite, Command
  <2> QED BY <1>5, <2>2, <2>3 DEF ConfirmDelete
<1>6. CASE FormSave
  <2>1. form \in [id : Ids \cup {Nil}, kind : Kinds]
    BY <1>6 DEF FormSave, Key, TInv, TypeOK, ScreenHasItsData
  <2>2. PICK p \in Passwords :
          Start(Command(IF form.id = Nil THEN "create" ELSE "edit",
                        "build", form.id, FreshItem(form.kind, p)))
    <3>1. 0 \in Passwords
      BY TuiAssumption DEF Passwords
    <3> QED BY <1>6, <3>1 DEF FormSave
  <2>3. FreshItem(form.kind, p) \in Item
    BY <2>1, FreshIsItem
  <2>4. form.id \in Ids \cup {Nil}
    BY <2>1
  <2> DEFINE op == IF form.id = Nil THEN "create" ELSE "edit"
             c  == Command(op, "build", form.id, FreshItem(form.kind, p))
  <2>5. op \in {"create", "edit"} /\ (op = "edit" => form.id \in Ids)
    BY <2>4
  <2> HIDE DEF op
  <2>6. c \in Commands /\ CarriesAll(c)
    BY <2>3, <2>4, <2>5, CommandTypes
  <2>7. NewWrite(c)
    BY <2>5 DEF NewWrite, Command
  <2>8. Start(c) /\ UNCHANGED <<screen, status, outer>>
    BY <1>6, <2>2 DEF FormSave, op
  <2> QED BY <2>6, <2>7, <2>8
<1> QED BY <1>3, <1>4, <1>5, <1>6

LEMMA WriteKeysKeep ==
    ASSUME TInv,
           NEW c \in Commands, CarriesAll(c), Start(c), UNCHANGED <<screen, status, outer>>
    PROVE  TInv'
<1>1. TypeOK'
  BY StartKeepsCommands DEF TInv, TypeOK, screen, status, outer
<1>2. ScreenHasItsData'
  BY DEF TInv, ScreenHasItsData, screen
<1> QED BY <1>1, <1>2, StartKeepsCommands DEF TInv

LEMMA LoadAndExportKeys ==
    ASSUME TInv, RefreshKey \/ ExportEnter
    PROVE  TInv'
<1>1. /\ Command("load", "call", Nil, Nil) \in Commands
      /\ CarriesAll(Command("load", "call", Nil, Nil))
      /\ Command("export", "call", Nil, Nil) \in Commands
      /\ CarriesAll(Command("export", "call", Nil, Nil))
  BY CommandTypes
<1>2. CASE RefreshKey
  <2>1. /\ cmd' \in [Slots -> Commands] /\ CommandsWhole'
        /\ started' \in 0..MaxCommands /\ failures' \in 0..MaxFailures
        /\ overlapped' \in BOOLEAN
    BY <1>1, <1>2, StartKeepsCommands DEF RefreshKey
  <2>2. TypeOK'
    BY <1>2, <2>1 DEF RefreshKey, TInv, TypeOK, screen, outer
  <2>3. ScreenHasItsData'
    BY <1>2 DEF RefreshKey, TInv, ScreenHasItsData, screen
  <2> QED BY <2>1, <2>2, <2>3 DEF TInv
<1>3. CASE ExportEnter
  <2>1. /\ cmd' \in [Slots -> Commands] /\ CommandsWhole'
        /\ started' \in 0..MaxCommands /\ failures' \in 0..MaxFailures
        /\ overlapped' \in BOOLEAN
    BY <1>1, <1>3, StartKeepsCommands DEF ExportEnter
  <2>2. TypeOK'
    BY <1>3, <2>1 DEF ExportEnter, TInv, TypeOK, status, outer, Modes
  <2>3. ScreenHasItsData'
    BY <1>3 DEF ExportEnter, ScreenHasItsData
  <2> QED BY <2>1, <2>2, <2>3 DEF TInv
<1> QED BY <1>2, <1>3

(* A step of a goroutine.                                                  *)
LEMMA GoroutineKeeps ==
    ASSUME TInv, NEW s \in Slots, NEW c \in Commands, CarriesAll(c),
           cmd' = [cmd EXCEPT ![s] = c], UNCHANGED user,
           store' \in Listing, cache' \in Listing \cup {Nil},
           failures' = failures \/ Fail
    PROVE  TInv'
<1>1. failures' \in 0..MaxFailures
  BY TuiAssumption DEF TInv, TypeOK, Fail
<1>2. TypeOK'
  BY <1>1, SlotKeepsCommands DEF TInv, TypeOK, user, screen, status
<1>3. ScreenHasItsData'
  BY DEF TInv, ScreenHasItsData, user, screen
<1> QED BY <1>2, <1>3, SlotKeepsCommands DEF TInv

LEMMA GoroutineSteps ==
    ASSUME TInv, NEW s \in Slots,
           \/ BuildPayload(s) \/ SecondTry(s) \/ CallApplied(s) \/ CallFails(s)
           \/ ExportDone(s) \/ LoadListed(s) \/ LoadSaved(s) \/ LoadFails(s)
    PROVE  TInv'
<1> DEFINE C == cmd[s]
<1>1. C \in Commands /\ CarriesAll(C)
  BY DEF TInv, TypeOK, CommandsWhole
<1>2. /\ cmd \in [Slots -> Commands] /\ items \in Listing /\ store \in Listing
      /\ cache \in Listing \cup {Nil}
  BY DEF TInv, TypeOK
<1>3. CASE BuildPayload(s)
  <2> DEFINE h == IF C.op = "edit" /\ C.item.kind = "login" /\ Holds(items, C.id)
                  THEN Carried(items[C.id], C.item.password) ELSE <<>>
             it == [C.item EXCEPT !.history = h]
             c == [C EXCEPT !.pc = "call", !.item = it]
  <2>1. C.op \in {"edit", "create"} /\ C.item \in Item /\ (C.op = "edit" => C.id \in Ids)
    BY <1>1, <1>3 DEF BuildPayload, Running, CarriesAll
  <2>2. h \in Histories
    <3>1. CASE C.op = "edit" /\ C.item.kind = "login" /\ Holds(items, C.id)
      <4>1. items[C.id] \in Item /\ C.item.password \in Passwords
        BY <1>2, <2>1, <3>1 DEF Holds, Listing, Item
      <4> QED BY <3>1, <4>1, CarriedIsHistory
    <3>2. CASE ~(C.op = "edit" /\ C.item.kind = "login" /\ Holds(items, C.id))
      BY <3>2, TuiAssumption DEF Histories
    <3> QED BY <3>1, <3>2
  <2>3. cmd' = [cmd EXCEPT ![s] = c] /\ UNCHANGED <<user, outer, failures>>
    BY <1>2, <1>3 DEF BuildPayload
  <2> HIDE DEF h
  <2>4. it \in Item
    BY <2>1, <2>2 DEF Item
  <2> HIDE DEF it
  <2>5. c \in Commands /\ CarriesAll(c)
    BY <1>1, <2>1, <2>4 DEF Commands, CarriesAll
  <2> QED BY <1>2, <2>3, <2>5, GoroutineKeeps DEF outer
<1>4. CASE CallApplied(s)
  <2>1. store' \in Listing
    BY <1>1, <1>2, <1>4 DEF CallApplied, Applied, CarriesAll, Listing
  <2>2. PICK m \in {"saved", "deleted", "err"} : Answer(s, m)
    BY <1>4 DEF CallApplied
  <2>3. UNCHANGED <<user, cache>> /\ (failures' = failures \/ Fail)
    BY <1>4 DEF CallApplied
  <2> QED BY <1>2, <2>1, <2>2, <2>3, MessageTypes, GoroutineKeeps DEF Answer
<1>5. CASE CallFails(s)
  BY <1>2, <1>5, MessageTypes, GoroutineKeeps DEF CallFails, Answer, outer
<1>6. CASE ExportDone(s)
  BY <1>2, <1>6, MessageTypes, GoroutineKeeps DEF ExportDone, Answer, outer
<1>7. CASE LoadListed(s)
  <2> DEFINE c == [C EXCEPT !.pc = "save", !.seen = store]
  <2>1. cmd' = [cmd EXCEPT ![s] = c] /\ UNCHANGED <<user, outer, failures>>
    BY <1>2, <1>7 DEF LoadListed
  <2>2. c \in Commands /\ CarriesAll(c)
    BY <1>1, <1>2 DEF Commands, CarriesAll
  <2> QED BY <1>2, <2>1, <2>2, GoroutineKeeps DEF outer
<1>8. CASE LoadSaved(s)
  <2>1. C.seen \in Listing
    BY <1>1, <1>8 DEF LoadSaved, Running, CarriesAll
  <2>2. cmd' = [cmd EXCEPT ![s] = Message("loaded", C.seen)]
    BY <1>2, <1>8 DEF LoadSaved
  <2>3. cache' \in Listing \cup {Nil} /\ (failures' = failures \/ Fail) /\ UNCHANGED <<user, store>>
    BY <1>2, <1>8, <2>1 DEF LoadSaved
  <2> QED BY <1>2, <2>1, <2>2, <2>3, MessageTypes, GoroutineKeeps
<1>9. CASE LoadFails(s)
  <2>1. CASE cache = Nil
    BY <1>2, <1>9, <2>1, MessageTypes, GoroutineKeeps DEF LoadFails, Answer, outer
  <2>2. CASE cache # Nil
    <3>1. cache \in Listing
      BY <1>2, <2>2
    <3>2. cmd' = [cmd EXCEPT ![s] = Message("offline", cache)] /\ Fail /\ UNCHANGED <<user, outer>>
      BY <1>9, <2>2 DEF LoadFails
    <3> QED BY <1>2, <3>1, <3>2, MessageTypes, GoroutineKeeps DEF outer
  <2> QED BY <2>1, <2>2
<1>10. CASE SecondTry(s)
  <2> DEFINE c == [C EXCEPT !.pc = "again"]
  <2>1. cmd' = [cmd EXCEPT ![s] = c] /\ UNCHANGED <<user, outer, failures>>
    BY <1>2, <1>10 DEF SecondTry
  <2>2. c \in Commands /\ CarriesAll(c)
    BY <1>1 DEF Commands, CarriesAll
  <2> QED BY <1>2, <2>1, <2>2, GoroutineKeeps DEF outer
<1> QED BY <1>3, <1>4, <1>5, <1>6, <1>7, <1>8, <1>9, <1>10

(* A message is handled.                                                   *)
LEMMA MessageSteps ==
    ASSUME TInv, NEW s \in Slots,
           \/ LoadedArrives(s) \/ OfflineArrives(s) \/ SavedArrives(s)
           \/ DeletedArrives(s) \/ ErrorArrives(s) \/ ToastArrives(s)
    PROVE  TInv'
<1> DEFINE load == Command("load", "call", Nil, Nil)
<1>1. cmd[s] \in Commands /\ CarriesAll(cmd[s])
  BY DEF TInv, TypeOK, CommandsWhole
<1>2. load \in Commands /\ CarriesAll(load) /\ Idle \in Commands /\ CarriesAll(Idle)
  BY CommandTypes, MessageTypes
<1> HIDE DEF load
<1>3. ASSUME Done(s) PROVE cmd' \in [Slots -> Commands] /\ CommandsWhole'
                           /\ UNCHANGED <<overlapped, started, failures>>
  BY <1>2, <1>3, SlotKeepsCommands DEF Done
<1>4. ASSUME Reload(s) PROVE cmd' \in [Slots -> Commands] /\ CommandsWhole'
                             /\ overlapped' \in BOOLEAN /\ UNCHANGED <<started, failures>>
  BY <1>2, <1>4, SlotKeepsCommands DEF Reload, load
<1>5. CASE LoadedArrives(s) \/ OfflineArrives(s)
  <2>1. Done(s) /\ UNCHANGED <<screen, outer>>
    BY <1>5 DEF LoadedArrives, OfflineArrives
  <2>2. items' \in Listing /\ loading' = FALSE /\ syncErr' = FALSE /\ offline' \in BOOLEAN
    BY <1>1, <1>5 DEF LoadedArrives, OfflineArrives, Arrives, CarriesAll
  <2>3. TypeOK'
    BY <1>3, <2>1, <2>2 DEF TInv, TypeOK, screen, outer
  <2>4. ScreenHasItsData'
    BY <2>1 DEF TInv, ScreenHasItsData, screen
  <2> QED BY <1>3, <2>1, <2>3, <2>4 DEF TInv
<1>6. CASE SavedArrives(s)
  <2>1. TypeOK'
    BY <1>4, <1>6 DEF SavedArrives, TInv, TypeOK, outer, Modes
  <2>2. ScreenHasItsData'
    BY <1>6 DEF SavedArrives, ScreenHasItsData
  <2> QED BY <1>4, <1>6, <2>1, <2>2 DEF TInv, SavedArrives
<1>7. CASE DeletedArrives(s)
  <2>1. TypeOK'
    BY <1>4, <1>7 DEF DeletedArrives, TInv, TypeOK, outer, Modes
  <2>2. ScreenHasItsData'
    BY <1>7 DEF DeletedArrives, ScreenHasItsData
  <2> QED BY <1>4, <1>7, <2>1, <2>2 DEF TInv, DeletedArrives
<1>8. CASE ErrorArrives(s)
  <2>1. TypeOK'
    BY <1>3, <1>8 DEF ErrorArrives, TInv, TypeOK, outer, Modes
  <2>2. ScreenHasItsData'
    BY <1>8 DEF ErrorArrives, ScreenHasItsData
  <2> QED BY <1>3, <1>8, <2>1, <2>2 DEF TInv, ErrorArrives
<1>9. CASE ToastArrives(s)
  <2>1. TypeOK'
    BY <1>3, <1>9 DEF ToastArrives, TInv, TypeOK, outer, screen, status
  <2>2. ScreenHasItsData'
    BY <1>9 DEF ToastArrives, TInv, ScreenHasItsData, screen
  <2> QED BY <1>3, <1>9, <2>1, <2>2 DEF TInv, ToastArrives
<1> QED BY <1>5, <1>6, <1>7, <1>8, <1>9

LEMMA TStep == TInv /\ [Next]_vars => TInv'
<1> SUFFICES ASSUME TInv, [Next]_vars PROVE TInv'
  OBVIOUS
<1>1. CASE RefreshKey \/ ExportEnter
  BY <1>1, LoadAndExportKeys
<1>2. CASE \/ NewKey \/ SearchKey \/ GeneratorKey \/ PickerEnter \/ BackToList
           \/ CancelDelete \/ FormEsc \/ FormGenerate \/ GeneratorClose \/ ExportEsc
           \/ \E i \in Ids : EditKey(i) \/ DeleteKey(i) \/ ExportKey(i)
  BY <1>2, ScreenKeys
<1>3. CASE \/ \E i \in Ids : \/ ArchiveKey(i) \/ TrashKey(i) \/ FavoriteKey(i)
                             \/ RestoreKey(i) \/ DuplicateKey(i)
           \/ ConfirmDelete \/ FormSave
  BY <1>3, WriteKeys, WriteKeysKeep
<1>4. CASE \E s \in Slots : Run(s)
  BY <1>4, GoroutineSteps, MessageSteps DEF Run
<1>5. CASE UNCHANGED vars
  BY <1>5 DEF vars, screen, status, outer, TInv, TypeOK, ScreenHasItsData, CommandsWhole
<1> QED BY <1>1, <1>2, <1>3, <1>4, <1>5 DEF Next, Keys

LEMMA TInvariance == Spec => []TInv
BY TInit, TStep, PTL DEF Spec

(* The types hold for every instance: in particular what saveForm carries  *)
(* over stays within the bound of the history.                             *)
THEOREM TuiTypeCorrect == Spec => []TypeOK
<1>1. TInv => TypeOK
  BY DEF TInv
<1> QED BY <1>1, TInvariance, PTL

(* No order of keys and messages lets a key handler dereference a form, a  *)
(* generator, a delete target or an export item that is gone.              *)
THEOREM ScreenNeverNil == Spec => []ScreenHasItsData
<1>1. TInv => ScreenHasItsData
  BY DEF TInv
<1> QED BY <1>1, TInvariance, PTL

----------------------------------------------------------------------------
(* A step that leaves at most the slot s busy, with c.                     *)
LEMMA OneSlot ==
    ASSUME TInv, NEW s \in Slots, NEW c \in Commands,
           \A t \in Slots \ {s} : ~Busy(t),
           cmd' = [cmd EXCEPT ![s] = c],
           Current(c, store', cache', items', syncErr', offline')
    PROVE  FInv'
<1>1. cmd \in [Slots -> Commands]
  BY DEF TInv, TypeOK
<1>2. cmd'[s] = c /\ \A t \in Slots \ {s} : cmd'[t] = cmd[t]
  BY <1>1
<1>3. \A t \in Slots \ {s} : ~Busy(t)'
  BY <1>2 DEF Busy
<1>4. Current(cmd[s], store, cache, items, syncErr, offline)'
  BY <1>2 DEF Current, Says, Harmless, Holds, Forgets, Carried
<1> QED BY <1>3, <1>4 DEF FInv

(* Once commands have overlapped they have for good.                       *)
LEMMA OverlapStays == TInv /\ [Next]_vars /\ overlapped => overlapped'
<1> SUFFICES ASSUME TInv, [Next]_vars, overlapped PROVE overlapped'
  OBVIOUS
<1>1. CASE RefreshKey \/ ExportEnter
  BY <1>1, StartFacts DEF RefreshKey, ExportEnter
<1>2. CASE \/ NewKey \/ SearchKey \/ GeneratorKey \/ PickerEnter \/ BackToList
           \/ CancelDelete \/ FormEsc \/ FormGenerate \/ GeneratorClose \/ ExportEsc
           \/ \E i \in Ids : EditKey(i) \/ DeleteKey(i) \/ ExportKey(i)
  BY <1>2 DEF NewKey, SearchKey, GeneratorKey, PickerEnter, BackToList, CancelDelete,
              FormEsc, FormGenerate, GeneratorClose, ExportEsc, EditKey, DeleteKey,
              ExportKey, OpenForm, nothing
<1>3. CASE \/ \E i \in Ids : \/ ArchiveKey(i) \/ TrashKey(i) \/ FavoriteKey(i)
                             \/ RestoreKey(i) \/ DuplicateKey(i)
           \/ ConfirmDelete \/ FormSave
  BY <1>3, WriteKeys, StartFacts
<1>4. CASE \E s \in Slots : Run(s)
  BY <1>4 DEF Run, BuildPayload, SecondTry, CallApplied, CallFails, ExportDone, LoadListed,
              LoadSaved, LoadFails, LoadedArrives, OfflineArrives, SavedArrives,
              DeletedArrives, ErrorArrives, ToastArrives, Done, Reload, user
<1>5. CASE UNCHANGED vars
  BY <1>5 DEF vars
<1> QED BY <1>1, <1>2, <1>3, <1>4, <1>5 DEF Next, Keys

(* A command that starts without overlapping finds every slot idle, and    *)
(* the list as the header announces it.                                    *)
LEMMA StartsAlone ==
    ASSUME TInv, FInv, NEW c, Start(c), ~overlapped'
    PROVE  /\ ~syncErr /\ ~offline => items = store
           /\ offline => items = cache
           /\ \E s \in Slots : /\ \A t \in Slots \ {s} : ~Busy(t)
                               /\ cmd' = [cmd EXCEPT ![s] = c]
<1>1. PICK s \in Slots :
        /\ cmd' = [cmd EXCEPT ![s] = c]
        /\ overlapped' = (overlapped \/ \E t \in Slots : Busy(t))
  BY StartFacts
<1>2. ~overlapped /\ \A t \in Slots : ~Busy(t)
  BY <1>1
<1>3. PICK t \in Slots : Current(cmd[t], store, cache, items, syncErr, offline)
  BY <1>2 DEF FInv
<1>4. cmd[t].pc = "idle"
  BY <1>2 DEF Busy
<1>5. /\ ~syncErr /\ ~offline => items = store
      /\ offline => items = cache
  BY <1>3, <1>4 DEF Current, Says
<1> QED BY <1>1, <1>2, <1>5

(* The slot of a goroutine or of its message is the only busy one.         *)
LEMMA OnlyBusy ==
    ASSUME FInv, ~overlapped, NEW s \in Slots, Busy(s)
    PROVE  /\ \A t \in Slots \ {s} : ~Busy(t)
           /\ Current(cmd[s], store, cache, items, syncErr, offline)
<1>1. PICK u \in Slots : /\ \A t \in Slots \ {u} : ~Busy(t)
                         /\ Current(cmd[u], store, cache, items, syncErr, offline)
  BY DEF FInv
<1>2. u = s
  BY <1>1
<1> QED BY <1>1, <1>2

LEMMA FInit == Init => FInv
<1> SUFFICES ASSUME Init PROVE FInv
  OBVIOUS
<1> DEFINE f == CHOOSE t \in Slots : TRUE
<1>1. f \in Slots
  BY TuiAssumption, Zenon
<1>2. /\ cmd = [s \in Slots |-> IF s = f THEN Command("load", "call", Nil, Nil) ELSE Idle]
      /\ offline = FALSE
  BY Zenon DEF Init
<1> HIDE DEF f
<1>3. cmd[f] = Command("load", "call", Nil, Nil) /\ \A t \in Slots \ {f} : ~Busy(t)
  BY <1>1, <1>2 DEF Busy, Idle
<1>4. Current(cmd[f], store, cache, items, syncErr, offline)
  BY <1>2, <1>3 DEF Current, Says, Harmless, Command
<1> QED BY <1>1, <1>3, <1>4 DEF FInv

(* Keys that start a command.                                              *)
LEMMA StartingKeys ==
    ASSUME TInv, FInv, ~overlapped',
           \/ \E i \in Ids : \/ ArchiveKey(i) \/ TrashKey(i) \/ FavoriteKey(i)
                             \/ RestoreKey(i) \/ DuplicateKey(i)
           \/ ConfirmDelete \/ FormSave \/ RefreshKey \/ ExportEnter
    PROVE  FInv'
<1>1. ASSUME NEW c \in Commands, CarriesAll(c), NewWrite(c), Start(c),
             UNCHANGED <<items, store, cache, syncErr, offline>>
      PROVE  FInv'
  <2>1. /\ ~syncErr /\ ~offline => items = store
        /\ offline => items = cache
    BY <1>1, StartsAlone
  <2>2. PICK s \in Slots : /\ \A t \in Slots \ {s} : ~Busy(t)
                           /\ cmd' = [cmd EXCEPT ![s] = c]
    BY <1>1, StartsAlone
  <2>3. c.op = "flag" /\ c.clean => ~Forgets(c, store[c.id])
    BY <1>1, <2>1 DEF NewWrite, Forgets
  <2>4. Current(c, store, cache, items, syncErr, offline)
    BY <1>1, <2>1, <2>3 DEF NewWrite, Current, Says
  <2>5. Current(c, store', cache', items', syncErr', offline')
    BY <1>1, <2>4
  <2> QED BY <1>1, <2>2, <2>5, OneSlot
<1>2. CASE \/ \E i \in Ids : \/ ArchiveKey(i) \/ TrashKey(i) \/ FavoriteKey(i)
                             \/ RestoreKey(i) \/ DuplicateKey(i)
           \/ ConfirmDelete \/ FormSave
  <2>1. PICK c \in Commands : /\ CarriesAll(c) /\ NewWrite(c)
                              /\ Start(c) /\ UNCHANGED <<screen, status, outer>>
    BY <1>2, WriteKeys
  <2> QED BY <1>1, <2>1 DEF status, outer
<1>3. CASE ExportEnter
  <2> DEFINE c == Command("export", "call", Nil, Nil)
  <2>1. c \in Commands /\ CarriesAll(c)
    BY CommandTypes
  <2>2. NewWrite(c)
    BY DEF NewWrite, Command
  <2>3. Start(c) /\ UNCHANGED <<items, store, cache, syncErr, offline>>
    BY <1>3 DEF ExportEnter, status, outer
  <2> HIDE DEF c
  <2> QED BY <1>1, <2>1, <2>2, <2>3
<1>4. CASE RefreshKey
  <2> DEFINE c == Command("load", "call", Nil, Nil)
  <2>1. c \in Commands /\ c.pc = "call" /\ c.op = "load"
    BY CommandTypes DEF Command
  <2>2. Start(c) /\ offline' = FALSE
    BY <1>4 DEF RefreshKey
  <2> HIDE DEF c
  <2>3. PICK s \in Slots : /\ \A t \in Slots \ {s} : ~Busy(t)
                           /\ cmd' = [cmd EXCEPT ![s] = c]
    BY <2>2, StartsAlone
  <2>4. Current(c, store', cache', items', syncErr', offline')
    BY <2>1, <2>2 DEF Current, Says, Harmless
  <2> QED BY <2>1, <2>3, <2>4, OneSlot
<1> QED BY <1>2, <1>3, <1>4

(* Steps of the only goroutine, and the message it leaves.                 *)
LEMMA RunSteps ==
    ASSUME TInv, FInv, ~overlapped, ~overlapped', NEW s \in Slots, Run(s)
    PROVE  FInv'
<1> DEFINE C == cmd[s]
<1>1. /\ cmd \in [Slots -> Commands] /\ C \in Commands /\ CarriesAll(C)
      /\ items \in Listing /\ store \in Listing
  BY DEF TInv, TypeOK, CommandsWhole
<1>2. Busy(s)
  BY DEF Run, BuildPayload, SecondTry, CallApplied, CallFails, ExportDone, LoadListed, LoadSaved,
         LoadFails, LoadedArrives, OfflineArrives, SavedArrives, DeletedArrives,
         ErrorArrives, ToastArrives, Arrives, Running, Calling, Busy
<1>3. /\ \A t \in Slots \ {s} : ~Busy(t)
      /\ Current(C, store, cache, items, syncErr, offline)
  BY <1>2, OnlyBusy
<1>4. ASSUME NEW c \in Commands, cmd' = [cmd EXCEPT ![s] = c],
             Current(c, store', cache', items', syncErr', offline')
      PROVE  FInv'
  BY <1>3, <1>4, OneSlot
<1>5. CASE BuildPayload(s)
  <2> DEFINE h == IF C.op = "edit" /\ C.item.kind = "login" /\ Holds(items, C.id)
                  THEN Carried(items[C.id], C.item.password) ELSE <<>>
             it == [C.item EXCEPT !.history = h]
             c == [C EXCEPT !.pc = "call", !.item = it]
  <2>1. C.pc = "build" /\ C.op \in {"edit", "create"} /\ C.item \in Item
    BY <1>1, <1>5 DEF BuildPayload, Running, CarriesAll
  <2>2. cmd' = [cmd EXCEPT ![s] = c] /\ UNCHANGED <<items, store, cache, syncErr, offline>>
    BY <1>1, <1>5 DEF BuildPayload, user, outer, status
  <2>3. /\ c.pc = "call" /\ c.op = C.op /\ c.id = C.id /\ c.clean = C.clean /\ c.item = it
    BY <1>1 DEF Commands
  <2>4. it.history = h /\ it.kind = C.item.kind /\ it.password = C.item.password
    BY <2>1 DEF Item
  <2>5. C.clean => items = store
    BY <1>3, <2>1 DEF Current
  <2>6. C.clean /\ C.op = "edit" /\ Holds(store, C.id) => ~Forgets(c, store[C.id])
    BY <2>3, <2>4, <2>5 DEF Forgets
  <2>7. cmd' \in [Slots -> Commands]
    BY <1>5, GoroutineSteps DEF TInv, TypeOK
  <2>8. c \in Commands
    BY <1>1, <2>2, <2>7
  <2> HIDE DEF c, it, h
  <2>9. Current(c, store, cache, items, syncErr, offline)
    BY <1>3, <2>1, <2>3, <2>6 DEF Current, Says, Harmless
  <2>10. Current(c, store', cache', items', syncErr', offline')
    BY <2>2, <2>9
  <2> QED BY <1>4, <2>2, <2>8, <2>10
<1>6. ASSUME NEW m \in {"saved", "deleted", "err"}, Answer(s, m), Calling(s),
             UNCHANGED <<items, cache, syncErr, offline>>
      PROVE  FInv'
  <2> DEFINE c == Message(m, Nil)
  <2>1. c \in Commands /\ c.pc = "msg" /\ c.msg = m
    BY MessageTypes DEF Message, Idle
  <2>2. offline => items = cache
    BY <1>3, <1>6 DEF Current, Says, Calling
  <2> HIDE DEF c
  <2>3. Current(c, store', cache', items', syncErr', offline')
    BY <1>6, <2>1, <2>2 DEF Current, Says, Harmless
  <2> QED BY <1>4, <1>6, <2>1, <2>3 DEF Answer, c
<1>7. CASE CallApplied(s)
  <2>1. PICK m \in {"saved", "deleted", "err"} : Answer(s, m)
    BY <1>7 DEF CallApplied
  <2>2. Calling(s) /\ UNCHANGED <<items, cache, syncErr, offline>>
    BY <1>7 DEF CallApplied, user, status
  <2> QED BY <1>6, <2>1, <2>2
<1>8. CASE CallFails(s)
  BY <1>6, <1>8 DEF CallFails, user, status, outer
<1>9. CASE ExportDone(s)
  <2> DEFINE c == Message("toast", Nil)
  <2>1. c \in Commands /\ c.pc = "msg" /\ c.msg = "toast"
    BY MessageTypes DEF Message, Idle
  <2>2. C.pc = "call" /\ C.op = "export" /\ UNCHANGED <<items, store, cache, syncErr, offline>>
    BY <1>9 DEF ExportDone, Running, user, status, outer
  <2> HIDE DEF c
  <2>3. Current(c, store', cache', items', syncErr', offline')
    BY <1>3, <2>1, <2>2 DEF Current, Says, Harmless
  <2> QED BY <1>4, <1>9, <2>1, <2>3 DEF ExportDone, Answer, c
<1>10. CASE LoadListed(s)
  <2> DEFINE c == [C EXCEPT !.pc = "save", !.seen = store]
  <2>1. cmd' = [cmd EXCEPT ![s] = c] /\ UNCHANGED <<items, store, cache, syncErr, offline>>
    BY <1>1, <1>10 DEF LoadListed, user, status, outer
  <2>2. c \in Commands /\ c.pc = "save" /\ c.seen = store
    BY <1>1 DEF Commands
  <2>3. C.pc \in {"call", "again"}
    BY <1>10 DEF LoadListed, Calling
  <2> HIDE DEF c
  <2>4. Current(c, store', cache', items', syncErr', offline')
    BY <1>3, <2>1, <2>2, <2>3 DEF Current, Says, Harmless
  <2> QED BY <1>4, <2>1, <2>2, <2>4
<1>11. CASE LoadSaved(s)
  <2> DEFINE c == Message("loaded", C.seen)
  <2>1. C.pc = "save" /\ C.seen \in Listing /\ C.seen = store
    BY <1>1, <1>3, <1>11 DEF LoadSaved, Running, CarriesAll, Current
  <2>2. cmd' = [cmd EXCEPT ![s] = c] /\ UNCHANGED <<items, store, syncErr, offline>>
    BY <1>1, <1>11 DEF LoadSaved, user, status
  <2>3. c \in Commands /\ c.pc = "msg" /\ c.msg = "loaded" /\ c.seen = C.seen
    BY <2>1, MessageTypes DEF Message, Idle
  <2> HIDE DEF c
  <2>4. Current(c, store', cache', items', syncErr', offline')
    BY <2>1, <2>2, <2>3 DEF Current, Says, Harmless
  <2> QED BY <1>4, <2>2, <2>3, <2>4
<1>12. CASE LoadFails(s)
  <2>1. Calling(s) /\ UNCHANGED <<items, store, cache, syncErr, offline>>
    BY <1>12 DEF LoadFails, user, status, outer
  <2>2. CASE cache = Nil
    BY <1>6, <1>12, <2>1, <2>2 DEF LoadFails
  <2>3. CASE cache # Nil
    <3> DEFINE c == Message("offline", cache)
    <3>1. cache \in Listing
      BY <2>3 DEF TInv, TypeOK
    <3>2. c \in Commands /\ c.pc = "msg" /\ c.msg = "offline" /\ c.seen = cache
      BY <3>1, MessageTypes DEF Message, Idle
    <3>3. cmd' = [cmd EXCEPT ![s] = c]
      BY <1>12, <2>3 DEF LoadFails
    <3> HIDE DEF c
    <3>4. Current(c, store', cache', items', syncErr', offline')
      BY <1>3, <2>1, <3>2 DEF Current, Says, Harmless, Calling
    <3> QED BY <1>4, <3>2, <3>3, <3>4
  <2> QED BY <2>2, <2>3
<1>13. CASE \/ LoadedArrives(s) \/ OfflineArrives(s) \/ ErrorArrives(s) \/ ToastArrives(s)
  <2>1. cmd' = [cmd EXCEPT ![s] = Idle] /\ UNCHANGED outer
    BY <1>13 DEF LoadedArrives, OfflineArrives, ErrorArrives, ToastArrives, Done
  <2>2. Idle \in Commands /\ Idle.pc = "idle"
    BY MessageTypes DEF Idle
  <2>3. /\ ~syncErr' /\ ~offline' => items' = store
        /\ offline' => items' = cache
    <3>1. CASE LoadedArrives(s)
      BY <1>3, <3>1 DEF LoadedArrives, Arrives, Running, Current, Says
    <3>2. CASE OfflineArrives(s)
      BY <1>3, <3>2 DEF OfflineArrives, Arrives, Running, Current, Says
    <3>3. CASE ErrorArrives(s)
      BY <1>3, <3>3 DEF ErrorArrives, Arrives, Running, Current, Says
    <3>4. CASE ToastArrives(s)
      BY <1>3, <3>4 DEF ToastArrives, Arrives, Running, Current, Says, Harmless, status
    <3> QED BY <1>13, <3>1, <3>2, <3>3, <3>4
  <2>4. Current(Idle, store', cache', items', syncErr', offline')
    BY <2>1, <2>2, <2>3 DEF Current, Says, outer
  <2> QED BY <1>4, <2>1, <2>2, <2>4
<1>14. CASE SavedArrives(s) \/ DeletedArrives(s)
  <2> DEFINE c == Command("load", "call", Nil, Nil)
  <2>1. c \in Commands /\ c.pc = "call" /\ c.op = "load"
    BY CommandTypes DEF Command
  <2>2. cmd' = [cmd EXCEPT ![s] = c] /\ UNCHANGED <<items, store, cache, syncErr, offline>>
    BY <1>14 DEF SavedArrives, DeletedArrives, Reload, outer
  <2>3. offline => items = cache
    BY <1>3, <1>14 DEF SavedArrives, DeletedArrives, Arrives, Running, Current, Says
  <2> HIDE DEF c
  <2>4. Current(c, store', cache', items', syncErr', offline')
    BY <2>1, <2>2, <2>3 DEF Current, Says, Harmless
  <2> QED BY <1>4, <2>1, <2>2, <2>4
<1>15. CASE SecondTry(s)
  <2> DEFINE c == [C EXCEPT !.pc = "again"]
  <2>1. cmd' = [cmd EXCEPT ![s] = c] /\ UNCHANGED <<items, store, cache, syncErr, offline>>
    BY <1>1, <1>15 DEF SecondTry, user, status, outer
  <2>2. /\ c \in Commands /\ c.pc = "again" /\ c.op = C.op /\ c.id = C.id
        /\ c.clean = C.clean /\ c.item = C.item
    BY <1>1 DEF Commands
  <2>3. C.pc = "call"
    BY <1>15 DEF SecondTry, Running
  <2> HIDE DEF c
  <2>4. Current(c, store', cache', items', syncErr', offline')
    BY <1>3, <2>1, <2>2, <2>3 DEF Current, Says, Harmless, Forgets
  <2> QED BY <1>4, <2>1, <2>2, <2>4
<1> QED BY <1>5, <1>7, <1>8, <1>9, <1>10, <1>11, <1>12, <1>13, <1>14, <1>15 DEF Run

LEMMA FStep == TInv /\ FInv /\ [Next]_vars => FInv'
<1> SUFFICES ASSUME TInv, FInv, [Next]_vars PROVE FInv'
  OBVIOUS
<1>1. CASE overlapped'
  BY <1>1 DEF FInv
<1>2. CASE ~overlapped'
  <2>1. ~overlapped
    BY <1>2, OverlapStays
  <2>2. CASE \/ NewKey \/ SearchKey \/ GeneratorKey \/ PickerEnter \/ BackToList
             \/ CancelDelete \/ FormEsc \/ FormGenerate \/ GeneratorClose \/ ExportEsc
             \/ \E i \in Ids : EditKey(i) \/ DeleteKey(i) \/ ExportKey(i)
             \/ UNCHANGED vars
    <3>1. UNCHANGED <<status, outer, nothing>>
      BY <2>2 DEF NewKey, SearchKey, GeneratorKey, PickerEnter, BackToList, CancelDelete,
             FormEsc, FormGenerate, GeneratorClose, ExportEsc, EditKey, DeleteKey,
             ExportKey, OpenForm, vars, nothing
    <3>2. PICK s \in Slots : /\ \A t \in Slots \ {s} : ~Busy(t)
                             /\ Current(cmd[s], store, cache, items, syncErr, offline)
      BY <2>1 DEF FInv
    <3>3. cmd' = cmd /\ UNCHANGED <<store, cache, items, syncErr, offline>>
      BY <3>1 DEF status, outer, nothing
    <3>4. \A t \in Slots \ {s} : ~Busy(t)'
      BY <3>2, <3>3 DEF Busy
    <3>5. Current(cmd[s], store, cache, items, syncErr, offline)'
      BY <3>2, <3>3 DEF Current, Says, Harmless, Holds, Forgets, Carried
    <3> QED BY <3>4, <3>5 DEF FInv
  <2>3. CASE \/ \E i \in Ids : \/ ArchiveKey(i) \/ TrashKey(i) \/ FavoriteKey(i)
                               \/ RestoreKey(i) \/ DuplicateKey(i)
             \/ ConfirmDelete \/ FormSave \/ RefreshKey \/ ExportEnter
    BY <1>2, <2>3, StartingKeys
  <2>4. CASE \E s \in Slots : Run(s)
    BY <1>2, <2>1, <2>4, RunSteps
  <2> QED BY <2>2, <2>3, <2>4 DEF Next, Keys
<1> QED BY <1>1, <1>2

LEMMA FInvariance == Spec => []FInv
BY TInvariance, FInit, FStep, PTL DEF Spec

(* With nothing in flight and no overlap so far, the list is the server's  *)
(* when the header says so and the cache's when it says offline, whatever  *)
(* failed before.                                                          *)
THEOREM ListStaysAsAnnounced == Spec => []ListIsAsAnnounced
<1>1. FInv => ListIsAsAnnounced
  <2> SUFFICES ASSUME FInv, Quiet, ~overlapped
               PROVE  /\ ~syncErr /\ ~offline => items = store
                      /\ offline => items = cache
    BY DEF ListIsAsAnnounced
  <2>1. PICK s \in Slots : Current(cmd[s], store, cache, items, syncErr, offline)
    BY DEF FInv
  <2>2. cmd[s].pc = "idle"
    BY DEF Quiet, Busy
  <2> QED BY <2>1, <2>2 DEF Current, Says
<1> QED BY <1>1, FInvariance, PTL

(* Without overlap, a write started on a synced list neither brings back   *)
(* an older payload nor drops a password from the history.                 *)
THEOREM SerialWritesKeep == Spec => []SerialWritesForgetNothing
<1>1. FInv => SerialWritesForgetNothing
  <2> SUFFICES ASSUME FInv, ~overlapped, NEW s \in Slots,
                      Calling(s), cmd[s].op \in {"flag", "edit"}, cmd[s].clean,
                      Holds(store, cmd[s].id)
               PROVE  ~Forgets(cmd[s], store[cmd[s].id])
    BY DEF SerialWritesForgetNothing
  <2>1. Busy(s)
    BY DEF Busy, Calling
  <2> QED BY <2>1, OnlyBusy DEF Current, Calling
<1> QED BY <1>1, FInvariance, PTL

=============================================================================
