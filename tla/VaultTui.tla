------------------------------ MODULE VaultTui -----------------------------
(***************************************************************************)
(* The vault screens of the terminal client: Model (tui/app.go) with the   *)
(* generator overlay (tui/passgen.go) and the offline cache                *)
(* (vault/localcache.go), against the items the server stores.             *)
(*                                                                         *)
(* Update handles one key or one message at a time.  A write or a reload   *)
(* is a command: a goroutine that calls the server and answers with one    *)
(* message.  Keys are accepted while commands run, and the messages come   *)
(* in any order.  A key that needs a row may be pressed on any row of any  *)
(* category: moving the cursor, sorting and searching only choose it.      *)
(*                                                                         *)
(* An item is what the writes of the client tell apart: its kind, the      *)
(* password, the passwords it had before, and its flags.                   *)
(***************************************************************************)
EXTENDS Naturals, Sequences

CONSTANTS
    Ids,            \* the ids the server can assign
    First,          \* the items stored at the start
    Kinds,          \* some of "login", "file", "other"
    Slots,          \* as many commands may run at once
    MaxPassword,    \* passwords are 1..MaxPassword, 0 is the empty one
    MaxHistory,     \* entries kept by saveForm: 10 in the code
    MaxCommands,    \* bound on the commands the user starts
    MaxFailures,    \* bound on the calls and file writes that fail
    Nil,            \* no item, no form, no cache file
    Gone            \* an id whose item was deleted

ASSUME TuiAssumption ==
    /\ First \subseteq Ids
    /\ "login" \in Kinds /\ Kinds \subseteq {"login", "file", "other"}
    /\ Nil \notin Ids \cup {Gone, "field", "alone"}
    /\ Nil \notin [id : Ids \cup {Nil}, kind : Kinds]
    /\ Slots # {}
    /\ MaxPassword \in Nat /\ MaxHistory \in Nat
    /\ MaxCommands \in Nat /\ MaxFailures \in Nat

VARIABLES
    mode,       \* m.mode
    form,       \* m.form: the item it edits, Nil for a new one, and its kind
    gen,        \* m.passGen: "field" when it fills a form, "alone", Nil
    target,     \* m.deleteTarget, an id
    export,     \* m.exportItem, an id
    items,      \* m.items: the listing the screen shows
    loading,    \* m.loading
    offline,    \* m.offline
    syncErr,    \* m.syncErr
    cmd,        \* the commands
    store,      \* the items on the server
    cache,      \* what the cache file holds; Nil when it cannot be read
    started,    \* commands the user has started so far
    failures,   \* calls and file writes that have failed so far
    overlapped  \* history: a command was started while another one ran

screen == <<mode, form, gen, target, export>>
status == <<items, loading, offline, syncErr>>
outer  == <<store, cache>>
vars   == <<screen, status, cmd, outer, started, failures, overlapped>>

Modes == {"list", "picker", "form", "delconf", "search", "passgen", "export"}
Flags == {"favorite", "archived", "trashed"}

Passwords == 0..MaxPassword
Histories == {h \in Seq(Passwords) : Len(h) <= MaxHistory}
Item      == [kind : Kinds, password : Passwords, history : Histories, flags : SUBSET Flags]

(* An id is unused (Nil), holds an item, or had one that was deleted.      *)
Listing     == [Ids -> Item \cup {Nil, Gone}]
Holds(l, i) == l[i] \notin {Nil, Gone}

FreshItem(k, p) == [kind |-> k, password |-> p, history |-> <<>>, flags |-> {}]

Idle == [op |-> "none", id |-> Nil, item |-> Nil, seen |-> Nil, pc |-> "idle",
         msg |-> "none", clean |-> FALSE]

Command(op, pc, i, it) ==
    [op |-> op, id |-> i, item |-> it, seen |-> Nil, pc |-> pc,
     msg |-> "none", clean |-> op \in {"flag", "edit"} /\ ~syncErr /\ ~offline]

Busy(s) == cmd[s].pc # "idle"

Init ==
    /\ mode = "list" /\ form = Nil /\ gen = Nil /\ target = Nil /\ export = Nil
    /\ items = [i \in Ids |-> Nil]
    /\ loading = FALSE /\ offline = FALSE /\ syncErr = FALSE
    /\ store = [i \in Ids |-> IF i \in First THEN FreshItem("login", MaxPassword) ELSE Nil]
    \* no cache file, or the one of an earlier session
    /\ cache \in {Nil, [i \in Ids |-> Nil]}
    \* Model.Init returns the first loadItems
    /\ cmd = [s \in Slots |-> IF s = CHOOSE t \in Slots : TRUE
                               THEN Command("load", "call", Nil, Nil) ELSE Idle]
    /\ started = 0 /\ failures = 0
    /\ overlapped = FALSE

----------------------------------------------------------------------------
(* A command starts in a free slot; which one makes no difference.         *)
Start(c) ==
    /\ started < MaxCommands
    /\ started' = started + 1
    /\ UNCHANGED failures
    /\ \E s \in Slots : ~Busy(s)
    /\ LET s == CHOOSE s \in Slots : ~Busy(s)
       IN  /\ cmd' = [cmd EXCEPT ![s] = c]
           /\ overlapped' = (overlapped \/ \E t \in Slots : Busy(t))

nothing == <<cmd, started, failures, overlapped>>

Key(m) == mode = m

(* filteredItems: the other categories show a part of "all".               *)
Categories == {"all", "archive", "trash"}

Shown(c, i) ==
    /\ Holds(items, i)
    /\ CASE c = "trash"   -> "trashed" \in items[i].flags
         [] c = "archive" -> "archived" \in items[i].flags /\ "trashed" \notin items[i].flags
         [] c = "all"     -> items[i].flags \cap {"archived", "trashed"} = {}

(* r: the read-only mode is left before the server has answered.           *)
RefreshKey ==
    /\ Key("list")
    /\ loading' = TRUE /\ syncErr' = FALSE /\ offline' = FALSE
    /\ Start(Command("load", "call", Nil, Nil))
    /\ UNCHANGED <<screen, items, outer>>

NewKey ==
    /\ Key("list") /\ ~offline
    /\ mode' = "picker"
    /\ UNCHANGED <<form, gen, target, export, status, outer, nothing>>

OpenForm(i, k) ==
    /\ form' = [id |-> i, kind |-> k]
    /\ mode' = "form"
    /\ UNCHANGED <<gen, target, export, status, outer, nothing>>

EditKey(i) ==
    /\ Key("list") /\ ~offline
    /\ Shown("all", i) \/ Shown("archive", i)
    /\ items[i].kind # "file"
    /\ OpenForm(i, items[i].kind)

(* setItemFlag: the payload the screen holds, with one flag changed.       *)
SetItemFlag(i, f, on) ==
    LET it == [items[i] EXCEPT !.flags = IF on THEN @ \cup {f} ELSE @ \ {f}]
    IN  /\ Start(Command("flag", "call", i, it))
        /\ UNCHANGED <<screen, status, outer>>

ArchiveKey(i) ==
    /\ Key("list") /\ ~offline
    /\ \E c \in Categories : Shown(c, i) /\ SetItemFlag(i, "archived", c # "archive")

TrashKey(i) ==
    /\ Key("list") /\ ~offline
    /\ Shown("all", i) \/ Shown("archive", i)
    /\ SetItemFlag(i, "trashed", TRUE)

DeleteKey(i) ==
    /\ Key("list") /\ ~offline
    /\ Shown("trash", i)
    /\ target' = i
    /\ mode' = "delconf"
    /\ UNCHANGED <<form, gen, export, status, outer, nothing>>

FavoriteKey(i) ==
    /\ Key("list") /\ ~offline
    /\ \E c \in Categories : Shown(c, i)
    /\ SetItemFlag(i, "favorite", "favorite" \notin items[i].flags)

RestoreKey(i) ==
    /\ Key("list") /\ ~offline
    /\ \/ Shown("trash", i) /\ SetItemFlag(i, "trashed", FALSE)
       \/ Shown("archive", i) /\ SetItemFlag(i, "archived", FALSE)

(* D does not ask writeBlocked.                                            *)
DuplicateKey(i) ==
    /\ Key("list")
    /\ \E c \in Categories : Shown(c, i)
    /\ Start(Command("create", "call", Nil, items[i]))
    /\ UNCHANGED <<screen, status, outer>>

ExportKey(i) ==
    /\ Key("list")
    /\ \E c \in Categories : Shown(c, i)
    /\ items[i].kind = "file"
    /\ export' = i
    /\ mode' = "export"
    /\ UNCHANGED <<form, gen, target, status, outer, nothing>>

SearchKey ==
    /\ Key("list")
    /\ mode' = "search"
    /\ UNCHANGED <<form, gen, target, export, status, outer, nothing>>

GeneratorKey ==
    /\ Key("list")
    /\ gen' = "alone"
    /\ mode' = "passgen"
    /\ UNCHANGED <<form, target, export, status, outer, nothing>>

----------------------------------------------------------------------------
(* The other screens.                                                      *)
PickerEnter ==
    /\ Key("picker")
    /\ \E k \in Kinds : OpenForm(Nil, k)

(* Esc in the picker, Esc or Enter in the search.                          *)
BackToList ==
    /\ mode \in {"picker", "search"}
    /\ mode' = "list"
    /\ UNCHANGED <<form, gen, target, export, status, outer, nothing>>

ConfirmDelete ==
    /\ Key("delconf")
    /\ Start(Command("delete", "call", target, Nil))
    /\ UNCHANGED <<screen, status, outer>>

CancelDelete ==
    /\ Key("delconf")
    /\ mode' = "list" /\ target' = Nil
    /\ UNCHANGED <<form, gen, export, status, outer, nothing>>

FormEsc ==
    /\ Key("form")
    /\ mode' = "list" /\ form' = Nil
    /\ UNCHANGED <<gen, target, export, status, outer, nothing>>

(* Ctrl+G on the password of a login.                                      *)
FormGenerate ==
    /\ Key("form") /\ form.kind = "login"
    /\ gen' = "field"
    /\ mode' = "passgen"
    /\ UNCHANGED <<form, target, export, status, outer, nothing>>

(* saveForm with a name: the payload has what is in the fields, and no     *)
(* flags; the goroutine adds the history.  The form stays open.            *)
FormSave ==
    /\ Key("form")
    /\ \E p \in (IF form.kind = "login" THEN Passwords ELSE {0}) :
          Start(Command(IF form.id = Nil THEN "create" ELSE "edit",
                             "build", form.id, FreshItem(form.kind, p)))
    /\ UNCHANGED <<screen, status, outer>>

(* Esc, or Enter: the preview goes to the form, or to the clipboard.       *)
GeneratorClose ==
    /\ Key("passgen")
    /\ mode' = IF gen = "field" THEN "form" ELSE "list"
    /\ gen' = Nil
    /\ UNCHANGED <<form, target, export, status, outer, nothing>>

ExportEsc ==
    /\ Key("export")
    /\ mode' = "list" /\ export' = Nil
    /\ UNCHANGED <<form, gen, target, status, outer, nothing>>

ExportEnter ==
    /\ Key("export")
    /\ mode' = "list" /\ export' = Nil
    /\ Start(Command("export", "call", Nil, Nil))
    /\ UNCHANGED <<form, gen, target, status, outer>>

----------------------------------------------------------------------------
(* The commands.  A call takes effect at most once, and its answer may be  *)
(* lost; one that was given up has no effect later.                        *)
Running(s, pc) == cmd[s].pc = pc

Calling(s) == cmd[s].pc \in {"call", "again"}

(* The goroutine ends with a message, which may carry a listing.           *)
Message(m, l) == [Idle EXCEPT !.pc = "msg", !.msg = m, !.seen = l]
Answer(s, m)  == cmd' = [cmd EXCEPT ![s] = Message(m, Nil)]

Fail == failures < MaxFailures /\ failures' = failures + 1

user == <<screen, status, started, overlapped>>

(* The passwords an edit carries over, the newest first.                   *)
Carried(old, p) ==
    IF old.password \in {0, p} THEN old.history
    ELSE LET h == <<old.password>> \o old.history
         IN  SubSeq(h, 1, IF Len(h) > MaxHistory THEN MaxHistory ELSE Len(h))

(* The goroutine of saveForm reads m.items when it runs.                   *)
BuildPayload(s) ==
    LET c == cmd[s]
    IN  /\ Running(s, "build")
        /\ cmd' = [cmd EXCEPT ![s].pc = "call", ![s].item = [@ EXCEPT !.history =
              IF c.op = "edit" /\ c.item.kind = "login" /\ Holds(items, c.id)
              THEN Carried(items[c.id], c.item.password) ELSE <<>>]]
        /\ UNCHANGED <<user, outer, failures>>

(* refreshInterceptor: the token has run out, it is renewed, and the call  *)
(* is made again, this time without the deadline of the command.           *)
SecondTry(s) ==
    /\ Running(s, "call") /\ cmd[s].op # "export"
    /\ cmd' = [cmd EXCEPT ![s].pc = "again"]
    /\ UNCHANGED <<user, outer, failures>>

(* The server carries the call out; a missing item is an error.            *)
Applied(s) ==
    LET c == cmd[s]
    IN  \/ /\ c.op \in {"flag", "edit"} /\ Holds(store, c.id)
           /\ store' = [store EXCEPT ![c.id] = c.item]
        \/ /\ c.op = "delete" /\ Holds(store, c.id)
           /\ store' = [store EXCEPT ![c.id] = Gone]
        \/ /\ c.op = "create"
           /\ \E i \in Ids : store[i] = Nil /\ store' = [store EXCEPT ![i] = c.item]

Refused(s) ==
    \/ cmd[s].op \in {"flag", "edit", "delete"} /\ ~Holds(store, cmd[s].id)
    \/ cmd[s].op = "create" /\ \A i \in Ids : store[i] # Nil

CallApplied(s) ==
    /\ Calling(s)
    /\ Applied(s)
    /\ \/ /\ Answer(s, IF cmd[s].op = "delete" THEN "deleted" ELSE "saved")
          /\ UNCHANGED failures
       \/ Answer(s, "err") /\ Fail
    /\ UNCHANGED <<user, cache>>

(* The file of the form cannot be read, the server is not there, refuses,  *)
(* or has no such item; the export cannot be written.                      *)
CallFails(s) ==
    /\ Calling(s) /\ cmd[s].op # "load"
    /\ Answer(s, "err")
    /\ Fail \/ (Refused(s) /\ UNCHANGED failures)
    /\ UNCHANGED <<user, outer>>

ExportDone(s) ==
    /\ Running(s, "call") /\ cmd[s].op = "export"
    /\ Answer(s, "toast")
    /\ UNCHANGED <<user, outer, failures>>

LoadListed(s) ==
    /\ Calling(s) /\ cmd[s].op = "load"
    /\ cmd' = [cmd EXCEPT ![s].pc = "save", ![s].seen = store]
    /\ UNCHANGED <<user, outer, failures>>

(* localcache.Save, whose error is ignored: the file is not touched, or    *)
(* was truncated and not written.                                          *)
LoadSaved(s) ==
    /\ Running(s, "save")
    /\ \/ cache' = cmd[s].seen /\ UNCHANGED failures
       \/ cache' \in {cache, Nil} /\ Fail
    /\ cmd' = [cmd EXCEPT ![s] = Message("loaded", @.seen)]
    /\ UNCHANGED <<user, store>>

(* Mutant: the error of Load is not looked at.                             *)
LoadFails_IgnoresError(s) ==
    /\ Calling(s) /\ cmd[s].op = "load"
    /\ Fail
    /\ cmd' = [cmd EXCEPT ![s] = Message("offline", cache)]
    /\ UNCHANGED <<user, outer>>

(* tryLoadCache.                                                           *)
LoadFails(s) ==
    /\ Calling(s) /\ cmd[s].op = "load"
    /\ Fail
    /\ IF cache = Nil THEN Answer(s, "err")
       ELSE cmd' = [cmd EXCEPT ![s] = Message("offline", cache)]
    /\ UNCHANGED <<user, outer>>

----------------------------------------------------------------------------
(* The messages.                                                           *)
Arrives(s, m) == Running(s, "msg") /\ cmd[s].msg = m

Done(s) == cmd' = [cmd EXCEPT ![s] = Idle] /\ UNCHANGED <<overlapped, started, failures>>

(* The reload that follows a write takes its slot.                         *)
Reload(s) ==
    /\ cmd' = [cmd EXCEPT ![s] = Command("load", "call", Nil, Nil)]
    /\ overlapped' = (overlapped \/ \E t \in Slots \ {s} : Busy(t))
    /\ UNCHANGED <<started, failures>>

LoadedArrives(s) ==
    /\ Arrives(s, "loaded")
    /\ items' = cmd[s].seen
    /\ loading' = FALSE /\ syncErr' = FALSE /\ offline' = FALSE
    /\ Done(s)
    /\ UNCHANGED <<screen, outer>>

(* Mutant: the spinner is not stopped.                                     *)
OfflineArrives_StillLoading(s) ==
    /\ Arrives(s, "offline")
    /\ items' = cmd[s].seen
    /\ syncErr' = FALSE /\ offline' = TRUE
    /\ Done(s)
    /\ UNCHANGED <<screen, loading, outer>>

OfflineArrives(s) ==
    /\ Arrives(s, "offline")
    /\ items' = cmd[s].seen
    /\ loading' = FALSE /\ syncErr' = FALSE /\ offline' = TRUE
    /\ Done(s)
    /\ UNCHANGED <<screen, outer>>

(* Mutant: the form goes, its screen stays.                                *)
SavedArrives_KeepsMode(s) ==
    /\ Arrives(s, "saved")
    /\ form' = Nil
    /\ loading' = TRUE
    /\ Reload(s)
    /\ UNCHANGED <<mode, gen, target, export, items, offline, syncErr, outer>>

SavedArrives(s) ==
    /\ Arrives(s, "saved")
    /\ mode' = "list" /\ form' = Nil
    /\ loading' = TRUE
    /\ Reload(s)
    /\ UNCHANGED <<gen, target, export, items, offline, syncErr, outer>>

(* Mutant: no reload after a delete.                                       *)
DeletedArrives_NoReload(s) ==
    /\ Arrives(s, "deleted")
    /\ mode' = "list" /\ target' = Nil
    /\ Done(s)
    /\ UNCHANGED <<form, gen, export, status, outer>>

DeletedArrives(s) ==
    /\ Arrives(s, "deleted")
    /\ mode' = "list" /\ target' = Nil
    /\ loading' = TRUE
    /\ Reload(s)
    /\ UNCHANGED <<form, gen, export, items, offline, syncErr, outer>>

(* Mutant: an error does not mark the list as out of sync.                 *)
ErrorArrives_NotMarked(s) ==
    /\ Arrives(s, "err")
    /\ mode' = "list"
    /\ loading' = FALSE
    /\ Done(s)
    /\ UNCHANGED <<form, gen, target, export, items, offline, syncErr, outer>>

ErrorArrives(s) ==
    /\ Arrives(s, "err")
    /\ mode' = "list"
    /\ loading' = FALSE /\ syncErr' = TRUE
    /\ Done(s)
    /\ UNCHANGED <<form, gen, target, export, items, offline, outer>>

ToastArrives(s) ==
    /\ Arrives(s, "toast")
    /\ Done(s)
    /\ UNCHANGED <<screen, status, outer>>

Keys ==
    \/ RefreshKey \/ NewKey \/ SearchKey \/ GeneratorKey
    \/ \E i \in Ids :
          \/ EditKey(i) \/ ArchiveKey(i) \/ TrashKey(i) \/ DeleteKey(i)
          \/ FavoriteKey(i) \/ RestoreKey(i) \/ DuplicateKey(i) \/ ExportKey(i)
    \/ PickerEnter \/ BackToList \/ ConfirmDelete \/ CancelDelete
    \/ FormEsc \/ FormGenerate \/ FormSave \/ GeneratorClose
    \/ ExportEsc \/ ExportEnter

Run(s) ==
    \/ BuildPayload(s) \/ SecondTry(s) \/ CallApplied(s) \/ CallFails(s) \/ ExportDone(s)
    \/ LoadListed(s) \/ LoadSaved(s) \/ LoadFails(s)
    \/ LoadedArrives(s) \/ OfflineArrives(s) \/ SavedArrives(s)
    \/ DeletedArrives(s) \/ ErrorArrives(s) \/ ToastArrives(s)

Next == Keys \/ \E s \in Slots : Run(s)

Spec == Init /\ [][Next]_vars

(* The first try of a call has a deadline and the program takes the        *)
(* messages that come; a second try may wait for ever, and the user need   *)
(* not press anything.                                                     *)
FairSpec == Spec /\ \A s \in Slots : WF_vars(~Running(s, "again") /\ Run(s))

----------------------------------------------------------------------------
(* Types.                                                                  *)
Commands ==
    [op : {"none", "load", "flag", "edit", "create", "delete", "export"},
     id : Ids \cup {Nil}, item : Item \cup {Nil}, seen : Listing \cup {Nil},
     pc : {"idle", "build", "call", "again", "save", "msg"},
     msg : {"none", "loaded", "offline", "saved", "deleted", "err", "toast"},
     clean : BOOLEAN]

TypeOK ==
    /\ mode \in Modes
    /\ form \in [id : Ids \cup {Nil}, kind : Kinds] \cup {Nil}
    /\ gen \in {"field", "alone", Nil}
    /\ target \in Ids \cup {Nil} /\ export \in Ids \cup {Nil}
    /\ items \in Listing /\ store \in Listing /\ cache \in Listing \cup {Nil}
    /\ loading \in BOOLEAN /\ offline \in BOOLEAN /\ syncErr \in BOOLEAN
    /\ cmd \in [Slots -> Commands]
    /\ started \in 0..MaxCommands /\ failures \in 0..MaxFailures
    /\ overlapped \in BOOLEAN

(* A key handler never finds its screen without the data it dereferences:  *)
(* the messages of commands take the form and the delete target away and   *)
(* change the mode under the user, in any order.                           *)
ScreenHasItsData ==
    /\ mode = "form" => form # Nil
    /\ mode = "passgen" => gen # Nil /\ (gen = "field" => form # Nil)
    /\ mode = "delconf" => target # Nil
    /\ mode = "export" => export # Nil

Quiet == \A s \in Slots : ~Busy(s)

(* When nothing is in flight, a list the header calls "synced" is what the *)
(* server stores, and one it calls "offline" is what the cache file holds, *)
(* after any writes, lost answers, failed saves and reloads, as long as no *)
(* command was started while another one ran.                              *)
ListIsAsAnnounced ==
    Quiet /\ ~overlapped =>
        /\ ~syncErr /\ ~offline => items = store
        /\ offline => items = cache

(* An update that replaces one item by another forgets nothing.            *)
Forgets(c, old) ==
    IF c.op = "flag"
    THEN c.item # [old EXCEPT !.flags = c.item.flags]
    ELSE c.item.kind = "login" /\ c.item.history # Carried(old, c.item.password)

(* A flag never brings an older password back, and an edit never drops a   *)
(* password without keeping it in the history, when the command was        *)
(* started on a synced list and none overlapped another.                   *)
SerialWritesForgetNothing ==
    ~overlapped =>
        \A s \in Slots :
            Calling(s) /\ cmd[s].op \in {"flag", "edit"} /\ cmd[s].clean
                /\ Holds(store, cmd[s].id)
            => ~Forgets(cmd[s], store[cmd[s].id])

SecondTriesEnd == \A s \in Slots : []<>~Running(s, "again")

(* The spinner stops: every load and every write is answered, unless a     *)
(* second try, which has no deadline, waits for ever.                      *)
SyncingEnds == SecondTriesEnd => (loading ~> ~loading)
=============================================================================
