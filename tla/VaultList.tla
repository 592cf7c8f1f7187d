----------------------------- MODULE VaultList -----------------------------
(***************************************************************************)
(* Finding one's way in the vault screens (internal/client/tui/app.go):    *)
(* sidebar, cursor, search, sorting, what the detail panel shows in clear  *)
(* and what is copied to the clipboard.  Writes are in VaultTui; here they *)
(* are only seen as another listing that a reload brings.                  *)
(*                                                                         *)
(* A name is a sequence of letters in lower case, a letter a number.       *)
(***************************************************************************)
EXTENDS Integers, Sequences, FiniteSets, SequencesExt

CONSTANTS
    Listings,   \* the listings a reload can bring
    Letters,    \* letters that can be typed
    MaxQuery,   \* bound on the length of the search text
    Widths,     \* the widths of the terminal window
    MaxCopies,  \* bound on the copies made
    MaxLoads    \* bound on the reloads answered

Kinds == {"login", "otp", "card", "identity", "file", "note", "ssh"}

(* An item of the list.                                                    *)
Entries == [id : Nat, name : Seq(Nat), kind : Kinds, folder : Nat,
            flags : SUBSET {"favorite", "archived", "trashed"},
            digits : Nat]       \* the length of a card's number, 0 without one

ASSUME ListAssumption ==
    /\ Listings \subseteq Seq(Entries)
    /\ Letters \subseteq Nat /\ MaxQuery \in Nat /\ Widths \subseteq Nat /\ MaxCopies \in Nat /\ MaxLoads \in Nat

VARIABLES
    listing,    \* m.items
    catIdx, listIdx, sidebarFocus, revealPwd, sort, searchQuery,
    searching,  \* m.mode = modeSearch
    width,      \* m.width
    clip,       \* the copy the clipboard holds, 0 when it holds none
    timers,     \* copies whose 30 seconds are running, oldest first
    copies,     \* copies made so far
    loads,      \* reloads answered so far
    quit,       \* q: the program has ended
    asked,      \* history: the row p was pressed on, 0 for none
    shifted,    \* history: reload, sort or search since then
    typed,      \* history: the search text changed since listIdx was set to 0
    untimed     \* history: what the clipboard holds was given no timer

cursor  == <<catIdx, listIdx, sidebarFocus>>
view    == <<revealPwd, sort, searchQuery, searching, width>>
clipped == <<clip, timers, copies, untimed>>
past    == <<asked, shifted, typed>>
listVars == <<listing, cursor, view, clipped, loads, quit, past>>

----------------------------------------------------------------------------
Has(it, f) == f \in it.flags

(* Folders are numbers; 0 is no folder.                                    *)
FoldersOf(l) == {l[k].folder : k \in {j \in DOMAIN l : ~Has(l[j], "archived") /\ ~Has(l[j], "trashed")}} \ {0}

Cat(view_, folder) == [view |-> view_, folder |-> folder]

FixedCats == <<Cat("all", 0), Cat("fav", 0), Cat("login", 0), Cat("card", 0),
               Cat("identity", 0), Cat("note", 0), Cat("ssh", 0), Cat("file", 0)>>

(* The k-th of the sorted folders.                                         *)
FolderAt(l, k) == CHOOSE f \in FoldersOf(l) : Cardinality({g \in FoldersOf(l) : g < f}) = k - 1

(* sidebarSelectables: the fixed filters, the folders in order, and the    *)
(* last two.                                                               *)
Sidebar(l) ==
    FixedCats \o [k \in 1..Cardinality(FoldersOf(l)) |-> Cat("folder", FolderAt(l, k))]
      \o <<Cat("archive", 0), Cat("trash", 0)>>

catCount(l) == Len(Sidebar(l))

selectedCat == LET sel == Sidebar(listing)
               IN  IF catIdx >= Len(sel) THEN sel[1] ELSE sel[catIdx + 1]

(* The ItemType of each kind: SSH keys are TEXT, files are BINARY.         *)
TypeNo(k) == CASE k = "login" -> 1 [] k \in {"note", "ssh"} -> 2
               [] k \in {"identity", "file"} -> 3 [] k = "card" -> 4 [] k = "otp" -> 5

(* The first loop of filteredItems.                                        *)
InCategory(it, c) ==
    CASE c.view = "trash"   -> Has(it, "trashed")
      [] c.view = "archive" -> Has(it, "archived") /\ ~Has(it, "trashed")
      [] OTHER -> /\ ~Has(it, "archived") /\ ~Has(it, "trashed")
                  /\ CASE c.view = "all" -> TRUE
                       [] c.view = "fav" -> Has(it, "favorite")
                       [] c.view = "folder" -> it.folder = c.folder
                       [] c.view = "ssh" -> it.kind = "ssh"
                       [] c.view = "file" -> it.kind = "file"
                       [] c.view = "login" -> it.kind \in {"login", "otp"}
                       [] c.view = "card" -> it.kind = "card"
                       [] c.view = "identity" -> it.kind = "identity"
                       [] c.view = "note" -> it.kind \in {"note", "ssh"}

HasText(s, q) == \E k \in 0..(Len(s) - Len(q)) : SubSeq(s, k + 1, k + Len(q)) = q

(* Order of Go strings.                                                    *)
Less(s, t) ==
    \E k \in 1..Len(t) : /\ \A j \in 1..(k - 1) : j <= Len(s) /\ s[j] = t[j]
                         /\ k > Len(s) \/ s[k] < t[k]

Before(a, b, by) ==
    CASE by = 0 -> FALSE
      [] by = 1 -> Less(a.name, b.name)
      [] by = 2 -> \/ TypeNo(a.kind) < TypeNo(b.kind)
                   \/ TypeNo(a.kind) = TypeNo(b.kind) /\ Less(a.name, b.name)

(* The pairs of the two nested loops, in their order.                      *)
Pairs(n) == [k \in 1..(n * n) |-> <<((k - 1) \div n) + 1, ((k - 1) % n) + 1>>]

(* Mutant: the inner loop starts one later.                                *)
Sorted_SkipsNeighbour(s, by) ==
    FoldLeft(LAMBDA b, p : IF p[2] > p[1] + 1 /\ Before(b[p[2]], b[p[1]], by)
                           THEN [b EXCEPT ![p[1]] = b[p[2]], ![p[2]] = b[p[1]]] ELSE b,
             s, Pairs(Len(s)))

(* The exchange sort of filteredItems.                                     *)
Sorted(s, by) ==
    FoldLeft(LAMBDA b, p : IF p[2] > p[1] /\ Before(b[p[2]], b[p[1]], by)
                           THEN [b EXCEPT ![p[1]] = b[p[2]], ![p[2]] = b[p[1]]] ELSE b,
             s, Pairs(Len(s)))

(* An item that neither of the two loops leaves out.                       *)
Matches(it, c, q) == InCategory(it, c) /\ HasText(it.name, q)

(* What both loops leave: the one over m.items for the category, the one   *)
(* over its result for the search text.                                    *)
Matching(l, c, q) ==
    FoldLeft(LAMBDA rows, it : IF Matches(it, c, q) THEN Append(rows, it) ELSE rows, <<>>, l)

filteredItems == Sorted(Matching(listing, selectedCat, searchQuery), sort)

OnRow == listIdx < Len(filteredItems)

Selected == filteredItems[listIdx + 1]

----------------------------------------------------------------------------
(* Which of its secrets an item shows in clear: the password and its       *)
(* history, CVV and private key only when revealed, and so a card number   *)
(* of more than four characters; codes, notes and the rest always; nothing *)
(* of a file, or of a type the switch has no case for.                     *)
renderLoginDetail(reveal) == {"code"} \cup (IF reveal THEN {"password", "history"} ELSE {})

renderCardDetail(it, reveal) ==
    (IF it.digits > 0 /\ (reveal \/ it.digits <= 4) THEN {"number"} ELSE {})
      \cup (IF reveal THEN {"cvv"} ELSE {})

renderDetail(it, reveal) ==
    CASE it.kind = "login" -> renderLoginDetail(reveal)
      [] it.kind = "card" -> renderCardDetail(it, reveal)
      [] it.kind = "ssh" -> IF reveal THEN {"key"} ELSE {}
      [] it.kind = "otp" -> {"code"}
      [] it.kind = "note" -> {"content"}
      [] it.kind = "identity" -> {"person"}
      [] OTHER -> {}

(* The secrets of an item that wait for p.                                 *)
Masked(it) == {"password", "history", "cvv", "key"} \cup (IF it.digits <= 4 THEN {} ELSE {"number"})

(* viewList: the width of the detail panel, 0 when the window is narrow.   *)
DetailWidth(w) ==
    CASE w >= 200 -> 72
      [] w \in 160..199 -> 60
      [] w \in 130..159 -> 50
      [] w \in 100..129 -> 42
      [] w < 90 -> 0
      [] OTHER -> 60

ListWidth(w) == LET n == w - 36 - DetailWidth(w) - 2 IN IF n < 10 THEN 10 ELSE n

(* What the detail panel has for its text, 0 when it shows "…".   *)
TextWidth(w) == IF DetailWidth(w) < 10 THEN 0 ELSE DetailWidth(w) - 4

(* totpBar: filled cells and the rest.                                     *)
totpBar(remaining, w) == LET f == (w * remaining) \div 30
                         IN  <<IF f > w THEN w ELSE f, w - (IF f > w THEN w ELSE f)>>

----------------------------------------------------------------------------
ListInit ==
    /\ listing = <<>>          \* nothing is loaded yet
    /\ catIdx = 0 /\ listIdx = 0 /\ sidebarFocus = FALSE
    /\ revealPwd = FALSE /\ sort = 0 /\ searchQuery = <<>> /\ searching = FALSE
    /\ width = 0               \* until the terminal tells it
    /\ clip = 0 /\ timers = <<>> /\ copies = 0 /\ untimed = FALSE /\ loads = 0 /\ quit = FALSE
    /\ asked = 0 /\ shifted = FALSE /\ typed = FALSE

ListKey == ~quit /\ ~searching

(* Mutant: a move keeps the password revealed.                             *)
Hide_Forgotten == UNCHANGED <<revealPwd, asked, shifted>>

(* revealPwd = false, as the moves of the cursor do it.                    *)
Hide == revealPwd' = FALSE /\ asked' = 0 /\ shifted' = FALSE

GoCategory(k) ==
    /\ catIdx' = k /\ listIdx' = 0 /\ typed' = FALSE
    /\ Hide
    /\ UNCHANGED <<listing, sidebarFocus, sort, searchQuery, searching, width, clipped, loads, quit>>

GoRow(k) ==
    /\ listIdx' = k
    /\ Hide
    /\ UNCHANGED <<listing, catIdx, sidebarFocus, sort, searchQuery, searching, width, clipped,
                   loads, quit, typed>>

UpKey ==
    /\ ListKey
    /\ \/ sidebarFocus /\ catIdx > 0 /\ GoCategory(catIdx - 1)
       \/ ~sidebarFocus /\ listIdx > 0 /\ GoRow(listIdx - 1)

DownKey ==
    /\ ListKey
    /\ \/ sidebarFocus /\ catIdx < catCount(listing) - 1 /\ GoCategory(catIdx + 1)
       \/ ~sidebarFocus /\ listIdx < Len(filteredItems) - 1 /\ GoRow(listIdx + 1)

(* tab and shift+tab go round.                                             *)
TabKey(back) ==
    /\ ListKey
    /\ LET n == catCount(listing)
       IN  GoCategory((catIdx + (IF back THEN n - 1 ELSE 1)) % n)

FocusKey(left) ==
    /\ ListKey /\ sidebarFocus # left
    /\ sidebarFocus' = left
    /\ UNCHANGED <<listing, catIdx, listIdx, view, clipped, loads, quit, past>>

RevealKey ==
    /\ ListKey
    /\ revealPwd' = ~revealPwd
    /\ asked' = IF ~revealPwd /\ OnRow THEN Selected.id ELSE 0
    /\ shifted' = (~revealPwd /\ ~OnRow)    \* nothing was selected yet
    /\ UNCHANGED <<listing, cursor, sort, searchQuery, searching, width, clipped, loads, quit, typed>>

SortKey ==
    /\ ListKey
    /\ sort' = (sort + 1) % 3
    /\ listIdx' = 0 /\ typed' = FALSE
    /\ shifted' = (shifted \/ revealPwd)
    /\ UNCHANGED <<listing, catIdx, sidebarFocus, revealPwd, searchQuery, searching, width, clipped,
                   loads, quit, asked>>

----------------------------------------------------------------------------
(* Search: the cursor and the revealed password stay as they are.          *)
Query(q) ==
    /\ searchQuery' = q
    /\ typed' = (typed \/ q # searchQuery)
    /\ shifted' = (shifted \/ (revealPwd /\ q # searchQuery))
    /\ UNCHANGED <<listing, cursor, revealPwd, sort, width, clipped, loads, quit, asked>>

SearchKey    == ListKey /\ searching' = TRUE /\ Query(<<>>)
SearchEsc    == ~quit /\ searching /\ searching' = FALSE /\ Query(<<>>)
SearchEnter  == ~quit /\ searching /\ searching' = FALSE /\ Query(searchQuery)
SearchType(c) ==
    /\ ~quit /\ searching /\ Len(searchQuery) < MaxQuery
    /\ UNCHANGED searching /\ Query(Append(searchQuery, c))
SearchErase ==
    /\ ~quit /\ searching /\ searchQuery # <<>>
    /\ UNCHANGED searching /\ Query(SubSeq(searchQuery, 1, Len(searchQuery) - 1))

----------------------------------------------------------------------------
(* copyField: nothing when the item has no such field.                     *)
CopyText(it, field) ==
    CASE field = "password" -> it.kind \in {"login", "card"}
      [] field = "username" -> it.kind = "login"
      [] field = "totp"     -> it.kind \in {"login", "otp"}

copyField(field) ==
    /\ ListKey /\ OnRow /\ CopyText(Selected, field) /\ copies < MaxCopies
    /\ copies' = copies + 1 /\ clip' = copies + 1
    /\ timers' = Append(timers, copies + 1)
    /\ untimed' = FALSE
    /\ UNCHANGED <<listing, cursor, view, loads, quit, past>>

(* Enter in the generator opened from the list (handlePassGenKey): what it *)
(* shows goes to the clipboard, and no command to clear it is returned.    *)
GeneratorCopy ==
    /\ ListKey /\ copies < MaxCopies
    /\ copies' = copies + 1 /\ clip' = copies + 1
    /\ untimed' = TRUE
    /\ UNCHANGED <<timers, listing, cursor, view, loads, quit, past>>

(* clearClipMsg: it does not know which copy it belongs to.                *)
ClearClip ==
    /\ ~quit /\ timers # <<>>
    /\ timers' = Tail(timers)
    /\ clip' = 0 /\ untimed' = FALSE
    /\ UNCHANGED <<listing, cursor, view, copies, loads, quit, past>>

----------------------------------------------------------------------------
(* Mutant: the number of the category is kept as it is.                    *)
ClampCat_None(l) == catIdx

ClampCat(l) == IF catIdx >= catCount(l) THEN catCount(l) - 1 ELSE catIdx

(* loadedMsg and offlineLoadedMsg.                                         *)
Loaded(l) ==
    /\ ~quit /\ loads < MaxLoads
    /\ loads' = loads + 1
    /\ listing' = l
    /\ listIdx' = 0 /\ typed' = FALSE
    /\ catIdx' = ClampCat(l)
    /\ shifted' = (shifted \/ revealPwd)
    /\ UNCHANGED <<sidebarFocus, view, clipped, quit, asked>>

Resize(w) ==
    /\ ~quit /\ w # width
    /\ width' = w
    /\ UNCHANGED <<listing, cursor, revealPwd, sort, searchQuery, searching, clipped, loads, quit, past>>

(* The program ends and all it holds is gone, its timers too; what is in   *)
(* the clipboard stays.                                                    *)
QuitKey ==
    /\ ListKey
    /\ quit' = TRUE
    /\ listing' = <<>> /\ catIdx' = 0 /\ listIdx' = 0 /\ sidebarFocus' = FALSE
    /\ revealPwd' = FALSE /\ sort' = 0 /\ searchQuery' = <<>> /\ searching' = FALSE
    /\ width' = 0 /\ timers' = <<>>
    /\ asked' = 0 /\ shifted' = FALSE /\ typed' = FALSE
    /\ UNCHANGED <<clip, copies, untimed, loads>>

ListNext ==
    \/ UpKey \/ DownKey \/ RevealKey \/ SortKey \/ SearchKey \/ SearchEsc \/ SearchEnter
    \/ SearchErase \/ GeneratorCopy \/ ClearClip \/ QuitKey
    \/ \E b \in BOOLEAN : TabKey(b) \/ FocusKey(b)
    \/ \E c \in Letters : SearchType(c)
    \/ \E f \in {"password", "username", "totp"} : copyField(f)
    \/ \E l \in Listings : Loaded(l)
    \/ \E w \in Widths : Resize(w)

(* Timers fire; no key has to come.                                        *)
ListFairness == WF_listVars(ClearClip)

ListSpec == ListInit /\ [][ListNext]_listVars /\ ListFairness

----------------------------------------------------------------------------
(* Types.                                                                  *)
ListTypeOK ==
    /\ listing \in Listings \cup {<<>>} /\ listIdx \in Nat /\ sidebarFocus \in BOOLEAN
    /\ revealPwd \in BOOLEAN /\ sort \in 0..2 /\ searchQuery \in Seq(Letters)
    /\ Len(searchQuery) <= MaxQuery /\ searching \in BOOLEAN /\ width \in Widths \cup {0}
    /\ clip \in 0..MaxCopies /\ timers \in Seq(1..MaxCopies) /\ quit \in BOOLEAN
    /\ untimed \in BOOLEAN

(* The cursor of the sidebar is on an entry, though every reload rebuilds  *)
(* the folders and may leave fewer of them.                                *)
CategoryInRange == catIdx \in 0..(catCount(listing) - 1)

(* Every item is shown by exactly one of All, Archive and Trash, whatever  *)
(* flags it has, and a folder in the sidebar has something to show.        *)
EveryItemHasOneView ==
    /\ \A k \in DOMAIN listing :
          Cardinality({c \in {"all", "archive", "trash"} : InCategory(listing[k], Cat(c, 0))}) = 1
    /\ \A c \in Range(Sidebar(listing)) :
          c.view = "folder" => \E k \in DOMAIN listing : InCategory(listing[k], c)

(* What is shown is the matching rows, each once, in the order the header  *)
(* announces: the exchange sort loses and repeats none.                    *)
SortedRightly ==
    LET rows == filteredItems
    IN  /\ Len(rows) = Len(Matching(listing, selectedCat, searchQuery))
        /\ Range(rows) = Range(Matching(listing, selectedCat, searchQuery))
        /\ \A i, j \in DOMAIN rows : i < j => ~Before(rows[j], rows[i], sort)

(* The cursor is on a row whenever there is one, unless the search text    *)
(* was changed after the cursor was last set back: only the search narrows *)
(* the list under the cursor.                                              *)
CursorOnRowUnlessTyped == typed \/ filteredItems = <<>> \/ OnRow

(* A masked secret is in clear only on the row p was pressed on, unless a  *)
(* reload, a new order or a search has put another row under the cursor.   *)
(* A card number of at most four characters is no such secret: it is shown *)
(* whole whether p was pressed or not.                                     *)
ClearOnlyWhereAsked ==
    OnRow /\ ~shifted /\ renderDetail(Selected, revealPwd) \cap Masked(Selected) # {} => Selected.id = asked

(* No count given to strings.Repeat is negative, at any width of the       *)
(* window and any second of a code.                                        *)
RepeatsNotNegative ==
    /\ ListWidth(width) - 4 >= 0
    /\ TextWidth(width) >= 0
    /\ TextWidth(width) > 0 =>
          \A left \in {1, 15, 30} : \A k \in 1..2 : totpBar(left, TextWidth(width) - 2)[k] >= 0

(* A secret copied from an item leaves the clipboard, unless the program   *)
(* ends before; a password copied from the generator need not, since no    *)
(* timer was started for it, but the timer of another copy clears it too.  *)
ClipboardClears ==
    \A k \in 1..MaxCopies :
        (clip = k /\ (~untimed \/ timers # <<>>)) ~> (clip # k \/ quit)

(* What the list shows is right: every item in one view, the matching rows *)
(* in order, and the cursor on one of them.                                *)
ViewIsRight == EveryItemHasOneView /\ SortedRightly /\ CursorOnRowUnlessTyped
=============================================================================
