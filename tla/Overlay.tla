------------------------------- MODULE Overlay ------------------------------
(***************************************************************************)
(* Drawing a panel over the vault screen (internal/client/tui/app.go):     *)
(* viewWithOverlay centres it and placeover cuts every row of the screen   *)
(* at two columns, in text that has escape sequences and characters two    *)
(* columns wide (the icons of the list).                                   *)
(*                                                                         *)
(* A row is a sequence of marks: "esc" begins an escape sequence, "m" ends *)
(* one or is a letter outside of it, "a" is any other letter and "W" a     *)
(* wide character.  The panel's own marks are "P" and "esc".  The rows of  *)
(* the screen are alike here: placeover looks at one row at a time.        *)
(***************************************************************************)
EXTENDS Integers, Sequences, FiniteSetsExt, SequencesExt

CONSTANTS
    MaxRow,     \* bound on the length of a row of the screen
    MaxPanel,   \* bound on the width of the panel
    WindowWidths, WindowHeights     \* the sizes of the window

ASSUME OverlayAssumption ==
    MaxRow \in Nat /\ MaxPanel \in Nat /\ WindowWidths \subseteq Nat /\ WindowHeights \subseteq Nat

VARIABLES
    row,        \* each row of the screen
    panel,      \* each row of the panel
    rows,       \* [screen, panel]: how many of them
    window,     \* m.width, m.height
    drawn       \* the rows drawn, <<>> before

overVars == <<row, panel, rows, window, drawn>>

Width(r) == CASE r \in {"a", "m", "P"} -> 1 [] r = "W" -> 2

(* The two loops: the state after each mark, whether it is inside an       *)
(* escape sequence and how many columns are behind it.                     *)
Scan(s) ==
    FoldLeft(LAMBDA acc, r :
        LET last == acc[Len(acc)]
        IN  Append(acc,
              CASE r = "esc"  -> [last EXCEPT !.inEsc = TRUE, !.visible = FALSE]
                [] last.inEsc /\ r # "esc" -> [last EXCEPT !.inEsc = (r # "m"), !.visible = FALSE]
                [] OTHER -> [last EXCEPT !.cols = @ + Width(r), !.visible = TRUE]),
        <<[inEsc |-> FALSE, cols |-> 0, visible |-> FALSE]>>, s)

visColWidth(s) == Scan(s)[Len(s) + 1].cols

(* Mutant: the first character that begins behind the column.              *)
byteOffsetForCol_Behind(s, col) ==
    LET sc == Scan(s)
        at == {k \in DOMAIN s : sc[k + 1].visible /\ sc[k].cols > col}
    IN  IF at = {} THEN Len(s) ELSE Min(at) - 1

(* How many marks are in front of the first visible character that begins  *)
(* at the column or behind it.                                             *)
byteOffsetForCol(s, col) ==
    LET sc == Scan(s)
        at == {k \in DOMAIN s : sc[k + 1].visible /\ sc[k].cols >= col}
    IN  IF at = {} THEN Len(s) ELSE Min(at) - 1

Blanks(n) == [k \in 1..n |-> "a"]

(* One row of placeover.                                                   *)
Placed(bl, ol, x) ==
    IF x > visColWidth(bl)
    THEN bl \o Blanks(x - visColWidth(bl)) \o ol
    ELSE SubSeq(bl, 1, byteOffsetForCol(bl, x)) \o ol
           \o SubSeq(bl, byteOffsetForCol(bl, x + visColWidth(ol)) + 1, Len(bl))

Centre(all, part) == IF part > all THEN 0 ELSE (all - part) \div 2

X == Centre(window[1], visColWidth(panel))
Y == Centre(window[2], rows.panel)

placeover ==
    [k \in 1..rows.screen |->
        IF k - 1 \in Y..(Y + rows.panel - 1) THEN Placed(row, panel, X) ELSE row]

----------------------------------------------------------------------------
(* Rows end outside of an escape sequence: lipgloss closes what it opens.  *)
OverInit ==
    /\ row \in {s \in SeqOf({"a", "m", "W", "esc"}, MaxRow) : ~Scan(s)[Len(s) + 1].inEsc}
    /\ panel \in {[k \in 1..n |-> "P"] : n \in 1..MaxPanel}
                   \cup {<<"esc", "m">> \o [k \in 1..n |-> "P"] : n \in 1..MaxPanel}
    /\ rows \in [screen : {2, 3}, panel : {1, 3}]
    /\ window \in WindowWidths \X WindowHeights
    /\ drawn = <<>>

viewWithOverlay ==
    /\ drawn = <<>>
    /\ drawn' = placeover
    /\ UNCHANGED <<row, panel, rows, window>>

OverNext == viewWithOverlay

OverSpec == OverInit /\ [][OverNext]_overVars

----------------------------------------------------------------------------
(* What the terminal shows of a row: one mark for each column, both halves *)
(* of a wide character told apart.                                         *)
Columns(s) ==
    FoldLeft(LAMBDA acc, k : acc \o
                 (IF ~Scan(s)[k + 1].visible THEN <<>>
                  ELSE IF s[k] = "W" THEN <<"W", "w">> ELSE <<s[k]>>),
             <<>>, [k \in DOMAIN s |-> k])

(* The columns of the panel do not cut a wide character of the row in two. *)
NothingHalved ==
    LET cols == Columns(row)
    IN  \A c \in {X, X + visColWidth(panel)} : c < Len(cols) => cols[c + 1] # "w"

(* The reference: the columns of the row, those of the panel instead of    *)
(* what is under it, blanks where the row is too short.                    *)
Painted ==
    LET cols == Columns(row)
        w == visColWidth(panel)
    IN  [c \in 1..Max({Len(cols), X + w}) |->
            IF c \in (X + 1)..(X + w) THEN "P"
            ELSE IF c <= Len(cols) THEN cols[c] ELSE "a"]

(* A panel is drawn at its columns and changes nothing beside them, in     *)
(* every row it lies on and in no other, however escape sequences and wide *)
(* characters lie around the two cuts; unless a cut goes through a wide    *)
(* character, which shifts the rest of that row.                           *)
PaintsThePanel ==
    drawn # <<>> /\ NothingHalved =>
        \A k \in DOMAIN drawn :
            Columns(drawn[k]) = IF k - 1 \in Y..(Y + rows.panel - 1) THEN Painted ELSE Columns(row)

(* The screen keeps its height, and no row that is cut grows or shrinks by *)
(* more than the wide character at either cut.                             *)
ScreenKeepsItsShape ==
    drawn # <<>> =>
        /\ Len(drawn) = rows.screen
        /\ \A k \in DOMAIN drawn :
              visColWidth(drawn[k]) \in (visColWidth(row) - 1)..(Max({visColWidth(row), X + visColWidth(panel)}) + 1)

(* A panel lies over the screen where it belongs and leaves the shape of   *)
(* the screen as it was.                                                   *)
PanelLiesOver == PaintsThePanel /\ ScreenKeepsItsShape
=============================================================================
