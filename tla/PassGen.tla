------------------------------ MODULE PassGen ------------------------------
(***************************************************************************)
(* The password generator of the terminal client: the overlay              *)
(* (internal/client/tui/passgen.go) over GeneratePassword and              *)
(* GeneratePassphrase (internal/shared/crypto).                            *)
(*                                                                         *)
(* Every key that changes a setting starts refreshCmd, a goroutine with a  *)
(* copy of the settings, and takes its answer whenever it comes: also      *)
(* after a later one, after other settings, or in another overlay.         *)
(*                                                                         *)
(* A password is what the screen tells apart: the options it was made      *)
(* with and whether it has the digits and symbols that were asked for.     *)
(***************************************************************************)
EXTENDS Naturals, FiniteSets

CONSTANTS
    MinLength, MaxLength, StartLength,  \* 4, 128 and 20 in the code
    MinWords, MaxWords, StartWords,     \* 2, 10 and 5 in the code
    NumSeps,        \* len(passGenSeps), 5 in the code; the last one is ""
    Tries,          \* passwords generated to meet the minimums, 30 in the code
    PanelWidth,     \* innerW
    Workers,        \* as many refreshCmd goroutines may run at once
    MaxRefresh,     \* bound on the refreshes started
    MaxOpens,       \* bound on the times the overlay is opened
    NoGen           \* m.passGen = nil, an idle worker, nothing handed over

ASSUME GenAssumption ==
    /\ MinLength \in Nat /\ MinLength >= 4
    /\ MaxLength \in Nat /\ StartLength \in MinLength..MaxLength
    /\ MinWords \in Nat /\ MaxWords \in Nat /\ StartWords \in MinWords..MaxWords
    /\ NumSeps \in Nat \ {0} /\ Tries \in Nat \ {0} /\ PanelWidth \in Nat
    /\ MaxRefresh \in Nat /\ MaxOpens \in Nat

VARIABLES
    pg,         \* m.passGen
    worker,     \* the refresh commands
    out,        \* what Enter has handed over, and what the screen asked for
    refreshed,  \* refreshes started so far
    opened,     \* overlays opened so far
    genRaced       \* history: a refresh was under way when another one was
                \* started or the overlay was opened

genVars == <<pg, worker, out, refreshed, opened, genRaced>>

----------------------------------------------------------------------------
(* Fields of the two tabs in the order of their constants: the password    *)
(* tab counts from 0, and ppFldWords = iota - pgPasswordFields is 1.       *)
PasswordFields   == <<"upper", "lower", "digits", "symbols",
                      "minDigits", "minSymbols", "ambig">>
PassphraseFields == <<"words", "sep", "capitalize", "num">>

FieldAt(tab, focus) ==
    CASE tab = "password" /\ focus = 0 -> "length"
      [] tab = "password" /\ focus > 0 -> PasswordFields[focus]
      [] tab = "passphrase" /\ focus = 0 -> "none"
      [] tab = "passphrase" /\ focus > 0 -> PassphraseFields[focus]

MaxFocus(tab) == IF tab = "passphrase" THEN 4 ELSE 7

Switches == {"upper", "lower", "digits", "symbols", "ambig", "capitalize", "num"}

----------------------------------------------------------------------------
(* crypto.PasswordOpts and crypto.PassphraseOpts as refresh passes them:   *)
(* useLower is not among them.                                             *)
Opts(s) ==
    IF s.tab = "password"
    THEN [tab |-> "password", length |-> s.length, ambig |-> s.on["ambig"],
          classes |-> {"lower"} \cup ({"upper", "digits", "symbols"} \cap {c \in Switches : s.on[c]})]
    ELSE [tab |-> "passphrase", words |-> s.words, sep |-> s.sep,
          capitalize |-> s.on["capitalize"], num |-> s.on["num"]]

(* GeneratePassword: one character of each enabled class and Length in     *)
(* all, shuffled; here how many are digits and how many symbols.           *)
GeneratePassword(o) ==
    LET least(c) == IF c \in o.classes THEN 1 ELSE 0
        most(c)  == IF c \in o.classes THEN o.length ELSE 0
    IN  {p \in [digits : least("digits")..most("digits"),
                symbols : least("symbols")..most("symbols")] :
            p.digits + p.symbols + least("lower") + least("upper") <= o.length}

passGenMeetsMinimums(p, minDigits, minSymbols) ==
    p.digits >= minDigits /\ p.symbols >= minSymbols

(* Can one password out of those that opts allow meet, or miss, the        *)
(* minimums?                                                               *)
MayMeet(c) == \E p \in GeneratePassword(c.opts) :
                 passGenMeetsMinimums(p, c.minDigits, c.minSymbols)
MayMiss(c) == \E p \in GeneratePassword(c.opts) :
                 ~passGenMeetsMinimums(p, c.minDigits, c.minSymbols)

(* The copy of the settings refreshCmd takes along.                        *)
Snapshot(s) == [opts |-> Opts(s), minDigits |-> s.minDigits, minSymbols |-> s.minSymbols]

(* The character classes of a preview, as colorizePassword and             *)
(* passwordStrength see them, and its score.                               *)
Score(length, classes) ==
    (CASE length >= 24 -> 40
       [] length \in 16..23 -> 30
       [] length \in 12..15 -> 20
       [] length \in 8..11 -> 10
       [] OTHER -> 0) + 15 * Cardinality(classes)

strengthBar(length, classes) == (Score(length, classes) * PanelWidth) \div 100

----------------------------------------------------------------------------
Defaults ==
    [tab |-> "password", focus |-> 0, length |-> StartLength,
     minDigits |-> 1, minSymbols |-> 1, words |-> StartWords, sep |-> 0,
     on |-> [f \in Switches |-> f # "ambig"]]

(* The text of a preview: what GeneratePassword or GeneratePassphrase made *)
(* of the options it was called with.                                      *)
Preview(o, met) == [opts |-> o, met |-> met]

Running == {w \in Workers : worker[w] # NoGen}

GenInit ==
    /\ pg = NoGen /\ out = NoGen
    /\ worker = [w \in Workers |-> NoGen]
    /\ refreshed = 0 /\ opened = 0
    /\ genRaced = FALSE

(* g on the list, ctrl+g on a form field: newPassGenState generates the    *)
(* first preview itself.                                                   *)
GenOpen ==
    /\ pg = NoGen /\ opened < MaxOpens
    /\ opened' = opened + 1
    /\ LET s == Defaults
       IN  \E met \in BOOLEAN :
              /\ IF met THEN MayMeet(Snapshot(s)) ELSE MayMiss(Snapshot(s))
              /\ pg' = [s |-> s, preview |-> Preview(Opts(s), met)]
    /\ out' = NoGen
    /\ genRaced' = (genRaced \/ Running # {})
    /\ UNCHANGED <<worker, refreshed>>

(* refreshCmd: a goroutine with a copy of the settings.                    *)
refreshCmd(s) ==
    /\ refreshed < MaxRefresh
    /\ refreshed' = refreshed + 1
    /\ \E w \in Workers : worker[w] = NoGen
    /\ LET w == CHOOSE w \in Workers : worker[w] = NoGen
       IN  worker' = [worker EXCEPT ![w] = [c |-> Snapshot(s), tries |-> 0, pc |-> "try", met |-> FALSE]]
    /\ genRaced' = (genRaced \/ Running # {})

Clamp(n, lo, hi) == IF n > hi THEN hi ELSE IF n < lo THEN lo ELSE n

(* adjustFocused(delta): delta is -1 or +1, written as less or more.       *)
adjustFocused(s, more) ==
    LET step(n, lo, hi) ==
            Clamp(IF more THEN n + 1 ELSE IF n = 0 THEN 0 ELSE n - 1, lo, hi)
    IN  CASE FieldAt(s.tab, s.focus) = "length" ->
               [s EXCEPT !.length = step(@, MinLength, MaxLength)]
          [] FieldAt(s.tab, s.focus) = "minDigits" ->
               [s EXCEPT !.minDigits = step(@, 0, s.length \div 2)]
          [] FieldAt(s.tab, s.focus) = "minSymbols" ->
               [s EXCEPT !.minSymbols = step(@, 0, s.length \div 2)]
          [] FieldAt(s.tab, s.focus) = "words" ->
               [s EXCEPT !.words = step(@, MinWords, MaxWords)]
          [] FieldAt(s.tab, s.focus) = "sep" ->
               [s EXCEPT !.sep = (@ + (IF more THEN 1 ELSE NumSeps - 1)) % NumSeps]
          [] OTHER -> s

toggleFocused(s) ==
    IF FieldAt(s.tab, s.focus) \in Switches
    THEN [s EXCEPT !.on[FieldAt(s.tab, s.focus)] = ~@] ELSE s

(* A key that leaves the overlay open with settings s.                     *)
Edit(s) ==
    /\ pg' = [pg EXCEPT !.s = s]
    /\ refreshCmd(s)
    /\ UNCHANGED <<out, opened>>

(* Mutant: the toggle does not start a refresh.                            *)
GenToggle_NoRefresh ==
    /\ pg # NoGen
    /\ pg' = [pg EXCEPT !.s = toggleFocused(pg.s)]
    /\ UNCHANGED <<worker, out, refreshed, opened, genRaced>>

GenTab(tab)     == pg # NoGen /\ Edit([pg.s EXCEPT !.tab = tab, !.focus = 0])
GenRefresh      == pg # NoGen /\ Edit(pg.s)
GenAdjust(more) == pg # NoGen /\ Edit(adjustFocused(pg.s, more))
GenToggle       == pg # NoGen /\ Edit(toggleFocused(pg.s))

GenMove(down) ==
    /\ pg # NoGen
    /\ LET last == MaxFocus(pg.s.tab)
       IN  pg' = [pg EXCEPT !.s.focus =
                    IF down THEN (IF @ < last THEN @ + 1 ELSE 0)
                            ELSE (IF @ > 0 THEN @ - 1 ELSE last)]
    /\ UNCHANGED <<worker, out, refreshed, opened, genRaced>>

(* enter: fill the form field or, opened from the list, the clipboard; the *)
(* clipboard's side of it is GeneratorCopy of VaultList.                   *)
GenEnter ==
    /\ pg # NoGen
    /\ out' = [preview |-> pg.preview, asked |-> Opts(pg.s), late |-> genRaced \/ Running # {}]
    /\ pg' = NoGen
    /\ UNCHANGED <<worker, refreshed, opened, genRaced>>

GenEsc ==
    /\ pg # NoGen
    /\ pg' = NoGen
    /\ UNCHANGED <<worker, out, refreshed, opened, genRaced>>

----------------------------------------------------------------------------
(* The loop of refreshCmd: another password until one meets the minimums,  *)
(* the last one when Tries of them did not.  A passphrase has none.        *)
RefreshAnswer(w, met) == worker' = [worker EXCEPT ![w].pc = "sent", ![w].met = met]

TryMeets(w) == MayMeet(worker[w].c) /\ RefreshAnswer(w, TRUE)

(* Mutant: it tries until one meets the minimums.                          *)
TryMisses_Forever(w) == MayMiss(worker[w].c) /\ worker' = [worker EXCEPT ![w].tries = 0]

TryMisses(w) ==
    /\ MayMiss(worker[w].c)
    /\ IF worker[w].tries + 1 < Tries
       THEN worker' = [worker EXCEPT ![w].tries = @ + 1]
       ELSE RefreshAnswer(w, FALSE)

GenTry(w) ==
    /\ w \in Running /\ worker[w].pc = "try"
    /\ IF worker[w].c.opts.tab = "passphrase" THEN RefreshAnswer(w, TRUE)
       ELSE TryMeets(w) \/ TryMisses(w)
    /\ UNCHANGED <<pg, out, refreshed, opened, genRaced>>

(* passGenRefreshMsg: dropped when the overlay is closed.                  *)
GenArrives(w) ==
    /\ w \in Running /\ worker[w].pc = "sent"
    /\ pg' = IF pg = NoGen THEN NoGen
             ELSE [pg EXCEPT !.preview = Preview(worker[w].c.opts, worker[w].met)]
    /\ worker' = [worker EXCEPT ![w] = NoGen]
    /\ UNCHANGED <<out, refreshed, opened, genRaced>>

GenKey ==
    \/ \E t \in {"password", "passphrase"} : GenTab(t)
    \/ GenOpen \/ GenRefresh \/ GenToggle \/ GenEnter \/ GenEsc
    \/ \E b \in BOOLEAN : GenAdjust(b) \/ GenMove(b)

GenNext == GenKey \/ \E w \in Workers : GenTry(w) \/ GenArrives(w)

(* Goroutines run and the loop takes their messages; no key has to come.   *)
GenFairness == \A w \in Workers : WF_genVars(GenTry(w) \/ GenArrives(w))

GenSpec == GenInit /\ [][GenNext]_genVars /\ GenFairness

----------------------------------------------------------------------------
Lengths == MinLength..MaxLength

Settings == [tab : {"password", "passphrase"}, focus : 0..7, length : Lengths,
             minDigits : 0..(MaxLength \div 2), minSymbols : 0..(MaxLength \div 2),
             words : MinWords..MaxWords, sep : 0..(NumSeps - 1),
             on : [Switches -> BOOLEAN]]

Options == [tab : {"password"}, length : Lengths, ambig : BOOLEAN,
            classes : SUBSET {"lower", "upper", "digits", "symbols"}]
             \cup [tab : {"passphrase"}, words : MinWords..MaxWords, sep : 0..(NumSeps - 1),
                   capitalize : BOOLEAN, num : BOOLEAN]

Previews == [opts : Options, met : BOOLEAN]

(* A refresh under way; NoGen is none of them.                             *)
Refreshes == [c : [opts : Options, minDigits : Nat, minSymbols : Nat],
              tries : Nat, pc : {"try", "sent"}, met : BOOLEAN]

ASSUME NoGenAssumption == NoGen \notin Refreshes

(* Types: lengths, minimums, words and separators stay inside the limits   *)
(* adjustFocused sets, the focus on a field of its tab, and no loop of     *)
(* refreshCmd goes beyond its tries.                                       *)
GenTypeOK ==
    /\ pg # NoGen => /\ pg.s \in Settings /\ pg.s.focus <= MaxFocus(pg.s.tab)
                     /\ pg.preview \in Previews
    /\ out # NoGen => out.preview \in Previews /\ out.asked \in Options
    /\ \A w \in Running : /\ worker[w].c.opts \in Options
                          /\ worker[w].tries < Tries /\ worker[w].pc \in {"try", "sent"}
    /\ refreshed \in 0..MaxRefresh /\ opened \in 0..MaxOpens

(* The preview was generated with the settings the overlay shows, and      *)
(* Enter hands over a password of the kind the screen asks for, unless a   *)
(* refresh is still under way or two of them have been at once: every key  *)
(* that changes what is generated starts a refresh.                        *)
PreviewFitsUnlessRaced ==
    /\ pg # NoGen /\ Running = {} /\ ~genRaced => pg.preview.opts = Opts(pg.s)
    /\ out # NoGen /\ ~out.late => out.preview.opts = out.asked

(* Asked for at most one digit and one symbol, of classes that are         *)
(* enabled, refreshCmd never answers with a password that lacks one,       *)
(* however many of its tries it needs: GeneratePassword puts a character   *)
(* of each class in.                                                       *)
OneOfEachIsAlwaysMet ==
    \A w \in Running :
        LET c == worker[w].c
        IN  /\ worker[w].pc = "sent" /\ c.opts.tab = "password"
            /\ c.minDigits <= (IF "digits" \in c.opts.classes THEN 1 ELSE 0)
            /\ c.minSymbols <= (IF "symbols" \in c.opts.classes THEN 1 ELSE 0)
            => worker[w].met

(* The strength bar of the preview fits its panel at every length          *)
(* (strings.Repeat panics below zero), and neither a longer password nor   *)
(* one with another class is shown as weaker.                              *)
StrengthBarFits ==
    pg # NoGen /\ pg.preview.opts.tab = "password" =>
        LET C == pg.preview.opts.classes
        IN  \A l \in {1, 7, 11, 15, 23, 24} :
               /\ strengthBar(l, C) <= PanelWidth
               /\ Score(l, C) <= Score(l + 1, C)
               /\ \A c \in {"upper", "digits", "symbols"} :
                     Score(l, C) <= Score(l, C \cup {c})

(* Every refresh answers, also for minimums no password can meet: the      *)
(* loop of refreshCmd gives up after its tries.                            *)
RefreshEnds == \A w \in Workers : (worker[w] # NoGen) ~> (worker[w] = NoGen)

(* The preview is made with the settings on the screen and meets minimums  *)
(* of one, unless refreshes race.                                          *)
PreviewIsAsAsked == PreviewFitsUnlessRaced /\ OneOfEachIsAlwaysMet
=============================================================================
