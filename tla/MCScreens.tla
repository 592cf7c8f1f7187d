------------------------------ MODULE MCScreens -----------------------------
(***************************************************************************)
(* The screens of the terminal UI that share no state, for TLC: sign-in,   *)
(* the list and detail of the vault, the password generator, the forms and *)
(* the panels drawn over a screen.  Each behaviour runs one of them while  *)
(* the others stay as they begin, since interleaving independent parts     *)
(* would only multiply the states.                                         *)
(***************************************************************************)
EXTENDS AuthFlow, VaultList, PassGen, ItemForm, Overlay

VARIABLE part

screenVars == <<part, vars, listVars, genVars, formVars, overVars>>

(* Listings for the vault screens: rows with every flag that sorts them    *)
(* into a category, folders that come and go with a reload, names in       *)
(* another order than the rows, and a card number long and short.          *)
VaultRow(i, n, k, f, fl, d) ==
    [id |-> i, name |-> n, kind |-> k, folder |-> f, flags |-> fl, digits |-> d]

MCListings ==
    {<<VaultRow(1, <<2>>, "login", 1, {}, 0), VaultRow(2, <<1, 2>>, "card", 2, {"favorite"}, 16),
       VaultRow(3, <<1>>, "ssh", 0, {"archived"}, 0)>>,
     <<VaultRow(2, <<1, 2>>, "card", 0, {"favorite"}, 4),
       VaultRow(1, <<2>>, "login", 1, {"archived", "trashed"}, 0),
       VaultRow(5, <<1>>, "otp", 0, {}, 0)>>}

(* A blank screen.                                                         *)
OverAtRest == row = <<>> /\ panel = <<"P">> /\ rows = [screen |-> 2, panel |-> 1] /\ window = <<1, 2>>
                /\ drawn = <<>>

MCInit ==
    /\ part \in {"signin", "list", "generator", "form", "overlay"}
    /\ Init /\ ListInit /\ GenInit
    /\ FormInit /\ (part # "form" => item = NoItem)
    /\ IF part = "overlay" THEN OverInit ELSE OverAtRest

MCNext ==
    /\ UNCHANGED part
    /\ \/ part = "signin" /\ Next /\ UNCHANGED <<listVars, genVars, formVars, overVars>>
       \/ part = "list" /\ ListNext /\ UNCHANGED <<vars, genVars, formVars, overVars>>
       \/ part = "generator" /\ GenNext /\ UNCHANGED <<vars, listVars, formVars, overVars>>
       \/ part = "form" /\ FormNext /\ UNCHANGED <<vars, listVars, genVars, overVars>>
       \/ part = "overlay" /\ OverNext /\ UNCHANGED <<vars, listVars, genVars, formVars>>

(* No fair action of a part is enabled while the part is at rest.          *)
MCSpec ==
    /\ MCInit /\ [][MCNext]_screenVars
    /\ (\A c \in Cmds : WF_vars(Run(c))) /\ ListFairness /\ GenFairness

----------------------------------------------------------------------------
(* The type invariants of the screens.  Indexes stay in range through      *)
(* every reload and resize, and no count given to strings.Repeat, which    *)
(* panics below zero, is negative.                                         *)
ScreensTypeOK ==
    /\ TypeOK /\ ListTypeOK /\ GenTypeOK /\ FormTypeOK
    /\ CategoryInRange /\ RepeatsNotNegative /\ StrengthBarFits

(* What a screen waits for comes: the answer of a sign-in, the end of a    *)
(* copied secret, the answer of a generator whose minimums cannot be met.  *)
ScreensEnd == LoadingEnds /\ ClipboardClears /\ RefreshEnds
=============================================================================
