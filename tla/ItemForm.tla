------------------------------ MODULE ItemForm ------------------------------
(***************************************************************************)
(* What the forms of the terminal UI make of an item: buildForm and the    *)
(* parsers of payloads.go fill a form from a payload, saveForm builds a    *)
(* new payload from the form, setItemFlag patches the payload in place,    *)
(* and other writers of the vault have payloads of their own.  One item;   *)
(* the calls behind it, and what can go wrong with them, are in VaultTui.  *)
(*                                                                         *)
(* A payload is a function from JSON keys to texts, or has the one key     *)
(* "raw" when it is no JSON.                                               *)
(***************************************************************************)
EXTENDS Naturals, Sequences

CONSTANTS
    Texts,          \* what can be typed into a field, " " being blanks
    MaxTyped,       \* bound on the fields typed into
    MaxSaves,       \* bound on the saves
    MaxFlags        \* bound on the flags toggled

ASSUME FormAssumption ==
    /\ "" \notin Texts /\ MaxTyped \in Nat /\ MaxSaves \in Nat /\ MaxFlags \in Nat

VARIABLES
    item,       \* [typ, payload, meta] of the item, NoItem before there is one
    form,       \* [title, focus, vals] of the form, NoForm without one
    refused,    \* "Name is required"
    count,      \* [typed, saves, flags] so far
    \* history, read by the properties only
    said,       \* the texts the item was last given
    flaggedRaw  \* a flag was set on a payload that is no JSON

formVars == <<item, form, refused, count, said, flaggedRaw>>

NoItem == [typ |-> 0, payload |-> <<>>, meta |-> ""]
NoForm == [title |-> "none", focus |-> 0, vals |-> <<>>]

(* The JSON keys behind the fields of each form, in their order.           *)
FieldsOf ==
    [login    |-> <<"name", "username", "password", "url", "totp_key", "notes", "folder">>,
     card     |-> <<"name", "cardholder_name", "number", "exp_month", "exp_year", "cvv", "notes", "folder">>,
     note     |-> <<"name", "content", "folder">>,
     identity |-> <<"name", "first_name", "last_name", "email", "phone", "company", "address", "notes", "folder">>,
     otp      |-> <<"name", "secret", "issuer", "folder">>,
     ssh      |-> <<"name", "key_type", "private_key", "public_key", "comment", "folder">>,
     file     |-> <<"name", "data", "folder">>]

Titles == DOMAIN FieldsOf

KeysOf(t) == {FieldsOf[t][k] : k \in DOMAIN FieldsOf[t]}

(* Keys left out of the JSON when the text is empty; the folder is added   *)
(* to the JSON afterwards, when there is one.                              *)
OmitEmpty == {"url", "totp_key", "notes", "company", "address", "issuer",
              "public_key", "comment", "folder"}

(* What the picker offers: every form but that of an authenticator.        *)
pickerEntries == {"login", "card", "identity", "note", "ssh", "file"}

TypeOf(t) == CASE t = "login" -> 1 [] t \in {"note", "ssh"} -> 2
               [] t \in {"identity", "file"} -> 3 [] t = "card" -> 4 [] t = "otp" -> 5

Flags == {"favorite", "archived", "trashed"}

Get(p, k) == IF k \in DOMAIN p THEN p[k] ELSE ""

(* isSSHKey and isFileItem decide what a TEXT and a BINARY item is.        *)
KindOf(it) ==
    CASE it.typ = 2 -> IF Get(it.payload, "ssh_key") = "true" THEN "ssh" ELSE "note"
      [] it.typ = 3 -> IF Get(it.payload, "is_file") = "true" THEN "file" ELSE "identity"
      [] it.typ = 1 -> "login" [] it.typ = 4 -> "card" [] it.typ = 5 -> "otp"

(* The text of a payload that is JSON.                                     *)
JsonText == "{...}"

RawText(p) == IF "raw" \in DOMAIN p THEN p["raw"] ELSE JsonText

(* The parsers: a name falls back to the metadata, a username to the old   *)
(* key login, the content of a note to the whole payload.                  *)
Parsed(it, k) ==
    LET text == Get(it.payload, k)
    IN  IF text # "" THEN text
        ELSE CASE k = "name"     -> it.meta
               [] k = "username" -> Get(it.payload, "login")
               [] k = "content"  -> RawText(it.payload)
               [] OTHER          -> ""

(* SetValue of a field puts a blank for every line break, here "/".        *)
OneLine(text) == IF text = "l1/l2" THEN "l1 l2" ELSE text

Shown(it, t) == [k \in KeysOf(t) |-> OneLine(Parsed(it, k))]

(* strings.TrimSpace                                                       *)
Trim(text) == IF text = " " THEN "" ELSE text

(* What tells a key from a note and a file from an identity.               *)
Marks(t) == IF t = "ssh" THEN {"ssh_key"} ELSE IF t = "file" THEN {"is_file"} ELSE {}

Marked(marks, kept, v) == [k \in marks \cup kept |-> IF k \in marks THEN "true" ELSE v[k]]

(* Mutant: the folder is only stored for the forms of the long switch.     *)
Payload_SSHNoFolder(t, v) ==
    LET kept == {k \in KeysOf(t) : (v[k] # "" \/ k \notin OmitEmpty) /\ (t = "ssh" => k # "folder")}
    IN  Marked(Marks(t), kept, v)

(* saveForm: the JSON of the struct of the form, patched with the folder.  *)
(* Nothing else of an earlier payload is kept (but a login's history).     *)
Payload(t, v) ==
    LET kept == {k \in KeysOf(t) : v[k] # "" \/ k \notin OmitEmpty}
    IN  Marked(Marks(t), kept, v)

----------------------------------------------------------------------------
(* Items of other writers: credential add, otp add, a credential and a     *)
(* note of two lines of earlier versions; and none.                        *)
Elsewhere ==
    LET It(t, p) == [typ |-> t, payload |-> p, meta |-> "n"]
        Login    == [name |-> "n", username |-> "u", password |-> "p"]
    IN  {<<NoItem, <<>> >>,
         <<It(1, Login), Login>>,
         <<It(1, [login |-> "u", password |-> "p"]), Login>>,
         <<It(5, [secret |-> "s", label |-> "n", issuer |-> ""]), [name |-> "n", secret |-> "s"]>>,
         <<It(2, [raw |-> "l1/l2"]), [name |-> "n", content |-> "l1/l2"]>>}

FormInit ==
    /\ \E e \in Elsewhere : item = e[1] /\ said = e[2]
    /\ form = NoForm /\ refused = FALSE
    /\ count = [typed |-> 0, saves |-> 0, flags |-> 0]
    /\ flaggedRaw = FALSE

Open(t, vals) ==
    /\ form = NoForm
    /\ form' = [title |-> t, focus |-> 1, vals |-> vals]
    /\ refused' = FALSE
    /\ UNCHANGED <<item, count, said, flaggedRaw>>

(* openNewForm, openNewSSHForm, openNewFileForm.  Before anything is typed *)
(* the type of a key is set, and the folder selected in the sidebar where  *)
(* buildForm makes the form.                                               *)
OpenNew(t, selected) ==
    /\ item = NoItem
    /\ Open(t, [k \in KeysOf(t) |-> CASE k = "key_type" -> "ed25519"
                                      [] k = "folder" /\ t \notin {"ssh", "file"} -> selected
                                      [] OTHER -> ""])

(* Mutant: every TEXT item is opened as a note.                            *)
OpenEdit_AsNote ==
    /\ item # NoItem /\ "trashed" \notin DOMAIN item.payload /\ KindOf(item) # "file"
    /\ LET t == IF item.typ = 2 THEN "note" ELSE KindOf(item) IN Open(t, Shown(item, t))

(* openEditForm, openEditSSHForm: neither files nor what is in the trash.  *)
OpenEdit ==
    /\ item # NoItem /\ "trashed" \notin DOMAIN item.payload /\ KindOf(item) # "file"
    /\ Open(KindOf(item), Shown(item, KindOf(item)))

Fields == Len(FieldsOf[form.title])

FieldTab ==
    /\ form # NoForm
    /\ form' = [form EXCEPT !.focus = (@ % Fields) + 1]
    /\ UNCHANGED <<item, refused, count, said, flaggedRaw>>

FieldBackTab ==
    /\ form # NoForm
    /\ form' = [form EXCEPT !.focus = ((@ + Fields - 2) % Fields) + 1]
    /\ UNCHANGED <<item, refused, count, said, flaggedRaw>>

FormType(text) ==
    /\ form # NoForm /\ count.typed < MaxTyped
    /\ form' = [form EXCEPT !.vals[FieldsOf[form.title][form.focus]] = text]
    /\ count' = [count EXCEPT !.typed = @ + 1]
    /\ UNCHANGED <<item, refused, said, flaggedRaw>>

FormLeave ==
    /\ form # NoForm
    /\ form' = NoForm
    /\ UNCHANGED <<item, refused, count, said, flaggedRaw>>

SaveForm ==
    LET t == form.title
        v == [k \in DOMAIN form.vals |-> Trim(form.vals[k])]
    IN  IF v["name"] = ""
        THEN refused' = TRUE /\ UNCHANGED <<item, form, count, said, flaggedRaw>>
        ELSE /\ count.saves < MaxSaves
             /\ count' = [count EXCEPT !.saves = @ + 1]
             /\ item' = [typ |-> IF item = NoItem THEN TypeOf(t) ELSE item.typ,
                         payload |-> Payload(t, v), meta |-> v["name"]]
             /\ form' = NoForm /\ said' = v /\ flaggedRaw' = FALSE
             /\ UNCHANGED refused

FormSave == form # NoForm /\ SaveForm

(* Enter saves on the last field and goes on to the next one elsewhere.    *)
FormEnter ==
    /\ form # NoForm
    /\ IF form.focus = Fields THEN SaveForm
       ELSE /\ form' = [form EXCEPT !.focus = @ + 1]
            /\ UNCHANGED <<item, refused, count, said, flaggedRaw>>

(* A payload that is no JSON is replaced by the flag alone.                *)
setItemFlag(flag) ==
    LET p    == IF "raw" \in DOMAIN item.payload THEN <<>> ELSE item.payload
        set  == IF flag \in DOMAIN p THEN {} ELSE {flag}
    IN  /\ item # NoItem /\ form = NoForm /\ count.flags < MaxFlags
        /\ count' = [count EXCEPT !.flags = @ + 1]
        /\ item' = [item EXCEPT !.payload = Marked(set, DOMAIN p \ {flag}, p)]
        /\ flaggedRaw' = (flaggedRaw \/ "raw" \in DOMAIN item.payload)
        /\ UNCHANGED <<form, refused, said>>

FormNext ==
    \/ \E t \in pickerEntries, selected \in {"", "f"} : OpenNew(t, selected)
    \/ OpenEdit \/ FieldTab \/ FieldBackTab \/ FormLeave \/ FormSave \/ FormEnter
    \/ \E text \in Texts : FormType(text)
    \/ \E flag \in Flags : setItemFlag(flag)

FormSpec == FormInit /\ [][FormNext]_formVars

----------------------------------------------------------------------------
(* Types: the focus is on a field and a form has a value for each.         *)
FormTypeOK ==
    /\ form # NoForm => /\ form.title \in Titles
                        /\ form.focus \in DOMAIN FieldsOf[form.title]
                        /\ DOMAIN form.vals = KeysOf(form.title)
    /\ item.typ \in 0..5

(* No sequence of edits and flags turns an item into one of another kind:  *)
(* a key stays a key although it is a TEXT item like a note, and a file    *)
(* stays a file although it is BINARY like an identity.                    *)
KindKept == [][item # NoItem => KindOf(item') = KindOf(item)]_formVars

(* Whatever is saved, by a form, by a command or by an earlier version, is *)
(* what a form parses next, after any flags set in between.  Two things    *)
(* are lost: the text of a note that is no JSON, once it is flagged, and   *)
(* the emptiness of a note, which is shown as its own JSON.                *)
SavedIsShown ==
    item # NoItem => \A k \in DOMAIN said :
        \/ Parsed(item, k) = said[k]
        \/ k = "content" /\ (flaggedRaw \/ said[k] = "")
=============================================================================
