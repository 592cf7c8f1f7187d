----------------------------- MODULE LocalFiles ----------------------------
(***************************************************************************)
(* The .gkdb file (internal/client/vault/localdb.go) and the keyfile that  *)
(* is its second factor (internal/shared/crypto/keyfile.go).  Save empties *)
(* the file and writes it piece by piece, Load reads it in three parts and *)
(* may run in another process meanwhile; a crash or a full disk may stop   *)
(* the writing anywhere.                                                   *)
(*                                                                         *)
(* What is written is the beginning of one save: [save, cut].  Encryption  *)
(* is symbolic: what a key sealed only the same key opens, whole.          *)
(***************************************************************************)
EXTENDS Naturals, Sequences

CONSTANTS
    Passwords,  \* master passwords
    MaxSaves,   \* bound on the saves begun
    MaxLoads_db,\* bound on the loads begun
    MaxKeyfiles \* bound on the keyfiles generated

ASSUME FilesAssumption ==
    MaxSaves \in Nat /\ MaxLoads_db \in Nat /\ MaxKeyfiles \in Nat

VARIABLES
    db,         \* the file: how much of which save it holds; save 0 is no file
    saves,      \* the saves so far: who can open them, and their size
    writer,     \* the Save call
    reader,     \* the Load call
    keyfile,    \* the content of the keyfile, 0 when there is none
    loadsDone   \* loads begun so far

fileVars == <<db, saves, writer, reader, keyfile, loadsDone>>

(* Where the pieces end: magic 1, version 2, length 3 and KDF parameters   *)
(* 5, length 6 and key check 8, length 9 and body 11.  The sealed pieces   *)
(* are of two units, so that they can be cut.                              *)
End == [head |-> 2, kdf |-> 5, check |-> 8, body |-> 11]

(* Argon2id: another password or another salt is another key; the salt is  *)
(* new with every save.                                                    *)
DeriveKey(pw, salt) == <<pw, salt>>

(* CompositeKey and StretchKey.                                            *)
CompositeKey(pw, kf, salt) == DeriveKey(<<pw, kf>>, salt)

NoLoad == [pc |-> "idle", pw |-> CHOOSE p \in Passwords : TRUE, kf |-> 0, salt |-> 0,
           began |-> 0, whole |-> FALSE, data |-> 0, torn |-> FALSE]

FilesInit ==
    /\ db = [save |-> 0, cut |-> 0]
    /\ saves = <<>>
    /\ writer = "idle"
    /\ reader = NoLoad
    /\ keyfile = 0
    /\ loadsDone = 0

----------------------------------------------------------------------------
(* GenerateKeyfile writes over the one that is there.                      *)
GenerateKeyfile ==
    /\ keyfile < MaxKeyfiles
    /\ keyfile' = keyfile + 1
    /\ UNCHANGED <<db, saves, writer, reader, loadsDone>>

(* Save up to os.OpenFile, which empties the file.                         *)
SaveBegin(pw, kf, big) ==
    /\ writer \in {"idle", "ok", "failed"} /\ Len(saves) < MaxSaves
    /\ saves' = Append(saves, [pw |-> pw, kf |-> kf, big |-> big])
    /\ db' = [save |-> Len(saves) + 1, cut |-> 0]
    /\ writer' = "run"
    /\ UNCHANGED <<reader, keyfile, loadsDone>>

(* Mutant: the error of the last write is not looked at.                   *)
SavePiece_LastIgnored ==
    /\ writer = "run" /\ ~(saves[db.save].big /\ db.cut = End.head)
    /\ \/ db' = [db EXCEPT !.cut = @ + 1]
       \/ db.cut + 1 = End.body /\ UNCHANGED db
    /\ writer' = IF db.cut + 1 = End.body THEN "ok" ELSE "run"
    /\ UNCHANGED <<saves, reader, keyfile, loadsDone>>

SavePiece ==
    /\ writer = "run" /\ ~(saves[db.save].big /\ db.cut = End.head)
    /\ db' = [db EXCEPT !.cut = @ + 1]
    /\ writer' = IF db.cut + 1 = End.body THEN "ok" ELSE "run"
    /\ UNCHANGED <<saves, reader, keyfile, loadsDone>>

(* A write fails, or the lengths do not fit into 32 bits, which is found   *)
(* out when magic and version have been written.                           *)
SaveError ==
    /\ writer = "run"
    /\ saves[db.save].big => db.cut <= End.head
    /\ writer' = "failed"
    /\ UNCHANGED <<db, saves, reader, keyfile, loadsDone>>

(* The process dies.                                                       *)
SaveCrash ==
    /\ writer = "run"
    /\ writer' = "idle"
    /\ UNCHANGED <<db, saves, reader, keyfile, loadsDone>>

----------------------------------------------------------------------------
LoadBegin(pw, kf) ==
    /\ reader.pc \in {"idle", "data", "wrong", "invalid", "missing"} /\ loadsDone < MaxLoads_db
    /\ loadsDone' = loadsDone + 1
    /\ reader' = [NoLoad EXCEPT !.pc = IF db.save = 0 THEN "missing" ELSE "head",
                                !.pw = pw, !.kf = kf, !.began = db.save, !.whole = (writer = "ok")]
    /\ UNCHANGED <<db, saves, writer, keyfile>>

(* The file is cut inside a sealed piece, or is no longer the one opened.  *)
Torn(cutAt) == db.cut = cutAt \/ db.save # reader.began

Result(r) == reader' = r /\ UNCHANGED <<db, saves, writer, keyfile, loadsDone>>

(* Magic, version (which is not looked at) and KDF parameters: a piece     *)
(* that is missing or cut is an invalid file.                              *)
LoadHead ==
    /\ reader.pc = "head"
    /\ Result(IF db.cut < End.kdf THEN [reader EXCEPT !.pc = "invalid"]
              ELSE [reader EXCEPT !.pc = "check", !.salt = db.save])

(* What the file holds now was sealed with the key of its own save.        *)
Opens == LET s == saves[db.save]
         IN  CompositeKey(reader.pw, reader.kf, reader.salt) = CompositeKey(s.pw, s.kf, db.save)

(* A piece read to its end, in part, or not at all: Read reports an error  *)
(* only when there is nothing left, a short piece fails to decrypt.        *)
LoadSealed(end, then) ==
    Result(IF db.cut < end - 1 THEN [reader EXCEPT !.pc = "invalid"]
           ELSE IF db.cut < end \/ ~Opens
           THEN [reader EXCEPT !.pc = "wrong", !.torn = Torn(end - 1)]
           ELSE then)

LoadCheck == reader.pc = "check" /\ LoadSealed(End.check, [reader EXCEPT !.pc = "body"])

LoadBody == reader.pc = "body" /\ LoadSealed(End.body, [reader EXCEPT !.pc = "data", !.data = db.save])

FilesNext ==
    \/ GenerateKeyfile \/ SavePiece \/ SaveError \/ SaveCrash
    \/ LoadHead \/ LoadCheck \/ LoadBody
    \/ \E pw \in Passwords : \E kf \in 0..MaxKeyfiles :
          /\ kf <= keyfile
          /\ LoadBegin(pw, kf) \/ \E big \in BOOLEAN : kf \in {0, keyfile} /\ SaveBegin(pw, kf, big)

FilesSpec == FilesInit /\ [][FilesNext]_fileVars

----------------------------------------------------------------------------
(* Types.                                                                  *)
FilesTypeOK ==
    /\ db.save \in 0..Len(saves) /\ db.cut \in 0..End.body
    /\ Len(saves) <= MaxSaves /\ keyfile \in 0..MaxKeyfiles
    /\ writer \in {"idle", "run", "ok", "failed"}
    /\ reader.pc \in {"idle", "head", "check", "body", "data", "wrong", "invalid", "missing"}

(* What Load returns is one save, finished, opened with its password and   *)
(* its keyfile, even when the file was rewritten while it was read.        *)
LoadIsOneSave ==
    reader.pc = "data" =>
        /\ saves[reader.data].pw = reader.pw /\ saves[reader.data].kf = reader.kf
        /\ ~saves[reader.data].big

(* ErrWrongPassword is about the password or the keyfile, unless a save    *)
(* was cut off inside the key check or the body, or began during the read. *)
WrongMeansWrong ==
    reader.pc = "wrong" /\ ~reader.torn =>
        <<reader.pw, reader.kf>> # <<saves[reader.began].pw, saves[reader.began].kf>>

(* A load begun after Save has returned without an error succeeds with the *)
(* credentials of that save, unless another save has begun meanwhile.      *)
SavedCanBeLoaded ==
    reader.whole /\ db.save = reader.began
      /\ saves[reader.began].pw = reader.pw /\ saves[reader.began].kf = reader.kf
    => reader.pc \notin {"wrong", "invalid", "missing"}

(* What Load answers is true: its data are one save, a wrong password is   *)
(* one, and what was saved can be loaded.                                  *)
LoadTellsTheTruth == LoadIsOneSave /\ WrongMeansWrong /\ SavedCanBeLoaded
=============================================================================
