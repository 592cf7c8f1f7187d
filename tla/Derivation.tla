----------------------------- MODULE Derivation ----------------------------
(***************************************************************************)
(* What the generate commands compute (internal/client/cmd/generate):      *)
(* DerivePassword (internal/shared/crypto/passgen.go), the rejection       *)
(* sampling that turns a key stream into a password, and the key command   *)
(* over GenerateKey and DeriveKeyFromMaster (internal/shared/crypto/       *)
(* keygen.go), which leaves two files behind.                              *)
(*                                                                         *)
(* The code samples 32-bit words.  Words have Bits bits here; the sizes of *)
(* the alphabets are the real ones.  HKDF is a stream of any words that is *)
(* the same whenever it is derived again with the same label.  A seed of   *)
(* the key command is a master password with a realm.                      *)
(***************************************************************************)
EXTENDS Naturals, FiniteSets, Sequences

CONSTANTS
    Bits,           \* width of a sampled word, 32 in the code
    DeriveLengths,  \* the lengths the user may ask for
    MinDerive,      \* 4 in the code
    MaxDerive,      \* words HKDF can deliver, 2040 in the code
    KeyTypes,       \* the values of --type
    Seeds,          \* the master passwords and realms typed for the key command
    NoSeed,         \* no realm given, or a random key
    MaxBlocks,      \* blocks HKDF can deliver, 255 in the code
    MaxKeyRuns,     \* bound on the runs of the key command
    Unread          \* a word not read yet

ASSUME DeriveAssumption ==
    /\ Bits \in Nat /\ 2 ^ Bits > 88        \* the largest alphabet has 88 letters
    /\ DeriveLengths \subseteq Nat /\ MinDerive \in Nat \ {0} /\ MaxDerive \in Nat
    /\ MaxBlocks \in Nat /\ MaxKeyRuns \in Nat
    /\ Unread \notin Nat /\ NoSeed \notin Seeds

VARIABLES
    dp,         \* the DerivePassword call
    stream,     \* the words read so far of the first stream and of the refill
    kc,         \* the run of the key command
    rejected,   \* how many leading blocks of a seed's stream are no P-256 scalar
    priv, pub,  \* the key files
    saidPriv, saidPub,  \* history: the key last reported written to each file
    keyRuns     \* runs of the key command so far

dpVars == <<dp, stream>>
kcVars == <<kc, rejected, priv, pub, saidPriv, saidPub, keyRuns>>
deriveVars == <<dpVars, kcVars>>

----------------------------------------------------------------------------
MaxWord == 2 ^ Bits - 1

Alphabets == [upper : BOOLEAN, digits : BOOLEAN, symbols : BOOLEAN, noAmbiguous : BOOLEAN]

(* len(charset): 26 lower, 26 upper, 10 digits, 26 symbols; l, I, O, 1 and *)
(* 0 are ambiguous.                                                        *)
CharsetLen(a) ==
    LET count(on, n) == IF on THEN n ELSE 0
    IN  26 + count(a.upper, 26) + count(a.digits, 10) + count(a.symbols, 26)
        - (IF a.noAmbiguous THEN 1 + count(a.upper, 2) + count(a.digits, 2) ELSE 0)

(* Mutant: the largest multiple is not cut off.                            *)
Threshold_Plain(n) == MaxWord

(* threshold, computed in unsigned arithmetic.                             *)
Threshold(n) == ((MaxWord - (MaxWord % n)) + 1) % (2 ^ Bits)

Accepts(n, v) == v < Threshold(n)

(* The words tried: the first, the last letter, and the last word.         *)
Edges(n) == {0, n - 1, MaxWord}

Letter(n, v) == v % n

NoCall == [pc |-> "idle"]

NoFile == [type |-> "no file", seed |-> NoSeed, at |-> 0]
Broken == [type |-> "broken", seed |-> NoSeed, at |-> 0]

NoReport == [run |-> 0, type |-> "no file", seed |-> NoSeed]

DeriveInit ==
    /\ dp = NoCall
    /\ stream = [b \in {"base", "refill"} |-> [k \in 0..0 |-> Unread]]
    /\ kc = NoCall
    /\ rejected \in [Seeds -> 0..MaxBlocks]
    /\ priv = NoFile /\ pub = NoFile
    /\ saidPriv = NoReport /\ saidPub = NoReport
    /\ keyRuns = 0

(* The checks, and the first stream: Length words of it.                   *)
DeriveStart(a, length, realm) ==
    /\ dp.pc = "idle"
    /\ IF ~realm \/ length < MinDerive \/ length > MaxDerive
       THEN dp' = [pc |-> "error"] /\ UNCHANGED stream
       ELSE /\ dp' = [pc |-> "loop", n |-> CharsetLen(a), length |-> length,
                      i |-> 0, from |-> "base", result |-> <<>>]
            /\ stream' = [b \in {"base", "refill"} |-> [k \in 0..(length - 1) |-> Unread]]
    /\ UNCHANGED kcVars

(* Where the next word is read: past the end of the stream the refill is   *)
(* derived.  Its label holds the index, which is the length every time.    *)
At(c) == IF c.i >= c.length THEN [from |-> "refill", i |-> 0]
                            ELSE [from |-> c.from, i |-> c.i]

DeriveWord ==
    /\ dp.pc = "loop"
    /\ LET at   == At(dp)
           word == stream[at.from][at.i]
       IN  \E v \in IF word = Unread THEN Edges(dp.n) ELSE {word} :
              LET result == IF Accepts(dp.n, v) THEN Append(dp.result, Letter(dp.n, v)) ELSE dp.result
              IN  /\ stream' = [stream EXCEPT ![at.from][at.i] = v]
                  /\ dp' = [dp EXCEPT !.i = at.i + 1, !.from = at.from, !.result = result,
                               !.pc = IF Len(result) = dp.length THEN "done" ELSE "loop"]
    /\ UNCHANGED kcVars

----------------------------------------------------------------------------
(* The key command.  A key is its type, the seed of a derived one, and     *)
(* what tells keys of one type and seed apart: the run of a random one,    *)
(* the block of a P-256 scalar.                                            *)
Stable == {"raw", "ed25519", "p256", "x25519"}
Rsa    == {"rsa2048", "rsa4096"}

(* GenerateKey: every known type.                                          *)
GenerateKey(t) == {[type |-> t, seed |-> NoSeed, at |-> keyRuns]}

(* DeriveKeyFromMaster: the scalar of P-256 is the first acceptable block. *)
(* rsa.GenerateKey, like ecdsa.GenerateKey, need not read the reader it is *)
(* given: its key is that of the stream or one of this run alone.          *)
DeriveKeyFromMaster(t, s) ==
    {[type |-> t, seed |-> s, at |-> k] :
        k \in IF t \in Rsa THEN {0, keyRuns} ELSE IF t = "p256" THEN {rejected[s]} ELSE {0}}

(* Without --derive the realm is not looked at.                            *)
KeyStart(t, derive, seed, out, pubOut) ==
    /\ kc.pc = "idle" /\ keyRuns < MaxKeyRuns
    /\ keyRuns' = keyRuns + 1
    /\ kc' = IF derive /\ seed = NoSeed THEN NoCall
             ELSE [pc |-> "make", type |-> t, seed |-> IF derive THEN seed ELSE NoSeed,
                   out |-> out, pubOut |-> pubOut, block |-> 0, key |-> NoFile]
    /\ UNCHANGED <<rejected, priv, pub, saidPriv, saidPub, dpVars>>

Derives == kc.seed # NoSeed

(* deriveECDSAP256: a block that is no scalar is skipped; the stream ends. *)
KeyNextBlock ==
    /\ kc.pc = "make" /\ Derives /\ kc.type = "p256" /\ kc.block < rejected[kc.seed]
    /\ kc' = IF kc.block + 1 < MaxBlocks THEN [kc EXCEPT !.block = @ + 1] ELSE NoCall
    /\ UNCHANGED <<rejected, priv, pub, saidPriv, saidPub, keyRuns, dpVars>>

Known(t, derive) == t \in Stable \cup Rsa \cup (IF derive THEN {} ELSE {"p384"})

KeyMake ==
    /\ kc.pc = "make"
    /\ Derives /\ kc.type = "p256" => kc.block = rejected[kc.seed]
    /\ IF Known(kc.type, Derives)
       THEN \E k \in IF Derives THEN DeriveKeyFromMaster(kc.type, kc.seed)
                                ELSE GenerateKey(kc.type) :
               kc' = [kc EXCEPT !.pc = "private", !.key = k]
       ELSE kc' = NoCall
    /\ UNCHANGED <<rejected, priv, pub, saidPriv, saidPub, keyRuns, dpVars>>

(* os.WriteFile truncates first: a failed write leaves the old file or a   *)
(* broken one, and ends the command.                                       *)
Written(old, k, ok) == IF ok THEN {k} ELSE {old, Broken}

(* "... written to": after an error nothing is known of the file.          *)
Report(ok) ==
    IF ok THEN [run |-> keyRuns, type |-> kc.type, seed |-> kc.seed] ELSE NoReport

KeyWritePrivate(ok) ==
    /\ kc.pc = "private"
    /\ IF kc.out THEN priv' \in Written(priv, kc.key, ok) /\ saidPriv' = Report(ok)
                 ELSE UNCHANGED <<priv, saidPriv>>
    /\ kc' = IF kc.out /\ ~ok THEN NoCall ELSE [kc EXCEPT !.pc = "public"]
    /\ UNCHANGED <<rejected, pub, saidPub, keyRuns, dpVars>>

(* Mutant: the error of the second write is ignored.                       *)
KeyWritePublic_ErrorIgnored(ok) ==
    /\ kc.pc = "public"
    /\ IF kc.type # "raw" /\ kc.pubOut
       THEN pub' \in Written(pub, kc.key, ok) /\ saidPub' = Report(TRUE)
       ELSE UNCHANGED <<pub, saidPub>>
    /\ kc' = NoCall
    /\ UNCHANGED <<rejected, priv, saidPriv, keyRuns, dpVars>>

(* A raw key has no public half: the old public file stays.                *)
KeyWritePublic(ok) ==
    /\ kc.pc = "public"
    /\ IF kc.type # "raw" /\ kc.pubOut
       THEN pub' \in Written(pub, kc.key, ok) /\ saidPub' = Report(ok)
       ELSE UNCHANGED <<pub, saidPub>>
    /\ kc' = NoCall
    /\ UNCHANGED <<rejected, priv, saidPriv, keyRuns, dpVars>>

----------------------------------------------------------------------------
(* generate derive, with any switches: nothing is read but the password.   *)
newDetermPasswordCmd ==
    \E a \in Alphabets, n \in DeriveLengths, r \in BOOLEAN : DeriveStart(a, n, r)

DeriveNext == newDetermPasswordCmd \/ DeriveWord

KeyNext ==
    \/ \E t \in KeyTypes, s \in Seeds \cup {NoSeed}, d, o, p \in BOOLEAN : KeyStart(t, d, s, o, p)
    \/ KeyNextBlock \/ KeyMake
    \/ \E ok \in BOOLEAN : KeyWritePrivate(ok) \/ KeyWritePublic(ok)

(* The two commands are separate processes that share nothing.             *)
DeriveFairness == WF_deriveVars(DeriveWord)

DeriveSpec == DeriveInit /\ [][DeriveNext]_deriveVars /\ DeriveFairness

(* The key command, run again and again on the same two files.             *)
KeySpec == DeriveInit /\ [][KeyNext]_deriveVars

----------------------------------------------------------------------------
Keys == [type : KeyTypes, seed : Seeds \cup {NoSeed}, at : Nat]

Reports == [run : Nat, type : KeyTypes, seed : Seeds \cup {NoSeed}]

(* Types; the loop never reads past the stream, and every character is one *)
(* of the alphabet.                                                        *)
DeriveTypeOK ==
    /\ dp.pc \in {"idle", "error", "loop", "done"}
    /\ dp.pc \in {"loop", "done"} =>
          /\ dp.i \in 0..dp.length
          /\ \A b \in {"base", "refill"} : DOMAIN stream[b] = 0..(dp.length - 1)
          /\ dp.result \in Seq(0..(dp.n - 1)) /\ Len(dp.result) <= dp.length
    /\ kc.pc \in {"idle", "make", "private", "public"}
    /\ {priv, pub} \subseteq Keys \cup {NoFile, Broken}
    /\ {saidPriv, saidPub} \subseteq Reports \cup {NoReport}
    /\ keyRuns \in 0..MaxKeyRuns

(* How many words select letter j.                                         *)
Preimages(n, j) == Cardinality({v \in 0..MaxWord : Accepts(n, v) /\ Letter(n, v) = j})

(* The sampling is fair but for one word: all letters of an alphabet are   *)
(* selected by equally many words, except the first one, which may have    *)
(* one more since the threshold lies one above a multiple of the length.   *)
FairButForOneWord ==
    dp.pc = "loop" /\ dp.i = 0 /\ dp.from = "base" =>
        LET least == Preimages(dp.n, dp.n - 1)
        IN  /\ \A j \in 1..(dp.n - 1) : Preimages(dp.n, j) = least
            /\ Preimages(dp.n, 0) \in {least, least + 1}

(* DerivePassword ends, unless the refill has no word it accepts; the      *)
(* refill is the same every time, so then it runs forever.                 *)
Barren == \A k \in DOMAIN stream["refill"] :
             stream["refill"][k] # Unread /\ ~Accepts(dp.n, stream["refill"][k])

DeriveEndsUnlessBarren == (dp.pc = "loop") ~> (dp.pc = "done" \/ Barren)

(* The two halves the user was told of are of one key: they come from one  *)
(* run, or were derived from the same seed with one of the stable types.   *)
ToldOfOneKey ==
    /\ saidPriv # NoReport /\ saidPub # NoReport
    /\ \/ saidPriv.run = saidPub.run
       \/ /\ saidPriv.type = saidPub.type /\ saidPriv.type \in Stable
          /\ saidPriv.seed = saidPub.seed /\ saidPriv.seed # NoSeed

(* What the key command last reported of its two files can be relied on:   *)
(* whatever writes failed in between, for whichever seeds, types and files *)
(* it was run since, two files reported written from one run, or from the  *)
(* same seed in different runs, are the two halves of one key.             *)
ReportedPairMatches == ToldOfOneKey => priv \in Keys /\ pub = priv
=============================================================================
