-------------------------- MODULE ScreensProofs ----------------------------
(***************************************************************************)
(* Proofs about the screens of the terminal UI that share no state:        *)
(* sign-in (AuthFlow), the list and the detail of the vault (VaultList),   *)
(* the password generator (PassGen) and the forms (ItemForm).  Each screen *)
(* has its specification, its inductive invariant, one lemma per group of  *)
(* actions and its theorems.  The last section puts the screens together   *)
(* as MCScreens does for TLC.                                              *)
(*                                                                         *)
(* The theorems hold for every number of commands and workers, every       *)
(* listing, every text and every bound of the sliders.                     *)
(***************************************************************************)
EXTENDS MCScreens, DataLemmas, FiniteSetTheorems

-----------------------------------------------------------------------------
(* Sign-in: Spec of AuthFlow.                                              *)

(* Both tokens of a session have been stored in the config.                *)
TokensThere == cfg.access # None /\ cfg.refresh # None

(* The writes of doLogin come in order: access token, refresh token, save; *)
(* the message that opens the vault comes after all of them.  A refresh is *)
(* asked for with a token.                                                 *)
TokensWritten ==
    /\ \A c \in Cmds :
          /\ cmd[c].pc = "renew" => cmd[c].token # None
          /\ cmd[c].pc = "refresh" => cfg.access # None
          /\ cmd[c].pc = "save" \/ cmd[c].msg = "ok" => TokensThere
    /\ ready => TokensThere

(* A sign-in is between its two assignments to the config, or before its   *)
(* save.                                                                   *)
SignsIn(c) == cmd[c].pc \in {"refresh", "save"}

(* It, or a refresh between its assignment and its save.                   *)
Writes(c) == cmd[c].pc \in {"refresh", "save", "resave"}

(* As long as no two commands have written at the same time, the tokens in *)
(* memory are those of the one writer, as far as it has come, and a file   *)
(* holds a pair.                                                           *)
OneWriter ==
    ~raced =>
        /\ \A c, d \in Cmds : Writes(c) /\ Writes(d) => c = d
        /\ \A c \in Cmds :
              /\ SignsIn(c) => cfg.access = c
              /\ cmd[c].pc = "save" => cfg.refresh = c
        /\ (\A c \in Cmds : ~SignsIn(c)) => cfg.access = cfg.refresh
        /\ disk.access = disk.refresh

(* The inductive invariant of the sign-in screens.  SignedInWhole says     *)
(* nothing of a command half way through its writes; TokensWritten and     *)
(* OneWriter do.                                                           *)
FlowInv == TypeOK /\ FormFitsUntilStrayError /\ TokensWritten /\ OneWriter

(* Where a command can be.                                                 *)
CommandPlaces == {"unused", "call", "renew", "resave", "again", "access", "refresh", "save", "msg", "done"}

(* The commands of the model, as TypeOK says.                              *)
CommandRecords ==
    [kind : {"none", "login", "register", "mfa", "reject"}, from : Steps,
     pc : CommandPlaces, msg : {"none", "err", "mfa", "ok"}, token : Cmds \cup {None}]

(* A step of one command leaves the others alone.                          *)
LEMMA CommandMoves ==
    ASSUME cmd \in [Cmds -> CommandRecords], NEW c \in Cmds,
           NEW p \in CommandPlaces,
           NEW m \in {"none", "err", "mfa", "ok"},
           cmd' = [cmd EXCEPT ![c].pc = p, ![c].msg = m]
    PROVE  /\ cmd' \in [Cmds -> CommandRecords]
           /\ cmd'[c].pc = p /\ cmd'[c].msg = m /\ cmd'[c].token = cmd[c].token
           /\ \A d \in Cmds \ {c} : cmd'[d] = cmd[d]
BY ZenonT(30) DEF CommandRecords

(* No command has run and no token is stored.                              *)
LEMMA FlowInitial == Init => FlowInv
<1> SUFFICES ASSUME Init PROVE FlowInv
  OBVIOUS
<1>1. \A c \in Cmds : cmd[c] = Unused
  BY DEF Init
<1>2. TypeOK
  <2>1. Unused \in CommandRecords
    BY DEF Unused, CommandRecords, CommandPlaces, Steps
  <2>2. cmd \in [Cmds -> CommandRecords]
    BY <2>1 DEF Init
  <2>3. NoTokens \in [access : Cmds \cup {None}, refresh : Cmds \cup {None}]
    BY DEF NoTokens
  <2>4. loading \in BOOLEAN /\ ready \in BOOLEAN /\ stray \in BOOLEAN /\ raced \in BOOLEAN /\ unopened \in BOOLEAN
    BY Zenon DEF Init
  <2>5. cfg \in [access : Cmds \cup {None}, refresh : Cmds \cup {None}] /\ disk = cfg
    BY <2>3 DEF Init
  <2>6. /\ step \in Steps /\ before \in {"server", "login", "register"}
        /\ inputs \in {0, 1, 2, 4} /\ focus \in 0..3
        /\ session \in Cmds \cup {None} /\ life \in {"run", "quit", "panic"}
    BY DEF Init, Steps
  <2> QED BY <2>2, <2>4, <2>5, <2>6 DEF TypeOK, CommandRecords, CommandPlaces
<1>3. FormFitsUntilStrayError
  BY DEF Init, FormFitsUntilStrayError, Forms
<1>4. TokensWritten /\ OneWriter
  BY <1>1 DEF Init, TokensWritten, OneWriter, Writes, SignsIn, NoTokens, Unused
<1> QED BY <1>2, <1>3, <1>4 DEF FlowInv

(* Show keeps the form invariant when it shows a form with its own inputs, *)
(* or after a stray error.                                                 *)
LEMMA ScreenStep ==
    ASSUME TypeOK, FormFitsUntilStrayError,
           NEW s \in Steps, NEW n \in {0, 1, 2, 4}, NEW f \in 0..3, Show(s, n, f),
           s = "mfa" => n = 1,
           ~stray' => (s \in Forms => n = InputsOf[s] /\ f < n)
    PROVE  /\ step' \in Steps /\ inputs' \in {0, 1, 2, 4} /\ focus' \in 0..3
           /\ life' \in {"run", "quit", "panic"}
           /\ FormFitsUntilStrayError'
BY DEF Show, Renders, Steps, Forms, InputsOf, FormFitsUntilStrayError, TypeOK

(* Tab and shift-tab stay among the inputs of a form.                      *)
LEMMA Circle ==
    ASSUME NEW n \in {0, 1, 2, 4}, NEW f \in 0..3, f < n, NEW d \in {1, n - 1}
    PROVE  (f + d) % n \in 0..3 /\ (f + d) % n < n
<1>1. CASE n = 1
  BY <1>1
<1>2. CASE n = 2
  BY <1>2
<1>3. CASE n = 4
  BY <1>3
<1> QED BY <1>1, <1>2, <1>3

(* A key that starts no command disturbs the screen only.                  *)
LEMMA KeyStep ==
    ASSUME FlowInv, UNCHANGED <<before, session, loading, quiet>>, FormFitsUntilStrayError',
           step' \in Steps, inputs' \in {0, 1, 2, 4}, focus' \in 0..3,
           life' \in {"run", "quit", "panic"}
    PROVE  FlowInv'
BY DEF FlowInv, TypeOK, TokensWritten, TokensThere, OneWriter, Writes, SignsIn, quiet, conf

(* The keys that start no command.                                         *)
LEMMA FlowKeys ==
    ASSUME FlowInv,
           CtrlC \/ ServerEnter \/ MenuEsc \/ OpenLogin \/ OpenRegister
             \/ FormEsc \/ FormTab \/ FormEnterNext
    PROVE  FlowInv'
<1>0. TypeOK /\ FormFitsUntilStrayError
  BY DEF FlowInv
<1>t. step \in Steps /\ inputs \in {0, 1, 2, 4} /\ focus \in 0..3
  BY <1>0 DEF TypeOK
<1>1. CASE CtrlC
  <2>1. FormFitsUntilStrayError'
    BY <1>0, <1>1 DEF CtrlC, FormFitsUntilStrayError, screen, quiet
  <2> QED BY <1>1, <1>t, <2>1, KeyStep DEF CtrlC, screen
<1>2. CASE ServerEnter
  <2>1. Show("menu", inputs, focus) /\ UNCHANGED <<before, session, loading, quiet>>
    BY <1>2 DEF ServerEnter
  <2> QED BY <2>1, <1>0, <1>t, ScreenStep, KeyStep DEF Steps, Forms
<1>3. CASE MenuEsc
  <2>1. Show("server", inputs, focus) /\ UNCHANGED <<before, session, loading, quiet>>
    BY <1>3 DEF MenuEsc
  <2> QED BY <2>1, <1>0, <1>t, ScreenStep, KeyStep DEF Steps, Forms
<1>4. CASE OpenLogin
  <2>1. Show("login", 2, 0) /\ UNCHANGED <<before, session, loading, quiet>>
    BY <1>4 DEF OpenLogin, InputsOf
  <2> QED BY <2>1, <1>0, ScreenStep, KeyStep DEF Steps, InputsOf
<1>5. CASE OpenRegister
  <2>1. Show("register", 4, 0) /\ UNCHANGED <<before, session, loading, quiet>>
    BY <1>5 DEF OpenRegister, InputsOf
  <2> QED BY <2>1, <1>0, ScreenStep, KeyStep DEF Steps, InputsOf
<1>6. CASE FormEsc
  <2>1. Show("menu", 0, focus) /\ UNCHANGED <<before, session, loading, quiet>>
    BY <1>6 DEF FormEsc
  <2> QED BY <2>1, <1>0, <1>t, ScreenStep, KeyStep DEF Steps, Forms
<1>7. CASE FormTab \/ FormEnterNext
  <2>1. /\ step \in {"login", "register"}
        /\ UNCHANGED <<before, session, loading, quiet>>
        /\ \E d \in {1, inputs - 1} :
              IF focus < inputs THEN Show(step, inputs, (focus + d) % inputs) ELSE Panic
    BY <1>7 DEF FormTab, FormEnterNext, Key
  <2>2. PICK d \in {1, inputs - 1} :
              IF focus < inputs THEN Show(step, inputs, (focus + d) % inputs) ELSE Panic
    BY <2>1
  <2>s. stray' = stray
    BY <2>1 DEF quiet
  <2>3. CASE focus < inputs
    <3>1. (focus + d) % inputs \in 0..3 /\ (focus + d) % inputs < inputs
      BY <1>t, <2>3, Circle
    <3>2. ~stray => inputs = InputsOf[step]
      BY <1>0, <2>1 DEF FormFitsUntilStrayError, Forms
    <3>3. Show(step, inputs, (focus + d) % inputs)
      BY <2>2, <2>3
    <3>4. PICK f \in 0..3 : f = (focus + d) % inputs
      BY <3>1
    <3>5. PICK s \in Steps, n \in {0, 1, 2, 4} : s = step /\ n = inputs
      BY <1>t
    <3>6. Show(s, n, f)
      BY <3>3, <3>4, <3>5
    <3> QED BY <3>1, <3>2, <3>4, <3>5, <3>6, <1>0, <2>1, <2>s, ScreenStep, KeyStep
  <2>4. CASE ~(focus < inputs)
    <3>1. Panic /\ stray
      BY <2>2, <2>4, <1>0, <2>1 DEF FormFitsUntilStrayError, Forms
    <3>2. FormFitsUntilStrayError'
      BY <3>1, <2>s, <1>0 DEF Panic, FormFitsUntilStrayError
    <3> QED BY <3>1, <3>2, <2>1, <1>t, KeyStep DEF Panic
  <2> QED BY <2>3, <2>4
<1> QED BY <1>1, <1>2, <1>3, <1>4, <1>5, <1>6, <1>7

(* Starting a command disturbs the screen and one unused command.          *)
LEMMA SubmitStep ==
    ASSUME FlowInv, NEW c \in Cmds, NEW k \in {"login", "register", "mfa", "reject"}, cmd[c] = Unused,
           cmd' = [cmd EXCEPT ![c] = [Unused EXCEPT !.kind = k, !.from = step, !.pc = "call"]],
           UNCHANGED <<session, ready, conf, stray, unopened>>,
           before' \in {"server", "login", "register"}, loading' \in BOOLEAN,
           FormFitsUntilStrayError',
           step' \in Steps, inputs' \in {0, 1, 2, 4}, focus' \in 0..3,
           life' \in {"run", "quit", "panic"}
    PROVE  FlowInv'
<1>0. cmd' \in [Cmds -> CommandRecords]
  BY DEF FlowInv, TypeOK, CommandRecords, CommandPlaces, Unused, Steps
<1>1. TypeOK'
  BY <1>0 DEF FlowInv, TypeOK, conf, CommandRecords, CommandPlaces
<1>2. TokensWritten'
  BY DEF FlowInv, TypeOK, TokensWritten, TokensThere, conf, Unused
<1>3. \A d \in Cmds : /\ cmd'[d].pc = "save" => cmd[d].pc = "save" /\ d # c
                      /\ Writes(d)' = Writes(d) /\ SignsIn(d)' = SignsIn(d)
  BY DEF FlowInv, TypeOK, Writes, SignsIn, Unused
<1>4. OneWriter'
  BY <1>3 DEF FlowInv, OneWriter, conf
<1> QED BY <1>1, <1>2, <1>4 DEF FlowInv

(* The keys that start a command.                                          *)
LEMMA FlowSubmits ==
    ASSUME FlowInv, FormSubmit \/ MFASubmit
    PROVE  FlowInv'
<1>0. TypeOK /\ FormFitsUntilStrayError
  BY DEF FlowInv
<1>t. step \in Steps /\ inputs \in {0, 1, 2, 4} /\ focus \in 0..3
  BY <1>0 DEF TypeOK
<1>1. CASE MFASubmit
  <2>1. PICK c \in Cmds :
           /\ cmd[c] = Unused
           /\ cmd' = [cmd EXCEPT ![c] = [Unused EXCEPT !.kind = "mfa", !.from = step, !.pc = "call"]]
    BY <1>1 DEF MFASubmit, Start
  <2>2. /\ UNCHANGED <<before, session, ready, conf, stray, unopened>>
        /\ Show(step, inputs, focus) /\ step = "mfa" /\ loading' \in BOOLEAN
    BY <1>1 DEF MFASubmit, Key
  <2>3. inputs = 1 /\ (~stray => focus < inputs)
    BY <1>0, <2>2 DEF FormFitsUntilStrayError, InputsOf, Forms
  <2>4. PICK f \in 0..3 : f = focus
    BY <1>t
  <2>5. Show("mfa", 1, f)
    BY <2>2, <2>3, <2>4
  <2>6. /\ step' \in Steps /\ inputs' \in {0, 1, 2, 4} /\ focus' \in 0..3
        /\ life' \in {"run", "quit", "panic"}
        /\ FormFitsUntilStrayError'
    BY <2>2, <2>3, <2>4, <2>5, <1>0, ScreenStep DEF Steps, InputsOf
  <2>7. before' \in {"server", "login", "register"}
    BY <1>0, <2>2 DEF TypeOK
  <2> QED BY <2>1, <2>2, <2>6, <2>7, SubmitStep
<1>2. CASE FormSubmit
  <2>1. /\ step \in {"login", "register"} /\ before' = step /\ loading' \in BOOLEAN
        /\ UNCHANGED <<session, ready, conf, stray, unopened>>
    BY <1>2 DEF FormSubmit, Key
  <2>2. CASE inputs >= InputsOf[step]
    <3>1. /\ Show(step, inputs, focus)
          /\ \E k \in {"login", "register", "reject"} : Start(k)
      BY <1>2, <2>1, <2>2, <1>t DEF FormSubmit, InputsOf
    <3>2. PICK k \in {"login", "register", "reject"}, c \in Cmds :
             /\ cmd[c] = Unused
             /\ cmd' = [cmd EXCEPT ![c] = [Unused EXCEPT !.kind = k, !.from = step, !.pc = "call"]]
      BY <3>1 DEF Start
    <3>3. PICK s \in Steps, n \in {0, 1, 2, 4}, f \in 0..3 : s = step /\ n = inputs /\ f = focus
      BY <1>t
    <3>4. Show(s, n, f)
      BY <3>1, <3>3
    <3>5. (s = "mfa" => n = 1) /\ (~stray => (s \in Forms => n = InputsOf[s] /\ f < n))
      BY <1>0, <3>3 DEF FormFitsUntilStrayError, InputsOf
    <3>6. /\ step' \in Steps /\ inputs' \in {0, 1, 2, 4} /\ focus' \in 0..3
          /\ life' \in {"run", "quit", "panic"}
          /\ FormFitsUntilStrayError'
      BY <2>1, <3>4, <3>5, <1>0, ScreenStep
    <3> QED BY <2>1, <3>2, <3>6, SubmitStep
  <2>3. CASE ~(inputs >= InputsOf[step])
    <3>1. Panic /\ UNCHANGED cmd /\ stray
      BY <1>2, <2>1, <2>3, <1>0, <1>t DEF FormSubmit, InputsOf, FormFitsUntilStrayError, Forms
    <3>2. FormFitsUntilStrayError'
      BY <3>1, <2>1, <1>0 DEF Panic, FormFitsUntilStrayError
    <3>3. TypeOK'
      BY <3>1, <2>1, <1>0 DEF Panic, TypeOK, conf
    <3>4. TokensWritten' /\ OneWriter'
      BY <3>1, <2>1 DEF FlowInv, TokensWritten, TokensThere, OneWriter, Writes, SignsIn, conf
    <3> QED BY <3>2, <3>3, <3>4 DEF FlowInv
  <2> QED BY <2>2, <2>3
<1> QED BY <1>1, <1>2

(* A command that neither begins nor ends its writes moves on.             *)
LEMMA FlowMoves ==
    ASSUME FlowInv, NEW c \in Cmds, UNCHANGED <<screen, ready, life, stray, unopened, conf>>,
           cmd' \in [Cmds -> CommandRecords],
           \A d \in Cmds \ {c} : cmd'[d] = cmd[d],
           ~Writes(c), ~Writes(c)',
           cmd'[c].pc = "renew" => cmd'[c].token # None,
           cmd'[c].msg = "ok" => cmd[c].msg = "ok"
    PROVE  FlowInv'
<1>0. TypeOK /\ FormFitsUntilStrayError /\ TokensWritten /\ OneWriter
  BY DEF FlowInv
<1>1. TypeOK'
  BY <1>0 DEF TypeOK, screen, conf, CommandRecords, CommandPlaces
<1>2. FormFitsUntilStrayError'
  BY <1>0 DEF FormFitsUntilStrayError, screen
<1>3. TokensWritten'
  BY <1>0 DEF TokensWritten, TokensThere, Writes, conf
<1>4. \A d \in Cmds : /\ cmd'[d].pc = "save" => cmd[d].pc = "save"
                      /\ Writes(d)' = Writes(d) /\ SignsIn(d)' = SignsIn(d)
  BY DEF Writes, SignsIn
<1>5. OneWriter'
  BY <1>0, <1>4 DEF OneWriter, conf
<1> QED BY <1>1, <1>2, <1>3, <1>5 DEF FlowInv

(* What the server answers to the first and the second try, and a refusal  *)
(* that leads to a refresh.                                                *)
LEMMA FlowCalls ==
    ASSUME FlowInv, NEW c \in Cmds, Reply(c) \/ SecondTry(c) \/ RefreshAsked(c)
    PROVE  FlowInv'
<1>0. TypeOK /\ cmd \in [Cmds -> CommandRecords]
  BY DEF FlowInv, TypeOK, CommandRecords, CommandPlaces
<1>1. UNCHANGED <<screen, ready, life, stray, unopened, conf>> /\ cmd[c].pc \in {"call", "again"}
  BY DEF Reply, SecondTry, Outcome, RefreshAsked
<1>2. CASE Reply(c) \/ SecondTry(c)
  <2>1. \E p \in {"msg", "access"}, m \in {"none", "err", "mfa", "ok"} :
              /\ m # "ok" \/ m = cmd[c].msg
              /\ cmd' = [cmd EXCEPT ![c].pc = p, ![c].msg = m]
    BY <1>2, <1>0 DEF Reply, SecondTry, Outcome, Answer, TypeOK
  <2>2. PICK p \in {"msg", "access"}, m \in {"none", "err", "mfa", "ok"} :
              /\ m # "ok" \/ m = cmd[c].msg
              /\ cmd' = [cmd EXCEPT ![c].pc = p, ![c].msg = m]
    BY <2>1
  <2>p. p \in CommandPlaces
    BY DEF CommandPlaces
  <2>3. /\ cmd' \in [Cmds -> CommandRecords] /\ cmd'[c].pc = p /\ cmd'[c].msg = m
        /\ \A d \in Cmds \ {c} : cmd'[d] = cmd[d]
    BY <1>0, <2>2, <2>p, CommandMoves
  <2> QED BY <1>1, <2>2, <2>3, FlowMoves DEF Writes
<1>3. CASE RefreshAsked(c)
  <2>1. cmd' = [cmd EXCEPT ![c].pc = "renew", ![c].token = cfg.refresh] /\ cfg.refresh # None
    BY <1>3 DEF RefreshAsked
  <2>2. cfg.refresh \in Cmds \cup {None}
    BY <1>0 DEF TypeOK
  <2>3. /\ cmd' \in [Cmds -> CommandRecords]
        /\ cmd'[c].pc = "renew" /\ cmd'[c].token = cfg.refresh /\ cmd'[c].msg = cmd[c].msg
        /\ \A d \in Cmds \ {c} : cmd'[d] = cmd[d]
    BY <1>0, <2>1, <2>2, ZenonT(30) DEF CommandRecords, CommandPlaces
  <2> QED BY <1>1, <2>1, <2>3, FlowMoves DEF Writes
<1> QED BY <1>2, <1>3

(* The refresh of an access token and its save.                            *)
LEMMA FlowRenews ==
    ASSUME FlowInv, NEW c \in Cmds, Renewed(c) \/ RenewedSave(c)
    PROVE  FlowInv'
<1>0. TypeOK /\ FormFitsUntilStrayError /\ TokensWritten /\ OneWriter
  BY DEF FlowInv
<1>t. cmd \in [Cmds -> CommandRecords]
  BY <1>0 DEF TypeOK, CommandRecords, CommandPlaces
<1>1. UNCHANGED <<screen, ready, life, stray, unopened>>
  BY DEF Renewed, RenewedSave
<1>2. FormFitsUntilStrayError'
  BY <1>0, <1>1 DEF FormFitsUntilStrayError, screen
<1>3. CASE Renewed(c) /\ UNCHANGED conf /\ cmd' = [cmd EXCEPT ![c].pc = "msg", ![c].msg = "err"]
  <2>1. /\ cmd' \in [Cmds -> CommandRecords] /\ cmd'[c].pc = "msg" /\ cmd'[c].msg = "err"
        /\ \A d \in Cmds \ {c} : cmd'[d] = cmd[d]
    BY <1>3, <1>t, CommandMoves DEF CommandPlaces
  <2>2. cmd[c].pc = "renew"
    BY <1>3 DEF Renewed
  <2> QED BY <1>1, <1>3, <2>1, <2>2, FlowMoves DEF Writes
<1>4. CASE /\ Renewed(c)
           /\ cfg' = [cfg EXCEPT !.access = cmd[c].token]
           /\ raced' = (raced \/ Writing \/ cfg.refresh # cmd[c].token)
           /\ cmd' = [cmd EXCEPT ![c].pc = "resave"]
           /\ UNCHANGED disk
  <2>1. cmd[c].pc = "renew" /\ cmd[c].token \in Cmds /\ raced' \in BOOLEAN
    BY <1>0, <1>4 DEF Renewed, TokensWritten, TypeOK
  <2>2. /\ cfg'.access = cmd[c].token /\ cfg'.refresh = cfg.refresh
        /\ cfg' \in [access : Cmds \cup {None}, refresh : Cmds \cup {None}]
    BY <1>0, <1>4, <2>1 DEF TypeOK
  <2>3. /\ cmd'[c].pc = "resave" /\ cmd'[c].msg = cmd[c].msg
        /\ \A d \in Cmds \ {c} : cmd'[d] = cmd[d]
    BY <1>t, <1>4
  <2>4. cmd' \in [Cmds -> CommandRecords]
    BY <1>t, <1>4, ZenonT(30) DEF CommandRecords, CommandPlaces
  <2>5. TypeOK'
    BY <1>0, <1>1, <1>4, <2>1, <2>2, <2>4 DEF TypeOK, screen, CommandRecords, CommandPlaces
  <2>6. TokensWritten'
    BY <1>0, <1>1, <2>1, <2>2, <2>3, FlowAssumption DEF TokensWritten, TokensThere
  <2>7. OneWriter'
    <3> SUFFICES ASSUME ~raced' PROVE OneWriter'
      BY DEF OneWriter
    <3>1. ~raced /\ cfg.refresh = cmd[c].token /\ \A d \in Cmds : ~Writes(d)
      BY <1>4 DEF Writing, Writes
    <3>2. \A d \in Cmds : ~SignsIn(d)' /\ cmd'[d].pc # "save" /\ (Writes(d)' => d = c)
      BY <2>3, <3>1 DEF Writes, SignsIn
    <3>3. cfg'.access = cfg'.refresh /\ disk'.access = disk'.refresh
      BY <1>0, <1>4, <2>2, <3>1 DEF OneWriter
    <3> QED BY <3>2, <3>3 DEF OneWriter
  <2> QED BY <1>2, <2>5, <2>6, <2>7 DEF FlowInv
<1>5. CASE RenewedSave(c)
  <2>1. /\ cmd[c].pc = "resave" /\ disk' \in {cfg, disk} /\ raced' = raced /\ cfg' = cfg
        /\ cmd' = [cmd EXCEPT ![c].pc = "again"]
    BY <1>5 DEF RenewedSave
  <2>2. /\ cmd'[c].pc = "again" /\ cmd'[c].msg = cmd[c].msg
        /\ \A d \in Cmds \ {c} : cmd'[d] = cmd[d]
    BY <1>t, <2>1
  <2>3. cmd' \in [Cmds -> CommandRecords]
    BY <1>t, <2>1, ZenonT(30) DEF CommandRecords, CommandPlaces
  <2>4. TypeOK'
    BY <1>0, <1>1, <2>1, <2>3 DEF TypeOK, screen, CommandRecords, CommandPlaces
  <2>5. TokensWritten'
    BY <1>0, <1>1, <2>1, <2>2 DEF TokensWritten, TokensThere
  <2>6. /\ Writes(c)
        /\ \A d \in Cmds : /\ cmd'[d].pc = "save" => cmd[d].pc = "save"
                           /\ Writes(d)' = (Writes(d) /\ d # c)
                           /\ SignsIn(d)' = SignsIn(d)
                           /\ SignsIn(d) => Writes(d) /\ d # c
    BY <2>1, <2>2 DEF Writes, SignsIn
  <2>7. OneWriter'
    <3> SUFFICES ASSUME ~raced PROVE OneWriter'
      BY <2>1 DEF OneWriter
    <3>1. \A d \in Cmds : ~SignsIn(d) /\ ~Writes(d)'
      BY <1>0, <2>6 DEF OneWriter
    <3>2. cfg.access = cfg.refresh /\ disk'.access = disk'.refresh
      BY <1>0, <2>1, <3>1 DEF OneWriter
    <3> QED BY <2>1, <2>6, <3>1, <3>2 DEF OneWriter, SignsIn
  <2> QED BY <1>2, <2>4, <2>5, <2>7 DEF FlowInv
<1> QED BY <1>3, <1>4, <1>5 DEF Renewed, Answer

(* The command's own steps: the two assignments, the save.                 *)
LEMMA FlowWrites ==
    ASSUME FlowInv, NEW c \in Cmds, WriteAccess(c) \/ WriteRefresh(c) \/ SaveConfig(c)
    PROVE  FlowInv'
<1>0. TypeOK /\ FormFitsUntilStrayError /\ TokensWritten /\ OneWriter /\ c # None
  BY FlowAssumption DEF FlowInv
<1>1. UNCHANGED <<screen, ready, life, stray, unopened>>
  BY DEF WriteAccess, WriteRefresh, SaveConfig
<1>2. FormFitsUntilStrayError'
  BY <1>0, <1>1 DEF FormFitsUntilStrayError, screen
<1>4. CASE WriteAccess(c)
  <2>1. /\ cmd[c].pc = "access" /\ disk' = disk
        /\ cfg' = [cfg EXCEPT !.access = c]
        /\ cmd' = [cmd EXCEPT ![c].pc = "refresh"]
        /\ raced' = (raced \/ \E d \in Cmds : Writes(d))
    BY <1>4 DEF WriteAccess, Writing, Writes
  <2>2. /\ cfg'.access = c /\ cfg'.refresh = cfg.refresh /\ raced' \in BOOLEAN
        /\ cfg' \in [access : Cmds \cup {None}, refresh : Cmds \cup {None}]
    BY <1>0, <2>1 DEF TypeOK
  <2>3. TypeOK'
    BY <1>0, <1>1, <2>1, <2>2 DEF TypeOK, screen
  <2>4. TokensWritten'
    BY <1>0, <1>1, <2>1, <2>2 DEF TypeOK, TokensWritten, TokensThere
  <2>5. /\ SignsIn(c)'
        /\ \A d \in Cmds : /\ cmd'[d].pc = "save" => Writes(d)
                           /\ Writes(d)' = (Writes(d) \/ d = c)
                           /\ SignsIn(d)' => Writes(d)'
    BY <1>0, <2>1 DEF TypeOK, Writes, SignsIn
  <2>6. OneWriter'
    BY <1>0, <2>1, <2>2, <2>5 DEF OneWriter
  <2> QED BY <1>2, <2>3, <2>4, <2>6 DEF FlowInv
<1>5. CASE WriteRefresh(c)
  <2>1. /\ cmd[c].pc = "refresh" /\ disk' = disk /\ raced' = raced
        /\ cfg' = [cfg EXCEPT !.refresh = c]
        /\ cmd' = [cmd EXCEPT ![c].pc = "save"]
    BY <1>5 DEF WriteRefresh
  <2>2. /\ cfg'.refresh = c /\ cfg'.access = cfg.access
        /\ cfg' \in [access : Cmds \cup {None}, refresh : Cmds \cup {None}]
    BY <1>0, <2>1 DEF TypeOK
  <2>3. TypeOK'
    BY <1>0, <1>1, <2>1, <2>2 DEF TypeOK, screen
  <2>4. TokensWritten'
    BY <1>0, <1>1, <2>1, <2>2 DEF TypeOK, TokensWritten, TokensThere
  <2>5. /\ Writes(c) /\ SignsIn(c) /\ SignsIn(c)'
        /\ \A d \in Cmds : /\ cmd'[d].pc = "save" => Writes(d)
                           /\ Writes(d)' = Writes(d) /\ (SignsIn(d)' => Writes(d))
    BY <1>0, <2>1 DEF TypeOK, Writes, SignsIn
  <2>6. OneWriter'
    <3> SUFFICES ASSUME ~raced PROVE OneWriter'
      BY <2>1 DEF OneWriter
    <3>1. \A d \in Cmds : Writes(d) => d = c
      BY <1>0, <2>5 DEF OneWriter
    <3>2. cfg'.access = c
      BY <1>0, <2>2, <2>5 DEF OneWriter
    <3>3. disk.access = disk.refresh
      BY <1>0 DEF OneWriter
    <3> QED BY <2>1, <2>2, <2>5, <3>1, <3>2, <3>3 DEF OneWriter
  <2> QED BY <1>2, <2>3, <2>4, <2>6 DEF FlowInv
<1>6. CASE SaveConfig(c)
  <2>1. /\ cmd[c].pc = "save" /\ disk' \in {cfg, disk} /\ raced' = raced /\ cfg' = cfg
        /\ cmd' = [cmd EXCEPT ![c].pc = "msg", ![c].msg = "ok"]
    BY <1>6 DEF SaveConfig, Answer
  <2>m. cmd' \in [Cmds -> CommandRecords]
    BY <1>0, <2>1, CommandMoves DEF TypeOK, CommandRecords, CommandPlaces
  <2>3. TypeOK'
    BY <1>0, <1>1, <2>1, <2>m DEF TypeOK, screen, CommandRecords, CommandPlaces
  <2>4. TokensWritten'
    BY <1>0, <1>1, <2>1 DEF TypeOK, TokensWritten, TokensThere
  <2>5. /\ Writes(c) /\ SignsIn(c)
        /\ \A d \in Cmds : /\ cmd'[d].pc = "save" => cmd[d].pc = "save"
                           /\ Writes(d)' = (Writes(d) /\ d # c)
                           /\ SignsIn(d)' => Writes(d)'
    BY <1>0, <2>1 DEF TypeOK, Writes, SignsIn
  <2>6. OneWriter'
    <3> SUFFICES ASSUME ~raced PROVE OneWriter'
      BY <2>1 DEF OneWriter
    <3>1. \A d \in Cmds : Writes(d) => d = c
      BY <1>0, <2>5 DEF OneWriter
    <3>2. \A d \in Cmds : ~Writes(d)' /\ ~SignsIn(d)' /\ cmd'[d].pc # "save"
      BY <2>5, <3>1 DEF Writes
    <3>3. cfg.access = c /\ cfg.refresh = c
      BY <1>0, <2>1, <2>5 DEF OneWriter
    <3>4. disk.access = disk.refresh
      BY <1>0 DEF OneWriter
    <3>5. disk'.access = disk'.refresh
      BY <2>1, <3>3, <3>4
    <3> QED BY <2>1, <3>2, <3>3, <3>5 DEF OneWriter
  <2> QED BY <1>2, <2>3, <2>4, <2>6 DEF FlowInv
<1> QED BY <1>4, <1>5, <1>6

(* The messages a command sends to the model.                              *)
LEMMA FlowMessages ==
    ASSUME FlowInv, NEW c \in Cmds,
           ErrorArrives(c) \/ NeedsMFAArrives(c) \/ DoneArrives(c) \/ LateMessage(c)
    PROVE  FlowInv'
<1>0. TypeOK /\ FormFitsUntilStrayError /\ TokensWritten /\ OneWriter
  BY DEF FlowInv
<1>1. cmd[c].pc = "msg" /\ cmd' = [cmd EXCEPT ![c].pc = "done"] /\ UNCHANGED conf /\ life = "run"
  BY DEF ErrorArrives, NeedsMFAArrives, DoneArrives, LateMessage, Arrives
<1>2. \A d \in Cmds : /\ cmd'[d].pc = "save" => cmd[d].pc = "save"
                      /\ cmd'[d].pc = "refresh" => cmd[d].pc = "refresh"
                      /\ cmd'[d].msg = cmd[d].msg
                      /\ cmd'[d].pc = "renew" => cmd[d].pc = "renew"
                      /\ cmd'[d].token = cmd[d].token
                      /\ Writes(d)' = Writes(d) /\ SignsIn(d)' = SignsIn(d)
  BY <1>0, <1>1 DEF TypeOK, Writes, SignsIn
<1>3. OneWriter'
  BY <1>0, <1>1, <1>2 DEF OneWriter, conf
<1>4. TokensWritten'
  <2>1. ready' => ready \/ cmd[c].msg = "ok"
    BY DEF ErrorArrives, NeedsMFAArrives, DoneArrives, LateMessage, Arrives
  <2> QED BY <1>0, <1>1, <1>2, <2>1 DEF TokensWritten, TokensThere, conf
<1>5. /\ cmd' \in [Cmds -> CommandRecords]
      /\ UNCHANGED <<cfg, disk, raced>>
  BY <1>0, <1>1 DEF TypeOK, conf, CommandRecords, CommandPlaces
<1>6. before' = before /\ session' \in Cmds \cup {None} /\ loading' \in BOOLEAN /\ ready' \in BOOLEAN
      /\ stray' \in BOOLEAN /\ unopened' \in BOOLEAN
  BY <1>0 DEF TypeOK, ErrorArrives, NeedsMFAArrives, DoneArrives, LateMessage, screen
<1>7. /\ step' \in Steps /\ inputs' \in {0, 1, 2, 4} /\ focus' \in 0..3
      /\ life' \in {"run", "quit", "panic"}
      /\ FormFitsUntilStrayError'
  <2>1. CASE ErrorArrives(c)
    <3>1. Show(before, inputs, focus) /\ stray' = (stray \/ step # before)
      BY <2>1 DEF ErrorArrives
    <3>2. PICK s \in {"server", "login", "register"}, n \in {0, 1, 2, 4}, f \in 0..3 :
             s = before /\ n = inputs /\ f = focus
      BY <1>0 DEF TypeOK
    <3>3. Show(s, n, f) /\ s \in Steps
      BY <3>1, <3>2 DEF Steps
    <3>4. ~stray' => (s \in Forms => n = InputsOf[s] /\ f < n)
      BY <3>1, <3>2, <1>0 DEF FormFitsUntilStrayError
    <3> QED BY <3>3, <3>4, <1>0, ScreenStep
  <2>2. CASE NeedsMFAArrives(c)
    <3>1. Show("mfa", 1, 0)
      BY <2>2 DEF NeedsMFAArrives, InputsOf
    <3> QED BY <3>1, <1>0, ScreenStep DEF Steps, InputsOf
  <2>3. CASE DoneArrives(c) \/ LateMessage(c)
    <3>1. UNCHANGED <<step, inputs, focus, life, stray>>
      BY <2>3 DEF DoneArrives, LateMessage, screen
    <3> QED BY <1>0, <3>1 DEF TypeOK, FormFitsUntilStrayError
  <2> QED BY <2>1, <2>2, <2>3
<1>8. TypeOK'
  BY <1>0, <1>5, <1>6, <1>7 DEF TypeOK, CommandRecords, CommandPlaces
<1> QED BY <1>3, <1>4, <1>7, <1>8 DEF FlowInv

(* Every step of the sign-in screens keeps the invariant.                  *)
LEMMA FlowStep == FlowInv /\ [Next]_vars => FlowInv'
<1> SUFFICES ASSUME FlowInv, [Next]_vars PROVE FlowInv'
  OBVIOUS
<1>1. CASE UNCHANGED vars
  BY <1>1 DEF FlowInv, TypeOK, FormFitsUntilStrayError, TokensWritten, TokensThere, OneWriter, Writes, SignsIn,
     vars, screen, conf
<1>2. CASE Next
  BY <1>2, FlowKeys, FlowSubmits, FlowCalls, FlowRenews, FlowWrites, FlowMessages DEF Next, Run
<1> QED BY <1>1, <1>2

(* The sign-in screens keep their invariant.                               *)
THEOREM FlowInductive == Spec => []FlowInv
BY FlowInitial, FlowStep, PTL DEF Spec

(* Until an error message arrives on a screen that did not ask for it, the *)
(* screen shows the form of its step with as many inputs as the step has   *)
(* and the focus on one of them, so no handler of AuthModel indexes past   *)
(* its inputs (tui/auth.go); the code screen has its input even then.      *)
(* However many commands are under way and however late they answer.       *)
THEOREM FormsFit == Spec => []FormFitsUntilStrayError
<1>1. FlowInv => FormFitsUntilStrayError
  BY DEF FlowInv
<1> QED BY <1>1, FlowInductive, PTL

(* The vault opens only with both tokens of a session stored, and unless   *)
(* two sign-ins wrote at the same time the tokens in memory and those on   *)
(* disk are a pair from one sign-in (doLogin, doMFA and doRegister of      *)
(* tui/auth.go).                                                           *)
THEOREM SignInIsWhole == Spec => []SignedInWhole
<1>1. FlowInv => SignedInWhole
  BY DEF FlowInv, OneWriter, TokensWritten, TokensThere, SignedInWhole, TokenPairWhole, VaultHasTokens,
     Writing, SignsIn
<1> QED BY <1>1, FlowInductive, PTL

-----------------------------------------------------------------------------
(* The password generator: GenSpec of PassGen.                             *)

(* The types of the generator.  A running refresh has tries left.          *)
GenTyped ==
    /\ pg \in [s : Settings, preview : Previews] \cup {NoGen}
    /\ pg # NoGen => pg.s.focus <= MaxFocus(pg.s.tab)
    /\ out \in [preview : Previews, asked : Options, late : BOOLEAN] \cup {NoGen}
    /\ worker \in [Workers -> Refreshes \cup {NoGen}]
    /\ \A w \in Running : worker[w].tries < Tries
    /\ refreshed \in 0..MaxRefresh /\ opened \in 0..MaxOpens
    /\ genRaced \in BOOLEAN

(* Until two refreshes have run at a time there is one at most, and it     *)
(* works from the options the screen still shows.                          *)
OneRefresh ==
    ~genRaced =>
        /\ \A v, w \in Running : v = w
        /\ pg # NoGen => \A w \in Running : worker[w].c.opts = Opts(pg.s)

(* A refresh that gives up its minimums had minimums a password may miss.  *)
MissedHonestly ==
    \A w \in Running : worker[w].pc = "sent" /\ worker[w].c.opts.tab = "password" /\ ~worker[w].met
                          => MayMiss(worker[w].c)

(* The inductive invariant of the generator.  PreviewFitsUnlessRaced is    *)
(* about what has arrived; OneRefresh and MissedHonestly are about the     *)
(* refresh that is still to arrive.                                        *)
GenInv == GenTyped /\ OneRefresh /\ PreviewFitsUnlessRaced /\ MissedHonestly

(* The options read from the settings.                                     *)
LEMMA OptsTyped ==
    ASSUME NEW s \in Settings
    PROVE  Opts(s) \in Options
<1>1. CASE s.tab = "password"
  <2>1. {"lower"} \cup ({"upper", "digits", "symbols"} \cap {c \in Switches : s.on[c]})
           \in SUBSET {"lower", "upper", "digits", "symbols"}
    OBVIOUS
  <2>2. s.length \in Lengths /\ s.on["ambig"] \in BOOLEAN
    BY DEF Settings, Switches
  <2> QED BY <1>1, <2>1, <2>2 DEF Opts, Options
<1>2. CASE s.tab # "password"
  <2>1. s.words \in MinWords..MaxWords /\ s.sep \in 0..(NumSeps - 1) /\ s.on["capitalize"] \in BOOLEAN /\ s.on["num"] \in BOOLEAN
    BY DEF Settings, Switches
  <2> QED BY <1>2, <2>1 DEF Opts, Options
<1> QED BY <1>1, <1>2

(* A refresh copies the settings when it begins.                           *)
LEMMA SnapshotTyped ==
    ASSUME NEW s \in Settings
    PROVE  /\ Snapshot(s) \in [opts : Options, minDigits : Nat, minSymbols : Nat]
           /\ Snapshot(s).opts = Opts(s)
<1>1. s.minDigits \in Nat /\ s.minSymbols \in Nat
  BY GenAssumption DEF Settings
<1> QED BY <1>1, OptsTyped DEF Snapshot

(* The screen opens with settings within their bounds.                     *)
LEMMA DefaultsTyped == Defaults \in Settings
<1>1. StartLength \in Lengths /\ StartWords \in MinWords..MaxWords /\ 0 \in 0..(NumSeps - 1)
      /\ 1 \in 0..(MaxLength \div 2)
  BY GenAssumption DEF Lengths
<1>2. [f \in Switches |-> f # "ambig"] \in [Switches -> BOOLEAN]
  OBVIOUS
<1> QED BY <1>1, <1>2 DEF Defaults, Settings

(* The bounds of a slider.                                                 *)
LEMMA ClampTyped ==
    ASSUME NEW n \in Int, NEW lo \in Int, NEW hi \in Int, lo <= hi
    PROVE  Clamp(n, lo, hi) \in lo..hi
BY DEF Clamp

(* Left and right keep every setting within its bounds.                    *)
LEMMA AdjustTyped ==
    ASSUME NEW s \in Settings, NEW more \in BOOLEAN
    PROVE  /\ adjustFocused(s, more) \in Settings
           /\ adjustFocused(s, more).focus = s.focus /\ adjustFocused(s, more).tab = s.tab
<1> DEFINE moved(n, lo, hi) == Clamp(IF more THEN n + 1 ELSE IF n = 0 THEN 0 ELSE n - 1, lo, hi)
           f == FieldAt(s.tab, s.focus)
<1>0. /\ s.length \in Lengths /\ s.words \in MinWords..MaxWords /\ s.sep \in 0..(NumSeps - 1)
      /\ s.minDigits \in 0..(MaxLength \div 2) /\ s.minSymbols \in 0..(MaxLength \div 2)
  BY DEF Settings
<1>s. ASSUME NEW n \in Int, NEW lo \in Int, NEW hi \in Int, lo <= hi
      PROVE  moved(n, lo, hi) \in lo..hi
  <2>1. PICK m \in Int : m = IF more THEN n + 1 ELSE IF n = 0 THEN 0 ELSE n - 1
    OBVIOUS
  <2>2. Clamp(m, lo, hi) \in lo..hi
    BY <1>s, ClampTyped
  <2> QED BY <2>1, <2>2
<1> HIDE DEF moved
<1>1. moved(s.length, MinLength, MaxLength) \in Lengths
  <2>1. s.length \in Int /\ MinLength \in Int /\ MaxLength \in Int /\ MinLength <= MaxLength
    BY <1>0, GenAssumption DEF Lengths
  <2> QED BY <1>s, <2>1 DEF Lengths
<1>2. s.length \div 2 \in 0..(MaxLength \div 2)
  BY <1>0, GenAssumption DEF Lengths
<1>3. /\ moved(s.minDigits, 0, s.length \div 2) \in 0..(MaxLength \div 2)
      /\ moved(s.minSymbols, 0, s.length \div 2) \in 0..(MaxLength \div 2)
  <2>1. PICK h \in 0..(MaxLength \div 2) : h = s.length \div 2
    BY <1>2
  <2>2. h \in Nat
    BY <2>1, GenAssumption
  <2>i. s.minDigits \in Int /\ s.minSymbols \in Int /\ 0 \in Int /\ h \in Int /\ 0 <= h
    BY <1>0, <2>2, GenAssumption
  <2>3. moved(s.minDigits, 0, h) \in 0..h
    BY <1>s, <2>i
  <2>4. moved(s.minSymbols, 0, h) \in 0..h
    BY <1>s, <2>i
  <2> QED BY <2>1, <2>2, <2>3, <2>4, GenAssumption
<1>4. moved(s.words, MinWords, MaxWords) \in MinWords..MaxWords
  <2>1. s.words \in Int /\ MinWords \in Int /\ MaxWords \in Int /\ MinWords <= MaxWords
    BY <1>0, GenAssumption
  <2> QED BY <1>s, <2>1
<1>5. (s.sep + (IF more THEN 1 ELSE NumSeps - 1)) % NumSeps \in 0..(NumSeps - 1)
  BY <1>0, GenAssumption
<1>6. adjustFocused(s, more) =
        CASE f = "length" -> [s EXCEPT !.length = moved(s.length, MinLength, MaxLength)]
          [] f = "minDigits" -> [s EXCEPT !.minDigits = moved(s.minDigits, 0, s.length \div 2)]
          [] f = "minSymbols" -> [s EXCEPT !.minSymbols = moved(s.minSymbols, 0, s.length \div 2)]
          [] f = "words" -> [s EXCEPT !.words = moved(s.words, MinWords, MaxWords)]
          [] f = "sep" -> [s EXCEPT !.sep = (s.sep + (IF more THEN 1 ELSE NumSeps - 1)) % NumSeps]
          [] OTHER -> s
  BY DEF adjustFocused, moved
<1> HIDE DEF f
<1> QED BY <1>1, <1>3, <1>4, <1>5, <1>6 DEF Settings

(* Space keeps every setting within its bounds.                            *)
LEMMA ToggleTyped ==
    ASSUME NEW s \in Settings
    PROVE  /\ toggleFocused(s) \in Settings
           /\ toggleFocused(s).focus = s.focus /\ toggleFocused(s).tab = s.tab
<1>1. CASE FieldAt(s.tab, s.focus) \in Switches
  <2>1. PICK f \in Switches : f = FieldAt(s.tab, s.focus)
    BY <1>1
  <2>2. PICK v \in BOOLEAN : v = ~s.on[f]
    OBVIOUS
  <2>3. PICK on \in [Switches -> BOOLEAN] : on = [s.on EXCEPT ![f] = v]
    BY <2>2 DEF Settings
  <2>4. toggleFocused(s) = [s EXCEPT !.on = on]
    BY <1>1, <2>1, <2>2, <2>3 DEF toggleFocused, Settings
  <2> QED BY <2>3, <2>4 DEF Settings
<1>2. CASE FieldAt(s.tab, s.focus) \notin Switches
  BY <1>2 DEF toggleFocused
<1> QED BY <1>1, <1>2

(* No generator is open and no refresh runs.                               *)
LEMMA GenInitial == GenInit => GenInv
<1> SUFFICES ASSUME GenInit PROVE GenInv
  OBVIOUS
<1>1. Running = {}
  BY DEF GenInit, Running
<1>2. pg = NoGen /\ out = NoGen /\ genRaced = FALSE
  BY DEF GenInit
<1>3. worker \in [Workers -> Refreshes \cup {NoGen}]
  BY DEF GenInit
<1>4. refreshed \in 0..MaxRefresh /\ opened \in 0..MaxOpens
  BY GenAssumption DEF GenInit
<1>5. GenTyped
  BY <1>1, <1>2, <1>3, <1>4 DEF GenTyped
<1>6. OneRefresh /\ PreviewFitsUnlessRaced /\ MissedHonestly
  BY <1>1, <1>2 DEF OneRefresh, PreviewFitsUnlessRaced, MissedHonestly
<1> QED BY <1>5, <1>6 DEF GenInv

(* A running worker holds a refresh.                                       *)
LEMMA WorkerTyped ==
    ASSUME GenTyped, NEW w \in Workers
    PROVE  w \in Running <=> worker[w] \in Refreshes
BY NoGenAssumption DEF GenTyped, Running

(* A changed setting and the refresh that it starts.                       *)
LEMMA EditStep ==
    ASSUME GenInv, pg # NoGen, NEW s \in Settings, s.focus <= MaxFocus(s.tab), Edit(s)
    PROVE  GenInv'
<1>0. GenTyped /\ OneRefresh /\ PreviewFitsUnlessRaced /\ MissedHonestly
  BY DEF GenInv
<1>1. /\ pg' = [pg EXCEPT !.s = s] /\ UNCHANGED <<out, opened>>
      /\ refreshed < MaxRefresh /\ refreshed' = refreshed + 1
      /\ genRaced' = (genRaced \/ Running # {})
  BY DEF Edit, refreshCmd
<1>2. PICK n : n = [c |-> Snapshot(s), tries |-> 0, pc |-> "try", met |-> FALSE]
  OBVIOUS
<1>3. PICK x \in Workers : worker[x] = NoGen /\ worker' = [worker EXCEPT ![x] = n]
  BY <1>2 DEF Edit, refreshCmd
<1>4. n \in Refreshes /\ n # NoGen /\ n.tries < Tries /\ n.c.opts = Opts(s) /\ n.pc = "try"
  <2>1. PICK sn \in [opts : Options, minDigits : Nat, minSymbols : Nat] : sn = Snapshot(s)
    BY SnapshotTyped
  <2>2. n \in Refreshes
    BY <1>2, <2>1 DEF Refreshes
  <2>3. n # NoGen
    BY <2>2, NoGenAssumption
  <2>4. n.tries < Tries /\ n.pc = "try" /\ n.c = Snapshot(s)
    BY <1>2, GenAssumption
  <2> QED BY <2>2, <2>3, <2>4, SnapshotTyped
<1>5. worker' \in [Workers -> Refreshes \cup {NoGen}] /\ worker'[x] = n
      /\ \A w \in Workers \ {x} : worker'[w] = worker[w]
  BY <1>0, <1>3, <1>4 DEF GenTyped
<1>6. Running' = Running \cup {x} /\ x \notin Running
  BY <1>3, <1>4, <1>5 DEF Running
<1>7. /\ pg' \in [s : Settings, preview : Previews]
      /\ pg'.s = s
  BY <1>0, <1>1 DEF GenTyped
<1>8. GenTyped'
  <2>1. \A w \in Running' : worker'[w].tries < Tries
    BY <1>0, <1>4, <1>5, <1>6 DEF GenTyped, Running
  <2>2. genRaced' \in BOOLEAN
    BY <1>1, <1>0 DEF GenTyped
  <2>3. refreshed' \in 0..MaxRefresh
    BY <1>1, <1>0, GenAssumption DEF GenTyped
  <2> QED BY <1>0, <1>1, <1>5, <1>7, <2>1, <2>2, <2>3 DEF GenTyped
<1>9. OneRefresh'
  <2> SUFFICES ASSUME ~genRaced' PROVE OneRefresh'
    BY DEF OneRefresh
  <2>1. Running' = {x}
    BY <1>1, <1>6
  <2> QED BY <2>1, <1>4, <1>5, <1>7 DEF OneRefresh
<1>10. PreviewFitsUnlessRaced'
  BY <1>0, <1>1, <1>6 DEF PreviewFitsUnlessRaced
<1>11. MissedHonestly'
  <2> SUFFICES ASSUME NEW w \in Running', worker'[w].pc = "sent", worker'[w].c.opts.tab = "password", ~worker'[w].met
               PROVE  MayMiss(worker'[w].c)
    BY DEF MissedHonestly, MayMiss
  <2>1. w # x
    BY <1>4, <1>5
  <2>2. w \in Running /\ worker'[w] = worker[w]
    BY <1>5, <1>6, <2>1 DEF Running
  <2> QED BY <1>0, <2>2 DEF MissedHonestly
<1> QED BY <1>8, <1>9, <1>10, <1>11 DEF GenInv

(* The keys of the generator.                                              *)
LEMMA GenKeys ==
    ASSUME GenInv, GenKey
    PROVE  GenInv'
<1>0. GenTyped /\ OneRefresh /\ PreviewFitsUnlessRaced /\ MissedHonestly
  BY DEF GenInv
<1>p. pg # NoGen => /\ pg \in [s : Settings, preview : Previews]
                    /\ pg.s \in Settings /\ pg.preview \in Previews
                    /\ pg.s.focus <= MaxFocus(pg.s.tab)
  BY <1>0 DEF GenTyped
<1>1. CASE \E t \in {"password", "passphrase"} : GenTab(t)
  <2>1. PICK t \in {"password", "passphrase"} : GenTab(t)
    BY <1>1
  <2>2. pg # NoGen /\ Edit([pg.s EXCEPT !.tab = t, !.focus = 0])
    BY <2>1 DEF GenTab
  <2>3. PICK s : s = [pg.s EXCEPT !.tab = t, !.focus = 0]
    OBVIOUS
  <2>o. PICK o \in Settings : o = pg.s
    BY <1>p, <2>2
  <2>t. PICK u : u = [o EXCEPT !.tab = t]
    OBVIOUS
  <2>u. u \in Settings /\ s = [u EXCEPT !.focus = 0]
    BY <2>3, <2>o, <2>t DEF Settings
  <2>4. s \in Settings /\ s.focus = 0
    BY <2>u DEF Settings
  <2>6. s.focus <= MaxFocus(s.tab)
    BY <2>4 DEF MaxFocus
  <2> QED BY <2>2, <2>3, <2>4, <2>6, EditStep
<1>2. CASE GenRefresh
  <2>1. pg # NoGen /\ Edit(pg.s)
    BY <1>2 DEF GenRefresh
  <2>2. PICK s : s = pg.s
    OBVIOUS
  <2> QED BY <1>p, <2>1, <2>2, EditStep
<1>3. CASE GenToggle
  <2>1. pg # NoGen /\ Edit(toggleFocused(pg.s))
    BY <1>3 DEF GenToggle
  <2>2. PICK o : o = pg.s
    OBVIOUS
  <2>3. PICK s : s = toggleFocused(o)
    OBVIOUS
  <2>4. s \in Settings /\ s.focus <= MaxFocus(s.tab)
    BY <1>p, <2>1, <2>2, <2>3, ToggleTyped
  <2>5. Edit(s)
    BY <2>1, <2>2, <2>3
  <2> QED BY <2>1, <2>4, <2>5, EditStep
<1>4. ASSUME NEW b \in BOOLEAN, GenAdjust(b)
      PROVE  GenInv'
  <2>1. pg # NoGen /\ Edit(adjustFocused(pg.s, b))
    BY <1>4 DEF GenAdjust
  <2>2. PICK o : o = pg.s
    OBVIOUS
  <2>3. PICK s : s = adjustFocused(o, b)
    OBVIOUS
  <2>4. s \in Settings /\ s.focus <= MaxFocus(s.tab)
    BY <1>p, <2>1, <2>2, <2>3, AdjustTyped
  <2>5. Edit(s)
    BY <2>1, <2>2, <2>3
  <2> QED BY <2>1, <2>4, <2>5, EditStep
<1>5. CASE GenOpen
  <2>1. PICK met \in BOOLEAN : pg' = [s |-> Defaults, preview |-> Preview(Opts(Defaults), met)]
    BY <1>5 DEF GenOpen
  <2>2. /\ opened < MaxOpens /\ opened' = opened + 1 /\ out' = NoGen
        /\ genRaced' = (genRaced \/ Running # {})
        /\ UNCHANGED <<worker, refreshed>>
    BY <1>5 DEF GenOpen
  <2>3. PICK p \in Previews : p = Preview(Opts(Defaults), met)
    BY DefaultsTyped, OptsTyped DEF Preview, Previews
  <2>4. pg' = [s |-> Defaults, preview |-> p] /\ pg'.s = Defaults /\ pg'.preview = p
        /\ pg'.preview.opts = Opts(pg'.s)
    BY <2>1, <2>3 DEF Preview
  <2>5. pg' \in [s : Settings, preview : Previews] /\ pg'.s.focus <= MaxFocus(pg'.s.tab)
    <3>1. Defaults.focus <= MaxFocus(Defaults.tab)
      BY DEF Defaults, MaxFocus
    <3> QED BY <2>3, <2>4, <3>1, DefaultsTyped
  <2>6. Running' = Running
    BY <2>2 DEF Running
  <2>7. GenTyped'
    <3>1. genRaced' \in BOOLEAN
      BY <1>0, <2>2 DEF GenTyped
    <3>2. opened' \in 0..MaxOpens
      BY <1>0, <2>2, GenAssumption DEF GenTyped
    <3> QED BY <1>0, <2>2, <2>5, <2>6, <3>1, <3>2 DEF GenTyped
  <2>8. OneRefresh' /\ PreviewFitsUnlessRaced'
    BY <2>2, <2>4, <2>6 DEF OneRefresh, PreviewFitsUnlessRaced
  <2>9. MissedHonestly'
    BY <1>0, <2>2, <2>6 DEF MissedHonestly, MayMiss
  <2> QED BY <2>7, <2>8, <2>9 DEF GenInv
<1>6. CASE GenEnter \/ GenEsc
  <2>1. pg' = NoGen /\ pg # NoGen /\ UNCHANGED <<worker, refreshed, opened, genRaced>>
    BY <1>6 DEF GenEnter, GenEsc
  <2>2. Running' = Running
    BY <2>1 DEF Running
  <2>3. \/ out' = out
        \/ out' = [preview |-> pg.preview, asked |-> Opts(pg.s), late |-> genRaced \/ Running # {}]
    BY <1>6 DEF GenEnter, GenEsc
  <2>4. out' \in [preview : Previews, asked : Options, late : BOOLEAN] \cup {NoGen}
    <3>1. PICK l \in BOOLEAN : l = (genRaced \/ Running # {})
      OBVIOUS
    <3>2. Opts(pg.s) \in Options /\ pg.preview \in Previews
      BY <1>p, <2>1, OptsTyped
    <3>3. [preview |-> pg.preview, asked |-> Opts(pg.s), late |-> l]
             \in [preview : Previews, asked : Options, late : BOOLEAN]
      BY <3>2
    <3> QED BY <1>0, <2>3, <3>1, <3>3 DEF GenTyped
  <2>5. out' # NoGen /\ ~out'.late => out'.preview.opts = out'.asked
    <3>1. CASE out' = out
      BY <1>0, <3>1 DEF PreviewFitsUnlessRaced
    <3>2. CASE out' = [preview |-> pg.preview, asked |-> Opts(pg.s), late |-> genRaced \/ Running # {}]
      <4>1. out'.preview = pg.preview /\ out'.asked = Opts(pg.s) /\ out'.late = (genRaced \/ Running # {})
        BY <3>2
      <4> QED BY <1>0, <2>1, <4>1 DEF PreviewFitsUnlessRaced
    <3> QED BY <2>3, <3>1, <3>2
  <2>6. GenTyped'
    BY <1>0, <2>1, <2>2, <2>4 DEF GenTyped
  <2>7. OneRefresh' /\ PreviewFitsUnlessRaced'
    BY <1>0, <2>1, <2>2, <2>5 DEF OneRefresh, PreviewFitsUnlessRaced
  <2>8. MissedHonestly'
    BY <1>0, <2>1, <2>2 DEF MissedHonestly, MayMiss
  <2> QED BY <2>6, <2>7, <2>8 DEF GenInv
<1>7. ASSUME NEW b \in BOOLEAN, GenMove(b)
      PROVE  GenInv'
  <2>1. /\ pg # NoGen /\ UNCHANGED <<worker, out, refreshed, opened, genRaced>>
        /\ \E f : /\ pg' = [pg EXCEPT !.s.focus = f]
                  /\ f \in 0..MaxFocus(pg.s.tab)
    <3>1. pg.s.focus \in 0..7 /\ MaxFocus(pg.s.tab) \in 0..7 /\ pg.s.focus <= MaxFocus(pg.s.tab) /\ pg # NoGen
      BY <1>7, <1>p DEF GenMove, Settings, MaxFocus
    <3>2. PICK f : f = IF b THEN (IF pg.s.focus < MaxFocus(pg.s.tab) THEN pg.s.focus + 1 ELSE 0)
                            ELSE (IF pg.s.focus > 0 THEN pg.s.focus - 1 ELSE MaxFocus(pg.s.tab))
      OBVIOUS
    <3>3. f \in 0..MaxFocus(pg.s.tab)
      BY <3>1, <3>2
    <3>4. pg' = [pg EXCEPT !.s.focus = f]
      BY <1>7, <3>1, <3>2 DEF GenMove
    <3> QED BY <1>7, <3>1, <3>3, <3>4 DEF GenMove
  <2>2. PICK f : pg' = [pg EXCEPT !.s.focus = f] /\ f \in 0..MaxFocus(pg.s.tab)
    BY <2>1
  <2>3. f \in 0..7
    BY <2>2 DEF MaxFocus
  <2>4. /\ pg' = [pg EXCEPT !.s = [pg.s EXCEPT !.focus = f]]
        /\ pg'.s = [pg.s EXCEPT !.focus = f] /\ pg'.preview = pg.preview
    BY <1>p, <2>1, <2>2
  <2>5. pg'.s \in Settings /\ pg'.s.focus = f /\ pg'.s.tab = pg.s.tab /\ Opts(pg'.s) = Opts(pg.s)
    BY <1>p, <2>1, <2>3, <2>4 DEF Settings, Opts
  <2>6. pg' \in [s : Settings, preview : Previews] /\ pg'.s.focus <= MaxFocus(pg'.s.tab)
    <3>1. f <= MaxFocus(pg.s.tab)
      BY <2>2 DEF MaxFocus
    <3> QED BY <1>p, <2>1, <2>4, <2>5, <3>1
  <2>7. Running' = Running
    BY <2>1 DEF Running
  <2>8. GenTyped'
    BY <1>0, <2>1, <2>6, <2>7 DEF GenTyped
  <2>9. OneRefresh' /\ PreviewFitsUnlessRaced'
    BY <1>0, <2>1, <2>4, <2>5, <2>7 DEF OneRefresh, PreviewFitsUnlessRaced
  <2>10. MissedHonestly'
    BY <1>0, <2>1, <2>7 DEF MissedHonestly, MayMiss
  <2> QED BY <2>8, <2>9, <2>10 DEF GenInv
<1> QED BY <1>1, <1>2, <1>3, <1>4, <1>5, <1>6, <1>7 DEF GenKey

(* One try of a refresh: the random password meets its minimums or not.    *)
LEMMA GenTries ==
    ASSUME GenInv, NEW x \in Workers, GenTry(x)
    PROVE  GenInv'
<1>0. GenTyped /\ OneRefresh /\ PreviewFitsUnlessRaced /\ MissedHonestly
  BY DEF GenInv
<1>1. x \in Running /\ worker[x].pc = "try" /\ UNCHANGED <<pg, out, refreshed, opened, genRaced>>
  BY DEF GenTry
<1>2. worker[x] \in Refreshes /\ worker[x].tries < Tries /\ worker[x].tries \in Nat
  BY <1>0, <1>1, WorkerTyped DEF GenTyped, Refreshes
<1>3. \E t \in Nat, p \in {"try", "sent"}, m \in BOOLEAN :
         /\ worker' = [worker EXCEPT ![x] = [worker[x] EXCEPT !.tries = t, !.pc = p, !.met = m]]
         /\ t < Tries
         /\ p = "sent" /\ worker[x].c.opts.tab = "password" /\ ~m => MayMiss(worker[x].c)
  <2>0. worker \in [Workers -> Refreshes \cup {NoGen}]
    BY <1>0 DEF GenTyped
  <2>1. CASE \E m \in BOOLEAN : /\ RefreshAnswer(x, m)
                                /\ worker[x].c.opts.tab = "password" /\ ~m => MayMiss(worker[x].c)
    <3>1. PICK m \in BOOLEAN : /\ worker' = [worker EXCEPT ![x].pc = "sent", ![x].met = m]
                               /\ worker[x].c.opts.tab = "password" /\ ~m => MayMiss(worker[x].c)
      BY <2>1 DEF RefreshAnswer
    <3>2. worker' = [worker EXCEPT ![x] = [worker[x] EXCEPT !.tries = worker[x].tries, !.pc = "sent", !.met = m]]
      <4>1. worker' = [worker EXCEPT ![x] = [worker[x] EXCEPT !.pc = "sent", !.met = m]]
        BY <2>0, <3>1
      <4>2. [worker[x] EXCEPT !.pc = "sent", !.met = m]
               = [worker[x] EXCEPT !.tries = worker[x].tries, !.pc = "sent", !.met = m]
        BY <1>2 DEF Refreshes
      <4> QED BY <4>1, <4>2
    <3> QED BY <1>2, <3>1, <3>2
  <2>2. CASE worker[x].tries + 1 < Tries /\ worker' = [worker EXCEPT ![x].tries = @ + 1]
    <3>1. worker' = [worker EXCEPT ![x] =
              [worker[x] EXCEPT !.tries = worker[x].tries + 1, !.pc = "try", !.met = worker[x].met]]
      BY <1>1, <1>2, <2>0, <2>2 DEF Refreshes
    <3>2. worker[x].tries + 1 \in Nat /\ worker[x].met \in BOOLEAN
      BY <1>2 DEF Refreshes
    <3> QED BY <2>2, <3>1, <3>2
  <2> QED BY <2>1, <2>2, <1>2 DEF GenTry, TryMeets, TryMisses, Refreshes, Options
<1>4. PICK t \in Nat, p \in {"try", "sent"}, m \in BOOLEAN :
         /\ worker' = [worker EXCEPT ![x] = [worker[x] EXCEPT !.tries = t, !.pc = p, !.met = m]]
         /\ t < Tries
         /\ p = "sent" /\ worker[x].c.opts.tab = "password" /\ ~m => MayMiss(worker[x].c)
  BY <1>3
<1>5. PICK o : o = worker[x]
  OBVIOUS
<1>6. PICK n : n = [o EXCEPT !.tries = t, !.pc = p, !.met = m]
  OBVIOUS
<1>7. n \in Refreshes /\ n # NoGen /\ n.c = o.c /\ n.tries = t /\ n.pc = p /\ n.met = m
  BY <1>2, <1>5, <1>6, NoGenAssumption DEF Refreshes
<1>8. /\ worker' \in [Workers -> Refreshes \cup {NoGen}] /\ worker'[x] = n
      /\ \A w \in Workers \ {x} : worker'[w] = worker[w]
  BY <1>0, <1>4, <1>5, <1>6, <1>7 DEF GenTyped
<1>9. Running' = Running /\ \A w \in Running : worker'[w].c = worker[w].c
  BY <1>1, <1>5, <1>7, <1>8 DEF Running
<1>10. GenTyped'
  <2>1. \A w \in Running : worker'[w].tries < Tries
    BY <1>0, <1>4, <1>7, <1>8 DEF GenTyped, Running
  <2> QED BY <1>0, <1>1, <1>8, <1>9, <2>1 DEF GenTyped
<1>11. OneRefresh' /\ PreviewFitsUnlessRaced'
  BY <1>0, <1>1, <1>9 DEF OneRefresh, PreviewFitsUnlessRaced
<1>12. MissedHonestly'
  <2> SUFFICES ASSUME NEW w \in Running, worker'[w].pc = "sent", worker'[w].c.opts.tab = "password", ~worker'[w].met
               PROVE  MayMiss(worker'[w].c)
    BY <1>9 DEF MissedHonestly, MayMiss
  <2>1. CASE w = x
    BY <1>4, <1>5, <1>7, <1>8, <2>1
  <2>2. CASE w # x
    BY <1>0, <1>8, <2>2 DEF MissedHonestly, Running
  <2> QED BY <2>1, <2>2
<1> QED BY <1>10, <1>11, <1>12 DEF GenInv

(* The preview arrives, on an open screen or on none.                      *)
LEMMA GenAnswers ==
    ASSUME GenInv, NEW x \in Workers, GenArrives(x)
    PROVE  GenInv'
<1>0. GenTyped /\ OneRefresh /\ PreviewFitsUnlessRaced /\ MissedHonestly
  BY DEF GenInv
<1>1. /\ x \in Running /\ worker' = [worker EXCEPT ![x] = NoGen]
      /\ pg' = IF pg = NoGen THEN NoGen
               ELSE [pg EXCEPT !.preview = Preview(worker[x].c.opts, worker[x].met)]
      /\ UNCHANGED <<out, refreshed, opened, genRaced>>
  BY DEF GenArrives
<1>2. worker[x] \in Refreshes
  BY <1>0, <1>1, WorkerTyped
<1>3. PICK p \in Previews : p = Preview(worker[x].c.opts, worker[x].met) /\ p.opts = worker[x].c.opts
  <2>1. worker[x].c \in [opts : Options, minDigits : Nat, minSymbols : Nat] /\ worker[x].met \in BOOLEAN
    BY <1>2 DEF Refreshes
  <2>2. worker[x].c.opts \in Options
    BY <2>1
  <2>3. Preview(worker[x].c.opts, worker[x].met) \in Previews
    BY <2>1, <2>2 DEF Preview, Previews
  <2> QED BY <2>3 DEF Preview
<1>4. /\ worker' \in [Workers -> Refreshes \cup {NoGen}] /\ worker'[x] = NoGen
      /\ \A w \in Workers \ {x} : worker'[w] = worker[w]
  BY <1>0, <1>1 DEF GenTyped
<1>5. Running' = Running \ {x}
  BY <1>4 DEF Running
<1>6. /\ pg = NoGen => pg' = NoGen
      /\ pg # NoGen => /\ pg' \in [s : Settings, preview : Previews]
                       /\ pg'.s = pg.s /\ pg'.preview = p
  BY <1>0, <1>1, <1>3 DEF GenTyped
<1>7. GenTyped'
  <2>1. \A w \in Running' : worker'[w].tries < Tries
    BY <1>0, <1>4, <1>5 DEF GenTyped, Running
  <2> QED BY <1>0, <1>1, <1>4, <1>6, <2>1 DEF GenTyped
<1>8. OneRefresh'
  BY <1>0, <1>1, <1>4, <1>5, <1>6 DEF OneRefresh, Running
<1>9. PreviewFitsUnlessRaced'
  BY <1>0, <1>1, <1>3, <1>5, <1>6 DEF OneRefresh, PreviewFitsUnlessRaced
<1>10. MissedHonestly'
  <2> SUFFICES ASSUME NEW w \in Running', worker'[w].pc = "sent", worker'[w].c.opts.tab = "password", ~worker'[w].met
               PROVE  MayMiss(worker'[w].c)
    BY DEF MissedHonestly, MayMiss
  <2> QED BY <1>0, <1>4, <1>5 DEF MissedHonestly, Running
<1> QED BY <1>7, <1>8, <1>9, <1>10 DEF GenInv

(* Every moved of the generator keeps the invariant.                        *)
LEMMA GenStep == GenInv /\ [GenNext]_genVars => GenInv'
<1> SUFFICES ASSUME GenInv, [GenNext]_genVars PROVE GenInv'
  OBVIOUS
<1>1. CASE UNCHANGED genVars
  BY <1>1 DEF genVars, GenInv, GenTyped, Running, OneRefresh, PreviewFitsUnlessRaced, MissedHonestly, MayMiss
<1>2. CASE GenNext
  BY <1>2, GenKeys, GenTries, GenAnswers DEF GenNext
<1> QED BY <1>1, <1>2

(* The generator keeps its invariant.                                      *)
THEOREM GenInductive == GenSpec => []GenInv
BY GenInitial, GenStep, PTL DEF GenSpec

(* Minimums of one at most, for classes that are chosen, are met by the    *)
(* first try: the generator picks one of every class.                      *)
LEMMA OneIsNotMissed ==
    ASSUME NEW c \in [opts : Options, minDigits : Nat, minSymbols : Nat], c.opts.tab = "password",
           c.minDigits <= (IF "digits" \in c.opts.classes THEN 1 ELSE 0),
           c.minSymbols <= (IF "symbols" \in c.opts.classes THEN 1 ELSE 0)
    PROVE  ~MayMiss(c)
<1> SUFFICES ASSUME NEW p \in GeneratePassword(c.opts)
             PROVE  p.digits >= c.minDigits /\ p.symbols >= c.minSymbols
  BY DEF MayMiss, passGenMeetsMinimums
<1>1. c.opts.length \in Nat
  BY GenAssumption DEF Options, Lengths
<1> QED BY <1>1 DEF GeneratePassword

(* Without a race between two refreshes the preview on the screen, and the *)
(* password handed to the form, were made with the options shown; a        *)
(* password misses the minimums only when they ask for more than one       *)
(* character of a class (refreshCmd of tui/passgen.go and                  *)
(* GeneratePassword).  For every bound of the sliders and every number of  *)
(* tries.                                                                  *)
THEOREM PreviewsAsAsked == GenSpec => []PreviewIsAsAsked
<1>1. GenInv => PreviewIsAsAsked
  <2> SUFFICES ASSUME GenInv PROVE OneOfEachIsAlwaysMet
    BY DEF GenInv, PreviewIsAsAsked
  <2>1. SUFFICES ASSUME NEW w \in Running, worker[w].pc = "sent", worker[w].c.opts.tab = "password",
           worker[w].c.minDigits <= (IF "digits" \in worker[w].c.opts.classes THEN 1 ELSE 0),
           worker[w].c.minSymbols <= (IF "symbols" \in worker[w].c.opts.classes THEN 1 ELSE 0)
        PROVE worker[w].met
    BY DEF OneOfEachIsAlwaysMet
  <2>2. worker[w] \in Refreshes
    BY WorkerTyped DEF GenInv, Running
  <2>3. PICK c \in [opts : Options, minDigits : Nat, minSymbols : Nat] : c = worker[w].c
    BY <2>2 DEF Refreshes
  <2>4. ~MayMiss(c)
    BY <2>1, <2>3, OneIsNotMissed
  <2> QED BY <2>1, <2>3, <2>4 DEF GenInv, MissedHonestly
<1> QED BY <1>1, GenInductive, PTL

(* The types of the generator follow.                                      *)
LEMMA GenTypes == GenInv => GenTypeOK
<1> SUFFICES ASSUME GenInv PROVE GenTypeOK
  OBVIOUS
<1>1. \A w \in Running : worker[w] \in Refreshes
  BY WorkerTyped DEF GenInv, Running
<1> QED BY <1>1 DEF GenInv, GenTyped, GenTypeOK, Refreshes

(* There are four classes of characters.                                   *)
LEMMA ClassCount ==
    ASSUME NEW C \in SUBSET {"lower", "upper", "digits", "symbols"}
    PROVE  IsFiniteSet(C) /\ Cardinality(C) \in 0..4
<1>1. PICK A : A = {"lower", "upper", "digits", "symbols"}
  OBVIOUS
<1>2. IsFiniteSet({"lower"}) /\ Cardinality({"lower"}) = 1
  BY FS_Singleton
<1>3. IsFiniteSet({"lower", "upper"}) /\ Cardinality({"lower", "upper"}) = 2
  <2>1. {"lower", "upper"} = {"lower"} \cup {"upper"} /\ "upper" \notin {"lower"}
    OBVIOUS
  <2> QED BY <1>2, <2>1, FS_AddElement
<1>4. IsFiniteSet({"lower", "upper", "digits"}) /\ Cardinality({"lower", "upper", "digits"}) = 3
  <2>1. {"lower", "upper", "digits"} = {"lower", "upper"} \cup {"digits"} /\ "digits" \notin {"lower", "upper"}
    OBVIOUS
  <2> QED BY <1>3, <2>1, FS_AddElement
<1>5. IsFiniteSet(A) /\ Cardinality(A) = 4
  <2>1. A = {"lower", "upper", "digits"} \cup {"symbols"} /\ "symbols" \notin {"lower", "upper", "digits"}
    BY <1>1
  <2> QED BY <1>4, <2>1, FS_AddElement
<1>6. IsFiniteSet(C) /\ Cardinality(C) <= Cardinality(A)
  BY <1>1, <1>5, FS_Subset
<1> QED BY <1>5, <1>6, FS_CardinalityType

(* A part of a hundred of the panel fits the panel.                        *)
LEMMA BarFits ==
    ASSUME NEW s \in 0..100, NEW w \in Nat
    PROVE  (s * w) \div 100 <= w
<1>1. PICK p \in Int : p = s * w
  OBVIOUS
<1>2. p <= 100 * w
  <2>1. 100 * w - p = (100 - s) * w
    BY <1>1
  <2>2. 100 - s \in Nat
    OBVIOUS
  <2>3. (100 - s) * w \in Nat
    BY <2>2
  <2> QED BY <2>1, <2>3
<1>3. p \div 100 <= w
  BY <1>2
<1> QED BY <1>1, <1>3

(* The strength bar fits the panel, and a longer password or one more      *)
(* class is never shown as weaker.                                         *)
LEMMA StrengthFits == GenTyped => StrengthBarFits
<1> SUFFICES ASSUME GenTyped, pg # NoGen, pg.preview.opts.tab = "password" PROVE StrengthBarFits
  BY DEF StrengthBarFits
<1>1. PICK C : C = pg.preview.opts.classes
  OBVIOUS
<1>2. C \in SUBSET {"lower", "upper", "digits", "symbols"}
  <2>1. pg.preview.opts \in Options
    BY DEF GenTyped, Previews
  <2> QED BY <1>1, <2>1 DEF Options
<1>3. ASSUME NEW l \in {1, 7, 11, 15, 23, 24}
      PROVE  /\ strengthBar(l, C) <= PanelWidth
             /\ Score(l, C) <= Score(l + 1, C)
             /\ \A c \in {"upper", "digits", "symbols"} : Score(l, C) <= Score(l, C \cup {c})
  <2>1. PICK n \in 0..4 : n = Cardinality(C)
    BY <1>2, ClassCount
  <2>2. PICK s \in 0..100 : s = Score(l, C)
    BY <1>3, <2>1 DEF Score
  <2>3. strengthBar(l, C) <= PanelWidth
    BY <2>2, BarFits, GenAssumption DEF strengthBar
  <2>4. Score(l, C) <= Score(l + 1, C)
    BY <1>3, <2>1 DEF Score
  <2>5. ASSUME NEW c \in {"upper", "digits", "symbols"}
        PROVE  Score(l, C) <= Score(l, C \cup {c})
    <3>1. PICK m \in Nat : m = Cardinality(C \cup {c})
      <4>1. IsFiniteSet(C \cup {c})
        BY <1>2, ClassCount, FS_AddElement
      <4> QED BY <4>1, FS_CardinalityType
    <3>2. n <= m
      <4>1. IsFiniteSet(C)
        BY <1>2, ClassCount
      <4>2. Cardinality(C \cup {c}) = IF c \in C THEN Cardinality(C) ELSE Cardinality(C) + 1
        BY <4>1, FS_AddElement
      <4> QED BY <2>1, <3>1, <4>2
    <3> QED BY <1>3, <2>1, <3>1, <3>2 DEF Score
  <2> QED BY <2>3, <2>4, <2>5
<1> QED BY <1>1, <1>3 DEF StrengthBarFits

-----------------------------------------------------------------------------
(* The list and the detail of the vault: ListSpec of VaultList.            *)

(* While nothing has moved the rows under it, the revealed secret is that  *)
(* of the row on which the user pressed the key.                           *)
RevealedIsAsked == revealPwd /\ ~shifted => OnRow /\ Selected.id = asked

(* The inductive invariant of the reveal flag: ClearOnlyWhereAsked is      *)
(* about what renderDetail draws, RevealedIsAsked about the selection it   *)
(* draws from.                                                             *)
ListInv == revealPwd \in BOOLEAN /\ RevealedIsAsked

(* The steps that leave the rows and the selection where they are.         *)
SameRows == UNCHANGED <<listing, catIdx, listIdx, sort, searchQuery>>

(* The selected row is a function of the listing, the category, the index, *)
(* the sorting and the search.                                             *)
LEMMA SameSelection ==
    ASSUME SameRows
    PROVE  OnRow' = OnRow /\ Selected' = Selected
<1>1. selectedCat' = selectedCat
  BY DEF SameRows, selectedCat
<1>2. filteredItems' = filteredItems
  BY <1>1 DEF SameRows, filteredItems
<1> QED BY <1>2 DEF SameRows, OnRow, Selected

(* A step that hides the secret.                                           *)
LEMMA HiddenStep ==
    ASSUME revealPwd' = FALSE
    PROVE  ListInv'
BY DEF ListInv, RevealedIsAsked

(* A step that moves no row and reveals nothing.                           *)
LEMMA StillStep ==
    ASSUME ListInv, SameRows, UNCHANGED <<revealPwd, asked, shifted>>
    PROVE  ListInv'
BY SameSelection DEF ListInv, RevealedIsAsked

(* A step that may put another row under a revealed secret says so.        *)
LEMMA ShiftedStep ==
    ASSUME ListInv, revealPwd' = revealPwd, revealPwd => shifted'
    PROVE  ListInv'
BY DEF ListInv, RevealedIsAsked

(* Typing a search moves the rows.                                         *)
LEMMA QueryStep ==
    ASSUME ListInv, NEW q, Query(q)
    PROVE  ListInv'
<1>1. /\ UNCHANGED <<listing, catIdx, listIdx, sort, revealPwd, asked>>
      /\ searchQuery' = q /\ shifted' = (shifted \/ (revealPwd /\ q # searchQuery))
  BY DEF Query, cursor
<1>2. CASE q = searchQuery
  <2>1. SameRows
    BY <1>1, <1>2 DEF SameRows
  <2>2. RevealedIsAsked'
    BY <1>1, <1>2, <2>1, SameSelection DEF ListInv, RevealedIsAsked
  <2> QED BY <1>1, <2>2 DEF ListInv
<1>3. CASE q # searchQuery
  BY <1>1, <1>3, ShiftedStep
<1> QED BY <1>2, <1>3

(* Every step of the list keeps the invariant.                             *)
LEMMA ListStep == ListInv /\ [ListNext]_listVars => ListInv'
<1> SUFFICES ASSUME ListInv, [ListNext]_listVars PROVE ListInv'
  OBVIOUS
<1>1. CASE UpKey \/ DownKey \/ (\E b \in BOOLEAN : TabKey(b)) \/ QuitKey
  <2>1. revealPwd' = FALSE
    BY <1>1 DEF UpKey, DownKey, TabKey, QuitKey, GoCategory, GoRow, Hide
  <2> QED BY <2>1, HiddenStep
<1>2. CASE \/ \E b \in BOOLEAN : FocusKey(b)
           \/ \E f \in {"password", "username", "totp"} : copyField(f)
           \/ GeneratorCopy \/ ClearClip
           \/ \E w \in Widths : Resize(w)
           \/ UNCHANGED listVars
  <2>1. SameRows /\ UNCHANGED <<revealPwd, asked, shifted>>
    BY <1>2 DEF FocusKey, copyField, GeneratorCopy, ClearClip, Resize, listVars, SameRows, cursor, view, past
  <2> QED BY <2>1, StillStep
<1>3. CASE SortKey \/ \E l \in Listings : Loaded(l)
  <2>1. revealPwd' = revealPwd /\ shifted' = (shifted \/ revealPwd)
    BY <1>3 DEF SortKey, Loaded, view
  <2> QED BY <2>1, ShiftedStep
<1>4. CASE SearchKey \/ SearchEsc \/ SearchEnter \/ SearchErase \/ \E c \in Letters : SearchType(c)
  <2>1. \E q : Query(q)
    BY <1>4 DEF SearchKey, SearchEsc, SearchEnter, SearchErase, SearchType
  <2> QED BY <2>1, QueryStep
<1>5. CASE RevealKey
  <2>1. /\ SameRows /\ revealPwd' = ~revealPwd
        /\ asked' = IF ~revealPwd /\ OnRow THEN Selected.id ELSE 0
        /\ shifted' = (~revealPwd /\ ~OnRow)
    BY <1>5 DEF RevealKey, SameRows, cursor
  <2>2. revealPwd' \in BOOLEAN
    BY <2>1
  <2>3. RevealedIsAsked'
    <3> SUFFICES ASSUME revealPwd', ~shifted' PROVE OnRow' /\ Selected'.id = asked'
      BY DEF RevealedIsAsked
    <3>1. ~revealPwd /\ OnRow
      BY <2>1
    <3> QED BY <2>1, <3>1, SameSelection
  <2> QED BY <2>2, <2>3 DEF ListInv
<1> QED BY <1>1, <1>2, <1>3, <1>4, <1>5 DEF ListNext

(* The list keeps its invariant.                                           *)
THEOREM ListInductive == ListSpec => []ListInv
<1>1. ListInit => ListInv
  BY DEF ListInit, ListInv, RevealedIsAsked
<1> QED BY <1>1, ListStep, PTL DEF ListSpec

(* With the reveal flag off, renderDetail shows no masked field.           *)
LEMMA HiddenShowsNothing ==
    ASSUME NEW it
    PROVE  renderDetail(it, FALSE) \cap Masked(it) = {}
BY DEF renderDetail, renderLoginDetail, renderCardDetail, Masked

(* renderDetail draws a password, a card number of more than four          *)
(* characters, a CVV or a private key in clear only for the row on which   *)
(* the user pressed p, unless a reload, a new order or a search put        *)
(* another row under the cursor: every key that moves the cursor itself    *)
(* clears revealPwd (tui/app.go).  For every listing, every width and      *)
(* every query.                                                            *)
THEOREM RevealedWhereAsked == ListSpec => []ClearOnlyWhereAsked
<1>1. ListInv => ClearOnlyWhereAsked
  <2> SUFFICES ASSUME ListInv, OnRow, ~shifted, renderDetail(Selected, revealPwd) \cap Masked(Selected) # {}
               PROVE  Selected.id = asked
    BY DEF ClearOnlyWhereAsked
  <2>1. revealPwd
    BY HiddenShowsNothing DEF ListInv
  <2> QED BY <2>1 DEF ListInv, RevealedIsAsked
<1> QED BY <1>1, ListInductive, PTL

(* What ListAssumption says.                                               *)
LEMMA ListNumbers ==
    /\ Listings \subseteq Seq(Entries) /\ Letters \subseteq Nat /\ Widths \subseteq Nat
    /\ MaxQuery \in Nat /\ MaxCopies \in Nat /\ MaxLoads \in Nat
BY ListAssumption

(* A listing has finitely many folders.                                    *)
LEMMA FoldersFinite ==
    ASSUME NEW l, l \in Seq(Entries)
    PROVE  IsFiniteSet(FoldersOf(l)) /\ Cardinality(FoldersOf(l)) \in Nat /\ FoldersOf(l) \subseteq Nat
<1>1. DOMAIN l = 1..Len(l) /\ Len(l) \in Nat /\ \A k \in DOMAIN l : l[k] \in Entries
  OBVIOUS
<1>2. IsFiniteSet(DOMAIN l)
  BY <1>1, FS_Interval
<1>3. PICK D \in SUBSET DOMAIN l : D = {j \in DOMAIN l : ~Has(l[j], "archived") /\ ~Has(l[j], "trashed")}
  OBVIOUS
<1>4. IsFiniteSet(D)
  BY <1>2, <1>3, FS_Subset
<1>5. PICK T : T = {l[k].folder : k \in D}
  OBVIOUS
<1>6. IsFiniteSet(T)
  <2>1. PICK f \in [D -> T] : f = [k \in D |-> l[k].folder]
    BY <1>5
  <2>2. \A t \in T : \E k \in D : f[k] = t
    BY <1>5, <2>1
  <2>3. f \in Surjection(D, T)
    BY <2>2 DEF Surjection
  <2> QED BY <1>4, <2>3, FS_Surjection
<1>7. FoldersOf(l) = T \ {0}
  BY <1>3, <1>5 DEF FoldersOf
<1>8. IsFiniteSet(FoldersOf(l))
  BY <1>6, <1>7, FS_Subset
<1>9. T \subseteq Nat
  BY <1>1, <1>3, <1>5 DEF Entries
<1> QED BY <1>7, <1>8, <1>9, FS_CardinalityType

(* The sidebar has ten entries besides the folders.                        *)
LEMMA SidebarLength ==
    ASSUME NEW l, l \in Seq(Entries)
    PROVE  catCount(l) = Cardinality(FoldersOf(l)) + 10 /\ catCount(l) \in Nat
<1>1. PICK n \in Nat : n = Cardinality(FoldersOf(l))
  BY FoldersFinite
<1>2. PICK F : F = [k \in 1..n |-> Cat("folder", FolderAt(l, k))]
  OBVIOUS
<1>3. F \in Seq([view : {"folder"}, folder : {FolderAt(l, k) : k \in 1..n}]) /\ Len(F) = n
  BY <1>2 DEF Cat
<1>4. PICK S : S = [view : {"all", "fav", "login", "card", "identity", "note", "ssh", "file", "folder", "archive", "trash"},
                    folder : {FolderAt(l, k) : k \in 1..n} \cup {0}]
  OBVIOUS
<1>5. FixedCats \in Seq(S) /\ Len(FixedCats) = 8
  BY <1>4 DEF FixedCats, Cat
<1>6. PICK L : L = <<Cat("archive", 0), Cat("trash", 0)>>
  OBVIOUS
<1>7. L \in Seq(S) /\ Len(L) = 2
  BY <1>4, <1>6 DEF Cat
<1>8. F \in Seq(S)
  BY <1>2, <1>4 DEF Cat
<1>9. PICK P : P = FixedCats \o F
  OBVIOUS
<1>10. P \in Seq(S) /\ Len(P) = 8 + n
  BY <1>3, <1>5, <1>8, <1>9, Joined
<1>11. Sidebar(l) = P \o L
  BY Zenon, <1>1, <1>2, <1>6, <1>9 DEF Sidebar
<1>12. Len(P \o L) = Len(P) + Len(L)
  BY <1>7, <1>10, Joined
<1>13. Len(P \o L) = 10 + n
  BY <1>7, <1>10, <1>12
<1>14. Len(Sidebar(l)) = 10 + n
  BY <1>11, <1>13, Zenon
<1> QED BY <1>1, <1>14 DEF catCount

(* The types of the list.  The category is an entry of the sidebar of the  *)
(* listing that is loaded.                                                 *)
ListTyped == ListTypeOK /\ copies \in 0..MaxCopies /\ CategoryInRange

(* What is loaded is a sequence of items.                                  *)
LEMMA ListedIsSeq ==
    ASSUME ListTypeOK PROVE listing \in Seq(Entries)
<1>1. <<>> \in Seq(Entries)
  OBVIOUS
<1> QED BY <1>1, ListNumbers DEF ListTypeOK

(* Nothing is loaded and the first category is selected.                   *)
LEMMA ListTypedInitial == ListInit => ListTyped
<1> SUFFICES ASSUME ListInit PROVE ListTyped
  OBVIOUS
<1>e. PICK e : e = <<>>
  OBVIOUS
<1>1. e \in Seq(Entries) /\ e \in Seq(Letters) /\ e \in Seq(1..MaxCopies) /\ Len(e) = 0
  BY <1>e
<1>2. catCount(e) \in Nat /\ catCount(e) >= 10
  <2>1. Cardinality(FoldersOf(e)) \in Nat
    BY <1>1, FoldersFinite
  <2>2. catCount(e) = Cardinality(FoldersOf(e)) + 10
    BY <1>1, SidebarLength
  <2> QED BY <2>1, <2>2
<1>3. listing = e /\ searchQuery = e /\ timers = e
  BY <1>e DEF ListInit
<1>4. CategoryInRange
  <2>1. catIdx = 0
    BY DEF ListInit
  <2> QED BY <1>2, <1>3, <2>1 DEF CategoryInRange
<1>5. /\ sidebarFocus \in BOOLEAN /\ revealPwd \in BOOLEAN /\ searching \in BOOLEAN /\ quit \in BOOLEAN
      /\ untimed \in BOOLEAN
  BY Zenon DEF ListInit
<1>6. listIdx \in Nat /\ sort \in 0..2 /\ width \in Widths \cup {0} /\ clip \in 0..MaxCopies /\ copies \in 0..MaxCopies
  BY ListNumbers DEF ListInit
<1> QED BY <1>e, <1>1, <1>3, <1>4, <1>5, <1>6, ListNumbers DEF ListTyped, ListTypeOK

(* The sidebar is never empty.                                             *)
LEMMA SomeCategories ==
    ASSUME NEW l \in Seq(Entries)
    PROVE  catCount(l) \in Nat /\ catCount(l) > 0
<1>1. PICK n \in Nat : n = Cardinality(FoldersOf(l))
  BY FoldersFinite
<1>2. catCount(l) = n + 10
  BY <1>1, SidebarLength
<1> QED BY <1>2

(* Another category.                                                       *)
LEMMA CategoryStep ==
    ASSUME ListTyped, NEW k, k \in 0..(catCount(listing) - 1), GoCategory(k)
    PROVE  ListTyped'
<1>1. UNCHANGED <<listing, sidebarFocus, sort, searchQuery, searching, width, clip, timers, copies, untimed, quit>>
  BY DEF GoCategory, clipped
<1>2. catIdx' = k /\ listIdx' = 0 /\ revealPwd' = FALSE
  BY DEF GoCategory, Hide
<1>3. CategoryInRange'
  BY <1>1, <1>2 DEF CategoryInRange
<1>4. ListTypeOK'
  BY <1>1, <1>2 DEF ListTyped, ListTypeOK
<1> QED BY <1>1, <1>3, <1>4 DEF ListTyped

(* Another row.                                                            *)
LEMMA RowStep ==
    ASSUME ListTyped, NEW k \in Nat, GoRow(k)
    PROVE  ListTyped'
<1>1. UNCHANGED <<listing, catIdx, sidebarFocus, sort, searchQuery, searching, width, clip, timers, copies, untimed, quit>>
  BY DEF GoRow, clipped
<1>2. listIdx' = k /\ revealPwd' = FALSE
  BY DEF GoRow, Hide
<1>3. CategoryInRange'
  BY <1>1 DEF CategoryInRange, ListTyped
<1>4. ListTypeOK'
  BY <1>1, <1>2 DEF ListTyped, ListTypeOK
<1> QED BY <1>1, <1>3, <1>4 DEF ListTyped

(* Tab and shift-tab go round.                                             *)
LEMMA Round ==
    ASSUME NEW n \in Nat, n > 0, NEW c \in 0..(n - 1), NEW d \in {1, n - 1}
    PROVE  (c + d) % n \in 0..(n - 1)
<1>1. c + d \in Int
  OBVIOUS
<1> QED BY <1>1

(* The keys that move the cursor.                                          *)
LEMMA MoveSteps ==
    ASSUME ListTyped, UpKey \/ DownKey \/ \E b \in BOOLEAN : TabKey(b)
    PROVE  ListTyped'
<1>0. listing \in Seq(Entries) /\ listIdx \in Nat
  BY ListedIsSeq DEF ListTyped, ListTypeOK
<1>1. PICK n \in Nat : n = catCount(listing)
  BY <1>0, SomeCategories
<1>2. n > 0 /\ catIdx \in 0..(n - 1)
  BY <1>0, <1>1, SomeCategories DEF ListTyped, CategoryInRange
<1>3. CASE UpKey
  <2>1. CASE catIdx > 0 /\ GoCategory(catIdx - 1)
    <3>1. catIdx - 1 \in 0..(n - 1)
      BY <1>2, <2>1
    <3> QED BY <1>1, <2>1, <3>1, CategoryStep
  <2>2. CASE listIdx > 0 /\ GoRow(listIdx - 1)
    <3>1. listIdx - 1 \in Nat
      BY <1>0, <2>2
    <3> QED BY <2>2, <3>1, RowStep
  <2> QED BY <1>3, <2>1, <2>2 DEF UpKey
<1>4. CASE DownKey
  <2>1. CASE catIdx < n - 1 /\ GoCategory(catIdx + 1)
    <3>1. catIdx + 1 \in 0..(n - 1)
      BY <1>2, <2>1
    <3> QED BY <1>1, <2>1, <3>1, CategoryStep
  <2>2. CASE GoRow(listIdx + 1)
    <3>1. listIdx + 1 \in Nat
      BY <1>0
    <3> QED BY <2>2, <3>1, RowStep
  <2> QED BY <1>1, <1>4, <2>1, <2>2 DEF DownKey
<1>5. CASE \E b \in BOOLEAN : TabKey(b)
  <2>1. PICK d \in {1, n - 1} : GoCategory((catIdx + d) % n)
    BY <1>1, <1>5 DEF TabKey
  <2>2. (catIdx + d) % n \in 0..(n - 1)
    BY <1>2, Round
  <2> QED BY <1>1, <2>1, <2>2, CategoryStep
<1> QED BY <1>3, <1>4, <1>5

(* The keys that reveal, sort and change sides, and a resize.              *)
LEMMA FlagSteps ==
    ASSUME ListTyped, RevealKey \/ SortKey \/ (\E b \in BOOLEAN : FocusKey(b)) \/ \E w \in Widths : Resize(w)
    PROVE  ListTyped'
<1>1. UNCHANGED <<listing, catIdx, searchQuery, searching, clip, timers, copies, untimed, quit>>
  BY DEF RevealKey, SortKey, FocusKey, Resize, cursor, view, clipped
<1>2. CategoryInRange'
  BY <1>1 DEF CategoryInRange, ListTyped
<1>3. sidebarFocus' \in BOOLEAN /\ revealPwd' \in BOOLEAN
  BY Zenon DEF RevealKey, SortKey, FocusKey, Resize, cursor, view, ListTyped, ListTypeOK
<1>4. listIdx' \in Nat /\ sort' \in 0..2 /\ width' \in Widths \cup {0}
  BY DEF RevealKey, SortKey, FocusKey, Resize, cursor, view, ListTyped, ListTypeOK
<1>5. ListTypeOK'
  BY <1>1, <1>3, <1>4 DEF ListTyped, ListTypeOK
<1> QED BY <1>1, <1>2, <1>5 DEF ListTyped

(* Another search text.                                                    *)
LEMMA TypingStep ==
    ASSUME ListTyped, NEW q \in Seq(Letters), Len(q) <= MaxQuery, searching' \in BOOLEAN, Query(q)
    PROVE  ListTyped'
<1>1. /\ UNCHANGED <<listing, catIdx, listIdx, sidebarFocus, revealPwd, sort, width, clip, timers, copies, untimed, quit>>
      /\ searchQuery' = q
  BY DEF Query, cursor, clipped
<1>2. CategoryInRange'
  BY <1>1 DEF CategoryInRange, ListTyped
<1>3. ListTypeOK'
  BY <1>1 DEF ListTyped, ListTypeOK
<1> QED BY <1>1, <1>2, <1>3 DEF ListTyped

(* The keys of the search.                                                 *)
LEMMA SearchSteps ==
    ASSUME ListTyped,
           SearchKey \/ SearchEsc \/ SearchEnter \/ SearchErase \/ \E c \in Letters : SearchType(c)
    PROVE  ListTyped'
<1>0. searchQuery \in Seq(Letters) /\ Len(searchQuery) \in Nat /\ Len(searchQuery) <= MaxQuery /\ searching \in BOOLEAN
  BY DEF ListTyped, ListTypeOK
<1>e. PICK e : e = <<>>
  OBVIOUS
<1>f. e \in Seq(Letters) /\ Len(e) <= MaxQuery
  BY <1>e, ListNumbers
<1>1. CASE SearchKey \/ SearchEsc
  <2>1. Query(e) /\ searching' \in BOOLEAN
    BY <1>1, <1>e, Zenon DEF SearchKey, SearchEsc
  <2> QED BY <1>f, <2>1, TypingStep
<1>2. CASE SearchEnter
  <2>1. Query(searchQuery) /\ searching' \in BOOLEAN
    BY <1>2, Zenon DEF SearchEnter
  <2> QED BY <1>0, <2>1, TypingStep
<1>3. CASE SearchErase
  <2>1. PICK q : q = SubSeq(searchQuery, 1, Len(searchQuery) - 1)
    OBVIOUS
  <2>2. Len(searchQuery) > 0
    BY <1>0, <1>3 DEF SearchErase
  <2>3. q \in Seq(Letters) /\ Len(q) <= MaxQuery
    BY <1>0, <2>1, <2>2, ListNumbers
  <2>4. Query(q) /\ searching' \in BOOLEAN
    BY <1>0, <1>3, <2>1 DEF SearchErase
  <2> QED BY <2>3, <2>4, TypingStep
<1>4. CASE \E c \in Letters : SearchType(c)
  <2>1. PICK c \in Letters : SearchType(c)
    BY <1>4
  <2>2. PICK q : q = Append(searchQuery, c)
    OBVIOUS
  <2>3. Len(searchQuery) < MaxQuery
    BY <2>1 DEF SearchType
  <2>4. q \in Seq(Letters) /\ Len(q) <= MaxQuery
    BY <1>0, <2>2, <2>3, ListNumbers
  <2>5. Query(q) /\ searching' \in BOOLEAN
    BY <1>0, <2>1, <2>2 DEF SearchType
  <2> QED BY <2>4, <2>5, TypingStep
<1> QED BY <1>1, <1>2, <1>3, <1>4

(* Copying, and the end of a copy.                                         *)
LEMMA ClipStep ==
    ASSUME ListTyped, ClearClip \/ GeneratorCopy \/ \E f \in {"password", "username", "totp"} : copyField(f)
    PROVE  ListTyped'
<1>0. timers \in Seq(1..MaxCopies) /\ copies \in 0..MaxCopies
  BY DEF ListTyped, ListTypeOK
<1>1. UNCHANGED <<listing, catIdx, listIdx, sidebarFocus, revealPwd, sort, searchQuery, searching, width, quit>>
  BY DEF ClearClip, GeneratorCopy, copyField, cursor, view
<1>u. untimed' \in BOOLEAN
  BY Zenon DEF ClearClip, GeneratorCopy, copyField
<1>2. clip' \in 0..MaxCopies /\ copies' \in 0..MaxCopies /\ timers' \in Seq(1..MaxCopies)
  <2>1. CASE ClearClip
    <3>1. Tail(timers) \in Seq(1..MaxCopies)
      BY <1>0, <2>1 DEF ClearClip
    <3> QED BY <1>0, <2>1, <3>1, ListNumbers DEF ClearClip
  <2>2. CASE \E f \in {"password", "username", "totp"} : copyField(f)
    <3>1. copies < MaxCopies /\ copies' = copies + 1 /\ clip' = copies + 1 /\ timers' = Append(timers, copies + 1)
      BY <2>2 DEF copyField
    <3>2. copies + 1 \in 1..MaxCopies
      BY <1>0, <3>1, ListNumbers
    <3>3. Append(timers, copies + 1) \in Seq(1..MaxCopies)
      BY <1>0, <3>2
    <3> QED BY <3>1, <3>2, <3>3, ListNumbers
  <2>3. CASE GeneratorCopy
    <3>1. copies < MaxCopies /\ copies' = copies + 1 /\ clip' = copies + 1 /\ timers' = timers
      BY <2>3 DEF GeneratorCopy
    <3> QED BY <1>0, <3>1, ListNumbers
  <2> QED BY <2>1, <2>2, <2>3
<1>3. CategoryInRange'
  BY <1>1 DEF CategoryInRange, ListTyped
<1>4. ListTypeOK'
  BY <1>1, <1>2, <1>u DEF ListTyped, ListTypeOK
<1> QED BY <1>2, <1>3, <1>4 DEF ListTyped

(* A reload: ClampCat brings the category back among the new entries.      *)
LEMMA LoadedStep ==
    ASSUME ListTyped, NEW l \in Listings, Loaded(l)
    PROVE  ListTyped'
<1>1. UNCHANGED <<sidebarFocus, revealPwd, sort, searchQuery, searching, width, clip, timers, copies, untimed, quit>>
  BY DEF Loaded, view, clipped
<1>2. listing' = l /\ listIdx' = 0 /\ catIdx' = ClampCat(l)
  BY DEF Loaded
<1>3. PICK n \in Nat : n = catCount(l)
  BY ListNumbers, SomeCategories
<1>4. n > 0
  BY <1>3, ListNumbers, SomeCategories
<1>5. catIdx \in Nat
  <2>1. catCount(listing) \in Nat
    BY ListedIsSeq, SomeCategories DEF ListTyped
  <2> QED BY <2>1 DEF ListTyped, CategoryInRange
<1>6. ClampCat(l) \in 0..(n - 1)
  BY <1>3, <1>4, <1>5 DEF ClampCat
<1>7. CategoryInRange'
  BY <1>2, <1>3, <1>6 DEF CategoryInRange
<1>8. ListTypeOK'
  BY <1>1, <1>2 DEF ListTyped, ListTypeOK
<1> QED BY <1>1, <1>7, <1>8 DEF ListTyped

(* The end of the program.                                                 *)
LEMMA QuitStep ==
    ASSUME ListTyped, QuitKey
    PROVE  ListTyped'
<1>e. PICK e : e = <<>>
  OBVIOUS
<1>1. e \in Seq(Entries) /\ e \in Seq(Letters) /\ e \in Seq(1..MaxCopies) /\ Len(e) = 0
  BY <1>e
<1>2. catCount(e) \in Nat /\ catCount(e) > 0
  BY <1>1, SomeCategories
<1>3. listing' = e /\ searchQuery' = e /\ timers' = e
  BY <1>e DEF QuitKey
<1>4. CategoryInRange'
  <2>1. catIdx' = 0
    BY DEF QuitKey
  <2> QED BY <1>2, <1>3, <2>1 DEF CategoryInRange
<1>5. /\ sidebarFocus' \in BOOLEAN /\ revealPwd' \in BOOLEAN /\ searching' \in BOOLEAN /\ quit' \in BOOLEAN
  BY Zenon DEF QuitKey
<1>u. untimed' \in BOOLEAN
  BY Zenon DEF QuitKey, ListTyped, ListTypeOK
<1>6. /\ listIdx' \in Nat /\ sort' \in 0..2 /\ width' \in Widths \cup {0}
      /\ clip' \in 0..MaxCopies /\ copies' \in 0..MaxCopies
  BY DEF QuitKey, ListTyped, ListTypeOK
<1> QED BY <1>e, <1>1, <1>3, <1>4, <1>5, <1>6, <1>u, ListNumbers DEF ListTyped, ListTypeOK

(* Every step of the list keeps the types.                                 *)
LEMMA ListTypedStep == ListTyped /\ [ListNext]_listVars => ListTyped'
<1> SUFFICES ASSUME ListTyped, [ListNext]_listVars PROVE ListTyped'
  OBVIOUS
<1>1. CASE UNCHANGED listVars
  <2>1. UNCHANGED <<listing, catIdx, listIdx, sidebarFocus, revealPwd, sort, searchQuery, searching, width, clip, timers, copies, untimed, quit>>
    BY <1>1 DEF listVars, cursor, view, clipped
  <2>2. CategoryInRange'
    BY <2>1 DEF CategoryInRange, ListTyped
  <2> QED BY <2>1, <2>2 DEF ListTyped, ListTypeOK
<1>2. CASE ListNext
  BY <1>2, MoveSteps, FlagSteps, SearchSteps, ClipStep, LoadedStep, QuitStep DEF ListNext
<1> QED BY <1>1, <1>2

(* Every width leaves a panel whose bars are not negative.                 *)
LEMMA RepeatsFit == ListTyped => RepeatsNotNegative
<1> SUFFICES ASSUME ListTyped PROVE RepeatsNotNegative
  OBVIOUS
<1>1. width \in Nat
  BY ListNumbers DEF ListTyped, ListTypeOK
<1>2. DetailWidth(width) \in {72, 60, 50, 42, 0}
  BY <1>1 DEF DetailWidth
<1>3. TextWidth(width) \in {68, 56, 46, 38, 0}
  BY <1>2 DEF TextWidth
<1>4. ListWidth(width) - 4 >= 0
  BY <1>1, <1>2 DEF ListWidth
<1>5. ASSUME NEW left \in {1, 15, 30}, NEW w \in {66, 54, 44, 36}, NEW k \in 1..2
      PROVE  totpBar(left, w)[k] >= 0
  BY <1>5 DEF totpBar
<1> QED BY <1>3, <1>4, <1>5 DEF RepeatsNotNegative

(* The numbers of S below f.                                               *)
Below(S, f) == {g \in S : g < f}

(* There are more of them below a greater number.                          *)
LEMMA BelowGrows ==
    ASSUME NEW S \in SUBSET Nat, IsFiniteSet(S), NEW f \in S
    PROVE  /\ Cardinality(Below(S, f)) \in Nat /\ Cardinality(Below(S, f)) < Cardinality(S)
           /\ \A g \in S : g < f => Cardinality(Below(S, g)) < Cardinality(Below(S, f))
<1>1. \A x \in S : IsFiniteSet(Below(S, x)) /\ Cardinality(Below(S, x)) \in Nat
  BY FS_Subset, FS_CardinalityType DEF Below
<1>2. ASSUME NEW x \in S, NEW T, IsFiniteSet(T), x \in T, Below(S, x) \subseteq T
      PROVE  Cardinality(Below(S, x)) < Cardinality(T)
  <2>1. x \notin Below(S, x)
    BY DEF Below
  <2>2. Below(S, x) \in SUBSET T /\ T # Below(S, x)
    BY <1>2, <2>1
  <2>3. Cardinality(Below(S, x)) <= Cardinality(T) /\ Cardinality(T) # Cardinality(Below(S, x))
    BY <1>2, <2>2, FS_Subset
  <2>4. Cardinality(T) \in Nat
    BY <1>2, FS_CardinalityType
  <2> QED BY <1>1, <2>3, <2>4
<1>3. Cardinality(Below(S, f)) < Cardinality(S)
  BY <1>2 DEF Below
<1>4. ASSUME NEW g \in S, g < f PROVE Cardinality(Below(S, g)) < Cardinality(Below(S, f))
  <2>0. g \in Nat /\ f \in Nat
    OBVIOUS
  <2>a. ASSUME NEW h \in Below(S, g) PROVE h \in Below(S, f)
    <3>1. h \in Nat /\ h < g /\ h \in S
      BY DEF Below
    <3>2. h < f
      BY <1>4, <2>0, <3>1
    <3> QED BY <3>1, <3>2 DEF Below
  <2>1. g \in Below(S, f) /\ Below(S, g) \subseteq Below(S, f)
    BY <1>4, <2>a DEF Below
  <2> QED BY <1>1, <1>2, <2>1
<1> QED BY <1>1, <1>3, <1>4

(* Every number below the size of S counts the elements below some         *)
(* element.                                                                *)
LEMMA EveryPlace ==
    ASSUME NEW S \in SUBSET Nat, IsFiniteSet(S), NEW n \in Nat, n < Cardinality(S)
    PROVE  \E f \in S : Cardinality(Below(S, f)) = n
<1>1. PICK k \in Nat : k = Cardinality(S)
  BY FS_CardinalityType
<1>2. PICK h : h = [f \in S |-> Cardinality(Below(S, f))]
  OBVIOUS
<1>3. h \in [S -> 0..(k - 1)]
  <2>1. \A f \in S : Cardinality(Below(S, f)) \in Nat /\ Cardinality(Below(S, f)) < k
    BY <1>1, BelowGrows
  <2>2. \A f \in S : Cardinality(Below(S, f)) \in 0..(k - 1)
    BY <2>1
  <2> QED BY <1>2, <2>2
<1>4. ASSUME NEW a \in S, NEW b \in S, h[a] = h[b] PROVE a = b
  <2>1. h[a] \in Nat /\ h[b] \in Nat
    BY <1>2, BelowGrows
  <2>2. a < b => h[a] < h[b]
    BY <1>2, BelowGrows
  <2>3. b < a => h[b] < h[a]
    BY <1>2, BelowGrows
  <2> QED BY <1>4, <2>1, <2>2, <2>3
<1>5. h \in Injection(S, 0..(k - 1))
  BY <1>3, <1>4 DEF Injection, IsInjective
<1>6. IsFiniteSet(0..(k - 1)) /\ Cardinality(0..(k - 1)) = k
  <2>1. 0 \in Int /\ k - 1 \in Int
    OBVIOUS
  <2>2. /\ IsFiniteSet(0..(k - 1))
        /\ Cardinality(0..(k - 1)) = IF 0 > k - 1 THEN 0 ELSE (k - 1) - 0 + 1
    BY <2>1, FS_Interval
  <2> QED BY <2>2
<1>7. h \in Surjection(S, 0..(k - 1))
  BY <1>1, <1>5, <1>6, FS_Injection
<1>8. n \in 0..(k - 1)
  BY <1>1
<1> QED BY <1>2, <1>7, <1>8 DEF Surjection

(* The k-th folder is a folder of an item that is shown.                   *)
LEMMA FoldersAreThere ==
    ASSUME NEW l, l \in Seq(Entries), NEW k \in 1..Cardinality(FoldersOf(l))
    PROVE  FolderAt(l, k) \in FoldersOf(l)
<1>1. PICK S \in SUBSET Nat : S = FoldersOf(l)
  BY FoldersFinite
<1>2. IsFiniteSet(S) /\ Cardinality(S) \in Nat
  BY <1>1, FoldersFinite
<1>3. k - 1 \in Nat /\ k - 1 < Cardinality(S)
  BY <1>1, <1>2
<1>4. \E f \in S : Cardinality(Below(S, f)) = k - 1
  BY <1>2, <1>3, EveryPlace
<1> QED BY <1>1, <1>4 DEF FolderAt, Below

(* The folders of the sidebar are the folders of the listing.              *)
LEMMA SidebarEntries ==
    ASSUME NEW l, l \in Seq(Entries), NEW c \in Range(Sidebar(l)), c.view = "folder"
    PROVE  \E k \in 1..Cardinality(FoldersOf(l)) : c = Cat("folder", FolderAt(l, k))
<1>1. PICK n \in Nat : n = Cardinality(FoldersOf(l))
  BY FoldersFinite
<1>2. PICK F : F = [k \in 1..n |-> Cat("folder", FolderAt(l, k))]
  OBVIOUS
<1>3. PICK S : S = [view : {"all", "fav", "login", "card", "identity", "note", "ssh", "file", "folder", "archive", "trash"},
                    folder : {FolderAt(l, k) : k \in 1..n} \cup {0}]
  OBVIOUS
<1>4. /\ FixedCats \in Seq(S) /\ Len(FixedCats) = 8
      /\ \A i \in 1..8 : FixedCats[i].view # "folder"
  BY <1>3 DEF FixedCats, Cat
<1>5. PICK L : L = <<Cat("archive", 0), Cat("trash", 0)>>
  OBVIOUS
<1>6. L \in Seq(S) /\ Len(L) = 2 /\ \A i \in 1..2 : L[i].view # "folder"
  BY <1>3, <1>5 DEF Cat
<1>7. F \in Seq(S) /\ Len(F) = n
  BY <1>2, <1>3 DEF Cat
<1>8. PICK P : P = FixedCats \o F
  OBVIOUS
<1>9. Sidebar(l) = P \o L
  BY Zenon, <1>1, <1>2, <1>5, <1>8 DEF Sidebar
<1>10. P \in Seq(S) /\ Len(P) = 8 + n
  BY <1>4, <1>7, <1>8, Joined
<1>a. DOMAIN (P \o L) = 1..(Len(P) + Len(L))
  BY <1>6, <1>10, Joined
<1>11. PICK i : i \in DOMAIN (P \o L) /\ c = (P \o L)[i]
  BY <1>9, Zenon DEF Range
<1>12. i \in 1..(10 + n)
  BY <1>6, <1>10, <1>11, <1>a
<1>13. i \in 1..(8 + n)
  <2> SUFFICES ASSUME i > 8 + n PROVE FALSE
    BY <1>12
  <2>1. c = L[i - (8 + n)] /\ i - (8 + n) \in 1..2
    BY <1>6, <1>10, <1>11, <1>12, InSecond
  <2> QED BY <1>6, <2>1
<1>14. c = P[i]
  BY <1>6, <1>10, <1>11, <1>13, InFirst
<1>15. i > 8
  <2> SUFFICES ASSUME i <= 8 PROVE FALSE
    BY <1>13
  <2>1. c = FixedCats[i] /\ i \in 1..8
    <3>1. i \in 1..Len(FixedCats)
      BY <1>4, <1>13
    <3> QED BY <1>4, <1>7, <1>8, <1>14, <3>1, InFirst
  <2> QED BY <1>4, <2>1
<1>16. c = F[i - 8] /\ i - 8 \in 1..n
  <2>1. i \in 1..(Len(FixedCats) + Len(F)) /\ i > Len(FixedCats)
    BY <1>4, <1>7, <1>13, <1>15
  <2>2. c = F[i - Len(FixedCats)]
    BY <1>4, <1>7, <1>8, <1>14, <2>1, InSecond
  <2> QED BY <1>4, <1>13, <1>15, <2>2
<1> QED BY <1>1, <1>2, <1>16

(* An item is in one of All, Archive and Trash, whatever its flags.        *)
LEMMA OneView ==
    ASSUME NEW it
    PROVE  Cardinality({c \in {"all", "archive", "trash"} : InCategory(it, Cat(c, 0))}) = 1
<1>1. PICK V : V = {c \in {"all", "archive", "trash"} : InCategory(it, Cat(c, 0))}
  OBVIOUS
<1>2. CASE Has(it, "trashed")
  <2>1. V = {"trash"}
    BY <1>1, <1>2 DEF InCategory, Cat
  <2> QED BY <1>1, <2>1, FS_Singleton
<1>3. CASE ~Has(it, "trashed") /\ Has(it, "archived")
  <2>1. V = {"archive"}
    BY <1>1, <1>3 DEF InCategory, Cat
  <2> QED BY <1>1, <2>1, FS_Singleton
<1>4. CASE ~Has(it, "trashed") /\ ~Has(it, "archived")
  <2>1. V = {"all"}
    BY <1>1, <1>4 DEF InCategory, Cat
  <2> QED BY <1>1, <2>1, FS_Singleton
<1> QED BY <1>2, <1>3, <1>4

(* So every item has one view and every folder something to show.          *)
LEMMA EveryItemShown == ListTyped => EveryItemHasOneView
<1> SUFFICES ASSUME ListTyped PROVE EveryItemHasOneView
  OBVIOUS
<1>0. listing \in Seq(Entries)
  BY ListedIsSeq DEF ListTyped
<1>1. ASSUME NEW c \in Range(Sidebar(listing)), c.view = "folder"
      PROVE  \E k \in DOMAIN listing : InCategory(listing[k], c)
  <2>1. PICK k \in 1..Cardinality(FoldersOf(listing)) : c = Cat("folder", FolderAt(listing, k))
    BY <1>0, <1>1, SidebarEntries
  <2>2. FolderAt(listing, k) \in FoldersOf(listing)
    BY <1>0, FoldersAreThere
  <2>3. PICK j \in DOMAIN listing : /\ ~Has(listing[j], "archived") /\ ~Has(listing[j], "trashed")
                                    /\ listing[j].folder = FolderAt(listing, k)
    BY <2>2 DEF FoldersOf
  <2>4. InCategory(listing[j], c)
    BY <2>1, <2>3 DEF InCategory, Cat
  <2> QED BY <2>4
<1> QED BY <1>1, OneView DEF EveryItemHasOneView

(* Every item of every listing is shown by exactly one of All, Archive and *)
(* Trash, whatever flags it has, and no folder of the sidebar is empty     *)
(* (filteredItems and buildSidebar of tui/app.go); the first part of       *)
(* ViewIsRight, for every listing.                                         *)
THEOREM EveryItemIsShown == ListSpec => []EveryItemHasOneView
BY ListTypedInitial, ListTypedStep, EveryItemShown, PTL DEF ListSpec

-----------------------------------------------------------------------------
(* The forms: FormSpec of ItemForm.                                        *)

(* Keys of a payload that are never the key of a field.                    *)
Reserved == {"ssh_key", "is_file", "raw", "login"} \cup Flags

(* The seven forms.                                                        *)
LEMMA TitleNames == Titles = {"login", "card", "note", "identity", "otp", "ssh", "file"}
BY DEF Titles, FieldsOf

(* A field never has a reserved key, and every form has a name.            *)
LEMMA KeysPlain ==
    ASSUME NEW t \in Titles
    PROVE  KeysOf(t) \cap Reserved = {} /\ "name" \in KeysOf(t)
<1>1. CASE t = "login"
  BY <1>1 DEF KeysOf, FieldsOf, Reserved, Flags
<1>2. CASE t = "card"
  BY <1>2 DEF KeysOf, FieldsOf, Reserved, Flags
<1>3. CASE t = "note"
  BY <1>3 DEF KeysOf, FieldsOf, Reserved, Flags
<1>4. CASE t = "identity"
  BY <1>4 DEF KeysOf, FieldsOf, Reserved, Flags
<1>5. CASE t = "otp"
  BY <1>5 DEF KeysOf, FieldsOf, Reserved, Flags
<1>6. CASE t = "ssh"
  BY <1>6 DEF KeysOf, FieldsOf, Reserved, Flags
<1>7. CASE t = "file"
  BY <1>7 DEF KeysOf, FieldsOf, Reserved, Flags
<1> QED BY <1>1, <1>2, <1>3, <1>4, <1>5, <1>6, <1>7, TitleNames

(* The forms have three to nine fields.                                    *)
LEMMA FieldCount ==
    ASSUME NEW t \in Titles
    PROVE  Len(FieldsOf[t]) \in 3..9 /\ DOMAIN FieldsOf[t] = 1..Len(FieldsOf[t])
BY TitleNames DEF FieldsOf

(* Looking a key up in a marked payload.                                   *)
LEMMA MarkedGet ==
    ASSUME NEW marks, NEW kept, NEW v, NEW p, p = Marked(marks, kept, v)
    PROVE  /\ DOMAIN p = marks \cup kept
           /\ \A k \in marks : Get(p, k) = "true"
           /\ \A k \in kept \ marks : Get(p, k) = v[k]
           /\ \A k : k \notin marks \cup kept => Get(p, k) = ""
BY DEF Marked, Get

(* A payload made from a form gives every field of that form back and      *)
(* marks the item as what the form is for.                                 *)
LEMMA PayloadGet ==
    ASSUME NEW t \in Titles, NEW v
    PROVE  /\ \A k \in KeysOf(t) : Get(Payload(t, v), k) = v[k]
           /\ Get(Payload(t, v), "ssh_key") = IF t = "ssh" THEN "true" ELSE ""
           /\ Get(Payload(t, v), "is_file") = IF t = "file" THEN "true" ELSE ""
           /\ Get(Payload(t, v), "login") = ""
           /\ "raw" \notin DOMAIN Payload(t, v)
<1>1. PICK kept : kept = {k \in KeysOf(t) : v[k] # "" \/ k \notin OmitEmpty}
  OBVIOUS
<1>2. PICK m, p : m = Marks(t) /\ p = Marked(m, kept, v) /\ p = Payload(t, v)
  BY <1>1 DEF Payload
<1>3. KeysOf(t) \cap Reserved = {}
  BY KeysPlain
<1>m. /\ DOMAIN p = m \cup kept
      /\ \A k \in m : Get(p, k) = "true"
      /\ \A k \in kept \ m : Get(p, k) = v[k]
      /\ \A k : k \notin m \cup kept => Get(p, k) = ""
  BY <1>2 DEF Marked, Get
<1>4. \A k \in KeysOf(t) : k \notin m
  BY <1>2, <1>3 DEF Reserved, Marks
<1>5. \A k \in KeysOf(t) : Get(p, k) = v[k]
  <2> SUFFICES ASSUME NEW k \in KeysOf(t) PROVE Get(p, k) = v[k]
    OBVIOUS
  <2>1. CASE k \in kept
    BY <1>4, <1>m, <2>1
  <2>2. CASE k \notin kept
    <3>1. v[k] = ""
      BY <1>1, <2>2
    <3>2. k \notin m \cup kept
      BY <1>4, <2>2
    <3> QED BY <1>m, <3>1, <3>2
  <2> QED BY <2>1, <2>2
<1>6. \A k \in Reserved : k \notin kept
  BY <1>1, <1>3
<1>7. \A k \in Reserved : Get(p, k) = IF k \in m THEN "true" ELSE ""
  <2> SUFFICES ASSUME NEW k \in Reserved PROVE Get(p, k) = IF k \in m THEN "true" ELSE ""
    OBVIOUS
  <2>1. k \notin m => k \notin m \cup kept
    BY <1>6
  <2> QED BY <1>m, <2>1
<1>8. "raw" \notin DOMAIN p
  BY <1>2, <1>6, <1>m DEF Reserved, Marks
<1>9. {"ssh_key", "is_file", "raw", "login"} \subseteq Reserved
  BY DEF Reserved
<1>10. /\ Get(p, "ssh_key") = IF t = "ssh" THEN "true" ELSE ""
       /\ Get(p, "is_file") = IF t = "file" THEN "true" ELSE ""
       /\ Get(p, "login") = ""
  BY <1>2, <1>7, <1>9 DEF Marks
<1> QED BY <1>2, <1>5, <1>8, <1>10

(* What an item has for a type and a payload.  A payload that is not a     *)
(* JSON object is raw text and nothing else.                               *)
ItemShaped ==
    /\ item = [typ |-> item.typ, payload |-> item.payload, meta |-> item.meta]
    /\ item.typ \in 0..5 /\ (item # NoItem => item.typ \in 1..5)
    /\ "raw" \in DOMAIN item.payload => DOMAIN item.payload = {"raw"}
    /\ item # NoItem => DOMAIN said \cap Reserved = {}

(* An open form has its own fields, and the kind of the item it edits.     *)
FormShaped ==
    form # NoForm =>
        /\ form = [title |-> form.title, focus |-> form.focus, vals |-> form.vals]
        /\ form.title \in Titles
        /\ form.focus \in 1..Len(FieldsOf[form.title])
        /\ DOMAIN form.vals = KeysOf(form.title)
        /\ item # NoItem => form.title = KindOf(item)

(* The inductive invariant of the forms.  SavedIsShown compares two        *)
(* payloads; that the form has the item's kind and that fields and marks   *)
(* do not overlap is what makes a save keep the kind.                      *)
FormInv == ItemShaped /\ FormShaped /\ SavedIsShown

(* The items a vault may hold before the first form opens.                 *)
LEMMA FormInitial == FormInit => FormInv
<1> SUFFICES ASSUME FormInit PROVE FormInv
  OBVIOUS
<1>1. FormShaped
  BY DEF FormInit, FormShaped
<1>2. PICK e \in Elsewhere : item = e[1] /\ said = e[2]
  BY DEF FormInit
<1> DEFINE It(t, p) == [typ |-> t, payload |-> p, meta |-> "n"]
           Login    == [name |-> "n", username |-> "u", password |-> "p"]
<1>3. CASE item = NoItem
  <2>1. ItemShaped
    <3>1. item.typ = 0 /\ item.payload = <<>> /\ item.meta = ""
      BY <1>3 DEF NoItem
    <3>2. PICK p : p = <<>> /\ "raw" \notin DOMAIN p
      <4>1. PICK p : p = <<>>
        OBVIOUS
      <4>2. DOMAIN p = {}
        BY <4>1
      <4> QED BY <4>1, <4>2
    <3>z. 0 \in 0..5
      OBVIOUS
    <3>3. item.payload = p /\ 0 \in 0..5
      BY <3>1, <3>2, <3>z, Zenon
    <3>4. "raw" \notin DOMAIN item.payload /\ item.typ \in 0..5
      BY <3>1, <3>2, <3>3, Zenon
    <3> QED BY <1>3, <3>1, <3>4 DEF ItemShaped, NoItem
  <2>2. SavedIsShown
    BY <1>3 DEF SavedIsShown
  <2> QED BY <1>1, <2>1, <2>2 DEF FormInv
<1>4. ASSUME NEW t \in 1..5, NEW p, item = It(t, p),
             "raw" \in DOMAIN p => DOMAIN p = {"raw"},
             DOMAIN said \cap Reserved = {},
             \A k \in DOMAIN said : Parsed(It(t, p), k) = said[k]
      PROVE  FormInv
  <2>1. item.typ = t /\ item.payload = p /\ item.meta = "n"
    BY <1>4
  <2>2. ItemShaped
    BY <1>4, <2>1 DEF ItemShaped
  <2>3. SavedIsShown
    BY <1>4 DEF SavedIsShown
  <2> QED BY <1>1, <2>2, <2>3 DEF FormInv
<1>p. ASSUME NEW t, NEW p, NEW k
      PROVE  Parsed(It(t, p), k) =
                IF Get(p, k) # "" THEN Get(p, k)
                ELSE IF k = "name" THEN "n"
                ELSE IF k = "username" THEN Get(p, "login")
                ELSE IF k = "content" THEN RawText(p) ELSE ""
  BY DEF Parsed
<1>5. CASE item = It(1, Login) /\ said = Login
  <2>1. PICK p : p = Login
    OBVIOUS
  <2>2. /\ DOMAIN p = {"name", "username", "password"} /\ DOMAIN said = DOMAIN p
        /\ Get(p, "name") = "n" /\ Get(p, "username") = "u" /\ Get(p, "password") = "p"
        /\ said["name"] = "n" /\ said["username"] = "u" /\ said["password"] = "p"
    BY <1>5, <2>1 DEF Get
  <2>3. \A k \in DOMAIN said : Parsed(It(1, p), k) = said[k]
    <3> SUFFICES ASSUME NEW k \in DOMAIN said PROVE Parsed(It(1, p), k) = said[k]
      OBVIOUS
    <3>1. Parsed(It(1, p), k) =
                IF Get(p, k) # "" THEN Get(p, k)
                ELSE IF k = "name" THEN "n"
                ELSE IF k = "username" THEN Get(p, "login")
                ELSE IF k = "content" THEN RawText(p) ELSE ""
      BY <1>p
    <3> QED BY <2>2, <3>1
  <2>4. DOMAIN said \cap Reserved = {} /\ "raw" \notin DOMAIN p
    BY <2>2 DEF Reserved, Flags
  <2> QED BY <1>4, <1>5, <2>1, <2>3, <2>4
<1>6. CASE item = It(1, [login |-> "u", password |-> "p"]) /\ said = Login
  <2>1. PICK p : p = [login |-> "u", password |-> "p"]
    OBVIOUS
  <2>2. /\ DOMAIN p = {"login", "password"} /\ DOMAIN said = {"name", "username", "password"}
        /\ Get(p, "name") = "" /\ Get(p, "username") = "" /\ Get(p, "password") = "p" /\ Get(p, "login") = "u"
        /\ said["name"] = "n" /\ said["username"] = "u" /\ said["password"] = "p"
    BY <1>6, <2>1 DEF Get
  <2>3. \A k \in DOMAIN said : Parsed(It(1, p), k) = said[k]
    <3> SUFFICES ASSUME NEW k \in DOMAIN said PROVE Parsed(It(1, p), k) = said[k]
      OBVIOUS
    <3>1. Parsed(It(1, p), k) =
                IF Get(p, k) # "" THEN Get(p, k)
                ELSE IF k = "name" THEN "n"
                ELSE IF k = "username" THEN Get(p, "login")
                ELSE IF k = "content" THEN RawText(p) ELSE ""
      BY <1>p
    <3> QED BY <2>2, <3>1
  <2>4. DOMAIN said \cap Reserved = {} /\ "raw" \notin DOMAIN p
    BY <2>2 DEF Reserved, Flags
  <2> QED BY <1>4, <1>6, <2>1, <2>3, <2>4
<1>7. CASE item = It(5, [secret |-> "s", label |-> "n", issuer |-> ""]) /\ said = [name |-> "n", secret |-> "s"]
  <2>1. PICK p : p = [secret |-> "s", label |-> "n", issuer |-> ""]
    OBVIOUS
  <2>2. /\ DOMAIN p = {"secret", "label", "issuer"} /\ DOMAIN said = {"name", "secret"}
        /\ Get(p, "name") = "" /\ Get(p, "secret") = "s"
        /\ said["name"] = "n" /\ said["secret"] = "s"
    BY <1>7, <2>1 DEF Get
  <2>3. \A k \in DOMAIN said : Parsed(It(5, p), k) = said[k]
    <3> SUFFICES ASSUME NEW k \in DOMAIN said PROVE Parsed(It(5, p), k) = said[k]
      OBVIOUS
    <3>1. Parsed(It(5, p), k) =
                IF Get(p, k) # "" THEN Get(p, k)
                ELSE IF k = "name" THEN "n"
                ELSE IF k = "username" THEN Get(p, "login")
                ELSE IF k = "content" THEN RawText(p) ELSE ""
      BY <1>p
    <3> QED BY <2>2, <3>1
  <2>4. DOMAIN said \cap Reserved = {} /\ "raw" \notin DOMAIN p
    BY <2>2 DEF Reserved, Flags
  <2>5. 5 \in 1..5
    OBVIOUS
  <2> QED BY <1>4, <1>7, <2>1, <2>3, <2>4, <2>5, ZenonT(60)
<1>8. CASE item = It(2, [raw |-> "l1/l2"]) /\ said = [name |-> "n", content |-> "l1/l2"]
  <2>1. PICK p : p = [raw |-> "l1/l2"]
    OBVIOUS
  <2>2. /\ DOMAIN p = {"raw"} /\ DOMAIN said = {"name", "content"}
        /\ Get(p, "name") = "" /\ Get(p, "content") = "" /\ RawText(p) = "l1/l2"
        /\ said["name"] = "n" /\ said["content"] = "l1/l2"
    BY <1>8, <2>1 DEF Get, RawText
  <2>3. \A k \in DOMAIN said : Parsed(It(2, p), k) = said[k]
    <3> SUFFICES ASSUME NEW k \in DOMAIN said PROVE Parsed(It(2, p), k) = said[k]
      OBVIOUS
    <3>1. Parsed(It(2, p), k) =
                IF Get(p, k) # "" THEN Get(p, k)
                ELSE IF k = "name" THEN "n"
                ELSE IF k = "username" THEN Get(p, "login")
                ELSE IF k = "content" THEN RawText(p) ELSE ""
      BY <1>p
    <3> QED BY <2>2, <3>1
  <2>4. DOMAIN said \cap Reserved = {}
    BY <2>2 DEF Reserved, Flags
  <2>5. 2 \in 1..5
    OBVIOUS
  <2> QED BY <1>4, <1>8, <2>1, <2>2, <2>3, <2>4, <2>5, Zenon
<1>9. e \in {<<NoItem, <<>> >>,
             <<It(1, Login), Login>>,
             <<It(1, [login |-> "u", password |-> "p"]), Login>>,
             <<It(5, [secret |-> "s", label |-> "n", issuer |-> ""]), [name |-> "n", secret |-> "s"]>>,
             <<It(2, [raw |-> "l1/l2"]), [name |-> "n", content |-> "l1/l2"]>>}
  BY DEF Elsewhere
<1> HIDE DEF It, Login
<1>10. \/ item = NoItem
       \/ item = It(1, Login) /\ said = Login
       \/ item = It(1, [login |-> "u", password |-> "p"]) /\ said = Login
       \/ item = It(5, [secret |-> "s", label |-> "n", issuer |-> ""]) /\ said = [name |-> "n", secret |-> "s"]
       \/ item = It(2, [raw |-> "l1/l2"]) /\ said = [name |-> "n", content |-> "l1/l2"]
  <2>1. ASSUME NEW a, NEW b, e = <<a, b>>
        PROVE  item = a /\ said = b
    BY <1>2, <2>1
  <2> QED BY <1>9, <2>1, Zenon
<1> QED BY <1>3, <1>5, <1>6, <1>7, <1>8, <1>10

(* A step that changes the form only.                                      *)
LEMMA ScreenOnly ==
    ASSUME FormInv, UNCHANGED <<item, said, flaggedRaw>>, FormShaped'
    PROVE  FormInv'
BY DEF FormInv, ItemShaped, SavedIsShown

(* A step that keeps the kind of an existing item.                         *)
Keeps == item # NoItem => KindOf(item') = KindOf(item)

(* Saving a form.                                                          *)
LEMMA SaveStep ==
    ASSUME FormInv, form # NoForm, SaveForm
    PROVE  FormInv' /\ Keeps
<1>0. ItemShaped /\ FormShaped /\ SavedIsShown
  BY DEF FormInv
<1>1. PICK t \in Titles : t = form.title
  BY <1>0 DEF FormShaped
<1>2. PICK v : v = [k \in DOMAIN form.vals |-> Trim(form.vals[k])]
  OBVIOUS
<1>3. DOMAIN v = KeysOf(t)
  BY <1>0, <1>1, <1>2 DEF FormShaped
<1>4. CASE v["name"] = ""
  <2>1. UNCHANGED <<item, form, said, flaggedRaw>>
    BY <1>2, <1>4 DEF SaveForm
  <2>2. FormShaped'
    BY <1>0, <2>1 DEF FormShaped, KindOf
  <2>3. FormInv'
    BY <2>1, <2>2, ScreenOnly
  <2> QED BY <2>1, <2>3 DEF Keeps
<1>5. CASE v["name"] # ""
  <2>1. PICK y : y = IF item = NoItem THEN TypeOf(t) ELSE item.typ
    OBVIOUS
  <2>2. PICK p : p = Payload(t, v)
    OBVIOUS
  <2>3. /\ item' = [typ |-> y, payload |-> p, meta |-> v["name"]]
        /\ form' = NoForm /\ said' = v /\ flaggedRaw' = FALSE
    BY <1>1, <1>2, <1>5, <2>1, <2>2 DEF SaveForm
  <2>4. item'.typ = y /\ item'.payload = p /\ item'.meta = v["name"]
    BY <2>3
  <2>5. y \in 1..5
    BY <1>0, <2>1, TitleNames DEF ItemShaped, TypeOf
  <2>6. /\ \A k \in KeysOf(t) : Get(p, k) = v[k]
        /\ Get(p, "ssh_key") = IF t = "ssh" THEN "true" ELSE ""
        /\ Get(p, "is_file") = IF t = "file" THEN "true" ELSE ""
        /\ Get(p, "login") = ""
        /\ "raw" \notin DOMAIN p
    BY <2>2, PayloadGet
  <2>7. ItemShaped'
    <3>1. DOMAIN said' \cap Reserved = {}
      BY <1>3, <2>3, KeysPlain
    <3>2. item' = [typ |-> item'.typ, payload |-> item'.payload, meta |-> item'.meta]
      BY <2>3, <2>4
    <3>y. y \in 0..5
      BY <2>5
    <3>3. item'.typ \in 1..5 /\ item'.typ \in 0..5 /\ "raw" \notin DOMAIN item'.payload
      BY <2>4, <2>5, <2>6, <3>y, Zenon
    <3> QED BY <3>1, <3>2, <3>3 DEF ItemShaped
  <2>8. FormShaped'
    BY <2>3 DEF FormShaped
  <2>9. \A k \in KeysOf(t) : Parsed(item', k) = v[k] \/ (k = "content" /\ v[k] = "")
    BY <1>5, <2>4, <2>6 DEF Parsed
  <2>10. SavedIsShown'
    BY <1>3, <2>3, <2>9 DEF SavedIsShown
  <2>11. Keeps
    <3> SUFFICES ASSUME item # NoItem PROVE KindOf(item') = KindOf(item)
      BY DEF Keeps
    <3>1. y = item.typ /\ item.typ \in 1..5 /\ t = KindOf(item)
      BY <1>0, <1>1, <2>1 DEF ItemShaped, FormShaped
    <3>2. KindOf(item') = t
      <4>1. item'.typ \in {1, 2, 3, 4, 5}
        BY <2>4, <2>5
      <4>2. KindOf(item') =
              CASE item'.typ = 2 -> IF t = "ssh" THEN "ssh" ELSE "note"
                [] item'.typ = 3 -> IF t = "file" THEN "file" ELSE "identity"
                [] item'.typ = 1 -> "login" [] item'.typ = 4 -> "card" [] item'.typ = 5 -> "otp"
        BY <2>4, <2>6 DEF KindOf
      <4>3. t = CASE item'.typ = 2 -> IF Get(item.payload, "ssh_key") = "true" THEN "ssh" ELSE "note"
                  [] item'.typ = 3 -> IF Get(item.payload, "is_file") = "true" THEN "file" ELSE "identity"
                  [] item'.typ = 1 -> "login" [] item'.typ = 4 -> "card" [] item'.typ = 5 -> "otp"
        BY <2>4, <3>1 DEF KindOf
      <4> QED BY <4>1, <4>2, <4>3
    <3> QED BY <3>1, <3>2
  <2> QED BY <2>7, <2>8, <2>10, <2>11 DEF FormInv
<1> QED BY <1>4, <1>5

(* Setting or clearing a flag of an item rewrites its payload.             *)
LEMMA FlagStep ==
    ASSUME FormInv, NEW flag \in Flags, setItemFlag(flag)
    PROVE  FormInv' /\ Keeps
<1>0. ItemShaped /\ FormShaped /\ SavedIsShown
  BY DEF FormInv
<1>1. PICK p : p = IF "raw" \in DOMAIN item.payload THEN <<>> ELSE item.payload
  OBVIOUS
<1>2. PICK marks \in SUBSET {flag} : item' = [item EXCEPT !.payload = Marked(marks, DOMAIN p \ {flag}, p)]
  <2>1. item' = [item EXCEPT !.payload = Marked(IF flag \in DOMAIN p THEN {} ELSE {flag}, DOMAIN p \ {flag}, p)]
    BY <1>1 DEF setItemFlag
  <2>2. (IF flag \in DOMAIN p THEN {} ELSE {flag}) \in SUBSET {flag}
    OBVIOUS
  <2> QED BY <2>1, <2>2
<1>3. /\ item # NoItem /\ form = NoForm /\ UNCHANGED <<form, said>>
      /\ flaggedRaw' = (flaggedRaw \/ "raw" \in DOMAIN item.payload)
  BY DEF setItemFlag
<1>4. PICK q : q = Marked(marks, DOMAIN p \ {flag}, p)
  OBVIOUS
<1>5. /\ item' = [item EXCEPT !.payload = q]
      /\ item'.typ = item.typ /\ item'.payload = q /\ item'.meta = item.meta
      /\ item' = [typ |-> item'.typ, payload |-> item'.payload, meta |-> item'.meta]
  BY <1>0, <1>2, <1>4 DEF ItemShaped
<1>m. /\ DOMAIN q = marks \cup (DOMAIN p \ {flag})
      /\ \A k \in (DOMAIN p \ {flag}) \ marks : Get(q, k) = p[k]
      /\ \A k : k \notin marks \cup (DOMAIN p \ {flag}) => Get(q, k) = ""
  BY <1>4 DEF Marked, Get
<1>6. \A k : k # flag => Get(q, k) = Get(p, k)
  <2> SUFFICES ASSUME NEW k, k # flag PROVE Get(q, k) = Get(p, k)
    OBVIOUS
  <2>1. CASE k \in DOMAIN p
    <3>1. k \in (DOMAIN p \ {flag}) \ marks
      BY <2>1, <1>2
    <3> QED BY <1>m, <2>1, <3>1 DEF Get
  <2>2. CASE k \notin DOMAIN p
    <3>1. k \notin marks \cup (DOMAIN p \ {flag})
      BY <2>2, <1>2
    <3> QED BY <1>m, <2>2, <3>1 DEF Get
  <2> QED BY <2>1, <2>2
<1>7. "raw" \notin DOMAIN p /\ "raw" \notin DOMAIN q
  <2>1. "raw" \notin DOMAIN p
    BY <1>1
  <2> QED BY <1>2, <1>m, <2>1 DEF Flags
<1>8. \A k : k # "raw" => Get(p, k) = Get(item.payload, k)
  <2>1. CASE "raw" \in DOMAIN item.payload
    <3>1. DOMAIN item.payload = {"raw"} /\ DOMAIN p = {}
      BY <1>0, <1>1, <2>1 DEF ItemShaped
    <3> QED BY <3>1 DEF Get
  <2>2. CASE "raw" \notin DOMAIN item.payload
    BY <1>1, <2>2
  <2> QED BY <2>1, <2>2
<1>9. ItemShaped'
  BY <1>0, <1>3, <1>5, <1>7 DEF ItemShaped
<1>10. FormShaped'
  BY <1>3 DEF FormShaped
<1>11. \A k : k \notin Reserved => Get(q, k) = Get(item.payload, k)
  BY <1>6, <1>8 DEF Reserved
<1>12. Get(q, "login") = Get(item.payload, "login")
  BY <1>6, <1>8 DEF Flags
<1>13. "raw" \notin DOMAIN item.payload => RawText(q) = RawText(item.payload)
  BY <1>7 DEF RawText
<1>14. SavedIsShown'
  <2> SUFFICES ASSUME NEW k \in DOMAIN said, ~(k = "content" /\ (flaggedRaw' \/ said[k] = ""))
               PROVE  Parsed(item', k) = said[k]
    BY <1>3 DEF SavedIsShown
  <2>1. k \notin Reserved
    BY <1>0, <1>3 DEF ItemShaped
  <2>2. Parsed(item, k) = said[k]
    BY <1>0, <1>3 DEF SavedIsShown
  <2>3. Parsed(item', k) = Parsed(item, k)
    BY <1>3, <1>5, <1>11, <1>12, <1>13, <2>1 DEF Parsed
  <2> QED BY <2>2, <2>3
<1>15. Keeps
  <2>1. /\ Get(q, "ssh_key") = Get(item.payload, "ssh_key")
        /\ Get(q, "is_file") = Get(item.payload, "is_file")
    BY <1>6, <1>8 DEF Flags
  <2>2. item.typ \in 1..5
    BY <1>0, <1>3 DEF ItemShaped
  <2> QED BY <1>5, <2>1, <2>2 DEF Keeps, KindOf
<1> QED BY <1>9, <1>10, <1>14, <1>15 DEF FormInv

(* Opening a form, for a new item or with the fields of an old one.        *)
LEMMA OpenStep ==
    ASSUME FormInv, NEW t \in Titles, NEW vals, DOMAIN vals = KeysOf(t), Open(t, vals),
           item # NoItem => t = KindOf(item)
    PROVE  FormInv' /\ Keeps
<1>1. form' = [title |-> t, focus |-> 1, vals |-> vals] /\ UNCHANGED <<item, said, flaggedRaw>>
  BY DEF Open
<1>2. form'.title = t /\ form'.focus = 1 /\ form'.vals = vals
  BY <1>1
<1>3. 1 \in 1..Len(FieldsOf[t])
  <2>1. PICK n \in 3..9 : n = Len(FieldsOf[t])
    BY FieldCount
  <2>2. 1 \in 1..n
    OBVIOUS
  <2> QED BY <2>1, <2>2
<1>4. FormShaped'
  BY <1>1, <1>2, <1>3 DEF FormShaped, KindOf
<1> QED BY <1>1, <1>4, ScreenOnly DEF Keeps

(* Moving the focus or typing.                                             *)
LEMMA FieldStep ==
    ASSUME FormInv, form # NoForm, UNCHANGED <<item, said, flaggedRaw>>,
           NEW f, NEW vals, form' = [title |-> form.title, focus |-> f, vals |-> vals],
           f \in 1..Len(FieldsOf[form.title]), DOMAIN vals = DOMAIN form.vals
    PROVE  FormInv' /\ Keeps
<1>1. form'.title = form.title /\ form'.focus = f /\ form'.vals = vals
  OBVIOUS
<1>2. FormShaped'
  BY <1>1 DEF FormInv, FormShaped, KindOf
<1> QED BY <1>2, ScreenOnly DEF Keeps

(* Every step of the forms.                                                *)
LEMMA FormStep ==
    ASSUME FormInv, FormNext
    PROVE  FormInv' /\ Keeps
<1>0. ItemShaped /\ FormShaped
  BY DEF FormInv
<1>1. CASE \E t \in pickerEntries, f \in {"", "f"} : OpenNew(t, f)
  <2>4. PICK t \in pickerEntries : \E f : OpenNew(t, f)
    BY <1>1, Zenon
  <2>1. PICK f : OpenNew(t, f)
    BY <2>4
  <2>2. PICK vals : vals = [k \in KeysOf(t) |-> CASE k = "key_type" -> "ed25519"
                                      [] k = "folder" /\ t \notin {"ssh", "file"} -> f
                                      [] OTHER -> ""]
    OBVIOUS
  <2>3. item = NoItem /\ Open(t, vals) /\ t \in Titles /\ DOMAIN vals = KeysOf(t)
    BY <2>1, <2>2, <2>4, TitleNames DEF OpenNew, pickerEntries
  <2> QED BY <2>3, OpenStep
<1>2. CASE OpenEdit
  <2>1. PICK t : t = KindOf(item)
    OBVIOUS
  <2>2. PICK vals : vals = Shown(item, t)
    OBVIOUS
  <2>3. item # NoItem /\ Open(t, vals) /\ DOMAIN vals = KeysOf(t)
    BY <1>2, <2>1, <2>2 DEF OpenEdit, Shown
  <2>4. t \in Titles
    BY <1>0, <2>1, <2>3, TitleNames DEF ItemShaped, KindOf
  <2> QED BY <2>1, <2>3, <2>4, OpenStep
<1>3. CASE FieldTab \/ FieldBackTab \/ (FormEnter /\ form.focus # Fields)
  <2>1. form # NoForm /\ UNCHANGED <<item, said, flaggedRaw>>
    BY <1>3 DEF FieldTab, FieldBackTab, FormEnter
  <2>2. PICK n \in 3..9 : n = Len(FieldsOf[form.title])
    BY <1>0, <2>1, FieldCount DEF FormShaped
  <2>3. form.focus \in 1..n /\ form = [title |-> form.title, focus |-> form.focus, vals |-> form.vals]
    BY <1>0, <2>1, <2>2 DEF FormShaped
  <2>4. \E f \in 1..n : form' = [form EXCEPT !.focus = f]
    <3>1. CASE FieldTab
      <4>1. (form.focus % n) + 1 \in 1..n
        BY <2>2, <2>3
      <4>2. form' = [form EXCEPT !.focus = (form.focus % n) + 1]
        BY <3>1, <2>2 DEF FieldTab, Fields
      <4> QED BY <4>1, <4>2
    <3>2. CASE FieldBackTab
      <4>1. ((form.focus + n - 2) % n) + 1 \in 1..n
        BY <2>2, <2>3
      <4>2. form' = [form EXCEPT !.focus = ((form.focus + n - 2) % n) + 1]
        BY <3>2, <2>2 DEF FieldBackTab, Fields
      <4> QED BY <4>1, <4>2
    <3>3. CASE FormEnter /\ form.focus # Fields
      <4>1. form.focus + 1 \in 1..n
        BY <3>3, <2>2, <2>3 DEF Fields
      <4>2. form' = [form EXCEPT !.focus = form.focus + 1]
        BY <3>3 DEF FormEnter
      <4> QED BY <4>1, <4>2
    <3> QED BY <1>3, <3>1, <3>2, <3>3
  <2>5. PICK f \in 1..n : form' = [form EXCEPT !.focus = f]
    BY <2>4
  <2>6. form' = [title |-> form.title, focus |-> f, vals |-> form.vals]
    BY <2>3, <2>5
  <2>7. PICK vals : vals = form.vals
    OBVIOUS
  <2> QED BY <2>1, <2>2, <2>6, <2>7, FieldStep
<1>4. CASE \E text \in Texts : FormType(text)
  <2>1. PICK text \in Texts : FormType(text)
    BY <1>4
  <2>2. form # NoForm /\ UNCHANGED <<item, said, flaggedRaw>>
    BY <2>1 DEF FormType
  <2>3. PICK vals : vals = [form.vals EXCEPT ![FieldsOf[form.title][form.focus]] = text]
    OBVIOUS
  <2>4. form = [title |-> form.title, focus |-> form.focus, vals |-> form.vals]
        /\ form.focus \in 1..Len(FieldsOf[form.title])
    BY <1>0, <2>2 DEF FormShaped
  <2>5. form' = [form EXCEPT !.vals = vals]
    BY <2>1, <2>3, <2>4 DEF FormType
  <2>6. form' = [title |-> form.title, focus |-> form.focus, vals |-> vals]
    BY <2>4, <2>5
  <2>7. DOMAIN vals = DOMAIN form.vals
    BY <2>3
  <2>8. PICK f : f = form.focus
    OBVIOUS
  <2> QED BY <2>2, <2>4, <2>6, <2>7, <2>8, FieldStep
<1>5. CASE FormLeave
  <2>1. form' = NoForm /\ UNCHANGED <<item, said, flaggedRaw>>
    BY <1>5 DEF FormLeave
  <2> QED BY <2>1, ScreenOnly DEF FormShaped, Keeps
<1>6. CASE FormSave \/ (FormEnter /\ form.focus = Fields)
  BY <1>6, SaveStep DEF FormSave, FormEnter
<1>7. CASE \E flag \in Flags : setItemFlag(flag)
  BY <1>7, FlagStep
<1> QED BY <1>1, <1>2, <1>3, <1>4, <1>5, <1>6, <1>7 DEF FormNext

(* Every step of the forms keeps the invariant.                            *)
LEMMA FormInvStep == FormInv /\ [FormNext]_formVars => FormInv'
<1> SUFFICES ASSUME FormInv, UNCHANGED formVars PROVE FormInv'
  BY FormStep
<1>1. FormShaped'
  BY DEF FormInv, FormShaped, formVars, KindOf
<1> QED BY <1>1, ScreenOnly DEF formVars

(* The forms keep their invariant.                                         *)
THEOREM FormInductive == FormSpec => []FormInv
BY FormInitial, FormInvStep, PTL DEF FormSpec

(* What was typed and saved is what the form is filled from when the item  *)
(* is opened again: through the payload saveForm makes, the flags          *)
(* setItemFlag writes into it and the parsers of payloads.go.  Lost are    *)
(* the text of a note that is no JSON, once it is flagged, and the         *)
(* emptiness of a note.  For all texts and any number of saves.            *)
THEOREM SavedFormsAreShown == FormSpec => []SavedIsShown
<1>1. FormInv => SavedIsShown
  BY DEF FormInv
<1> QED BY <1>1, FormInductive, PTL

(* No save and no flag turns an item of one kind into another: the kind is *)
(* read from markers in the payload (ssh_key, is_file), which saveForm     *)
(* writes again for every key and file (tui/app.go).  For all texts and    *)
(* any number of saves.                                                    *)
THEOREM KindsAreKept == FormSpec => KindKept
<1>1. FormInv /\ [FormNext]_formVars => [item # NoItem => KindOf(item') = KindOf(item)]_formVars
  BY FormStep DEF Keeps
<1> QED BY <1>1, FormInductive, PTL DEF FormSpec, KindKept

(* The types of the forms follow.                                          *)
LEMMA FormTypes == FormInv => FormTypeOK
BY FieldCount DEF FormInv, FormShaped, ItemShaped, FormTypeOK

-----------------------------------------------------------------------------
(* The composition of MCScreens, in which each behaviour runs one screen.  *)

(* The invariants of all the screens.                                      *)
ScreensInv == FlowInv /\ GenInv /\ ListTyped /\ FormInv

(* Every screen begins in one of its initial states.                       *)
LEMMA ScreensInitial == MCInit => ScreensInv
BY FlowInitial, GenInitial, ListTypedInitial, FormInitial DEF MCInit, ScreensInv

(* A step is a step of one screen, and leaves the others alone.            *)
LEMMA ScreensStep == ScreensInv /\ [MCNext]_screenVars => ScreensInv'
<1> SUFFICES ASSUME ScreensInv, [MCNext]_screenVars PROVE ScreensInv'
  OBVIOUS
<1>1. [Next]_vars /\ [ListNext]_listVars /\ [GenNext]_genVars /\ [FormNext]_formVars
  BY Zenon DEF MCNext, screenVars
<1> QED BY <1>1, FlowStep, GenStep, ListTypedStep, FormInvStep DEF ScreensInv

(* On every screen the types are kept, and with them what the code indexes *)
(* and repeats: the category stays an entry of the sidebar through every   *)
(* reload, the settings of the generator within their sliders, the focus   *)
(* on a field of its form, and no count given to strings.Repeat is         *)
(* negative (tui/app.go, tui/auth.go, tui/passgen.go).                     *)
THEOREM ScreensTypes == MCSpec => []ScreensTypeOK
<1>1. ScreensInv => ScreensTypeOK
  <2> SUFFICES ASSUME ScreensInv PROVE ScreensTypeOK
    OBVIOUS
  <2>1. TypeOK
    BY DEF ScreensInv, FlowInv
  <2>2. ListTypeOK /\ CategoryInRange /\ RepeatsNotNegative
    BY RepeatsFit DEF ScreensInv, ListTyped
  <2>3. GenTypeOK /\ StrengthBarFits
    BY GenTypes, StrengthFits DEF ScreensInv, GenInv
  <2>4. FormTypeOK
    BY FormTypes DEF ScreensInv
  <2> QED BY <2>1, <2>2, <2>3, <2>4 DEF ScreensTypeOK
<1> QED BY <1>1, ScreensInitial, ScreensStep, PTL DEF MCSpec

=============================================================================
