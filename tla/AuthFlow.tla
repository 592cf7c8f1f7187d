------------------------------ MODULE AuthFlow -----------------------------
(***************************************************************************)
(* The sign-in screens of the terminal client: AuthModel (tui/auth.go)     *)
(* under the Launcher (tui/launcher.go).  Key presses and messages are     *)
(* handled one at a time; a submit starts a command, a goroutine that      *)
(* calls the server, writes the tokens into the shared config and answers  *)
(* with one message.  Nothing stops the user from pressing keys, or        *)
(* submitting again, while commands run, and their messages arrive in any  *)
(* order.  A form is the number of its inputs; what is typed is left out.  *)
(* A call the server refuses as unauthenticated is made again by           *)
(* refreshInterceptor (grpcclient/client.go) once a refresh token is kept. *)
(* View is called after every Update and indexes the labels of the step    *)
(* with the inputs.  A panic in either ends the program.                   *)
(***************************************************************************)
EXTENDS Naturals, FiniteSets

CONSTANTS
    Cmds,       \* the commands, one for each submit; its size bounds them
    None        \* no token, no session

ASSUME FlowAssumption == None \notin Cmds

VARIABLES
    step,       \* m.step; authStepLoading is never assigned
    inputs,     \* len(m.inputs)
    focus,      \* m.focusIdx
    before,     \* _stepBeforeLoading
    session,    \* m.mfaSessionID, as the login command that brought it
    loading,    \* m.loading
    ready,      \* Launcher.ready: the vault is shown
    life,       \* "run" | "quit" | "panic"
    cmd,        \* the commands
    cfg,        \* the tokens in memory, as the commands that wrote them
    disk,       \* the tokens in config.yaml
    \* history, read by the properties only
    stray,      \* an error arrived when another step than before was shown
    raced,      \* two commands wrote their tokens at the same time
    unopened    \* the vault could not be built after a sign-in

screen == <<step, inputs, focus, before, session, loading>>
conf   == <<cfg, disk, raced>>
vars   == <<screen, ready, life, cmd, conf, stray, unopened>>

Steps == {"server", "menu", "login", "register", "mfa"}
Forms == {"login", "register", "mfa"}

(* The inputs the handlers and the labels of a step are written for.       *)
InputsOf == [login |-> 2, register |-> 4, mfa |-> 1]

NoTokens == [access |-> None, refresh |-> None]

Unused == [kind |-> "none", from |-> "server", pc |-> "unused", msg |-> "none", token |-> None]

Init ==
    /\ step = "server" /\ inputs = 0 /\ focus = 0
    /\ before = "server"
    /\ session = None
    /\ loading = FALSE
    /\ ready = FALSE
    /\ life = "run"
    /\ cmd = [c \in Cmds |-> Unused]
    /\ cfg = NoTokens /\ disk = NoTokens
    /\ stray = FALSE /\ raced = FALSE /\ unopened = FALSE

(* renderStep: labels[i] for every input.                                  *)
Renders(s, n) == s \in {"login", "register"} => n <= InputsOf[s]

(* Update ends in a new screen, which View then draws.                     *)
Show(s, n, f) ==
    /\ step' = s /\ inputs' = n /\ focus' = f
    /\ life' = IF Renders(s, n) THEN "run" ELSE "panic"

(* An index out of range in a key handler.                                 *)
Panic == life' = "panic" /\ UNCHANGED <<step, inputs, focus>>

Key(s) == life = "run" /\ ~ready /\ step \in s

quiet == <<ready, cmd, conf, stray, unopened>>

----------------------------------------------------------------------------
CtrlC ==
    /\ Key(Steps)
    /\ life' = "quit"
    /\ UNCHANGED <<screen, quiet>>

ServerEnter ==
    /\ Key({"server"})
    /\ Show("menu", inputs, focus)
    /\ UNCHANGED <<before, session, loading, quiet>>

MenuEsc ==
    /\ Key({"menu"})
    /\ Show("server", inputs, focus)
    /\ UNCHANGED <<before, session, loading, quiet>>

(* Enter opens the form menuIdx points at, 1 and 2 set it first: either.   *)
OpenLogin ==
    /\ Key({"menu"})
    /\ Show("login", InputsOf.login, 0)
    /\ UNCHANGED <<before, session, loading, quiet>>

OpenRegister ==
    /\ Key({"menu"})
    /\ Show("register", InputsOf.register, 0)
    /\ UNCHANGED <<before, session, loading, quiet>>

(* Esc in a form: the fields go, an answer still to come stays.            *)
FormEsc ==
    /\ Key(Forms)
    /\ Show("menu", 0, focus)
    /\ UNCHANGED <<before, session, loading, quiet>>

(* nextField and prevField; without inputs they index a nil slice.         *)
FormTab ==
    /\ Key({"login", "register"})
    /\ \E d \in {1, inputs - 1} :
          IF focus < inputs THEN Show(step, inputs, (focus + d) % inputs) ELSE Panic
    /\ UNCHANGED <<before, session, loading, quiet>>

FormEnterNext ==
    /\ Key({"login", "register"})
    /\ focus + 1 # inputs
    /\ IF focus < inputs THEN Show(step, inputs, (focus + 1) % inputs) ELSE Panic
    /\ UNCHANGED <<before, session, loading, quiet>>

(* The command of a submit; "reject" answers an error without a call.      *)
Start(kind) ==
    \E c \in Cmds :
        /\ cmd[c] = Unused
        /\ cmd' = [cmd EXCEPT ![c] =
              [Unused EXCEPT !.kind = kind, !.from = step, !.pc = "call"]]

(* submitForm, reached on the last input: it reads the inputs of the step. *)
FormSubmit ==
    /\ Key({"login", "register"})
    /\ focus + 1 = inputs
    /\ before' = step
    /\ \/ /\ inputs >= InputsOf[step]
          /\ \/ Start(step) /\ loading' = TRUE
             \/ step = "register" /\ Start("reject") /\ loading' = FALSE
          /\ Show(step, inputs, focus)
       \/ /\ inputs < InputsOf[step]
          /\ Panic
          /\ loading' = TRUE
          /\ UNCHANGED cmd
    /\ UNCHANGED <<session, ready, conf, stray, unopened>>

(* submitMFA reads inputs[0]; before is left as it was.                    *)
MFASubmit ==
    /\ Key({"mfa"})
    /\ loading' = TRUE
    /\ Start("mfa")
    /\ Show(step, inputs, focus)
    /\ UNCHANGED <<before, session, ready, conf, stray, unopened>>

----------------------------------------------------------------------------
(* doLogin, doRegister and doMFA.  The server refuses, is unreachable or   *)
(* times out; or it asks for a code (a new account has no authenticator);  *)
(* or it issues tokens.                                                    *)
Answer(c, m) == cmd' = [cmd EXCEPT ![c].pc = "msg", ![c].msg = m]

Outcome(c) ==
    /\ \/ Answer(c, "err")
       \/ cmd[c].kind = "login" /\ Answer(c, "mfa")
       \/ cmd[c].kind # "reject" /\ cmd' = [cmd EXCEPT ![c].pc = "access"]
    /\ UNCHANGED <<screen, ready, life, conf, stray, unopened>>

Reply(c) == life = "run" /\ cmd[c].pc = "call" /\ Outcome(c)

(* refreshInterceptor: refused as unauthenticated with a refresh token in  *)
(* the config, which an earlier sign-in has left there, the call waits for *)
(* a new access token.                                                     *)
RefreshAsked(c) ==
    /\ life = "run"
    /\ cmd[c].pc = "call" /\ cmd[c].kind # "reject"
    /\ cfg.refresh # None
    /\ cmd' = [cmd EXCEPT ![c].pc = "renew", ![c].token = cfg.refresh]
    /\ UNCHANGED <<screen, ready, life, conf, stray, unopened>>

(* A command is between its first assignment to the config and its save.   *)
Writing == \E c \in Cmds : cmd[c].pc \in {"refresh", "save", "resave"}

(* Refresh answers within its 10 seconds, with an access token of the      *)
(* sign-in whose refresh token was sent, or the first error stands.        *)
Renewed(c) ==
    /\ life = "run"
    /\ cmd[c].pc = "renew"
    /\ \/ Answer(c, "err") /\ UNCHANGED conf
       \/ /\ cfg' = [cfg EXCEPT !.access = cmd[c].token]
          /\ raced' = (raced \/ Writing \/ cfg.refresh # cmd[c].token)
          /\ cmd' = [cmd EXCEPT ![c].pc = "resave"]
          /\ UNCHANGED disk
    /\ UNCHANGED <<screen, ready, life, stray, unopened>>

RenewedSave(c) ==
    /\ life = "run"
    /\ cmd[c].pc = "resave"
    /\ disk' \in {cfg, disk}
    /\ cmd' = [cmd EXCEPT ![c].pc = "again"]
    /\ UNCHANGED <<screen, ready, life, cfg, raced, stray, unopened>>

(* The second try.  It runs on context.Background(): no deadline ends it.  *)
SecondTry(c) == life = "run" /\ cmd[c].pc = "again" /\ Outcome(c)

WriteAccess(c) ==
    /\ life = "run"
    /\ cmd[c].pc = "access"
    /\ cfg' = [cfg EXCEPT !.access = c]
    /\ raced' = (raced \/ Writing)
    /\ cmd' = [cmd EXCEPT ![c].pc = "refresh"]
    /\ UNCHANGED <<screen, ready, life, disk, stray, unopened>>

(* Mutant: the refresh token of the answer is not kept.                    *)
WriteRefresh_Skipped(c) ==
    /\ life = "run"
    /\ cmd[c].pc = "refresh"
    /\ cmd' = [cmd EXCEPT ![c].pc = "save"]
    /\ UNCHANGED <<screen, ready, life, conf, stray, unopened>>

WriteRefresh(c) ==
    /\ life = "run"
    /\ cmd[c].pc = "refresh"
    /\ cfg' = [cfg EXCEPT !.refresh = c]
    /\ cmd' = [cmd EXCEPT ![c].pc = "save"]
    /\ UNCHANGED <<screen, ready, life, disk, raced, stray, unopened>>

(* config.Save; its error is ignored.                                      *)
SaveConfig(c) ==
    /\ life = "run"
    /\ cmd[c].pc = "save"
    /\ disk' \in {cfg, disk}
    /\ Answer(c, "ok")
    /\ UNCHANGED <<screen, ready, life, cfg, raced, stray, unopened>>

----------------------------------------------------------------------------
(* Launcher.Update, with handleSpecialMsg.                                 *)
Arrives(c, m) ==
    /\ life = "run" /\ ~ready
    /\ cmd[c].pc = "msg" /\ cmd[c].msg = m
    /\ cmd' = [cmd EXCEPT ![c].pc = "done"]

(* Mutant: the step of the failed submit is shown with an empty form.      *)
ErrorArrives_ClearsForm(c) ==
    /\ Arrives(c, "err")
    /\ loading' = FALSE
    /\ Show(before, 0, focus)
    /\ stray' = (stray \/ step # before)
    /\ UNCHANGED <<before, session, ready, conf, unopened>>

ErrorArrives(c) ==
    /\ Arrives(c, "err")
    /\ loading' = FALSE
    /\ Show(before, inputs, focus)
    /\ stray' = (stray \/ step # before)
    /\ UNCHANGED <<before, session, ready, conf, unopened>>

NeedsMFAArrives(c) ==
    /\ Arrives(c, "mfa")
    /\ loading' = FALSE
    /\ session' = c
    /\ Show("mfa", InputsOf.mfa, 0)
    /\ UNCHANGED <<before, ready, conf, stray, unopened>>

DoneArrives(c) ==
    /\ Arrives(c, "ok")
    /\ \/ ready' = TRUE /\ UNCHANGED unopened
       \/ unopened' = TRUE /\ UNCHANGED ready
    /\ UNCHANGED <<screen, life, conf, stray>>

(* The vault's Update has no case for a message of the sign-in.            *)
LateMessage(c) ==
    /\ life = "run" /\ ready
    /\ cmd[c].pc = "msg"
    /\ cmd' = [cmd EXCEPT ![c].pc = "done"]
    /\ UNCHANGED <<screen, ready, life, conf, stray, unopened>>

Run(c) ==
    \/ Reply(c) \/ RefreshAsked(c) \/ Renewed(c) \/ RenewedSave(c)
    \/ WriteAccess(c) \/ WriteRefresh(c) \/ SaveConfig(c)
    \/ ErrorArrives(c) \/ NeedsMFAArrives(c) \/ DoneArrives(c) \/ LateMessage(c)

Next ==
    \/ CtrlC \/ ServerEnter \/ MenuEsc \/ OpenLogin \/ OpenRegister
    \/ FormEsc \/ FormTab \/ FormEnterNext \/ FormSubmit \/ MFASubmit
    \/ \E c \in Cmds : Run(c) \/ SecondTry(c)

Spec == Init /\ [][Next]_vars

(* Every first call and every refresh has a timeout and the program takes  *)
(* the messages that come; a second try may wait for ever, and the user    *)
(* need not press anything.                                                *)
FairSpec == Spec /\ \A c \in Cmds : WF_vars(Run(c))

----------------------------------------------------------------------------
(* Types.                                                                  *)
TypeOK ==
    /\ step \in Steps /\ before \in {"server", "login", "register"}
    /\ inputs \in {0, 1, 2, 4} /\ focus \in 0..3
    /\ session \in Cmds \cup {None}
    /\ loading \in BOOLEAN /\ ready \in BOOLEAN
    /\ life \in {"run", "quit", "panic"}
    /\ cmd \in [Cmds -> [kind : {"none", "login", "register", "mfa", "reject"},
                         from : Steps,
                         pc : {"unused", "call", "renew", "resave", "again",
                               "access", "refresh", "save", "msg", "done"},
                         msg : {"none", "err", "mfa", "ok"},
                         token : Cmds \cup {None}]]
    /\ cfg \in [access : Cmds \cup {None}, refresh : Cmds \cup {None}]
    /\ disk \in [access : Cmds \cup {None}, refresh : Cmds \cup {None}]
    /\ stray \in BOOLEAN /\ raced \in BOOLEAN /\ unopened \in BOOLEAN

(* The code screen always has its input; and as long as every error has    *)
(* found the step it returns to on the screen, every form shown is the one *)
(* its handlers index, and the program has not panicked, whatever keys     *)
(* were pressed while commands were running.                               *)
FormFitsUntilStrayError ==
    /\ step = "mfa" => inputs = InputsOf.mfa
    /\ ~stray =>
           /\ step \in Forms => inputs = InputsOf[step] /\ focus < inputs
           /\ life # "panic"

(* The tokens kept in memory are of one sign-in, and so are those the next *)
(* start finds on disk, unless two sign-ins wrote at the same time.        *)
TokenPairWhole ==
    ~raced =>
        /\ Writing \/ cfg.access = cfg.refresh
        /\ disk.access = disk.refresh

(* The vault is only shown once both tokens are there, although commands   *)
(* write them and the launcher switches in different goroutines.           *)
VaultHasTokens == ready => cfg.access # None /\ cfg.refresh # None

(* The spinner stops: every submit is answered, unless the vault opens,    *)
(* cannot be opened, or the program ends.  A second try, which has no      *)
(* deadline, does not keep it turning alone: it takes a refresh token, and *)
(* the sign-in that left one opens the vault or fails to.                  *)
LoadingEnds == loading ~> (~loading \/ ready \/ unopened \/ life # "run")

(* "stepBeforeLoading remembers which step to return to on error": the     *)
(* error of a code submitted returns to the screen the code was typed on.  *)
ErrorReturnsToItsStep ==
    [][\A c \in Cmds :
          cmd[c].kind = "mfa" /\ cmd[c].msg = "err" /\ cmd[c].pc = "msg" /\ cmd'[c].pc = "done" /\ ~ready
              => step' = cmd[c].from]_vars

(* A sign-in is there as a whole: both tokens of one sign-in, in memory,   *)
(* on disk and when the vault opens.                                       *)
SignedInWhole == TokenPairWhole /\ VaultHasTokens
=============================================================================
