---------------------------- MODULE ConfigWatch -----------------------------
(***************************************************************************)
(* pkg/config for one setting.  Load first copies the lines of .env into   *)
(* the environment of the process, where the variable is empty, and then   *)
(* parses the environment; Watch does so again every ten seconds and       *)
(* whenever the file is written.  main keeps the configuration of its own  *)
(* first Load beside the live one.                                         *)
(*                                                                         *)
(* The value "" is a variable that is not set, or a line that is missing   *)
(* (the file may be read while an editor is writing it).                   *)
(***************************************************************************)
EXTENDS Naturals

CONSTANTS
    Values,       \* what a variable can hold, beside ""
    Parsed        \* those of them getenv accepts

Default == "default"

VARIABLES
    container,    \* value the process is started with
    dotenv,       \* value in the file .env
    env,          \* value in the environment of the running process
    startup,      \* value in main's cfg
    config        \* value in globalConfig

configVars == <<container, dotenv, env, startup, config>>

\* loadEnv: only a variable that is empty takes the value of the file.
LoadEnv == IF env = "" THEN dotenv ELSE env

\* getenv and its kind: what is missing or cannot be parsed is the default.
Getenv(v) == IF v \in Parsed THEN v ELSE Default

ConfigInit ==
    /\ container \in Values \union {""}
    /\ dotenv \in Values \union {""}
    /\ env = "" /\ startup = Default /\ config = Default

\* main: Load, then Watch's own initial load.  An
\* edit of the file between the two is one before the first poll.
ConfigStart ==
    /\ env' = IF container = "" THEN dotenv ELSE container
    /\ startup' = Getenv(env')
    /\ config' = Getenv(env')
    /\ UNCHANGED <<container, dotenv>>

\* Watch: the ticker or a write event.
ConfigPoll ==
    /\ env' = LoadEnv
    /\ config' = Getenv(env')
    /\ UNCHANGED <<container, dotenv, startup>>

\* Somebody edits .env, at any time.
EditDotenv ==
    /\ dotenv' \in (Values \union {""}) \ {dotenv}
    /\ UNCHANGED <<container, env, startup, config>>

ConfigDown ==
    /\ env' = "" /\ startup' = Default /\ config' = Default
    /\ UNCHANGED <<container, dotenv>>
=============================================================================
