---------------------------- MODULE IndexEvents ----------------------------
(***************************************************************************)
(* The event indexer's entry point (observability/crates/event_indexer/    *)
(* bin/index_events.rs): main loads .env, installs a panic hook that runs  *)
(* the original hook and then exits the process with code 1, reads its     *)
(* Config from the environment (unwrap), initializes the EventIndexer and  *)
(* the Snapshot (`?`), spawns indexer.run() as a tokio task and awaits it. *)
(* The task runs on a worker thread concurrently with main.  The indexer   *)
(* and snapshot code is not in this repository: their calls return or     *)
(* panic, and snapshot.init() may also return an error.  An environment    *)
(* value is abstracted to the class that decides whether envconfig parses  *)
(* it; the logging layer and the messages logged are left out.            *)
(***************************************************************************)
EXTENDS Integers

CONSTANTS
    RawValues   \* classes of environment values: "unset", "number" (digits),
                \* "true"; any text is a String

ASSUME "unset" \in RawValues

EnvVars == {"RPC_HOST", "RPC_TOKEN", "MONITOR_INTERVAL", "PRETTY_LOGS"}

Running == -1   \* no exit code yet
Stages == {"dotenv", "config", "indexer_init", "snapshot_init", "spawn", "await", "exited"}

VARIABLES
    procEnv,    \* the process environment at start
    dotFile,    \* the variables the .env file sets ("unset": not in it)
    env,        \* the environment main reads after dotenv()
    pc,         \* main's position
    task,       \* the spawned indexer task: none, running, returned, panicked
    exitCode,   \* the process's exit code, Running while alive
    failures    \* the panics and errors that happened

vars == <<procEnv, dotFile, env, pc, task, exitCode, failures>>

(* envconfig's parse of one field: String needs the variable set, u64 a    *)
(* number, and Option<bool> is None when unset or else must parse.         *)
Parses(var, v) ==
    CASE var \in {"RPC_HOST", "RPC_TOKEN"} -> v # "unset"
      [] var = "MONITOR_INTERVAL"          -> v = "number"
      [] var = "PRETTY_LOGS"               -> v \in {"unset", "true"}

(* Config::init_from_env() is Ok when every field parses.                 *)
ConfigOk(e) == \A var \in EnvVars : Parses(var, e[var])

Init ==
    /\ procEnv \in [EnvVars -> RawValues]
    /\ dotFile \in [EnvVars -> RawValues]
    /\ env = procEnv
    /\ pc = "dotenv"
    /\ task = "none"
    /\ exitCode = Running
    /\ failures = {}

Alive == exitCode = Running

(* Variant: a hook that only runs the original one.  A panic on main's     *)
(* thread then unwinds main and the process exits with 101; a panic in the *)
(* task ends the task, and tokio hands main a JoinError.                  *)
PanicNoExit(where, onMain) ==
    /\ failures' = failures \cup {where}
    /\ IF onMain THEN /\ exitCode' = 101 /\ pc' = "exited" /\ UNCHANGED task
                 ELSE /\ task' = "panicked" /\ UNCHANGED <<exitCode, pc>>

(* A panic, on main's thread or the task's: the hook runs the original     *)
(* hook and then process::exit(1), on the panicking thread, before any     *)
(* unwinding could reach a JoinHandle.                                     *)
Panic(where, onMain) ==
    /\ failures' = failures \cup {where}
    /\ exitCode' = 1
    /\ pc' = "exited"
    /\ UNCHANGED task

(* dotenv().ok() sets the .env file's variables that are not already set,  *)
(* and its error is ignored; then the panic hook is installed.            *)
LoadDotenv ==
    /\ Alive /\ pc = "dotenv"
    /\ env' = [var \in EnvVars |-> IF procEnv[var] = "unset" THEN dotFile[var]
                                                             ELSE procEnv[var]]
    /\ pc' = "config"
    /\ UNCHANGED <<procEnv, dotFile, task, exitCode, failures>>

(* Config::init_from_env().unwrap(); the subscriber is then installed,    *)
(* which cannot fail on its first call.                                   *)
InitFromEnv ==
    /\ Alive /\ pc = "config"
    /\ IF ConfigOk(env)
       THEN /\ pc' = "indexer_init"
            /\ UNCHANGED <<task, exitCode, failures>>
       ELSE Panic("config", TRUE)
    /\ UNCHANGED <<procEnv, dotFile, env>>

(* indexer.init().await: its result is only logged, or it panics.          *)
IndexerInit(panics) ==
    /\ Alive /\ pc = "indexer_init"
    /\ IF panics THEN Panic("indexer_init", TRUE)
       ELSE /\ pc' = "snapshot_init"
            /\ UNCHANGED <<task, exitCode, failures>>
    /\ UNCHANGED <<procEnv, dotFile, env>>

(* Variant: snapshot.init().await.ok(), the error dropped instead of `?`.  *)
SnapshotInitIgnored(r) ==
    /\ Alive /\ pc = "snapshot_init"
    /\ CASE r = "ok"    -> /\ pc' = "spawn" /\ UNCHANGED <<task, exitCode, failures>>
         [] r = "err"   -> /\ pc' = "spawn" /\ failures' = failures \cup {"snapshot"}
                           /\ UNCHANGED <<task, exitCode>>
         [] r = "panic" -> Panic("snapshot_init", TRUE)
    /\ UNCHANGED <<procEnv, dotFile, env>>

(* snapshot.init().await?: an error makes main return Err, and a main that *)
(* returns Err exits the process with code 1.                              *)
SnapshotInit(r) ==
    /\ Alive /\ pc = "snapshot_init"
    /\ CASE r = "ok"    -> /\ pc' = "spawn" /\ UNCHANGED <<task, exitCode, failures>>
         [] r = "err"   -> /\ pc' = "exited" /\ exitCode' = 1
                           /\ failures' = failures \cup {"snapshot"}
                           /\ UNCHANGED task
         [] r = "panic" -> Panic("snapshot_init", TRUE)
    /\ UNCHANGED <<procEnv, dotFile, env>>

(* tokio::spawn(indexer.run()).                                           *)
Spawn ==
    /\ Alive /\ pc = "spawn"
    /\ pc' = "await"
    /\ task' = "running"
    /\ UNCHANGED <<procEnv, dotFile, env, exitCode, failures>>

(* indexer.run() returns, whatever it returns.                            *)
TaskReturns ==
    /\ Alive /\ task = "running"
    /\ task' = "returned"
    /\ UNCHANGED <<procEnv, dotFile, env, pc, exitCode, failures>>

(* indexer.run() panics on the worker thread.                             *)
TaskPanics ==
    /\ Alive /\ task = "running"
    /\ Panic("task", FALSE)
    /\ UNCHANGED <<procEnv, dotFile, env>>

(* indexer_handle.await resolves: Ok is logged as success and a JoinError  *)
(* as an error, and either way main returns Ok(()): exit code 0.           *)
Join ==
    /\ Alive /\ pc = "await"
    /\ task \in {"returned", "panicked"}
    /\ pc' = "exited"
    /\ exitCode' = 0
    /\ UNCHANGED <<procEnv, dotFile, env, task, failures>>

Next ==
    \/ LoadDotenv
    \/ InitFromEnv
    \/ \E panics \in BOOLEAN : IndexerInit(panics)
    \/ \E r \in {"ok", "err", "panic"} : SnapshotInit(r)
    \/ Spawn
    \/ TaskReturns
    \/ TaskPanics
    \/ Join

Spec == Init /\ [][Next]_vars

(***************************************************************************)
(* Properties                                                              *)
(***************************************************************************)
TypeOK ==
    /\ env \in [EnvVars -> RawValues]
    /\ pc \in Stages
    /\ task \in {"none", "running", "returned", "panicked"}
    /\ exitCode \in {Running, 0, 1, 101}
    /\ failures \subseteq {"config", "indexer_init", "snapshot", "snapshot_init", "task"}

(* A supervisor reading the exit code is never told that all went well    *)
(* when something failed: the process exits 0 only after the indexer task *)
(* returned, with no panic on any thread and no error from the snapshot.   *)
(* It rests on the hook's process::exit(1) racing the JoinHandle, and on   *)
(* the `?` after snapshot.init().                                          *)
ExitZeroOnlyOnSuccess ==
    exitCode = 0 => failures = {} /\ task = "returned"

=============================================================================
