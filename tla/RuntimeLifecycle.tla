-------------------------- MODULE RuntimeLifecycle --------------------------
(***************************************************************************)
(* Starting and stopping the clash runtime (src/clash_lib/src/lib.rs).     *)
(*                                                                         *)
(* A host thread calls start() again and again; each call builds a tokio   *)
(* runtime and runs start_async, which creates a shutdown channel of       *)
(* capacity 1, stores its sender in the process-wide InitCell              *)
(* RUNTIME_CONTROLLER, sets everything up and then waits in select_all     *)
(* until the shutdown runner receives a message or another runner (ctrl-c, *)
(* a listener) ends.  Other threads call shutdown(), which takes the       *)
(* controller's std RwLock for writing and blocking_send()s into the       *)
(* stored sender.  Each run of start is an epoch; channels are indexed by  *)
(* epoch.                                                                  *)
(***************************************************************************)
EXTENDS Naturals

CONSTANTS
    Stoppers,        \* threads that call shutdown()
    AsyncStoppers,   \* those of them that run on a tokio runtime thread
    MaxStarts,       \* how many times the host calls start()
    NoStopper        \* nobody holds the controller's write lock

ASSUME LifecycleConstantsAssumption ==
    /\ AsyncStoppers \subseteq Stoppers
    /\ MaxStarts \in Nat \ {0}
    /\ NoStopper \notin Stoppers

VARIABLES
    rt,        \* the host thread: "idle", "setup", "running", "exiting"
    epoch,     \* number of start() calls so far
    ctrl,      \* the epoch whose sender RUNTIME_CONTROLLER holds, 0 if unset
    buf,       \* messages buffered in each epoch's channel
    rxAlive,   \* each epoch's receiver still exists
    sp,        \* per stopper: "idle", "lock", "send", "done"
    res,       \* per stopper: what shutdown() returned, or "panic"
    wlock,     \* holder of RUNTIME_CONTROLLER's write lock
    poisoned   \* the RwLock was poisoned by a panic while held

vars == <<rt, epoch, ctrl, buf, rxAlive, sp, res, wlock, poisoned>>

Epochs == 1..MaxStarts

-----------------------------------------------------------------------------

Init ==
    /\ rt = "idle"
    /\ epoch = 0
    /\ ctrl = 0
    /\ buf = [e \in Epochs |-> 0]
    /\ rxAlive = [e \in Epochs |-> FALSE]
    /\ sp = [s \in Stoppers |-> "idle"]
    /\ res = [s \in Stoppers |-> "none"]
    /\ wlock = NoStopper
    /\ poisoned = FALSE

\* start() builds the runtime and enters start_async: mpsc::channel(1),
\* then RUNTIME_CONTROLLER.set(..), which leaves a cell that is already
\* set untouched (its `false` result is ignored) and drops the new
\* controller, and with it the run's only shutdown_tx.
Start ==
    /\ rt = "idle"
    /\ epoch < MaxStarts
    /\ epoch' = epoch + 1
    /\ rxAlive' = [rxAlive EXCEPT ![epoch + 1] = TRUE]
    /\ ctrl' = IF ctrl = 0 THEN epoch + 1 ELSE ctrl
    /\ rt' = "setup"
    /\ UNCHANGED <<buf, sp, res, wlock, poisoned>>

\* The set-up of start_async (config, logging, mmdb, resolver, managers,
\* listeners) either fails at one of its `?`s, returning the error and
\* dropping the receiver, or spawns the runners.
Setup ==
    /\ rt = "setup"
    /\ \/ /\ rt' = "running"
          /\ UNCHANGED rxAlive
       \/ /\ rt' = "idle"
          /\ rxAlive' = [rxAlive EXCEPT ![epoch] = FALSE]
    /\ UNCHANGED <<epoch, ctrl, buf, sp, res, wlock, poisoned>>

\* Mutant of Recv: the message is consumed but the runtime keeps running.
RecvIgnore ==
    /\ rt = "running"
    /\ buf[epoch] = 1
    /\ buf' = [buf EXCEPT ![epoch] = 0]
    /\ UNCHANGED <<rt, epoch, ctrl, rxAlive, sp, res, wlock, poisoned>>

\* The shutdown runner's shutdown_rx.recv() returns: select_all(runners)
\* completes and start_async starts returning.  It returns the buffered
\* message, or None at once when the run's sender was dropped because
\* the controller cell held an earlier run's sender.
Recv ==
    /\ rt = "running"
    /\ buf[epoch] = 1 \/ ctrl # epoch
    /\ buf' = [buf EXCEPT ![epoch] = 0]
    /\ rt' = "exiting"
    /\ UNCHANGED <<epoch, ctrl, rxAlive, sp, res, wlock, poisoned>>

\* Another runner ends first: ctrl-c, or a listener returned.
RunnerEnds ==
    /\ rt = "running"
    /\ rt' = "exiting"
    /\ UNCHANGED <<epoch, ctrl, buf, rxAlive, sp, res, wlock, poisoned>>

\* start returns; the runners, and with them the receiver, are dropped.
Exit ==
    /\ rt = "exiting"
    /\ rt' = "idle"
    /\ rxAlive' = [rxAlive EXCEPT ![epoch] = FALSE]
    /\ UNCHANGED <<epoch, ctrl, buf, sp, res, wlock, poisoned>>

\* shutdown(): RUNTIME_CONTROLLER.get() panics when the cell is unset.
ShutdownCall(s) ==
    /\ sp[s] = "idle"
    /\ IF ctrl = 0
       THEN /\ sp' = [sp EXCEPT ![s] = "done"]
            /\ res' = [res EXCEPT ![s] = "panic"]
       ELSE /\ sp' = [sp EXCEPT ![s] = "lock"]
            /\ UNCHANGED res
    /\ UNCHANGED <<rt, epoch, ctrl, buf, rxAlive, wlock, poisoned>>

\* .write() on the std RwLock: Err once poisoned, which returns false.
ShutdownLock(s) ==
    /\ sp[s] = "lock"
    /\ wlock = NoStopper
    /\ IF poisoned
       THEN /\ sp' = [sp EXCEPT ![s] = "done"]
            /\ res' = [res EXCEPT ![s] = "false"]
            /\ UNCHANGED wlock
       ELSE /\ sp' = [sp EXCEPT ![s] = "send"]
            /\ wlock' = s
            /\ UNCHANGED res
    /\ UNCHANGED <<rt, epoch, ctrl, buf, rxAlive, poisoned>>

\* Mutant of ShutdownSend: the channel's capacity is not respected.
ShutdownSendUnbounded(s) ==
    /\ sp[s] = "send"
    /\ ~(s \in AsyncStoppers)
    /\ rxAlive[ctrl]
    /\ buf' = [buf EXCEPT ![ctrl] = buf[ctrl] + 1]
    /\ res' = [res EXCEPT ![s] = "true"]
    /\ sp' = [sp EXCEPT ![s] = "done"]
    /\ wlock' = NoStopper
    /\ UNCHANGED <<rt, epoch, ctrl, rxAlive, poisoned>>

\* Mutant of ShutdownSend: a closed channel is waited on like a full one.
ShutdownSendWaitClosed(s) ==
    /\ sp[s] = "send"
    /\ ~(s \in AsyncStoppers)
    /\ rxAlive[ctrl] /\ buf[ctrl] = 0
    /\ buf' = [buf EXCEPT ![ctrl] = 1]
    /\ res' = [res EXCEPT ![s] = "true"]
    /\ sp' = [sp EXCEPT ![s] = "done"]
    /\ wlock' = NoStopper
    /\ UNCHANGED <<rt, epoch, ctrl, rxAlive, poisoned>>

\* blocking_send(()) under the write guard.  On a runtime thread it
\* panics, poisoning the lock as the guard unwinds.  Otherwise it fails
\* when the receiver is gone, waits while the one slot is taken, and
\* enqueues the message.  The guard is released when shutdown returns.
ShutdownSend(s) ==
    /\ sp[s] = "send"
    /\ \/ /\ s \in AsyncStoppers
          /\ res' = [res EXCEPT ![s] = "panic"]
          /\ poisoned' = TRUE
          /\ UNCHANGED buf
       \/ /\ s \notin AsyncStoppers
          /\ ~rxAlive[ctrl]
          /\ res' = [res EXCEPT ![s] = "false"]
          /\ UNCHANGED <<buf, poisoned>>
       \/ /\ s \notin AsyncStoppers
          /\ rxAlive[ctrl] /\ buf[ctrl] = 0
          /\ buf' = [buf EXCEPT ![ctrl] = 1]
          /\ res' = [res EXCEPT ![s] = "true"]
          /\ UNCHANGED poisoned
    /\ sp' = [sp EXCEPT ![s] = "done"]
    /\ wlock' = NoStopper
    /\ UNCHANGED <<rt, epoch, ctrl, rxAlive>>

\* The host has made all its start() calls and every stopper returned.
Terminated ==
    /\ rt = "idle" /\ epoch = MaxStarts
    /\ \A s \in Stoppers : sp[s] = "done"
    /\ UNCHANGED vars

Next ==
    \/ Start \/ Setup \/ Recv \/ RunnerEnds \/ Exit
    \/ \E s \in Stoppers : ShutdownCall(s) \/ ShutdownLock(s) \/ ShutdownSend(s)
    \/ Terminated

\* The runtime makes progress on its own (set-up, the shutdown runner, the
\* return of start); a thread in shutdown() is scheduled by the OS.  The
\* host's start() calls and ctrl-c are not forced.
Fairness ==
    /\ WF_vars(Setup) /\ WF_vars(Recv) /\ WF_vars(Exit)
    /\ \A s \in Stoppers : WF_vars(ShutdownLock(s)) /\ WF_vars(ShutdownSend(s))

Spec == Init /\ [][Next]_vars
FairSpec == Spec /\ Fairness

-----------------------------------------------------------------------------

LifecycleTypeOK ==
    /\ rt \in {"idle", "setup", "running", "exiting"}
    /\ epoch \in 0..MaxStarts
    /\ ctrl \in 0..MaxStarts
    /\ buf \in [Epochs -> 0..1]
    /\ rxAlive \in [Epochs -> BOOLEAN]
    /\ sp \in [Stoppers -> {"idle", "lock", "send", "done"}]
    /\ res \in [Stoppers -> {"none", "true", "false", "panic"}]
    /\ wlock \in Stoppers \cup {NoStopper}
    /\ poisoned \in BOOLEAN

\* A thread that called shutdown() eventually returns: blocking_send on a
\* full channel, which holds the controller's write lock and so blocks
\* every other caller, is always released by the runtime consuming the
\* message or dropping the receiver.
ShutdownReturns ==
    \A s \in Stoppers : sp[s] # "idle" ~> sp[s] = "done"

\* A shutdown message that was delivered to a runtime's channel ends that
\* runtime: its receiver is eventually dropped.
SignalStopsRuntime ==
    \A e \in Epochs : buf[e] = 1 ~> ~rxAlive[e]

\* shutdown() targets the runtime being run: while a run of start is
\* active, RUNTIME_CONTROLLER holds that run's sender.
ControllerTargetsCurrent ==
    rt # "idle" => ctrl = epoch

\* shutdown() never panics; it answers true or false.
NoShutdownPanic ==
    \A s \in Stoppers : res[s] # "panic"

=============================================================================
