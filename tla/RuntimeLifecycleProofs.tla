------------------------ MODULE RuntimeLifecycleProofs ------------------------
(***************************************************************************)
(* Proofs about RuntimeLifecycle for every number of shutdown() callers   *)
(* and of start() calls: the state stays well typed, the controller's     *)
(* write lock is held by exactly the thread inside blocking_send, and the *)
(* controller targets the running runtime until start() is called again.  *)
(***************************************************************************)
EXTENDS RuntimeLifecycle, TLAPS

\* The write lock is held by the one thread that is sending, and by no
\* thread otherwise (std RwLock::write on RUNTIME_CONTROLLER).
WriteLockExclusive ==
    /\ \A s \in Stoppers : sp[s] = "send" <=> wlock = s

\* The counters and the cell relate: a run is under way only after a
\* start(), the cell holds a sender of an epoch already started, and a
\* thread past RUNTIME_CONTROLLER.get() found the cell set.
EpochsInv ==
    /\ rt # "idle" => epoch \in Epochs
    /\ ctrl <= epoch
    /\ epoch > 0 => ctrl > 0
    /\ \A s \in Stoppers : sp[s] \in {"lock", "send"} => ctrl \in Epochs

LInv == LifecycleTypeOK /\ EpochsInv /\ WriteLockExclusive

LEMMA LInvInit == Init => LInv
<1> SUFFICES ASSUME Init PROVE LInv
  OBVIOUS
<1> USE LifecycleConstantsAssumption DEF Init
<1>1. LifecycleTypeOK
  <2>1. epoch \in 0..MaxStarts /\ ctrl \in 0..MaxStarts
    OBVIOUS
  <2>2. buf \in [Epochs -> 0..1] /\ rxAlive \in [Epochs -> BOOLEAN]
    BY DEF Epochs
  <2>3. /\ sp \in [Stoppers -> {"idle", "lock", "send", "done"}]
        /\ res \in [Stoppers -> {"none", "true", "false", "panic"}]
    OBVIOUS
  <2>4. QED
    BY <2>1, <2>2, <2>3 DEF LifecycleTypeOK
<1>2. EpochsInv
  BY DEF EpochsInv
<1>3. WriteLockExclusive
  BY DEF WriteLockExclusive
<1>4. QED
  BY <1>1, <1>2, <1>3 DEF LInv

LEMMA LInvStep == LInv /\ [Next]_vars => LInv'
<1> SUFFICES ASSUME LInv, [Next]_vars PROVE LInv'
  OBVIOUS
<1> USE LifecycleConstantsAssumption DEF LInv, LifecycleTypeOK, EpochsInv,
        WriteLockExclusive, Epochs
<1>1. CASE Start
  BY <1>1 DEF Start
<1>2. CASE Setup
  BY <1>2 DEF Setup
<1>3. CASE Recv
  BY <1>3 DEF Recv
<1>4. CASE RunnerEnds
  BY <1>4 DEF RunnerEnds
<1>5. CASE Exit
  BY <1>5 DEF Exit
<1>6. ASSUME NEW s \in Stoppers, ShutdownCall(s) PROVE LInv'
  BY <1>6 DEF ShutdownCall
<1>7. ASSUME NEW s \in Stoppers, ShutdownLock(s) PROVE LInv'
  <2>1. CASE poisoned
    BY <1>7, <2>1 DEF ShutdownLock
  <2>2. CASE ~poisoned
    BY <1>7, <2>2 DEF ShutdownLock
  <2>3. QED
    BY <2>1, <2>2
<1>8. ASSUME NEW s \in Stoppers, ShutdownSend(s) PROVE LInv'
  <2>1. sp[s] = "send" /\ wlock = s /\ ctrl \in Epochs
    BY <1>8 DEF ShutdownSend
  <2>2. /\ sp' = [sp EXCEPT ![s] = "done"] /\ wlock' = NoStopper
        /\ UNCHANGED <<rt, epoch, ctrl, rxAlive>>
    BY <1>8 DEF ShutdownSend
  <2>3. CASE s \in AsyncStoppers /\ res' = [res EXCEPT ![s] = "panic"]
             /\ poisoned' = TRUE /\ UNCHANGED buf
    BY <2>1, <2>2, <2>3
  <2>4. CASE ~rxAlive[ctrl] /\ res' = [res EXCEPT ![s] = "false"]
             /\ UNCHANGED <<buf, poisoned>>
    BY <2>1, <2>2, <2>4
  <2>5. CASE buf' = [buf EXCEPT ![ctrl] = 1] /\ res' = [res EXCEPT ![s] = "true"]
             /\ UNCHANGED poisoned
    BY <2>1, <2>2, <2>5
  <2>6. QED
    BY <1>8, <2>3, <2>4, <2>5 DEF ShutdownSend
<1>9. CASE Terminated \/ UNCHANGED vars
  BY <1>9 DEF Terminated, vars
<1>10. QED
  BY <1>1, <1>2, <1>3, <1>4, <1>5, <1>6, <1>7, <1>8, <1>9 DEF Next

\* Type correctness (LifecycleTypeOK, checked in runtime_lifecycle) for
\* every number of shutdown() callers and start() calls: in particular a
\* runtime's channel never holds more than its one slot, so
\* blocking_send never enqueues past the capacity of channel(1).
THEOREM LifecycleTypeCorrect == Spec => []LifecycleTypeOK
BY LInvInit, LInvStep, PTL DEF Spec, LInv

\* The write lock on RUNTIME_CONTROLLER is held by exactly the thread
\* inside blocking_send: shutdown() callers send one at a time, and a
\* caller blocked on a full channel keeps every other caller waiting.
THEOREM WriteLockExclusiveHolds == Spec => []WriteLockExclusive
BY LInvInit, LInvStep, PTL DEF Spec, LInv

=============================================================================
