--------------------------- MODULE DnsResolveProofs ---------------------------
(***************************************************************************)
(* Proofs about the resolve path of DnsResolve, for every set of tasks     *)
(* and hosts, every hosts table and every fake-IP and ipv6 setting: the    *)
(* state stays well typed, the fake-IP engine's write lock is held by      *)
(* exactly the task inside the engine, and hosts entries take precedence.  *)
(***************************************************************************)
EXTENDS DnsResolve, TLAPS

AllAbsent == [f \in Fams |-> "absent"]

\* A task that is not running holds no future; a fake-IP query holds none.
NoFutures ==
    \A t \in Tasks :
        /\ phase[t] # "run" => fst[t] = AllAbsent
        /\ mode[t] = "fake" => fst[t] = AllAbsent

\* A future inside fake_dns.lookup belongs to the running task that holds
\* the write lock (the converse of FakeLockHeldByOwner).
InFakeHoldsLock ==
    \A t \in Tasks, f \in Fams : fst[t][f] = "in_fake" => lock = t

LockInv == ResolveTypeOK /\ NoFutures /\ InFakeHoldsLock /\ FakeLockHeldByOwner

\* An enhanced call for a host with a hosts entry never waits: its futures
\* are never past their synchronous prefix, and what it returned is the
\* hosts entry whenever it is an address.
HostsOK(t) ==
    enh[t] /\ HostsTable[host[t]] # "none" =>
        /\ \A f \in Fams : fst[t][f] \in {"absent", "new"}
        /\ phase[t] = "done" /\ out[t].kind = "some" => out[t].src = "hosts"

HostsAnswered == \A t \in Tasks : HostsOK(t)

-----------------------------------------------------------------------------
(* Lemmas about the steps every future's completion is made of.           *)

\* Dropping future f of task t under select_ok: the rest of t goes on.
Drop(t, f) ==
    /\ fst' = [fst EXCEPT ![t][f] = "absent"]
    /\ UNCHANGED <<phase, out, lock>>
    /\ mode' \in {mode, [mode EXCEPT ![t] = "all"]}

\* A completion returns v, panics, or drops an erring or empty future
\* while the other family is still running under select_ok.
LEMMA CompleteShape ==
    ASSUME NEW t, NEW f, NEW v, Complete(t, f, v)
    PROVE  \/ Finish(t, v)
           \/ Finish(t, PanicV)
           \/ Drop(t, f) /\ v.kind \in {"err", "none"} /\ mode[t] \notin {"single", "all"}
<1> DEFINE others == {g \in Fams \ {f} : fst[t][g] # "absent"}
<1>1. CASE v.kind = "panic" \/ mode[t] \in {"single", "all"}
  BY <1>1 DEF Complete
<1>2. CASE ~(v.kind = "panic" \/ mode[t] \in {"single", "all"}) /\ v.kind = "err" /\ others # {}
  BY <1>2 DEF Complete, Drop
<1>3. CASE ~(v.kind = "panic" \/ mode[t] \in {"single", "all"})
           /\ ~(v.kind = "err" /\ others # {}) /\ v.kind # "none"
  BY <1>3 DEF Complete
<1>4. CASE ~(v.kind = "panic" \/ mode[t] \in {"single", "all"})
           /\ ~(v.kind = "err" /\ others # {}) /\ v.kind = "none" /\ others = {}
  BY <1>4 DEF Complete
<1>5. CASE ~(v.kind = "panic" \/ mode[t] \in {"single", "all"})
           /\ ~(v.kind = "err" /\ others # {}) /\ v.kind = "none" /\ others # {}
  BY <1>5 DEF Complete, Drop
<1>6. QED
  BY <1>1, <1>2, <1>3, <1>4, <1>5

\* The values a future's prefix may complete with, and where it waits.
LEMMA PrefixShape ==
    ASSUME ResolveTypeOK, NEW f \in Fams, NEW h \in Hosts, NEW e \in BOOLEAN
    PROVE  /\ Prefix(f, h, e).next \in {"ready", "wait_lock", "lookup"}
           /\ Prefix(f, h, e).val \in Vals
<1> USE ResolveConstantsAssumption
<1>1. HostsAnswer(h, f) \in Vals
  BY DEF HostsAnswer, Vals, NoneV, Some, PanicV, Fams
<1>2. QED
  BY <1>1 DEF Prefix, V4Prefix, V6Prefix, Ready, Wait, Vals, Some, Err, PendingV,
           Fams, ResolveTypeOK

\* Returning keeps the lock invariant: the dropped futures release a
\* guard the task holds.
LEMMA FinishLockInv ==
    ASSUME LockInv, NEW t \in Tasks, NEW v \in Vals, phase[t] = "run",
           Finish(t, v), UNCHANGED <<ipv6, op, host, enh>>
    PROVE  LockInv'
<1> USE DEF LockInv, ResolveTypeOK
<1>1. phase' = [phase EXCEPT ![t] = phase'[t]] /\ phase'[t] \in {"connect", "done"}
  BY DEF Finish, CallerPhase, CallerGets
<1>2. /\ out' = [out EXCEPT ![t] = out'[t]] /\ out'[t] \in Vals
      /\ fst' = [fst EXCEPT ![t] = AllAbsent]
      /\ lock' = IF lock = t THEN NoTask ELSE lock
      /\ UNCHANGED mode
  BY DEF Finish, CallerPhase, CallerGets, AllAbsent, Err, Vals
<1>3. ResolveTypeOK'
  BY <1>1, <1>2 DEF AllAbsent, FutStates
<1>4. NoFutures'
  BY <1>1, <1>2 DEF NoFutures
<1>5. InFakeHoldsLock'
  BY <1>1, <1>2 DEF InFakeHoldsLock, AllAbsent
<1>6. FakeLockHeldByOwner'
  BY <1>1, <1>2 DEF FakeLockHeldByOwner
<1>7. QED
  BY <1>3, <1>4, <1>5, <1>6

\* Dropping a future that is not inside the fake-IP engine keeps it.
LEMMA DropLockInv ==
    ASSUME LockInv, NEW t \in Tasks, NEW f \in Fams, phase[t] = "run",
           fst[t][f] # "in_fake", fst[t][f] # "absent", mode[t] # "single",
           Drop(t, f), UNCHANGED <<ipv6, op, host, enh>>
    PROVE  LockInv'
<1> USE DEF LockInv, ResolveTypeOK
<1>1. mode[t] # "fake"
  BY DEF NoFutures, AllAbsent
<1>2. ResolveTypeOK'
  BY DEF Drop, FutStates
<1>3. NoFutures'
  BY <1>1 DEF Drop, NoFutures, AllAbsent
<1>4. InFakeHoldsLock'
  BY DEF Drop, InFakeHoldsLock
<1>5. FakeLockHeldByOwner'
  BY <1>1 DEF Drop, FakeLockHeldByOwner
<1>6. QED
  BY <1>2, <1>3, <1>4, <1>5


\* A future of a running task moves to a state outside the engine.
LEMMA AdvanceLockInv ==
    ASSUME LockInv, NEW t \in Tasks, NEW f \in Fams, NEW st \in {"wait_lock", "lookup"},
           phase[t] = "run", fst[t][f] \in {"new", "wait_lock"},
           fst' = [fst EXCEPT ![t][f] = st],
           UNCHANGED <<ipv6, lock, phase, op, host, enh, mode, out>>
    PROVE  LockInv'
<1> USE DEF LockInv, ResolveTypeOK
<1>1. mode[t] # "fake"
  BY DEF NoFutures, AllAbsent
<1>2. QED
  BY <1>1 DEF NoFutures, AllAbsent, InFakeHoldsLock, FakeLockHeldByOwner, FutStates

-----------------------------------------------------------------------------
(* The lock invariant is inductive.                                        *)

LEMMA LockInvInit == Init => LockInv
BY ResolveConstantsAssumption
   DEF Init, LockInv, ResolveTypeOK, NoFutures, AllAbsent, InFakeHoldsLock,
       FakeLockHeldByOwner, Ops, Vals, PendingV, FutStates

\* A completion of future f of a running task, in any state but absent.
LEMMA CompleteLockInv ==
    ASSUME LockInv, NEW t \in Tasks, NEW f \in Fams, NEW v \in Vals,
           phase[t] = "run", fst[t][f] \in {"new", "lookup", "in_fake"},
           fst[t][f] = "in_fake" => v.kind = "some",
           Complete(t, f, v), UNCHANGED <<ipv6, op, host, enh>>
    PROVE  LockInv'
<1>1. CASE Finish(t, v)
  BY <1>1, FinishLockInv
<1>2. CASE Finish(t, PanicV)
  BY <1>2, FinishLockInv DEF PanicV, Vals
<1>3. CASE Drop(t, f) /\ v.kind \in {"err", "none"} /\ mode[t] \notin {"single", "all"}
  BY <1>3, DropLockInv
<1>4. QED
  BY <1>1, <1>2, <1>3, CompleteShape

LEMMA LockInvStep == LockInv /\ [Next]_vars => LockInv'
<1> SUFFICES ASSUME LockInv, [Next]_vars PROVE LockInv'
  OBVIOUS
<1> USE ResolveConstantsAssumption
<1>1. ASSUME NEW t \in Tasks, NEW o \in Ops, NEW h \in Hosts, NEW e \in BOOLEAN,
             Call(t, o, h, e)
      PROVE  LockInv'
  <2> DEFINE fams == CASE o \in {"resolve", "dial"} -> IF ipv6 THEN Fams ELSE {"v4"}
                       [] o = "resolve_v4" -> {"v4"}
                       [] o = "resolve_v6" -> {"v6"}
                       [] o = "fake_query" -> {}
  <2>1. /\ phase[t] = "idle"
        /\ phase' = [phase EXCEPT ![t] = "run"]
        /\ fst' = [fst EXCEPT ![t] = [g \in Fams |-> IF g \in fams THEN "new" ELSE "absent"]]
        /\ mode' = [mode EXCEPT ![t] = CASE o = "fake_query" -> "fake"
                                          [] fams = Fams -> "ok"
                                          [] OTHER -> "single"]
        /\ op' = [op EXCEPT ![t] = o] /\ host' = [host EXCEPT ![t] = h]
        /\ enh' = [enh EXCEPT ![t] = e]
        /\ UNCHANGED <<ipv6, lock, out>>
    BY <1>1 DEF Call
  <2>2. o = "fake_query" => fams = {}
    BY DEF Ops
  <2>3. mode'[t] \in {"single", "ok", "all", "fake"} /\ (mode'[t] = "fake" <=> o = "fake_query")
    BY <2>1, <2>2 DEF LockInv, ResolveTypeOK, Fams
  <2>4. lock # t /\ fst[t] = AllAbsent
    BY <2>1 DEF LockInv, FakeLockHeldByOwner, NoFutures
  <2>5. ResolveTypeOK'
    BY <2>1, <2>3 DEF LockInv, ResolveTypeOK, FutStates
  <2>6. NoFutures'
    BY <2>1, <2>2, <2>3 DEF LockInv, ResolveTypeOK, NoFutures, AllAbsent
  <2>7. InFakeHoldsLock' /\ FakeLockHeldByOwner'
    BY <2>1, <2>3, <2>4 DEF LockInv, ResolveTypeOK, InFakeHoldsLock, FakeLockHeldByOwner,
                            AllAbsent
  <2>8. QED
    BY <2>5, <2>6, <2>7 DEF LockInv
<1>2. ASSUME NEW t \in Tasks, NEW f \in Fams, Poll(t, f) PROVE LockInv'
  <2> DEFINE p == Prefix(f, host[t], enh[t])
  <2>1. /\ phase[t] = "run" /\ fst[t][f] = "new"
        /\ UNCHANGED <<ipv6, op, host, enh>>
    BY <1>2 DEF Poll
  <2>2. p.next \in {"ready", "wait_lock", "lookup"} /\ p.val \in Vals
    BY PrefixShape DEF LockInv, ResolveTypeOK
  <2>3. CASE p.next = "ready"
    BY <1>2, <2>1, <2>2, <2>3, CompleteLockInv DEF Poll
  <2>4. CASE p.next # "ready"
    <3>1. fst' = [fst EXCEPT ![t][f] = p.next] /\ UNCHANGED <<phase, out, lock, mode>>
      BY <1>2, <2>4 DEF Poll
    <3>2. QED
      BY <2>1, <2>2, <2>4, <3>1, AdvanceLockInv
  <2>5. QED
    BY <2>3, <2>4
<1>3. ASSUME NEW t \in Tasks, NEW f \in Fams, LookupDone(t, f) PROVE LockInv'
  <2>1. PICK v \in LookupAnswers(f) : Complete(t, f, v)
    BY <1>3 DEF LookupDone
  <2>2. v \in Vals
    BY DEF LookupAnswers, Some, Err, PanicV, Vals, Fams
  <2>3. QED
    BY <1>3, <2>1, <2>2, CompleteLockInv DEF LookupDone
<1>4. ASSUME NEW t \in Tasks, NEW f \in Fams, FakeAcquire(t, f) PROVE LockInv'
  <2>1. /\ phase[t] = "run" /\ fst[t][f] = "wait_lock" /\ lock = NoTask
        /\ UNCHANGED <<ipv6, phase, op, host, enh, mode, out>>
    BY <1>4 DEF FakeAcquire
  <2>2. CASE host[t] \in FakeSkip
    BY <1>4, <2>1, <2>2, AdvanceLockInv DEF FakeAcquire
  <2>3. CASE host[t] \notin FakeSkip
    <3>1. fst' = [fst EXCEPT ![t][f] = "in_fake"] /\ lock' = t
      BY <1>4, <2>3 DEF FakeAcquire
    <3>2. \A s \in Tasks, g \in Fams : fst[s][g] # "in_fake"
      BY <2>1 DEF LockInv, InFakeHoldsLock
    <3>3. QED
      BY <2>1, <3>1, <3>2 DEF LockInv, ResolveTypeOK, NoFutures, AllAbsent, InFakeHoldsLock,
                               FakeLockHeldByOwner, FutStates
  <2>4. QED
    BY <2>2, <2>3
<1>5. ASSUME NEW t \in Tasks, NEW f \in Fams, FakeDone(t, f) PROVE LockInv'
  <2>1. Some("v4", "fake") \in Vals /\ Some("v4", "fake").kind = "some"
    BY DEF Some, Vals, Fams
  <2>2. QED
    BY <1>5, <2>1, CompleteLockInv DEF FakeDone
<1>6. ASSUME NEW t \in Tasks, FakeQueryAcquire(t) PROVE LockInv'
  <2>1. /\ phase[t] = "run" /\ mode[t] = "fake" /\ lock # t /\ fst[t] = AllAbsent
        /\ UNCHANGED <<ipv6, op, host, enh, mode, fst>>
    BY <1>6 DEF FakeQueryAcquire, LockInv, NoFutures
  <2>2. CASE FakeEnabled
    <3>1. lock = NoTask /\ lock' = t /\ UNCHANGED <<phase, out, mode, fst>>
      BY <1>6, <2>2 DEF FakeQueryAcquire
    <3>2. QED
      BY <2>1, <3>1 DEF LockInv, ResolveTypeOK, NoFutures, InFakeHoldsLock,
                         FakeLockHeldByOwner
  <2>3. CASE ~FakeEnabled
    <3>1. /\ phase' = [phase EXCEPT ![t] = "done"] /\ out' = [out EXCEPT ![t] = NoneV]
          /\ UNCHANGED <<lock, mode, fst>>
      BY <1>6, <2>3 DEF FakeQueryAcquire
    <3>2. QED
      BY <2>1, <3>1 DEF LockInv, ResolveTypeOK, NoFutures, InFakeHoldsLock,
                         FakeLockHeldByOwner, NoneV, Vals
  <2>4. QED
    BY <1>6, <2>2, <2>3 DEF FakeQueryAcquire
<1>7. ASSUME NEW t \in Tasks, FakeQueryDone(t) PROVE LockInv'
  <2>1. /\ mode[t] = "fake" /\ lock = t /\ fst[t] = AllAbsent /\ lock' = NoTask
        /\ phase' = [phase EXCEPT ![t] = "done"] /\ out' = [out EXCEPT ![t] = NoneV]
        /\ UNCHANGED <<mode, fst>>
    BY <1>7 DEF FakeQueryDone, LockInv, NoFutures
  <2>2. \A s \in Tasks, g \in Fams : fst[s][g] # "in_fake"
    BY <2>1 DEF LockInv, InFakeHoldsLock, AllAbsent
  <2>3. QED
    BY <1>7, <2>1, <2>2 DEF FakeQueryDone, LockInv, ResolveTypeOK, NoFutures,
                            InFakeHoldsLock, FakeLockHeldByOwner, NoneV, Vals
<1>8. ASSUME NEW t \in Tasks, Connect(t) PROVE LockInv'
  <2>0. [out[t] EXCEPT !.kind = "conn"] \in Vals
    <3>1. out[t] \in Vals
      BY DEF LockInv, ResolveTypeOK
    <3>2. [out[t] EXCEPT !.kind = "conn"] = [kind |-> "conn", fam |-> out[t].fam, src |-> out[t].src]
      BY <3>1 DEF Vals
    <3>3. QED
      BY <3>1, <3>2 DEF Vals
  <2>1. /\ phase[t] = "connect" /\ phase' = [phase EXCEPT ![t] = "done"]
        /\ out'[t] \in Vals /\ out' = [out EXCEPT ![t] = out'[t]]
        /\ UNCHANGED <<ipv6, lock, op, host, enh, mode, fst>>
    BY <1>8, <2>0 DEF Connect, LockInv, ResolveTypeOK, Vals, Err
  <2>2. lock # t
    BY <2>1 DEF LockInv, FakeLockHeldByOwner
  <2>3. QED
    BY <2>1, <2>2 DEF LockInv, ResolveTypeOK, NoFutures, InFakeHoldsLock, FakeLockHeldByOwner
<1>9. ASSUME NEW b \in BOOLEAN, SetIpv6(b) PROVE LockInv'
  BY <1>9 DEF SetIpv6, LockInv, ResolveTypeOK, NoFutures, InFakeHoldsLock, FakeLockHeldByOwner
<1>10. CASE Terminated \/ UNCHANGED vars
  BY <1>10 DEF Terminated, vars, LockInv, ResolveTypeOK, NoFutures, InFakeHoldsLock,
               FakeLockHeldByOwner
<1>11. QED
  BY <1>1, <1>2, <1>3, <1>4, <1>5, <1>6, <1>7, <1>8, <1>9, <1>10 DEF Next

\* Type correctness of the resolve path, for every configuration.
THEOREM ResolveTypeCorrect == Spec => []ResolveTypeOK
BY LockInvInit, LockInvStep, PTL DEF Spec, LockInv

\* FakeLockHeldByOwner (checked in resolve_safety) for every number of
\* tasks and hosts and every setting: the fake_dns write lock is only
\* held by a running task inside fake_dns.lookup or a fake-IP query, so a
\* guard of a future that select_ok dropped is released with it, and
\* conversely only the lock's holder is inside the engine.
THEOREM FakeLockHeldByOwnerHolds == Spec => [](FakeLockHeldByOwner /\ InFakeHoldsLock)
BY LockInvInit, LockInvStep, PTL DEF Spec, LockInv


-----------------------------------------------------------------------------
(* Hosts precedence.                                                       *)

\* With the enhanced flag, a host with a hosts entry is answered by the
\* synchronous prefix of either family, from the entry or with an error.
LEMMA PrefixHosts ==
    ASSUME NEW f \in Fams, NEW h \in Hosts, HostsTable[h] # "none"
    PROVE  /\ Prefix(f, h, TRUE).next = "ready"
           /\ Prefix(f, h, TRUE).val.kind = "some" => Prefix(f, h, TRUE).val.src = "hosts"
<1>1. HostsAnswer(h, f).kind = "some" => HostsAnswer(h, f).src = "hosts"
  BY DEF HostsAnswer, NoneV, Some, PanicV
<1>2. QED
  BY <1>1 DEF Prefix, V4Prefix, V6Prefix, Ready, Err, Fams

\* Only task t's entries change: the other tasks keep HostsOK.
LEMMA HostsFrame ==
    ASSUME NEW t \in Tasks, ResolveTypeOK, HostsAnswered,
           \A s \in Tasks \ {t} : /\ enh'[s] = enh[s] /\ host'[s] = host[s]
                                  /\ fst'[s] = fst[s] /\ phase'[s] = phase[s]
                                  /\ out'[s] = out[s],
           HostsOK(t)'
    PROVE  HostsAnswered'
BY DEF HostsAnswered, HostsOK

\* Returning v keeps HostsOK(t) when v, if an address, is the hosts entry.
LEMMA FinishHosts ==
    ASSUME ResolveTypeOK, HostsAnswered, NEW t \in Tasks, NEW v,
           enh[t] /\ HostsTable[host[t]] # "none" /\ v.kind = "some" => v.src = "hosts",
           Finish(t, v), UNCHANGED <<ipv6, op, host, enh>>
    PROVE  HostsAnswered'
<1>1. /\ fst'[t] = AllAbsent
      /\ out'[t] = IF op[t] = "dial" /\ v.kind = "none" THEN Err("no_ip") ELSE v
  BY DEF Finish, CallerPhase, CallerGets, ResolveTypeOK, AllAbsent
<1>2. HostsOK(t)'
  BY <1>1 DEF HostsOK, AllAbsent, Err
<1>3. QED
  BY <1>2, HostsFrame DEF Finish, CallerPhase, CallerGets, ResolveTypeOK

\* new_tcp_stream's connect returns a stream or an error, never an address.
LEMMA ConnectOut ==
    ASSUME ResolveTypeOK, NEW t \in Tasks, Connect(t)
    PROVE  /\ UNCHANGED <<ipv6, lock, op, host, enh, mode, fst>>
           /\ phase' = [phase EXCEPT ![t] = "done"]
           /\ out' = [out EXCEPT ![t] = out'[t]]
           /\ out'[t] \in Vals /\ out'[t].kind \in {"conn", "err"}
<1>1. out[t] \in Vals
  BY DEF ResolveTypeOK
<1>2. [out[t] EXCEPT !.kind = "conn"] = [kind |-> "conn", fam |-> out[t].fam, src |-> out[t].src]
  BY <1>1 DEF Vals
<1>3. [out[t] EXCEPT !.kind = "conn"] \in Vals
  BY <1>1, <1>2 DEF Vals
<1>4. PICK ok \in BOOLEAN :
         out' = [out EXCEPT ![t] = IF ok THEN [out[t] EXCEPT !.kind = "conn"]
                                         ELSE Err("connect")]
  BY DEF Connect
<1>5. QED
  BY <1>2, <1>3, <1>4 DEF Connect, ResolveTypeOK, Err, Vals

HInv == LockInv /\ HostsAnswered

LEMMA HInvInit == Init => HInv
BY LockInvInit DEF Init, HInv, HostsAnswered, HostsOK, Fams

LEMMA HInvStep == HInv /\ [Next]_vars => HInv'
<1> SUFFICES ASSUME HInv, [Next]_vars PROVE HInv'
  OBVIOUS
<1>0. LockInv'
  BY LockInvStep DEF HInv
<1> USE ResolveConstantsAssumption DEF HInv, LockInv
<1>1. ASSUME NEW t \in Tasks, NEW o \in Ops, NEW h \in Hosts, NEW e \in BOOLEAN,
             Call(t, o, h, e)
      PROVE  HostsAnswered'
  <2>1. /\ \A f \in Fams : fst'[t][f] \in {"absent", "new"}
        /\ phase'[t] = "run"
    BY <1>1 DEF Call, ResolveTypeOK
  <2>2. QED
    BY <1>1, <2>1, HostsFrame DEF Call, HostsOK, ResolveTypeOK
<1>2. ASSUME NEW t \in Tasks, NEW f \in Fams, Poll(t, f) PROVE HostsAnswered'
  <2> DEFINE p == Prefix(f, host[t], enh[t])
  <2>1. /\ phase[t] = "run" /\ fst[t][f] = "new"
        /\ UNCHANGED <<ipv6, op, host, enh>>
    BY <1>2 DEF Poll
  <2>2. enh[t] /\ HostsTable[host[t]] # "none" =>
           p.next = "ready" /\ (p.val.kind = "some" => p.val.src = "hosts")
    BY PrefixHosts DEF ResolveTypeOK
  <2>3. CASE p.next = "ready"
    <3>1. Complete(t, f, p.val)
      BY <1>2, <2>3 DEF Poll
    <3>2. CASE Finish(t, p.val)
      BY <2>1, <2>2, <3>2, FinishHosts
    <3>3. CASE Finish(t, PanicV)
      BY <2>1, <3>3, FinishHosts DEF PanicV
    <3>4. CASE Drop(t, f)
      <4>1. HostsOK(t)'
        BY <2>1, <3>4 DEF Drop, HostsOK, HostsAnswered, ResolveTypeOK
      <4>2. QED
        BY <2>1, <3>4, <4>1, HostsFrame DEF Drop, ResolveTypeOK
    <3>5. QED
      BY <3>1, <3>2, <3>3, <3>4, CompleteShape
  <2>4. CASE p.next # "ready"
    <3>1. fst' = [fst EXCEPT ![t][f] = p.next] /\ UNCHANGED <<phase, out>>
      BY <1>2, <2>4 DEF Poll
    <3>2. HostsOK(t)'
      BY <2>1, <2>2, <2>4, <3>1 DEF HostsOK, HostsAnswered, ResolveTypeOK
    <3>3. QED
      BY <2>1, <3>1, <3>2, HostsFrame DEF ResolveTypeOK
  <2>5. QED
    BY <2>3, <2>4
\* A task whose future waits is not answered from the hosts table.
<1>3. ASSUME NEW t \in Tasks, NEW f \in Fams,
             fst[t][f] \in {"lookup", "wait_lock", "in_fake"},
             UNCHANGED <<ipv6, op, host, enh>>,
             \/ \E v \in Vals : Complete(t, f, v)
             \/ /\ fst' = [fst EXCEPT ![t][f] = fst'[t][f]]
                /\ UNCHANGED <<phase, out>>
      PROVE  HostsAnswered'
  <2>1. ~(enh[t] /\ HostsTable[host[t]] # "none")
    BY <1>3 DEF HostsAnswered, HostsOK
  <2>2. HostsOK(t)'
    BY <1>3, <2>1 DEF HostsOK
  <2>3. CASE \E v \in Vals : Complete(t, f, v)
    <3>1. PICK v \in Vals : Complete(t, f, v)
      BY <2>3
    <3>2. CASE Finish(t, v) \/ Finish(t, PanicV)
      BY <1>3, <2>1, <3>2, FinishHosts
    <3>3. CASE Drop(t, f)
      BY <1>3, <2>2, <3>3, HostsFrame DEF Drop, ResolveTypeOK
    <3>4. QED
      BY <3>1, <3>2, <3>3, CompleteShape
  <2>4. CASE /\ fst' = [fst EXCEPT ![t][f] = fst'[t][f]]
             /\ UNCHANGED <<phase, out>>
    BY <1>3, <2>2, <2>4, HostsFrame DEF ResolveTypeOK
  <2>5. QED
    BY <1>3, <2>3, <2>4
<1>4. ASSUME NEW t \in Tasks, NEW f \in Fams, LookupDone(t, f) PROVE HostsAnswered'
  <2>1. \E v \in Vals : Complete(t, f, v)
    BY <1>4 DEF LookupDone, LookupAnswers, Some, Err, PanicV, Vals, Fams
  <2>2. QED
    BY <1>4, <1>3, <2>1 DEF LookupDone
<1>5. ASSUME NEW t \in Tasks, NEW f \in Fams, FakeAcquire(t, f) PROVE HostsAnswered'
  <2>1. /\ fst' = [fst EXCEPT ![t][f] = fst'[t][f]]
        /\ UNCHANGED <<phase, out>>
    BY <1>5 DEF FakeAcquire
  <2>2. QED
    BY <1>5, <1>3, <2>1 DEF FakeAcquire
<1>6. ASSUME NEW t \in Tasks, NEW f \in Fams, FakeDone(t, f) PROVE HostsAnswered'
  <2>1. \E v \in Vals : Complete(t, f, v)
    BY <1>6 DEF FakeDone, Some, Vals, Fams
  <2>2. QED
    BY <1>6, <1>3, <2>1 DEF FakeDone
<1>7. ASSUME NEW t \in Tasks, FakeQueryAcquire(t) \/ FakeQueryDone(t)
      PROVE  HostsAnswered'
  <2>1. /\ UNCHANGED <<enh, host, fst>>
        /\ \/ UNCHANGED <<phase, out>>
           \/ /\ phase' = [phase EXCEPT ![t] = "done"]
              /\ out' = [out EXCEPT ![t] = NoneV]
    <3>1. CASE FakeQueryAcquire(t) /\ FakeEnabled
      BY <3>1 DEF FakeQueryAcquire
    <3>2. CASE FakeQueryAcquire(t) /\ ~FakeEnabled
      BY <3>2 DEF FakeQueryAcquire
    <3>3. CASE FakeQueryDone(t)
      BY <3>3 DEF FakeQueryDone
    <3>4. QED
      BY <1>7, <3>1, <3>2, <3>3
  <2>2. HostsOK(t)'
    BY <2>1 DEF HostsAnswered, HostsOK, NoneV, ResolveTypeOK
  <2>3. QED
    BY <2>1, <2>2, HostsFrame DEF ResolveTypeOK
<1>8. ASSUME NEW t \in Tasks, Connect(t) PROVE HostsAnswered'
  <2>1. /\ UNCHANGED <<enh, host, fst>>
        /\ phase' = [phase EXCEPT ![t] = "done"]
        /\ out'[t].kind # "some" /\ out' = [out EXCEPT ![t] = out'[t]]
    BY <1>8, ConnectOut
  <2>2. HostsOK(t)
    BY DEF HostsAnswered
  <2>3. HostsOK(t)'
    BY <2>1, <2>2 DEF HostsOK
  <2>4. QED
    BY <2>1, <2>3, HostsFrame DEF ResolveTypeOK
<1>9. ASSUME (\E b \in BOOLEAN : SetIpv6(b)) \/ Terminated \/ UNCHANGED vars
      PROVE  HostsAnswered'
  BY <1>9 DEF SetIpv6, Terminated, vars, HostsAnswered, HostsOK
<1>10. HostsAnswered'
  BY <1>1, <1>2, <1>4, <1>5, <1>6, <1>7, <1>8, <1>9 DEF Next
<1>11. QED
  BY <1>0, <1>10

\* P10, hosts precedence (HostsPrecedence, checked in resolve_safety),
\* for every hosts table and every fake-IP and ipv6 setting: an enhanced
\* resolution of a host with a hosts entry that returns an address returns
\* the entry, whatever set_ipv6, the fake-IP engine or the other family's
\* future does meanwhile.
THEOREM HostsPrecedenceHolds == Spec => []HostsPrecedence
<1>1. HInv => HostsPrecedence
  BY DEF HInv, HostsAnswered, HostsOK, HostsPrecedence
<1>2. QED
  BY <1>1, HInvInit, HInvStep, PTL DEF Spec


=============================================================================
