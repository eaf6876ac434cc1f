----------------------------- MODULE DnsResolve -----------------------------
(***************************************************************************)
(* The host-resolution path of the clash-rs resolver                       *)
(* (src/clash_lib/src/app/dns/resolver.rs, ClashResolver for Resolver) and *)
(* its dialing caller new_tcp_stream (proxy/utils/socket_helpers.rs).      *)
(*                                                                         *)
(* A call of resolve with the ipv6 flag set builds two futures, v6 then    *)
(* v4, and drives them with select_ok; when the first Ok is None it        *)
(* drives the futures select_ok hands back with select_all.  Each future   *)
(* runs its synchronous prefix (flag check, hosts, literal parse) when it  *)
(* is first polled and then waits, either for an upstream lookup or for    *)
(* the fake-IP engine's write lock.  A future that is dropped (because the *)
(* other one won) releases the lock guard it holds.  Tasks run             *)
(* concurrently with each other and with set_ipv6.                         *)
(*                                                                         *)
(* Addresses are abstracted to their family and to where they came from:  *)
(* the hosts table, the literal itself, the fake-IP pool or upstream.      *)
(***************************************************************************)
EXTENDS Naturals

CONSTANTS
    Tasks,          \* concurrent callers of the resolver
    Hosts,          \* host strings a caller may pass
    HostsTable,     \* hosts.search(h): "none", or the entry's family "v4", "v6"
    Literal,        \* "v4"/"v6" when h parses as an address of that family
    FakeSkip,       \* hosts for which fake_dns.should_skip(h) holds
    FakeEnabled,    \* enhanced_mode = fake-ip, i.e. fake_dns.is_some()
    Ipv6Init,       \* the ipv6 flag the resolver is built with
    UpstreamMixed,  \* an upstream answer may hold records of the other family
    NoTask          \* the fake-IP lock is free

ASSUME ResolveConstantsAssumption ==
    /\ Tasks # {} /\ Hosts # {}
    /\ HostsTable \in [Hosts -> {"none", "v4", "v6"}]
    /\ Literal \in [Hosts -> {"none", "v4", "v6"}]
    /\ \A h \in Hosts : Literal[h] # "none" => HostsTable[h] = "none"
    /\ FakeSkip \subseteq Hosts
    /\ FakeEnabled \in BOOLEAN /\ Ipv6Init \in BOOLEAN
    /\ UpstreamMixed \in BOOLEAN
    /\ NoTask \notin Tasks

VARIABLES
    ipv6,     \* the AtomicBool self.ipv6
    lock,     \* holder of the fake_dns write lock, or NoTask
    phase,    \* per task: "idle", "run", "connect" (dial only), "done"
    op,       \* per task: the API called
    host,     \* per task: its host argument
    enh,      \* per task: its enhanced argument
    mode,     \* per task: "single", "ok" (select_ok), "all" (select_all), "fake"
    fst,      \* per task and family: the state of that family's future
    out       \* per task: what the call returned

vars == <<ipv6, lock, phase, op, host, enh, mode, fst, out>>

Fams == {"v4", "v6"}
Ops == {"resolve", "resolve_v4", "resolve_v6", "dial", "fake_query"}
FutStates == {"absent", "new", "wait_lock", "in_fake", "lookup"}

\* Outcomes, uniformly as records: Some(ip), None, an error, a panic, or
\* a connected stream (dial).
Vals == [kind : {"pending", "some", "none", "err", "panic", "conn"},
         fam : Fams \cup {"-"},
         src : {"hosts", "literal", "fake", "upstream", "-",
                "ipv6_disabled", "lookup", "no_ip", "connect"}]
Some(f, s) == [kind |-> "some", fam |-> f, src |-> s]
NoneV == [kind |-> "none", fam |-> "-", src |-> "-"]
Err(w) == [kind |-> "err", fam |-> "-", src |-> w]
PanicV == [kind |-> "panic", fam |-> "-", src |-> "-"]
PendingV == [kind |-> "pending", fam |-> "-", src |-> "-"]

\* The synchronous prefix of a future: either ready with a value, or
\* suspended at the state it waits in.
Ready(v) == [next |-> "ready", val |-> v]
Wait(s) == [next |-> s, val |-> PendingV]

\* v.get_data().map(|v| match v { V4/V6 => .., _ => unreachable!() }):
\* a node search returns carries data (spec 4.B: search -> value?; the
\* policy trie's search result is unwrapped the same way).
HostsAnswer(h, f) ==
    IF HostsTable[h] = f THEN Some(f, "hosts") ELSE PanicV

\* Mutant of V4Prefix: fake-IP is consulted before the hosts table.
V4PrefixFakeFirst(h, e) ==
    IF e /\ FakeEnabled THEN Wait("wait_lock")
    ELSE IF e /\ HostsTable[h] # "none" THEN Ready(HostsAnswer(h, "v4"))
    ELSE IF Literal[h] = "v4" THEN Ready(Some("v4", "literal"))
    ELSE Wait("lookup")

\* resolve_v4 up to its first await.
V4Prefix(h, e) ==
    IF e /\ HostsTable[h] # "none" THEN Ready(HostsAnswer(h, "v4"))
    ELSE IF Literal[h] = "v4" THEN Ready(Some("v4", "literal"))
    ELSE IF e /\ FakeEnabled THEN Wait("wait_lock")
    ELSE Wait("lookup")

\* resolve_v6 up to its first await; it reads the ipv6 flag again.
V6Prefix(h, e) ==
    IF ~ipv6 THEN Ready(Err("ipv6_disabled"))
    ELSE IF e /\ HostsTable[h] # "none" THEN Ready(HostsAnswer(h, "v6"))
    ELSE IF Literal[h] = "v6" THEN Ready(Some("v6", "literal"))
    ELSE Wait("lookup")

Prefix(f, h, e) == IF f = "v6" THEN V6Prefix(h, e) ELSE V4Prefix(h, e)

\* new_tcp_stream turns resolve's Ok(None) into an error and goes on to
\* connect to Some(ip); the other APIs hand resolve's value back.
CallerPhase(t, v) == IF op[t] = "dial" /\ v.kind = "some" THEN "connect" ELSE "done"
CallerGets(t, v) == IF op[t] = "dial" /\ v.kind = "none" THEN Err("no_ip") ELSE v

\* Mutant of Finish: the dropped futures keep the lock guard.
FinishKeepLock(t, v) ==
    /\ phase' = [phase EXCEPT ![t] = CallerPhase(t, v)]
    /\ out' = [out EXCEPT ![t] = CallerGets(t, v)]
    /\ fst' = [fst EXCEPT ![t] = [f \in Fams |-> "absent"]]
    /\ UNCHANGED <<lock, mode>>

\* The call returns v: the futures still pending are dropped, and with
\* them a lock guard one of them holds.
Finish(t, v) ==
    /\ phase' = [phase EXCEPT ![t] = CallerPhase(t, v)]
    /\ out' = [out EXCEPT ![t] = CallerGets(t, v)]
    /\ fst' = [fst EXCEPT ![t] = [f \in Fams |-> "absent"]]
    /\ lock' = IF lock = t THEN NoTask ELSE lock
    /\ UNCHANGED mode

\* Future f of task t completes with v.  A panic unwinds the task.  Under
\* select_ok an error drops f and the others go on, the last error is
\* returned; the first Ok is returned; an Ok(None) hands the remaining
\* futures to select_all, which panics when there are none.
Complete(t, f, v) ==
    LET others == {g \in Fams \ {f} : fst[t][g] # "absent"} IN
    IF v.kind = "panic" \/ mode[t] \in {"single", "all"} THEN Finish(t, v)
    ELSE IF v.kind = "err" /\ others # {} THEN
         /\ fst' = [fst EXCEPT ![t][f] = "absent"]
         /\ UNCHANGED <<phase, out, lock, mode>>
    ELSE IF v.kind # "none" THEN Finish(t, v)
    ELSE IF others = {} THEN Finish(t, PanicV)
    ELSE /\ mode' = [mode EXCEPT ![t] = "all"]
         /\ fst' = [fst EXCEPT ![t][f] = "absent"]
         /\ UNCHANGED <<phase, out, lock>>

\* One poll of select_ok polls every inner future: no wait of the task
\* ends before each of its futures has run its synchronous prefix.
Polled(t) == \A g \in Fams : fst[t][g] # "new"

-----------------------------------------------------------------------------

Init ==
    /\ ipv6 = Ipv6Init
    /\ lock = NoTask
    /\ phase = [t \in Tasks |-> "idle"]
    /\ op = [t \in Tasks |-> "resolve"]
    /\ host = [t \in Tasks |-> CHOOSE h \in Hosts : TRUE]
    /\ enh = [t \in Tasks |-> FALSE]
    /\ mode = [t \in Tasks |-> "single"]
    /\ fst = [t \in Tasks |-> [f \in Fams |-> "absent"]]
    /\ out = [t \in Tasks |-> PendingV]

\* A caller calls o(h, e).  resolve (and new_tcp_stream, which calls
\* resolve(address, false)) reads the ipv6 flag once to pick the futures.
Call(t, o, h, e) ==
    /\ phase[t] = "idle"
    /\ o = "dial" => ~e
    /\ phase' = [phase EXCEPT ![t] = "run"]
    /\ op' = [op EXCEPT ![t] = o]
    /\ host' = [host EXCEPT ![t] = h]
    /\ enh' = [enh EXCEPT ![t] = e]
    /\ LET fams == CASE o \in {"resolve", "dial"} ->
                          IF ipv6 THEN Fams ELSE {"v4"}
                     [] o = "resolve_v4" -> {"v4"}
                     [] o = "resolve_v6" -> {"v6"}
                     [] o = "fake_query" -> {}
       IN /\ fst' = [fst EXCEPT ![t] =
                       [f \in Fams |-> IF f \in fams THEN "new" ELSE "absent"]]
          /\ mode' = [mode EXCEPT ![t] =
                        CASE o = "fake_query" -> "fake"
                          [] fams = Fams -> "ok"
                          [] OTHER -> "single"]
    /\ UNCHANGED <<ipv6, lock, out>>

\* select_ok / the single future polls future f for the first time: v6
\* is polled before v4, so v4 only runs once v6 is suspended or gone.
Poll(t, f) ==
    /\ phase[t] = "run"
    /\ fst[t][f] = "new"
    /\ f = "v4" => fst[t]["v6"] # "new"
    /\ LET p == Prefix(f, host[t], enh[t]) IN
       IF p.next = "ready" THEN Complete(t, f, p.val)
       ELSE
          /\ fst' = [fst EXCEPT ![t][f] = p.next]
          /\ UNCHANGED <<phase, out, lock, mode>>
    /\ UNCHANGED <<ipv6, op, host, enh>>

\* What resolve_v4/resolve_v6 make of lookup_ip(h, A|AAAA): an error when
\* the exchange failed or ip_list_of_message found no A/AAAA record, else
\* a random choice from that list, whose address of the other family hits
\* unreachable!("invalid IP family").  ip_list_of_message keeps both
\* families whatever the query type was.
LookupAnswers(f) ==
    {Some(f, "upstream"), Err("lookup")} \cup (IF UpstreamMixed THEN {PanicV} ELSE {})

\* lookup_ip answers and the future completes with what it made of it.
LookupDone(t, f) ==
    /\ phase[t] = "run"
    /\ Polled(t)
    /\ fst[t][f] = "lookup"
    /\ \E v \in LookupAnswers(f) : Complete(t, f, v)
    /\ UNCHANGED <<ipv6, op, host, enh>>

\* resolve_v4 obtains the fake_dns write lock; should_skip(h) drops the
\* guard at once and falls through to the upstream lookup.
FakeAcquire(t, f) ==
    /\ phase[t] = "run"
    /\ Polled(t)
    /\ fst[t][f] = "wait_lock"
    /\ lock = NoTask
    /\ IF host[t] \in FakeSkip
       THEN /\ fst' = [fst EXCEPT ![t][f] = "lookup"]
            /\ UNCHANGED lock
       ELSE /\ fst' = [fst EXCEPT ![t][f] = "in_fake"]
            /\ lock' = t
    /\ UNCHANGED <<ipv6, phase, op, host, enh, mode, out>>

\* fake_dns.lookup(h) returns the host's synthetic IPv4 address.
FakeDone(t, f) ==
    /\ phase[t] = "run"
    /\ Polled(t)
    /\ fst[t][f] = "in_fake"
    /\ Complete(t, f, Some("v4", "fake"))
    /\ UNCHANGED <<ipv6, op, host, enh>>

\* is_fake_ip / fake_ip_exists / reverse_lookup: neutral answer without
\* fake-IP, otherwise the engine is queried under the write lock.
FakeQueryAcquire(t) ==
    /\ phase[t] = "run"
    /\ mode[t] = "fake"
    /\ lock # t
    /\ IF FakeEnabled
       THEN /\ lock = NoTask
            /\ lock' = t
            /\ UNCHANGED <<phase, out>>
       ELSE /\ phase' = [phase EXCEPT ![t] = "done"]
            /\ out' = [out EXCEPT ![t] = NoneV]
            /\ UNCHANGED lock
    /\ UNCHANGED <<ipv6, op, host, enh, mode, fst>>

FakeQueryDone(t) ==
    /\ phase[t] = "run"
    /\ mode[t] = "fake"
    /\ lock = t
    /\ lock' = NoTask
    /\ phase' = [phase EXCEPT ![t] = "done"]
    /\ out' = [out EXCEPT ![t] = NoneV]
    /\ UNCHANGED <<ipv6, op, host, enh, mode, fst>>

\* new_tcp_stream connects to the resolved address within 10 s.
Connect(t) ==
    /\ phase[t] = "connect"
    /\ phase' = [phase EXCEPT ![t] = "done"]
    /\ \E ok \in BOOLEAN :
         out' = [out EXCEPT ![t] =
                   IF ok THEN [out[t] EXCEPT !.kind = "conn"] ELSE Err("connect")]
    /\ UNCHANGED <<ipv6, lock, op, host, enh, mode, fst>>

\* set_ipv6 stores the flag; any thread may do so at any time.
SetIpv6(b) ==
    /\ ipv6' = b
    /\ UNCHANGED <<lock, phase, op, host, enh, mode, fst, out>>

\* Every caller has made its call and got its answer.
Terminated ==
    /\ \A t \in Tasks : phase[t] = "done"
    /\ UNCHANGED vars

Next ==
    \/ \E t \in Tasks :
          \/ \E o \in Ops, h \in Hosts, e \in BOOLEAN : Call(t, o, h, e)
          \/ \E f \in Fams : Poll(t, f) \/ LookupDone(t, f)
                             \/ FakeAcquire(t, f) \/ FakeDone(t, f)
          \/ FakeQueryAcquire(t) \/ FakeQueryDone(t) \/ Connect(t)
    \/ \E b \in BOOLEAN : SetIpv6(b)
    \/ Terminated

\* The executor polls every woken task; upstream lookups answer or time
\* out (10 s batch timeout), connects time out (10 s); tokio's RwLock
\* grants the lock in FIFO order, hence strong fairness for acquiring it.
Fairness ==
    \A t \in Tasks :
       /\ \A f \in Fams : /\ WF_vars(Poll(t, f))
                          /\ WF_vars(LookupDone(t, f))
                          /\ SF_vars(FakeAcquire(t, f))
                          /\ WF_vars(FakeDone(t, f))
       /\ SF_vars(FakeQueryAcquire(t))
       /\ WF_vars(FakeQueryDone(t))
       /\ WF_vars(Connect(t))

Spec == Init /\ [][Next]_vars
FairSpec == Spec /\ Fairness

-----------------------------------------------------------------------------

ResolveTypeOK ==
    /\ ipv6 \in BOOLEAN
    /\ lock \in Tasks \cup {NoTask}
    /\ phase \in [Tasks -> {"idle", "run", "connect", "done"}]
    /\ op \in [Tasks -> Ops]
    /\ host \in [Tasks -> Hosts]
    /\ enh \in [Tasks -> BOOLEAN]
    /\ mode \in [Tasks -> {"single", "ok", "all", "fake"}]
    /\ fst \in [Tasks -> [Fams -> FutStates]]
    /\ out \in [Tasks -> Vals]

\* The fake-IP write lock is only ever held by a running task that is
\* inside the engine: a guard held by a future that select_ok dropped
\* when the other family won must have been released with it.
FakeLockHeldByOwner ==
    lock # NoTask =>
        /\ phase[lock] = "run"
        /\ \/ \E f \in Fams : fst[lock][f] = "in_fake"
           \/ mode[lock] = "fake"

\* P10, hosts precedence: an enhanced resolution of a host with a hosts
\* entry that returns an address returns the hosts entry, whatever the
\* fake-IP engine, the ipv6 flag or the other family's future does.
HostsPrecedence ==
    \A t \in Tasks :
        (phase[t] = "done" /\ enh[t] /\ HostsTable[host[t]] # "none"
         /\ out[t].kind = "some") => out[t].src = "hosts"

NoPanic ==
    \A t \in Tasks : out[t].kind # "panic"

\* Spec 4.H step 3: an enhanced resolve of a host that has no hosts entry,
\* is not a literal and is not skipped returns fake_dns.lookup(host) when
\* fake-IP is enabled.
FakeIpHonoured ==
    \A t \in Tasks :
        (/\ op[t] = "resolve" /\ enh[t] /\ FakeEnabled /\ phase[t] = "done"
         /\ HostsTable[host[t]] = "none" /\ Literal[host[t]] = "none"
         /\ host[t] \notin FakeSkip /\ out[t].kind = "some")
        => out[t].src = "fake"

=============================================================================
