----------------------------- MODULE DnsExchange -----------------------------
(***************************************************************************)
(* The query pipeline of the clash-rs DNS resolver                        *)
(* (src/clash_lib/src/app/dns/resolver.rs): Resolver::exchange,           *)
(* exchange_no_cache, ip_exchange, match_policy,                          *)
(* should_only_query_fallback, should_ip_fallback and the 60 s LRU answer *)
(* cache, with several caller tasks running the pipeline concurrently.   *)
(*                                                                         *)
(* A DNS message is abstracted to its first question and its number of   *)
(* questions; an upstream answer to the first A/AAAA address of its      *)
(* answer section (or NoIP).  Each answer also records the message it    *)
(* answers and the pool that produced it: this is history kept for the   *)
(* properties, not data the program stores.  batch_exchange over a pool  *)
(* is one step whose outcome is a success from some client of the pool  *)
(* or Failed (every client failed, or the 10 s deadline expired).      *)
(***************************************************************************)
EXTENDS Naturals, Sequences, SequencesExt

CONSTANTS
    Requests,             \* caller tasks that may call exchange concurrently
    Names,                \* query names
    QTypes,               \* query types, a subset of {"A", "AAAA", "TXT"}
    QCounts,              \* numbers of questions a caller's message may carry
    AcmeNames,            \* names that start with "_acme-challenge."
    PolicyDomains,        \* names the nameserver-policy trie matches
    FallbackDomains,      \* names some fallback domain filter matches
    FallbackServers,      \* TRUE iff the fallback pool is configured
    FallbackDomainFilter, \* TRUE iff fallback_filter.domain is non-empty
    IPs,                  \* addresses an upstream may answer
    FilteredIPs,          \* addresses some fallback IP filter (GeoIP/CIDR) matches
    NoIP,                 \* an answer without any A/AAAA record
    NoResult,             \* no outcome yet
    Failed,               \* every client failed or the 10 s deadline expired
    InvalidQuery,         \* exchange was given a message without a question
    CacheCapacity         \* capacity of the LRU (4096 in the code)

ASSUME ConstantsAssumption ==
    /\ Requests # {}
    /\ Names # {} /\ QTypes # {} /\ QCounts # {}
    /\ QTypes \subseteq {"A", "AAAA", "TXT"}
    /\ QCounts \subseteq 0..2
    /\ AcmeNames \subseteq Names
    /\ PolicyDomains \subseteq Names
    /\ FallbackDomains \subseteq Names
    /\ FallbackServers \in BOOLEAN
    /\ FallbackDomainFilter \in BOOLEAN
    \* a domain filter that matches a name has been configured
    /\ FallbackDomains # {} => FallbackDomainFilter
    /\ FilteredIPs \subseteq IPs
    /\ NoIP \notin IPs
    /\ NoResult # Failed /\ NoResult # InvalidQuery /\ Failed # InvalidQuery
    /\ CacheCapacity \in Nat \ {0}

VARIABLES
    pc,       \* pc[r]: "idle", "batch" (awaiting batch_exchange) or "cache_write"
    msg,      \* msg[r]: the message of r's current or last exchange call
    pending,  \* pending[r]: the pools whose batch_exchange r is awaiting
    race,     \* race[r]: r is on ip_exchange's main-then-fallback path
    mainAns,  \* mainAns[r]: main's outcome on that path (history)
    rv,       \* rv[r]: the answer r is about to insert into the cache
    result,   \* result[r]: what r's last exchange call returned
    cache     \* the LRU: entries [key, ans] from least to most recent

vars == <<pc, msg, pending, race, mainAns, rv, result, cache>>

Pools == {"main", "fallback", "policy"}

Questions == [name : Names, qtype : QTypes]

\* A message without a question carries no name: its q is a fixed dummy.
Messages ==
    {m \in [q : Questions, qcount : QCounts] :
        m.qcount = 0 => m.q = CHOOSE q \in Questions : TRUE}

Answers == [msg : Messages, from : Pools, ip : IPs \cup {NoIP}]

Entries == [key : Questions, ans : Answers]

\* outcomes of an exchange call that are not an answer
Errors == {NoResult, Failed, InvalidQuery}

IsAnswer(x) == x \notin Errors

\* The error outcomes are not answers.
ASSUME ErrorsAssumption == Errors \cap Answers = {}

-----------------------------------------------------------------------------
(* Helpers of Resolver.                                                    *)

\* Mutant of Fingerprint: the key is built from the name alone.
FingerprintNameOnly(q) == [name |-> q.name, qtype |-> CHOOSE t \in QTypes : TRUE]

\* The cache key q.to_string(): name, type and class of the question.
Fingerprint(q) == q

\* Resolver::is_ip_request (the class is always IN in this model).
IsIpRequest(q) == q.qtype \in {"A", "AAAA"}

\* The do-not-cache rule of exchange_no_cache.
IsAcmeTxt(q) == q.qtype = "TXT" /\ q.name \in AcmeNames

\* Resolver::match_policy: the policy trie is only consulted when the
\* fallback pool and the fallback domain filters are both configured.
MatchPolicy(m) ==
    /\ FallbackServers
    /\ FallbackDomainFilter
    /\ m.q.name \in PolicyDomains

\* Resolver::should_only_query_fallback.
ShouldOnlyQueryFallback(m) ==
    /\ FallbackServers
    /\ FallbackDomainFilter
    /\ m.q.name \in FallbackDomains

\* Resolver::should_ip_fallback over the configured GeoIP and CIDR filters.
ShouldIpFallback(ip) == ip \in FilteredIPs

\* Mutant of FirstPool: the fallback domain filter is tried before the
\* policy.
FirstPoolFilterFirst(m) ==
    IF IsIpRequest(m.q) /\ ShouldOnlyQueryFallback(m) THEN "fallback"
    ELSE IF MatchPolicy(m) THEN "policy"
    ELSE "main"

\* The pool exchange_no_cache / ip_exchange sends m to first.
FirstPool(m) ==
    IF MatchPolicy(m) THEN "policy"
    ELSE IF IsIpRequest(m.q) /\ ShouldOnlyQueryFallback(m) THEN "fallback"
    ELSE "main"

\* ip_exchange's last case: main first, fallback if main is not accepted.
RaceCase(m) ==
    /\ IsIpRequest(m.q)
    /\ ~MatchPolicy(m)
    /\ ~ShouldOnlyQueryFallback(m)
    /\ FallbackServers

\* Mutant of MainAccepted: the IP filters are not consulted.
MainAcceptedNoFilter(out) == IsAnswer(out) /\ out.ip # NoIP

\* ip_exchange returns main's result: it succeeded, its first address
\* exists and no IP filter matches it.
MainAccepted(out) ==
    /\ IsAnswer(out)
    /\ out.ip # NoIP
    /\ ~ShouldIpFallback(out.ip)

\* What a batch_exchange of m over pool p may return.
Outcomes(m, p) ==
    {Failed} \cup
    {[msg |-> m, from |-> p, ip |-> i] :
        i \in IF IsIpRequest(m.q) THEN IPs \cup {NoIP} ELSE {NoIP}}

-----------------------------------------------------------------------------
(* The LRU (lru_time_cache::LruCache with a fixed 60 s expiry).  peek     *)
(* does not refresh an entry, so entries expire and are evicted in the    *)
(* order they were inserted: the sequence is kept in that order.          *)

CacheHas(c, k) == \E i \in 1..Len(c) : c[i].key = k

CacheGet(c, k) == c[CHOOSE i \in 1..Len(c) : c[i].key = k].ans

CacheRemove(c, k) ==
    IF CacheHas(c, k)
    THEN RemoveAt(c, CHOOSE i \in 1..Len(c) : c[i].key = k)
    ELSE c

\* Mutant of CacheInsert: the capacity check is off by one.
CacheInsertOffByOne(c, e) ==
    LET c1 == Append(CacheRemove(c, e.key), e)
    IN  IF Len(c1) > CacheCapacity + 1 THEN Tail(c1) ELSE c1

\* Mutant of CacheInsert: the entry just inserted is the one evicted.
CacheInsertEvictNewest(c, e) ==
    LET c1 == Append(CacheRemove(c, e.key), e)
    IN  IF Len(c1) > CacheCapacity THEN SubSeq(c1, 1, Len(c1) - 1) ELSE c1

\* insert: replace the key's entry, make it the most recent, and evict
\* the least recent entry when the capacity is exceeded.
CacheInsert(c, e) ==
    LET c1 == Append(CacheRemove(c, e.key), e)
    IN  IF Len(c1) > CacheCapacity THEN Tail(c1) ELSE c1

-----------------------------------------------------------------------------
Init ==
    /\ pc = [r \in Requests |-> "idle"]
    /\ msg = [r \in Requests |-> CHOOSE m \in Messages : TRUE]
    /\ pending = [r \in Requests |-> {}]
    /\ race = [r \in Requests |-> FALSE]
    /\ mainAns = [r \in Requests |-> NoResult]
    /\ rv = [r \in Requests |-> NoResult]
    /\ result = [r \in Requests |-> NoResult]
    /\ cache = <<>>

\* Resolver::exchange(m) called by task r: reject a message without a
\* question, return a live cached answer, or go to exchange_no_cache,
\* which routes the message to its first pool.
Exchange(r, m) ==
    /\ pc[r] = "idle"
    /\ msg' = [msg EXCEPT ![r] = m]
    /\ mainAns' = [mainAns EXCEPT ![r] = NoResult]
    /\ \/ /\ m.qcount = 0
          /\ result' = [result EXCEPT ![r] = InvalidQuery]
          /\ race' = [race EXCEPT ![r] = FALSE]
          /\ UNCHANGED <<pc, pending>>
       \/ /\ m.qcount > 0
          /\ CacheHas(cache, Fingerprint(m.q))
          /\ result' = [result EXCEPT ![r] = CacheGet(cache, Fingerprint(m.q))]
          /\ race' = [race EXCEPT ![r] = FALSE]
          /\ UNCHANGED <<pc, pending>>
       \/ /\ m.qcount > 0
          /\ ~CacheHas(cache, Fingerprint(m.q))
          /\ pc' = [pc EXCEPT ![r] = "batch"]
          /\ pending' = [pending EXCEPT ![r] = {FirstPool(m)}]
          /\ race' = [race EXCEPT ![r] = RaceCase(m)]
          /\ result' = [result EXCEPT ![r] = NoResult]
    /\ UNCHANGED <<rv, cache>>

\* The end of exchange_no_cache with outcome out: a success that is not
\* an _acme-challenge TXT answer goes on to the cache write.
Finish(r, out) ==
    /\ pending' = [pending EXCEPT ![r] = {}]
    /\ IF IsAnswer(out) /\ ~IsAcmeTxt(msg[r].q)
       THEN /\ pc' = [pc EXCEPT ![r] = "cache_write"]
            /\ rv' = [rv EXCEPT ![r] = out]
            /\ UNCHANGED result
       ELSE /\ pc' = [pc EXCEPT ![r] = "idle"]
            /\ result' = [result EXCEPT ![r] = out]
            /\ UNCHANGED rv

\* Mutant of Reply: a rejected main result makes r query main again.
ReplyRetryMain(r) ==
    /\ pc[r] = "batch"
    /\ \E p \in pending[r] : \E out \in Outcomes(msg[r], p) :
        IF race[r] /\ p = "main"
        THEN /\ mainAns' = [mainAns EXCEPT ![r] = out]
             /\ IF MainAccepted(out)
                THEN Finish(r, out)
                ELSE UNCHANGED <<pc, pending, rv, result>>
        ELSE /\ Finish(r, out)
             /\ UNCHANGED mainAns
    /\ UNCHANGED <<msg, race, cache>>

\* The batch_exchange r awaits returns out.  On ip_exchange's race path
\* main's result is returned only when MainAccepted; otherwise the
\* fallback batch is awaited next.
Reply(r) ==
    /\ pc[r] = "batch"
    /\ \E p \in pending[r] : \E out \in Outcomes(msg[r], p) :
        IF race[r] /\ p = "main"
        THEN /\ mainAns' = [mainAns EXCEPT ![r] = out]
             /\ IF MainAccepted(out)
                THEN Finish(r, out)
                ELSE /\ pending' = [pending EXCEPT ![r] = {"fallback"}]
                     /\ UNCHANGED <<pc, rv, result>>
        ELSE /\ Finish(r, out)
             /\ UNCHANGED mainAns
    /\ UNCHANGED <<msg, race, cache>>

\* lru.write().await.insert(q.to_string(), msg.clone()); then return.
CacheWrite(r) ==
    /\ pc[r] = "cache_write"
    /\ cache' = CacheInsert(cache, [key |-> Fingerprint(msg[r].q), ans |-> rv[r]])
    /\ pc' = [pc EXCEPT ![r] = "idle"]
    /\ result' = [result EXCEPT ![r] = rv[r]]
    /\ rv' = [rv EXCEPT ![r] = NoResult]
    /\ UNCHANGED <<msg, pending, race, mainAns>>

\* 60 s pass for the least recently inserted entry: it becomes invisible
\* to peek and is dropped on the next insert.
Expire ==
    /\ cache # <<>>
    /\ cache' = Tail(cache)
    /\ UNCHANGED <<pc, msg, pending, race, mainAns, rv, result>>

Next ==
    \/ \E r \in Requests, m \in Messages : Exchange(r, m)
    \/ \E r \in Requests : Reply(r) \/ CacheWrite(r)
    \/ Expire

\* Every batch_exchange ends within its 10 s deadline and the tokio
\* RwLock grants the write lock, so a waiting step is eventually taken.
Fairness == \A r \in Requests : WF_vars(Reply(r)) /\ WF_vars(CacheWrite(r))

Spec == Init /\ [][Next]_vars

FairSpec == Spec /\ Fairness

-----------------------------------------------------------------------------
(* Properties.                                                             *)

TypeOK ==
    /\ pc \in [Requests -> {"idle", "batch", "cache_write"}]
    /\ msg \in [Requests -> Messages]
    /\ pending \in [Requests -> SUBSET Pools]
    /\ race \in [Requests -> BOOLEAN]
    /\ mainAns \in [Requests -> Errors \cup Answers]
    /\ rv \in [Requests -> Errors \cup Answers]
    /\ result \in [Requests -> Errors \cup Answers]
    /\ cache \in Seq(Entries)
    /\ Len(cache) <= CacheCapacity

\* What exchange returns answers the question asked: a cached answer
\* served to a later caller (resolver.rs exchange, lru peek keyed by
\* q.to_string()) was produced for the same name, type and class.
AnswerFitsQuestion ==
    \A r \in Requests :
        pc[r] = "idle" /\ IsAnswer(result[r]) => result[r].msg.q = msg[r].q

\* Spec 4.H, P7: for an IP question that ip_exchange races main against
\* fallback, an answer of the main pool is only ever returned (fresh or
\* later from the cache) when it has a first address and no fallback IP
\* filter matches it.
IpFallbackRespected ==
    \A r \in Requests :
        /\ pc[r] = "idle"
        /\ IsAnswer(result[r])
        /\ RaceCase(msg[r])
        /\ result[r].from = "main"
        => /\ result[r].ip # NoIP
           /\ ~ShouldIpFallback(result[r].ip)

\* Spec 4.H, P5 and P6: a question whose name matches a nameserver policy
\* is only sent to the policy's clients; an A/AAAA question whose name
\* matches a fallback domain filter (with a fallback pool configured) is
\* only sent to the fallback pool (exchange_no_cache, ip_exchange).
RoutedToConfiguredPool ==
    \A r \in Requests : \A p \in pending[r] :
        /\ msg[r].q.name \in PolicyDomains => p = "policy"
        /\ /\ IsIpRequest(msg[r].q)
           /\ FallbackServers
           /\ msg[r].q.name \in FallbackDomains \ PolicyDomains
           => p = "fallback"

\* Every exchange call returns: each batch ends by its deadline and the
\* cache write completes (Fairness).
ExchangeTerminates ==
    \A r \in Requests : pc[r] # "idle" ~> pc[r] = "idle"

\* The detailed pipeline seen as the atomic exchange of
\* DnsExchangeAbstract: a caller is busy from the cache miss to its
\* return, and the store is the set of the LRU's entries.
Abs == INSTANCE DnsExchangeAbstract
         WITH phase <- [r \in Requests |-> IF pc[r] = "idle" THEN "idle" ELSE "busy"],
              req <- msg, answer <- result, store <- Range(cache)

\* Every run of concurrent exchange calls, with the race of main against
\* fallback, the separate cache write and LRU expiry, is a run of atomic
\* exchanges that each answer from a pool the routing allows and keep
\* what they return (exchange, exchange_no_cache, ip_exchange).
ImplementsAbstract == Abs!Spec

(* Statements of the spec the code does not meet (violation runs).       *)

\* Spec 4.H ip_exchange step 4: when main succeeds and no IP filter
\* matches the first A/AAAA of its answer, main's answer is returned; an
\* answer without any A/AAAA record gives the filters nothing to match.
MainNoDataReturned ==
    \A r \in Requests :
        /\ pc[r] = "idle"
        /\ race[r]
        /\ IsAnswer(mainAns[r])
        /\ mainAns[r].ip = NoIP
        => result[r] = mainAns[r]

=============================================================================
