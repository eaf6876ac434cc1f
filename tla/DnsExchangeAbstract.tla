------------------------- MODULE DnsExchangeAbstract -------------------------
(***************************************************************************)
(* What Resolver::exchange promises its callers, with the pipeline of      *)
(* DnsExchange collapsed into atomic steps: a call is rejected, served    *)
(* from the store of earlier answers, or forwarded; a forwarded call ends *)
(* in one step that returns Failed or an answer of a pool the routing     *)
(* rules allow and, unless it is an _acme-challenge TXT answer, keeps it  *)
(* in the store in place of that question's older answer.  Entries leave *)
(* the store one at a time.  DnsExchange implements this specification   *)
(* under the mapping of DnsExchange!Abs.                                  *)
(***************************************************************************)
EXTENDS Naturals, TLAPS

CONSTANTS Requests, Names, QTypes, QCounts, AcmeNames, PolicyDomains,
          FallbackDomains, FallbackServers, FallbackDomainFilter, IPs,
          FilteredIPs, NoIP, NoResult, Failed, InvalidQuery

VARIABLES
    phase,   \* phase[r]: "idle" or "busy" (inside exchange)
    req,     \* req[r]: the message of r's current or last call
    answer,  \* answer[r]: what r's last call returned
    store    \* the set of kept answers, as entries [key, ans]

Questions == [name : Names, qtype : QTypes]
Messages ==
    {m \in [q : Questions, qcount : QCounts] :
        m.qcount = 0 => m.q = CHOOSE q \in Questions : TRUE}
Pools == {"main", "fallback", "policy"}
Answers == [msg : Messages, from : Pools, ip : IPs \cup {NoIP}]

IsIp(q) == q.qtype \in {"A", "AAAA"}
Filtering == FallbackServers /\ FallbackDomainFilter

\* The pools whose answer to m may be returned, and on the main-then-
\* fallback path the condition on main's answer: the policy pool for a
\* policy name, the fallback pool for an IP question of a fallback-only
\* name, main or fallback for any other IP question when a fallback pool
\* exists (main only with an address no IP filter matches), else main.
Allowed(m, a) ==
    /\ a.msg = m
    /\ a.ip # NoIP => IsIp(m.q)
    /\ IF Filtering /\ m.q.name \in PolicyDomains THEN a.from = "policy"
       ELSE IF IsIp(m.q) /\ Filtering /\ m.q.name \in FallbackDomains
       THEN a.from = "fallback"
       ELSE IF IsIp(m.q) /\ FallbackServers
       THEN \/ a.from = "fallback"
            \/ a.from = "main" /\ a.ip # NoIP /\ a.ip \notin FilteredIPs
       ELSE a.from = "main"

Keeps(q) == ~(q.qtype = "TXT" /\ q.name \in AcmeNames)

HasKey(k) == \E e \in store : e.key = k

Init ==
    /\ phase = [r \in Requests |-> "idle"]
    /\ req \in [Requests -> Messages]
    /\ answer = [r \in Requests |-> NoResult]
    /\ store = {}

\* exchange rejects a message without a question.
Reject(r, m) ==
    /\ phase[r] = "idle" /\ m.qcount = 0
    /\ req' = [req EXCEPT ![r] = m]
    /\ answer' = [answer EXCEPT ![r] = InvalidQuery]
    /\ UNCHANGED <<phase, store>>

\* exchange returns the kept answer to the question.
Hit(r, m) ==
    /\ phase[r] = "idle" /\ m.qcount > 0
    /\ \E e \in store : e.key = m.q /\ answer' = [answer EXCEPT ![r] = e.ans]
    /\ req' = [req EXCEPT ![r] = m]
    /\ UNCHANGED <<phase, store>>

\* exchange forwards a question nothing is kept for.
Forward(r, m) ==
    /\ phase[r] = "idle" /\ m.qcount > 0 /\ ~HasKey(m.q)
    /\ phase' = [phase EXCEPT ![r] = "busy"]
    /\ req' = [req EXCEPT ![r] = m]
    /\ answer' = [answer EXCEPT ![r] = NoResult]
    /\ UNCHANGED store

\* The forwarded call returns a: Failed, or an allowed answer, kept unless
\* it is an _acme-challenge TXT answer; keeping it replaces the older
\* answer to its question and may drop other entries.
Return(r) ==
    /\ phase[r] = "busy"
    /\ \E a \in {Failed} \cup {x \in Answers : Allowed(req[r], x)} :
          /\ answer' = [answer EXCEPT ![r] = a]
          /\ IF a # Failed /\ Keeps(req[r].q)
             THEN LET e == [key |-> req[r].q, ans |-> a] IN
                  /\ e \in store'
                  /\ store' \subseteq {x \in store : x.key # e.key} \cup {e}
             ELSE UNCHANGED store
    /\ phase' = [phase EXCEPT ![r] = "idle"]
    /\ UNCHANGED req

\* A kept answer expires.
Forget ==
    /\ \E e \in store : store' = store \ {e}
    /\ UNCHANGED <<phase, req, answer>>

Next ==
    \/ \E r \in Requests, m \in Messages : Reject(r, m) \/ Hit(r, m) \/ Forward(r, m)
    \/ \E r \in Requests : Return(r)
    \/ Forget

Spec == Init /\ [][Next]_<<phase, req, answer, store>>

-----------------------------------------------------------------------------
(* What the atomic exchange guarantees: every answer a call returns, and  *)
(* every kept answer, was produced for that question by a pool the       *)
(* routing rules allow; no _acme-challenge TXT answer is kept.            *)

\* a answers question q and comes from a pool allowed for its message
AnsFits(q, a) == a.msg.q = q /\ Allowed(a.msg, a)

\* The error outcomes are not answers (DnsExchange!ErrorsAssumption).
ErrorsApart == {NoResult, Failed, InvalidQuery} \cap Answers = {}

\* Every answer a caller got fits the question it asked.
ReturnsAllowed ==
    \A r \in Requests : answer[r] \in Answers => AnsFits(req[r].q, answer[r])

\* Every kept answer fits its key, and no _acme-challenge TXT one is kept.
StoreAllowed ==
    \A e \in store : e.ans \in Answers /\ AnsFits(e.key, e.ans) /\ Keeps(e.key)

AbsTypeOK ==
    /\ phase \in [Requests -> {"idle", "busy"}]
    /\ req \in [Requests -> Messages]
    /\ answer \in [Requests -> Answers \cup {NoResult, Failed, InvalidQuery}]

AbsInv == AbsTypeOK /\ ReturnsAllowed /\ StoreAllowed

LEMMA AbsInvInit == ASSUME ErrorsApart PROVE Init => AbsInv
BY DEF ErrorsApart, Init, AbsInv, AbsTypeOK, ReturnsAllowed, StoreAllowed

LEMMA AbsInvStep ==
    ASSUME ErrorsApart
    PROVE  AbsInv /\ [Next]_<<phase, req, answer, store>> => AbsInv'
<1> SUFFICES ASSUME AbsInv, [Next]_<<phase, req, answer, store>> PROVE AbsInv'
  OBVIOUS
<1>1. ASSUME NEW r \in Requests, NEW m \in Messages, Reject(r, m) PROVE AbsInv'
  BY <1>1 DEF ErrorsApart, Reject, AbsInv, AbsTypeOK, ReturnsAllowed, StoreAllowed
<1>2. ASSUME NEW r \in Requests, NEW m \in Messages, Hit(r, m) PROVE AbsInv'
  <2>1. PICK e \in store : e.key = m.q /\ answer' = [answer EXCEPT ![r] = e.ans]
    BY <1>2 DEF Hit
  <2>2. e.ans \in Answers /\ AnsFits(m.q, e.ans)
    BY <2>1 DEF AbsInv, StoreAllowed
  <2>3. QED
    BY <1>2, <2>1, <2>2 DEF Hit, AbsInv, AbsTypeOK, ReturnsAllowed, StoreAllowed
<1>3. ASSUME NEW r \in Requests, NEW m \in Messages, Forward(r, m) PROVE AbsInv'
  BY <1>3 DEF ErrorsApart, Forward, AbsInv, AbsTypeOK, ReturnsAllowed, StoreAllowed
<1>4. ASSUME NEW r \in Requests, Return(r) PROVE AbsInv'
  <2>1. PICK a \in {Failed} \cup {x \in Answers : Allowed(req[r], x)} :
          /\ answer' = [answer EXCEPT ![r] = a]
          /\ IF a # Failed /\ Keeps(req[r].q)
             THEN LET e == [key |-> req[r].q, ans |-> a] IN
                  /\ e \in store'
                  /\ store' \subseteq {x \in store : x.key # e.key} \cup {e}
             ELSE UNCHANGED store
    BY <1>4 DEF Return
  <2>2. UNCHANGED req
    BY <1>4 DEF Return
  <2>3. a \in Answers => AnsFits(req[r].q, a)
    BY <2>1 DEF AnsFits, ErrorsApart, Allowed, IsIp, Filtering
  <2>4. AbsTypeOK' /\ ReturnsAllowed'
    BY <1>4, <2>1, <2>2, <2>3 DEF Return, AbsInv, AbsTypeOK, ReturnsAllowed
  <2>5. CASE a # Failed /\ Keeps(req[r].q)
    <3>1. a \in Answers
      BY <2>1, <2>5
    <3>2. store' \subseteq store \cup {[key |-> req[r].q, ans |-> a]}
      BY <2>1, <2>5
    <3>3. QED
      BY <2>3, <2>4, <2>5, <3>1, <3>2 DEF AbsInv, StoreAllowed
  <2>6. CASE ~(a # Failed /\ Keeps(req[r].q))
    BY <2>1, <2>4, <2>6 DEF AbsInv, StoreAllowed
  <2>7. QED
    BY <2>5, <2>6
<1>5. CASE Forget
  BY <1>5 DEF Forget, AbsInv, AbsTypeOK, ReturnsAllowed, StoreAllowed
<1>6. CASE UNCHANGED <<phase, req, answer, store>>
  BY <1>6 DEF AbsInv, AbsTypeOK, ReturnsAllowed, StoreAllowed
<1>7. QED
  BY <1>1, <1>2, <1>3, <1>4, <1>5, <1>6 DEF Next

\* For every configuration, the atomic exchange only returns and keeps
\* answers produced for the question asked by an allowed pool, and never
\* keeps an _acme-challenge TXT answer.
THEOREM AbstractSafety == ASSUME ErrorsApart PROVE Spec => []AbsInv
BY AbsInvInit, AbsInvStep, PTL DEF Spec


=============================================================================
