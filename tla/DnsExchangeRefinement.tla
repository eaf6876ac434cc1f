------------------------- MODULE DnsExchangeRefinement -------------------------
(***************************************************************************)
(* Proof that DnsExchange implements DnsExchangeAbstract under the        *)
(* mapping Abs: every step of the pipeline is a step of the atomic        *)
(* exchange or leaves the abstract state alone.                          *)
(***************************************************************************)
EXTENDS DnsExchangeProofs

\* No two LRU entries share a key.
KeysUniqueSeq(s) ==
    \A i, j \in 1..Len(s) : s[i].key = s[j].key => i = j

\* A task awaiting a batch awaits the pool exchange_no_cache routes its
\* message to first, or fallback after main was rejected on the race path.
BatchRouted ==
    \A r \in Requests : pc[r] = "batch" =>
        /\ race[r] = RaceCase(msg[r])
        /\ \/ pending[r] = {FirstPool(msg[r])}
           \/ race[r] /\ pending[r] = {"fallback"}

\* The answer a task is about to insert is one the abstract exchange may
\* return and keep.
WriteAllowed ==
    \A r \in Requests : pc[r] = "cache_write" =>
        /\ IsAnswer(rv[r])
        /\ Abs!Allowed(msg[r], rv[r])
        /\ Abs!Keeps(msg[r].q)

-----------------------------------------------------------------------------
(* Lemmas: the LRU keeps one entry per key.                                *)

\* CacheRemove(c, k) leaves the entries of c whose key is not k, each once.
LEMMA CacheRemoveKeys ==
    ASSUME NEW c \in Seq(Entries), KeysUniqueSeq(c), NEW k
    PROVE  /\ CacheRemove(c, k) \in Seq(Entries)
           /\ KeysUniqueSeq(CacheRemove(c, k))
           /\ \A j \in 1..Len(CacheRemove(c, k)) :
                 /\ CacheRemove(c, k)[j].key # k
                 /\ \E i \in 1..Len(c) : CacheRemove(c, k)[j] = c[i]
<1>0. Len(c) \in Nat
  BY LenProperties
<1>1. CASE CacheHas(c, k)
  <2> DEFINE kk == CHOOSE i \in 1..Len(c) : c[i].key = k
             c0 == RemoveAt(c, kk)
             f(j) == IF j < kk THEN j ELSE j + 1
  <2>1. kk \in 1..Len(c) /\ c[kk].key = k
    BY <1>1 DEF CacheHas
  <2>2. CacheRemove(c, k) = c0
    BY <1>1 DEF CacheRemove
  <2> HIDE DEF kk, c0
  <2>3. /\ c0 \in Seq(Entries)
        /\ Len(c0) = Len(c) - 1
        /\ \A j \in 1..Len(c) - 1 : c0[j] = c[f(j)]
    BY <2>1, RemoveAtProperties DEF c0
  <2>4. \A j \in 1..Len(c0) : f(j) \in 1..Len(c) /\ f(j) # kk
    BY <1>0, <2>1, <2>3
  <2>5. \A j1, j2 \in 1..Len(c0) : f(j1) = f(j2) => j1 = j2
    BY <1>0, <2>1, <2>3
  <2>6. \A j \in 1..Len(c0) : c0[j].key # k /\ \E i \in 1..Len(c) : c0[j] = c[i]
    BY <1>0, <2>1, <2>3, <2>4 DEF KeysUniqueSeq
  <2>7. KeysUniqueSeq(c0)
    <3> SUFFICES ASSUME NEW j1 \in 1..Len(c0), NEW j2 \in 1..Len(c0),
                        c0[j1].key = c0[j2].key
                 PROVE  j1 = j2
      BY DEF KeysUniqueSeq
    <3>1. c[f(j1)].key = c[f(j2)].key
      BY <1>0, <2>3
    <3>2. f(j1) = f(j2)
      BY <2>4, <3>1 DEF KeysUniqueSeq
    <3>3. QED
      BY <2>5, <3>2
  <2>8. QED
    BY <2>2, <2>3, <2>6, <2>7
<1>2. CASE ~CacheHas(c, k)
  BY <1>2 DEF CacheRemove, CacheHas
<1>3. QED
  BY <1>1, <1>2 DEF Messages

\* The range of a sequence is the set of its elements.
LEMMA RangeSeq ==
    ASSUME NEW S, NEW s \in Seq(S)
    PROVE  Range(s) = {s[i] : i \in 1..Len(s)}
BY LenProperties DEF Range

\* Insertion keeps one entry per key, keeps the new entry and otherwise
\* only entries of other keys that were there before.
LEMMA CacheInsertKeys ==
    ASSUME NEW c \in Seq(Entries), Len(c) <= CacheCapacity, KeysUniqueSeq(c),
           NEW e \in Entries
    PROVE  /\ KeysUniqueSeq(CacheInsert(c, e))
           /\ e \in Range(CacheInsert(c, e))
           /\ Range(CacheInsert(c, e)) \subseteq {x \in Range(c) : x.key # e.key} \cup {e}
<1> USE ConstantsAssumption
<1> DEFINE c0 == CacheRemove(c, e.key)
           c1 == Append(c0, e)
<1>1. /\ c0 \in Seq(Entries)
      /\ KeysUniqueSeq(c0)
      /\ \A j \in 1..Len(c0) : c0[j].key # e.key /\ \E i \in 1..Len(c) : c0[j] = c[i]
  BY CacheRemoveKeys
<1>2. /\ c1 \in Seq(Entries)
      /\ Len(c1) = Len(c0) + 1
      /\ \A j \in 1..Len(c0) : c1[j] = c0[j]
      /\ c1[Len(c0) + 1] = e
  BY <1>1, AppendProperties
<1> HIDE DEF c0, c1
<1>3. Len(c0) \in Nat /\ Len(c) \in Nat
  BY <1>1, LenProperties
<1>4. KeysUniqueSeq(c1)
  BY <1>1, <1>2, <1>3 DEF KeysUniqueSeq
<1>5. \A j \in 1..Len(c1) :
         \/ c1[j] = e
         \/ c1[j].key # e.key /\ \E i \in 1..Len(c) : c1[j] = c[i]
  BY <1>1, <1>2, <1>3
<1>6. Range(c) = {c[i] : i \in 1..Len(c)}
  BY RangeSeq
<1>7. CASE Len(c1) > CacheCapacity
  <2>1. CacheInsert(c, e) = Tail(c1)
    BY <1>7 DEF CacheInsert, c0, c1
  <2>2. /\ Tail(c1) \in Seq(Entries)
        /\ Len(Tail(c1)) = Len(c1) - 1
        /\ \A j \in 1..Len(Tail(c1)) : Tail(c1)[j] = c1[j + 1]
    <3>1. c1 # << >>
      BY <1>2, <1>3
    <3>2. QED
      BY <1>2, <3>1, HeadTailProperties
  <2>3. Range(Tail(c1)) = {Tail(c1)[j] : j \in 1..Len(Tail(c1))}
    BY <2>2, RangeSeq
  <2>4. KeysUniqueSeq(Tail(c1))
    BY <1>4, <2>2 DEF KeysUniqueSeq
  <2>5. e \in Range(Tail(c1))
    <3>1. Len(c0) \in 1..Len(Tail(c1)) /\ Tail(c1)[Len(c0)] = e
      BY <1>2, <1>3, <1>7, <2>2
    <3>2. QED
      BY <2>3, <3>1
  <2>6. Range(Tail(c1)) \subseteq {x \in Range(c) : x.key # e.key} \cup {e}
    BY <1>5, <1>6, <2>2, <2>3
  <2>7. QED
    BY <2>1, <2>4, <2>5, <2>6
<1>8. CASE ~(Len(c1) > CacheCapacity)
  <2>1. CacheInsert(c, e) = c1
    BY <1>8 DEF CacheInsert, c0, c1
  <2>2. Range(c1) = {c1[j] : j \in 1..Len(c1)}
    BY <1>2, RangeSeq
  <2>3. e \in Range(c1)
    BY <1>2, <1>3, <2>2
  <2>4. Range(c1) \subseteq {x \in Range(c) : x.key # e.key} \cup {e}
    BY <1>5, <1>6, <2>2
  <2>5. QED
    BY <1>4, <2>1, <2>3, <2>4
<1>9. QED
  BY <1>7, <1>8

\* Dropping the oldest entry drops exactly that entry.
LEMMA TailKeys ==
    ASSUME NEW c \in Seq(Entries), c # << >>, KeysUniqueSeq(c)
    PROVE  /\ KeysUniqueSeq(Tail(c))
           /\ Range(Tail(c)) = Range(c) \ {c[1]}
<1>1. /\ Tail(c) \in Seq(Entries)
      /\ Len(Tail(c)) = Len(c) - 1
      /\ \A j \in 1..Len(Tail(c)) : Tail(c)[j] = c[j + 1]
  BY HeadTailProperties
<1>2. Len(c) \in Nat \ {0}
  BY EmptySeq, LenProperties
<1>3. Range(Tail(c)) = {Tail(c)[j] : j \in 1..Len(Tail(c))}
      /\ Range(c) = {c[i] : i \in 1..Len(c)}
  BY <1>1, RangeSeq
<1>4. \A i \in 2..Len(c) : c[i] # c[1]
  BY <1>2 DEF KeysUniqueSeq
<1>5. KeysUniqueSeq(Tail(c))
  BY <1>1, <1>2 DEF KeysUniqueSeq
<1>6. ASSUME NEW j \in 1..Len(Tail(c)) PROVE Tail(c)[j] \in Range(c) \ {c[1]}
  <2>1. j + 1 \in 2..Len(c) /\ Tail(c)[j] = c[j + 1]
    BY <1>1, <1>2
  <2>2. QED
    BY <1>3, <1>4, <2>1
<1>7. ASSUME NEW i \in 1..Len(c), c[i] # c[1] PROVE c[i] \in Range(Tail(c))
  <2>1. i - 1 \in 1..Len(Tail(c)) /\ Tail(c)[i - 1] = c[i]
    BY <1>1, <1>2, <1>7
  <2>2. QED
    BY <1>3, <2>1
<1>8. QED
  BY <1>3, <1>5, <1>6, <1>7

-----------------------------------------------------------------------------
(* Routing: an answer a batch may hand back is one the abstract exchange *)
(* may return.                                                            *)

LEMMA AnswersSame == Abs!Answers = Answers
BY DEF Abs!Answers, Answers, Abs!Messages, Messages, Abs!Questions, Questions,
       Abs!Pools, Pools

LEMMA OutcomeAllowed ==
    ASSUME NEW m \in Messages, NEW p \in Pools, NEW out \in Outcomes(m, p),
           out # Failed,
           p = FirstPool(m) \/ (RaceCase(m) /\ p = "fallback"),
           RaceCase(m) /\ p = "main" => MainAccepted(out)
    PROVE  out \in Answers /\ Abs!Allowed(m, out)
<1>1. out \in Answers /\ out.msg = m /\ out.from = p
      /\ (out.ip # NoIP => IsIpRequest(m.q))
  BY DEF Outcomes, Answers
<1>2. QED
  BY <1>1 DEF Abs!Allowed, Abs!IsIp, Abs!Filtering, FirstPool, RaceCase, MatchPolicy,
        ShouldOnlyQueryFallback, IsIpRequest, MainAccepted, ShouldIpFallback, IsAnswer

-----------------------------------------------------------------------------
(* The inductive invariant.                                                *)

RInv == FitsInv /\ KeysUniqueSeq(cache) /\ BatchRouted /\ WriteAllowed

LEMMA RInvInit == Init => RInv
<1> SUFFICES ASSUME Init PROVE RInv
  OBVIOUS
<1>1. FitsInv
  BY FitsInvInit
<1>2. KeysUniqueSeq(cache)
  BY DEF Init, KeysUniqueSeq
<1>3. BatchRouted /\ WriteAllowed
  BY DEF Init, BatchRouted, WriteAllowed
<1>4. QED
  BY <1>1, <1>2, <1>3 DEF RInv


LEMMA RInvStep == RInv /\ [Next]_vars => RInv'
<1> SUFFICES ASSUME RInv, [Next]_vars PROVE RInv'
  OBVIOUS
<1>0. FitsInv'
  BY FitsInvStep DEF RInv
<1> USE DEF RInv, FitsInv, TypeInv, TypeOK
<1>1. ASSUME NEW r \in Requests, NEW m \in Messages, Exchange(r, m)
      PROVE  RInv'
  <2>1. /\ msg' = [msg EXCEPT ![r] = m]
        /\ UNCHANGED <<rv, cache>>
        /\ pc[r] = "idle"
    BY <1>1 DEF Exchange
  <2>2. \/ UNCHANGED <<pc, pending>>
        \/ /\ pc' = [pc EXCEPT ![r] = "batch"]
           /\ pending' = [pending EXCEPT ![r] = {FirstPool(m)}]
           /\ race' = [race EXCEPT ![r] = RaceCase(m)]
    BY <1>1 DEF Exchange
  <2>3. race' = race \/ race' = [race EXCEPT ![r] = FALSE]
          \/ race' = [race EXCEPT ![r] = RaceCase(m)]
    BY <1>1 DEF Exchange
  <2>4. BatchRouted'
    BY <2>1, <2>2, <2>3 DEF BatchRouted
  <2>5. WriteAllowed'
    BY <2>1, <2>2 DEF WriteAllowed
  <2>6. QED
    BY <1>0, <2>1, <2>4, <2>5
<1>2. ASSUME NEW r \in Requests, Reply(r)
      PROVE  RInv'
  <2>1. PICK p \in pending[r] : \E out \in Outcomes(msg[r], p) :
            IF race[r] /\ p = "main"
            THEN /\ mainAns' = [mainAns EXCEPT ![r] = out]
                 /\ IF MainAccepted(out)
                    THEN Finish(r, out)
                    ELSE /\ pending' = [pending EXCEPT ![r] = {"fallback"}]
                         /\ UNCHANGED <<pc, rv, result>>
            ELSE /\ Finish(r, out)
                 /\ UNCHANGED mainAns
    BY <1>2 DEF Reply
  <2>2. PICK out \in Outcomes(msg[r], p) :
            IF race[r] /\ p = "main"
            THEN /\ mainAns' = [mainAns EXCEPT ![r] = out]
                 /\ IF MainAccepted(out)
                    THEN Finish(r, out)
                    ELSE /\ pending' = [pending EXCEPT ![r] = {"fallback"}]
                         /\ UNCHANGED <<pc, rv, result>>
            ELSE /\ Finish(r, out)
                 /\ UNCHANGED mainAns
    BY <2>1
  <2>3. UNCHANGED <<msg, race, cache>> /\ pc[r] = "batch"
    BY <1>2 DEF Reply
  <2>4. /\ race[r] = RaceCase(msg[r])
        /\ p = FirstPool(msg[r]) \/ (RaceCase(msg[r]) /\ p = "fallback")
    BY <2>3 DEF BatchRouted
  <2>5. CASE race[r] /\ p = "main" /\ ~MainAccepted(out)
    <3>1. /\ pending' = [pending EXCEPT ![r] = {"fallback"}]
          /\ UNCHANGED <<pc, rv>>
      BY <2>2, <2>5
    <3>2. BatchRouted'
      BY <2>3, <2>4, <2>5, <3>1 DEF BatchRouted
    <3>3. WriteAllowed'
      BY <2>3, <3>1 DEF WriteAllowed
    <3>4. QED
      BY <1>0, <2>3, <3>2, <3>3
  <2>6. CASE ~(race[r] /\ p = "main" /\ ~MainAccepted(out))
    <3>1. Finish(r, out)
      BY <2>2, <2>6
    <3>2. pc'[r] # "batch" /\ \A s \in Requests \ {r} :
             pc'[s] = pc[s] /\ pending'[s] = pending[s] /\ rv'[s] = rv[s]
      BY <3>1 DEF Finish
    <3>3. BatchRouted'
      BY <2>3, <3>2 DEF BatchRouted
    <3>4. CASE IsAnswer(out) /\ ~IsAcmeTxt(msg[r].q)
      <4>1. pc'[r] = "cache_write" /\ rv'[r] = out
        BY <3>1, <3>4 DEF Finish
      <4>2. out # Failed
        BY <3>4 DEF IsAnswer, Errors
      <4>3. RaceCase(msg[r]) /\ p = "main" => MainAccepted(out)
        BY <2>4, <2>6
      <4>4. Abs!Allowed(msg[r], out)
        BY <2>4, <4>2, <4>3, OutcomeAllowed
      <4>5. Abs!Keeps(msg[r].q)
        BY <3>4 DEF IsAcmeTxt, Abs!Keeps
      <4>6. WriteAllowed'
        BY <2>3, <3>2, <3>4, <4>1, <4>4, <4>5 DEF WriteAllowed
      <4>7. QED
        BY <1>0, <2>3, <3>3, <4>6
    <3>5. CASE ~(IsAnswer(out) /\ ~IsAcmeTxt(msg[r].q))
      <4>1. pc'[r] = "idle"
        BY <3>1, <3>5 DEF Finish
      <4>2. WriteAllowed'
        BY <2>3, <3>2, <4>1 DEF WriteAllowed
      <4>3. QED
        BY <1>0, <2>3, <3>3, <4>2
    <3>6. QED
      BY <3>4, <3>5
  <2>7. QED
    BY <2>5, <2>6
<1>3. ASSUME NEW r \in Requests, CacheWrite(r)
      PROVE  RInv'
  <2> DEFINE e == [key |-> Fingerprint(msg[r].q), ans |-> rv[r]]
  <2>1. /\ cache' = CacheInsert(cache, e)
        /\ pc' = [pc EXCEPT ![r] = "idle"]
        /\ UNCHANGED <<msg, pending, race>>
        /\ \A s \in Requests \ {r} : rv'[s] = rv[s]
    BY <1>3 DEF CacheWrite
  <2>2. e \in Entries
    BY <1>3 DEF CacheWrite, Entries, Messages, Fingerprint
  <2>3. KeysUniqueSeq(cache')
    BY <2>1, <2>2, CacheInsertKeys
  <2>4. BatchRouted' /\ WriteAllowed'
    BY <2>1 DEF BatchRouted, WriteAllowed
  <2>5. QED
    BY <1>0, <2>3, <2>4
<1>4. CASE Expire
  <2>1. cache # << >> /\ cache' = Tail(cache)
        /\ UNCHANGED <<pc, msg, pending, race, rv>>
    BY <1>4 DEF Expire
  <2>2. KeysUniqueSeq(cache')
    BY <2>1, TailKeys
  <2>3. BatchRouted' /\ WriteAllowed'
    BY <2>1 DEF BatchRouted, WriteAllowed
  <2>4. QED
    BY <1>0, <2>2, <2>3
<1>5. CASE UNCHANGED vars
  BY <1>0, <1>5 DEF vars, BatchRouted, WriteAllowed
<1>6. QED
  BY <1>1, <1>2, <1>3, <1>4, <1>5 DEF Next

-----------------------------------------------------------------------------
(* Step simulation.                                                        *)

phaseBar == [r \in Requests |-> IF pc[r] = "idle" THEN "idle" ELSE "busy"]
absVars == <<phaseBar, msg, result, Range(cache)>>

LEMMA InitRefined == Init => Abs!Init
<1> SUFFICES ASSUME Init PROVE Abs!Init
  OBVIOUS
<1>1. msg \in [Requests -> Abs!Messages]
  BY TypeInvInit DEF TypeInv, TypeOK, Messages, Abs!Messages, Questions, Abs!Questions
<1>2. Range(cache) = {}
  BY DEF Init, Range
<1>3. QED
  BY <1>1, <1>2 DEF Init, Abs!Init, phaseBar

LEMMA StepRefined == RInv /\ RInv' /\ [Next]_vars => [Abs!Next]_absVars
<1> SUFFICES ASSUME RInv, RInv', [Next]_vars PROVE [Abs!Next]_absVars
  OBVIOUS
<1> USE DEF RInv, FitsInv, TypeInv, TypeOK
<1>0. Range(cache) = {cache[i] : i \in 1..Len(cache)}
  <2>1. cache \in Seq(Entries)
    OBVIOUS
  <2>2. QED
    BY <2>1, RangeSeq
<1>1. ASSUME NEW r \in Requests, NEW m \in Messages, Exchange(r, m)
      PROVE  [Abs!Next]_absVars
  <2>1. /\ msg' = [msg EXCEPT ![r] = m]
        /\ UNCHANGED cache
        /\ pc[r] = "idle"
    BY <1>1 DEF Exchange
  <2>2. m \in Abs!Messages
    BY DEF Messages, Abs!Messages, Questions, Abs!Questions
  <2>3. CASE m.qcount = 0
    <3>1. result' = [result EXCEPT ![r] = InvalidQuery] /\ UNCHANGED pc
      BY <1>1, <2>3 DEF Exchange, Fingerprint
    <3>2. Abs!Reject(r, m)
      BY <2>1, <2>3, <3>1 DEF Abs!Reject, phaseBar
    <3>3. QED
      BY <2>2, <3>2 DEF Abs!Next
  <2>4. CASE m.qcount > 0 /\ CacheHas(cache, Fingerprint(m.q))
    <3>1. result' = [result EXCEPT ![r] = CacheGet(cache, Fingerprint(m.q))]
          /\ UNCHANGED pc
      BY <1>1, <2>4 DEF Exchange
    <3>2. PICK i \in 1..Len(cache) :
             cache[i].key = Fingerprint(m.q)
             /\ CacheGet(cache, Fingerprint(m.q)) = cache[i].ans
      BY <2>4, CacheGetProperties
    <3>3. cache[i] \in Range(cache) /\ cache[i].key = m.q
      BY <1>0, <3>2 DEF Fingerprint
    <3>4. Abs!Hit(r, m)
      BY <2>1, <2>4, <3>1, <3>2, <3>3 DEF Abs!Hit, phaseBar
    <3>5. QED
      BY <2>2, <3>4 DEF Abs!Next
  <2>5. CASE m.qcount > 0 /\ ~CacheHas(cache, Fingerprint(m.q))
    <3>1. pc' = [pc EXCEPT ![r] = "batch"] /\ result' = [result EXCEPT ![r] = NoResult]
      BY <1>1, <2>5 DEF Exchange
    <3>2. ~Abs!HasKey(m.q)
      BY <1>0, <2>5 DEF Abs!HasKey, CacheHas, Fingerprint
    <3>3. phaseBar' = [phaseBar EXCEPT ![r] = "busy"]
      BY <3>1 DEF phaseBar
    <3>4. Abs!Forward(r, m)
      BY <2>1, <2>5, <3>1, <3>2, <3>3 DEF Abs!Forward, phaseBar
    <3>5. QED
      BY <2>2, <3>4 DEF Abs!Next
  <2>6. QED
    BY <1>1, <2>3, <2>4, <2>5 DEF Exchange
<1>2. ASSUME NEW r \in Requests, Reply(r)
      PROVE  [Abs!Next]_absVars
  <2>1. PICK p \in pending[r] : \E out \in Outcomes(msg[r], p) :
            IF race[r] /\ p = "main"
            THEN /\ mainAns' = [mainAns EXCEPT ![r] = out]
                 /\ IF MainAccepted(out)
                    THEN Finish(r, out)
                    ELSE /\ pending' = [pending EXCEPT ![r] = {"fallback"}]
                         /\ UNCHANGED <<pc, rv, result>>
            ELSE /\ Finish(r, out)
                 /\ UNCHANGED mainAns
    BY <1>2 DEF Reply
  <2>2. PICK out \in Outcomes(msg[r], p) :
            IF race[r] /\ p = "main"
            THEN /\ mainAns' = [mainAns EXCEPT ![r] = out]
                 /\ IF MainAccepted(out)
                    THEN Finish(r, out)
                    ELSE /\ pending' = [pending EXCEPT ![r] = {"fallback"}]
                         /\ UNCHANGED <<pc, rv, result>>
            ELSE /\ Finish(r, out)
                 /\ UNCHANGED mainAns
    BY <2>1
  <2>3. UNCHANGED <<msg, cache>> /\ pc[r] = "batch"
    BY <1>2 DEF Reply
  <2>4. /\ race[r] = RaceCase(msg[r])
        /\ p = FirstPool(msg[r]) \/ (RaceCase(msg[r]) /\ p = "fallback")
    BY <2>3 DEF BatchRouted
  <2>5. CASE race[r] /\ p = "main" /\ ~MainAccepted(out)
    <3>1. UNCHANGED <<pc, result>>
      BY <2>2, <2>5
    <3>2. QED
      BY <2>3, <3>1 DEF absVars, phaseBar
  <2>6. CASE ~(race[r] /\ p = "main" /\ ~MainAccepted(out)) /\ IsAnswer(out)
             /\ ~IsAcmeTxt(msg[r].q)
    <3>1. pc' = [pc EXCEPT ![r] = "cache_write"] /\ UNCHANGED result
      BY <2>2, <2>6 DEF Finish
    <3>2. QED
      BY <2>3, <3>1 DEF absVars, phaseBar
  <2>7. CASE ~(race[r] /\ p = "main" /\ ~MainAccepted(out))
             /\ ~(IsAnswer(out) /\ ~IsAcmeTxt(msg[r].q))
    <3>1. pc' = [pc EXCEPT ![r] = "idle"] /\ result' = [result EXCEPT ![r] = out]
      BY <2>2, <2>7 DEF Finish
    <3>2. phaseBar' = [phaseBar EXCEPT ![r] = "idle"]
      BY <3>1 DEF phaseBar
    <3>3. out \in {Failed} \cup {x \in Abs!Answers : Abs!Allowed(msg[r], x)}
      <4>1. CASE out = Failed
        BY <4>1
      <4>2. CASE out # Failed
        <5>1. RaceCase(msg[r]) /\ p = "main" => MainAccepted(out)
          BY <2>4, <2>7
        <5>2. out \in Answers /\ Abs!Allowed(msg[r], out)
          BY <2>4, <4>2, <5>1, OutcomeAllowed
        <5>3. QED
          BY <5>2, AnswersSame
      <4>3. QED
        BY <4>1, <4>2
    <3>4. out # Failed => ~Abs!Keeps(msg[r].q)
      <4>1. out = Failed \/ out \in Answers
        BY OutcomesProperties
      <4>2. out \in Answers => IsAnswer(out)
        BY ErrorsAssumption DEF IsAnswer
      <4>3. QED
        BY <2>7, <4>1, <4>2 DEF IsAcmeTxt, Abs!Keeps
    <3>5. Abs!Return(r)
      BY <2>3, <3>1, <3>2, <3>3, <3>4 DEF Abs!Return, phaseBar
    <3>6. QED
      BY <3>5 DEF Abs!Next
  <2>8. QED
    BY <2>5, <2>6, <2>7
<1>3. ASSUME NEW r \in Requests, CacheWrite(r)
      PROVE  [Abs!Next]_absVars
  <2> DEFINE e == [key |-> Fingerprint(msg[r].q), ans |-> rv[r]]
  <2>1. /\ cache' = CacheInsert(cache, e)
        /\ pc' = [pc EXCEPT ![r] = "idle"]
        /\ result' = [result EXCEPT ![r] = rv[r]]
        /\ UNCHANGED msg
        /\ pc[r] = "cache_write"
    BY <1>3 DEF CacheWrite
  <2>2. e \in Entries
    BY <2>1 DEF Entries, Messages, Fingerprint
  <2>3. /\ e \in Range(cache')
        /\ Range(cache') \subseteq {x \in Range(cache) : x.key # e.key} \cup {e}
    BY <2>1, <2>2, CacheInsertKeys
  <2>4. /\ IsAnswer(rv[r])
        /\ Abs!Allowed(msg[r], rv[r])
        /\ Abs!Keeps(msg[r].q)
        /\ rv[r] \in Answers
    BY <2>1 DEF WriteAllowed
  <2>5. rv[r] # Failed /\ rv[r] \in Abs!Answers
    BY <2>4, AnswersSame DEF IsAnswer, Errors
  <2>6. phaseBar' = [phaseBar EXCEPT ![r] = "idle"]
    BY <2>1 DEF phaseBar
  <2>7. Abs!Return(r)
    BY <2>1, <2>3, <2>4, <2>5, <2>6 DEF Abs!Return, phaseBar, Fingerprint
  <2>8. QED
    BY <2>7 DEF Abs!Next
<1>4. CASE Expire
  <2>1. cache # << >> /\ cache' = Tail(cache)
        /\ UNCHANGED <<pc, msg, result>>
    BY <1>4 DEF Expire
  <2>2. Range(cache') = Range(cache) \ {cache[1]}
    BY <2>1, TailKeys
  <2>3. cache[1] \in Range(cache)
    <3>1. 1 \in 1..Len(cache)
      BY <2>1, EmptySeq, LenProperties
    <3>2. QED
      BY <1>0, <3>1
  <2>4. Abs!Forget
    BY <2>1, <2>2, <2>3 DEF Abs!Forget, phaseBar
  <2>5. QED
    BY <2>4 DEF Abs!Next
<1>5. CASE UNCHANGED vars
  BY <1>5 DEF vars, absVars, phaseBar
<1>6. QED
  BY <1>1, <1>2, <1>3, <1>4, <1>5 DEF Next

\* The pipeline implements the atomic exchange (ImplementsAbstract, checked
\* by TLC in the exchange_safety run): every behaviour of concurrent
\* exchange calls, with the main/fallback race, the separate cache write
\* and LRU expiry, maps to a behaviour of DnsExchangeAbstract.
THEOREM Refinement == Spec => ImplementsAbstract
<1>1. Spec => []RInv
  BY RInvInit, RInvStep, PTL DEF Spec
<1>2. QED
  BY <1>1, InitRefined, StepRefined, PTL DEF Spec, ImplementsAbstract, Abs!Spec, absVars, phaseBar

-----------------------------------------------------------------------------
(* Safety of the pipeline, carried down from the abstract exchange: what  *)
(* DnsExchangeAbstract guarantees of its answers and its store holds of  *)
(* exchange's results and of the LRU under the mapping Abs.               *)

\* The invariant of the refinement and the abstract invariant under Abs.
SafeInv == RInv /\ Abs!AbsInv

LEMMA AbsErrorsApart == Abs!ErrorsApart
BY ErrorsAssumption, AnswersSame DEF Abs!ErrorsApart, Errors

LEMMA SafeInvHolds == Spec => []SafeInv
<1>1. Init => SafeInv
  BY RInvInit, InitRefined, AbsErrorsApart, Abs!AbsInvInit DEF SafeInv
<1>2. SafeInv /\ [Next]_vars => SafeInv'
  <2> SUFFICES ASSUME SafeInv, [Next]_vars PROVE SafeInv'
    OBVIOUS
  <2>1. RInv'
    BY RInvStep DEF SafeInv
  <2>2. [Abs!Next]_absVars
    BY <2>1, StepRefined DEF SafeInv
  <2>3. Abs!AbsInv'
    BY <2>2, AbsErrorsApart, Abs!AbsInvStep DEF SafeInv, absVars, phaseBar
  <2>4. QED
    BY <2>1, <2>3 DEF SafeInv
<1>3. QED
  BY <1>1, <1>2, PTL DEF Spec

\* Spec 4.H, P7 (IpFallbackRespected, checked in exchange_safety): for
\* every configuration, on ip_exchange's main-then-fallback path an
\* answer of the main pool is returned, fresh or later from the LRU, only
\* when it has an address and no fallback IP filter matches that address.
THEOREM IpFallbackRespectedHolds == Spec => []IpFallbackRespected
<1>1. SafeInv => IpFallbackRespected
  <2> SUFFICES ASSUME SafeInv, NEW r \in Requests, pc[r] = "idle",
                      IsAnswer(result[r]), RaceCase(msg[r]), result[r].from = "main"
               PROVE  result[r].ip # NoIP /\ ~ShouldIpFallback(result[r].ip)
    BY DEF IpFallbackRespected
  <2>1. result[r] \in Abs!Answers
    BY AnswersSame DEF SafeInv, RInv, FitsInv, TypeInv, TypeOK, IsAnswer
  <2>2. Abs!AnsFits(msg[r].q, result[r])
    BY <2>1 DEF SafeInv, Abs!AbsInv, Abs!ReturnsAllowed
  <2>3. QED
    BY <2>2 DEF Abs!AnsFits, Abs!Allowed, Abs!IsIp, Abs!Filtering, RaceCase,
             MatchPolicy, ShouldOnlyQueryFallback, IsIpRequest, ShouldIpFallback
<1>2. QED
  BY <1>1, SafeInvHolds, PTL

\* A task awaits no batch unless it is in the batch phase.
PendingIdle == \A r \in Requests : pc[r] # "batch" => pending[r] = {}

LEMMA PendingIdleHolds == Spec => [](TypeInv /\ PendingIdle)
<1>1. Init => TypeInv /\ PendingIdle
  BY TypeInvInit DEF Init, PendingIdle
<1>2. TypeInv /\ PendingIdle /\ [Next]_vars => PendingIdle'
  <2> SUFFICES ASSUME TypeInv, PendingIdle, [Next]_vars PROVE PendingIdle'
    OBVIOUS
  <2> USE DEF TypeInv, TypeOK
  <2>1. ASSUME NEW r \in Requests, NEW m \in Messages, Exchange(r, m) PROVE PendingIdle'
    BY <2>1 DEF Exchange, PendingIdle
  <2>2. ASSUME NEW r \in Requests, Reply(r) PROVE PendingIdle'
    <3>1. PICK p \in pending[r] : \E out \in Outcomes(msg[r], p) :
              IF race[r] /\ p = "main"
              THEN /\ mainAns' = [mainAns EXCEPT ![r] = out]
                   /\ IF MainAccepted(out)
                      THEN Finish(r, out)
                      ELSE /\ pending' = [pending EXCEPT ![r] = {"fallback"}]
                           /\ UNCHANGED <<pc, rv, result>>
              ELSE /\ Finish(r, out)
                   /\ UNCHANGED mainAns
      BY <2>2 DEF Reply
    <3>2. pc[r] = "batch"
      BY <2>2 DEF Reply
    <3>3. QED
      BY <3>1, <3>2 DEF Finish, PendingIdle
  <2>3. ASSUME NEW r \in Requests, CacheWrite(r) PROVE PendingIdle'
    BY <2>3 DEF CacheWrite, PendingIdle
  <2>4. QED
    BY <2>1, <2>2, <2>3 DEF Next, Expire, vars, PendingIdle
<1>3. QED
  BY <1>1, <1>2, TypeInvStep, PTL DEF Spec

\* The configuration under which a nameserver policy is honoured: the
\* code consults the policy trie only when fallback servers and a
\* fallback domain filter are configured (resolver.rs match_policy; the
\* exchange_policy_without_fallback run shows what happens otherwise).
PolicyConsulted == PolicyDomains # {} => FallbackServers /\ FallbackDomainFilter

\* Spec 4.H, P5 and P6 (RoutedToConfiguredPool, checked in
\* exchange_safety): for every configuration in which the policy trie is
\* consulted, a policy name is only sent to the policy's clients and an
\* A/AAAA question of a fallback-filtered name only to the fallback pool,
\* also after main's answer was rejected on ip_exchange's race path.
THEOREM RoutedToConfiguredPoolHolds ==
    ASSUME PolicyConsulted PROVE Spec => []RoutedToConfiguredPool
<1>1. RInv /\ PendingIdle /\ PolicyConsulted => RoutedToConfiguredPool
  <2> SUFFICES ASSUME RInv, PendingIdle, PolicyConsulted,
                      NEW r \in Requests, NEW p \in pending[r]
               PROVE  /\ msg[r].q.name \in PolicyDomains => p = "policy"
                      /\ /\ IsIpRequest(msg[r].q)
                         /\ FallbackServers
                         /\ msg[r].q.name \in FallbackDomains \ PolicyDomains
                         => p = "fallback"
    BY DEF RoutedToConfiguredPool
  <2>1. pc[r] = "batch"
    BY DEF PendingIdle
  <2>2. /\ race[r] = RaceCase(msg[r])
        /\ p = FirstPool(msg[r]) \/ (race[r] /\ p = "fallback")
    BY <2>1 DEF RInv, BatchRouted
  <2>3. msg[r].q.name \in PolicyDomains => p = "policy"
    BY <2>2 DEF PolicyConsulted, FirstPool, RaceCase, MatchPolicy
  <2>4. /\ IsIpRequest(msg[r].q)
        /\ FallbackServers
        /\ msg[r].q.name \in FallbackDomains \ PolicyDomains
        => p = "fallback"
    BY <2>2, ConstantsAssumption DEF FirstPool, RaceCase, MatchPolicy, ShouldOnlyQueryFallback
  <2>5. QED
    BY <2>3, <2>4
<1>2. QED
  BY <1>1, PendingIdleHolds, SafeInvHolds, PTL DEF SafeInv


=============================================================================
